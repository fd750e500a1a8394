SPECIFICATION CertSpec
CONSTANTS
    Requests = {r1, r2}
    Handlers = {"getOrIssue"}
    MaxCerts = 3
PROPERTY GetNeverRotates
