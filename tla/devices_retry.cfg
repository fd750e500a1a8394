SPECIFICATION Spec
CONSTANTS
    NoTenant = NoTenant
    Nothing = Nothing
    Tenants = {t1, t2}
    Imeis = {i1}
    Types = {teltonika}
    Requests = {r1}
    MaxInflight = 1
    AgentSkipsDuplicates = TRUE
    AgentDropsUnknown = TRUE
    Overlap = "none"
INVARIANT RegisteredIsListed
