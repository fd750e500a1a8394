SPECIFICATION Spec
CONSTANTS
    NoTenant = NoTenant
    Nothing = Nothing
    Tenants = {t1, t2}
    Imeis = {i1}
    Types = {teltonika}
    Requests = {r1, r2}
    MaxInflight = 0
    AgentSkipsDuplicates = TRUE
    AgentDropsUnknown = TRUE
    Overlap = "any"
PROPERTY OwnershipRespected
