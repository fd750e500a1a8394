SPECIFICATION Spec
CONSTANTS
    NoTenant = NoTenant
    Nothing = Nothing
    Tenants = {t1, t2}
    Imeis = {i1}
    Types = {teltonika, other}
    Requests = {r1, r2}
    MaxInflight = 1
    AgentSkipsDuplicates = TRUE
    AgentDropsUnknown = FALSE
    Overlap = "tenant"
SYMMETRY Symmetry
INVARIANT AgentDevicesHaveGroup
PROPERTY OwnershipRespected
