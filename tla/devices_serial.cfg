SPECIFICATION Spec
CONSTANTS
    NoTenant = NoTenant
    Nothing = Nothing
    Tenants = {t1, t2}
    Imeis = {i1, i2}
    Types = {teltonika, other}
    Requests = {r1}
    MaxInflight = 1
    AgentSkipsDuplicates = TRUE
    AgentDropsUnknown = TRUE
    Overlap = "none"
SYMMETRY Symmetry
INVARIANTS
    TypeOK
    CreatedEverywhere
    DeletedEverywhere
    NoOrphanEntity
    MetadataHasOwner
PROPERTIES
    MappingReleasedLast
    HandlersAdvance
