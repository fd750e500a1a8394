SPECIFICATION Spec
CONSTANTS
    i1 = i1
    i2 = i2
    i3 = i3
    s1 = s1
    s2 = s2
    Schemas = {s1}
    Imeis = {i1}
    SchemaOf <- MCSchemaOf
    ArchiveAfter = 1
    DeleteAfter = 2
    MaxLate = 1
    MaxTime = 6
    MaxRows = 2
INVARIANT NoDataLoss
CHECK_DEADLOCK FALSE
