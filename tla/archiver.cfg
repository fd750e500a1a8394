SPECIFICATION Spec
CONSTANTS
    i1 = i1
    i2 = i2
    i3 = i3
    s1 = s1
    s2 = s2
    Schemas = {s1, s2}
    Imeis = {i1, i2, i3}
    SchemaOf <- MCSchemaOf
    ArchiveAfter = 1
    DeleteAfter = 2
    MaxLate = 1
    MaxTime = 5
    MaxRows = 4
INVARIANTS
    TypeOK
    LostOnlyByReplacement
    WatermarkHonest
    ArchivedOnceWhileClean
PROPERTY RecentRowsStay
SYMMETRY MCSymmetry
CHECK_DEADLOCK FALSE
