SPECIFICATION FrontendSpec
CONSTANTS
    i1 = i1
    i2 = i2
    r1 = r1
    r2 = r2
    Imeis = {i1, i2}
    NoFile = NoFile
    Types = {t1, t2}
    Files <- MCFiles
    Typed = {"bad", i1}
    MaxPosts = 2
    MaxElsewhere = 1
    Fields = {"plate", "make"}
    Required = "plate"
    Values = {"a", "b"}
    Absent = Absent
    OutsideMetas <- MCOutside
    Store0 <- MCStore
    CsvFiles <- MCCsvFiles
    MaxWrites = 2
    MaxOutside = 1
    MaxSerial = 3
    Requests = {r1, r2}
CHECK_DEADLOCK FALSE
INVARIANTS
    FrontendTypeOK
    EachRecordWasCreated
    BelievedWasRegistered
    SummaryIsTrue
    TableIsCurrent
    SavedIsShown
    AnswersAreTrue
PROPERTY ConfirmIsAnswered
