SPECIFICATION ApiSpec
CONSTANTS
    Jobs = {j1}
    MaxRows = 3
    BufferRows = 2
    UploadFaults = TRUE
    Crashes = TRUE
    Requests = {r1, r2}
    Handlers = {"getOrIssue", "rotate", "info"}
    MaxCerts = 4
    Trackers = {d1, d2}
    Watched = {d1, d2}
    MaxClock = 2
    MaxMeasures = 3
CHECK_DEADLOCK FALSE
INVARIANTS
    ApiTypeOK
    ReadyIsComplete
    AnswersWereTrue
    PollingMissesNothing
    EmptyMeansNone
PROPERTIES
    StatusMovesForward
    ClientSeesForward
    RecordsExpire
    RunsEndOrUploadFails
    ReplacedKnowingly
