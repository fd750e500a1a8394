SPECIFICATION ExportFairSpec
CONSTANTS
    Jobs = {j1}
    MaxRows = 3
    BufferRows = 2
    UploadFaults = TRUE
    Crashes = FALSE
PROPERTY RunsEnd
CHECK_DEADLOCK FALSE
