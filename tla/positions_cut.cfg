SPECIFICATION StreamSpec
CONSTANTS
    Trackers = {d1}
    Watched = {d1}
    MaxClock = 3
    MaxMeasures = 2
INVARIANT CutIsDetected
