SPECIFICATION Spec
CONSTANTS
    MaxStarts = 2
    Levels = {"info", "error"}
    DefaultLevel = "info"
    MaxEntries = 1
    MaxEmitted = 2
    Conn = {"c1", "c2"}
    MaxPolls = 2
    Modes = {"rule", "global", "direct"}
    FirstMode = "rule"
    MaxLoads = 2
    MaxPatches = 3
    MaxFetched = 2
    MaxTraffic = 3
    LastDay = 3
    FirstDays = {0, 2}
    KeptDays = 2
    MaxJobs = 2
    MaxReads = 1
INVARIANTS
    ClosedStayAway
    CardAgrees
    SwitchAgrees
    UpdateIsListed
    NeverOvercounts
    MonthIsWhole
PROPERTIES
    LogsShown
    ViewCatchesUp
CHECK_DEADLOCK FALSE
