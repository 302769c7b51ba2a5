SPECIFICATION PathSpec
CONSTANTS
    a1 = a1
    a2 = a2
    None = None
    MaxJumps = 2
    Hosts <- MCHosts
    Addrs = {a1, a2}
    Ttls = {0, 3}
    AnswerLists <- MCAnswerLists
    MinTtl = 1
    MaxTtl = 2
    EvictionThreshold = 1
    Defaults <- MCDefaults
    UserServers = {"8.8.8.8", "plain", None}
    Https = {"8.8.8.8", "1.1.1.1"}
    MaxQueries = 2
    MaxTime = 2
    MaxSessions = 2
    MaxChanges = 1
    Words = {1, 15059, 65535}
    HeaderWords = {5, 6}
    Payloads = {0, 65507}
    NameLengths = {1, 255}
    MaxLoops = 3
    MaxFd = 2
    Capacity = 1
    MaxRelay = 1
INVARIANTS
    StartedLoopRuns
    NamedByAnswers
    FreshIsNamed
    UnansweredIfAllFail
    
    RelayStartsClean
PROPERTIES
    StoppedRunsEnd
CHECK_DEADLOCK FALSE
