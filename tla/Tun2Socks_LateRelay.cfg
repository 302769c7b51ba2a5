SPECIFICATION LoopSpec
CONSTANTS
    MaxLoops = 1
    MaxFd = 1
    Capacity = 1
    MaxRelay = 1
INVARIANTS
    NothingFlowsIn
CHECK_DEADLOCK FALSE
