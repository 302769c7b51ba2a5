SPECIFICATION Spec
CONSTANTS
    MaxQueue = 3
    Broadcasts = {"close", "reload"}
INVARIANTS
    CallsLiveReference
