SPECIFICATION Spec
CONSTANTS
    MaxQueue = 3
    Broadcasts = {"close", "reload"}
INVARIANTS
    ProtectedDials
    
    TransitionsHaveOwner
    RevokedIsNoticed
    ReleasedWhenOver
    
PROPERTIES
    TransitionsSettle
    
