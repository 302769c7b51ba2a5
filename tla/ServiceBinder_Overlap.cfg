SPECIFICATION Spec
CONSTANTS
    Clients = {c1, c2}
    MaxTasks = 2
    MaxCrash = 1
SYMMETRY ClientSymmetry
INVARIANTS
    InSync
    
