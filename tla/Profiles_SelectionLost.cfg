SPECIFICATION Spec
CONSTANTS
    Jobs = {j1, j2}
    MaxId = 1
    MaxVersion = 1
    Urls = {"", "a"}
    Proxies = {"p1"}
INVARIANTS
    SelectionsKept
CHECK_DEADLOCK FALSE
