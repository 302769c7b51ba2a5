SPECIFICATION Spec
CONSTANTS
    Profiles = {A, B}
    Proxies <- MCProxies
    Texts <- MCTexts
    Stored = {"p2", "gone", None}
    None = None
    MaxEvents <- MCMaxEvents
INVARIANTS
    HomeShowsService
    ChoiceIsOne
    EngineUsesChoice
PROPERTIES
    ChoiceStays
SYMMETRY ProfileSymmetry
CHECK_DEADLOCK FALSE
