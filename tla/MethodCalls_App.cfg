SPECIFICATION CallsSpec
CONSTANTS
    Jobs = {j1}
    MaxId = 2
    MaxVersion = 2
    Urls = {"", "a"}
    Proxies = {"p1"}
    Texts = {"a", "bad"}
    Broken = {"bad"}
    Upstream = {"a"}
    MaxWrites = 2
    MaxInbox = 1
    MaxSaves = 1
    MaxGets = 2
    Apps = {"a", "b"}
    Self = "self"
    MaxPackages = 2
    MaxPerAppSaves = 1
    Fetches = {"f1", "f2"}
    Tests = {"tcp", "proxy"}
    EngineTests = {"proxy"}
    MaxToggles = 2
INVARIANTS
    
    CalmSavesAreValid
    ListShowsRow
    CarriesChoice
    AnswersAreOwn

    
CHECK_DEADLOCK FALSE
