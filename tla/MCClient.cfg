SPECIFICATION ClientSpec
CONSTANTS
    NumOps = 2
    Runs = {r1, r2}
    MaxFaults = 2
    r1 = r1
    r2 = r2
    c1 = c1
    c2 = c2
    Callers = {c1, c2}
    BootCalls = {1, 2, 3}
    MaxCacheCalls = 3
    MaxStackCalls = 5
    MaxSwapCalls = 4
    MaxBootCalls = 6
    MaxFrontendCalls = 3
    MaxGateCalls = 3
    MaxWikiCalls = 4
    MaxMergeCalls = 4
    MaxEngineCalls = 3
    MaxTextCalls = 2
    MaxVersion = 2
    MaxDeployments = 2
    LastVersion = 4
    MaxStored = 2
    LastFeature = 2
    Successors = {}
    Endpoints <- ShownEndpoints
    Roles = {"admin", "member"}
    Grants = {"read", "write"}
    LastNode = 2
    Options = {"a", "b"}
    LastNumber = 2
    Keys = {"k", "p"}
    Schemas = {0, 1}
    MaxLength = 4
    Permissions = {"read", "write"}
    Files <- SomeFiles
    Named <- NamesMatch
    Tests <- SomeTests
    Forbidden = {"tsIgnore"}
    Mandatory = {"metadata"}
    Rules <- SomeRules
    LastDoc = 3
    Index = 1
    PageOf <- PageNames
    BareName <- BareNames
    Links <- SomeLinks
    Attachments = {"logo"}
INVARIANTS
    PartsTypeOK
    NeverLost
    RepeatedOnlyInDoubt
    InOrderUnlessDisturbed
    KeptIsCurrent
    FeaturesSound
    EnginesSound
PROPERTIES
    UpdatesAreSound
    
CHECK_DEADLOCK FALSE
