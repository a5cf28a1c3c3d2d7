SPECIFICATION BackendSpec
CONSTANTS
    TotalSteps = 3
    Handlers = {h1}
    OffCurrent = {"approve", "reject"}
    MaxCalls = 8
    MaxFaults = 2
    h1 = h1
    i1 = i1
    i2 = i2
    i3 = i3
    i4 = i4
    u1 = u1
    u2 = u2
    u3 = u3
    p1 = p1
    p2 = p2
    p3 = p3
    r = r
    r1 = r1
    r2 = r2
    OneId = {i1}
    SomeIds = {i1, i2}
    OneRequest = {r}
    SomeRequests = {r1, r2}
    LastInviteTick = 2
    LastEventTick = 2
    LastMoneyTick = 1
    LastRecordTick = 1
    LastGrantTick = 1
    LastRuleTick = 12
    LastOrgTick = 0
    LastTermTick = 0
    MaxInviteCommands = 5
    MaxEventCommands = 5
    MaxMoneyCommands = 4
    MaxRecordCommands = 5
    MaxGrantCommands = 3
    MaxRuleCommands = 4
    MaxOrgCommands = 5
    MaxTermCommands = 4
    AskedDays = {0, 1, 366}
    MaxDays = 365
    Amounts = {1}
    RecordTexts = {"a"}
    MaxDepth = 3
    Account = i4
    MaxSessions = 1
    LockAfter = 2
    SessionTTL = 1
    Users = {p1, p2, p3}
    Admins = {p1}
    Superadmins = {}
    Scopes = {"org", "group"}
    GrantDays = {1, 3}
    MaxGrantDays = 2
    TermValues = {i2}
    AskedTimeouts = {0, 1}
    MaxEscalations = 1
SYMMETRY Interchangeable
INVARIANTS
    TablesTypeOK
    ProgressIsContiguous
    AgreementsSound
    StructuresSound
    LedgersSound
    ServicesSound
PROPERTIES
    EndIsFinal
    CompletedOnlyWhenDone
    FinalStatesStay
CHECK_DEADLOCK FALSE
