------------------------------ MODULE MCBackend ------------------------------
(***************************************************************************)
(* The aggregates of the backend, for TLC.  Each has tables of its own,    *)
(* and no command of one writes a row of another, so the run explores them *)
(* one at a time: `focus` is chosen at the start and never changes, and    *)
(* the variables of AggregateStore stand for the tables, requests and      *)
(* clock of the aggregate in focus.  Workflow has variables of its own and *)
(* is in focus as "Workflow"; they rest while another is.                  *)
(*                                                                         *)
(* i1 .. i4 and u1 .. u3 are ids that mean something else in each          *)
(* aggregate; the users p2 and p3 are interchangeable, and so are the      *)
(* requests r1 and r2.                                                     *)
(***************************************************************************)
EXTENDS Workflow, TLC

CONSTANTS
    i1, i2, i3, i4, u1, u2, u3, p1, p2, p3, r, r1, r2,
    OneId, SomeIds, OneRequest, SomeRequests,      \* rows, and requests that may overlap
    LastInviteTick, LastEventTick, LastMoneyTick, LastRecordTick,        \* bounds: instants
    LastGrantTick, LastRuleTick, LastOrgTick, LastTermTick,
    MaxInviteCommands, MaxEventCommands, MaxMoneyCommands, MaxRecordCommands,   \* and commands
    MaxGrantCommands, MaxRuleCommands, MaxOrgCommands, MaxTermCommands,
    AskedDays, MaxDays,                                            \* of Invite
    Amounts,                                                       \* of Finance
    RecordTexts,                                                   \* of ResourceRecords
    MaxDepth,                                                      \* of Organizations
    Account, MaxSessions, LockAfter, SessionTTL,                   \* of Sessions
    Users, Admins, Superadmins, Scopes, GrantDays, MaxGrantDays,   \* of Delegation
    TermValues,                                                    \* of Vocabulary
    AskedTimeouts, MaxEscalations                                  \* of WorkflowRules

VARIABLES focus, rows, request, log, clock, commands

tableVars == <<rows, request, log, clock, commands>>
backendVars == <<focus, instance, steps, call, calls, faults,
                 rows, request, log, clock, commands>>

TypedSettings == {"currency", "animation_duration_default_ms"}

\* These are instances of the module with their proofs, which is that of the aggregates extended.
Invites == INSTANCE BackendProofs WITH Ids <- OneId, Requests <- SomeRequests,
    LastTick <- LastInviteTick, MaxCommands <- MaxInviteCommands
Events == INSTANCE BackendProofs WITH Ids <- OneId, Requests <- SomeRequests,
    LastTick <- LastEventTick, MaxCommands <- MaxEventCommands
Money == INSTANCE BackendProofs WITH Ids <- SomeIds, Requests <- SomeRequests,
    LastTick <- LastMoneyTick, MaxCommands <- MaxMoneyCommands
Records == INSTANCE BackendProofs WITH Ids <- SomeIds, Requests <- OneRequest,
    LastTick <- LastRecordTick, MaxCommands <- MaxRecordCommands
Orgs == INSTANCE BackendProofs WITH Ids <- SomeIds, Requests <- SomeRequests,
    LastTick <- LastOrgTick, MaxCommands <- MaxOrgCommands
Grants == INSTANCE BackendProofs WITH Ids <- SomeIds, Requests <- SomeRequests,
    LastTick <- LastGrantTick, MaxCommands <- MaxGrantCommands
Terms == INSTANCE BackendProofs WITH Ids <- SomeIds, Requests <- SomeRequests,
    LastTick <- LastTermTick, MaxCommands <- MaxTermCommands
StepRules == INSTANCE BackendProofs WITH Ids <- OneId, Requests <- OneRequest,
    LastTick <- LastRuleTick, MaxCommands <- MaxRuleCommands

\* These are instances of one aggregate.
Trees == INSTANCE OrgHierarchy WITH Ids <- {u1, u2, u3}, Requests <- {r1, r2}, LastTick <- 0,
    MaxCommands <- 3, MaxDepth <- 2, MaxMemberships <- 1
Groups == INSTANCE OrgHierarchy WITH Ids <- {u1, u2, u3}, Requests <- {r1, r2}, LastTick <- 0,
    MaxCommands <- 5, MaxDepth <- 2, MaxMemberships <- 1
Trash == INSTANCE Lifecycle WITH Ids <- {i1, i2}, Requests <- {r1, r2}, LastTick <- 2,
    MaxCommands <- 5
Units == INSTANCE Organizations WITH Ids <- {u1, u2, u3}, Requests <- {r1, r2}, LastTick <- 0,
    MaxCommands <- 5, MaxDepth <- 3
Fields == INSTANCE Forms WITH Ids <- {i1}, Requests <- {r}, LastTick <- 0, MaxCommands <- 1,
    Keys <- {}
Definitions == INSTANCE Forms WITH Ids <- {i1, i2}, Requests <- {r1, r2}, LastTick <- 0,
    MaxCommands <- 4, Keys <- {"a", "b"}
Messages == INSTANCE Notifications WITH Ids <- {i1, i2}, Requests <- {r1, r2}, LastTick <- 0,
    MaxCommands <- 3, Preference <- i2
Services == INSTANCE RuntimeServices WITH Ids <- {i1, i2}, Requests <- {r1, r2}, LastTick <- 4,
    MaxCommands <- 4, Address <- i2, TTL <- 2, MaxRetries <- 1, MaxAttempts <- 2, Window <- 1
Logins == INSTANCE Sessions WITH Ids <- {i1, i2, i3, i4}, Requests <- {r1, r2}, LastTick <- 2,
    MaxCommands <- 4, Account <- i4, MaxSessions <- 1, LockAfter <- 2, SessionTTL <- 1
Accounts == INSTANCE Users WITH Ids <- {i1, i2}, Requests <- {r1, r2}, LastTick <- 0,
    MaxCommands <- 3, Emails <- {"e"}, Actions <- {"user:create", "event:manage", "event:read"}
Tokens == INSTANCE AuthTokens WITH Ids <- {i1, i2}, Requests <- {r}, LastTick <- 3,
    MaxCommands <- 4, AccessTtl <- 1, MaxAccessTtl <- 1, RefreshTtl <- 2, MaxRefreshTtl <- 2
Reports == INSTANCE Reporting WITH Ids <- {i1, i2, i3}, Requests <- {r}, LastTick <- 0,
    MaxCommands <- 4, Reports <- {i3}, Days <- {1, 2, 3}, DaysPerMonth <- 2,
    Categories <- {"c", "d"}
Settings == INSTANCE Configuration WITH Ids <- TypedSettings, Requests <- {r1, r2},
    LastTick <- 0, MaxCommands <- 4, FormatKeys <- {"currency"}, TypedKeys <- TypedSettings
Cycles == INSTANCE SyncStatus WITH Ids <- {i1, i2, i3}, Requests <- {r1, r2}, LastTick <- 0,
    MaxCommands <- 4, Scheduler <- i3, MaxAttempts <- 3
Rules == INSTANCE SyncStatus WITH Ids <- {}, Requests <- {r}, LastTick <- 4, MaxCommands <- 1,
    Scheduler <- i3, MaxAttempts <- 3

BackendInit ==
    /\ Init
    /\ \/ focus = "Workflow" /\ rows = <<>> /\ request = <<>> /\ log = <<>>
          /\ clock = 0 /\ commands = 0
       \/ focus = "Invites" /\ Invites!InviteInit
       \/ focus = "Events" /\ Events!EventInit
       \/ focus = "Money" /\ Money!FinanceInit
       \/ focus = "Records" /\ Records!RecordsInit
       \/ focus = "Trees" /\ Trees!HierarchyInit
       \/ focus = "Groups" /\ Groups!MembershipInit
       \/ focus = "Trash" /\ Trash!LifecycleInit
       \/ focus = "Units" /\ Units!UnitInit
       \/ focus = "Orgs" /\ Orgs!OrganizationInit
       \/ focus = "Fields" /\ Fields!FieldInit
       \/ focus = "Definitions" /\ Definitions!FormInit
       \/ focus = "Grants" /\ Grants!DelegationInit
       \/ focus = "Terms" /\ Terms!VocabularyInit
       \/ focus = "StepRules" /\ StepRules!WorkflowRulesInit
       \/ focus = "Messages" /\ Messages!NotificationInit
       \/ focus = "Services" /\ Services!ServicesInit
       \/ focus = "Logins" /\ Logins!SessionsInit
       \/ focus = "Accounts" /\ Accounts!UsersInit
       \/ focus = "Tokens" /\ Tokens!AuthTokensInit
       \/ focus = "Reports" /\ Reports!ReportingInit
       \/ focus = "Settings" /\ Settings!ConfigurationInit
       \/ focus = "Cycles" /\ Cycles!SyncStatusInit
       \/ focus = "Rules" /\ Rules!SyncRulesInit
    /\ focus # "Workflow" => steps[0] = "pending"

BackendNext ==
    /\ UNCHANGED focus
    /\ \/ focus = "Workflow" /\ Next /\ UNCHANGED tableVars
       \/ /\ UNCHANGED vars
          /\ \/ focus = "Invites" /\ Invites!InviteNext
             \/ focus = "Events" /\ Events!EventNext
             \/ focus = "Money" /\ Money!FinanceNext
             \/ focus = "Records" /\ Records!RecordsNext
             \/ focus = "Trees" /\ Trees!HierarchyNext
             \/ focus = "Groups" /\ Groups!MembershipNext
             \/ focus = "Trash" /\ Trash!LifecycleNext
             \/ focus = "Units" /\ Units!UnitNext
             \/ focus = "Orgs" /\ Orgs!OrganizationNext
             \/ focus = "Fields" /\ Fields!FieldNext
             \/ focus = "Definitions" /\ Definitions!FormNext
             \/ focus = "Grants" /\ Grants!DelegationNext
             \/ focus = "Terms" /\ Terms!VocabularyNext
             \/ focus = "StepRules" /\ StepRules!WorkflowRulesNext
             \/ focus = "Messages" /\ Messages!NotificationNext
             \/ focus = "Services" /\ Services!ServicesNext
             \/ focus = "Logins" /\ Logins!SessionsNext
             \/ focus = "Accounts" /\ Accounts!UsersNext
             \/ focus = "Tokens" /\ Tokens!AuthTokensNext
             \/ focus = "Reports" /\ Reports!ReportingNext
             \/ focus = "Settings" /\ Settings!ConfigurationNext
             \/ focus = "Cycles" /\ Cycles!SyncStatusNext
             \/ focus = "Rules" /\ Rules!SyncRulesNext

BackendSpec == BackendInit /\ [][BackendNext]_backendVars

Interchangeable ==
    Permutations({r1, r2}) \cup Permutations({p2, p3})

-----------------------------------------------------------------------------
\* The rows and requests of every aggregate have their types; among them the bounds that an
\* update could break: the lifetime of a token, both labels of a term, the retries of a call.
TablesTypeOK ==
    /\ TypeOK
    /\ focus = "Invites" => Invites!InviteTypeOK
    /\ focus = "Events" => Events!EventTypeOK
    /\ focus = "Money" => Money!FinanceTypeOK
    /\ focus = "Records" => Records!RecordsTypeOK
    /\ focus = "Trees" => Trees!HierarchyTypeOK
    /\ focus = "Groups" => Groups!MembershipTypeOK
    /\ focus = "Trash" => Trash!LifecycleTypeOK
    /\ focus = "Units" => Units!UnitTypeOK
    /\ focus = "Orgs" => Orgs!OrganizationTypeOK
    /\ focus = "Definitions" => Definitions!FormTypeOK
    /\ focus = "Grants" => Grants!DelegationTypeOK
    /\ focus = "Terms" => Terms!VocabularyTypeOK
    /\ focus = "StepRules" => StepRules!WorkflowRulesTypeOK
    /\ focus = "Messages" => Messages!NotificationTypeOK
    /\ focus = "Services" => Services!ServicesTypeOK
    /\ focus = "Logins" => Logins!SessionsTypeOK
    /\ focus = "Accounts" => Accounts!UsersTypeOK
    /\ focus = "Tokens" => Tokens!AuthTokensTypeOK
    /\ focus = "Reports" => Reports!ReportingTypeOK
    /\ focus = "Settings" => Settings!ConfigurationTypeOK
    /\ focus = "Cycles" => Cycles!SyncStatusTypeOK

\* What is final stays: an invitation that was accepted, rejected, expired or revoked, an event
\* that was cancelled or completed, an organization that was archived or merged away, and the
\* amount of an approved transaction change only in a write that overtakes another request's
\* (the entities check copies, the repositories update by id); in one object, never.
FinalStatesStay ==
    [][/\ focus = "Invites" => Invites!FinalInviteStep
       /\ focus = "Events" => Events!FinalEventStep
       /\ focus = "Orgs" => Orgs!ArchivedStep
       /\ focus = "Money" => Money!ApprovedAmountStep
       /\ focus = "Records" => Records!FinalRecordStep]_backendVars

\* What people agreed on holds, whichever requests overlapped: an invitation makes one member,
\* in time; an event has sound dates and one announced outcome; a grant that ended is not in
\* force again and is not passed on; a step is escalated in time and finished by an actor; a
\* deprecated term stays deprecated (JoinedOnceInTime, EventDatesSound, OneOutcomeAnnounced,
\* DelegationSound, StepRulesSound, DeprecatedForGood).
AgreementsSound ==
    /\ focus = "Invites" => Invites!JoinedOnceInTime
    /\ focus = "Events" => Events!EventDatesSound /\ Events!OneOutcomeAnnounced
    /\ focus = "Grants" => Grants!DelegationSound
    /\ focus = "StepRules" => StepRules!StepRulesSound
    /\ focus = "Terms" => Terms!DeprecatedForGood

\* Units stay trees within their bounds unless moves overlap, the checks of the member
\* hierarchy are right on every graph the commands can make, and joins that overlap exceed the
\* limit by one each at most (UnitsAcyclic, DepthsAndPathsBounded, CycleChecksAgree,
\* DescendantsComplete, MembershipsSound).
StructuresSound ==
    /\ focus = "Units" => Units!UnitsAcyclic /\ Units!DepthsAndPathsBounded
    /\ focus = "Trees" => Trees!CycleChecksAgree /\ Trees!DescendantsComplete
    /\ focus = "Groups" => Groups!MembershipsSound

\* Nothing that was announced or counted is missing from the tables: versions and
\* compensations of transactions, the dates and versions of entities, purges through crashes,
\* both counts of a report, forms that are whole, and one answer from client, server and entity
\* on a field's value (VersionsAndCompensationsSound, RecordsSound, ValidatorAgrees,
\* PurgeNeverLost, ReportsSound, FormsSound, ValidationsMatch).
LedgersSound ==
    /\ focus = "Money" => Money!VersionsAndCompensationsSound
    /\ focus = "Records" => Records!RecordsSound /\ Records!ValidatorAgrees
    /\ focus = "Trash" => Trash!PurgeNeverLost
    /\ focus = "Reports" => Reports!ReportsSound
    /\ focus = "Definitions" => Definitions!FormsSound
    /\ focus = "Fields" => Fields!ValidationsMatch

\* Limits hold and effects happen once, or a named cause excuses it: sessions, guesses, token
\* lifetimes, users, messages handed over, operations of one key, attempts in a window, values
\* of settings, organizations of a sync cycle, waits and winners of the sync rules
\* (SessionsSound, TokensSound, UsersSound, NotificationsSound, RepeatedForCause,
\* RateIsLimited, ConfigurationSound, OncePerCycle, RulesSound).
ServicesSound ==
    /\ focus = "Logins" => Logins!SessionsSound
    /\ focus = "Tokens" => Tokens!TokensSound
    /\ focus = "Accounts" => Accounts!UsersSound
    /\ focus = "Messages" => Messages!NotificationsSound
    /\ focus = "Services" => Services!RepeatedForCause /\ Services!RateIsLimited
    /\ focus = "Settings" => Settings!ConfigurationSound
    /\ focus = "Cycles" => Cycles!OncePerCycle
    /\ focus = "Rules" => Rules!RulesSound
=============================================================================
