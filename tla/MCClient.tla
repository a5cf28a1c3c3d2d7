------------------------------- MODULE MCClient -------------------------------
(***************************************************************************)
(* The parts of the client and the scripts of its repository, for TLC.     *)
(* Each keeps state that no other reads or writes, so the run explores     *)
(* them one at a time: `focus` is chosen at the start and never changes,   *)
(* and the variables of ClientStore stand for the memory, stores,          *)
(* surroundings and calls of the part in focus.                            *)
(* OpQueue has variables of its own and is in focus as "Queue"; they rest  *)
(* while another is.                                                       *)
(***************************************************************************)
EXTENDS OpQueue, TLC

CONSTANTS
    c1, c2, Callers, BootCalls,       \* calls that may overlap; boots of the provider
    MaxCacheCalls, MaxStackCalls,     \* bounds: calls of each part
    MaxSwapCalls, MaxBootCalls, MaxFrontendCalls, MaxGateCalls, MaxWikiCalls,
    MaxMergeCalls, MaxEngineCalls, MaxTextCalls,
    MaxVersion, MaxDeployments, LastVersion, MaxStored,        \* of ManifestCache
    LastFeature, Successors,                                   \* of HotSwap
    Endpoints,                                                 \* of FrontendStore
    Roles, Grants, LastNode, Options, LastNumber,              \* of ManifestEngines
    Keys, Schemas, MaxLength, Permissions,                     \* of ClientConfig
    Files, Named, Tests, Forbidden, Mandatory, Rules,          \* of RepositoryScripts
    LastDoc, Index, PageOf, BareName, Links, Attachments

VARIABLES focus, memory, disk, outside, call, log, calls

partVars == <<memory, disk, outside, call, log, calls>>
clientVars == <<focus, born, ops, l2, phase, todo, executed, disturbed, forgotten,
                faults,                memory, disk, outside, call, log, calls>>

\* These are instances of the module with their proofs, which is that of the parts extended.
Cache == INSTANCE ClientProofs WITH Calls <- Callers, MaxCalls <- MaxCacheCalls
Stack == INSTANCE ClientProofs WITH Calls <- Callers, MaxCalls <- MaxStackCalls
Swap == INSTANCE ClientProofs WITH Calls <- {}, MaxCalls <- MaxSwapCalls
Boot == INSTANCE ClientProofs WITH Calls <- BootCalls, MaxCalls <- MaxBootCalls
Frontend == INSTANCE ClientProofs WITH Calls <- Callers, MaxCalls <- MaxFrontendCalls
Gates == INSTANCE ClientProofs WITH Calls <- {}, MaxCalls <- MaxGateCalls
Wiki == INSTANCE ClientProofs WITH Calls <- Callers, MaxCalls <- MaxWikiCalls
Merge == INSTANCE ClientProofs WITH Calls <- {}, MaxCalls <- MaxMergeCalls
Engines == INSTANCE ClientProofs WITH Calls <- {}, MaxCalls <- MaxEngineCalls
Texts == INSTANCE ClientProofs WITH Calls <- {}, MaxCalls <- MaxTextCalls

ClientInit ==
    /\ Init
    /\ \/ focus = "Queue" /\ memory = <<>> /\ disk = <<>> /\ outside = <<>> /\ call = <<>>
          /\ log = <<>> /\ calls = 0
       \/ focus = "Cache" /\ Cache!CacheInit
       \/ focus = "Stack" /\ Stack!StackInit
       \/ focus = "Swap" /\ Swap!SwapInit
       \/ focus = "Boot" /\ Boot!BootInit
       \/ focus = "Merge" /\ Merge!MergeInit
       \/ focus = "Engines" /\ Engines!EnginesInit
       \/ focus = "Entry" /\ Engines!FormInit
       \/ focus = "Texts" /\ Texts!ParsingInit
       \/ focus = "Frontend" /\ Frontend!FrontendInit
       \/ focus = "Gates" /\ Gates!GatesInit
       \/ focus = "Wiki" /\ Wiki!WikiInit

ClientNext ==
    /\ UNCHANGED focus
    /\ \/ focus = "Queue" /\ Next /\ UNCHANGED partVars
       \/ /\ UNCHANGED vars
          /\ \/ focus = "Cache" /\ Cache!CacheNext
             \/ focus = "Stack" /\ Stack!StackNext
             \/ focus = "Swap" /\ Swap!SwapNext
             \/ focus = "Boot" /\ Boot!BootNext
             \/ focus = "Merge" /\ Merge!MergeNext
             \/ focus = "Engines" /\ Engines!EnginesNext
             \/ focus = "Entry" /\ Engines!FormNext
             \/ focus = "Texts" /\ Texts!ParsingNext
             \/ focus = "Frontend" /\ Frontend!FrontendNext
             \/ focus = "Gates" /\ Gates!GatesNext
             \/ focus = "Wiki" /\ Wiki!WikiNext

\* The fairness of OpQueue!FairSpec; the others are checked for safety only.
QueueRuns(r) == focus = "Queue" /\ RunStep(r) /\ UNCHANGED <<focus, partVars>>
ClientSpec ==
    ClientInit /\ [][ClientNext]_clientVars /\ \A r \in Runs : WF_clientVars(QueueRuns(r))

-----------------------------------------------------------------------------
\* What each part holds has its types: a manifest is cached under its own version, a handle
\* belongs to a mount, a boot is one of those begun.
PartsTypeOK ==
    /\ TypeOK
    /\ focus = "Cache" => Cache!CacheTypeOK
    /\ focus = "Stack" => Stack!StackTypeOK
    /\ focus = "Swap" => Swap!SwapTypeOK
    /\ focus = "Boot" => Boot!BootTypeOK
    /\ focus = "Frontend" => Frontend!FrontendTypeOK
    /\ focus = "Gates" => Gates!GatesTypeOK

\* What is kept or shown is what was answered last, or a named cause excuses it: a refreshed
\* manifest is read and an invalidated one is gone, the newest versions stay in the stack, the
\* provider shows the connection there is and only a boot cut short leaves a listener, lists
\* on the screens have the mutations that were answered, the wiki is what was built last
\* (RefreshedIsRead, InvalidatedIsGone, AtMostStored, MissingForNewer, OnlyCutShortStays,
\* ShownIsCurrent, FrontendSound, PublishedIsBuilt).
KeptIsCurrent ==
    /\ focus = "Cache" => Cache!RefreshedIsRead /\ Cache!InvalidatedIsGone
    /\ focus = "Stack" => Stack!AtMostStored /\ Stack!MissingForNewer
    /\ focus = "Boot" => Boot!OnlyCutShortStays /\ Boot!ShownIsCurrent
    /\ focus = "Frontend" => Frontend!FrontendSound
    /\ focus = "Wiki" => Wiki!PublishedIsBuilt

\* A feature is mounted exactly when its flags say so, through crashes and rollbacks
\* (FlagsAreTrue of HotSwap).
FeaturesSound == focus = "Swap" => Swap!FlagsAreTrue

\* What the engines compute from manifests, fields and texts agrees with itself: two ways to
\* ask for a permission, a flow and the validation of its definition, a label and its
\* translations, a submitted value and its validation, a merge and its two sides, a parsed
\* text and the schema of its key, the exit code of a gate and its report, two gates that look
\* for the same thing, a link of the wiki and its page (CapabilitiesAgree, FlowStaysDeclared,
\* LabelHasText, SubmittedIsSound, MergeTakesSides, ReturnedIsValidated, VerdictsSound,
\* GatesAgree, PagesComplete).
EnginesSound ==
    /\ focus = "Merge" => Merge!MergeTakesSides
    /\ focus = "Engines" => Engines!CapabilitiesAgree /\ Engines!FlowStaysDeclared /\ Engines!LabelHasText
    /\ focus = "Entry" => Engines!SubmittedIsSound
    /\ focus = "Texts" => Texts!ReturnedIsValidated
    /\ focus = "Gates" => Gates!VerdictsSound /\ Gates!GatesAgree
    /\ focus = "Wiki" => Wiki!PagesComplete

\* The provider turns ready only when there is a runtime, also when a boot ends late, a
\* manifest update unmounts the features it switches off, and a page of the wiki goes back to
\* an older edition only when runs overlap (RuntimeProvider.tsx, applyManifestUpdate,
\* export-wiki.mjs).
UpdatesAreSound ==
    [][/\ focus = "Boot" => Boot!ReadyStep
       /\ focus = "Swap" => Swap!SwitchedOffStep
       /\ focus = "Wiki" => Wiki!WikiForwardStep]_clientVars

-----------------------------------------------------------------------------
(* The constants of the run *)

ShownEndpoints == {"getMe", "login", "logout", "getTransactions", "getBalanceSummary",
                   "createTransaction"}

\* Sources of the repository, and rules that bear on one file, on none and on two but one
Service == <<"safe-boot", "org.service">>
VendoredFile == <<"safe-boot", "node_modules", "x">>
CoreTypes == <<"src", "core", "cache.types">>
SomeFiles == {Service, VendoredFile, CoreTypes}
NamesMatch == Service :> {"nest", "service"} @@ VendoredFile :> {"nest"} @@ CoreTypes :> {".types.ts"}
SomeTests == {<<"src", "core">>, Service}
Rule(id, pattern, severity, scope, exception) ==
    [id |-> id, pattern |-> pattern, severity |-> severity, scope |-> scope, exception |-> exception]
SomeRules == {Rule("LIP-AUDIT-002", "any", "CRITICAL", {Service}, {}),
              Rule("LIP-AUDIT-005", "none", "BLOCKING", {Service, VendoredFile}, {VendoredFile}),
              Rule("LIP-AUDIT-007", "console", "CRITICAL", {}, {})}

\* An index, and two documents whose pages have one name
PageNames == <<"INDEX", "a-b", "a-b">>
BareNames == <<"index", "b", "a-b">>
Link(candidates, name) == [candidates |-> candidates, name |-> name]
SomeLinks == <<{Link(<<2, 3>>, "b")}, {Link(<<1>>, "index")}, {Link(<<>>, "a-b")}>>
=============================================================================
