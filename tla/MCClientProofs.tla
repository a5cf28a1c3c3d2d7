---------------------------- MODULE MCClientProofs ----------------------------
(***************************************************************************)
(* The client as a whole: the invariant of MCClient is that of the part in *)
(* focus, by the lemmas of ClientProofs for that instance, beside the      *)
(* queue's own (OpQueueProofs), which rests or takes its own steps.  The   *)
(* theorems hold for every value of the constants that ClientAssumption    *)
(* allows, and not only for those of the run.                              *)
(***************************************************************************)
EXTENDS MCClient, OpQueueProofs

\* What the parts assume of their constants
ClientAssumption ==
    /\ Cache!CacheAssumption /\ MaxDeployments \in Nat \ {0} /\ Stack!StackAssumption
    /\ Swap!SwapAssumption /\ Boot!BootsNumbered /\ Frontend!FrontendAssumption
    /\ LastNode \in Nat /\ LastNumber \in Nat /\ Texts!SchemasNumbered
    /\ Gates!GatesAssumption /\ Wiki!WikiAssumption /\ Wiki!LinksAssumption

\* The invariant of the part in focus
PartInv ==
    /\ focus = "Cache" => Cache!CacheInv /\ Cache!CacheWithin
    /\ focus = "Stack" => Stack!StackInv
    /\ focus = "Swap" => Swap!SwapInv
    /\ focus = "Boot" => Boot!BootInv
    /\ focus = "Merge" => Merge!MergeInv
    /\ focus = "Engines" => Engines!EnginesInv
    /\ focus = "Entry" => Engines!FormInv
    /\ focus = "Texts" => Texts!ParsingInv
    /\ focus = "Frontend" => Frontend!FrontendInv
    /\ focus = "Gates" => Gates!GatesInv
    /\ focus = "Wiki" => Wiki!WikiInv

LEMMA PartInitially == ASSUME ClientAssumption, ClientInit PROVE PartInv
<1> USE DEF ClientAssumption
<1>1. focus = "Cache" => Cache!CacheInv /\ Cache!CacheWithin
  BY Cache!CacheInitially, Cache!CacheWithinInitially DEF ClientInit
<1>2. focus = "Stack" => Stack!StackInv
  BY Stack!StackInitially DEF ClientInit
<1>3. focus = "Swap" => Swap!SwapInv
  BY Swap!SwapInitially DEF ClientInit
<1>4. focus = "Boot" => Boot!BootInv
  BY Boot!BootInitially DEF ClientInit
<1>5. focus = "Merge" => Merge!MergeInv
  BY Merge!MergeInitially DEF ClientInit
<1>6. focus = "Engines" => Engines!EnginesInv
  BY Engines!EnginesInitially DEF ClientInit
<1>7. focus = "Entry" => Engines!FormInv
  BY Engines!FormInitially DEF ClientInit
<1>8. focus = "Texts" => Texts!ParsingInv
  BY Texts!ParsingInitially DEF ClientInit
<1>9. focus = "Frontend" => Frontend!FrontendInv
  BY Frontend!FrontendInitially DEF ClientInit
<1>10. focus = "Gates" => Gates!GatesInv
  BY Gates!GatesInitially DEF ClientInit
<1>11. focus = "Wiki" => Wiki!WikiInv
  BY Wiki!WikiInitially DEF ClientInit
<1>12. QED
  BY <1>1, <1>2, <1>3, <1>4, <1>5, <1>6, <1>7, <1>8, <1>9, <1>10, <1>11 DEF PartInv

\* A step of the client is one of the part in focus.
LEMMA PartStep ==
    ASSUME ClientAssumption, PartInv, [ClientNext]_clientVars
    PROVE  PartInv' /\ [/\ focus = "Boot" => Boot!ReadyStep
                        /\ focus = "Swap" => Swap!SwitchedOffStep
                        /\ focus = "Wiki" => Wiki!WikiForwardStep]_clientVars
<1> USE DEF ClientAssumption
<1>1. focus' = focus
  BY DEF ClientNext, clientVars
<1>2. ASSUME focus = "Cache" PROVE (Cache!CacheInv /\ Cache!CacheWithin)'
  <2>1. [Cache!CacheNext]_Cache!clientVars
    BY <1>2 DEF ClientNext, clientVars, Cache!clientVars
  <2>2. QED
    BY <1>2, <2>1, Cache!CacheStep, Cache!CacheWithinStep DEF PartInv
<1>3. ASSUME focus = "Stack" PROVE Stack!StackInv'
  <2>1. [Stack!StackNext]_Stack!clientVars
    BY <1>3 DEF ClientNext, clientVars, Stack!clientVars
  <2>2. QED
    BY <1>3, <2>1, Stack!StackStep DEF PartInv
<1>4. ASSUME focus = "Swap" PROVE Swap!SwapInv' /\ Swap!SwitchedOffStep
  <2>1. [Swap!SwapNext]_Swap!clientVars
    BY <1>4 DEF ClientNext, clientVars, Swap!clientVars
  <2>2. QED
    BY <1>4, <2>1, Swap!SwapStep DEF PartInv
<1>5. ASSUME focus = "Boot" PROVE Boot!BootInv' /\ Boot!ReadyStep
  <2>1. [Boot!BootNext]_Boot!clientVars
    BY <1>5 DEF ClientNext, clientVars, Boot!clientVars
  <2>2. QED
    BY <1>5, <2>1, Boot!BootStep, Boot!ReadyHolds DEF PartInv
<1>6. ASSUME focus = "Merge" PROVE Merge!MergeInv'
  <2>1. [Merge!MergeNext]_Merge!clientVars
    BY <1>6 DEF ClientNext, clientVars, Merge!clientVars
  <2>2. QED
    BY <1>6, <2>1, Merge!MergeStep DEF PartInv
<1>7. ASSUME focus = "Engines" PROVE Engines!EnginesInv'
  <2>1. [Engines!EnginesNext]_Engines!clientVars
    BY <1>7 DEF ClientNext, clientVars, Engines!clientVars
  <2>2. QED
    BY <1>7, <2>1, Engines!EnginesStep DEF PartInv
<1>8. ASSUME focus = "Entry" PROVE Engines!FormInv'
  <2>1. [Engines!FormNext]_Engines!clientVars
    BY <1>8 DEF ClientNext, clientVars, Engines!clientVars
  <2>2. QED
    BY <1>8, <2>1, Engines!FormStep DEF PartInv
<1>9. ASSUME focus = "Texts" PROVE Texts!ParsingInv'
  <2>1. [Texts!ParsingNext]_Texts!clientVars
    BY <1>9 DEF ClientNext, clientVars, Texts!clientVars
  <2>2. QED
    BY <1>9, <2>1, Texts!ParsingStep DEF PartInv
<1>10. ASSUME focus = "Frontend" PROVE Frontend!FrontendInv'
  <2>1. [Frontend!FrontendNext]_Frontend!clientVars
    BY <1>10 DEF ClientNext, clientVars, Frontend!clientVars
  <2>2. QED
    BY <1>10, <2>1, Frontend!FrontendStep DEF PartInv
<1>11. ASSUME focus = "Gates" PROVE Gates!GatesInv'
  <2>1. [Gates!GatesNext]_Gates!clientVars
    BY <1>11 DEF ClientNext, clientVars, Gates!clientVars
  <2>2. QED
    BY <1>11, <2>1, Gates!GatesStep DEF PartInv
<1>12. ASSUME focus = "Wiki" PROVE Wiki!WikiInv' /\ Wiki!WikiForwardStep
  <2>1. [Wiki!WikiNext]_Wiki!clientVars
    BY <1>12 DEF ClientNext, clientVars, Wiki!clientVars
  <2>2. QED
    BY <1>12, <2>1, Wiki!WikiStep DEF PartInv
<1>13. PartInv'
  BY <1>1, <1>2, <1>3, <1>4, <1>5, <1>6, <1>7, <1>8, <1>9, <1>10, <1>11, <1>12 DEF PartInv
<1>14. QED
  BY <1>4, <1>5, <1>12, <1>13

\* The queue takes a step of its own or rests.
LEMMA QueueSteps == ClientSpec => Init /\ [][Next]_vars
<1>1. ClientInit => Init
  BY DEF ClientInit
<1>2. [ClientNext]_clientVars => [Next]_vars
  BY DEF ClientNext, clientVars, vars
<1>3. QED
  BY <1>1, <1>2, PTL DEF ClientSpec

\* Also beside the other parts, no operation is lost but by a restart, none is executed twice
\* without a reason, and undisturbed they are executed in order.
THEOREM QueueInClient ==
    ClientSpec => [](NeverLost /\ RepeatedOnlyInDoubt /\ InOrderUnlessDisturbed)
BY QueueSteps, NothingIsLost, TwiceOnlyInDoubt, ExecutedInOrder, PTL DEF Spec

LEMMA ClientInvariant == ASSUME ClientAssumption PROVE ClientSpec => [](QueueInv /\ PartInv)
<1>1. ClientInit => QueueInv /\ PartInv
  BY PartInitially, QueueInit DEF ClientInit
<1>2. QueueInv /\ PartInv /\ [ClientNext]_clientVars => (QueueInv /\ PartInv)'
  <2>1. [ClientNext]_clientVars => [Next]_vars
    BY DEF ClientNext, clientVars, vars
  <2>2. QED
    BY <2>1, PartStep, QueueStep
<1>3. QED
  BY <1>1, <1>2, PTL DEF ClientSpec

\* Whatever calls of whichever part overlap, fail or are cut short, what the part holds has its
\* types.
THEOREM PartsHaveTypes == ASSUME ClientAssumption PROVE ClientSpec => []PartsTypeOK
<1> USE DEF ClientAssumption
<1>1. QueueInv => TypeOK
  BY QueueTypes
<1>2. PartInv => /\ focus = "Cache" => Cache!CacheTypeOK
                 /\ focus = "Stack" => Stack!StackTypeOK
                 /\ focus = "Swap" => Swap!SwapTypeOK
                 /\ focus = "Boot" => Boot!BootTypeOK
                 /\ focus = "Frontend" => Frontend!FrontendTypeOK
                 /\ focus = "Gates" => Gates!GatesTypeOK
  BY Cache!CacheInvImplies, Stack!StackInvImplies, Swap!SwapInvImplies, Boot!BootInvImplies,
     Frontend!FrontendInvImplies, Gates!GatesInvImplies DEF PartInv
<1>3. QueueInv /\ PartInv => PartsTypeOK
  BY <1>1, <1>2 DEF PartsTypeOK
<1>4. QED
  BY <1>3, ClientInvariant, PTL

\* What the cache, the stack, the provider, the screens and the wiki keep or show is what was
\* answered last, or one of the named causes excuses it.
THEOREM NothingStaleIsKept == ASSUME ClientAssumption PROVE ClientSpec => []KeptIsCurrent
<1> USE DEF ClientAssumption
<1>1. PartInv => KeptIsCurrent
  BY Cache!CacheInvImplies, Stack!StackInvImplies, Boot!BootInvImplies,
     Frontend!FrontendInvImplies, Wiki!WikiInvImplies DEF PartInv, KeptIsCurrent
<1>2. QED
  BY <1>1, ClientInvariant, PTL

\* In the client as a whole too, a feature is mounted exactly when its flags say so.
THEOREM FeaturesStaySound == ASSUME ClientAssumption PROVE ClientSpec => []FeaturesSound
<1>1. PartInv => FeaturesSound
  BY Swap!SwapInvImplies DEF PartInv, FeaturesSound
<1>2. QED
  BY <1>1, ClientInvariant, PTL

\* What the engines, the forms, the texts, the merges, the gates and the links of the wiki
\* compute agrees with what they are computed from, for every sequence of their calls.
THEOREM EnginesStaySound == ASSUME ClientAssumption PROVE ClientSpec => []EnginesSound
<1> USE DEF ClientAssumption
<1>1. PartInv => /\ focus = "Merge" => Merge!MergeTakesSides
                 /\ focus = "Entry" => Engines!SubmittedIsSound
                 /\ focus = "Texts" => Texts!ReturnedIsValidated
  BY DEF PartInv, Merge!MergeInv, Engines!FormInv, Texts!ParsingInv
<1>2. PartInv => /\ focus = "Engines" => Engines!CapabilitiesAgree /\ Engines!FlowStaysDeclared
                                          /\ Engines!LabelHasText
                 /\ focus = "Gates" => Gates!VerdictsSound /\ Gates!GatesAgree
                 /\ focus = "Wiki" => Wiki!PagesComplete
  BY Engines!EnginesInvImplies, Gates!GatesInvImplies, Wiki!WikiInvImplies DEF PartInv
<1>3. PartInv => EnginesSound
  BY <1>1, <1>2 DEF EnginesSound
<1>4. QED
  BY <1>3, ClientInvariant, PTL

\* The provider turns ready only with a runtime, an update unmounts what it switches off, and
\* the wiki's pages go forward unless its runs overlap.
THEOREM UpdatesStaySound == ASSUME ClientAssumption PROVE ClientSpec => UpdatesAreSound
<1>1. PartInv /\ [ClientNext]_clientVars => [/\ focus = "Boot" => Boot!ReadyStep
                                             /\ focus = "Swap" => Swap!SwitchedOffStep
                                             /\ focus = "Wiki" => Wiki!WikiForwardStep]_clientVars
  BY PartStep
<1>2. QED
  BY <1>1, ClientInvariant, PTL DEF ClientSpec, UpdatesAreSound
=============================================================================
