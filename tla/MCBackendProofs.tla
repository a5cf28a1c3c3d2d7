---------------------------- MODULE MCBackendProofs ----------------------------
(***************************************************************************)
(* First Workflow, which takes steps of its own or rests.  Then the        *)
(* aggregates: the invariant of MCBackend is that of the one in focus, by  *)
(* the lemmas of BackendProofs for that instance; the others rest.  The    *)
(* theorems hold for every value of the constants that BackendAssumption   *)
(* allows, and not only for those of the run: for any number of rows, of   *)
(* requests that overlap, and of commands.                                 *)
(***************************************************************************)
EXTENDS MCBackend, WorkflowProofs

-----------------------------------------------------------------------------
(* Workflow *)

LEMMA WorkflowSteps == BackendSpec => Spec
<1>1. BackendInit => Init
  BY DEF BackendInit
<1>2. [BackendNext]_backendVars => [Next]_vars
  BY DEF BackendNext, backendVars, vars
<1>3. QED
  BY <1>1, <1>2, PTL DEF BackendSpec, Spec

\* Also beside the other aggregates, the steps of a workflow are in order, its end is final, and
\* it is completed when every step is.
THEOREM WorkflowInBackend ==
    ASSUME OneAtATime, SkipsTheCurrent
    PROVE  BackendSpec => []ProgressIsContiguous /\ EndIsFinal /\ CompletedOnlyWhenDone
BY WorkflowSteps, StepsAreInOrder, EndsAreFinal, CompletedWhenDone, PTL

-----------------------------------------------------------------------------
(* The aggregates in focus *)

\* What the aggregates assume of their constants
BackendAssumption ==
    /\ Invites!InviteAssumption /\ Events!EventAssumption /\ Money!FinanceAssumption
    /\ Records!RecordsAssumption /\ Grants!DelegationAssumption /\ Terms!VocabularyAssumption
    /\ StepRules!StepRulesAssumption

\* The invariant of the aggregate in focus
AggregateInv ==
    /\ focus = "Invites" => Invites!InviteInv
    /\ focus = "Events" => Events!EventInv
    /\ focus = "Orgs" => Orgs!OrgInv
    /\ focus = "Money" => Money!FinanceInv
    /\ focus = "Records" => Records!RecordsInv
    /\ focus = "Grants" => Grants!DelegationInv
    /\ focus = "Terms" => Terms!VocabularyInv
    /\ focus = "StepRules" => StepRules!StepRulesInv

LEMMA AggregateInitially == ASSUME BackendAssumption, BackendInit PROVE AggregateInv
<1> USE DEF BackendAssumption
<1>1. focus = "Invites" => Invites!InviteInv
  BY Invites!InviteInvInit DEF BackendInit
<1>2. focus = "Events" => Events!EventInv
  BY Events!EventInitially DEF BackendInit
<1>3. focus = "Orgs" => Orgs!OrgInv
  BY Orgs!OrgInitially DEF BackendInit
<1>4. focus = "Money" => Money!FinanceInv
  BY Money!FinanceInvInit DEF BackendInit
<1>5. focus = "Records" => Records!RecordsInv
  BY Records!RecordsInitially DEF BackendInit
<1>6. focus = "Grants" => Grants!DelegationInv
  BY Grants!DelegationInitially DEF BackendInit
<1>7. focus = "Terms" => Terms!VocabularyInv
  BY Terms!VocabularyInitially DEF BackendInit
<1>8. focus = "StepRules" => StepRules!StepRulesInv
  BY StepRules!StepRulesInitially DEF BackendInit
<1>9. QED
  BY <1>1, <1>2, <1>3, <1>4, <1>5, <1>6, <1>7, <1>8 DEF AggregateInv

\* A step of the backend is one of the aggregate in focus.
LEMMA AggregateStep ==
    ASSUME BackendAssumption, AggregateInv, [BackendNext]_backendVars
    PROVE  AggregateInv' /\ [/\ focus = "Invites" => Invites!FinalInviteStep
                             /\ focus = "Events" => Events!FinalEventStep
                             /\ focus = "Orgs" => Orgs!ArchivedStep
                             /\ focus = "Money" => Money!ApprovedAmountStep
                             /\ focus = "Records" => Records!FinalRecordStep]_backendVars
<1> USE DEF BackendAssumption
<1>1. focus' = focus
  BY DEF BackendNext, backendVars
<1>2. ASSUME focus = "Invites" PROVE Invites!InviteInv' /\ Invites!FinalInviteStep
  <2>1. [Invites!InviteNext]_Invites!aggregateVars
    BY <1>2 DEF BackendNext, backendVars, Invites!aggregateVars
  <2>2. QED
    BY <1>2, <2>1, Invites!InviteInvStep DEF AggregateInv
<1>3. ASSUME focus = "Events" PROVE Events!EventInv' /\ Events!FinalEventStep
  <2>1. [Events!EventNext]_Events!aggregateVars
    BY <1>3 DEF BackendNext, backendVars, Events!aggregateVars
  <2>2. QED
    BY <1>3, <2>1, Events!EventStep DEF AggregateInv
<1>4. ASSUME focus = "Orgs" PROVE Orgs!OrgInv' /\ Orgs!ArchivedStep
  <2>1. [Orgs!OrganizationNext]_Orgs!aggregateVars
    BY <1>4 DEF BackendNext, backendVars, Orgs!aggregateVars
  <2>2. QED
    BY <1>4, <2>1, Orgs!OrgStep DEF AggregateInv
<1>5. ASSUME focus = "Money" PROVE Money!FinanceInv' /\ Money!ApprovedAmountStep
  <2>1. [Money!FinanceNext]_Money!aggregateVars
    BY <1>5 DEF BackendNext, backendVars, Money!aggregateVars
  <2>2. QED
    BY <1>5, <2>1, Money!FinanceInvStep DEF AggregateInv
<1>6. ASSUME focus = "Records" PROVE Records!RecordsInv' /\ Records!FinalRecordStep
  <2>1. [Records!RecordsNext]_Records!aggregateVars
    BY <1>6 DEF BackendNext, backendVars, Records!aggregateVars
  <2>2. QED
    BY <1>6, <2>1, Records!RecordsStep DEF AggregateInv
<1>7. ASSUME focus = "Grants" PROVE Grants!DelegationInv'
  <2>1. [Grants!DelegationNext]_Grants!aggregateVars
    BY <1>7 DEF BackendNext, backendVars, Grants!aggregateVars
  <2>2. QED
    BY <1>7, <2>1, Grants!DelegationStep DEF AggregateInv
<1>8. ASSUME focus = "Terms" PROVE Terms!VocabularyInv'
  <2>1. [Terms!VocabularyNext]_Terms!aggregateVars
    BY <1>8 DEF BackendNext, backendVars, Terms!aggregateVars
  <2>2. QED
    BY <1>8, <2>1, Terms!VocabularyStep DEF AggregateInv
<1>9. ASSUME focus = "StepRules" PROVE StepRules!StepRulesInv'
  <2>1. [StepRules!WorkflowRulesNext]_StepRules!aggregateVars
    BY <1>9 DEF BackendNext, backendVars, StepRules!aggregateVars
  <2>2. QED
    BY <1>9, <2>1, StepRules!StepRulesStep DEF AggregateInv
<1>10. AggregateInv'
  BY <1>1, <1>2, <1>3, <1>4, <1>5, <1>6, <1>7, <1>8, <1>9 DEF AggregateInv
<1>11. QED
  BY <1>2, <1>3, <1>4, <1>5, <1>6, <1>10

LEMMA BackendInvariant == ASSUME BackendAssumption PROVE BackendSpec => []AggregateInv
<1>1. AggregateInv /\ [BackendNext]_backendVars => AggregateInv'
  BY AggregateStep
<1>2. QED
  BY <1>1, AggregateInitially, PTL DEF BackendSpec

\* What people agreed on holds for any number of overlapping requests: an invitation makes one
\* member, in time; an event has sound dates and one announced outcome; a grant that ended stays
\* ended and is not passed on; a step is escalated in time and finished by an actor; a deprecated
\* term stays deprecated.
THEOREM AgreementsStaySound == ASSUME BackendAssumption PROVE BackendSpec => []AgreementsSound
<1> USE DEF BackendAssumption
<1>1. AggregateInv => (focus = "Invites" => Invites!JoinedOnceInTime)
  BY DEF AggregateInv, Invites!InviteInv, Invites!OneAcceptance, Invites!JoinedOnceInTime, Invites!InTime
<1>2. AggregateInv => /\ focus = "Events" => Events!EventDatesSound /\ Events!OneOutcomeAnnounced
                      /\ focus = "Grants" => Grants!DelegationSound
                      /\ focus = "StepRules" => StepRules!StepRulesSound
                      /\ focus = "Terms" => Terms!DeprecatedForGood
  BY Events!EventsHold, Grants!DelegationHolds, StepRules!StepRulesHold, Terms!VocabularyHolds
     DEF AggregateInv
<1>3. AggregateInv => AgreementsSound
  BY <1>1, <1>2 DEF AgreementsSound
<1>4. QED
  BY <1>3, BackendInvariant, PTL

\* What is final stays, in whatever order requests read and write: a final status of an
\* invitation, of an event, of an organization or of another record, and the amount of an approved
\* transaction, change only in a write that overtakes another request's.
THEOREM FinalStatesDoStay == ASSUME BackendAssumption PROVE BackendSpec => FinalStatesStay
<1>1. AggregateInv /\ [BackendNext]_backendVars
        => [/\ (focus = "Invites" => Invites!FinalInviteStep)
            /\ (focus = "Events" => Events!FinalEventStep)
            /\ (focus = "Orgs" => Orgs!ArchivedStep)
            /\ (focus = "Money" => Money!ApprovedAmountStep)
            /\ (focus = "Records" => Records!FinalRecordStep)]_backendVars
  BY AggregateStep
<1>2. QED
  BY <1>1, BackendInvariant, PTL DEF BackendSpec, FinalStatesStay
=============================================================================
