---------------------------- MODULE WorkflowProofs ----------------------------
(***************************************************************************)
(* Proofs about Workflow, for any number of steps, commands and failures.  *)
(* That an end is final rests on the copy of the instance that a command   *)
(* holds: as long as one command is under way at a time it is the row.     *)
(* With two it is not, and the run workflow_overlap shows an end undone.   *)
(* The order of the steps also needs that callers skip and resubmit the    *)
(* current step only; approvals and rejections may name any step, since    *)
(* the entity refuses what has not begun.                                  *)
(***************************************************************************)
EXTENDS Workflow, TLAPS

\* The hypotheses: commands do not overlap; what callers name.
OneAtATime == \A g, h \in Handlers : g = h

SkipsTheCurrent == OffCurrent \subseteq {"approve", "reject"}

-----------------------------------------------------------------------------
(* Type correctness, however many commands overlap. *)

LEMMA OrderFacts ==
    /\ TotalSteps \in Nat /\ Order = 0 .. (TotalSteps - 1) /\ 0 \in Order
    /\ \A k \in Order : k \in Nat /\ (k + 1 < TotalSteps => k + 1 \in Order)
BY WorkflowAssumption DEF Order

LEMMA NoCallType == NoCall \in Handling
<1>1. NoCall.copy \in Instance
  BY OrderFacts DEF NoCall, Instance, InstanceStatus
<1>2. NoCall.stepsCopy \in [Order -> StepStatus]
  BY DEF NoCall, StepStatus
<1>3. QED
  BY <1>1, <1>2, OrderFacts DEF NoCall, Handling, StepStatus

LEMMA TypeInit == Init => TypeOK
<1> SUFFICES ASSUME Init PROVE TypeOK
  OBVIOUS
<1>1. instance \in Instance
  BY OrderFacts DEF Init, Instance, InstanceStatus
<1>2. steps \in [Order -> StepStatus]
  BY DEF Init, StepStatus
<1>3. call \in [Handlers -> Handling]
  BY NoCallType DEF Init
<1>4. QED
  BY <1>1, <1>2, <1>3, WorkflowAssumption DEF Init, TypeOK

LEMMA StepOutcomeType ==
    /\ StepOutcome["approve"] = "completed" /\ StepOutcome["reject"] = "failed"
    /\ StepOutcome["skip"] = "skipped"
BY DEF StepOutcome

LEMMA EndingIsFinal ==
    ASSUME NEW cmd
    PROVE  /\ Ending(cmd) \in {"failed", "cancelled", "completed"}
           /\ Ending(cmd) = "completed" => cmd \notin {"reject", "cancel"}
<1>1. CASE cmd = "reject"
  BY <1>1 DEF Ending
<1>2. CASE cmd = "cancel"
  BY <1>2 DEF Ending
<1>3. CASE cmd \notin {"reject", "cancel"}
  BY <1>3 DEF Ending
<1>4. QED
  BY <1>1, <1>2, <1>3

\* What a step leaves of the calls: one of them changes, to a call again.
LEMMA CallType ==
    ASSUME TypeOK, NEW h \in Handlers,
           HandlerStep(h) \/ \E cmd \in Commands, k \in Order : Call(h, cmd, k)
    PROVE  call' \in [Handlers -> Handling]
<1>1. call \in [Handlers -> Handling] /\ call[h] \in Handling
  BY DEF TypeOK
<1>2. ASSUME NEW r \in Handling, call' = [call EXCEPT ![h] = r]
      PROVE  call' \in [Handlers -> Handling]
  BY <1>1, <1>2
<1>3. ASSUME End(h) PROVE call' \in [Handlers -> Handling]
  BY <1>2, <1>3, NoCallType DEF End
<1>4. ASSUME NEW at \in {"findSteps", "updateInstance", "updateNext"}, Goto(h, at)
      PROVE  call' \in [Handlers -> Handling]
  BY <1>1, <1>4 DEF Goto, Handling
<1>5. ASSUME FindStep(h) PROVE call' \in [Handlers -> Handling]
  <2>1. steps[call[h].step] \in StepStatus
    BY <1>1 DEF TypeOK, Handling
  <2>2. CASE ~End(h)
    BY <1>1, <1>5, <2>1, <2>2 DEF FindStep, Handling
  <2>3. QED
    BY <1>3, <2>2
<1>6. ASSUME FindInstance(h) PROVE call' \in [Handlers -> Handling]
  <2>1. CASE ~End(h)
    BY <1>1, <1>6, <2>1 DEF FindInstance, Handling, TypeOK
  <2>2. QED
    BY <1>3, <2>1
<1>7. ASSUME FindSteps(h) PROVE call' \in [Handlers -> Handling]
  BY <1>1, <1>7 DEF FindSteps, Handling, TypeOK
<1>8. ASSUME NEW cmd \in Commands, NEW k \in Order, Call(h, cmd, k)
      PROVE  call' \in [Handlers -> Handling]
  BY <1>2, <1>8, NoCallType DEF Call, Handling
<1>9. ASSUME UpdateStep(h) PROVE call' \in [Handlers -> Handling]
  BY <1>4, <1>9 DEF UpdateStep
<1>10. QED
  BY <1>3, <1>4, <1>5, <1>6, <1>7, <1>8, <1>9
     DEF HandlerStep, StepRefused, Resubmit, InstanceRefused, AdvanceInstance, FinishInstance,
         StartNext, ReviseCurrent, Interrupted

LEMMA EndedRow ==
    ASSUME NEW row \in Instance, NEW end \in InstanceStatus
    PROVE  [row EXCEPT !.status = end, !.version = @ + 1] \in Instance
<1>1. row.version + 1 \in Nat
  BY DEF Instance
<1>2. ASSUME NEW v \in Nat PROVE [row EXCEPT !.status = end, !.version = v] \in Instance
  BY DEF Instance
<1>3. QED
  BY <1>1, <1>2

LEMMA TypeStep == TypeOK /\ [Next]_vars => TypeOK'
<1> SUFFICES ASSUME TypeOK, [Next]_vars PROVE TypeOK'
  OBVIOUS
<1>1. CASE UNCHANGED vars
  BY <1>1 DEF TypeOK, vars
<1>2. ASSUME NEW h \in Handlers,
             HandlerStep(h) \/ \E cmd \in Commands, k \in Order : Call(h, cmd, k)
      PROVE  TypeOK'
  <2> DEFINE c == call[h]
  <2>1. call' \in [Handlers -> Handling]
    BY <1>2, CallType
  <2>2. c \in Handling
    BY DEF TypeOK
  <2>3. c.copy \in Instance /\ c.step \in Order /\ c.cmd \in Commands \cup {"none"}
        /\ c.copy.currentStepIndex \in Order
    BY <2>2 DEF Handling, Instance
  <2>4. calls' \in 0 .. MaxCalls /\ faults' \in 0 .. MaxFaults
    <3>1. calls \in 0 .. MaxCalls /\ faults \in 0 .. MaxFaults
          /\ MaxCalls \in Nat /\ MaxFaults \in Nat
      BY WorkflowAssumption DEF TypeOK
    <3>2. \/ UNCHANGED <<calls, faults>>
          \/ calls < MaxCalls /\ calls' = calls + 1 /\ UNCHANGED faults
          \/ faults < MaxFaults /\ faults' = faults + 1 /\ UNCHANGED calls
      BY <1>2, Zenon
         DEF HandlerStep, FindStep, FindInstance, StepRefused, UpdateStep, Resubmit,
             FindSteps, InstanceRefused, AdvanceInstance, FinishInstance, StartNext,
             ReviseCurrent, Interrupted, Call
    <3>3. QED
      BY <3>1, <3>2
  <2>5. instance' \in Instance
    <3>1. CASE AdvanceInstance(h)
      BY <2>3, <3>1, OrderFacts DEF AdvanceInstance, Moved, Instance
    <3>2. CASE FinishInstance(h)
      <4>1. Ending(c.cmd) \in InstanceStatus
        BY EndingIsFinal DEF InstanceStatus
      <4>2. instance' = [c.copy EXCEPT !.status = Ending(c.cmd), !.version = @ + 1]
        BY <3>2 DEF FinishInstance
      <4>3. ASSUME NEW row \in Instance, NEW end \in InstanceStatus
            PROVE  [row EXCEPT !.status = end, !.version = @ + 1] \in Instance
        BY EndedRow
      <4>4. QED
        BY <2>3, <4>1, <4>2, <4>3
    <3>3. CASE UNCHANGED instance
      BY <3>3 DEF TypeOK
    <3>4. QED
      BY <1>2, <3>1, <3>2, <3>3
         DEF HandlerStep, FindStep, FindInstance, StepRefused, UpdateStep, Resubmit,
             FindSteps, InstanceRefused, StartNext, ReviseCurrent, Interrupted, Call,
             instanceRows
  <2>6. steps' \in [Order -> StepStatus]
    <3>1. CASE UpdateStep(h)
      <4>1. StepOutcome[c.cmd] \in StepStatus
        BY <3>1 DEF UpdateStep, ValidStepTransition, StepStatus
      <4>2. QED
        BY <3>1, <4>1 DEF UpdateStep, TypeOK
    <3>2. CASE Resubmit(h)
      BY <3>2 DEF Resubmit, TypeOK, StepStatus
    <3>3. CASE StartNext(h)
      BY <3>3 DEF StartNext, TypeOK, StepStatus
    <3>4. CASE ReviseCurrent(h)
      BY <3>4 DEF ReviseCurrent, TypeOK, StepStatus
    <3>5. CASE UNCHANGED steps
      BY <3>5 DEF TypeOK
    <3>6. QED
      BY <1>2, <3>1, <3>2, <3>3, <3>4, <3>5
         DEF HandlerStep, FindStep, FindInstance, StepRefused,
             FindSteps, InstanceRefused, AdvanceInstance, FinishInstance, Interrupted, Call,
             instanceRows
  <2>7. QED
    BY <2>1, <2>4, <2>5, <2>6 DEF TypeOK
<1>3. QED
  BY <1>1, <1>2 DEF Next

\* TypeOK, for any number of steps and of commands that overlap.
THEOREM WorkflowTypes == Spec => []TypeOK
BY TypeInit, TypeStep, PTL DEF Spec

-----------------------------------------------------------------------------
(* The copy of the instance. *)

\* Which commands come to which point, and from where on the copy is the row.
Fresh(h) ==
    LET c == call[h] IN
    /\ c.at = "findStep" => c.cmd \in StepCommands
    /\ c.at = "findInstance" => c.cmd \in Commands \ {"resubmit"}
    /\ c.at = "updateStep" => c.cmd \in StepCommands
    /\ c.at = "findSteps" => c.cmd \in {"approve", "skip", "revise"}
    /\ c.at = "updateInstance" => c.cmd \in {"approve", "skip", "reject", "cancel"}
    /\ c.at = "updateNext" => c.cmd \in {"approve", "skip", "revise"}
    /\ c.at \in {"findSteps", "updateInstance"} => c.copy = instance
    /\ c.at = "updateStep" /\ c.cmd # "resubmit" => c.copy = instance
    /\ c.at = "updateNext" /\ c.cmd = "revise" => c.copy = instance

FreshInv == \A h \in Handlers : Fresh(h)

LEMMA FreshInit == Init => FreshInv
BY DEF Init, FreshInv, Fresh, NoCall

LEMMA EndIsIdle ==
    ASSUME TypeOK, NEW h \in Handlers, End(h)
    PROVE  call'[h].at = "idle"
BY DEF End, NoCall, TypeOK

LEMMA FreshStep ==
    ASSUME OneAtATime, TypeOK, FreshInv, [Next]_vars
    PROVE  FreshInv'
<1>1. CASE UNCHANGED vars
  BY <1>1 DEF FreshInv, Fresh, vars
<1>2. ASSUME NEW h \in Handlers,
             HandlerStep(h) \/ \E cmd \in Commands, k \in Order : Call(h, cmd, k)
      PROVE  FreshInv'
  <2>1. /\ call \in [Handlers -> Handling] /\ call[h] \in Handling
        /\ call' \in [Handlers -> Handling]
    BY <1>2, CallType DEF TypeOK
  <2>2. Fresh(h)
    BY DEF FreshInv
  <2>3. SUFFICES Fresh(h)'
    BY DEF OneAtATime, FreshInv
  <2>4. CASE End(h)
    BY <2>4, EndIsIdle DEF Fresh
  <2>5. ASSUME NEW cmd \in Commands, NEW k \in Order, Call(h, cmd, k)
        PROVE  Fresh(h)'
    <3>1. /\ call'[h].cmd = cmd
          /\ call'[h].at = IF cmd \in StepCommands THEN "findStep" ELSE "findInstance"
      BY <2>1, <2>5 DEF Call, NoCall
    <3>2. QED
      BY <3>1 DEF Fresh, Commands, StepCommands
  <2>6. CASE FindStep(h) /\ ~End(h)
    <3>1. call[h].at = "findStep" /\ call[h].cmd \in StepCommands
      BY <2>2, <2>6 DEF FindStep, Fresh
    <3>2. /\ call'[h].cmd = call[h].cmd
          /\ call'[h].at = IF call[h].cmd = "resubmit" THEN "updateStep" ELSE "findInstance"
      BY <2>1, <2>6 DEF FindStep, Handling
    <3>3. QED
      BY <3>1, <3>2 DEF Fresh, Commands
  <2>7. CASE FindInstance(h) /\ ~End(h)
    <3>1. call[h].at = "findInstance" /\ call[h].cmd \in Commands \ {"resubmit"}
      BY <2>2, <2>7 DEF FindInstance, Fresh
    <3>2. /\ call'[h].cmd = call[h].cmd /\ call'[h].copy = instance
          /\ UNCHANGED instance
      BY <2>1, <2>7 DEF FindInstance, Handling, instanceRows
    <3>3. call'[h].at \in IF call[h].cmd = "revise" THEN {"findSteps"}
                          ELSE IF call[h].cmd = "cancel" THEN {"updateInstance"}
                          ELSE IF call[h].cmd = "reject" THEN {"updateInstance", "updateStep"}
                          ELSE {"updateStep"}
      <4>1. call'[h].at = CASE call[h].cmd = "revise" -> "findSteps"
                            [] call[h].cmd = "cancel" -> "updateInstance"
                            [] call[h].cmd = "reject" /\ IsTerminal(call[h].stepCopy)
                                 -> "updateInstance"
                            [] OTHER -> "updateStep"
        BY <2>1, <2>7 DEF FindInstance, Handling
      <4>2. QED
        BY <4>1
    <3>4. QED
      BY <3>1, <3>2, <3>3 DEF Fresh, Commands, StepCommands
  <2>8. CASE UpdateStep(h)
    BY <2>1, <2>2, <2>8 DEF UpdateStep, Goto, Fresh, StepCommands
  <2>9. CASE FindSteps(h)
    BY <2>1, <2>2, <2>9 DEF FindSteps, Fresh, instanceRows
  <2>10. CASE AdvanceInstance(h)
    BY <2>1, <2>2, <2>10 DEF AdvanceInstance, Moved, Goto, Fresh
  <2>11. QED
    BY <1>2, <2>4, <2>5, <2>6, <2>7, <2>8, <2>9, <2>10
       DEF HandlerStep, StepRefused, Resubmit, InstanceRefused, FinishInstance, StartNext,
           ReviseCurrent, Interrupted
<1>3. QED
  BY <1>1, <1>2 DEF Next

LEMMA FreshAlways == ASSUME OneAtATime PROVE Spec => [](TypeOK /\ FreshInv)
<1>1. Init => TypeOK /\ FreshInv
  BY TypeInit, FreshInit
<1>2. TypeOK /\ FreshInv /\ [Next]_vars => (TypeOK /\ FreshInv)'
  BY TypeStep, FreshStep, OneAtATime
<1>3. QED
  BY <1>1, <1>2, PTL DEF Spec

LEMMA EndStays ==
    ASSUME TypeOK, FreshInv, [Next]_vars, instance.status # "running"
    PROVE  instance'.status = instance.status
<1>1. ASSUME NEW h \in Handlers, AdvanceInstance(h) \/ FinishInstance(h) PROVE FALSE
  <2>1. call[h].copy.status = "running" /\ call[h].at = "updateInstance"
    BY <1>1 DEF AdvanceInstance, FinishInstance
  <2>2. QED
    BY <2>1 DEF FreshInv, Fresh
<1>2. UNCHANGED instance
  BY <1>1
     DEF Next, HandlerStep, FindStep, FindInstance, StepRefused, UpdateStep, Resubmit,
         FindSteps, InstanceRefused, StartNext, ReviseCurrent, Interrupted, Call,
         instanceRows, vars
<1>3. QED
  BY <1>2

\* EndIsFinal: a completed, failed or cancelled instance stays what it is, after
\* interrupted commands too and whatever steps the callers name, as long as
\* commands do not overlap.
THEOREM EndsAreFinal == ASSUME OneAtATime PROVE Spec => EndIsFinal
<1>1. TypeOK /\ FreshInv /\ [Next]_vars
        => [instance.status # "running" => instance'.status = instance.status]_vars
  BY EndStays
<1>2. QED
  BY <1>1, FreshAlways, PTL DEF Spec, EndIsFinal

-----------------------------------------------------------------------------
(* The steps. *)

\* How far a command and the steps have come.
InOrder(h) ==
    LET c == call[h] IN
    /\ c.at \in {"findStep", "findInstance", "updateStep"} /\ c.cmd \in {"skip", "resubmit"}
          => c.step = instance.currentStepIndex
    /\ c.at \in {"findInstance", "updateStep"} /\ c.cmd \in StepCommands
          => c.stepCopy = steps[c.step]
    /\ c.at \in {"findSteps", "updateInstance"} /\ c.cmd \in {"approve", "skip"}
          => c.step = instance.currentStepIndex /\ Done(c.step)
    /\ c.at = "updateNext" /\ c.cmd # "revise" => c.step + 1 = instance.currentStepIndex

ProgressInv == ProgressIsContiguous /\ \A h \in Handlers : InOrder(h)

LEMMA ProgressInit == Init => ProgressInv
<1> SUFFICES ASSUME Init PROVE ProgressInv
  OBVIOUS
<1>1. ProgressIsContiguous
  BY OrderFacts DEF Init, ProgressIsContiguous
<1>2. ASSUME NEW h \in Handlers PROVE InOrder(h)
  BY DEF Init, InOrder, NoCall
<1>3. QED
  BY <1>1, <1>2 DEF ProgressInv

\* A change to the current step alone keeps the order.
LEMMA CurrentMayChange ==
    ASSUME TypeOK, ProgressIsContiguous, NEW status,
           steps' = [steps EXCEPT ![instance.currentStepIndex] = status],
           instance'.currentStepIndex = instance.currentStepIndex
    PROVE  ProgressIsContiguous'
<1>1. /\ instance.currentStepIndex \in Nat /\ steps \in [Order -> StepStatus]
      /\ \A k \in Order : k \in Nat
  BY OrderFacts DEF TypeOK, Instance
<1>2. ASSUME NEW k \in Order, k # instance.currentStepIndex PROVE steps'[k] = steps[k]
  BY <1>1, <1>2
<1>3. QED
  BY <1>1, <1>2 DEF ProgressIsContiguous, Done

\* What the entity lets through is the current step.
LEMMA UpdatesTheCurrent ==
    ASSUME TypeOK, FreshInv, ProgressInv, NEW h \in Handlers, UpdateStep(h)
    PROVE  call[h].step = instance.currentStepIndex /\ call[h].step \in Order
<1> DEFINE c == call[h]
<1>1. /\ c.cmd \in {"approve", "reject", "skip"} /\ c.at = "updateStep"
      /\ c.step \in Order /\ instance.currentStepIndex \in Nat /\ c.step \in Nat
  BY OrderFacts DEF UpdateStep, FreshInv, Fresh, StepCommands, TypeOK, Handling, Instance
<1>2. InOrder(h)
  BY DEF ProgressInv
<1>3. CASE c.cmd = "skip"
  BY <1>1, <1>2, <1>3 DEF InOrder
<1>4. CASE c.cmd \in {"approve", "reject"}
  <2>1. steps[c.step] = "in_progress"
    <3>1. c.stepCopy = steps[c.step]
      BY <1>1, <1>2 DEF InOrder, StepCommands
    <3>2. StepOutcome[c.cmd] \in {"completed", "failed"}
      BY <1>4, StepOutcomeType
    <3>3. QED
      BY <3>1, <3>2 DEF UpdateStep, ValidStepTransition
  <2>2. ~Done(c.step) /\ steps[c.step] # "pending"
    BY <2>1 DEF Done
  <2>3. ~(c.step < instance.currentStepIndex) /\ ~(c.step > instance.currentStepIndex)
    BY <1>1, <2>2 DEF ProgressInv, ProgressIsContiguous
  <2>4. QED
    BY <1>1, <2>3
<1>5. QED
  BY <1>1, <1>3, <1>4

LEMMA ProgressStep ==
    ASSUME OneAtATime, SkipsTheCurrent, TypeOK, FreshInv, ProgressInv, [Next]_vars
    PROVE  ProgressInv'
<1>1. CASE UNCHANGED vars
  BY <1>1 DEF ProgressInv, ProgressIsContiguous, InOrder, Done, vars
<1>2. ASSUME NEW h \in Handlers,
             HandlerStep(h) \/ \E cmd \in Commands, k \in Order : Call(h, cmd, k)
      PROVE  ProgressInv'
  <2>1. /\ call \in [Handlers -> Handling] /\ call[h] \in Handling
        /\ call' \in [Handlers -> Handling]
        /\ steps \in [Order -> StepStatus] /\ instance \in Instance
        /\ instance.currentStepIndex \in Nat
    BY <1>2, CallType, OrderFacts DEF TypeOK, Instance
  <2>2. Fresh(h) /\ InOrder(h) /\ ProgressIsContiguous
    BY DEF FreshInv, ProgressInv
  <2>3. SUFFICES ProgressIsContiguous' /\ InOrder(h)'
    BY DEF OneAtATime, ProgressInv
  <2>4. ASSUME End(h) PROVE InOrder(h)'
    BY <2>4, EndIsIdle DEF InOrder
  <2>5. ASSUME UNCHANGED instanceRows PROVE ProgressIsContiguous'
    BY <2>2, <2>5 DEF ProgressIsContiguous, Done, instanceRows
  <2>6. CASE End(h) /\ UNCHANGED instanceRows
    BY <2>4, <2>5, <2>6
  <2>7. ASSUME NEW cmd \in Commands, NEW k \in Order, Call(h, cmd, k)
        PROVE  ProgressIsContiguous' /\ InOrder(h)'
    <3>1. /\ call'[h].cmd = cmd /\ call'[h].step = k
          /\ call'[h].at = IF cmd \in StepCommands THEN "findStep" ELSE "findInstance"
      BY <2>1, <2>7 DEF Call, NoCall
    <3>2. cmd \in {"skip", "resubmit"} => k = instance.currentStepIndex
      BY <2>7 DEF Call, SkipsTheCurrent
    <3>3. UNCHANGED instanceRows
      BY <2>7 DEF Call
    <3>4. QED
      BY <2>5, <3>1, <3>2, <3>3 DEF InOrder, StepCommands, instanceRows
  <2>8. CASE FindStep(h) /\ ~End(h)
    <3>1. /\ call'[h].cmd = call[h].cmd /\ call'[h].step = call[h].step
          /\ call'[h].stepCopy = steps[call[h].step] /\ UNCHANGED instanceRows
          /\ call'[h].at \in {"updateStep", "findInstance"} /\ call[h].at = "findStep"
      BY <2>1, <2>8 DEF FindStep, Handling
    <3>2. QED
      BY <2>2, <2>5, <3>1 DEF InOrder, instanceRows
  <2>9. CASE FindInstance(h) /\ ~End(h)
    <3>1. /\ call'[h].cmd = call[h].cmd /\ call'[h].step = call[h].step
          /\ call'[h].stepCopy = call[h].stepCopy /\ UNCHANGED instanceRows
          /\ call[h].at = "findInstance"
      BY <2>1, <2>9 DEF FindInstance, Handling
    <3>2. call'[h].at = CASE call[h].cmd = "revise" -> "findSteps"
                          [] call[h].cmd = "cancel" -> "updateInstance"
                          [] call[h].cmd = "reject" /\ IsTerminal(call[h].stepCopy)
                               -> "updateInstance"
                          [] OTHER -> "updateStep"
      BY <2>1, <2>9 DEF FindInstance, Handling
    <3>3. call'[h].at = "updateStep" \/ (call'[h].at \in {"findSteps", "updateInstance"}
                                         /\ call[h].cmd \in {"revise", "cancel", "reject"})
      BY <3>2
    <3>4. QED
      BY <2>2, <2>5, <3>1, <3>3 DEF InOrder, instanceRows
  <2>10. CASE UpdateStep(h)
    <3>1. call[h].step = instance.currentStepIndex /\ call[h].step \in Order
      BY <2>10, UpdatesTheCurrent
    <3>2. ProgressIsContiguous'
      BY <2>10, <3>1, <2>2, CurrentMayChange DEF UpdateStep
    <3>3. /\ call'[h].cmd = call[h].cmd /\ call'[h].step = call[h].step
          /\ call'[h].at \in {"updateInstance", "findSteps"}
          /\ steps'[call[h].step] = StepOutcome[call[h].cmd] /\ UNCHANGED instance
      BY <2>1, <2>10, <3>1 DEF UpdateStep, Goto, Handling
    <3>4. call[h].cmd \in {"approve", "skip"} => Done(call[h].step)'
      BY <3>3, StepOutcomeType DEF Done
    <3>5. QED
      BY <3>1, <3>2, <3>3, <3>4 DEF InOrder, Done
  <2>11. CASE Resubmit(h)
    <3>1. call[h].step = instance.currentStepIndex
      BY <2>2, <2>11 DEF Resubmit, InOrder
    <3>2. QED
      BY <2>2, <2>4, <2>11, <3>1, CurrentMayChange DEF Resubmit
  <2>12. CASE FindSteps(h)
    <3>1. /\ call'[h].cmd = call[h].cmd /\ call'[h].step = call[h].step
          /\ call'[h].at = IF call[h].cmd = "revise" THEN "updateNext" ELSE "updateInstance"
          /\ call[h].at = "findSteps" /\ UNCHANGED instanceRows
      BY <2>1, <2>12 DEF FindSteps, Handling
    <3>2. QED
      BY <2>2, <2>5, <3>1 DEF InOrder, Done, instanceRows
  <2>13. CASE AdvanceInstance(h)
    <3>1. /\ call[h].at = "updateInstance" /\ call[h].cmd \in {"approve", "skip"}
          /\ call[h].copy = instance
      BY <2>2, <2>13 DEF AdvanceInstance, Moved, Fresh
    <3>2. call[h].step = instance.currentStepIndex /\ Done(call[h].step)
      BY <2>2, <3>1 DEF InOrder
    <3>3. instance'.currentStepIndex = instance.currentStepIndex + 1 /\ UNCHANGED steps
      BY <2>1, <2>13, <3>1, <3>2 DEF AdvanceInstance, Instance
    <3>4. ProgressIsContiguous'
      <4>1. ASSUME NEW k \in Order
            PROVE  /\ k < instance'.currentStepIndex => Done(k)'
                   /\ k > instance'.currentStepIndex => steps'[k] = "pending"
        <5>1. k \in Nat
          BY OrderFacts
        <5>2. k < instance'.currentStepIndex
                 => k < instance.currentStepIndex \/ k = call[h].step
          BY <2>1, <3>2, <3>3, <5>1
        <5>3. k > instance'.currentStepIndex => k > instance.currentStepIndex
          BY <2>1, <3>3, <5>1
        <5>4. QED
          BY <2>2, <3>2, <3>3, <5>2, <5>3 DEF ProgressIsContiguous, Done
      <4>2. QED
        BY <4>1 DEF ProgressIsContiguous
    <3>5. call'[h].at = "updateNext" /\ call'[h].step = call[h].step
      BY <2>1, <2>13 DEF AdvanceInstance, Goto, Handling
    <3>6. QED
      BY <3>2, <3>3, <3>4, <3>5 DEF InOrder
  <2>14. CASE FinishInstance(h)
    <3>1. call[h].copy = instance
      BY <2>2, <2>14 DEF FinishInstance, Fresh
    <3>2. instance'.currentStepIndex = instance.currentStepIndex /\ UNCHANGED steps /\ End(h)
      BY <2>1, <2>14, <3>1 DEF FinishInstance, Instance
    <3>3. QED
      BY <2>2, <2>4, <3>2 DEF ProgressIsContiguous, Done
  <2>15. CASE StartNext(h)
    <3>1. call[h].step + 1 = instance.currentStepIndex
      BY <2>2, <2>15 DEF StartNext, InOrder
    <3>2. End(h) /\ UNCHANGED instance
      BY <2>15 DEF StartNext
    <3>3. CASE UNCHANGED steps
      BY <2>4, <2>5, <3>2, <3>3 DEF instanceRows
    <3>4. CASE steps' = [steps EXCEPT ![instance.currentStepIndex] = "in_progress"]
      BY <2>2, <2>4, <3>2, <3>4, CurrentMayChange
    <3>5. QED
      BY <2>15, <3>1, <3>3, <3>4 DEF StartNext
  <2>16. CASE ReviseCurrent(h)
    <3>1. call[h].copy = instance
      BY <2>2, <2>16 DEF ReviseCurrent, Fresh
    <3>2. QED
      BY <2>2, <2>4, <2>16, <3>1, CurrentMayChange DEF ReviseCurrent
  <2>17. QED
    <3>1. \/ End(h) /\ UNCHANGED instanceRows
          \/ FindStep(h) /\ ~End(h)
          \/ FindInstance(h) /\ ~End(h)
          \/ UpdateStep(h) \/ Resubmit(h) \/ FindSteps(h) \/ AdvanceInstance(h)
          \/ FinishInstance(h) \/ StartNext(h) \/ ReviseCurrent(h)
          \/ \E cmd \in Commands, k \in Order : Call(h, cmd, k)
      BY <1>2, Zenon
         DEF HandlerStep, StepRefused, InstanceRefused, Interrupted, FindStep, FindInstance
    <3>2. QED
      BY <3>1, <2>6, <2>7, <2>8, <2>9, <2>10, <2>11, <2>12, <2>13, <2>14, <2>15, <2>16
<1>3. QED
  BY <1>1, <1>2 DEF Next

LEMMA ProgressAlways ==
    ASSUME OneAtATime, SkipsTheCurrent
    PROVE  Spec => [](TypeOK /\ FreshInv /\ ProgressInv)
<1>1. Init => TypeOK /\ FreshInv /\ ProgressInv
  BY TypeInit, FreshInit, ProgressInit
<1>2. TypeOK /\ FreshInv /\ ProgressInv /\ [Next]_vars => (TypeOK /\ FreshInv /\ ProgressInv)'
  BY TypeStep, FreshStep, ProgressStep, OneAtATime, SkipsTheCurrent
<1>3. QED
  BY <1>1, <1>2, PTL DEF Spec

\* ProgressIsContiguous: what comes before the current step is completed or
\* skipped and what comes after it has not begun, when commands do not overlap
\* and callers skip and resubmit the current step only.
THEOREM StepsAreInOrder ==
    ASSUME OneAtATime, SkipsTheCurrent
    PROVE  Spec => []ProgressIsContiguous
<1>1. TypeOK /\ FreshInv /\ ProgressInv => ProgressIsContiguous
  BY DEF ProgressInv
<1>2. QED
  BY <1>1, ProgressAlways, PTL

LEMMA CompletionIsDone ==
    ASSUME TypeOK, FreshInv, ProgressInv, [Next]_vars,
           instance'.status = "completed", instance.status # "completed", NEW k \in Order
    PROVE  Done(k)
<1>1. PICK h \in Handlers : FinishInstance(h)
  <2>1. ASSUME NEW h \in Handlers, AdvanceInstance(h) PROVE FALSE
    <3>1. call[h].copy \in Instance /\ call[h].copy.status = "running"
      BY <2>1 DEF AdvanceInstance, TypeOK, Handling
    <3>2. instance'.status = "running"
      BY <2>1, <3>1 DEF AdvanceInstance, Instance
    <3>3. QED
      BY <3>2
  <2>2. instance' # instance
    OBVIOUS
  <2>3. QED
    BY <2>1, <2>2
       DEF Next, HandlerStep, FindStep, FindInstance, StepRefused, UpdateStep, Resubmit,
           FindSteps, InstanceRefused, StartNext, ReviseCurrent, Interrupted, Call,
           instanceRows, vars
<1>2. Fresh(h) /\ InOrder(h) /\ call[h] \in Handling /\ call[h].copy \in Instance
  BY DEF FreshInv, ProgressInv, TypeOK, Handling
<1>3. instance'.status = Ending(call[h].cmd)
  BY <1>1, <1>2 DEF FinishInstance, Instance
<1>4. call[h].cmd \in {"approve", "skip"} /\ call[h].at = "updateInstance"
  <2>1. call[h].cmd \notin {"reject", "cancel"}
    BY <1>3, EndingIsFinal
  <2>2. QED
    BY <1>1, <1>2, <2>1 DEF FinishInstance, Fresh
<1>5. /\ ~(call[h].step + 1 < TotalSteps)
      /\ call[h].step = instance.currentStepIndex /\ Done(call[h].step)
  BY <1>1, <1>2, <1>4 DEF FinishInstance, Moved, InOrder
<1>6. k \in Nat /\ call[h].step \in Nat /\ k <= TotalSteps - 1 /\ TotalSteps \in Nat
  BY <1>2, OrderFacts DEF Handling
<1>7. k < instance.currentStepIndex \/ k = call[h].step
  BY <1>5, <1>6
<1>8. QED
  BY <1>5, <1>7 DEF ProgressInv, ProgressIsContiguous

\* CompletedOnlyWhenDone: a workflow is completed when every step of it has been
\* completed or skipped, under the same hypotheses.
THEOREM CompletedWhenDone ==
    ASSUME OneAtATime, SkipsTheCurrent
    PROVE  Spec => CompletedOnlyWhenDone
<1>1. TypeOK /\ FreshInv /\ ProgressInv /\ [Next]_vars
        => [instance'.status = "completed" /\ instance.status # "completed"
              => \A k \in Order : Done(k)]_vars
  BY CompletionIsDone
<1>2. QED
  BY <1>1, ProgressAlways, PTL DEF Spec, CompletedOnlyWhenDone
=============================================================================
