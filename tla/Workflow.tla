------------------------------ MODULE Workflow ------------------------------
(***************************************************************************)
(* One workflow instance and its steps (src/safe-boot/backend/src/domains/ *)
(* workflow): the commands of WorkflowService, each a sequence of reads    *)
(* and writes of whole rows with an await after every one.  The entities   *)
(* check transitions on the copies that were read; update() writes the     *)
(* copy back without comparing its version.                                *)
(*                                                                         *)
(* TriggerWorkflow saves the instance only.  The step rows, and the start  *)
(* of the first step, are the work of code outside the repository: the     *)
(* model starts after it.                                                  *)
(***************************************************************************)
EXTENDS Naturals, FiniteSets

CONSTANTS
    TotalSteps, \* totalSteps, at most 20 by MaxStepsPolicy
    Handlers,   \* commands that may be under way together
    OffCurrent, \* step commands that callers also give for another step than the current one
    MaxCalls,   \* bound: commands
    MaxFaults   \* bound: failed database calls and crashes

ASSUME WorkflowAssumption ==
    /\ TotalSteps \in 1 .. 20
    /\ MaxCalls \in Nat /\ MaxFaults \in Nat
    /\ IsFiniteSet(Handlers)

VARIABLES
    instance,   \* the row of workflow_instances
    steps,      \* statut of each row of workflow_steps
    call,       \* what each handler is doing, and the copies it holds
    calls, faults

vars == <<instance, steps, call, calls, faults>>
instanceRows == <<instance, steps>>

Order == 0 .. (TotalSteps - 1)
StepStatus == {"pending", "in_progress", "completed", "failed", "skipped"}
InstanceStatus == {"running", "completed", "failed", "cancelled"}
Instance == [status : InstanceStatus, currentStepIndex : Order, version : Nat]

StepCommands == {"approve", "reject", "skip", "resubmit"}
Commands == StepCommands \cup {"cancel", "revise"}

ASSUME OffCurrentAssumption == OffCurrent \subseteq StepCommands

IsTerminal(st) == st \in {"completed", "failed", "skipped"}

\* isValidWorkflowStepTransition
\* Mutant: a pending step can be completed.
ValidStepTransition_Pending(from, to) ==
    from \in {"pending", "in_progress"} /\ to \in {"completed", "failed", "skipped"}

ValidStepTransition(from, to) ==
    \/ from = "pending" /\ to \in {"in_progress", "skipped"}
    \/ from = "in_progress" /\ to \in {"completed", "failed", "skipped"}

\* step.complete, step.fail and step.skip
StepOutcome == [approve |-> "completed", reject |-> "failed", skip |-> "skipped"]

NoCall == [cmd |-> "none", step |-> 0, at |-> "idle", stepCopy |-> "pending",
         copy |-> [status |-> "running", currentStepIndex |-> 0, version |-> 1],
         stepsCopy |-> [k \in Order |-> "pending"]]

Init ==
    /\ instance = [status |-> "running", currentStepIndex |-> 0, version |-> 1]
    /\ \E first \in {"pending", "in_progress"} :
          steps = [k \in Order |-> IF k = 0 THEN first ELSE "pending"]
    /\ call = [h \in Handlers |-> NoCall]
    /\ calls = 0 /\ faults = 0

-----------------------------------------------------------------------------
Goto(h, at) == call' = [call EXCEPT ![h].at = at]
End(h)      == call' = [call EXCEPT ![h] = NoCall]

Call(h, cmd, k) ==
    /\ call[h].at = "idle" /\ calls < MaxCalls
    /\ k = instance.currentStepIndex \/ cmd \in OffCurrent
    /\ calls' = calls + 1
    /\ call' = [call EXCEPT ![h] =
                  [NoCall EXCEPT !.cmd = cmd, !.step = k,
                               !.at = IF cmd \in StepCommands THEN "findStep"
                                                              ELSE "findInstance"]]
    /\ UNCHANGED <<instanceRows, faults>>

\* approve refuses a terminal step at once; resubmit needs only the step.
FindStep(h) ==
    LET c == call[h] IN
    /\ c.at = "findStep"
    /\ IF c.cmd = "approve" /\ IsTerminal(steps[c.step])
         THEN End(h)
         ELSE call' = [call EXCEPT ![h].stepCopy = steps[c.step],
                                   ![h].at = IF c.cmd = "resubmit" THEN "updateStep"
                                                                   ELSE "findInstance"]
    /\ UNCHANGED <<instanceRows, calls, faults>>

\* A rejection of a terminal step leaves the step alone and fails the workflow.
FindInstance(h) ==
    LET c == call[h] IN
    /\ c.at = "findInstance"
    /\ IF c.cmd = "cancel" /\ instance.status # "running"
         THEN End(h)
         ELSE call' = [call EXCEPT ![h].copy = instance,
                ![h].at = CASE c.cmd = "revise" -> "findSteps"
                            [] c.cmd = "cancel" -> "updateInstance"
                            [] c.cmd = "reject" /\ IsTerminal(c.stepCopy) -> "updateInstance"
                            [] OTHER -> "updateStep"]
    /\ UNCHANGED <<instanceRows, calls, faults>>

\* The entity refuses the transition: the command throws before any write.
StepRefused(h) ==
    LET c == call[h] IN
    /\ c.at = "updateStep" /\ c.cmd # "resubmit"
    /\ ~ValidStepTransition(c.stepCopy, StepOutcome[c.cmd])
    /\ End(h)
    /\ UNCHANGED <<instanceRows, calls, faults>>

UpdateStep(h) ==
    LET c == call[h] IN
    /\ c.at = "updateStep" /\ c.cmd # "resubmit"
    /\ ValidStepTransition(c.stepCopy, StepOutcome[c.cmd])
    /\ steps' = [steps EXCEPT ![c.step] = StepOutcome[c.cmd]]
    /\ Goto(h, IF c.cmd = "reject" THEN "updateInstance" ELSE "findSteps")
    /\ UNCHANGED <<instance, calls, faults>>

\* resetToPending has no condition on the step, nor resubmit on the instance.
Resubmit(h) ==
    LET c == call[h] IN
    /\ c.at = "updateStep" /\ c.cmd = "resubmit"
    /\ steps' = [steps EXCEPT ![c.step] = "pending"]
    /\ End(h)
    /\ UNCHANGED <<instance, calls, faults>>

FindSteps(h) ==
    /\ call[h].at = "findSteps"
    /\ call' = [call EXCEPT ![h].stepsCopy = steps,
                            ![h].at = IF call[h].cmd = "revise" THEN "updateNext"
                                                                ELSE "updateInstance"]
    /\ UNCHANGED <<instanceRows, calls, faults>>

\* advanceStep, complete, markFailed and cancel refuse a copy that is not running.
InstanceRefused(h) ==
    /\ call[h].at = "updateInstance" /\ call[h].copy.status # "running"
    /\ End(h)
    /\ UNCHANGED <<instanceRows, calls, faults>>

\* Mutants: one step too many; one too few.
Moved_PastEnd(h) == call[h].cmd \in {"approve", "skip"} /\ call[h].step + 1 <= TotalSteps
Moved_Short(h)   == call[h].cmd \in {"approve", "skip"} /\ call[h].step + 2 < TotalSteps

Moved(h) == call[h].cmd \in {"approve", "skip"} /\ call[h].step + 1 < TotalSteps

\* _advanceToNextOrComplete goes by the order of the step the command named, not
\* by the instance's currentStepIndex.
AdvanceInstance(h) ==
    /\ call[h].at = "updateInstance" /\ call[h].copy.status = "running"
    /\ Moved(h)
    /\ instance' = [call[h].copy EXCEPT !.currentStepIndex = call[h].step + 1]
    /\ Goto(h, "updateNext")
    /\ UNCHANGED <<steps, calls, faults>>

\* markFailed, cancel, or complete.
Ending(cmd) == CASE cmd = "reject" -> "failed"
                 [] cmd = "cancel" -> "cancelled"
                 [] OTHER          -> "completed"

\* Mutant: the status of the copy is not looked at.
FinishInstance_Unchecked(h) ==
    /\ call[h].at = "updateInstance" /\ ~Moved(h)
    /\ instance' = [call[h].copy EXCEPT !.status = Ending(call[h].cmd), !.version = @ + 1]
    /\ End(h)
    /\ UNCHANGED <<steps, calls, faults>>

FinishInstance(h) ==
    /\ call[h].at = "updateInstance" /\ call[h].copy.status = "running"
    /\ ~Moved(h)
    /\ instance' = [call[h].copy EXCEPT !.status = Ending(call[h].cmd), !.version = @ + 1]
    /\ End(h)
    /\ UNCHANGED <<steps, calls, faults>>

\* nextStep.startExecuting refuses a copy that is not pending.
StartNext(h) ==
    LET c == call[h]  next == c.step + 1 IN
    /\ c.at = "updateNext" /\ c.cmd # "revise"
    /\ steps' = IF c.stepsCopy[next] = "pending"
                  THEN [steps EXCEPT ![next] = "in_progress"] ELSE steps
    /\ End(h)
    /\ UNCHANGED <<instance, calls, faults>>

\* RequestRevision: the current step of the copy goes back to pending, whatever
\* its status and that of the instance.
ReviseCurrent(h) ==
    LET c == call[h] IN
    /\ c.at = "updateNext" /\ c.cmd = "revise"
    /\ steps' = [steps EXCEPT ![c.copy.currentStepIndex] = "pending"]
    /\ End(h)
    /\ UNCHANGED <<instance, calls, faults>>

\* A database call fails, or the process stops, between two steps of a command.
Interrupted(h) ==
    /\ call[h].at # "idle" /\ faults < MaxFaults
    /\ faults' = faults + 1
    /\ End(h)
    /\ UNCHANGED <<instanceRows, calls>>

HandlerStep(h) ==
    \/ FindStep(h) \/ FindInstance(h) \/ StepRefused(h) \/ UpdateStep(h) \/ Resubmit(h)
    \/ FindSteps(h) \/ InstanceRefused(h) \/ AdvanceInstance(h) \/ FinishInstance(h)
    \/ StartNext(h) \/ ReviseCurrent(h) \/ Interrupted(h)

Next == \E h \in Handlers :
    HandlerStep(h) \/ \E cmd \in Commands, k \in Order : Call(h, cmd, k)

Spec == Init /\ [][Next]_vars

-----------------------------------------------------------------------------
(* Properties *)

Handling ==
    [cmd : Commands \cup {"none"}, step : Order,
     at : {"idle", "findStep", "findInstance", "updateStep", "findSteps", "updateInstance",
           "updateNext"},
     stepCopy : StepStatus, copy : Instance, stepsCopy : [Order -> StepStatus]]

TypeOK ==
    /\ instance \in Instance
    /\ steps \in [Order -> StepStatus]
    /\ call \in [Handlers -> Handling]
    /\ calls \in 0 .. MaxCalls /\ faults \in 0 .. MaxFaults

Done(k) == steps[k] \in {"completed", "skipped"}

\* Completed, failed and cancelled are final: no command brings an instance back
\* to running or to another end.
EndIsFinal ==
    [][instance.status # "running" => instance'.status = instance.status]_vars

\* An instance is completed only when every step is completed or skipped.
CompletedOnlyWhenDone ==
    [][instance'.status = "completed" /\ instance.status # "completed"
         => \A k \in Order : Done(k)]_vars

\* Steps are worked through in order: everything before the current step is done
\* and nothing after it has begun, also after an interrupted command.
ProgressIsContiguous ==
    \A k \in Order : /\ k < instance.currentStepIndex => Done(k)
                     /\ k > instance.currentStepIndex => steps[k] = "pending"
=============================================================================
