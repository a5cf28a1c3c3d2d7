---------------------------- MODULE WorkflowRules ----------------------------
(***************************************************************************)
(* A step of a workflow as it is stored, and the rules of                  *)
(* src/safe-boot/backend/src/domains/workflow that look at one step:       *)
(* TimeoutMonitor, TimeoutEscalationPolicy, EscalationRouter and           *)
(* StepExecutor.  Nothing in the repository calls the monitor, the router  *)
(* and the executor: the model calls them at any time, as their comments   *)
(* describe.  Module Workflow has the handlers and their interleavings.    *)
(*                                                                         *)
(* Ids are steps.  An instant is a tenth of a day, the part of the timeout *)
(* at which the monitor begins to warn.                                    *)
(***************************************************************************)
EXTENDS AggregateStore

CONSTANTS
    AskedTimeouts,      \* timeouts a definition asks for
    MaxEscalations  \* maxEscalations of the rule

StepTypes == {"auto", "approval", "notification", "conditional", "delay", "parallel"}
RuleStepStatus == {"pending", "in_progress", "completed", "failed", "skipped"}
Comments == {"none", "some"}

\* Columns of workflow_steps; created_at is the database's.  escalated is the count that a
\* caller of the router keeps.
StepRow == [type : StepTypes, status : RuleStepStatus, days : AskedTimeouts \cup {1}, created : 0..LastTick,
            comment : Comments, escalated : 0..MaxEscalations]

\* log: the steps handed to executors, and those whose escalation was refused
WorkflowRulesInit == StoreInit([executed |-> {}, refused |-> {}], 0)

-----------------------------------------------------------------------------
(* Reading and writing a step *)

IsTerminalStep(step) == step.status \in {"completed", "failed", "skipped"}

\* _toDomain: a timeout of 0 is read as 1; the reason of a rejection and who executed the step
\* have no column.
ToDomain(row) ==
    [type |-> row.type, status |-> row.status, days |-> IF row.days = 0 THEN 1 ELSE row.days,
     created |-> row.created, comment |-> row.comment, reason |-> "none", by |-> "none"]

\* _toPersistence
Written(i, step) ==
    PutRow(i, [type |-> step.type, status |-> step.status, days |-> step.days,
               created |-> rows[i].created, comment |-> step.comment, escalated |-> rows[i].escalated])

\* A step is stored as it is given: no validator looks at it.
SaveStep(i, type, days) ==
    /\ commands < MaxCommands /\ commands' = commands + 1
    /\ ~Stored(i)
    /\ PutRow(i, [type |-> type, status |-> "pending", days |-> days, created |-> clock,
                  comment |-> "none", escalated |-> 0])
    /\ UNCHANGED <<request, log, clock>>

ValidTransition(from, to) ==
    \/ from = "pending" /\ to \in {"in_progress", "skipped"}
    \/ from = "in_progress" /\ to \in {"completed", "failed", "skipped"}

\* startExecuting, complete, fail, skip, each on the entity as it was read
Changed(step, to, text) ==
    CASE to = "completed" -> [step EXCEPT !.status = to, !.comment = text]
      [] to \in {"failed", "skipped"} -> [step EXCEPT !.status = to, !.reason = text]
      [] OTHER -> [step EXCEPT !.status = to, !.by = text]

\* Mutant: the comment stays.
ResetToPending_Status(step) == [step EXCEPT !.status = "pending", !.reason = "none"]

ResetToPending(step) == [step EXCEPT !.status = "pending", !.comment = "none", !.reason = "none"]

UpdateStepRow(i, to, text) ==
    /\ commands < MaxCommands /\ commands' = commands + 1
    /\ Stored(i) /\ ValidTransition(rows[i].status, to)
    /\ Written(i, Changed(ToDomain(rows[i]), to, text))
    /\ UNCHANGED <<request, log, clock>>

\* Whatever its status
ResetStep(i) ==
    /\ commands < MaxCommands /\ commands' = commands + 1
    /\ Stored(i)
    /\ Written(i, ResetToPending(ToDomain(rows[i])))
    /\ UNCHANGED <<request, log, clock>>

-----------------------------------------------------------------------------
(* Timeouts: three definitions of one thing *)

Elapsed(step) == clock - step.created
Timeout(step) == 10 * step.days
RemainingTime(step) == Timeout(step) - Elapsed(step)

\* TimeoutEscalationPolicy.hasTimedOut, isEscalationMandatory
HasTimedOut(step) == Elapsed(step) > Timeout(step)
IsEscalationMandatory(step) == ~IsTerminalStep(step) /\ HasTimedOut(step)

\* TimeoutMonitor.isTimedOut
IsTimedOut(step) == ~IsTerminalStep(step) /\ Elapsed(step) > Timeout(step)

\* WorkflowStep.hasTimedOut
StepHasTimedOut(step) ==
    step.status \in {"pending", "in_progress"} /\ Elapsed(step) > Timeout(step)

\* Mutant: the monitor warns of steps that have time left only.
Reports_Warned(step) ==
    IF ~IsTerminalStep(step) /\ 10 * RemainingTime(step) <= Timeout(step) /\ RemainingTime(step) > 0
    THEN {[remaining |-> RemainingTime(step), mandatory |-> FALSE]} ELSE {}

\* TimeoutMonitor.scan of a running instance, with the default threshold
Reports(step) ==
    IF ~IsTerminalStep(step) /\ 10 * RemainingTime(step) <= Timeout(step)
    THEN {[remaining |-> RemainingTime(step), mandatory |-> RemainingTime(step) <= 0]} ELSE {}

-----------------------------------------------------------------------------
(* EscalationRouter.resolveTarget, for each step the monitor says must be escalated *)

\* Mutant: one escalation more.
MayEscalate_OneMore(count) == count <= MaxEscalations

MayEscalate(count) == count < MaxEscalations

\* The error at the limit says that the step will be failed; nothing does.
Escalate(i) ==
    /\ commands < MaxCommands /\ commands' = commands + 1
    /\ Stored(i) /\ \E report \in Reports(ToDomain(rows[i])) : report.mandatory
    /\ IF MayEscalate(rows[i].escalated)
       THEN PutRow(i, [rows[i] EXCEPT !.escalated = @ + 1]) /\ UNCHANGED log
       ELSE log' = [log EXCEPT !.refused = @ \cup {i}] /\ UNCHANGED rows
    /\ UNCHANGED <<request, clock>>

-----------------------------------------------------------------------------
(* StepExecutor.execute: the executor of the type, or an error *)

\* Mutant: an approval step needs no actor.
Dispatched_NoActor(step, actor) == ~IsTerminalStep(step)

Dispatched(step, actor) == ~IsTerminalStep(step) /\ (step.type = "approval" => actor = "some")

Execute(i, actor) ==
    /\ commands < MaxCommands /\ commands' = commands + 1
    /\ Stored(i)
    /\ log' = IF Dispatched(ToDomain(rows[i]), actor)
              THEN [log EXCEPT !.executed = @ \cup {[type |-> rows[i].type, actor |-> actor,
                                                     status |-> rows[i].status]}]
              ELSE log
    /\ UNCHANGED <<rows, request, clock>>

-----------------------------------------------------------------------------

WorkflowRulesNext ==
    \/ \E i \in Ids :
         \/ \E t \in StepTypes, d \in AskedTimeouts : SaveStep(i, t, d)
         \/ \E to \in RuleStepStatus, text \in Comments : UpdateStepRow(i, to, text)
         \/ ResetStep(i)
         \/ Escalate(i)
         \/ \E actor \in Comments : Execute(i, actor)
    \/ Tick

-----------------------------------------------------------------------------

WorkflowRulesTypeOK == \A i \in Ids : rows[i] \in StepRow \cup {NoRow}

\* The monitor, the policy and the entity agree which stored steps are late, and the monitor's
\* scan reports every late step as one that must be escalated.
TimeoutsAgree == \A i \in Ids : Stored(i) =>
    LET step == ToDomain(rows[i])
    IN  /\ IsTimedOut(step) = IsEscalationMandatory(step) /\ IsTimedOut(step) = StepHasTimedOut(step)
        /\ IsTimedOut(step) => \E report \in Reports(step) : report.mandatory

\* A step is escalated as often as its rule allows at most, and never before its time.
EscalatedInTime == \A i \in Ids : Stored(i) =>
    /\ rows[i].escalated <= MaxEscalations
    /\ rows[i].escalated > 0 => clock >= rows[i].created + 10
    /\ i \in log.refused => rows[i].escalated = MaxEscalations

\* An approval comment belongs to a completed step, however often the step is stored, read and
\* reset (commentaire_approbation is written on every update).
CommentIsOfApproval == \A i \in Ids :
    Stored(i) /\ rows[i].comment = "some" => rows[i].status = "completed"

\* No executor is given a finished step, or an approval step without the one who approves.
ExecutedWithActor == \A e \in log.executed :
    e.status \in {"pending", "in_progress"} /\ (e.type = "approval" => e.actor = "some")

StepRulesSound == TimeoutsAgree /\ EscalatedInTime /\ CommentIsOfApproval /\ ExecutedWithActor

\* Not kept: at the exact end of its timeout a step must be escalated and is not late.
MandatoryIsLate == \A i \in Ids : Stored(i) =>
    LET step == ToDomain(rows[i])
    IN  (\E report \in Reports(step) : report.mandatory) => IsTimedOut(step)
=============================================================================
