---------------------------- MODULE OfflineSync ----------------------------
(***************************************************************************)
(* The push half of OfflineSyncAggregate (src/safe-boot/backend/src/       *)
(* domains/sync): rows of the table pending_operations, the push ticks     *)
(* that send them, the retry ticks that put failed rows back, and the      *)
(* remote server they are sent to.                                         *)
(*                                                                         *)
(* Every await of the coordinators is a point where another tick may run,  *)
(* so a tick is a process: it reads a batch of records once and then works *)
(* through that copy, one database or network call per step.  @Cron fires  *)
(* a tick whether or not the previous one has finished; Pushers and        *)
(* Retriers are the ticks that can be under way together.                  *)
(***************************************************************************)
EXTENDS Naturals, FiniteSets

CONSTANTS
    NumOps,         \* the local changes; o < p means o has the older created_at
    Pushers,        \* push ticks that may be under way together
    Retriers,       \* retry ticks that may be under way together
    MaxBatch,       \* MAX_BATCH, the limit of findByOrgAndStatus
    MaxFaults,      \* bound: failed network or database calls
    MaxAborts,      \* bound: crashes, and catch blocks whose own write fails
    ManualConfirm   \* may markOperationConfirmed be called?

ASSUME OfflineSyncAssumption ==
    /\ NumOps \in Nat /\ MaxBatch \in Nat \ {0}
    /\ MaxFaults \in Nat /\ MaxAborts \in Nat
    /\ ManualConfirm \in BOOLEAN
    /\ IsFiniteSet(Pushers) /\ IsFiniteSet(Retriers)

VARIABLES
    status,     \* pending_operations.statut_sync, "none" before the row exists
    attempt,    \* pending_operations.tentative_num
    pc,         \* where each push tick stands
    batch,      \* the records each push tick read and has not finished
    failed,     \* the records each retry tick read and has not finished
    applied,    \* how often the remote has executed each operation
    refused,    \* the operations the remote answered with a conflict
    faults,     \* failed calls so far
    aborts      \* aborted executions so far

vars == <<status, attempt, pc, batch, failed, applied, refused, faults, aborts>>
table  == <<status, attempt>>
remote == <<applied, refused>>
budget == <<faults, aborts>>

Ops == 1 .. NumOps
SyncStatus == {"pending", "sent", "confirmed", "failed"}

\* The part of a PendingOperationRecord a tick uses after reading it.
Record == [op : Ops, num : Nat]

-----------------------------------------------------------------------------
(* findByOrgAndStatus: the oldest MaxBatch rows with that status, as a copy. *)

\* Mutant: the newest rows first.
Selected_Newest(st) ==
    {o \in Ops : /\ status[o] = st
                 /\ Cardinality({p \in Ops : p > o /\ status[p] = st}) < MaxBatch}

\* Mutant: the status is left out of the query.
Selected_AnyStatus(st) ==
    {o \in Ops : /\ status[o] # "none"
                 /\ Cardinality({p \in Ops : p < o /\ status[p] # "none"}) < MaxBatch}

Selected(st) ==
    {o \in Ops : /\ status[o] = st
                 /\ Cardinality({p \in Ops : p < o /\ status[p] = st}) < MaxBatch}

Read(st) == {[op |-> o, num |-> attempt[o]] : o \in Selected(st)}

\* The record the loop over a copy is at: the oldest one left.
IsFirst(r, rs) == r \in rs /\ \A q \in rs : r.op <= q.op

Busy(w) == pc[w] \notin {"idle", "next"}

-----------------------------------------------------------------------------
Init ==
    /\ status  = [o \in Ops |-> "none"]
    /\ attempt = [o \in Ops |-> 0]
    /\ pc      = [w \in Pushers |-> "idle"]
    /\ batch   = [w \in Pushers |-> {}]
    /\ failed  = [r \in Retriers |-> {}]
    /\ applied = [o \in Ops |-> 0]
    /\ refused = {}
    /\ faults  = 0
    /\ aborts  = 0

\* createPendingOperation: the local write, rows in created_at order.
CreatePendingOperation(o) ==
    /\ status[o] = "none"
    /\ \A p \in Ops : p < o => status[p] # "none"
    /\ status'  = [status EXCEPT ![o] = "pending"]
    /\ attempt' = [attempt EXCEPT ![o] = 1]
    /\ UNCHANGED <<pc, batch, failed, remote, budget>>

\* markOperationConfirmed has no guard and no caller in the repository; the
\* caller is taken to know that the remote executed the operation.
MarkOperationConfirmed(o) ==
    /\ ManualConfirm
    /\ applied[o] > 0
    /\ status[o] # "confirmed"
    /\ status' = [status EXCEPT ![o] = "confirmed"]
    /\ UNCHANGED <<attempt, pc, batch, failed, remote, budget>>

-----------------------------------------------------------------------------
(* PushCoordinator.execute, one push tick w. *)

\* The tick reads its batch; an empty one ends it at once (emptyResult).
PushTick(w) ==
    /\ pc[w] = "idle"
    /\ Read("pending") # {}
    /\ batch' = [batch EXCEPT ![w] = Read("pending")]
    /\ pc'    = [pc EXCEPT ![w] = "next"]
    /\ UNCHANGED <<table, failed, remote, budget>>

\* validateLocalFirst looks at the copy, which findByOrgAndStatus filtered on
\* "pending": it cannot fail.  The row itself may have moved on meanwhile.
\* Mutant: the row is confirmed before the remote is called.
MarkSent_Confirms(w, r) ==
    /\ pc[w] = "next" /\ IsFirst(r, batch[w])
    /\ status' = [status EXCEPT ![r.op] = "confirmed"]
    /\ pc'     = [pc EXCEPT ![w] = "inflight"]
    /\ UNCHANGED <<attempt, batch, failed, remote, budget>>

MarkSent(w, r) ==
    /\ pc[w] = "next" /\ IsFirst(r, batch[w])
    /\ status' = [status EXCEPT ![r.op] = "sent"]
    /\ pc'     = [pc EXCEPT ![w] = "inflight"]
    /\ UNCHANGED <<attempt, batch, failed, remote, budget>>

Fault == faults < MaxFaults /\ faults' = faults + 1

\* updateStatus(SENT) throws: straight to the catch block.
MarkSentThrows(w, r) ==
    /\ pc[w] = "next" /\ IsFirst(r, batch[w])
    /\ Fault
    /\ pc' = [pc EXCEPT ![w] = "catch"]
    /\ UNCHANGED <<table, batch, failed, remote, aborts>>

\* The remote executes the operation and the answer arrives.  The request
\* carries no operation id, so a second copy is executed again.
RemoteApplies(w, r) ==
    /\ pc[w] = "inflight" /\ IsFirst(r, batch[w])
    /\ applied' = [applied EXCEPT ![r.op] = @ + 1]
    /\ pc'      = [pc EXCEPT ![w] = "accepted"]
    /\ UNCHANGED <<table, batch, failed, refused, budget>>

\* The remote answers with a conflict.  resolveConflict computes a payload that
\* is neither stored nor sent, and the operation goes on to markConfirmed.
RemoteConflicts(w, r) ==
    /\ pc[w] = "inflight" /\ IsFirst(r, batch[w])
    /\ refused' = refused \cup {r.op}
    /\ pc'      = [pc EXCEPT ![w] = "accepted"]
    /\ UNCHANGED <<table, batch, failed, applied, budget>>

\* HttpRemoteApiClient turns every failure into errors: the request is rejected
\* or lost, or (reached) it was executed and the answer is lost.
RemoteFails(w, r, reached) ==
    /\ pc[w] = "inflight" /\ IsFirst(r, batch[w])
    /\ Fault
    /\ applied' = IF reached THEN [applied EXCEPT ![r.op] = @ + 1] ELSE applied
    /\ pc'      = [pc EXCEPT ![w] = "rejected"]
    /\ UNCHANGED <<table, batch, failed, refused, aborts>>

\* The tick is done with r: the next record, or the end of execute.
Finish(w, r) ==
    /\ batch' = [batch EXCEPT ![w] = @ \ {r}]
    /\ pc'    = [pc EXCEPT ![w] = IF batch[w] = {r} THEN "idle" ELSE "next"]

MarkConfirmed(w, r) ==
    /\ pc[w] = "accepted" /\ IsFirst(r, batch[w])
    /\ status' = [status EXCEPT ![r.op] = "confirmed"]
    /\ Finish(w, r)
    /\ UNCHANGED <<attempt, failed, remote, budget>>

\* response.errors: updateStatusAndAttempt writes back the number it read.
\* Outcome st and number num for the current record.
Written(w, r, st, num) ==
    /\ pc[w] = "rejected" /\ IsFirst(r, batch[w])
    /\ status'  = [status EXCEPT ![r.op] = st]
    /\ attempt' = [attempt EXCEPT ![r.op] = num]
    /\ Finish(w, r)
    /\ UNCHANGED <<failed, remote, budget>>

\* Mutants: the remote's word for the status; a fresh attempt number; errors
\* that are not looked at.
MarkFailed_Rejected(w, r)  == Written(w, r, "rejected", r.num)
MarkFailed_Resets(w, r)    == Written(w, r, "failed", 1)
MarkFailed_Confirms(w, r)  == Written(w, r, "confirmed", r.num)

MarkFailed(w, r) ==
    /\ pc[w] = "rejected" /\ IsFirst(r, batch[w])
    /\ status'  = [status EXCEPT ![r.op] = "failed"]
    /\ attempt' = [attempt EXCEPT ![r.op] = r.num]
    /\ Finish(w, r)
    /\ UNCHANGED <<failed, remote, budget>>

\* markConfirmed or updateStatusAndAttempt throws.
\* Mutant: the exception is swallowed and the tick goes on with the next record.
OutcomeThrows_Swallowed(w) ==
    /\ pc[w] \in {"accepted", "rejected"}
    /\ Fault
    /\ \E r \in batch[w] : IsFirst(r, batch[w]) /\ Finish(w, r)
    /\ UNCHANGED <<table, failed, remote, aborts>>

OutcomeThrows(w) ==
    /\ pc[w] \in {"accepted", "rejected"}
    /\ Fault
    /\ pc' = [pc EXCEPT ![w] = "catch"]
    /\ UNCHANGED <<table, batch, failed, remote, aborts>>

CatchMarksFailed(w, r) ==
    /\ pc[w] = "catch" /\ IsFirst(r, batch[w])
    /\ status' = [status EXCEPT ![r.op] = "failed"]
    /\ Finish(w, r)
    /\ UNCHANGED <<attempt, failed, remote, budget>>

Abort == aborts < MaxAborts /\ aborts' = aborts + 1

\* The write in the catch block throws too: execute rejects, the scheduler
\* swallows it, and the rest of the batch is left for another tick.
CatchThrows(w) ==
    /\ pc[w] = "catch"
    /\ Abort
    /\ pc'    = [pc EXCEPT ![w] = "idle"]
    /\ batch' = [batch EXCEPT ![w] = {}]
    /\ UNCHANGED <<table, failed, remote, faults>>

-----------------------------------------------------------------------------
(* OfflineSyncService.scheduleRetry, one retry tick t. *)

RetryTick(t) ==
    /\ failed[t] = {}
    /\ Read("failed") # {}
    /\ failed' = [failed EXCEPT ![t] = Read("failed")]
    /\ UNCHANGED <<table, pc, batch, remote, budget>>

\* The row becomes pending whatever it is by now; the number is not compared
\* with the maximum of PendingOperation.scheduleRetry.
\* Mutant: the number is not counted up.
Requeue_SameNumber(t, r) ==
    /\ IsFirst(r, failed[t])
    /\ status'  = [status EXCEPT ![r.op] = "pending"]
    /\ failed'  = [failed EXCEPT ![t] = @ \ {r}]
    /\ UNCHANGED <<attempt, pc, batch, remote, budget>>

\* Mutant: a limit that the first attempt already reaches.
Requeue_Limited(t, r) ==
    /\ IsFirst(r, failed[t])
    /\ r.num < 1 => status' = [status EXCEPT ![r.op] = "pending"]
    /\ r.num >= 1 => status' = status
    /\ failed'  = [failed EXCEPT ![t] = @ \ {r}]
    /\ UNCHANGED <<attempt, pc, batch, remote, budget>>

Requeue(t, r) ==
    /\ IsFirst(r, failed[t])
    /\ status'  = [status EXCEPT ![r.op] = "pending"]
    /\ attempt' = [attempt EXCEPT ![r.op] = r.num + 1]
    /\ failed'  = [failed EXCEPT ![t] = @ \ {r}]
    /\ UNCHANGED <<pc, batch, remote, budget>>

\* The update throws: this record is skipped.
RequeueThrows(t, r) ==
    /\ IsFirst(r, failed[t])
    /\ Fault
    /\ failed' = [failed EXCEPT ![t] = @ \ {r}]
    /\ UNCHANGED <<table, pc, batch, remote, aborts>>

-----------------------------------------------------------------------------
\* The server process stops and is started again: every tick is gone, the
\* table stays.
Crash ==
    /\ Abort
    /\ (\E w \in Pushers : pc[w] # "idle") \/ (\E t \in Retriers : failed[t] # {})
    /\ pc'     = [w \in Pushers |-> "idle"]
    /\ batch'  = [w \in Pushers |-> {}]
    /\ failed' = [t \in Retriers |-> {}]
    /\ UNCHANGED <<table, remote, faults>>

PushStep(w) ==
    \/ PushTick(w)
    \/ \E r \in batch[w] :
          \/ MarkSent(w, r) \/ RemoteApplies(w, r) \/ RemoteConflicts(w, r)
          \/ MarkConfirmed(w, r) \/ MarkFailed(w, r) \/ CatchMarksFailed(w, r)

PushFault(w) ==
    \/ \E r \in batch[w] :
          \/ MarkSentThrows(w, r)
          \/ \E reached \in BOOLEAN : RemoteFails(w, r, reached)
    \/ OutcomeThrows(w)
    \/ CatchThrows(w)

RetryStep(t) == RetryTick(t) \/ \E r \in failed[t] : Requeue(t, r)

Next ==
    \/ \E o \in Ops : CreatePendingOperation(o) \/ MarkOperationConfirmed(o)
    \/ \E w \in Pushers : PushStep(w) \/ PushFault(w)
    \/ \E t \in Retriers : RetryStep(t) \/ \E r \in failed[t] : RequeueThrows(t, r)
    \/ Crash

Spec == Init /\ [][Next]_vars

\* The cron keeps firing and a started call ends: each tick's own steps are
\* weakly fair.  Users, faults and crashes owe nothing.
FairSpec ==
    /\ Spec
    /\ \A w \in Pushers : WF_vars(PushStep(w))
    /\ \A t \in Retriers : WF_vars(RetryStep(t))

-----------------------------------------------------------------------------
(* Properties *)

TypeOK ==
    /\ status \in [Ops -> SyncStatus \cup {"none"}]
    /\ attempt \in [Ops -> Nat]
    /\ pc \in [Pushers -> {"idle", "next", "inflight", "accepted", "rejected", "catch"}]
    /\ batch \in [Pushers -> SUBSET Record]
    /\ failed \in [Retriers -> SUBSET Record]
    /\ applied \in [Ops -> Nat]
    /\ refused \subseteq Ops
    /\ faults \in Nat /\ aborts \in Nat

\* No row is confirmed before the remote answered the operation, whatever ticks
\* overlap, whichever call fails and wherever the process stops.
ConfirmedWasAnswered ==
    \A o \in Ops : status[o] = "confirmed" => applied[o] > 0 \/ o \in refused

\* tentative_num accounts for the duplicates: the remote has executed an
\* operation at most tentative_num times, and fewer while it waits to be sent.
AppliedWithinAttempts ==
    \A o \in Ops : /\ applied[o] <= attempt[o]
                   /\ status[o] = "pending" => applied[o] < attempt[o]

\* A push tick is working on operation o right now.
InHand(w, o) == Busy(w) /\ \E r \in batch[w] : IsFirst(r, batch[w]) /\ r.op = o

\* Nothing re-reads rows in "sent": while no execution was aborted, some tick
\* is still going to write the outcome of every such row.
SentIsInHand ==
    aborts = 0 => \A o \in Ops : status[o] = "sent" => \E w \in Pushers : InHand(w, o)

\* The queue is FIFO except for operations whose own push failed or was cut off:
\* only those are overtaken at the remote.
OvertakenOnlyAfterFailure ==
    \A o, p \in Ops :
        (o < p /\ applied[p] > 0 /\ applied[o] = 0 /\ o \notin refused)
            => \/ attempt[o] > 1 \/ status[o] = "failed"
               \/ status[o] = "sent" /\ aborts > 0

\* Confirmed is final: no tick moves a confirmed row to another status, so a
\* confirmed operation is never sent again.
ConfirmedIsFinal ==
    [][\A o \in Ops : status[o] = "confirmed" => status'[o] = "confirmed"]_vars

\* tentative_num never goes back: no tick writes a number older than the row's.
AttemptsNeverDecrease == [][\A o \in Ops : attempt'[o] >= attempt[o]]_vars

\* Unless an execution is aborted, every local change is answered by the remote
\* and its row ends confirmed for good, also when ticks overlap and calls fail.
EventuallyConfirmed ==
    \A o \in Ops : status[o] # "none" ~> (aborts > 0 \/ [](status[o] = "confirmed"))

\* RTS-002: after a crash the scheduler takes up the pending operations again,
\* so aborted executions make no difference to that.
ResumedAfterCrash == \A o \in Ops : status[o] # "none" ~> status[o] = "confirmed"

\* The promise: see DeliveryLedger.
Ledger == INSTANCE DeliveryLedger WITH
    Changes   <- Ops,
    recorded  <- {o \in Ops : status[o] # "none"},
    delivered <- {o \in Ops : applied[o] > 0 \/ o \in refused},
    settled   <- {o \in Ops : status[o] = "confirmed"}

\* The push side implements the ledger.
ImplementsLedger == Ledger!Spec
=============================================================================
