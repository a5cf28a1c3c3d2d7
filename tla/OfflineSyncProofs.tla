------------------------- MODULE OfflineSyncProofs -------------------------
(***************************************************************************)
(* Proofs about both sides of offline sync.  Of OfflineSync, the push      *)
(* side, the first part holds for any number of overlapping ticks; the     *)
(* second is about the schedule the scheduler means to have, one push tick *)
(* and one retry tick under way at a time.  SyncPull, the pull side, comes *)
(* last.                                                                   *)
(***************************************************************************)
EXTENDS OfflineSync, SyncPull, FiniteSetTheorems, TLAPS

-----------------------------------------------------------------------------
(* Lemmas about the batch a tick reads. *)

\* findByOrgAndStatus returns records of rows that have the status asked for,
\* with the attempt number of the row.
LEMMA ReadFacts ==
    ASSUME TypeOK, NEW st, NEW r \in Read(st)
    PROVE  r \in Record /\ status[r.op] = st /\ r.num = attempt[r.op]
<1>1. PICK o \in Selected(st) : r = [op |-> o, num |-> attempt[o]]
  BY DEF Read
<1>2. o \in Ops /\ status[o] = st
  BY DEF Selected
<1>3. attempt[o] \in Nat
  BY <1>2 DEF TypeOK
<1>4. QED
  BY <1>1, <1>2, <1>3 DEF Record

\* Two records that are both first in a copy are of the same operation.
LEMMA FirstIsUnique ==
    ASSUME NEW rs \in SUBSET Record, NEW r \in rs, NEW q \in rs,
           IsFirst(r, rs), IsFirst(q, rs)
    PROVE  r.op = q.op
BY DEF IsFirst, Record, Ops

-----------------------------------------------------------------------------
(* Type correctness. *)

LEMMA TypeInit == Init => TypeOK
BY DEF Init, TypeOK, SyncStatus

LEMMA TypeStep == TypeOK /\ [Next]_vars => TypeOK'
<1> SUFFICES ASSUME TypeOK, [Next]_vars PROVE TypeOK'
  OBVIOUS
<1> USE DEF table, remote, budget, SyncStatus
<1>1. ASSUME NEW o \in Ops, CreatePendingOperation(o) PROVE TypeOK'
  BY <1>1 DEF TypeOK, CreatePendingOperation
<1>2. ASSUME NEW o \in Ops, MarkOperationConfirmed(o) PROVE TypeOK'
  BY <1>2 DEF TypeOK, MarkOperationConfirmed
<1>3. ASSUME NEW w \in Pushers, PushStep(w) PROVE TypeOK'
  <2>1. CASE PushTick(w)
    <3>1. Read("pending") \in SUBSET Record
      BY ReadFacts
    <3>2. QED
      BY <2>1, <3>1 DEF TypeOK, PushTick
  <2>2. ASSUME NEW r \in batch[w], MarkSent(w, r) PROVE TypeOK'
    BY <2>2 DEF TypeOK, MarkSent
  <2>3. ASSUME NEW r \in batch[w], RemoteApplies(w, r) PROVE TypeOK'
    BY <2>3 DEF TypeOK, RemoteApplies, Record
  <2>4. ASSUME NEW r \in batch[w], RemoteConflicts(w, r) PROVE TypeOK'
    BY <2>4 DEF TypeOK, RemoteConflicts, Record
  <2>5. ASSUME NEW r \in batch[w], MarkConfirmed(w, r) PROVE TypeOK'
    BY <2>5 DEF TypeOK, MarkConfirmed, Finish
  <2>6. ASSUME NEW r \in batch[w], MarkFailed(w, r) PROVE TypeOK'
    BY <2>6 DEF TypeOK, MarkFailed, Finish, Record
  <2>7. ASSUME NEW r \in batch[w], CatchMarksFailed(w, r) PROVE TypeOK'
    BY <2>7 DEF TypeOK, CatchMarksFailed, Finish
  <2>8. QED
    BY <1>3, <2>1, <2>2, <2>3, <2>4, <2>5, <2>6, <2>7 DEF PushStep
<1>4. ASSUME NEW w \in Pushers, PushFault(w) PROVE TypeOK'
  <2> USE DEF Fault
  <2>1. ASSUME NEW r \in batch[w], MarkSentThrows(w, r) PROVE TypeOK'
    BY <2>1 DEF TypeOK, MarkSentThrows
  <2>2. ASSUME NEW r \in batch[w], NEW b \in BOOLEAN, RemoteFails(w, r, b) PROVE TypeOK'
    BY <2>2 DEF TypeOK, RemoteFails, Record
  <2>3. CASE OutcomeThrows(w)
    BY <2>3 DEF TypeOK, OutcomeThrows
  <2>4. CASE CatchThrows(w)
    BY <2>4 DEF TypeOK, CatchThrows, Abort
  <2>5. QED
    BY <1>4, <2>1, <2>2, <2>3, <2>4 DEF PushFault
<1>5. ASSUME NEW t \in Retriers, RetryTick(t) PROVE TypeOK'
  <2>1. Read("failed") \in SUBSET Record
    BY ReadFacts
  <2>2. QED
    BY <1>5, <2>1 DEF TypeOK, RetryTick
<1>6. ASSUME NEW t \in Retriers, NEW r \in failed[t], Requeue(t, r) PROVE TypeOK'
  BY <1>6 DEF TypeOK, Requeue, Record
<1>7. ASSUME NEW t \in Retriers, NEW r \in failed[t], RequeueThrows(t, r) PROVE TypeOK'
  BY <1>7 DEF TypeOK, RequeueThrows, Fault
<1>8. CASE Crash
  BY <1>8 DEF TypeOK, Crash, Abort
<1>9. CASE UNCHANGED vars
  BY <1>9 DEF TypeOK, vars
<1>10. QED
  BY <1>1, <1>2, <1>3, <1>4, <1>5, <1>6, <1>7, <1>8, <1>9 DEF Next, RetryStep

\* The tables, the ticks' copies and the counters keep their types, for every
\* number of operations and ticks.
THEOREM TypeCorrect == Spec => []TypeOK
<1>1. QED
  BY TypeInit, TypeStep, PTL DEF Spec

-----------------------------------------------------------------------------
(* A row is confirmed only after the remote answered. *)

Answered(o) == applied[o] > 0 \/ o \in refused

\* Strengthening: a tick that is about to confirm has an answer in hand.
AcceptedWasAnswered ==
    \A w \in Pushers : \A r \in batch[w] :
        pc[w] = "accepted" /\ IsFirst(r, batch[w]) => Answered(r.op)

AnswerInv == TypeOK /\ ConfirmedWasAnswered /\ AcceptedWasAnswered

\* The remote forgets no answer.
LEMMA AnswersStay ==
    ASSUME TypeOK, [Next]_vars, NEW o \in Ops, Answered(o)
    PROVE  Answered(o)'
<1> USE DEF Answered, table, remote, budget
<1>1. CASE \E w \in Pushers : \E r \in batch[w] : RemoteApplies(w, r)
  BY <1>1 DEF TypeOK, RemoteApplies, Record
<1>2. CASE \E w \in Pushers : \E r \in batch[w] : RemoteConflicts(w, r)
  BY <1>2 DEF TypeOK, RemoteConflicts
<1>3. CASE \E w \in Pushers : \E r \in batch[w] : \E b \in BOOLEAN : RemoteFails(w, r, b)
  BY <1>3 DEF TypeOK, RemoteFails, Record
<1>4. CASE UNCHANGED remote
  BY <1>4
<1>5. QED
  BY <1>1, <1>2, <1>3, <1>4
  DEF Next, PushStep, PushFault, RetryStep, CreatePendingOperation, MarkOperationConfirmed,
      PushTick, MarkSent, MarkConfirmed, MarkFailed, CatchMarksFailed, MarkSentThrows,
      OutcomeThrows, CatchThrows, RetryTick, Requeue, RequeueThrows, Crash, vars

LEMMA AnswerStep == AnswerInv /\ [Next]_vars => AnswerInv'
<1> SUFFICES ASSUME AnswerInv, [Next]_vars PROVE AnswerInv'
  OBVIOUS
<1> USE DEF table, remote, budget, Finish
<1>1. TypeOK /\ TypeOK'
  BY TypeStep DEF AnswerInv
<1>2. \A o \in Ops : Answered(o) => Answered(o)'
  BY <1>1, AnswersStay
<1>3. ConfirmedWasAnswered'
  <2> SUFFICES ASSUME NEW o \in Ops, status'[o] = "confirmed" PROVE Answered(o)'
    BY DEF ConfirmedWasAnswered, Answered
  <2>1. CASE status[o] = "confirmed"
    BY <2>1, <1>2 DEF AnswerInv, ConfirmedWasAnswered, Answered
  <2>2. CASE status[o] # "confirmed"
    <3>1. CASE \E p \in Ops : MarkOperationConfirmed(p)
      BY <1>1, <1>2, <2>2, <3>1 DEF MarkOperationConfirmed, TypeOK, Answered
    <3>2. CASE \E w \in Pushers : \E r \in batch[w] : MarkConfirmed(w, r)
      <4>0. PICK w \in Pushers : \E r \in batch[w] : MarkConfirmed(w, r)
        BY <3>2
      <4>1. PICK r \in batch[w] : MarkConfirmed(w, r)
        BY <4>0
      <4>2. r.op = o
        BY <1>1, <2>2, <4>1 DEF MarkConfirmed, TypeOK
      <4>3. QED
        BY <1>2, <4>1, <4>2 DEF MarkConfirmed, AnswerInv, AcceptedWasAnswered
    <3>3. QED
      BY <1>1, <2>2, <3>1, <3>2
      DEF Next, PushStep, PushFault, RetryStep, CreatePendingOperation, PushTick, MarkSent,
          RemoteApplies, RemoteConflicts, RemoteFails, MarkFailed, CatchMarksFailed,
          MarkSentThrows, OutcomeThrows, CatchThrows, RetryTick, Requeue, RequeueThrows,
          Crash, vars, TypeOK
  <2>3. QED
    BY <2>1, <2>2
<1>4. AcceptedWasAnswered'
  <2> SUFFICES ASSUME NEW w \in Pushers, NEW r \in batch'[w],
                      pc'[w] = "accepted", IsFirst(r, batch'[w])
               PROVE  Answered(r.op)'
    BY DEF AcceptedWasAnswered, IsFirst
  <2>1. CASE pc[w] = "accepted" /\ batch'[w] = batch[w]
    <3>1. r.op \in Ops
      BY <1>1, <2>1 DEF TypeOK, Record
    <3>2. QED
      BY <1>2, <2>1, <3>1 DEF AnswerInv, AcceptedWasAnswered
  <2>2. CASE \E q \in batch[w] : RemoteApplies(w, q)
    <3>1. PICK q \in batch[w] : RemoteApplies(w, q)
      BY <2>2
    <3>2. r \in batch[w] /\ IsFirst(r, batch[w]) /\ IsFirst(q, batch[w])
      BY <3>1 DEF RemoteApplies
    <3>3. r.op = q.op /\ q.op \in Ops
      BY <1>1, <3>2, FirstIsUnique DEF TypeOK, Record
    <3>4. applied'[q.op] = applied[q.op] + 1 /\ applied[q.op] \in Nat
      BY <1>1, <3>1, <3>3 DEF RemoteApplies, TypeOK
    <3>5. QED
      BY <3>3, <3>4 DEF Answered
  <2>3. CASE \E q \in batch[w] : RemoteConflicts(w, q)
    <3>1. PICK q \in batch[w] : RemoteConflicts(w, q)
      BY <2>3
    <3>2. r \in batch[w] /\ IsFirst(r, batch[w]) /\ IsFirst(q, batch[w])
      BY <3>1 DEF RemoteConflicts
    <3>3. r.op = q.op
      BY <1>1, <3>2, FirstIsUnique DEF TypeOK
    <3>4. QED
      BY <3>1, <3>3 DEF Answered, RemoteConflicts
  <2>4. QED
    BY <1>1, <2>1, <2>2, <2>3
    DEF Next, PushStep, PushFault, RetryStep, CreatePendingOperation, MarkOperationConfirmed,
        PushTick, MarkSent, RemoteApplies, RemoteConflicts, RemoteFails, MarkConfirmed,
        MarkFailed, CatchMarksFailed, MarkSentThrows, OutcomeThrows, CatchThrows, RetryTick,
        Requeue, RequeueThrows, Crash, vars, TypeOK
<1>5. QED
  BY <1>1, <1>3, <1>4 DEF AnswerInv

\* No row is confirmed before the remote answered its operation: for any number
\* of overlapping push and retry ticks, faults and crashes.
THEOREM ConfirmedIsAnswered == Spec => []ConfirmedWasAnswered
<1>1. Init => AnswerInv
  BY TypeInit DEF Init, AnswerInv, ConfirmedWasAnswered, AcceptedWasAnswered
<1>2. AnswerInv => ConfirmedWasAnswered
  BY DEF AnswerInv
<1>3. QED
  BY <1>1, <1>2, AnswerStep, PTL DEF Spec

-----------------------------------------------------------------------------
(* Without an aborted execution no row is left behind in "sent". *)

SentInv == TypeOK /\ SentIsInHand

\* A step that leaves tick w where it is, or moves it on without leaving its
\* record, keeps the operation in hand.
LEMMA StillInHand ==
    ASSUME NEW w \in Pushers, NEW o \in Ops, InHand(w, o),
           pc'[w] \notin {"idle", "next"}, batch'[w] = batch[w]
    PROVE  InHand(w, o)'
BY DEF InHand, Busy, IsFirst

LEMMA SentStep == SentInv /\ [Next]_vars => SentInv'
<1> SUFFICES ASSUME SentInv, [Next]_vars PROVE SentInv'
  OBVIOUS
<1> USE DEF table, remote, budget, Finish
<1>1. TypeOK /\ TypeOK'
  BY TypeStep DEF SentInv
<1>2. SUFFICES ASSUME aborts' = 0, NEW o \in Ops, status'[o] = "sent"
               PROVE  \E w \in Pushers : InHand(w, o)'
  BY <1>1 DEF SentInv, SentIsInHand, InHand
<1>3. CASE \E w \in Pushers : \E r \in batch[w] : (MarkSent(w, r) /\ r.op = o)
  <2>0. PICK w \in Pushers : \E r \in batch[w] : (MarkSent(w, r) /\ r.op = o)
    BY <1>3
  <2>1. PICK r \in batch[w] : MarkSent(w, r) /\ r.op = o
    BY <2>0
  <2>2. pc'[w] = "inflight" /\ batch'[w] = batch[w]
    BY <1>1, <2>1 DEF MarkSent, TypeOK
  <2>3. QED
    BY <2>1, <2>2 DEF InHand, Busy, IsFirst, MarkSent
<1>4. CASE ~ \E w \in Pushers : \E r \in batch[w] : MarkSent(w, r) /\ r.op = o
  <2>1. aborts = 0 /\ status[o] = "sent"
    BY <1>1, <1>2, <1>4
    DEF Next, PushStep, PushFault, RetryStep, CreatePendingOperation, MarkOperationConfirmed,
        PushTick, MarkSent, RemoteApplies, RemoteConflicts, RemoteFails, MarkConfirmed,
        MarkFailed, CatchMarksFailed, MarkSentThrows, OutcomeThrows, CatchThrows, RetryTick,
        Requeue, RequeueThrows, Crash, Abort, Fault, vars, TypeOK
  <2>2. PICK w \in Pushers : InHand(w, o)
    BY <2>1 DEF SentInv, SentIsInHand
  <2>3. PICK r \in batch[w] : IsFirst(r, batch[w]) /\ r.op = o
    BY <2>2 DEF InHand
  <2>4. \A q \in batch[w] : IsFirst(q, batch[w]) => q.op = o
    BY <1>1, <2>3, FirstIsUnique DEF TypeOK
  <2>5. pc'[w] \notin {"idle", "next"} /\ batch'[w] = batch[w]
    <3>1. pc[w] \notin {"idle", "next"}
      BY <2>2 DEF InHand, Busy
    <3>2. CASE \E v \in Pushers : PushStep(v)
      BY <1>1, <1>2, <2>4, <3>1, <3>2
      DEF PushStep, PushTick, MarkSent, RemoteApplies, RemoteConflicts, MarkConfirmed,
          MarkFailed, CatchMarksFailed, TypeOK
    <3>3. CASE \E v \in Pushers : PushFault(v)
      BY <1>1, <1>2, <2>1, <3>1, <3>3
      DEF PushFault, MarkSentThrows, RemoteFails, OutcomeThrows, CatchThrows, Abort, TypeOK
    <3>4. QED
      BY <1>1, <1>2, <2>1, <3>1, <3>2, <3>3
      DEF Next, RetryStep, CreatePendingOperation, MarkOperationConfirmed, RetryTick, Requeue,
          RequeueThrows, Crash, Abort, vars, TypeOK
  <2>6. QED
    BY <2>2, <2>5, StillInHand
<1>5. QED
  BY <1>3, <1>4

\* Unless an execution was aborted, every row in "sent" belongs to a tick that
\* is still going to write its outcome.
THEOREM SentIsNeverStranded == Spec => []SentIsInHand
<1>1. Init => SentInv
  BY TypeInit DEF Init, SentInv, SentIsInHand
<1>2. SentInv => SentIsInHand
  BY DEF SentInv
<1>3. QED
  BY <1>1, <1>2, SentStep, PTL DEF Spec

-----------------------------------------------------------------------------
(* One push tick and one retry tick at a time, no manual confirmation.      *)

OneAtATime ==
    /\ \A v, w \in Pushers : v = w
    /\ \A s, t \in Retriers : s = t
    /\ ManualConfirm = FALSE

\* What the row of a copied record looks like while the push tick holds it: the
\* copy is current, and the row waits unless it is the one being worked on.
PushCopyIsFresh ==
    \A w \in Pushers : \A r \in batch[w] :
        /\ r.num = attempt[r.op]
        /\ status[r.op] \in {"pending", "sent"}
        /\ ~Busy(w) \/ ~IsFirst(r, batch[w]) => status[r.op] = "pending"
        /\ pc[w] \in {"inflight", "accepted", "rejected"} /\ IsFirst(r, batch[w])
              => status[r.op] = "sent"

RetryCopyIsFresh ==
    \A t \in Retriers : \A r \in failed[t] :
        r.num = attempt[r.op] /\ status[r.op] = "failed"

\* A send that is not answered yet is not counted as applied.
InflightNotApplied ==
    \A w \in Pushers : \A r \in batch[w] :
        pc[w] = "inflight" /\ IsFirst(r, batch[w]) => applied[r.op] < attempt[r.op]

NoRowNoAttempt == \A o \in Ops : status[o] = "none" => attempt[o] = 0 /\ o \notin refused

SoloInv ==
    /\ TypeOK
    /\ PushCopyIsFresh
    /\ RetryCopyIsFresh
    /\ InflightNotApplied
    /\ AppliedWithinAttempts
    /\ NoRowNoAttempt

LEMMA SoloInit == Init => SoloInv
BY TypeInit
DEF Init, SoloInv, PushCopyIsFresh, RetryCopyIsFresh, InflightNotApplied,
    AppliedWithinAttempts, NoRowNoAttempt

\* Two different records of a fresh copy are of different operations.
LEMMA CopiesDiffer ==
    ASSUME SoloInv, NEW w \in Pushers, NEW r \in batch[w], NEW q \in batch[w], q # r
    PROVE  q.op # r.op
BY DEF SoloInv, TypeOK, PushCopyIsFresh, Record

LEMMA RetryCopiesDiffer ==
    ASSUME SoloInv, NEW t \in Retriers, NEW r \in failed[t], NEW q \in failed[t], q # r
    PROVE  q.op # r.op
BY DEF SoloInv, TypeOK, RetryCopyIsFresh, Record

\* The record a push tick works on is of an operation no other copy holds.
LEMMA FirstIsAlone ==
    ASSUME OneAtATime, SoloInv, NEW w \in Pushers, NEW r \in batch[w], IsFirst(r, batch[w])
    PROVE  /\ r.op \in Ops /\ r \in Record
           /\ \A v \in Pushers : v = w
           /\ \A q \in batch[w] : q # r => q.op # r.op /\ ~IsFirst(q, batch[w])
           /\ \A t \in Retriers : \A q \in failed[t] : q.op # r.op
           /\ status[r.op] \in {"pending", "sent"}
<1>1. r.op \in Ops /\ r \in Record /\ batch[w] \in SUBSET Record
  BY DEF SoloInv, TypeOK, Record
<1>2. \A q \in batch[w] : q # r => q.op # r.op
  BY CopiesDiffer
<1>3. \A q \in batch[w] : q # r => ~IsFirst(q, batch[w])
  BY <1>1, <1>2, FirstIsUnique
<1>4. status[r.op] \in {"pending", "sent"}
  BY DEF SoloInv, PushCopyIsFresh
<1>5. \A t \in Retriers : \A q \in failed[t] : q.op # r.op
  BY <1>4 DEF SoloInv, RetryCopyIsFresh
<1>6. QED
  BY <1>1, <1>2, <1>3, <1>4, <1>5 DEF OneAtATime

LEMMA SoloPush ==
    ASSUME OneAtATime, SoloInv, TypeOK', NEW w \in Pushers, PushStep(w)
    PROVE  SoloInv'
<1> USE DEF table, remote, budget, Finish
<1>1. CASE PushTick(w)
  <2>1. \A r \in Read("pending") : r \in Record /\ status[r.op] = "pending" /\ r.num = attempt[r.op]
    BY ReadFacts DEF SoloInv
  <2>2. pc' = [pc EXCEPT ![w] = "next"] /\ batch' = [batch EXCEPT ![w] = Read("pending")]
    BY <1>1 DEF PushTick
  <2>3. PushCopyIsFresh' /\ InflightNotApplied'
    BY <1>1, <2>1, <2>2
    DEF PushTick, SoloInv, PushCopyIsFresh, InflightNotApplied, TypeOK, Busy, OneAtATime
  <2>4. QED
    BY <1>1, <2>3
    DEF PushTick, SoloInv, RetryCopyIsFresh, AppliedWithinAttempts, NoRowNoAttempt
<1>2. ASSUME NEW r \in batch[w], MarkSent(w, r) PROVE SoloInv'
  <2>1. IsFirst(r, batch[w])
    BY <1>2 DEF MarkSent
  <2>2. QED
    BY <1>2, <2>1, FirstIsAlone
    DEF MarkSent, SoloInv, PushCopyIsFresh, RetryCopyIsFresh, InflightNotApplied,
        AppliedWithinAttempts, NoRowNoAttempt, TypeOK, Record, Busy, IsFirst
<1>3. ASSUME NEW r \in batch[w], RemoteApplies(w, r) PROVE SoloInv'
  <2>1. IsFirst(r, batch[w])
    BY <1>3 DEF RemoteApplies
  <2>2. QED
    BY <1>3, <2>1, FirstIsAlone
    DEF RemoteApplies, SoloInv, PushCopyIsFresh, RetryCopyIsFresh, InflightNotApplied,
        AppliedWithinAttempts, NoRowNoAttempt, TypeOK, Record, Busy, IsFirst
<1>4. ASSUME NEW r \in batch[w], RemoteConflicts(w, r) PROVE SoloInv'
  <2>1. IsFirst(r, batch[w])
    BY <1>4 DEF RemoteConflicts
  <2>2. QED
    BY <1>4, <2>1, FirstIsAlone
    DEF RemoteConflicts, SoloInv, PushCopyIsFresh, RetryCopyIsFresh, InflightNotApplied,
        AppliedWithinAttempts, NoRowNoAttempt, TypeOK, Record, Busy, IsFirst
<1>5. ASSUME NEW r \in batch[w], MarkConfirmed(w, r) PROVE SoloInv'
  <2>1. IsFirst(r, batch[w])
    BY <1>5 DEF MarkConfirmed
  <2>2. QED
    BY <1>5, <2>1, FirstIsAlone
    DEF MarkConfirmed, SoloInv, PushCopyIsFresh, RetryCopyIsFresh, InflightNotApplied,
        AppliedWithinAttempts, NoRowNoAttempt, TypeOK, Record, Busy, IsFirst
<1>6. ASSUME NEW r \in batch[w], MarkFailed(w, r) PROVE SoloInv'
  <2>1. IsFirst(r, batch[w])
    BY <1>6 DEF MarkFailed
  <2>2. QED
    BY <1>6, <2>1, FirstIsAlone
    DEF MarkFailed, SoloInv, PushCopyIsFresh, RetryCopyIsFresh, InflightNotApplied,
        AppliedWithinAttempts, NoRowNoAttempt, TypeOK, Record, Busy, IsFirst
<1>7. ASSUME NEW r \in batch[w], CatchMarksFailed(w, r) PROVE SoloInv'
  <2>1. IsFirst(r, batch[w])
    BY <1>7 DEF CatchMarksFailed
  <2>2. QED
    BY <1>7, <2>1, FirstIsAlone
    DEF CatchMarksFailed, SoloInv, PushCopyIsFresh, RetryCopyIsFresh, InflightNotApplied,
        AppliedWithinAttempts, NoRowNoAttempt, TypeOK, Record, Busy, IsFirst
<1>8. QED
  BY <1>1, <1>2, <1>3, <1>4, <1>5, <1>6, <1>7 DEF PushStep

LEMMA SoloFault ==
    ASSUME OneAtATime, SoloInv, TypeOK', NEW w \in Pushers, PushFault(w)
    PROVE  SoloInv'
<1> USE DEF table, remote, budget, Fault, Abort
<1>1. ASSUME NEW r \in batch[w], MarkSentThrows(w, r) PROVE SoloInv'
  <2>1. IsFirst(r, batch[w])
    BY <1>1 DEF MarkSentThrows
  <2>2. QED
    BY <1>1, <2>1, FirstIsAlone
    DEF MarkSentThrows, SoloInv, PushCopyIsFresh, RetryCopyIsFresh, InflightNotApplied,
        AppliedWithinAttempts, NoRowNoAttempt, TypeOK, Record, Busy, IsFirst
<1>2. ASSUME NEW r \in batch[w], NEW b \in BOOLEAN, RemoteFails(w, r, b) PROVE SoloInv'
  <2>1. IsFirst(r, batch[w])
    BY <1>2 DEF RemoteFails
  <2>2. QED
    BY <1>2, <2>1, FirstIsAlone
    DEF RemoteFails, SoloInv, PushCopyIsFresh, RetryCopyIsFresh, InflightNotApplied,
        AppliedWithinAttempts, NoRowNoAttempt, TypeOK, Record, Busy, IsFirst
<1>3. CASE OutcomeThrows(w)
  BY <1>3
  DEF OutcomeThrows, OneAtATime, SoloInv, PushCopyIsFresh, RetryCopyIsFresh, InflightNotApplied,
       AppliedWithinAttempts, NoRowNoAttempt, TypeOK, Record, Busy, IsFirst
<1>4. CASE CatchThrows(w)
  BY <1>4
  DEF CatchThrows, OneAtATime, SoloInv, PushCopyIsFresh, RetryCopyIsFresh, InflightNotApplied,
       AppliedWithinAttempts, NoRowNoAttempt, TypeOK, Record, Busy, IsFirst
<1>5. QED
  BY <1>1, <1>2, <1>3, <1>4 DEF PushFault

LEMMA SoloRetry ==
    ASSUME OneAtATime, SoloInv, TypeOK', NEW t \in Retriers,
           RetryStep(t) \/ \E r \in failed[t] : RequeueThrows(t, r)
    PROVE  SoloInv'
<1> USE DEF table, remote, budget, Fault
<1>1. CASE RetryTick(t)
  <2>1. \A r \in Read("failed") : r \in Record /\ status[r.op] = "failed" /\ r.num = attempt[r.op]
    BY ReadFacts DEF SoloInv
  <2>2. failed' = [failed EXCEPT ![t] = Read("failed")]
    BY <1>1 DEF RetryTick
  <2>3. RetryCopyIsFresh'
    BY <1>1, <2>1, <2>2 DEF RetryTick, SoloInv, RetryCopyIsFresh, TypeOK, OneAtATime
  <2>4. QED
    BY <1>1, <2>3
    DEF RetryTick, SoloInv, PushCopyIsFresh, InflightNotApplied, AppliedWithinAttempts,
        NoRowNoAttempt, Busy
<1>2. ASSUME NEW r \in failed[t], Requeue(t, r) PROVE SoloInv'
  <2>1. /\ r.op \in Ops /\ r.num = attempt[r.op] /\ status[r.op] = "failed"
        /\ \A q \in failed[t] : q # r => q.op # r.op
        /\ \A s \in Retriers : s = t
    BY RetryCopiesDiffer DEF SoloInv, TypeOK, Record, RetryCopyIsFresh, OneAtATime
  <2>2. \A w \in Pushers : \A q \in batch[w] : q.op # r.op
    BY <2>1 DEF SoloInv, PushCopyIsFresh
  <2>3. QED
    BY <1>2, <2>1, <2>2
    DEF Requeue, SoloInv, PushCopyIsFresh, RetryCopyIsFresh, InflightNotApplied,
        AppliedWithinAttempts, NoRowNoAttempt, TypeOK, Record, Busy, IsFirst
<1>3. ASSUME NEW r \in failed[t], RequeueThrows(t, r) PROVE SoloInv'
  BY <1>3
  DEF RequeueThrows, OneAtATime, SoloInv, PushCopyIsFresh, RetryCopyIsFresh, InflightNotApplied,
       AppliedWithinAttempts, NoRowNoAttempt, TypeOK, Record, Busy, IsFirst
<1>4. QED
  BY <1>1, <1>2, <1>3 DEF RetryStep

LEMMA SoloStep == OneAtATime /\ SoloInv /\ [Next]_vars => SoloInv'
<1> SUFFICES ASSUME OneAtATime, SoloInv, [Next]_vars PROVE SoloInv'
  OBVIOUS
<1>1. TypeOK'
  BY TypeStep DEF SoloInv
<1>2. ASSUME NEW o \in Ops, CreatePendingOperation(o) PROVE SoloInv'
  BY <1>1, <1>2
  DEF CreatePendingOperation, remote, budget, SoloInv, PushCopyIsFresh, RetryCopyIsFresh, InflightNotApplied,
       AppliedWithinAttempts, NoRowNoAttempt, TypeOK, Record, Busy, IsFirst
<1>3. CASE Crash
  BY <1>1, <1>3
  DEF Crash, table, remote, SoloInv, PushCopyIsFresh, RetryCopyIsFresh, InflightNotApplied,
       AppliedWithinAttempts, NoRowNoAttempt, TypeOK, Record, Busy, IsFirst
<1>4. CASE UNCHANGED vars
  BY <1>4
  DEF vars, SoloInv, PushCopyIsFresh, RetryCopyIsFresh, InflightNotApplied,
       AppliedWithinAttempts, NoRowNoAttempt, TypeOK, Record, Busy, IsFirst
<1>5. QED
  BY <1>1, <1>2, <1>3, <1>4, SoloPush, SoloFault, SoloRetry
  DEF Next, MarkOperationConfirmed, OneAtATime

\* With one push tick and one retry tick at a time, tentative_num bounds the
\* executions at the remote: no operation is sent twice for one attempt.
THEOREM AttemptsBoundExecutions ==
    ASSUME OneAtATime
    PROVE  Spec => []AppliedWithinAttempts
<1>1. SoloInv => AppliedWithinAttempts
  BY DEF SoloInv
<1>2. SoloInv /\ [Next]_vars => SoloInv'
  BY SoloStep
<1>3. QED
  BY <1>1, <1>2, SoloInit, PTL DEF Spec

LEMMA ConfirmedKept ==
    ASSUME OneAtATime, SoloInv, [Next]_vars, NEW o \in Ops, status[o] = "confirmed"
    PROVE  status'[o] = "confirmed"
<1> USE DEF table, remote, budget
<1>1. ASSUME NEW w \in Pushers, NEW r \in batch[w] PROVE r.op # o
  BY DEF SoloInv, PushCopyIsFresh
<1>2. ASSUME NEW t \in Retriers, NEW r \in failed[t] PROVE r.op # o
  BY DEF SoloInv, RetryCopyIsFresh
<1>3. QED
  BY <1>1, <1>2
  DEF Next, PushStep, PushFault, RetryStep, CreatePendingOperation, MarkOperationConfirmed,
      PushTick, MarkSent, RemoteApplies, RemoteConflicts, RemoteFails, MarkConfirmed,
      MarkFailed, CatchMarksFailed, MarkSentThrows, OutcomeThrows, CatchThrows, RetryTick,
      Requeue, RequeueThrows, Crash, vars, SoloInv, TypeOK

\* With one push tick and one retry tick at a time, confirmed rows stay so.
THEOREM ConfirmedStaysConfirmed ==
    ASSUME OneAtATime
    PROVE  Spec => ConfirmedIsFinal
<1>1. SoloInv /\ [Next]_vars => SoloInv'
  BY SoloStep
<1>2. SoloInv /\ [Next]_vars =>
        [\A o \in Ops : status[o] = "confirmed" => status'[o] = "confirmed"]_vars
  BY ConfirmedKept
<1>3. QED
  BY <1>1, <1>2, SoloInit, PTL DEF Spec, ConfirmedIsFinal

LEMMA AttemptKept ==
    ASSUME OneAtATime, SoloInv, [Next]_vars, NEW o \in Ops
    PROVE  attempt'[o] >= attempt[o]
<1> USE DEF table, remote, budget
<1>1. attempt \in [Ops -> Nat] /\ attempt[o] \in Nat
  BY DEF SoloInv, TypeOK
<1>2. ASSUME NEW p \in Ops, CreatePendingOperation(p) PROVE attempt'[o] >= attempt[o]
  <2>1. attempt[p] = 0
    BY <1>2 DEF CreatePendingOperation, SoloInv, NoRowNoAttempt
  <2>2. QED
    BY <1>1, <1>2, <2>1 DEF CreatePendingOperation
<1>3. ASSUME NEW w \in Pushers, NEW r \in batch[w], MarkFailed(w, r)
      PROVE  attempt'[o] >= attempt[o]
  <2>1. r.num = attempt[r.op]
    BY DEF SoloInv, PushCopyIsFresh
  <2>2. QED
    BY <1>1, <1>3, <2>1 DEF MarkFailed
<1>4. ASSUME NEW t \in Retriers, NEW r \in failed[t], Requeue(t, r)
      PROVE  attempt'[o] >= attempt[o]
  <2>1. r.num = attempt[r.op]
    BY DEF SoloInv, RetryCopyIsFresh
  <2>2. QED
    BY <1>1, <1>4, <2>1 DEF Requeue
<1>5. CASE UNCHANGED attempt
  BY <1>1, <1>5
<1>6. QED
  BY <1>2, <1>3, <1>4, <1>5
  DEF Next, PushStep, PushFault, RetryStep, MarkOperationConfirmed, PushTick, MarkSent,
      RemoteApplies, RemoteConflicts, RemoteFails, MarkConfirmed, CatchMarksFailed,
      MarkSentThrows, OutcomeThrows, CatchThrows, RetryTick, RequeueThrows, Crash, vars

\* With one push tick and one retry tick at a time, the number a tick writes
\* back is the row's own or the next one.
THEOREM AttemptsNeverGoBack ==
    ASSUME OneAtATime
    PROVE  Spec => AttemptsNeverDecrease
<1>1. SoloInv /\ [Next]_vars => SoloInv'
  BY SoloStep
<1>2. SoloInv /\ [Next]_vars => [\A o \in Ops : attempt'[o] >= attempt[o]]_vars
  BY AttemptKept
<1>3. QED
  BY <1>1, <1>2, SoloInit, PTL DEF Spec, AttemptsNeverDecrease

-----------------------------------------------------------------------------
(* Only what failed is overtaken. *)

\* What makes it no matter for later operations that o is not delivered.
Excused(o) ==
    \/ attempt[o] > 1 \/ status[o] = "failed"
    \/ status[o] = "sent" /\ aborts > 0

LetPass(o) == Excused(o) \/ Answered(o)

RowsInOrder == \A o, p \in Ops : (o < p /\ status[p] # "none") => status[o] # "none"

RowsHaveAttempts == \A o \in Ops : status[o] # "none" => attempt[o] >= 1

IdleHasNone == \A w \in Pushers : pc[w] = "idle" => batch[w] = {}

\* Strengthening: whatever is older than a record of a tick is in the tick's
\* hands as well, or may be overtaken.
OlderIsThereToo ==
    \A w \in Pushers : \A r \in batch[w] : \A o \in Ops :
        o < r.op => (\E q \in batch[w] : q.op = o) \/ LetPass(o)

FifoInv ==
    /\ SoloInv /\ AnswerInv /\ SentInv
    /\ RowsInOrder /\ RowsHaveAttempts
    /\ IdleHasNone /\ OlderIsThereToo
    /\ OvertakenOnlyAfterFailure

\* The batch is cut off at the newest rows: an older one with the same status is
\* read as well.
LEMMA ReadIsClosed ==
    ASSUME NEW st, NEW o \in Ops, NEW r \in Read(st), o < r.op, status[o] = st
    PROVE  \E q \in Read(st) : q.op = o
<1>1. PICK p \in Selected(st) : r = [op |-> p, num |-> attempt[p]]
  BY DEF Read
<1>2. p \in Ops /\ o < p /\ Ops = 1 .. NumOps /\ NumOps \in Nat
  BY <1>1, OfflineSyncAssumption DEF Selected, Ops
<1> DEFINE older(x) == {q \in Ops : q < x /\ status[q] = st}
<1>3. /\ IsFiniteSet(older(o)) /\ IsFiniteSet(older(p))
      /\ Cardinality(older(o)) <= Cardinality(older(p))
  <2>1. IsFiniteSet(Ops)
    BY <1>2, FS_Interval
  <2>2. IsFiniteSet(older(p))
    <3>1. older(p) \subseteq Ops
      OBVIOUS
    <3>2. QED
      BY <2>1, <3>1, FS_Subset
  <2>3. older(o) \subseteq older(p)
    BY <1>2
  <2>4. QED
    BY <2>2, <2>3, FS_Subset
<1>4. Cardinality(older(p)) < MaxBatch
  BY <1>1 DEF Selected
<1>5. Cardinality(older(o)) \in Nat /\ Cardinality(older(p)) \in Nat /\ MaxBatch \in Nat
  BY <1>3, FS_CardinalityType, OfflineSyncAssumption
<1>6. Cardinality(older(o)) < MaxBatch
  BY <1>3, <1>4, <1>5
<1>7. o \in Selected(st)
  BY <1>6 DEF Selected
<1>8. [op |-> o, num |-> attempt[o]] \in Read(st)
  BY <1>7 DEF Read
<1>9. QED
  BY <1>8

LEMMA FifoInit == Init => FifoInv
<1>1. Init => AnswerInv /\ SentInv
  BY TypeInit DEF Init, AnswerInv, ConfirmedWasAnswered, AcceptedWasAnswered, SentInv,
                  SentIsInHand
<1>2. Init => /\ RowsInOrder /\ RowsHaveAttempts /\ IdleHasNone /\ OlderIsThereToo
              /\ OvertakenOnlyAfterFailure
  BY DEF Init, RowsInOrder, RowsHaveAttempts, IdleHasNone, OlderIsThereToo,
         OvertakenOnlyAfterFailure
<1>3. QED
  BY <1>1, <1>2, SoloInit DEF FifoInv

\* A row that exists never disappears from the table.
LEMMA RowsStay ==
    ASSUME TypeOK, [Next]_vars, NEW o \in Ops, status[o] # "none"
    PROVE  status'[o] # "none"
BY DEF Next, PushStep, PushFault, RetryStep, CreatePendingOperation, MarkOperationConfirmed,
       PushTick, MarkSent, RemoteApplies, RemoteConflicts, RemoteFails, MarkConfirmed,
       MarkFailed, CatchMarksFailed, MarkSentThrows, OutcomeThrows, CatchThrows, RetryTick,
       Requeue, RequeueThrows, Crash, vars, table, remote, budget, TypeOK

\* Rows are created in order, with a first attempt.
LEMMA RowsStep ==
    ASSUME OneAtATime, FifoInv, [Next]_vars
    PROVE  (RowsInOrder /\ RowsHaveAttempts)'
<1>1. TypeOK /\ TypeOK' /\ SoloInv
  BY TypeStep DEF FifoInv, SoloInv
<1>2. \A o \in Ops : status[o] # "none" => status'[o] # "none"
  BY <1>1, RowsStay
<1>3. ASSUME NEW p \in Ops, status[p] = "none", status'[p] # "none"
      PROVE  CreatePendingOperation(p)
  <2>1. \A w \in Pushers : \A r \in batch[w] : r.op # p
    BY <1>1, <1>3 DEF SoloInv, PushCopyIsFresh
  <2>2. \A t \in Retriers : \A r \in failed[t] : r.op # p
    BY <1>1, <1>3 DEF SoloInv, RetryCopyIsFresh
  <2>3. QED
    BY <1>1, <1>3, <2>1, <2>2
    DEF Next, PushStep, PushFault, RetryStep, CreatePendingOperation, MarkOperationConfirmed,
        PushTick, MarkSent, RemoteApplies, RemoteConflicts, RemoteFails, MarkConfirmed,
        MarkFailed, CatchMarksFailed, MarkSentThrows, OutcomeThrows, CatchThrows, RetryTick,
        Requeue, RequeueThrows, Crash, vars, table, remote, budget, TypeOK, OneAtATime
<1>4. RowsInOrder'
  BY <1>2, <1>3 DEF RowsInOrder, FifoInv, CreatePendingOperation
<1>5. RowsHaveAttempts'
  <2> SUFFICES ASSUME NEW o \in Ops, status'[o] # "none" PROVE attempt'[o] >= 1
    BY DEF RowsHaveAttempts
  <2>1. CASE status[o] # "none"
    <3>1. attempt[o] >= 1 /\ attempt'[o] >= attempt[o]
      BY <1>1, <2>1, AttemptKept DEF FifoInv, RowsHaveAttempts
    <3>2. attempt[o] \in Nat /\ attempt'[o] \in Nat
      BY <1>1 DEF TypeOK
    <3>3. QED
      BY <3>1, <3>2
  <2>2. CASE status[o] = "none"
    BY <1>1, <1>3, <2>2 DEF CreatePendingOperation, TypeOK
  <2>3. QED
    BY <2>1, <2>2
<1>6. QED
  BY <1>4, <1>5

LEMMA IdleStep ==
    ASSUME TypeOK, IdleHasNone, [Next]_vars
    PROVE  IdleHasNone'
<1> USE DEF table, remote, budget, Finish, TypeOK, IdleHasNone
<1>1. ASSUME NEW v \in Pushers, PushStep(v) PROVE IdleHasNone'
  BY <1>1
  DEF PushStep, PushTick, MarkSent, RemoteApplies, RemoteConflicts, MarkConfirmed, MarkFailed,
      CatchMarksFailed
<1>2. ASSUME NEW v \in Pushers, PushFault(v) PROVE IdleHasNone'
  BY <1>2 DEF PushFault, MarkSentThrows, RemoteFails, OutcomeThrows, CatchThrows
<1>3. CASE Crash
  BY <1>3 DEF Crash
<1>4. CASE UNCHANGED <<pc, batch>>
  BY <1>4
<1>5. QED
  BY <1>1, <1>2, <1>3, <1>4
  DEF Next, RetryStep, CreatePendingOperation, MarkOperationConfirmed, RetryTick, Requeue,
      RequeueThrows, vars

\* What may be overtaken or is answered stays so.
LEMMA LetPassStays ==
    ASSUME OneAtATime, FifoInv, [Next]_vars, NEW o \in Ops, LetPass(o)
    PROVE  LetPass(o)'
<1> USE DEF table, remote, budget, Abort, Fault
<1>1. TypeOK /\ TypeOK' /\ SoloInv
  BY TypeStep DEF FifoInv, SoloInv
<1>2. CASE Answered(o)
  BY <1>1, <1>2, AnswersStay DEF LetPass
<1>3. CASE attempt[o] > 1
  <2>1. attempt'[o] >= attempt[o] /\ attempt[o] \in Nat /\ attempt'[o] \in Nat
    BY <1>1, AttemptKept DEF TypeOK
  <2>2. QED
    BY <1>3, <2>1 DEF LetPass, Excused
<1>4. CASE status[o] = "failed"
  <2>1. \A w \in Pushers : \A r \in batch[w] : r.op # o
    BY <1>1, <1>4 DEF SoloInv, PushCopyIsFresh
  <2>2. CASE status'[o] = "failed"
    BY <2>2 DEF LetPass, Excused
  <2>3. CASE status'[o] # "failed"
    <3>1. PICK t \in Retriers : \E r \in failed[t] : Requeue(t, r) /\ r.op = o
      BY <1>1, <1>4, <2>1, <2>3
      DEF Next, PushStep, PushFault, RetryStep, CreatePendingOperation, MarkOperationConfirmed,
          PushTick, MarkSent, RemoteApplies, RemoteConflicts, RemoteFails, MarkConfirmed,
          MarkFailed, CatchMarksFailed, MarkSentThrows, OutcomeThrows, CatchThrows, RetryTick,
          Requeue, RequeueThrows, Crash, vars, TypeOK, OneAtATime
    <3>2. PICK r \in failed[t] : Requeue(t, r) /\ r.op = o
      BY <3>1
    <3>3. r.num = attempt[o] /\ attempt[o] >= 1 /\ attempt[o] \in Nat
      BY <1>1, <1>4, <3>2
      DEF SoloInv, RetryCopyIsFresh, FifoInv, RowsHaveAttempts, TypeOK
    <3>4. attempt'[o] = attempt[o] + 1
      BY <1>1, <3>2, <3>3 DEF Requeue, TypeOK
    <3>5. QED
      BY <3>3, <3>4 DEF LetPass, Excused
  <2>4. QED
    BY <2>2, <2>3
<1>5. CASE status[o] = "sent" /\ aborts > 0
  <2>1. \A t \in Retriers : \A r \in failed[t] : r.op # o
    BY <1>1, <1>5 DEF SoloInv, RetryCopyIsFresh
  <2>2. aborts' > 0
    BY <1>1, <1>5
    DEF Next, PushStep, PushFault, RetryStep, CreatePendingOperation, MarkOperationConfirmed,
        PushTick, MarkSent, RemoteApplies, RemoteConflicts, RemoteFails, MarkConfirmed,
        MarkFailed, CatchMarksFailed, MarkSentThrows, OutcomeThrows, CatchThrows, RetryTick,
        Requeue, RequeueThrows, Crash, vars, TypeOK
  <2>3. ASSUME NEW w \in Pushers, NEW r \in batch[w], MarkConfirmed(w, r), r.op = o
        PROVE  LetPass(o)'
    <3>1. Answered(o)
      BY <2>3 DEF MarkConfirmed, FifoInv, AnswerInv, AcceptedWasAnswered
    <3>2. QED
      BY <1>1, <3>1, AnswersStay DEF LetPass
  <2>4. CASE status'[o] \in {"sent", "failed"}
    BY <2>2, <2>4 DEF LetPass, Excused
  <2>5. CASE status'[o] \notin {"sent", "failed"}
    <3>1. \E w \in Pushers : \E r \in batch[w] : MarkConfirmed(w, r) /\ r.op = o
      BY <1>1, <1>5, <2>1, <2>5
      DEF Next, PushStep, PushFault, RetryStep, CreatePendingOperation, MarkOperationConfirmed,
          PushTick, MarkSent, RemoteApplies, RemoteConflicts, RemoteFails, MarkConfirmed,
          MarkFailed, CatchMarksFailed, MarkSentThrows, OutcomeThrows, CatchThrows, RetryTick,
          Requeue, RequeueThrows, Crash, vars, TypeOK, OneAtATime
    <3>2. QED
      BY <2>3, <3>1
  <2>6. QED
    BY <2>4, <2>5
<1>6. QED
  BY <1>2, <1>3, <1>4, <1>5 DEF LetPass, Excused

\* A record leaves the hands of a tick that goes on when its outcome is written.
LEMMA FinishedMayPass ==
    ASSUME OneAtATime, FifoInv, [Next]_vars, NEW w \in Pushers, NEW q \in batch[w],
           q \notin batch'[w], batch'[w] # {}
    PROVE  LetPass(q.op)'
<1> USE DEF table, remote, budget, Finish
<1>1. /\ TypeOK /\ TypeOK' /\ SoloInv /\ \A v \in Pushers : v = w
      /\ q.op \in Ops
  BY TypeStep DEF FifoInv, SoloInv, OneAtATime, TypeOK, Record
<1>2. ASSUME MarkConfirmed(w, q) PROVE LetPass(q.op)'
  <2>1. Answered(q.op)
    BY <1>2 DEF MarkConfirmed, FifoInv, AnswerInv, AcceptedWasAnswered
  <2>2. QED
    BY <1>1, <2>1, AnswersStay DEF LetPass
<1>3. ASSUME MarkFailed(w, q) \/ CatchMarksFailed(w, q) PROVE LetPass(q.op)'
  BY <1>1, <1>3 DEF MarkFailed, CatchMarksFailed, LetPass, Excused, TypeOK
<1>4. MarkConfirmed(w, q) \/ MarkFailed(w, q) \/ CatchMarksFailed(w, q)
  <2>1. pc[w] # "idle"
    BY DEF FifoInv, IdleHasNone
  <2>2. QED
    BY <1>1, <2>1
    DEF Next, PushStep, PushFault, RetryStep, CreatePendingOperation, MarkOperationConfirmed,
        PushTick, MarkSent, RemoteApplies, RemoteConflicts, RemoteFails, MarkConfirmed,
        MarkFailed, CatchMarksFailed, MarkSentThrows, OutcomeThrows, CatchThrows, RetryTick,
        Requeue, RequeueThrows, Crash, vars, TypeOK
<1>5. QED
  BY <1>2, <1>3, <1>4

LEMMA OlderStep ==
    ASSUME OneAtATime, FifoInv, [Next]_vars
    PROVE  OlderIsThereToo'
<1>1. TypeOK /\ TypeOK' /\ SoloInv
  BY TypeStep DEF FifoInv, SoloInv
<1>2. SUFFICES ASSUME NEW w \in Pushers, NEW r \in batch'[w], NEW o \in Ops, o < r.op
               PROVE  (\E q \in batch'[w] : q.op = o) \/ LetPass(o)'
  BY DEF OlderIsThereToo, LetPass, Excused, Answered
<1>3. CASE PushTick(w)
  <2>1. batch'[w] = Read("pending") /\ pc[w] = "idle"
    BY <1>1, <1>3 DEF PushTick, TypeOK
  <2>2. r.op \in Ops /\ status[r.op] = "pending"
    BY <1>1, <2>1, ReadFacts DEF Record
  <2>3. status[o] \in SyncStatus
    BY <1>1, <1>2, <2>2 DEF FifoInv, RowsInOrder, TypeOK
  <2>4. CASE status[o] = "pending"
    BY <1>2, <2>1, <2>4, ReadIsClosed
  <2>5. CASE status[o] = "sent"
    <3>1. \A v \in Pushers : ~InHand(v, o)
      BY <2>1 DEF OneAtATime, InHand, Busy
    <3>2. aborts # 0 /\ aborts \in Nat
      BY <1>1, <2>5, <3>1 DEF FifoInv, SentInv, SentIsInHand, TypeOK
    <3>3. LetPass(o)
      BY <2>5, <3>2 DEF LetPass, Excused
    <3>4. QED
      BY <3>3, LetPassStays
  <2>6. CASE status[o] = "failed"
    BY <2>6, LetPassStays DEF LetPass, Excused
  <2>7. CASE status[o] = "confirmed"
    BY <2>7, LetPassStays DEF LetPass, Answered, FifoInv, AnswerInv, ConfirmedWasAnswered
  <2>8. QED
    BY <2>3, <2>4, <2>5, <2>6, <2>7 DEF SyncStatus
<1>4. CASE ~PushTick(w)
  <2>1. batch'[w] \subseteq batch[w]
    BY <1>1, <1>4
    DEF Next, PushStep, PushFault, RetryStep, CreatePendingOperation, MarkOperationConfirmed,
        PushTick, MarkSent, RemoteApplies, RemoteConflicts, RemoteFails, MarkConfirmed,
        MarkFailed, CatchMarksFailed, MarkSentThrows, OutcomeThrows, CatchThrows, RetryTick,
        Requeue, RequeueThrows, Crash, Finish, vars, TypeOK, OneAtATime
  <2>2. CASE LetPass(o)
    BY <2>2, LetPassStays
  <2>3. ASSUME NEW q \in batch[w], q.op = o
        PROVE  (\E x \in batch'[w] : x.op = o) \/ LetPass(o)'
    <3>1. CASE q \in batch'[w]
      BY <2>3, <3>1
    <3>2. CASE q \notin batch'[w]
      BY <2>3, <3>2, FinishedMayPass
    <3>3. QED
      BY <3>1, <3>2
  <2>4. QED
    BY <1>2, <2>1, <2>2, <2>3 DEF FifoInv, OlderIsThereToo
<1>5. QED
  BY <1>3, <1>4

LEMMA OvertakenStep ==
    ASSUME OneAtATime, FifoInv, [Next]_vars
    PROVE  OvertakenOnlyAfterFailure'
<1>1. TypeOK /\ TypeOK' /\ SoloInv
  BY TypeStep DEF FifoInv, SoloInv
<1>2. SUFFICES ASSUME NEW o \in Ops, NEW p \in Ops, o < p, applied'[p] > 0, ~Answered(o)'
               PROVE  LetPass(o)'
  BY <1>1 DEF OvertakenOnlyAfterFailure, LetPass, Excused, Answered, TypeOK
<1>3. ~Answered(o)
  BY <1>1, <1>2, AnswersStay
<1>4. CASE applied[p] > 0
  <2>1. LetPass(o)
    BY <1>1, <1>2, <1>3, <1>4
    DEF FifoInv, OvertakenOnlyAfterFailure, LetPass, Excused, Answered, TypeOK
  <2>2. QED
    BY <2>1, LetPassStays
<1>5. CASE ~(applied[p] > 0)
  <2>1. PICK w \in Pushers : \E r \in batch[w] : IsFirst(r, batch[w]) /\ r.op = p
    BY <1>1, <1>2, <1>5
    DEF Next, PushStep, PushFault, RetryStep, CreatePendingOperation, MarkOperationConfirmed,
        PushTick, MarkSent, RemoteApplies, RemoteConflicts, RemoteFails, MarkConfirmed,
        MarkFailed, CatchMarksFailed, MarkSentThrows, OutcomeThrows, CatchThrows, RetryTick,
        Requeue, RequeueThrows, Crash, vars, remote, TypeOK
  <2>2. PICK r \in batch[w] : IsFirst(r, batch[w]) /\ r.op = p
    BY <2>1
  <2>3. \A q \in batch[w] : q.op # o
    BY <1>2, <2>2 DEF IsFirst, Ops
  <2>4. LetPass(o)
    BY <1>2, <2>2, <2>3 DEF FifoInv, OlderIsThereToo
  <2>5. QED
    BY <2>4, LetPassStays
<1>6. QED
  BY <1>4, <1>5

LEMMA FifoStep ==
    ASSUME OneAtATime, FifoInv, [Next]_vars
    PROVE  FifoInv'
<1>1. SoloInv' /\ AnswerInv' /\ SentInv'
  BY SoloStep, AnswerStep, SentStep DEF FifoInv
<1>2. IdleHasNone'
  BY IdleStep DEF FifoInv, SentInv
<1>3. QED
  BY <1>1, <1>2, RowsStep, OlderStep, OvertakenStep DEF FifoInv

\* With one push tick and one retry tick at a time, the remote executes an
\* operation before an older one only when the older one failed, was tried
\* again, or was left in "sent" by an aborted execution.
THEOREM OnlyFailuresAreOvertaken ==
    ASSUME OneAtATime
    PROVE  Spec => []OvertakenOnlyAfterFailure
<1>1. FifoInv => OvertakenOnlyAfterFailure
  BY DEF FifoInv
<1>2. FifoInv /\ [Next]_vars => FifoInv'
  BY FifoStep
<1>3. QED
  BY <1>1, <1>2, FifoInit, PTL DEF Spec

-----------------------------------------------------------------------------
(* The push side implements the ledger. *)

Recorded  == {o \in Ops : status[o] # "none"}
Delivered == {o \in Ops : applied[o] > 0 \/ o \in refused}
Settled   == {o \in Ops : status[o] = "confirmed"}

\* A step of the remote on a record in flight delivers its operation, or was
\* delivered before.
LEMMA RemoteDelivers ==
    ASSUME OneAtATime, SoloInv, NEW w \in Pushers, NEW r \in batch[w], pc[w] = "inflight",
           IsFirst(r, batch[w]), UNCHANGED status,
           \/ applied' = [applied EXCEPT ![r.op] = @ + 1] /\ refused' = refused
           \/ refused' = refused \cup {r.op} /\ applied' = applied
    PROVE  [Ledger!Next]_(Ledger!ledger)
<1>1. r.op \in Recorded /\ r.op \in Ops
  BY FirstIsAlone DEF SoloInv, PushCopyIsFresh, Recorded
<1>2. Recorded' = Recorded /\ Settled' = Settled
  BY DEF Recorded, Settled
<1>3. Delivered' = Delivered \cup {r.op}
  BY <1>1 DEF Delivered, SoloInv, TypeOK
<1>4. CASE r.op \in Delivered
  BY <1>2, <1>3, <1>4 DEF Ledger!ledger, Recorded, Delivered, Settled
<1>5. CASE r.op \notin Delivered
  <2>1. Ledger!Deliver(r.op)
    BY <1>1, <1>2, <1>3, <1>5 DEF Ledger!Deliver, Recorded, Delivered, Settled
  <2>2. QED
    BY <1>1, <2>1 DEF Ledger!Next
<1>6. QED
  BY <1>4, <1>5

LEMMA LedgerStep ==
    ASSUME OneAtATime, SoloInv, AnswerInv, [Next]_vars
    PROVE  [Ledger!Next]_(Ledger!ledger)
<1> USE DEF table, remote, budget
<1>0. TypeOK /\ TypeOK'
  BY TypeStep DEF SoloInv
<1>1. ASSUME NEW o \in Ops, CreatePendingOperation(o) PROVE Ledger!RecordLocally(o)
  BY <1>0, <1>1 DEF CreatePendingOperation, Ledger!RecordLocally, TypeOK
<1>2. ASSUME NEW w \in Pushers, NEW r \in batch[w],
             \/ RemoteApplies(w, r) \/ RemoteConflicts(w, r)
             \/ \E b \in BOOLEAN : RemoteFails(w, r, b) /\ b
      PROVE  [Ledger!Next]_(Ledger!ledger)
  BY <1>2, RemoteDelivers DEF RemoteApplies, RemoteConflicts, RemoteFails
<1>3. ASSUME NEW w \in Pushers, NEW r \in batch[w], MarkConfirmed(w, r)
      PROVE  Ledger!Settle(r.op) /\ r.op \in Ops
  <2>1. IsFirst(r, batch[w]) /\ r.op \in Ops /\ status[r.op] = "sent"
    BY <1>3, FirstIsAlone DEF MarkConfirmed, SoloInv, PushCopyIsFresh
  <2>2. Answered(r.op)
    BY <1>3 DEF MarkConfirmed, AnswerInv, AcceptedWasAnswered
  <2>3. QED
    BY <1>0, <1>3, <2>1, <2>2 DEF MarkConfirmed, Answered, Ledger!Settle, TypeOK
<1>4. ASSUME UNCHANGED remote,
             \A o \in Ops : (status[o] = "none") = (status'[o] = "none"),
             \A o \in Ops : (status[o] = "confirmed") = (status'[o] = "confirmed")
      PROVE  UNCHANGED Ledger!ledger
  BY <1>4 DEF Ledger!ledger
<1>5. ASSUME NEW w \in Pushers, NEW r \in batch[w],
             \/ MarkSent(w, r) \/ MarkFailed(w, r) \/ CatchMarksFailed(w, r)
             \/ MarkSentThrows(w, r) \/ RemoteFails(w, r, FALSE)
      PROVE  UNCHANGED Ledger!ledger
  <2>1. r.op \in Ops /\ status[r.op] \in {"pending", "sent"}
    BY <1>0 DEF SoloInv, PushCopyIsFresh, TypeOK, Record
  <2>2. QED
    BY <1>0, <1>4, <1>5, <2>1
    DEF MarkSent, MarkFailed, CatchMarksFailed, MarkSentThrows, RemoteFails, TypeOK
<1>6. ASSUME NEW t \in Retriers, NEW r \in failed[t], Requeue(t, r)
      PROVE  UNCHANGED Ledger!ledger
  <2>1. r.op \in Ops /\ status[r.op] = "failed"
    BY <1>0 DEF SoloInv, RetryCopyIsFresh, TypeOK, Record
  <2>2. QED
    BY <1>0, <1>4, <1>6, <2>1 DEF Requeue, TypeOK
<1>7. CASE UNCHANGED <<table, remote>>
  BY <1>4, <1>7
<1>8. QED
  BY <1>1, <1>2, <1>3, <1>5, <1>6, <1>7
  DEF Next, PushStep, PushFault, RetryStep, MarkOperationConfirmed, PushTick, OutcomeThrows,
      CatchThrows, RetryTick, RequeueThrows, Crash, vars, OneAtATime, Ledger!Next

\* With one push tick and one retry tick at a time, every behaviour of the push
\* side is a behaviour of the ledger: local write, then remote answer, then
\* confirmation, and never back.
THEOREM LedgerIsImplemented ==
    ASSUME OneAtATime
    PROVE  Spec => ImplementsLedger
<1>1. Init => Ledger!Init
  BY DEF Init, Ledger!Init
<1>2. Init => SoloInv /\ AnswerInv
  BY SoloInit, TypeInit DEF Init, AnswerInv, ConfirmedWasAnswered, AcceptedWasAnswered
<1>3. SoloInv /\ AnswerInv /\ [Next]_vars => (SoloInv /\ AnswerInv)'
  BY SoloStep, AnswerStep
<1>4. SoloInv /\ AnswerInv /\ [Next]_vars => [Ledger!Next]_(Ledger!ledger)
  BY LedgerStep
<1>5. QED
  BY <1>1, <1>2, <1>3, <1>4, PTL DEF Spec, ImplementsLedger, Ledger!Spec

-----------------------------------------------------------------------------
(* SyncPull.  The main proof is a counting argument: a change that was not    *)
(* pulled can be missed by at most as many tables as there are pull ticks     *)
(* under way, because a tick that read before the change was made can move    *)
(* one cursor past it and then reads again.  With more tables than ticks,     *)
(* some cursor still lies before the change.                                  *)

-----------------------------------------------------------------------------
(* Lemmas about counts. *)

\* Two finite sets that only lose elements do not grow in number.
LEMMA FewerOfBoth ==
    ASSUME NEW L, NEW B, IsFiniteSet(L), IsFiniteSet(B),
           NEW L2 \in SUBSET L, NEW B2 \in SUBSET B
    PROVE  Cardinality(L2) + Cardinality(B2) <= Cardinality(L) + Cardinality(B)
<1>1. /\ IsFiniteSet(L2) /\ Cardinality(L2) <= Cardinality(L)
      /\ IsFiniteSet(B2) /\ Cardinality(B2) <= Cardinality(B)
  BY FS_Subset
<1>2. /\ Cardinality(L) \in Nat /\ Cardinality(B) \in Nat
      /\ Cardinality(L2) \in Nat /\ Cardinality(B2) \in Nat
  BY <1>1, FS_CardinalityType
<1>3. QED
  BY <1>1, <1>2

\* One element may come into the first when another leaves the second.
LEMMA OneForOne ==
    ASSUME NEW L, NEW B, IsFiniteSet(L), IsFiniteSet(B), NEW t, NEW p \in B,
           NEW L2 \in SUBSET (L \cup {t}), NEW B2 \in SUBSET (B \ {p})
    PROVE  Cardinality(L2) + Cardinality(B2) <= Cardinality(L) + Cardinality(B)
<1>1. /\ IsFiniteSet(L \cup {t})
      /\ Cardinality(L \cup {t}) = IF t \in L THEN Cardinality(L) ELSE Cardinality(L) + 1
  BY FS_AddElement
<1>2. /\ IsFiniteSet(B \ {p})
      /\ Cardinality(B \ {p}) = Cardinality(B) - 1
  BY FS_RemoveElement
<1>3. /\ Cardinality(L) \in Nat /\ Cardinality(B) \in Nat
      /\ Cardinality(L \cup {t}) \in Nat /\ Cardinality(B \ {p}) \in Nat
  BY <1>1, <1>2, FS_CardinalityType
<1>4. Cardinality(L \cup {t}) + Cardinality(B \ {p}) <= Cardinality(L) + Cardinality(B)
  BY <1>1, <1>2, <1>3
<1>5. /\ IsFiniteSet(L2) /\ IsFiniteSet(B2)
      /\ Cardinality(L2) + Cardinality(B2)
            <= Cardinality(L \cup {t}) + Cardinality(B \ {p})
  BY <1>1, <1>2, FewerOfBoth, FS_Subset
<1>6. Cardinality(L2) \in Nat /\ Cardinality(B2) \in Nat
  BY <1>5, FS_CardinalityType
<1>7. QED
  BY <1>3, <1>4, <1>5, <1>6

LEMMA TablesFinite == IsFiniteSet(Tables) /\ Cardinality(Tables) = NumTables
BY SyncPullAssumption, FS_Interval DEF Tables

-----------------------------------------------------------------------------
(* Type correctness. *)

LEMMA PullTypeInit == PullInit => PullTypeOK
BY SyncPullAssumption DEF PullInit, PullTypeOK

LEMMA PullTypeStep == PullTypeOK /\ [PullNext]_pullVars => PullTypeOK'
<1> SUFFICES ASSUME PullTypeOK, [PullNext]_pullVars PROVE PullTypeOK'
  OBVIOUS
<1> USE SyncPullAssumption
<1>1. CASE Clock
  BY <1>1 DEF PullTypeOK, Clock, tick, Tables
<1>2. CASE PullCrash
  BY <1>2 DEF PullTypeOK, PullCrash, PullCallFails, Tables
<1>3. ASSUME NEW c \in Changes, RemoteChange(c) PROVE PullTypeOK'
  BY <1>3 DEF PullTypeOK, RemoteChange, Made, tick, Tables
<1>4. ASSUME NEW p \in Pullers, PullStep(p) PROVE PullTypeOK'
  <2>1. CASE PullTick(p)
    BY <2>1 DEF PullTypeOK, PullTick, Tables
  <2>2. CASE Lookup(p)
    <3>1. Cursor(pos[p]) \in 0 .. MaxTime
      BY <2>2 DEF PullTypeOK, Lookup, Cursor, Tables
    <3>2. QED
      BY <2>2, <3>1 DEF PullTypeOK, Lookup, Tables
  <2>3. CASE Fetch(p)
    BY <2>3 DEF PullTypeOK, Fetch, Delta, Made, Tables
  <2>4. CASE Advance(p)
    <3>1. cursor' \in [Tables -> 0 .. MaxTime]
      BY <2>4 DEF PullTypeOK, Advance, Tables
    <3>2. pos' \in [Pullers -> 0 .. NumTables]
      <4>1. pos[p] \in 0 .. NumTables
        BY DEF PullTypeOK
      <4>2. CASE pos[p] = NumTables
        BY <2>4, <4>2 DEF PullTypeOK, Advance, EndTick
      <4>3. CASE pos[p] # NumTables
        BY <2>4, <4>1, <4>3 DEF PullTypeOK, Advance
      <4>4. QED
        BY <4>2, <4>3
    <3>3. /\ phase' \in [Pullers -> {"lookup", "fetch", "apply"}]
          /\ since' \in [Pullers -> 0 .. MaxTime] /\ todo' \in [Pullers -> SUBSET Changes]
      BY <2>4 DEF PullTypeOK, Advance, EndTick
    <3>4. QED
      BY <2>4, <3>1, <3>2, <3>3 DEF PullTypeOK, Advance, Tables
  <2>5. ASSUME NEW c \in Changes, Apply(p, c) PROVE PullTypeOK'
    <3>1. copies' \in [Changes -> 0 .. MaxCopies]
      BY <2>5 DEF PullTypeOK, Apply
    <3>2. todo' \in [Pullers -> SUBSET Changes]
      BY <2>5 DEF PullTypeOK, Apply
    <3>3. QED
      BY <2>5, <3>1, <3>2 DEF PullTypeOK, Apply, Tables
  <2>6. QED
    BY <1>4, <2>1, <2>2, <2>3, <2>4, <2>5 DEF PullStep
<1>5. ASSUME NEW p \in Pullers, PullFault(p) PROVE PullTypeOK'
  <2>1. CASE ExecuteThrows(p)
    BY <2>1 DEF PullTypeOK, ExecuteThrows, EndTick, PullCallFails, Tables
  <2>2. ASSUME NEW c \in Changes, ApplyThrows(p, c) PROVE PullTypeOK'
    <3>1. todo' \in [Pullers -> SUBSET Changes] /\ skipped' \subseteq Changes
      BY <2>2 DEF PullTypeOK, ApplyThrows
    <3>2. pullFaults' \in 0 .. MaxPullFaults
      BY <2>2 DEF PullTypeOK, ApplyThrows, PullCallFails
    <3>3. QED
      BY <2>2, <3>1, <3>2 DEF PullTypeOK, ApplyThrows, Tables
  <2>3. QED
    BY <1>5, <2>1, <2>2 DEF PullFault
<1>6. CASE UNCHANGED pullVars
  BY <1>6 DEF PullTypeOK, pullVars, Tables
<1>7. QED
  BY <1>1, <1>2, <1>3, <1>4, <1>5, <1>6 DEF PullNext

\* TypeOK, for any number of changes, tables, overlapping ticks and faults.
THEOREM PullTypeCorrect == PullSpec => []PullTypeOK
BY PullTypeInit, PullTypeStep, PTL DEF PullSpec

-----------------------------------------------------------------------------
(* What the ticks know. *)

\* A tick that is idle has nothing to handle, and one that fetches or applies is at a table.
TicksInv ==
    \A p \in Pullers :
        /\ pos[p] = 0 => phase[p] = "lookup"
        /\ phase[p] # "apply" => todo[p] = {}

\* Nothing is stamped later than now.
ClockInv ==
    /\ \A c \in Changes : stamp[c] <= now
    /\ \A t \in Tables : Cursor(t) <= now

\* Cursors only grow: the one a tick read is not after the one there is.
SinceInv == \A p \in Pullers : phase[p] # "lookup" => since[p] <= Cursor(pos[p])

\* The tables whose cursor lies after c, and the ticks that fetched before c was made.
Late(c)  == {t \in Tables : Cursor(t) > stamp[c]}
Blind(c) == {p \in Pullers : phase[p] = "apply" /\ since[p] <= stamp[c] /\ c \notin todo[p]}

Unseen(c) == stamp[c] # 0 /\ copies[c] = 0 /\ c \notin skipped

\* The ticks that are blind may each move a cursor past c, and those that did so have fetched
\* again since: late tables and blind ticks together are never more than there are ticks.
FewLate ==
    \A c \in Changes : Unseen(c) =>
        Cardinality(Late(c)) + Cardinality(Blind(c)) <= Cardinality(Pullers)

PullInv == PullTypeOK /\ TicksInv /\ ClockInv /\ SinceInv /\ FewLate

LEMMA PullInitially == PullInit => TicksInv /\ ClockInv /\ SinceInv /\ FewLate
<1> SUFFICES ASSUME PullInit PROVE TicksInv /\ ClockInv /\ SinceInv /\ FewLate
  OBVIOUS
<1>1. TicksInv /\ SinceInv
  BY DEF PullInit, TicksInv, SinceInv
<1>2. ClockInv
  BY DEF PullInit, ClockInv, Cursor
<1>3. FewLate
  BY DEF PullInit, FewLate, Unseen
<1>4. QED
  BY <1>1, <1>2, <1>3

LEMMA TicksStep == PullTypeOK /\ TicksInv /\ [PullNext]_pullVars => TicksInv'
<1> SUFFICES ASSUME PullTypeOK, TicksInv, [PullNext]_pullVars PROVE TicksInv'
  OBVIOUS
<1>1. CASE Clock
  BY <1>1 DEF TicksInv, Clock, tick
<1>2. CASE PullCrash
  BY <1>2 DEF TicksInv, PullCrash
<1>3. ASSUME NEW c \in Changes, RemoteChange(c) PROVE TicksInv'
  BY <1>3 DEF TicksInv, RemoteChange, tick
<1>4. ASSUME NEW p \in Pullers, PullStep(p) PROVE TicksInv'
  <2>1. CASE PullTick(p)
    BY <2>1 DEF PullTypeOK, TicksInv, PullTick
  <2>2. CASE Lookup(p)
    BY <2>2 DEF PullTypeOK, TicksInv, Lookup
  <2>3. CASE Fetch(p)
    BY <2>3 DEF PullTypeOK, TicksInv, Fetch
  <2>4. CASE Advance(p)
    BY <2>4 DEF PullTypeOK, TicksInv, Advance, EndTick
  <2>5. ASSUME NEW c \in Changes, Apply(p, c) PROVE TicksInv'
    BY <2>5 DEF PullTypeOK, TicksInv, Apply
  <2>6. QED
    BY <1>4, <2>1, <2>2, <2>3, <2>4, <2>5 DEF PullStep
<1>5. ASSUME NEW p \in Pullers, PullFault(p) PROVE TicksInv'
  <2>1. CASE ExecuteThrows(p)
    BY <2>1 DEF PullTypeOK, TicksInv, ExecuteThrows, EndTick
  <2>2. ASSUME NEW c \in Changes, ApplyThrows(p, c) PROVE TicksInv'
    BY <2>2 DEF PullTypeOK, TicksInv, ApplyThrows
  <2>3. QED
    BY <1>5, <2>1, <2>2 DEF PullFault
<1>6. CASE UNCHANGED pullVars
  BY <1>6 DEF TicksInv, pullVars, tick
<1>7. QED
  BY <1>1, <1>2, <1>3, <1>4, <1>5, <1>6 DEF PullNext

\* The cursors of a step: they stay, or one tick sets its own to the time.
LEMMA CursorStep ==
    ASSUME PullTypeOK, ClockInv, [PullNext]_pullVars, NEW t \in Tables
    PROVE  /\ Cursor(t) \in Nat /\ Cursor(t) <= Cursor(t)'
           /\ now \in Nat /\ now <= now' /\ now' \in Nat
           /\ \/ Cursor(t)' = Cursor(t)
              \/ \E p \in Pullers : Advance(p) /\ pos[p] = t /\ Cursor(t)' = now
<1>1. /\ Cursor(t) \in Nat /\ cursor[t] \in Nat /\ now \in Nat /\ Cursor(t) <= now
  BY DEF PullTypeOK, Cursor, ClockInv
<1>2. CASE Clock
  BY <1>1, <1>2 DEF Clock, Cursor
<1>3. CASE PullCrash
  BY <1>1, <1>3 DEF PullCrash, Cursor
<1>4. ASSUME NEW c \in Changes, RemoteChange(c)
      PROVE  Cursor(t)' = Cursor(t) /\ now' = now
  BY <1>4 DEF RemoteChange, Cursor
<1>5. ASSUME NEW p \in Pullers, PullStep(p)
      PROVE  /\ now' = now
             /\ Cursor(t)' = Cursor(t) \/ (Advance(p) /\ pos[p] = t /\ Cursor(t)' = now)
  <2>1. CASE Advance(p)
    <3>1. tracked' = tracked /\ now' = now
      BY <2>1 DEF Advance
    <3>2. CASE pos[p] = t /\ t \in tracked
      <4>1. cursor'[t] = now
        BY <2>1, <3>2 DEF Advance, PullTypeOK
      <4>2. QED
        BY <2>1, <3>1, <3>2, <4>1 DEF Cursor
    <3>3. CASE ~(pos[p] = t /\ t \in tracked)
      <4>1. t \in tracked => cursor'[t] = cursor[t]
        BY <2>1, <3>3 DEF Advance, PullTypeOK
      <4>2. QED
        BY <3>1, <4>1 DEF Cursor
    <3>4. QED
      BY <3>2, <3>3
  <2>2. CASE ~Advance(p)
    BY <1>5, <2>2 DEF PullStep, PullTick, Lookup, Fetch, Apply, Cursor
  <2>3. QED
    BY <2>1, <2>2
<1>6. ASSUME NEW p \in Pullers, PullFault(p)
      PROVE  Cursor(t)' = Cursor(t) /\ now' = now
  BY <1>6 DEF PullFault, ExecuteThrows, ApplyThrows, Cursor
<1>7. CASE UNCHANGED pullVars
  BY <1>1, <1>7 DEF pullVars, Cursor
<1>8. QED
  BY <1>1, <1>2, <1>3, <1>4, <1>5, <1>6, <1>7 DEF PullNext

LEMMA ClockStep == PullTypeOK /\ ClockInv /\ [PullNext]_pullVars => ClockInv'
<1> SUFFICES ASSUME PullTypeOK, ClockInv, [PullNext]_pullVars PROVE ClockInv'
  OBVIOUS
<1>1. ASSUME NEW t \in Tables PROVE Cursor(t)' <= now'
  <2>1. Cursor(t) \in Nat /\ Cursor(t) <= now
    BY DEF PullTypeOK, Cursor, ClockInv
  <2>2. QED
    BY <2>1, CursorStep
<1>2. now \in Nat /\ now' \in Nat /\ now <= now'
  <2>1. 1 \in Tables
    BY SyncPullAssumption DEF Tables
  <2>2. QED
    BY <2>1, CursorStep
<1>3. ASSUME NEW c \in Changes PROVE stamp'[c] \in {stamp[c], now}
  BY <1>3 DEF PullNext, pullVars, tick, PullTypeOK, Clock, PullCrash, RemoteChange, PullStep, PullTick, Lookup,
     Fetch, Advance, Apply, PullFault, ExecuteThrows, ApplyThrows
<1>4. ASSUME NEW c \in Changes PROVE stamp'[c] <= now'
  <2>1. stamp[c] \in Nat /\ stamp[c] <= now
    BY DEF PullTypeOK, ClockInv
  <2>2. QED
    BY <1>2, <1>3, <2>1
<1>5. Tables' = Tables
  BY DEF Tables
<1>6. QED
  BY <1>1, <1>4, <1>5 DEF ClockInv

\* A tick that fetches or applies after a step was at the same table before it, with the same
\* cursor in hand or about to read it.
LEMMA TickStep ==
    ASSUME PullTypeOK, TicksInv, [PullNext]_pullVars, NEW q \in Pullers, phase'[q] # "lookup"
    PROVE  /\ pos'[q] = pos[q] /\ pos[q] \in Tables
           /\ \/ phase[q] # "lookup" /\ since'[q] = since[q]
              \/ since'[q] = Cursor(pos[q])
<1>1. /\ pos'[q] = pos[q] /\ pos[q] # 0
      /\ \/ phase[q] # "lookup" /\ since'[q] = since[q]
         \/ since'[q] = Cursor(pos[q])
  <2>1. CASE Clock \/ \E c \in Changes : RemoteChange(c)
    BY <2>1 DEF Clock, RemoteChange, tick, TicksInv
  <2>2. CASE PullCrash
    BY <2>2 DEF PullCrash
  <2>3. ASSUME NEW p \in Pullers, PullStep(p)
        PROVE  <1>1!1 /\ <1>1!2
    <3>1. CASE PullTick(p)
      BY <3>1 DEF PullTypeOK, TicksInv, PullTick
    <3>2. CASE Lookup(p)
      BY <3>2 DEF PullTypeOK, TicksInv, Lookup
    <3>3. CASE Fetch(p)
      BY <3>3 DEF PullTypeOK, TicksInv, Fetch
    <3>4. CASE Advance(p)
      BY <3>4 DEF PullTypeOK, TicksInv, Advance, EndTick
    <3>5. ASSUME NEW c \in Changes, Apply(p, c) PROVE <1>1!1 /\ <1>1!2
      BY <3>5 DEF PullTypeOK, TicksInv, Apply
    <3>6. QED
      BY <2>3, <3>1, <3>2, <3>3, <3>4, <3>5 DEF PullStep
  <2>4. ASSUME NEW p \in Pullers, PullFault(p)
        PROVE  <1>1!1 /\ <1>1!2
    BY <2>4 DEF PullTypeOK, TicksInv, PullFault, ExecuteThrows, ApplyThrows, EndTick
  <2>5. CASE UNCHANGED pullVars
    BY <2>5 DEF pullVars, TicksInv
  <2>6. QED
    BY <2>1, <2>2, <2>3, <2>4, <2>5 DEF PullNext
<1>2. QED
  BY <1>1 DEF PullTypeOK, Tables

LEMMA SinceStep == PullTypeOK /\ TicksInv /\ ClockInv /\ SinceInv /\ [PullNext]_pullVars => SinceInv'
<1> SUFFICES ASSUME PullTypeOK, TicksInv, ClockInv, SinceInv, [PullNext]_pullVars,
                    NEW q \in Pullers, phase'[q] # "lookup"
             PROVE  (since[q] <= Cursor(pos[q]))'
  BY DEF SinceInv
<1>1. PICK t \in Tables : t = pos[q]
  BY TickStep
<1>2. /\ pos'[q] = t
      /\ \/ phase[q] # "lookup" /\ since'[q] = since[q]
         \/ since'[q] = Cursor(t)
  BY <1>1, TickStep
<1>3. Cursor(t) \in Nat /\ since[q] \in Nat /\ Cursor(t)' \in Nat
  <2>1. Cursor(t) \in Nat /\ since[q] \in Nat
    BY DEF PullTypeOK, Cursor
  <2>2. Cursor(t)' \in Nat
    <3>1. PullTypeOK'
      BY PullTypeStep
    <3>2. cursor' \in [Tables -> 0 .. MaxTime]
      BY <3>1 DEF PullTypeOK, Tables
    <3>3. QED
      BY <3>2, SyncPullAssumption DEF Cursor
  <2>3. QED
    BY <2>1, <2>2
<1>4. Cursor(t) <= Cursor(t)'
  BY CursorStep
<1>5. phase[q] # "lookup" => since[q] <= Cursor(t)
  BY <1>1 DEF SinceInv
<1>6. since'[q] <= Cursor(t)'
  BY <1>2, <1>3, <1>4, <1>5
<1>7. QED
  BY <1>2, <1>6 DEF Cursor

-----------------------------------------------------------------------------
(* The count of late tables and blind ticks. *)

LEMMA LateAndBlindFinite ==
    ASSUME NEW c \in Changes
    PROVE  IsFiniteSet(Late(c)) /\ IsFiniteSet(Blind(c))
BY TablesFinite, SyncPullAssumption, FS_Subset DEF Late, Blind

\* A change that is still unseen was unseen before, unless it was made in this step, and no
\* tick has become blind to it; a tick that moved a cursor is not blind any more.
LEMMA BlindStep ==
    ASSUME PullTypeOK, TicksInv, [PullNext]_pullVars, NEW c \in Changes, Unseen(c)', ~RemoteChange(c)
    PROVE  /\ stamp'[c] = stamp[c] /\ Unseen(c)
           /\ Blind(c)' \subseteq Blind(c)
           /\ \A p \in Pullers : Advance(p) => p \notin Blind(c)'
<1> DEFINE Goal == /\ stamp'[c] = stamp[c] /\ Unseen(c)
                   /\ Blind(c)' \subseteq Blind(c)
                   /\ \A p \in Pullers : Advance(p) => p \notin Blind(c)'
<1>1. ASSUME NEW p \in Pullers, Advance(p) PROVE p \notin Blind(c)'
  BY <1>1 DEF Advance, EndTick, Blind, PullTypeOK
<1> USE <1>1
<1>2. CASE Clock \/ \E d \in Changes : RemoteChange(d)
  BY <1>2 DEF Clock, RemoteChange, tick, Unseen, Blind, PullTypeOK
<1>3. CASE PullCrash
  BY <1>3 DEF PullCrash, Unseen, Blind
<1>4. ASSUME NEW p \in Pullers, PullStep(p) PROVE Goal
  <2>1. CASE PullTick(p)
    BY <2>1 DEF PullTick, Unseen, Blind
  <2>2. CASE Lookup(p)
    BY <2>2 DEF PullTypeOK, Lookup, Unseen, Blind
  <2>3. CASE Fetch(p)
    <3>1. stamp' = stamp /\ Unseen(c)
      BY <2>3 DEF Fetch, Unseen
    <3>2. ASSUME NEW q \in Blind(c)' PROVE q \in Blind(c)
      <4>1. CASE q = p
        <5>1. todo'[p] = Delta(since[p]) /\ since'[p] = since[p]
          BY <2>3 DEF Fetch, PullTypeOK
        <5>2. since'[p] <= stamp[c] /\ c \notin todo'[p]
          BY <3>1, <3>2, <4>1 DEF Blind
        <5>3. since[p] \in Nat /\ stamp[c] \in Nat
          BY DEF PullTypeOK
        <5>4. QED
          BY <3>1, <5>1, <5>2, <5>3 DEF Delta, Made, Unseen
      <4>2. CASE q # p
        BY <2>3, <3>1, <3>2, <4>2 DEF Fetch, PullTypeOK, Blind
      <4>3. QED
        BY <4>1, <4>2
    <3>3. QED
      BY <3>1, <3>2
  <2>4. CASE Advance(p)
    <3>1. stamp' = stamp /\ Unseen(c)
      BY <2>4 DEF Advance, Unseen
    <3>2. ASSUME NEW q \in Blind(c)' PROVE q \in Blind(c)
      <4>1. q # p
        BY <2>4, <3>2
      <4>2. QED
        BY <2>4, <3>1, <3>2, <4>1 DEF Advance, EndTick, PullTypeOK, Blind
    <3>3. QED
      BY <3>1, <3>2
  <2>5. ASSUME NEW d \in Changes, Apply(p, d) PROVE Goal
    <3>1. copies'[d] # 0
      BY <2>5, SyncPullAssumption DEF Apply, PullTypeOK
    <3>2. d # c
      BY <3>1 DEF Unseen
    <3>3. QED
      BY <2>5, <3>2 DEF Apply, PullTypeOK, Unseen, Blind
  <2>6. QED
    BY <1>4, <2>1, <2>2, <2>3, <2>4, <2>5 DEF PullStep
<1>5. ASSUME NEW p \in Pullers, PullFault(p) PROVE Goal
  <2>1. CASE ExecuteThrows(p)
    BY <2>1 DEF ExecuteThrows, EndTick, PullTypeOK, Unseen, Blind
  <2>2. ASSUME NEW d \in Changes, ApplyThrows(p, d) PROVE Goal
    <3>1. d # c
      BY <2>2 DEF ApplyThrows, Unseen
    <3>2. QED
      BY <2>2, <3>1 DEF ApplyThrows, PullTypeOK, Unseen, Blind
  <2>3. QED
    BY <1>5, <2>1, <2>2 DEF PullFault
<1>6. CASE UNCHANGED pullVars
  BY <1>6 DEF pullVars, Unseen, Blind
<1>7. QED
  BY <1>2, <1>3, <1>4, <1>5, <1>6 DEF PullNext

\* A table becomes late only when a tick moves its cursor, and a tick that has seen the change
\* read a cursor that was late already.
LEMMA LateStep ==
    ASSUME PullTypeOK, ClockInv, SinceInv, [PullNext]_pullVars, NEW c \in Changes, stamp'[c] = stamp[c]
    PROVE  \/ Late(c)' \subseteq Late(c)
           \/ \E p \in Blind(c) : Advance(p) /\ Late(c)' \subseteq Late(c) \cup {pos[p]}
<1>1. Tables' = Tables
  BY DEF Tables
<1>2. CASE \E p \in Pullers : Advance(p)
  <2>1. PICK p \in Pullers : Advance(p)
    BY <1>2
  <2>2. ASSUME NEW t \in Late(c)', t \notin Late(c) PROVE t = pos[p]
    <3>1. t \in Tables /\ Cursor(t)' > stamp[c]
      BY <1>1, <2>2 DEF Late
    <3>2. ~(Cursor(t) > stamp[c])
      BY <2>2, <3>1 DEF Late
    <3>3. Cursor(t)' # Cursor(t)
      BY <3>1, <3>2
    <3>4. t # pos[p] => Cursor(t)' = Cursor(t)
      BY <2>1, <3>1 DEF Advance, Cursor, PullTypeOK
    <3>5. QED
      BY <3>3, <3>4
  <2>3. CASE p \in Blind(c)
    BY <2>1, <2>2, <2>3
  <2>4. CASE p \notin Blind(c)
    <3>1. phase[p] = "apply" /\ c \notin todo[p]
      BY <2>1 DEF Advance
    <3>2. since[p] > stamp[c] /\ since[p] <= Cursor(pos[p])
      BY <2>4, <3>1 DEF Blind, SinceInv, PullTypeOK
    <3>3. pos[p] \in Tables => pos[p] \in Late(c)
      <4>1. pos[p] \in Tables => Cursor(pos[p]) \in Nat
        BY DEF PullTypeOK, Cursor
      <4>2. since[p] \in Nat /\ stamp[c] \in Nat
        BY DEF PullTypeOK
      <4>3. QED
        BY <3>2, <4>1, <4>2 DEF Late
    <3>4. Late(c)' \subseteq Tables
      BY <1>1 DEF Late
    <3>5. QED
      BY <2>2, <3>3, <3>4
  <2>5. QED
    BY <2>3, <2>4
<1>3. CASE ~\E p \in Pullers : Advance(p)
  <2>1. \A t \in Tables : Cursor(t)' = Cursor(t)
    BY <1>3, CursorStep
  <2>2. QED
    BY <1>1, <2>1 DEF Late
<1>4. QED
  BY <1>2, <1>3

LEMMA FewLateStep == PullInv /\ [PullNext]_pullVars => FewLate'
<1> SUFFICES ASSUME PullInv, [PullNext]_pullVars, NEW c \in Changes, Unseen(c)'
             PROVE  Cardinality(Late(c)') + Cardinality(Blind(c)') <= Cardinality(Pullers)
  BY DEF FewLate
<1> USE DEF PullInv
<1>1. Cardinality(Pullers) \in Nat
  BY SyncPullAssumption, FS_CardinalityType
<1>2. CASE RemoteChange(c)
  <2>1. Late(c)' = {}
    <3>1. stamp'[c] = now /\ cursor' = cursor /\ tracked' = tracked
      BY <1>2 DEF RemoteChange, PullTypeOK
    <3>2. \A t \in Tables : Cursor(t)' = Cursor(t) /\ Cursor(t) \in Nat /\ Cursor(t) <= now
      BY <3>1 DEF Cursor, ClockInv, PullTypeOK
    <3>3. now \in Nat
      BY DEF PullTypeOK
    <3>4. QED
      BY <3>1, <3>2, <3>3 DEF Late, Tables
  <2>2. Blind(c)' \in SUBSET Pullers
    BY DEF Blind
  <2>3. Cardinality(Blind(c)') <= Cardinality(Pullers) /\ IsFiniteSet(Blind(c)')
    BY <2>2, SyncPullAssumption, FS_Subset
  <2>4. Cardinality(Blind(c)') \in Nat /\ Cardinality(Late(c)') = 0
    BY <2>1, <2>3, FS_CardinalityType, FS_EmptySet
  <2>5. QED
    BY <1>1, <2>3, <2>4
<1>3. CASE ~RemoteChange(c)
  <2>1. /\ stamp'[c] = stamp[c] /\ Unseen(c)
        /\ Blind(c)' \subseteq Blind(c)
        /\ \A p \in Pullers : Advance(p) => p \notin Blind(c)'
    BY <1>3, BlindStep
  <2>2. IsFiniteSet(Late(c)) /\ IsFiniteSet(Blind(c))
    BY LateAndBlindFinite
  <2>3. Cardinality(Late(c)) + Cardinality(Blind(c)) <= Cardinality(Pullers)
    BY <2>1 DEF FewLate
  <2>4. /\ IsFiniteSet(Late(c)') /\ IsFiniteSet(Blind(c)')
        /\ Cardinality(Late(c)') + Cardinality(Blind(c)')
              <= Cardinality(Late(c)) + Cardinality(Blind(c))
    <3>1. CASE Late(c)' \subseteq Late(c)
      BY <2>1, <2>2, <3>1, FewerOfBoth, FS_Subset
    <3>2. ASSUME NEW p \in Blind(c), Advance(p), Late(c)' \subseteq Late(c) \cup {pos[p]}
          PROVE  <2>4
      <4>1. Blind(c)' \subseteq Blind(c) \ {p}
        BY <2>1, <3>2 DEF Blind
      <4>2. IsFiniteSet(Late(c) \cup {pos[p]})
        BY <2>2, FS_AddElement
      <4>3. IsFiniteSet(Late(c)') /\ IsFiniteSet(Blind(c)')
        BY <2>1, <2>2, <3>2, <4>2, FS_Subset
      <4>4. QED
        BY <2>2, <3>2, <4>1, <4>3, OneForOne
    <3>3. QED
      BY <2>1, <3>1, <3>2, LateStep
  <2>5. /\ Cardinality(Late(c)) \in Nat /\ Cardinality(Blind(c)) \in Nat
        /\ Cardinality(Late(c)') \in Nat /\ Cardinality(Blind(c)') \in Nat
    BY <2>2, <2>4, FS_CardinalityType
  <2>6. QED
    BY <1>1, <2>3, <2>4, <2>5
<1>4. QED
  BY <1>2, <1>3

\* The inductive invariant, for any number of changes, tables and overlapping ticks.
THEOREM PullInvariant == PullSpec => []PullInv
<1>1. PullInit => PullInv
  BY PullTypeInit, PullInitially DEF PullInv
<1>2. PullInv /\ [PullNext]_pullVars => PullInv'
  BY PullTypeStep, TicksStep, ClockStep, SinceStep, FewLateStep DEF PullInv
<1>3. QED
  BY <1>1, <1>2, PTL DEF PullSpec

\* No missing updates but for failed inserts (MissingOnlyIfSkipped), as long as fewer pull
\* ticks are under way together than handlePullCron has tables: a cursor that execute sets to
\* the end of its pull, and not to the time of its fetch, is made up for by another table's.
THEOREM MissingNeedsFailedInsert ==
    ASSUME Cardinality(Pullers) < NumTables
    PROVE  PullSpec => []MissingOnlyIfSkipped
<1>1. PullInv => MissingOnlyIfSkipped
  <2> SUFFICES ASSUME PullInv, NEW c \in Made, copies[c] = 0, ~(c \in skipped /\ tracked = Tables)
               PROVE  \E t \in Tables : Cursor(t) <= stamp[c]
    BY DEF MissingOnlyIfSkipped, StillComing
  <2>1. c \in Changes /\ stamp[c] # 0 /\ stamp[c] \in Nat
    BY DEF Made, PullInv, PullTypeOK
  <2>2. CASE c \in skipped
    <3>1. PICK t \in Tables : t \notin tracked
      BY <2>2 DEF PullInv, PullTypeOK
    <3>2. QED
      BY <2>1, <3>1 DEF Cursor
  <2>3. CASE c \notin skipped
    <3>1. Cardinality(Late(c)) + Cardinality(Blind(c)) <= Cardinality(Pullers)
      BY <2>1, <2>3 DEF PullInv, FewLate, Unseen
    <3>2. /\ Cardinality(Late(c)) \in Nat /\ Cardinality(Blind(c)) \in Nat
          /\ Cardinality(Pullers) \in Nat
      BY <2>1, LateAndBlindFinite, SyncPullAssumption, FS_CardinalityType
    <3>3. Cardinality(Late(c)) < Cardinality(Tables)
      BY <3>1, <3>2, TablesFinite, SyncPullAssumption
    <3>4. Late(c) # Tables
      BY <3>2, <3>3
    <3>5. PICK t \in Tables : ~(Cursor(t) > stamp[c])
      BY <3>4 DEF Late
    <3>6. Cursor(t) \in Nat
      BY DEF PullInv, PullTypeOK, Cursor
    <3>7. QED
      BY <2>1, <3>5, <3>6
  <2>4. QED
    BY <2>2, <2>3
<1>2. QED
  BY <1>1, PullInvariant, PTL
=============================================================================
