------------------------------- MODULE OpQueue -------------------------------
(***************************************************************************)
(* The client's queue of sync operations (OpQueue and executePendingOps of *)
(* src/shared/offline-runtime/connectivity-listener.ts): an array in       *)
(* memory beside an L2 store.                                              *)
(*                                                                         *)
(* RuntimeProvider gives each new listener an L2 store in memory that is   *)
(* new as well (inMemoryStores), so both are gone when the app is          *)
(* restarted, and with them what was pending.                              *)
(*                                                                         *)
(* A call of the L2 store takes effect when it is made, as in              *)
(* MemoryL2Store of runtime-bootstrap.ts, and its caller goes on later;    *)
(* what other code does in between is what this module is about.           *)
(*                                                                         *)
(* executePendingOps is called whenever the network comes back.  Nothing   *)
(* keeps two of its runs apart.                                            *)
(***************************************************************************)
EXTENDS Naturals, SequencesExt

CONSTANTS
    NumOps,     \* bound: operations, numbered in the order they are enqueued
    Runs,       \* runs of executePendingOps that may be under way together
    MaxFaults   \* bound: executor failures and restarts

ASSUME OpQueueAssumption ==
    NumOps \in Nat /\ MaxFaults \in Nat /\ IsFiniteSet(Runs)

VARIABLES
    born,       \* operations enqueued so far
    ops,        \* OpQueue.ops, the memory queue
    l2,         \* the pending operations of the L2 store, in insertion order
    phase,      \* where each run stands
    todo,       \* the operations a run has still to handle, the current one first
    executed,   \* how often the server executed each operation
    disturbed,  \* what has gone other than planned so far (history)
    forgotten,  \* the operations that were pending when the app was restarted (history)
    faults

vars == <<born, ops, l2, phase, todo, executed, disturbed, forgotten, faults>>
store == <<ops, l2, forgotten>>

Ops == 1 .. NumOps
Disturbances == {"overlap", "dropped", "refused", "unanswered"}

Init ==
    /\ born = 0 /\ ops = <<>> /\ l2 = <<>>
    /\ phase = [r \in Runs |-> "idle"]
    /\ todo  = [r \in Runs |-> <<>>]
    /\ executed = [o \in Ops |-> 0]
    /\ disturbed = {} /\ forgotten = {} /\ faults = 0

\* Map.set: a key that is there keeps its place.
Put(s, o) == IF o \in Range(s) THEN s ELSE Append(s, o)

\* Map.delete: a key is there once.
Deleted(s, o) ==
    IF o \in Range(s) THEN RemoveAt(s, CHOOSE i \in DOMAIN s : s[i] = o) ELSE s

\* An array's filter: the elements at the positions P in their order (there is one
\* such sequence).
Filtered(s, P) ==
    {[k \in 1 .. Cardinality(P) |-> s[at[k]]] :
        at \in {f \in [1 .. Cardinality(P) -> P] :
                  \A j, k \in 1 .. Cardinality(P) : j < k => f[j] < f[k]}}

Without(s, o) == Filtered(s, {i \in DOMAIN s : s[i] # o})

\* dequeueAll's filter: the first of several operations with the same id.
Distinct(s) == Filtered(s, {i \in DOMAIN s : \A j \in 1 .. (i - 1) : s[j] # s[i]})

\* enqueue: memory, then L2.
\* Mutants: memory only; at the front.
Enqueue_MemoryOnly(o) == ops' = Append(ops, o) /\ l2' = l2
Enqueue_Front(o) == ops' = <<o>> \o ops /\ l2' = Put(l2, o)

Enqueue(o) ==
    /\ ops' = Append(ops, o)
    /\ l2'  = Put(l2, o)

\* complete: memory, then L2.
\* Mutant: memory only.
Complete_MemoryOnly(o) == ops' \in Without(ops, o) /\ l2' = l2

Complete(o) ==
    /\ ops' \in Without(ops, o)
    /\ l2'  = Deleted(l2, o)

-----------------------------------------------------------------------------
EnqueueOp ==
    /\ born < NumOps
    /\ born' = born + 1
    /\ Enqueue(born + 1)
    /\ UNCHANGED <<phase, todo, executed, disturbed, forgotten, faults>>

\* dequeueAll up to its await: both queues are read.
DequeueAll(r) ==
    /\ phase[r] = "idle"
    /\ phase' = [phase EXCEPT ![r] = "dequeuing"]
    /\ \E unique \in Distinct(ops \o l2) : todo' = [todo EXCEPT ![r] = unique]
    /\ disturbed' = IF \E q \in Runs : phase[q] # "idle"
                      THEN disturbed \cup {"overlap"} ELSE disturbed
    /\ UNCHANGED <<born, store, executed, faults>>

\* The run goes on with list, or returns.
\* Mutant: a run that returns is not idle again.
Continue_Done(r, list) ==
    /\ todo'  = [todo EXCEPT ![r] = list]
    /\ phase' = [phase EXCEPT ![r] = IF list = <<>> THEN "done" ELSE "executing"]

Continue(r, list) ==
    /\ todo'  = [todo EXCEPT ![r] = list]
    /\ phase' = [phase EXCEPT ![r] = IF list = <<>> THEN "idle" ELSE "executing"]


Drain(r) ==
    /\ phase[r] = "dequeuing"
    /\ ops' = <<>>
    /\ disturbed' = IF Range(ops) \subseteq Range(todo[r])
                      THEN disturbed ELSE disturbed \cup {"dropped"}
    /\ Continue(r, todo[r])
    /\ UNCHANGED <<born, l2, executed, forgotten, faults>>

\* The executor's request is executed by the server.
ServerExecutes(r) ==
    /\ phase[r] = "executing"
    /\ executed' = [executed EXCEPT ![Head(todo[r])] = @ + 1]
    /\ phase' = [phase EXCEPT ![r] = "executed"]
    /\ UNCHANGED <<born, store, todo, disturbed, faults>>

\* The executor answers true.
ExecutorTrue(r) ==
    /\ phase[r] = "executed"
    /\ Complete(Head(todo[r]))
    /\ phase' = [phase EXCEPT ![r] = "written"]
    /\ UNCHANGED <<born, todo, executed, disturbed, forgotten, faults>>

Fault == faults < MaxFaults /\ faults' = faults + 1

Doubt(r) == IF phase[r] = "executed" THEN "unanswered" ELSE "refused"

\* The executor answers false, perhaps although the server executed the
\* operation: the operation is enqueued again.
ExecutorFalse(r) ==
    /\ phase[r] \in {"executing", "executed"}
    /\ Fault
    /\ Enqueue(Head(todo[r]))
    /\ disturbed' = disturbed \cup {Doubt(r)}
    /\ phase' = [phase EXCEPT ![r] = "written"]
    /\ UNCHANGED <<born, todo, executed, forgotten>>

\* The executor throws, and executePendingOps with it.
ExecutorThrows(r) ==
    /\ phase[r] \in {"executing", "executed"}
    /\ Fault
    /\ disturbed' = disturbed \cup {Doubt(r)}
    /\ Continue(r, <<>>)
    /\ UNCHANGED <<born, store, executed>>

\* The await of complete or enqueue ends.
NextOp(r) ==
    /\ phase[r] = "written"
    /\ Continue(r, Tail(todo[r]))
    /\ UNCHANGED <<born, store, executed, disturbed, faults>>

\* The app is restarted: the runs and the memory queue are gone, and so is the L2 store,
\* for which the new listener is given an empty one.
Restart ==
    /\ Fault
    /\ ops' = <<>> /\ l2' = <<>>
    /\ phase' = [r \in Runs |-> "idle"]
    /\ todo'  = [r \in Runs |-> <<>>]
    /\ forgotten' = forgotten \cup Range(l2)
    /\ UNCHANGED <<born, executed, disturbed>>

RunStep(r) ==
    DequeueAll(r) \/ Drain(r) \/ ServerExecutes(r) \/ ExecutorTrue(r) \/ NextOp(r)

Next ==
    \/ EnqueueOp
    \/ \E r \in Runs : RunStep(r) \/ ExecutorFalse(r) \/ ExecutorThrows(r)
    \/ Restart

Spec == Init /\ [][Next]_vars

\* The network keeps coming back, and each time a run is started and goes on.  Nothing in
\* src/ calls executePendingOps: this is the fairness of an app that calls it whenever the
\* listener emits "reconnected", which is what the listener is for.
FairSpec == Spec /\ \A r \in Runs : WF_vars(RunStep(r))

-----------------------------------------------------------------------------
(* Properties *)

TypeOK ==
    /\ born \in 0 .. NumOps
    /\ ops \in Seq(Ops) /\ l2 \in Seq(Ops)
    /\ phase \in [Runs -> {"idle", "dequeuing", "executing", "executed", "written"}]
    /\ todo \in [Runs -> Seq(Ops)]
    /\ executed \in [Ops -> Nat]
    /\ disturbed \subseteq Disturbances /\ forgotten \subseteq Ops
    /\ faults \in 0 .. MaxFaults

\* No operation is lost but by a restart: until the server has executed it, it is in L2,
\* through drains, failures and overlapping runs, unless it was pending at a restart.
NeverLost ==
    \A o \in 1 .. born : executed[o] = 0 /\ o \notin forgotten => o \in Range(l2)

\* The same whatever happens: "in-memory with L2 persistence", "persistent operation
\* queuing" (connectivity-listener.ts).
QueuedUntilExecuted == \A o \in 1 .. born : executed[o] = 0 => o \in Range(l2)

\* The server executes an operation twice only when two runs overlapped or an answer was
\* lost.
RepeatedOnlyInDoubt ==
    (\E o \in Ops : executed[o] > 1) => disturbed \cap {"overlap", "unanswered"} # {}

\* Operations are executed in the order they were enqueued as long as nothing
\* is refused, and nothing is enqueued while a run waits for dequeueAll; one that a restart
\* has not let go is not overtaken.
InOrderUnlessDisturbed ==
    disturbed = {} =>
        \A o, p \in 1 .. born :
            (o < p /\ executed[p] > 0) => executed[o] > 0 \/ o \in forgotten

=============================================================================
