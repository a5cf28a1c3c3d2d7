-------------------------- MODULE RuntimeStateStore --------------------------
(***************************************************************************)
(* RuntimeStateStore and its EventBatcher (src/shared/offline-runtime/     *)
(* runtime/RuntimeStateStore.ts): engine events are queued for a batch     *)
(* window and applied together, direct dispatches are applied at once, and *)
(* every commit notifies the subscribed listeners one after the other.     *)
(*                                                                         *)
(* JavaScript runs this to completion, but a listener is foreign code: it  *)
(* may dispatch, enqueue, subscribe or unsubscribe while the loop that     *)
(* called it is still on the stack.  stack holds those loops, innermost    *)
(* last; timers and other callers run only when it is empty.               *)
(*                                                                         *)
(* An engine's state is abstracted to the id of the event it took last.    *)
(* topologicalSort only orders updates of different engines inside one     *)
(* commit: see DependencyGraph.                                            *)
(***************************************************************************)
EXTENDS Naturals, SequencesExt, FiniteSetsExt

CONSTANTS
    Engines,        \* EngineName
    Types,          \* event types
    Listeners,      \* AppStateListeners
    MaxBatch,       \* MAX_BATCH_SIZE
    MaxEvents,      \* bound: events and actions
    MaxSubscribes,  \* bound: subscriptions; a listener that kept leaving and coming
                    \* back would keep a notify loop going for ever
    MaxDepth        \* bound: notification loops on the stack

ASSUME RuntimeStateStoreAssumption ==
    /\ MaxBatch \in Nat \ {0} /\ MaxEvents \in Nat
    /\ MaxSubscribes \in Nat /\ MaxDepth \in Nat \ {0}
    /\ IsFiniteSet(Engines) /\ IsFiniteSet(Types) /\ IsFiniteSet(Listeners)

VARIABLES
    cell,       \* per engine, the id of the event its state comes from, or 0
    ready,      \* enginesReady
    counter,    \* mutationCounter of the state and, after commit, the snapshot
    queue,      \* EventBatcher.queue
    timer,      \* is the batch timer armed?
    joins,      \* subscriptions so far
    subscribed, \* the listener set, in insertion order
    stack,      \* for each notify loop: who it has called, and whether it is in a call
    seen,       \* the counter of the snapshot each listener was shown last
    lastId,     \* ids given out
    latest,     \* per engine and type, the last event enqueued (history)
    applied,    \* ids that reached an engine (history)
    direct      \* ids that were dispatched (history)

vars == <<cell, ready, counter, queue, timer, joins, subscribed, stack, seen, lastId, latest, applied, direct>>
history == <<lastId, latest, applied, direct>>

Event == [engine : Engines, type : Types, id : 1 .. MaxEvents]

Init ==
    /\ cell    = [e \in Engines |-> 0]
    /\ ready   = {}
    /\ counter = 0
    /\ queue   = <<>> /\ timer = FALSE
    /\ joins = 0
    /\ subscribed = <<>> /\ stack = <<>>
    /\ seen    = [l \in Listeners |-> 0]
    /\ lastId  = 0
    /\ latest  = [p \in Engines \X Types |-> 0]
    /\ applied = {} /\ direct = {}

Top == stack[Len(stack)]

\* Code can call the store at rest, or from the listener called last.
CanCall == stack # <<>> => Top.inCall /\ Len(stack) < MaxDepth

\* commit: the new snapshot, and a notify loop that has called nobody yet.
\* Mutant: a guard against re-entrance.
Commit_Guarded == stack' = IF stack = <<>> THEN <<[called |-> {}, inCall |-> FALSE]>> ELSE stack

Commit == stack' = Append(stack, [called |-> {}, inCall |-> FALSE])

-----------------------------------------------------------------------------
(* processBatch *)

\* Where the events of an engine are in a batch
EventsOf(batch, e) == {i \in DOMAIN batch : batch[i].engine = e}

\* Mutants: the earliest event of the engine; the one before the last, or the
\* default 0.
Chosen_First(batch, e) == batch[Min(EventsOf(batch, e))].id

Chosen_BeforeLast(batch, e) ==
    LET mine == EventsOf(batch, e)
    IN IF Cardinality(mine) > 1 THEN batch[Max(mine \ {Max(mine)})].id ELSE 0

\* deduped.get of the engine and the type its first event in the batch has: the last
\* event of that type.  Events of the engine's other types are never looked up.
Chosen(batch, e) ==
    LET mine  == EventsOf(batch, e)
        first == batch[Min(mine)].type
    IN batch[Max({i \in mine : batch[i].type = first})].id

Affected(batch) == {v.engine : v \in Range(batch)}

ProcessBatch(batch) ==
    /\ cell'    = [e \in Engines |-> IF e \in Affected(batch) THEN Chosen(batch, e)
                                                              ELSE cell[e]]
    /\ applied' = applied \cup {Chosen(batch, e) : e \in Affected(batch)}
    /\ counter' = counter + Cardinality(Affected(batch))
    /\ Commit

\* flush: the queue and the timer are reset before the batch is processed.
\* Mutants: the timer is not reset; one event is taken, from the wrong end.
Flush_KeepsTimer(batch) == queue' = <<>> /\ timer' = TRUE /\ ProcessBatch(batch)

Flush_Pop(batch) ==
    /\ queue' = SubSeq(batch, 1, Len(batch) - 1) /\ timer' = (Len(batch) > 1)
    /\ ProcessBatch(<<batch[Len(batch)]>>)

Flush(batch) ==
    /\ queue' = <<>> /\ timer' = FALSE
    /\ ProcessBatch(batch)

-----------------------------------------------------------------------------
\* enqueueEvent: the event that fills the batch flushes it at once.
EnqueueEvent(e, t) ==
    LET event == [engine |-> e, type |-> t, id |-> lastId + 1]
        full  == Append(queue, event)
    IN
    /\ CanCall /\ lastId < MaxEvents
    /\ lastId' = lastId + 1
    /\ latest' = [latest EXCEPT ![<<e, t>>] = lastId + 1]
    /\ IF Len(full) >= MaxBatch
         THEN Flush(full)
         ELSE /\ queue' = full /\ timer' = TRUE
              /\ UNCHANGED <<cell, applied, counter, stack>>
    /\ UNCHANGED <<ready, joins, subscribed, seen, direct>>

\* Mutant: the timer fires and flushes full batches only.
BatchTimeout_FullOnly ==
    /\ stack = <<>> /\ timer
    /\ timer' = FALSE
    /\ UNCHANGED <<cell, ready, counter, queue, joins, subscribed, stack, seen, history>>

BatchTimeout ==
    /\ stack = <<>> /\ timer
    /\ Flush(queue)
    /\ UNCHANGED <<ready, joins, subscribed, seen, lastId, latest, direct>>

\* dispatch: updateLock is never set, so the action is applied at once even
\* inside a listener, and pendingActions stays empty.
Dispatch(e) ==
    /\ CanCall /\ lastId < MaxEvents
    /\ lastId'  = lastId + 1
    /\ cell'    = [cell EXCEPT ![e] = lastId + 1]
    /\ applied' = applied \cup {lastId + 1}
    /\ direct'  = direct \cup {lastId + 1}
    /\ counter' = counter + 1
    /\ Commit
    /\ UNCHANGED <<ready, queue, timer, joins, subscribed, seen, latest>>

MarkReady(e) ==
    /\ CanCall /\ e \notin ready
    /\ ready'   = ready \cup {e}
    /\ counter' = counter + 1
    /\ Commit
    /\ UNCHANGED <<cell, queue, timer, joins, subscribed, seen, history>>

\* A subscriber reads the snapshot it starts from.  A listener added during a
\* loop is still visited by it.
Subscribe(l) ==
    /\ CanCall /\ l \notin Range(subscribed) /\ joins < MaxSubscribes
    /\ joins' = joins + 1
    /\ subscribed' = Append(subscribed, l)
    /\ seen' = [seen EXCEPT ![l] = counter]
    /\ UNCHANGED <<cell, ready, counter, queue, timer, stack, history>>

\* A loop visits a listener again that left and came back.
Unsubscribe(l) ==
    /\ CanCall
    /\ \E i \in DOMAIN subscribed : subscribed[i] = l /\ subscribed' = RemoveAt(subscribed, i)
    /\ stack' = [i \in DOMAIN stack |-> [stack[i] EXCEPT !.called = @ \ {l}]]
    /\ UNCHANGED <<cell, ready, counter, queue, timer, joins, seen, history>>

\* Whom the innermost loop has still to call.
Waiting == {i \in DOMAIN subscribed : subscribed[i] \notin Top.called}

\* It calls the next listener with the snapshot of this moment.
NotifyNext ==
    /\ stack # <<>> /\ Waiting # {}
    /\ LET l == subscribed[Min(Waiting)] IN
          /\ stack' = [stack EXCEPT ![Len(stack)] =
                          [called |-> @.called \cup {l}, inCall |-> TRUE]]
          /\ seen'  = [seen EXCEPT ![l] = counter]
    /\ UNCHANGED <<cell, ready, counter, queue, timer, joins, subscribed, history>>

\* It is done and the code that started it goes on.
NotifyDone ==
    /\ stack # <<>> /\ Waiting = {}
    /\ stack' = SubSeq(stack, 1, Len(stack) - 1)
    /\ UNCHANGED <<cell, ready, counter, queue, timer, joins, subscribed, seen, history>>

Next ==
    \/ \E e \in Engines : Dispatch(e) \/ MarkReady(e) \/ \E t \in Types : EnqueueEvent(e, t)
    \/ \E l \in Listeners : Subscribe(l) \/ Unsubscribe(l)
    \/ BatchTimeout \/ NotifyNext \/ NotifyDone

Spec == Init /\ [][Next]_vars

\* An armed timer fires once the stack is empty; a synchronous loop goes on.
\* Callers, and listeners that call back, are not obliged to anything.
FairSpec == Spec /\ WF_vars(BatchTimeout) /\ WF_vars(NotifyNext \/ NotifyDone)

-----------------------------------------------------------------------------
(* Properties *)

TypeOK ==
    /\ cell \in [Engines -> 0 .. MaxEvents]
    /\ ready \subseteq Engines
    /\ counter \in Nat
    /\ queue \in Seq(Event) /\ timer \in BOOLEAN
    /\ joins \in 0 .. MaxSubscribes /\ subscribed \in Seq(Listeners)
    /\ stack \in Seq([called : SUBSET Listeners, inCall : BOOLEAN])
    /\ seen \in [Listeners -> Nat]
    /\ lastId \in 0 .. MaxEvents
    /\ latest \in [Engines \X Types -> 0 .. MaxEvents]
    /\ applied \subseteq 1 .. MaxEvents /\ direct \subseteq 1 .. MaxEvents

\* Whatever listeners do while they are notified, at rest every subscribed
\* listener has been shown the newest snapshot.
RestShowsNewest ==
    stack = <<>> => \A l \in Range(subscribed) : seen[l] = counter

\* A queued event always has an armed timer, and the queue is below the batch
\* size, also when a flush is entered from a listener of another flush.
QueueIsScheduled == timer = (queue # <<>>) /\ Len(queue) < MaxBatch

\* The last event of a pair (engine, type) is in the queue or was applied:
\* batching drops only events that a later one of the same pair replaces.
LatestIsApplied ==
    \A p \in Engines \X Types :
        latest[p] = 0 \/ latest[p] \in applied
                      \/ \E v \in Range(queue) : v.id = latest[p]

\* An engine's state is never replaced by that of an older event, unless a direct
\* dispatch overtook the events that were still queued.
NeverOlder == [][\A e \in Engines : cell'[e] >= cell[e] \/ cell[e] \in direct]_vars

\* Every enqueued event leaves the queue within a batch window.
EventuallyFlushed == \A i \in 1 .. MaxEvents :
    (\E v \in Range(queue) : v.id = i) ~> ~(\E v \in Range(queue) : v.id = i)

=============================================================================
