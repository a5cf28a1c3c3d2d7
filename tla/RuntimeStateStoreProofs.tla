----------------------- MODULE RuntimeStateStoreProofs -----------------------
(***************************************************************************)
(* Proofs about RuntimeStateStore, for any number of engines, listeners    *)
(* and events and any depth of re-entrance, and at the end about the       *)
(* DependencyGraph that orders its engines, for every map.                 *)
(*                                                                         *)
(* That every listener has been shown the newest snapshot at rest follows  *)
(* from what the loops on the stack owe: a listener that has not seen it   *)
(* is one that some loop under way has not called.  That no state is       *)
(* replaced by an older one follows from the ids in the queue: they rise,  *)
(* and every one of them is newer than what its engine shows, or that came *)
(* from a dispatch.                                                        *)
(***************************************************************************)
EXTENDS RuntimeStateStore, DependencyGraph, SequenceTheorems, FiniteSetTheorems,
        WellFoundedInduction, TLAPS

-----------------------------------------------------------------------------
(* Least and greatest indices. *)

\* A set of numbers has a least one.
LEMMA LeastElement ==
    ASSUME NEW S \in SUBSET Nat, S # {}
    PROVE  \E m \in S : \A n \in S : m <= n
<1> DEFINE R == OpToRel(<, Nat)
<1>1. IsWellFoundedOn(R, Nat)
  BY NatLessThanWellFounded
<1>2. ASSUME NEW x \in Nat, NEW y \in Nat, y < x
      PROVE  <<y, x>> \in R
  <2>1. <<y, x>> \in {ss \in Nat \X Nat : ss[1] < ss[2]}
    BY <1>2
  <2>2. R = {ss \in Nat \X Nat : ss[1] < ss[2]}
    BY Zenon DEF OpToRel
  <2> HIDE DEF R
  <2>3. QED
    BY <2>1, <2>2
<1> HIDE DEF R
<1>3. PICK x \in S : \A y \in S : <<y, x>> \notin R
  BY <1>1, WFMin
<1>4. ASSUME NEW y \in S PROVE x <= y
  <2>1. ~(y < x)
    BY <1>2, <1>3
  <2>2. QED
    BY <2>1
<1>5. QED
  BY <1>3, <1>4

LEMMA MinFacts ==
    ASSUME NEW S \in SUBSET Nat, S # {}
    PROVE  Min(S) \in S /\ \A x \in S : Min(S) <= x
<1>1. \E m \in S : \A x \in S : m <= x
  BY LeastElement
<1>2. QED
  BY <1>1, Zenon DEF Min

LEMMA MaxFacts ==
    ASSUME NEW n \in Nat, NEW S \in SUBSET (1 .. n), S # {}
    PROVE  Max(S) \in S /\ \A x \in S : x <= Max(S)
<1> DEFINE Mirrored == {n - x : x \in S}
<1>1. Mirrored \in SUBSET Nat /\ Mirrored # {}
  OBVIOUS
<1>2. PICK m \in Mirrored : \A k \in Mirrored : m <= k
  <2> HIDE DEF Mirrored
  <2> QED BY <1>1, LeastElement
<1>3. PICK a \in S : m = n - a
  BY <1>2
<1>4. ASSUME NEW x \in S PROVE a >= x
  <2>1. n - a <= n - x /\ a \in 1 .. n /\ x \in 1 .. n
    BY <1>2, <1>3
  <2>2. QED
    BY <2>1
<1>5. \E b \in S : \A x \in S : b >= x
  BY <1>4
<1>6. Max(S) \in S /\ \A x \in S : Max(S) >= x
  BY <1>5, Zenon DEF Max
<1>7. QED
  BY <1>6

\* Removing a position leaves a sequence of elements that were there.
LEMMA RemoveAtFacts ==
    ASSUME NEW S, NEW s \in Seq(S), NEW k \in DOMAIN s
    PROVE  RemoveAt(s, k) \in Seq(S) /\ Range(RemoveAt(s, k)) \subseteq Range(s)
<1> DEFINE R == Range(s)
           a == SubSeq(s, 1, k - 1)
           b == SubSeq(s, k + 1, Len(s))
<1>1. Len(s) \in Nat /\ DOMAIN s = 1 .. Len(s) /\ k \in 1 .. Len(s)
  OBVIOUS
<1>2. s \in Seq(R)
  <2>1. s \in [1 .. Len(s) -> R]
    BY <1>1 DEF Range
  <2>2. QED
    BY <1>1, <2>1
<1>3. RemoveAt(s, k) = a \o b
  BY DEF RemoveAt
<1>4. a \in Seq(S) /\ b \in Seq(S) /\ a \in Seq(R) /\ b \in Seq(R)
  <2>1. k - 1 \in 0 .. Len(s) /\ 1 \in 1 .. Len(s) + 1
        /\ k + 1 \in 1 .. Len(s) + 1
    BY <1>1
  <2> HIDE DEF R
  <2>2. QED
    BY <1>1, <1>2, <2>1, SubSeqProperties
<1> HIDE DEF a, b, R
<1>5. a \o b \in Seq(S) /\ a \o b \in Seq(R)
  BY <1>4, ConcatProperties
<1>6. \A i \in DOMAIN (a \o b) : (a \o b)[i] \in R
  <2> DEFINE c == a \o b
  <2> HIDE DEF c
  <2>1. c \in Seq(R)
    BY <1>5 DEF c
  <2>2. \A i \in DOMAIN c : c[i] \in R
    BY <2>1
  <2>3. QED
    BY <2>2 DEF c
<1>7. QED
  BY <1>3, <1>5, <1>6 DEF Range, R

-----------------------------------------------------------------------------
(* What is taken from a batch. *)

OneType == \A s, t \in Types : s = t

\* A chosen event is one of the batch and of the engine; if all events have one
\* type, it is the last of the engine.
LEMMA ChosenFacts ==
    ASSUME NEW batch \in Seq(Event), NEW e \in Affected(batch)
    PROVE  \E k \in EventsOf(batch, e) :
              /\ Chosen(batch, e) = batch[k].id
              /\ OneType => \A i \in EventsOf(batch, e) : i <= k
<1> DEFINE mine  == EventsOf(batch, e)
           f     == Min(mine)
           first == {i \in mine : batch[i].type = batch[f].type}
<1>1. /\ Len(batch) \in Nat /\ DOMAIN batch = 1 .. Len(batch)
      /\ \A i \in DOMAIN batch : batch[i] \in Event
  OBVIOUS
<1>2. mine \in SUBSET (1 .. Len(batch)) /\ mine # {}
  BY <1>1 DEF Affected, EventsOf, Range
<1>3. f \in mine
  <2>1. mine \in SUBSET Nat
    BY <1>1, <1>2
  <2> HIDE DEF mine
  <2>2. QED
    BY <1>2, <2>1, MinFacts
<1>4. first \in SUBSET (1 .. Len(batch)) /\ first # {}
  <2> HIDE DEF mine, f
  <2> QED BY <1>2, <1>3
<1>5. Max(first) \in first /\ \A i \in first : i <= Max(first)
  <2> HIDE DEF first
  <2> QED BY <1>1, <1>4, MaxFacts
<1>6. Chosen(batch, e) = batch[Max(first)].id
  BY DEF Chosen
<1>7. OneType => first = mine
  <2>1. \A i \in mine : batch[i].type \in Types
    BY <1>1, <1>2 DEF Event
  <2> HIDE DEF mine, f
  <2>2. QED
    BY <1>3, <2>1 DEF OneType
<1> HIDE DEF first
<1>8. Max(first) \in mine
  BY <1>5 DEF first
<1>9. QED
  BY <1>5, <1>6, <1>7, <1>8

LEMMA AffectedFacts ==
    ASSUME NEW batch \in Seq(Event)
    PROVE  /\ Affected(batch) \subseteq Engines
           /\ Cardinality(Affected(batch)) \in Nat
           /\ \A e \in Affected(batch) : Chosen(batch, e) \in 1 .. MaxEvents
<1>1. \A i \in DOMAIN batch : batch[i] \in Event
  OBVIOUS
<1>2. Affected(batch) \subseteq Engines
  BY <1>1 DEF Affected, Range, Event
<1>3. Cardinality(Affected(batch)) \in Nat
  BY <1>2, RuntimeStateStoreAssumption, FS_Subset, FS_CardinalityType
<1>4. ASSUME NEW e \in Affected(batch) PROVE Chosen(batch, e) \in 1 .. MaxEvents
  <2>1. PICK k \in EventsOf(batch, e) : Chosen(batch, e) = batch[k].id
    BY ChosenFacts
  <2>2. QED
    BY <1>1, <2>1 DEF EventsOf, Event
<1>5. QED
  BY <1>2, <1>3, <1>4

-----------------------------------------------------------------------------
(* Type correctness. *)

Loop == [called : SUBSET Listeners, inCall : BOOLEAN]

LEMMA CommitFacts ==
    ASSUME stack \in Seq(Loop), Commit
    PROVE  /\ stack' \in Seq(Loop)
           /\ \E i \in DOMAIN stack' : stack'[i].called = {}
<1> DEFINE new == [called |-> {}, inCall |-> FALSE]
<1>1. new \in Loop
  BY DEF Loop
<1>2. stack' = Append(stack, new)
  BY DEF Commit
<1> HIDE DEF new
<1>3. /\ stack' \in Seq(Loop) /\ Len(stack) + 1 \in DOMAIN stack'
      /\ stack'[Len(stack) + 1] = new
  BY <1>1, <1>2
<1>4. QED
  BY <1>3 DEF new

LEMMA ProcessBatchType ==
    ASSUME TypeOK, NEW batch \in Seq(Event), ProcessBatch(batch)
    PROVE  /\ cell' \in [Engines -> 0 .. MaxEvents]
           /\ applied' \subseteq 1 .. MaxEvents
           /\ counter' \in Nat
           /\ stack' \in Seq(Loop)
<1>1. /\ Cardinality(Affected(batch)) \in Nat
      /\ \A e \in Affected(batch) : Chosen(batch, e) \in 1 .. MaxEvents
  BY AffectedFacts
<1>2. cell' = [e \in Engines |-> IF e \in Affected(batch) THEN Chosen(batch, e) ELSE cell[e]]
  BY DEF ProcessBatch
<1>3. cell' \in [Engines -> 0 .. MaxEvents]
  BY <1>1, <1>2 DEF TypeOK
<1>4. applied' \subseteq 1 .. MaxEvents
  BY <1>1 DEF ProcessBatch, TypeOK
<1>5. counter' \in Nat
  BY <1>1 DEF ProcessBatch, TypeOK
<1>6. stack' \in Seq(Loop)
  BY CommitFacts DEF ProcessBatch, TypeOK, Loop
<1>7. QED
  BY <1>3, <1>4, <1>5, <1>6

\* The event of an enqueue and the batch it may fill.
LEMMA EnqueueFacts ==
    ASSUME TypeOK, NEW e \in Engines, NEW t \in Types, lastId < MaxEvents
    PROVE  LET event == [engine |-> e, type |-> t, id |-> lastId + 1]
               full  == Append(queue, event)
           IN  /\ lastId + 1 \in 1 .. MaxEvents
               /\ event \in Event
               /\ full \in Seq(Event)
               /\ Len(full) = Len(queue) + 1 /\ Len(queue) \in Nat
               /\ DOMAIN full = 1 .. Len(queue) + 1 /\ DOMAIN queue = 1 .. Len(queue)
               /\ \A i \in 1 .. Len(queue) : full[i] = queue[i]
               /\ full[Len(queue) + 1] = event
<1> DEFINE event == [engine |-> e, type |-> t, id |-> lastId + 1]
<1>1. lastId + 1 \in 1 .. MaxEvents
  BY RuntimeStateStoreAssumption DEF TypeOK
<1>2. event \in Event
  BY <1>1 DEF Event
<1>3. queue \in Seq(Event)
  BY DEF TypeOK
<1> HIDE DEF event
<1>4. QED
  BY <1>1, <1>2, <1>3 DEF event

\* A flush leaves nothing queued and no timer.
LEMMA FlushEmpties ==
    ASSUME NEW batch, Flush(batch)
    PROVE  queue' \in Seq(Event) /\ timer' \in BOOLEAN
<1>1. queue' = <<>> /\ timer' = FALSE
  BY Zenon DEF Flush
<1>2. queue' \in Seq(Event)
  BY <1>1
<1>3. timer' \in BOOLEAN
  BY <1>1, Zenon
<1>4. QED
  BY <1>2, <1>3

LEMMA TypeInit == Init => TypeOK
<1> SUFFICES ASSUME Init PROVE TypeOK
  OBVIOUS
<1>1. 0 \in 0 .. MaxEvents /\ 0 \in 0 .. MaxSubscribes
  BY RuntimeStateStoreAssumption
<1>2. /\ cell \in [Engines -> 0 .. MaxEvents] /\ ready \subseteq Engines
      /\ counter \in Nat /\ joins \in 0 .. MaxSubscribes /\ lastId \in 0 .. MaxEvents
      /\ seen \in [Listeners -> Nat]
      /\ latest \in [Engines \X Types -> 0 .. MaxEvents]
      /\ applied \subseteq 1 .. MaxEvents /\ direct \subseteq 1 .. MaxEvents
  BY <1>1 DEF Init
<1>3. /\ queue \in Seq(Event) /\ subscribed \in Seq(Listeners)
      /\ stack \in Seq([called : SUBSET Listeners, inCall : BOOLEAN])
  BY DEF Init
<1>4. timer \in BOOLEAN
  BY Zenon DEF Init
<1>5. QED
  BY <1>2, <1>3, <1>4 DEF TypeOK

LEMMA TypeStep == TypeOK /\ [Next]_vars => TypeOK'
<1> SUFFICES ASSUME TypeOK, [Next]_vars PROVE TypeOK'
  OBVIOUS
<1> USE RuntimeStateStoreAssumption
<1>1. ASSUME NEW e \in Engines, Dispatch(e) PROVE TypeOK'
  <2>1. stack' \in Seq(Loop)
    BY <1>1, CommitFacts DEF Dispatch, TypeOK, Loop
  <2>2. lastId + 1 \in 1 .. MaxEvents
    BY <1>1 DEF Dispatch, TypeOK
  <2>3. QED
    BY <1>1, <2>1, <2>2 DEF Dispatch, TypeOK, Loop
<1>2. ASSUME NEW e \in Engines, MarkReady(e) PROVE TypeOK'
  <2>1. stack' \in Seq(Loop)
    BY <1>2, CommitFacts DEF MarkReady, TypeOK, Loop
  <2>2. QED
    BY <1>2, <2>1 DEF MarkReady, TypeOK, Loop, history
<1>3. ASSUME NEW e \in Engines, NEW t \in Types, EnqueueEvent(e, t) PROVE TypeOK'
  <2> DEFINE full == Append(queue, [engine |-> e, type |-> t, id |-> lastId + 1])
  <2>1. full \in Seq(Event) /\ lastId + 1 \in 1 .. MaxEvents
    BY <1>3, EnqueueFacts DEF EnqueueEvent
  <2>2. lastId' \in 0 .. MaxEvents /\ latest' \in [Engines \X Types -> 0 .. MaxEvents]
    BY <1>3, <2>1 DEF EnqueueEvent, TypeOK
  <2>3. CASE Len(full) >= MaxBatch
    <3>1. Flush(full)
      BY <1>3, <2>3 DEF EnqueueEvent
    <3> HIDE DEF full
    <3>2. /\ cell' \in [Engines -> 0 .. MaxEvents] /\ applied' \subseteq 1 .. MaxEvents
          /\ counter' \in Nat /\ stack' \in Seq(Loop)
      BY <2>1, <3>1, ProcessBatchType DEF Flush
    <3>3. queue' \in Seq(Event) /\ timer' \in BOOLEAN
      BY <3>1, FlushEmpties
    <3>4. QED
      BY <1>3, <2>2, <3>2, <3>3 DEF EnqueueEvent, TypeOK, Loop
  <2>4. CASE ~(Len(full) >= MaxBatch)
    <3>1. queue' = full /\ timer' = TRUE /\ UNCHANGED <<cell, applied, counter, stack>>
      BY <1>3, <2>4 DEF EnqueueEvent
    <3> HIDE DEF full
    <3>2. QED
      BY <1>3, <2>1, <2>2, <3>1 DEF EnqueueEvent, TypeOK
  <2>5. QED
    BY <2>3, <2>4
<1>4. ASSUME NEW l \in Listeners, Subscribe(l) PROVE TypeOK'
  <2>1. subscribed' \in Seq(Listeners) /\ seen' \in [Listeners -> Nat]
    BY <1>4 DEF Subscribe, TypeOK
  <2>2. joins' \in 0 .. MaxSubscribes
    BY <1>4 DEF Subscribe, TypeOK
  <2>3. QED
    BY <1>4, <2>1, <2>2 DEF Subscribe, TypeOK, history
<1>5. ASSUME NEW l \in Listeners, Unsubscribe(l) PROVE TypeOK'
  <2>1. subscribed \in Seq(Listeners) /\ stack \in Seq(Loop)
    BY DEF TypeOK, Loop
  <2>2. subscribed' \in Seq(Listeners)
    BY <1>5, <2>1, RemoveAtFacts DEF Unsubscribe
  <2>3. stack' = [i \in DOMAIN stack |-> [stack[i] EXCEPT !.called = @ \ {l}]]
    BY <1>5 DEF Unsubscribe
  <2>4. ASSUME NEW i \in DOMAIN stack
        PROVE  [stack[i] EXCEPT !.called = @ \ {l}] \in Loop
    <3>1. stack[i] \in Loop
      BY <2>1
    <3>2. QED
      BY <3>1 DEF Loop
  <2>5. stack' \in [1 .. Len(stack) -> Loop] /\ Len(stack) \in Nat
    BY <2>1, <2>3, <2>4
  <2>6. stack' \in Seq(Loop)
    BY <2>5
  <2>7. QED
    BY <1>5, <2>2, <2>6 DEF Unsubscribe, TypeOK, Loop, history
<1>6. CASE BatchTimeout
  <2>1. Flush(queue) /\ queue \in Seq(Event)
    BY <1>6 DEF BatchTimeout, TypeOK
  <2>2. /\ cell' \in [Engines -> 0 .. MaxEvents] /\ applied' \subseteq 1 .. MaxEvents
        /\ counter' \in Nat /\ stack' \in Seq(Loop)
    BY <2>1, ProcessBatchType DEF Flush
  <2>3. queue' \in Seq(Event) /\ timer' \in BOOLEAN
    BY <2>1, FlushEmpties
  <2>4. QED
    BY <1>6, <2>2, <2>3 DEF BatchTimeout, TypeOK, Loop
<1>7. CASE NotifyNext
  <2> DEFINE l == subscribed[Min(Waiting)]
             n == Len(stack)
  <2>1. l \in Listeners
    <3>1. Waiting \in SUBSET Nat /\ Waiting # {} /\ subscribed \in Seq(Listeners)
      BY <1>7 DEF NotifyNext, Waiting, TypeOK
    <3>2. Min(Waiting) \in Waiting
      BY <3>1, MinFacts
    <3>3. QED
      BY <3>1, <3>2 DEF Waiting
  <2>2. /\ stack' = [stack EXCEPT ![n] = [called |-> @.called \cup {l}, inCall |-> TRUE]]
        /\ seen' = [seen EXCEPT ![l] = counter]
    BY <1>7 DEF NotifyNext
  <2> HIDE DEF l
  <2>3. seen' \in [Listeners -> Nat]
    BY <2>1, <2>2 DEF TypeOK
  <2>4. stack \in Seq(Loop) /\ n \in DOMAIN stack
    BY <1>7 DEF NotifyNext, TypeOK, Loop
  <2>5. [called |-> stack[n].called \cup {l}, inCall |-> TRUE] \in Loop
    <3>1. stack[n] \in Loop
      BY <2>4
    <3>2. QED
      BY <2>1, <3>1 DEF Loop
  <2>6. stack' \in Seq(Loop)
    BY <2>2, <2>4, <2>5
  <2>7. QED
    BY <1>7, <2>3, <2>6 DEF NotifyNext, TypeOK, Loop, history
<1>8. CASE NotifyDone
  <2>1. stack \in Seq(Loop) /\ stack # <<>>
    BY <1>8 DEF NotifyDone, TypeOK, Loop
  <2>2. Len(stack) - 1 \in 0 .. Len(stack) /\ 1 \in 1 .. Len(stack) + 1
    BY <2>1
  <2>3. stack' \in Seq(Loop)
    BY <1>8, <2>1, <2>2, SubSeqProperties DEF NotifyDone
  <2>4. QED
    BY <1>8, <2>3 DEF NotifyDone, TypeOK, Loop, history
<1>9. CASE UNCHANGED vars
  BY <1>9 DEF TypeOK, vars
<1>10. QED
  BY <1>1, <1>2, <1>3, <1>4, <1>5, <1>6, <1>7, <1>8, <1>9 DEF Next

\* TypeOK, for any number of engines, types, listeners and events.
THEOREM TypeCorrect == Spec => []TypeOK
BY TypeInit, TypeStep, PTL DEF Spec

-----------------------------------------------------------------------------
(* The queue. *)

\* The steps that have to do with events.
LEMMA StepKinds ==
    ASSUME [Next]_vars
    PROVE  \/ UNCHANGED <<cell, queue, timer, lastId, latest, applied, direct>>
           \/ \E e \in Engines : Dispatch(e)
           \/ \E e \in Engines, t \in Types : EnqueueEvent(e, t)
           \/ BatchTimeout
<1>1. ASSUME NEW e \in Engines, MarkReady(e)
      PROVE  UNCHANGED <<cell, queue, timer, lastId, latest, applied, direct>>
  BY <1>1 DEF MarkReady, history
<1>2. ASSUME NEW l \in Listeners, Subscribe(l) \/ Unsubscribe(l)
      PROVE  UNCHANGED <<cell, queue, timer, lastId, latest, applied, direct>>
  BY <1>2 DEF Subscribe, Unsubscribe, history
<1>3. ASSUME NotifyNext \/ NotifyDone \/ UNCHANGED vars
      PROVE  UNCHANGED <<cell, queue, timer, lastId, latest, applied, direct>>
  BY <1>3 DEF NotifyNext, NotifyDone, history, vars
<1>4. QED
  BY <1>1, <1>2, <1>3, Zenon DEF Next

\* An enqueue either fills the batch or leaves a longer queue.
LEMMA EnqueueCases ==
    ASSUME TypeOK, NEW e \in Engines, NEW t \in Types, EnqueueEvent(e, t)
    PROVE  \E full \in Seq(Event) :
              /\ full = Append(queue, [engine |-> e, type |-> t, id |-> lastId + 1])
              /\ lastId' = lastId + 1 /\ direct' = direct
              /\ latest' = [latest EXCEPT ![<<e, t>>] = lastId + 1]
              /\ \/ Flush(full)
                 \/ /\ queue' = full /\ timer' = TRUE /\ Len(full) < MaxBatch
                    /\ UNCHANGED <<cell, applied>>
<1> DEFINE full == Append(queue, [engine |-> e, type |-> t, id |-> lastId + 1])
<1>1. full \in Seq(Event)
  BY EnqueueFacts DEF EnqueueEvent
<1>2. lastId' = lastId + 1 /\ direct' = direct
      /\ latest' = [latest EXCEPT ![<<e, t>>] = lastId + 1]
  BY DEF EnqueueEvent
<1>3. \/ Flush(full)
      \/ /\ queue' = full /\ timer' = TRUE /\ ~(Len(full) >= MaxBatch)
         /\ UNCHANGED <<cell, applied>>
  BY Zenon DEF EnqueueEvent
<1>4. Len(full) \in Nat /\ MaxBatch \in Nat
  BY <1>1, RuntimeStateStoreAssumption
<1> HIDE DEF full
<1>5. ~(Len(full) >= MaxBatch) <=> Len(full) < MaxBatch
  BY <1>4
<1>6. QED
  BY <1>1, <1>2, <1>3, <1>5, Zenon DEF full

LEMMA ScheduledStep == TypeOK /\ QueueIsScheduled /\ [Next]_vars => QueueIsScheduled'
<1> SUFFICES ASSUME TypeOK, QueueIsScheduled, [Next]_vars PROVE QueueIsScheduled'
  OBVIOUS
<1>1. ASSUME NEW b, Flush(b) PROVE QueueIsScheduled'
  <2>1. queue' = <<>> /\ timer' = FALSE
    BY <1>1, Zenon DEF Flush
  <2>2. Len(queue') < MaxBatch
    BY <2>1, RuntimeStateStoreAssumption
  <2>3. timer' = (queue' # <<>>)
    BY <2>1, Zenon
  <2>4. QED
    BY <2>2, <2>3, Zenon DEF QueueIsScheduled
<1>2. CASE UNCHANGED <<cell, queue, timer, lastId, latest, applied, direct>>
  BY <1>2, Zenon DEF QueueIsScheduled
<1>3. CASE \E e \in Engines : Dispatch(e)
  BY <1>3, Zenon DEF QueueIsScheduled, Dispatch
<1>4. ASSUME NEW e \in Engines, NEW t \in Types, EnqueueEvent(e, t) PROVE QueueIsScheduled'
  <2>1. PICK full \in Seq(Event) :
          /\ full = Append(queue, [engine |-> e, type |-> t, id |-> lastId + 1])
          /\ \/ Flush(full)
             \/ queue' = full /\ timer' = TRUE /\ Len(full) < MaxBatch
    BY <1>4, EnqueueCases
  <2>2. CASE queue' = full /\ timer' = TRUE /\ Len(full) < MaxBatch
    <3>1. full # <<>>
      BY <2>1 DEF TypeOK
    <3>2. timer' = (queue' # <<>>)
      BY <2>2, <3>1, Zenon
    <3>3. QED
      BY <2>2, <3>2, Zenon DEF QueueIsScheduled
  <2>3. QED
    BY <1>1, <2>1, <2>2, Zenon
<1>5. CASE BatchTimeout
  BY <1>1, <1>5 DEF BatchTimeout
<1>6. QED
  BY <1>2, <1>3, <1>4, <1>5, StepKinds, Zenon

\* What is queued has a timer, and the queue stays below the size of a batch.
THEOREM QueuedIsScheduled == Spec => []QueueIsScheduled
<1>1. Init => QueueIsScheduled
  <2> SUFFICES ASSUME Init PROVE QueueIsScheduled
    OBVIOUS
  <2>1. queue = <<>> /\ timer = FALSE
    BY Zenon DEF Init
  <2>2. Len(queue) < MaxBatch
    BY <2>1, RuntimeStateStoreAssumption
  <2>3. timer = (queue # <<>>)
    BY <2>1, Zenon
  <2>4. QED
    BY <2>2, <2>3, Zenon DEF QueueIsScheduled
<1>2. QED
  BY <1>1, ScheduledStep, TypeCorrect, PTL DEF Spec

-----------------------------------------------------------------------------
(* The listeners. *)

\* Who has not been shown the newest snapshot is still to be called by a loop.
ToldOrPending ==
    \A l \in Range(subscribed) :
        seen[l] = counter \/ \E i \in DOMAIN stack : l \notin stack[i].called

LEMMA ToldStep == TypeOK /\ ToldOrPending /\ [Next]_vars => ToldOrPending'
<1> SUFFICES ASSUME TypeOK, ToldOrPending, [Next]_vars PROVE ToldOrPending'
  OBVIOUS
<1>1. ASSUME Commit, UNCHANGED subscribed PROVE ToldOrPending'
  <2>1. \E i \in DOMAIN stack' : stack'[i].called = {}
    BY <1>1, CommitFacts DEF TypeOK, Loop
  <2>2. QED
    BY <2>1 DEF ToldOrPending
<1>2. ASSUME UNCHANGED <<subscribed, seen, counter, stack>> PROVE ToldOrPending'
  BY <1>2 DEF ToldOrPending
<1>3. ASSUME NEW e \in Engines, Dispatch(e) \/ MarkReady(e) PROVE ToldOrPending'
  BY <1>1, <1>3 DEF Dispatch, MarkReady
<1>4. ASSUME NEW e \in Engines, NEW t \in Types, EnqueueEvent(e, t) PROVE ToldOrPending'
  <2>1. UNCHANGED <<subscribed, seen>> /\ (Commit \/ UNCHANGED <<counter, stack>>)
    BY <1>4, Zenon DEF EnqueueEvent, Flush, ProcessBatch
  <2>2. QED
    BY <1>1, <1>2, <2>1
<1>5. CASE BatchTimeout
  BY <1>1, <1>5 DEF BatchTimeout, Flush, ProcessBatch
<1>6. ASSUME NEW l \in Listeners, Subscribe(l) PROVE ToldOrPending'
  <2>1. /\ subscribed \in Seq(Listeners) /\ subscribed' = Append(subscribed, l)
        /\ seen' = [seen EXCEPT ![l] = counter] /\ UNCHANGED <<counter, stack>>
        /\ seen \in [Listeners -> Nat]
    BY <1>6 DEF Subscribe, TypeOK
  <2>2. Range(subscribed') \subseteq Range(subscribed) \cup {l}
    <3>1. \A i \in DOMAIN subscribed' :
             subscribed'[i] = l \/ (i \in DOMAIN subscribed /\ subscribed'[i] = subscribed[i])
      <4>1. /\ Len(subscribed) \in Nat /\ DOMAIN subscribed = 1 .. Len(subscribed)
            /\ DOMAIN subscribed' = 1 .. Len(subscribed) + 1
            /\ \A i \in 1 .. Len(subscribed) : subscribed'[i] = subscribed[i]
            /\ subscribed'[Len(subscribed) + 1] = l
        BY <2>1
      <4>2. QED
        BY <4>1
    <3>2. QED
      BY <3>1 DEF Range
  <2>3. ASSUME NEW k \in Range(subscribed')
        PROVE  seen'[k] = counter' \/ \E i \in DOMAIN stack' : k \notin stack'[i].called
    <3>1. CASE k = l
      BY <2>1, <3>1
    <3>2. CASE k # l
      BY <2>1, <2>2, <3>2 DEF ToldOrPending
    <3>3. QED
      BY <3>1, <3>2
  <2>4. QED
    BY <2>3 DEF ToldOrPending
<1>7. ASSUME NEW l \in Listeners, Unsubscribe(l) PROVE ToldOrPending'
  <2>1. Range(subscribed') \subseteq Range(subscribed)
    BY <1>7, RemoveAtFacts DEF Unsubscribe, TypeOK
  <2>2. /\ stack' = [i \in DOMAIN stack |-> [stack[i] EXCEPT !.called = @ \ {l}]]
        /\ UNCHANGED <<counter, seen>>
    BY <1>7 DEF Unsubscribe
  <2>3. ASSUME NEW i \in DOMAIN stack, NEW k, k \notin stack[i].called
        PROVE  i \in DOMAIN stack' /\ k \notin stack'[i].called
    <3>1. stack[i] \in Loop
      <4>1. stack \in Seq(Loop)
        BY DEF TypeOK, Loop
      <4>2. QED
        BY <4>1
    <3>2. stack'[i].called = stack[i].called \ {l}
      BY <2>2, <3>1 DEF Loop
    <3>3. QED
      BY <2>2, <2>3, <3>2
  <2>4. QED
    BY <2>1, <2>2, <2>3 DEF ToldOrPending
<1>8. CASE NotifyNext
  <2> DEFINE l == subscribed[Min(Waiting)]
             n == Len(stack)
  <2>1. /\ stack' = [stack EXCEPT ![n] = [called |-> @.called \cup {l}, inCall |-> TRUE]]
        /\ seen' = [seen EXCEPT ![l] = counter]
        /\ UNCHANGED <<counter, subscribed>>
    BY <1>8 DEF NotifyNext
  <2> HIDE DEF l
  <2>2. stack \in Seq(Loop) /\ n \in DOMAIN stack
        /\ Range(subscribed) \subseteq Listeners /\ seen \in [Listeners -> Nat]
    BY <1>8 DEF NotifyNext, TypeOK, Loop, Range
  <2>3. DOMAIN stack' = DOMAIN stack
    BY <2>1
  <2>4. ASSUME NEW i \in DOMAIN stack, NEW k, k # l, k \notin stack[i].called
        PROVE  k \notin stack'[i].called
    <3>1. CASE i = n
      BY <2>1, <2>2, <2>4, <3>1
    <3>2. CASE i # n
      BY <2>1, <2>2, <2>4, <3>2
    <3>3. QED
      BY <3>1, <3>2
  <2>5. ASSUME NEW k \in Range(subscribed')
        PROVE  seen'[k] = counter' \/ \E i \in DOMAIN stack' : k \notin stack'[i].called
    <3>1. k \in Range(subscribed) /\ k \in Listeners
      BY <2>1, <2>2
    <3>2. CASE k = l
      BY <2>1, <2>2, <3>1, <3>2
    <3>3. CASE k # l
      BY <2>1, <2>2, <2>3, <2>4, <3>1, <3>3 DEF ToldOrPending
    <3>4. QED
      BY <3>2, <3>3
  <2>6. QED
    BY <2>5 DEF ToldOrPending
<1>9. CASE NotifyDone
  <2> DEFINE n == Len(stack)
  <2>1. /\ stack \in Seq(Loop) /\ stack # <<>> /\ Waiting = {}
        /\ stack' = SubSeq(stack, 1, n - 1) /\ UNCHANGED <<counter, subscribed, seen>>
    BY <1>9 DEF NotifyDone, TypeOK, Loop
  <2>2. n \in Nat \ {0} /\ DOMAIN stack = 1 .. n
    BY <2>1
  <2>3. /\ DOMAIN stack' = 1 .. n - 1
        /\ \A i \in 1 .. n - 1 : stack'[i] = stack[i]
    BY <2>1, <2>2
  <2>4. \A k \in Range(subscribed) : k \in stack[n].called
    BY <2>1 DEF Waiting, Top, Range
  <2>5. ASSUME NEW k \in Range(subscribed), NEW i \in DOMAIN stack, k \notin stack[i].called
        PROVE  i \in DOMAIN stack' /\ k \notin stack'[i].called
    <3>1. i # n
      BY <2>4, <2>5
    <3>2. i \in 1 .. n - 1
      BY <2>2, <3>1
    <3>3. QED
      BY <2>3, <2>5, <3>2
  <2>6. QED
    BY <2>1, <2>5 DEF ToldOrPending
<1>10. CASE UNCHANGED vars
  BY <1>2, <1>10 DEF vars
<1>11. QED
  BY <1>3, <1>4, <1>5, <1>6, <1>7, <1>8, <1>9, <1>10 DEF Next

\* At rest every subscribed listener was shown the newest snapshot, however deep
\* the listeners re-entered the store.
THEOREM RestIsNewest == Spec => []RestShowsNewest
<1>1. Init => ToldOrPending
  BY DEF Init, ToldOrPending, Range
<1>2. ToldOrPending => RestShowsNewest
  BY DEF ToldOrPending, RestShowsNewest
<1>3. QED
  BY <1>1, <1>2, ToldStep, TypeCorrect, PTL DEF Spec

-----------------------------------------------------------------------------
(* The ids of the events. *)

\* The ids in a batch rise, up to the last one given out.
Rising(batch, last) ==
    /\ \A i, j \in DOMAIN batch : i < j => batch[i].id < batch[j].id
    /\ \A i \in DOMAIN batch : batch[i].id <= last

\* Each is newer than what its engine shows, unless that was dispatched.
Newer(batch) ==
    \A i \in DOMAIN batch : \/ cell[batch[i].engine] < batch[i].id
                            \/ cell[batch[i].engine] \in direct

CellsKnown == \A e \in Engines : cell[e] <= lastId

IdInv == Rising(queue, lastId) /\ Newer(queue) /\ CellsKnown

\* The event that is enqueued is the newest.
LEMMA EnqueuedIsNewest ==
    ASSUME TypeOK, IdInv, NEW e \in Engines, NEW t \in Types, lastId < MaxEvents,
           NEW full, full = Append(queue, [engine |-> e, type |-> t, id |-> lastId + 1])
    PROVE  Rising(full, lastId + 1) /\ Newer(full)
<1> DEFINE n == Len(queue)
           event == [engine |-> e, type |-> t, id |-> lastId + 1]
<1>1. /\ n \in Nat /\ DOMAIN queue = 1 .. n /\ DOMAIN full = 1 .. n + 1
      /\ \A i \in 1 .. n : full[i] = queue[i]
      /\ full[n + 1] = event
  BY EnqueueFacts
<1>2. event.id = lastId + 1 /\ event.engine = e
  OBVIOUS
<1>3. lastId \in Nat /\ cell[e] \in Nat /\ cell[e] <= lastId
  BY DEF TypeOK, IdInv, CellsKnown
<1>4. \A i \in 1 .. n : queue[i] \in Event
  BY <1>1 DEF TypeOK
<1>5. \A i \in 1 .. n : queue[i].id \in Nat /\ queue[i].id <= lastId
  BY <1>1, <1>4 DEF IdInv, Rising, Event
<1> HIDE DEF event, n
<1>6. \A i \in DOMAIN full : i \in 1 .. n \/ i = n + 1
  BY <1>1
<1>7. \A i \in DOMAIN full : full[i].id <= lastId + 1
  BY <1>1, <1>2, <1>3, <1>5, <1>6
<1>8. ASSUME NEW i \in DOMAIN full, NEW j \in DOMAIN full, i < j
      PROVE  full[i].id < full[j].id
  <2>1. i \in 1 .. n
    BY <1>1, <1>8
  <2>2. CASE j \in 1 .. n
    BY <1>1, <1>8, <2>1, <2>2 DEF IdInv, Rising
  <2>3. CASE j = n + 1
    BY <1>1, <1>2, <1>3, <1>5, <2>1, <2>3
  <2>4. QED
    BY <1>6, <2>2, <2>3
<1>9. ASSUME NEW i \in DOMAIN full
      PROVE  cell[full[i].engine] < full[i].id \/ cell[full[i].engine] \in direct
  <2>1. CASE i \in 1 .. n
    BY <1>1, <2>1 DEF IdInv, Newer
  <2>2. CASE i = n + 1
    BY <1>1, <1>2, <1>3, <2>2
  <2>3. QED
    BY <1>6, <2>1, <2>2
<1>10. QED
  BY <1>7, <1>8, <1>9 DEF Rising, Newer

\* A batch takes no engine back, and leaves each with an id that is known.
LEMMA FlushIsNewer ==
    ASSUME TypeOK, NEW batch \in Seq(Event), Flush(batch), NEW last \in Nat, lastId <= last,
           Rising(batch, last), Newer(batch), CellsKnown, NEW e \in Engines
    PROVE  /\ cell'[e] >= cell[e] \/ cell[e] \in direct
           /\ cell'[e] <= last
<1>1. cell'[e] = IF e \in Affected(batch) THEN Chosen(batch, e) ELSE cell[e]
  BY DEF Flush, ProcessBatch
<1>2. cell[e] \in Nat /\ cell[e] <= lastId /\ lastId \in Nat
  BY DEF TypeOK, CellsKnown
<1>3. CASE e \in Affected(batch)
  <2>1. PICK k \in EventsOf(batch, e) : Chosen(batch, e) = batch[k].id
    BY <1>3, ChosenFacts
  <2>2. k \in DOMAIN batch /\ batch[k].engine = e /\ batch[k].id \in Nat
    <3>1. \A i \in DOMAIN batch : batch[i] \in Event
      OBVIOUS
    <3>2. QED
      BY <3>1 DEF EventsOf, Event
  <2>3. cell'[e] = batch[k].id
    BY <1>1, <1>3, <2>1
  <2>4. QED
    BY <1>2, <2>2, <2>3 DEF Rising, Newer
<1>4. CASE e \notin Affected(batch)
  BY <1>1, <1>2, <1>4
<1>5. QED
  BY <1>3, <1>4

LEMMA IdStep ==
    ASSUME TypeOK, IdInv, [Next]_vars
    PROVE  /\ IdInv'
           /\ \A e \in Engines : cell'[e] >= cell[e] \/ cell[e] \in direct
<1>1. /\ lastId \in Nat
      /\ \A e \in Engines : cell[e] \in Nat /\ cell[e] <= lastId
      /\ cell \in [Engines -> 0 .. MaxEvents]
  BY DEF TypeOK, IdInv, CellsKnown
<1>2. ASSUME NEW batch \in Seq(Event), Flush(batch), Rising(batch, lastId'), Newer(batch),
             lastId' \in Nat, lastId <= lastId'
      PROVE  /\ IdInv'
             /\ \A e \in Engines : cell'[e] >= cell[e] \/ cell[e] \in direct
  <2>1. \A e \in Engines : /\ cell'[e] >= cell[e] \/ cell[e] \in direct
                           /\ cell'[e] <= lastId'
    BY <1>2, FlushIsNewer DEF IdInv
  <2>2. queue' = <<>>
    BY <1>2 DEF Flush
  <2>3. Rising(queue, lastId)' /\ Newer(queue)'
    BY <2>2 DEF Rising, Newer
  <2>4. QED
    BY <2>1, <2>3 DEF IdInv, CellsKnown
<1>3. CASE UNCHANGED <<cell, queue, timer, lastId, latest, applied, direct>>
  <2>1. IdInv'
    BY <1>3 DEF IdInv, Rising, Newer, CellsKnown
  <2>2. QED
    BY <1>1, <1>3, <2>1
<1>4. ASSUME NEW d \in Engines, Dispatch(d)
      PROVE  /\ IdInv'
             /\ \A e \in Engines : cell'[e] >= cell[e] \/ cell[e] \in direct
  <2>1. /\ cell' = [cell EXCEPT ![d] = lastId + 1] /\ lastId' = lastId + 1
        /\ direct' = direct \cup {lastId + 1} /\ queue' = queue
    BY <1>4 DEF Dispatch
  <2>2. \A e \in Engines : cell'[e] = IF e = d THEN lastId + 1 ELSE cell[e]
    BY <1>1, <2>1
  <2>3. ASSUME NEW e \in Engines PROVE cell'[e] >= cell[e] /\ cell'[e] <= lastId'
    BY <1>1, <2>1, <2>2
  <2>4. \A i \in DOMAIN queue : queue[i] \in Event
    BY DEF TypeOK
  <2>5. \A i \in DOMAIN queue : queue[i].engine \in Engines /\ queue[i].id \in Nat
    BY <2>4 DEF Event
  <2>6. Rising(queue, lastId)'
    BY <1>1, <2>1, <2>5 DEF IdInv, Rising
  <2>7. Newer(queue)'
    BY <2>1, <2>2, <2>5 DEF IdInv, Newer
  <2>8. QED
    BY <2>3, <2>6, <2>7 DEF IdInv, CellsKnown
<1>5. ASSUME NEW d \in Engines, NEW t \in Types, EnqueueEvent(d, t)
      PROVE  /\ IdInv'
             /\ \A e \in Engines : cell'[e] >= cell[e] \/ cell[e] \in direct
  <2>1. PICK full \in Seq(Event) :
          /\ full = Append(queue, [engine |-> d, type |-> t, id |-> lastId + 1])
          /\ lastId' = lastId + 1 /\ direct' = direct
          /\ \/ Flush(full)
             \/ queue' = full /\ UNCHANGED <<cell, applied>>
    BY <1>5, EnqueueCases
  <2>2. Rising(full, lastId + 1) /\ Newer(full)
    BY <1>5, <2>1, EnqueuedIsNewest DEF EnqueueEvent
  <2>3. CASE Flush(full)
    <3>1. lastId' \in Nat /\ lastId <= lastId' /\ Rising(full, lastId')
      BY <1>1, <2>1, <2>2
    <3>2. QED
      BY <1>2, <2>2, <2>3, <3>1
  <2>4. CASE queue' = full /\ UNCHANGED <<cell, applied>>
    <3>1. Rising(queue, lastId)' /\ Newer(queue)'
      BY <2>1, <2>2, <2>4 DEF Rising, Newer
    <3>2. CellsKnown'
      BY <1>1, <2>1, <2>4 DEF CellsKnown
    <3>3. QED
      BY <1>1, <2>4, <3>1, <3>2 DEF IdInv
  <2>5. QED
    BY <2>1, <2>3, <2>4
<1>6. CASE BatchTimeout
  <2>1. Flush(queue) /\ queue \in Seq(Event) /\ lastId' = lastId
    BY <1>6 DEF BatchTimeout, TypeOK
  <2>2. QED
    BY <1>1, <1>2, <2>1 DEF IdInv
<1>7. QED
  BY <1>3, <1>4, <1>5, <1>6, StepKinds

LEMMA IdInit == Init => IdInv
<1> SUFFICES ASSUME Init PROVE IdInv
  OBVIOUS
<1>1. queue = <<>> /\ lastId = 0 /\ \A e \in Engines : cell[e] = 0
  BY DEF Init
<1>2. QED
  BY <1>1 DEF IdInv, Rising, Newer, CellsKnown

\* The order of the queue, for any number of engines, types and listeners.
THEOREM QueueIsInOrder == Spec => []IdInv
<1>1. TypeOK /\ IdInv /\ [Next]_vars => IdInv'
  BY IdStep
<1>2. QED
  BY <1>1, IdInit, TypeCorrect, PTL DEF Spec

\* A batch never takes an engine back to an older event, unless a dispatch overtook
\* it: for any number of event types, although a batch may drop the newer one.
THEOREM NeverTakenBack == Spec => NeverOlder
<1>1. TypeOK /\ IdInv /\ [Next]_vars
        => [\A e \in Engines : cell'[e] >= cell[e] \/ cell[e] \in direct]_vars
  BY IdStep
<1>2. QED
  BY <1>1, QueueIsInOrder, TypeCorrect, PTL DEF Spec, NeverOlder

-----------------------------------------------------------------------------
(* No newest event is dropped, when the events of an engine have one type. *)

Pair(event) == <<event.engine, event.type>>

\* The last event of a pair, in a table of them, was applied or is in the batch.
Held(batch, table) ==
    \A p \in Engines \X Types :
        \/ table[p] = 0
        \/ table[p] \in applied
        \/ \E i \in DOMAIN batch : batch[i].id = table[p] /\ Pair(batch[i]) = p

\* None in the batch is newer than the last of its pair.
NoneNewer(batch, table) ==
    \A i \in DOMAIN batch : batch[i].id <= table[Pair(batch[i])]

LatestInv == Held(queue, latest) /\ NoneNewer(queue, latest)

\* A flush applies the last event of each pair that was in the batch.
LEMMA FlushAppliesLatest ==
    ASSUME OneType, NEW batch \in Seq(Event), Flush(batch), NEW last, Rising(batch, last),
           NEW table, Held(batch, table), NoneNewer(batch, table),
           NEW p \in Engines \X Types, table[p] # 0, table[p] \in Nat
    PROVE  table[p] \in applied'
<1>1. applied' = applied \cup {Chosen(batch, e) : e \in Affected(batch)}
  BY DEF Flush, ProcessBatch
<1>2. CASE table[p] \in applied
  BY <1>1, <1>2
<1>3. CASE table[p] \notin applied
  <2>1. PICK i \in DOMAIN batch : batch[i].id = table[p] /\ Pair(batch[i]) = p
    BY <1>3 DEF Held
  <2> DEFINE e == batch[i].engine
  <2>2. \A j \in DOMAIN batch : batch[j] \in Event /\ j \in Nat
    OBVIOUS
  <2>3. e \in Affected(batch) /\ i \in EventsOf(batch, e)
    BY <2>1 DEF Affected, EventsOf, Range
  <2>4. PICK k \in EventsOf(batch, e) :
          Chosen(batch, e) = batch[k].id /\ \A j \in EventsOf(batch, e) : j <= k
    BY <2>3, ChosenFacts
  <2>5. k \in DOMAIN batch /\ batch[k].engine = e /\ i <= k
    BY <2>3, <2>4 DEF EventsOf
  <2>6. batch[k].type = batch[i].type
    BY <2>1, <2>2, <2>5 DEF OneType, Event
  <2>7. Pair(batch[k]) = p
    BY <2>1, <2>5, <2>6 DEF Pair
  <2>8. batch[k].id <= table[p] /\ batch[k].id \in Nat
    BY <2>2, <2>5, <2>7 DEF NoneNewer, Event
  <2>9. i = k \/ batch[i].id < batch[k].id
    BY <2>2, <2>5 DEF Rising
  <2>10. batch[k].id = table[p]
    BY <2>1, <2>8, <2>9
  <2>11. QED
    BY <1>1, <2>3, <2>4, <2>10
<1>4. QED
  BY <1>2, <1>3

\* The event that is enqueued is the last of its pair.
LEMMA EnqueuedIsLatest ==
    ASSUME TypeOK, IdInv, LatestInv,
           NEW e \in Engines, NEW t \in Types, lastId < MaxEvents,
           NEW full, full = Append(queue, [engine |-> e, type |-> t, id |-> lastId + 1]),
           NEW table, table = [latest EXCEPT ![<<e, t>>] = lastId + 1]
    PROVE  Held(full, table) /\ NoneNewer(full, table)
<1> DEFINE n == Len(queue)
           event == [engine |-> e, type |-> t, id |-> lastId + 1]
<1>1. /\ n \in Nat /\ DOMAIN queue = 1 .. n /\ DOMAIN full = 1 .. n + 1
      /\ \A i \in 1 .. n : full[i] = queue[i]
      /\ full[n + 1] = event
  BY EnqueueFacts
<1>2. event.id = lastId + 1 /\ Pair(event) = <<e, t>>
  BY DEF Pair
<1>3. \A p \in Engines \X Types :
         table[p] = IF p = <<e, t>> THEN lastId + 1 ELSE latest[p]
  BY DEF TypeOK
<1>4. lastId \in Nat
  BY DEF TypeOK
<1>5. \A i \in 1 .. n : queue[i] \in Event
  BY <1>1 DEF TypeOK
<1>6. \A i \in 1 .. n : /\ queue[i].id \in Nat /\ queue[i].id <= lastId
                        /\ Pair(queue[i]) \in Engines \X Types
  BY <1>1, <1>5 DEF IdInv, Rising, Event, Pair
<1> HIDE DEF event, n
<1>7. ASSUME NEW p \in Engines \X Types
      PROVE  \/ table[p] = 0
             \/ table[p] \in applied
             \/ \E i \in DOMAIN full : full[i].id = table[p] /\ Pair(full[i]) = p
  <2>1. CASE p = <<e, t>>
    <3>1. table[p] = lastId + 1
      BY <1>3, <2>1
    <3>2. n + 1 \in DOMAIN full /\ full[n + 1].id = lastId + 1 /\ Pair(full[n + 1]) = p
      BY <1>1, <1>2, <2>1
    <3>3. QED
      BY <3>1, <3>2
  <2>2. CASE p # <<e, t>>
    <3>1. \A i \in 1 .. n : i \in DOMAIN full
      BY <1>1
    <3>2. QED
      BY <1>1, <1>3, <2>2, <3>1 DEF LatestInv, Held
  <2>3. QED
    BY <2>1, <2>2
<1>8. ASSUME NEW i \in DOMAIN full
      PROVE  full[i].id <= table[Pair(full[i])]
  <2>1. CASE i \in 1 .. n
    <3>1. full[i] = queue[i] /\ queue[i].id <= latest[Pair(queue[i])]
      BY <1>1, <2>1 DEF LatestInv, NoneNewer
    <3>2. QED
      BY <1>3, <1>4, <1>6, <2>1, <3>1
  <2>2. CASE i = n + 1
    BY <1>1, <1>2, <1>3, <1>4, <2>2
  <2>3. i \in 1 .. n \/ i = n + 1
    BY <1>1
  <2>4. QED
    BY <2>1, <2>2, <2>3
<1>9. QED
  BY <1>7, <1>8 DEF Held, NoneNewer

LEMMA LatestStep ==
    ASSUME OneType, TypeOK, IdInv, LatestInv, [Next]_vars
    PROVE  LatestInv'
<1>1. \A p \in Engines \X Types : latest[p] \in Nat
  BY DEF TypeOK
<1>2. ASSUME NEW batch \in Seq(Event), Flush(batch), NEW last, Rising(batch, last),
             Held(batch, latest'), NoneNewer(batch, latest'),
             \A p \in Engines \X Types : latest'[p] \in Nat
      PROVE  LatestInv'
  <2>1. \A p \in Engines \X Types : latest'[p] = 0 \/ latest'[p] \in applied'
    BY <1>2, FlushAppliesLatest
  <2>2. queue' = <<>>
    BY <1>2 DEF Flush
  <2>3. Held(queue, latest)'
    BY <2>1 DEF Held
  <2>4. NoneNewer(queue, latest)'
    BY <2>2 DEF NoneNewer
  <2>5. QED
    BY <2>3, <2>4 DEF LatestInv
<1>3. CASE UNCHANGED <<cell, queue, timer, lastId, latest, applied, direct>>
  BY <1>3 DEF LatestInv, Held, NoneNewer
<1>4. ASSUME NEW d \in Engines, Dispatch(d) PROVE LatestInv'
  <2>1. queue' = queue /\ latest' = latest /\ applied \subseteq applied'
    BY <1>4 DEF Dispatch
  <2>2. Held(queue, latest)'
    BY <2>1 DEF LatestInv, Held
  <2>3. NoneNewer(queue, latest)'
    BY <2>1 DEF LatestInv, NoneNewer
  <2>4. QED
    BY <2>2, <2>3 DEF LatestInv
<1>5. ASSUME NEW d \in Engines, NEW t \in Types, EnqueueEvent(d, t) PROVE LatestInv'
  <2>1. PICK full \in Seq(Event) :
          /\ full = Append(queue, [engine |-> d, type |-> t, id |-> lastId + 1])
          /\ latest' = [latest EXCEPT ![<<d, t>>] = lastId + 1]
          /\ \/ Flush(full)
             \/ queue' = full /\ UNCHANGED <<cell, applied>>
    BY <1>5, EnqueueCases
  <2>2. lastId < MaxEvents /\ lastId \in Nat
    BY <1>5 DEF EnqueueEvent, TypeOK
  <2>3. Rising(full, lastId + 1) /\ Held(full, latest') /\ NoneNewer(full, latest')
    BY <2>1, <2>2, EnqueuedIsNewest, EnqueuedIsLatest
  <2>4. \A p \in Engines \X Types : latest'[p] \in Nat
    BY <2>1, <2>2 DEF TypeOK
  <2>5. CASE Flush(full)
    BY <1>2, <2>3, <2>4, <2>5
  <2>6. CASE queue' = full /\ UNCHANGED <<cell, applied>>
    BY <2>3, <2>6 DEF LatestInv, Held, NoneNewer
  <2>7. QED
    BY <2>1, <2>5, <2>6
<1>6. CASE BatchTimeout
  <2>1. Flush(queue) /\ queue \in Seq(Event) /\ latest' = latest
    BY <1>6 DEF BatchTimeout, TypeOK
  <2>2. QED
    BY <1>1, <1>2, <2>1 DEF IdInv, LatestInv
<1>7. QED
  BY <1>3, <1>4, <1>5, <1>6, StepKinds

\* Batching drops only events that a later one of their pair replaces, as long as
\* the events have one type; with two, the run store_dropped shows that it does not.
THEOREM NoneDroppedOfOneType ==
    ASSUME OneType
    PROVE  Spec => []LatestIsApplied
<1>1. Init => LatestInv
  <2> SUFFICES ASSUME Init PROVE LatestInv
    OBVIOUS
  <2>1. queue = <<>> /\ \A p \in Engines \X Types : latest[p] = 0
    BY DEF Init
  <2>2. QED
    BY <2>1 DEF LatestInv, Held, NoneNewer
<1>2. TypeOK /\ IdInv /\ LatestInv /\ [Next]_vars => LatestInv'
  BY LatestStep
<1>3. LatestInv => LatestIsApplied
  <2> SUFFICES ASSUME LatestInv PROVE LatestIsApplied
    OBVIOUS
  <2>1. ASSUME NEW p \in Engines \X Types
        PROVE  latest[p] = 0 \/ latest[p] \in applied
                             \/ \E v \in Range(queue) : v.id = latest[p]
    BY DEF LatestInv, Held, Range
  <2>2. QED
    BY <2>1 DEF LatestIsApplied
<1>4. QED
  BY <1>1, <1>2, <1>3, QueueIsInOrder, TypeCorrect, PTL DEF Spec

-----------------------------------------------------------------------------
(* DependencyGraph *)


LEMMA CountToN ==
    ASSUME NEW n \in Nat
    PROVE  IsFiniteSet(1 .. n) /\ Cardinality(1 .. n) = n
BY FS_Interval

LEMMA EnginesFinite ==
    ASSUME NEW S \in SUBSET Nodes
    PROVE  IsFiniteSet(S) /\ Cardinality(S) \in Nat
BY DependencyGraphAssumption, FS_Subset, FS_CardinalityType

\* The two orders list every engine once: an engine is not before itself.
LEMMA OrderIsInjective ==
    ASSUME NEW order \in {EntryOrder, NameOrder},
           NEW m \in DOMAIN order, NEW n \in DOMAIN order, order[m] = order[n]
    PROVE  m = n
<1> DEFINE N == Cardinality(Nodes)
<1>1. N \in Nat
  BY EnginesFinite
<1>2. /\ order \in [1 .. N -> Nodes]
      /\ {order[i] : i \in DOMAIN order} = Nodes
  BY DependencyGraphAssumption
<1>3. IsFiniteSet(1 .. N) /\ Cardinality(1 .. N) = N
  BY <1>1, CountToN
<1> HIDE DEF N
<1>4. order \in Surjection(1 .. N, Nodes)
  BY <1>2 DEF Surjection
<1>5. order \in Injection(1 .. N, Nodes)
  BY <1>3, <1>4, FS_Surjection DEF N
<1>6. QED
  BY <1>2, <1>5 DEF Injection, IsInjective

\* What sorting a set of engines gives: a sequence of all of them, each once.
LEMMA OrderedFacts ==
    ASSUME NEW S \in SUBSET Nodes, NEW order \in {EntryOrder, NameOrder},
           NEW q \in Ordered(S, order)
    PROVE  /\ q \in Seq(S)
           /\ Len(q) = Cardinality(S)
           /\ \A i, j \in DOMAIN q : q[i] = q[j] => i = j
           /\ {q[i] : i \in DOMAIN q} = S
<1> DEFINE N == Cardinality(S)
<1>1. N \in Nat /\ IsFiniteSet(S)
  BY EnginesFinite
<1>2. /\ q \in [1 .. N -> S]
      /\ \A i, j \in 1 .. N : i < j => Before(q[i], q[j], order)
  BY DEF Ordered
<1>3. IsFiniteSet(1 .. N) /\ Cardinality(1 .. N) = N
  BY <1>1, CountToN
<1>4. ASSUME NEW e PROVE ~Before(e, e, order)
  <2>1. DOMAIN order \subseteq Nat
    <3>1. order \in [1 .. Cardinality(Nodes) -> Nodes] /\ Cardinality(Nodes) \in Nat
      BY DependencyGraphAssumption, EnginesFinite
    <3>2. QED
      BY <3>1
  <2>2. QED
    BY <2>1, OrderIsInjective DEF Before
<1>5. ASSUME NEW i \in 1 .. N, NEW j \in 1 .. N, q[i] = q[j] PROVE i = j
  <2>1. ~(i < j) /\ ~(j < i)
    BY <1>2, <1>4, <1>5
  <2>2. i \in Nat /\ j \in Nat
    BY <1>1
  <2>3. QED
    BY <2>1, <2>2
<1>6. q \in Injection(1 .. N, S)
  BY <1>2, <1>5 DEF Injection, IsInjective
<1>7. q \in Surjection(1 .. N, S)
  BY <1>1, <1>3, <1>6, FS_Injection
<1>8. q \in Seq(S) /\ Len(q) = N /\ DOMAIN q = 1 .. N
  BY <1>1, <1>2
<1>9. {q[i] : i \in DOMAIN q} = S
  BY <1>2, <1>7, <1>8 DEF Surjection
<1>10. QED
  BY <1>5, <1>8, <1>9

-----------------------------------------------------------------------------
(* The invariant. *)

Queued == {sortQueue[i] : i \in DOMAIN sortQueue}

NoRepeat == \A i, j \in DOMAIN sortQueue : sortQueue[i] = sortQueue[j] => i = j

CountsWaiting ==
    \A e \in Nodes : inDegree[e] = Cardinality(deps[e] \ Emitted)

ZeroIsReached ==
    \A e \in Nodes : inDegree[e] = 0 <=> e \in Queued \cup Emitted

\* Acyclic, for the engines in the result: the first of S that came there has all
\* its dependencies outside S.
EmittedIsAcyclic ==
    \A S \in SUBSET Nodes :
        S \cap Emitted # {} => \E e \in S \cap Emitted : deps[e] \cap S = {}

SortInv ==
    /\ SortTypeOK
    /\ NoRepeat
    /\ Queued \cap Emitted = {}
    /\ CountsWaiting
    /\ ZeroIsReached
    /\ DependenciesFirst
    /\ EmittedIsAcyclic

LEMMA SortInvInit == SortInit => SortInv
<1> SUFFICES ASSUME SortInit PROVE SortInv
  OBVIOUS
<1> DEFINE Free == {e \in Nodes : deps[e] = {}}
<1>1. /\ sortQueue \in Seq(Free) /\ NoRepeat /\ Queued = Free
  BY OrderedFacts DEF SortInit, NoRepeat, Queued
<1>2. deps \in [Nodes -> SUBSET Nodes] /\ result = <<>> /\ Emitted = {}
  BY DEF SortInit, Emitted
<1>3. ASSUME NEW e \in Nodes
      PROVE  /\ inDegree[e] = Cardinality(deps[e] \ Emitted)
             /\ inDegree[e] \in Nat
             /\ inDegree[e] = 0 <=> e \in Free
  <2>1. deps[e] \in SUBSET Nodes /\ IsFiniteSet(deps[e]) /\ Cardinality(deps[e]) \in Nat
    BY <1>2, EnginesFinite
  <2>2. inDegree[e] = Cardinality(deps[e]) /\ deps[e] \ Emitted = deps[e]
    BY <1>2 DEF SortInit
  <2>3. QED
    BY <2>1, <2>2, FS_EmptySet
<1>4. inDegree = [e \in Nodes |-> inDegree[e]]
  BY DEF SortInit
<1>5. inDegree \in [Nodes -> Nat]
  BY <1>3, <1>4
<1>6. sortQueue \in Seq(Nodes)
  BY <1>1
<1>7. SortTypeOK
  BY <1>2, <1>5, <1>6 DEF SortTypeOK
<1>8. CountsWaiting /\ ZeroIsReached
  BY <1>1, <1>2, <1>3 DEF CountsWaiting, ZeroIsReached
<1>9. DependenciesFirst
  BY <1>2 DEF DependenciesFirst
<1>10. EmittedIsAcyclic
  BY <1>2 DEF EmittedIsAcyclic
<1>11. QED
  BY <1>1, <1>2, <1>7, <1>8, <1>9, <1>10 DEF SortInv

\* What one turn of the loop reads and writes.
LEMMA VisitFacts ==
    ASSUME SortInv, Visit
    PROVE  LET current == Head(sortQueue)
               Freed == {e \in DependentsOf(current) : inDegree'[e] = 0}
           IN  /\ current \in Nodes /\ current \in Queued /\ current \notin Emitted
               /\ deps[current] \subseteq Emitted
               /\ result' = Append(result, current)
               /\ Emitted' = Emitted \cup {current}
               /\ deps' = deps
               /\ \E freed \in Seq(Nodes) :
                     /\ sortQueue' = Tail(sortQueue) \o freed
                     /\ {freed[i] : i \in DOMAIN freed} = Freed
                     /\ \A i, j \in DOMAIN freed : freed[i] = freed[j] => i = j
<1> DEFINE current == Head(sortQueue)
           Freed == {e \in DependentsOf(current) : inDegree'[e] = 0}
<1>1. sortQueue \in Seq(Nodes) /\ sortQueue # <<>> /\ result \in Seq(Nodes)
  BY DEF SortInv, SortTypeOK, Visit
<1>2. 1 \in DOMAIN sortQueue /\ current = sortQueue[1]
  BY <1>1
<1>3. current \in Nodes /\ current \in Queued
  BY <1>1, <1>2 DEF Queued
<1>4. current \notin Emitted
  BY <1>3 DEF SortInv
<1>5. deps[current] \subseteq Emitted
  <2>1. Cardinality(deps[current] \ Emitted) = 0
    BY <1>3 DEF SortInv, CountsWaiting, ZeroIsReached
  <2>2. deps[current] \ Emitted \in SUBSET Nodes
    BY <1>3 DEF SortInv, SortTypeOK
  <2>3. QED
    BY <2>1, <2>2, EnginesFinite, FS_EmptySet
<1>6. result' = Append(result, current) /\ deps' = deps
  BY DEF Visit
<1>7. Emitted' = Emitted \cup {current}
  <2>1. /\ DOMAIN result' = DOMAIN result \cup {Len(result) + 1}
        /\ \A i \in DOMAIN result : result'[i] = result[i]
        /\ result'[Len(result) + 1] = current
    BY <1>1, <1>3, <1>6
  <2>2. QED
    BY <2>1 DEF Emitted
<1>8. PICK freed \in Ordered(Freed, EntryOrder) : sortQueue' = Tail(sortQueue) \o freed
  BY DEF Visit
<1>9. Freed \in SUBSET Nodes
  BY DEF DependentsOf
<1> HIDE DEF Freed
<1>10. /\ freed \in Seq(Nodes)
       /\ {freed[i] : i \in DOMAIN freed} = Freed
       /\ \A i, j \in DOMAIN freed : freed[i] = freed[j] => i = j
  BY <1>8, <1>9, OrderedFacts
<1>11. QED
  BY <1>3, <1>4, <1>5, <1>6, <1>7, <1>8, <1>10 DEF Freed

\* The in-degrees go on counting what is not in the result.
LEMMA CountsStep ==
    ASSUME SortInv, Visit, NEW e \in Nodes
    PROVE  /\ inDegree'[e] = Cardinality(deps'[e] \ Emitted')
           /\ inDegree'[e] \in Nat
           /\ inDegree'[e] = 0 <=>
                 \/ inDegree[e] = 0
                 \/ e \in DependentsOf(Head(sortQueue)) /\ inDegree'[e] = 0
<1> DEFINE current == Head(sortQueue)
           W == deps[e] \ Emitted
<1>1. /\ current \in Nodes /\ current \notin Emitted
      /\ Emitted' = Emitted \cup {current} /\ deps' = deps
  BY VisitFacts
<1>2. W \in SUBSET Nodes /\ deps'[e] \ Emitted' = W \ {current}
  BY <1>1 DEF SortInv, SortTypeOK
<1>3. /\ IsFiniteSet(W) /\ Cardinality(W) \in Nat
      /\ Cardinality(W \ {current}) \in Nat
      /\ Cardinality(W \ {current}) = IF current \in W THEN Cardinality(W) - 1
                                                      ELSE Cardinality(W)
  BY <1>2, EnginesFinite, FS_RemoveElement
<1>4. inDegree[e] = Cardinality(W)
  BY DEF SortInv, CountsWaiting
<1>5. e \in DependentsOf(current) <=> current \in W
  BY <1>1 DEF DependentsOf
<1>6. inDegree'[e] = IF e \in DependentsOf(current) THEN inDegree[e] - 1 ELSE inDegree[e]
  BY DEF Visit
<1>7. current \in W => Cardinality(W) # 0
  BY <1>3, FS_EmptySet
<1> HIDE DEF current, W
<1>8. inDegree'[e] = Cardinality(W \ {current})
  BY <1>3, <1>4, <1>5, <1>6
<1>9. QED
  BY <1>2, <1>3, <1>4, <1>5, <1>6, <1>7, <1>8 DEF current, W

LEMMA SortInvStep == SortInv /\ [Visit]_sortVars => SortInv'
<1>1. ASSUME SortInv, Visit PROVE SortInv'
  <2> DEFINE current == Head(sortQueue)
             Freed == {e \in DependentsOf(current) : inDegree'[e] = 0}
  <2>1. /\ current \in Nodes /\ current \in Queued /\ current \notin Emitted
        /\ deps[current] \subseteq Emitted
        /\ result' = Append(result, current)
        /\ Emitted' = Emitted \cup {current}
        /\ deps' = deps
    BY <1>1, VisitFacts
  <2>2. PICK freed \in Seq(Nodes) :
           /\ sortQueue' = Tail(sortQueue) \o freed
           /\ {freed[i] : i \in DOMAIN freed} = Freed
           /\ \A i, j \in DOMAIN freed : freed[i] = freed[j] => i = j
    BY <1>1, VisitFacts
  <2>3. ASSUME NEW e \in Nodes
        PROVE  /\ inDegree'[e] = Cardinality(deps'[e] \ Emitted')
               /\ inDegree'[e] \in Nat
               /\ inDegree'[e] = 0 <=> inDegree[e] = 0 \/ e \in Freed
    BY <1>1, CountsStep
  <2>4. Freed \subseteq Nodes /\ Freed \cap (Queued \cup Emitted) = {}
    <3>1. ASSUME NEW e \in Freed PROVE e \in Nodes /\ inDegree[e] # 0
      <4>1. e \in Nodes /\ inDegree'[e] = 0 /\ inDegree'[e] = inDegree[e] - 1
        BY <1>1 DEF DependentsOf, Visit
      <4>2. QED
        BY <4>1
    <3>2. QED
      BY <1>1, <3>1 DEF SortInv, ZeroIsReached
  <2> HIDE DEF Freed, current
  <2>5. /\ sortQueue \in Seq(Nodes) /\ sortQueue # <<>> /\ result \in Seq(Nodes)
        /\ deps \in [Nodes -> SUBSET Nodes] /\ inDegree \in [Nodes -> Nat]
        /\ \A i, j \in DOMAIN sortQueue : sortQueue[i] = sortQueue[j] => i = j
    BY <1>1 DEF SortInv, SortTypeOK, Visit, NoRepeat
  <2>6. /\ Tail(sortQueue) \in Seq(Nodes) /\ DOMAIN Tail(sortQueue) = 1 .. Len(sortQueue) - 1
        /\ \A i \in 1 .. Len(sortQueue) - 1 : Tail(sortQueue)[i] = sortQueue[i + 1]
        /\ current = sortQueue[1] /\ DOMAIN sortQueue = 1 .. Len(sortQueue) /\ Len(sortQueue) \in Nat
        /\ Len(Tail(sortQueue)) = Len(sortQueue) - 1
    BY <2>5 DEF current
  <2>7. \A i, j \in DOMAIN Tail(sortQueue) : Tail(sortQueue)[i] = Tail(sortQueue)[j] => i = j
    <3>1. SUFFICES ASSUME NEW i \in DOMAIN Tail(sortQueue), NEW j \in DOMAIN Tail(sortQueue),
                          Tail(sortQueue)[i] = Tail(sortQueue)[j]
                   PROVE  i = j
      OBVIOUS
    <3>2. i \in Nat /\ j \in Nat /\ i + 1 \in DOMAIN sortQueue /\ j + 1 \in DOMAIN sortQueue
      BY <2>6
    <3>3. sortQueue[i + 1] = sortQueue[j + 1]
      BY <2>6, <3>1
    <3>4. i + 1 = j + 1
      BY <2>5, <3>2, <3>3
    <3>5. QED
      BY <3>2, <3>4
  <2>8. {Tail(sortQueue)[i] : i \in DOMAIN Tail(sortQueue)} = Queued \ {current}
    <3>1. ASSUME NEW i \in DOMAIN Tail(sortQueue)
          PROVE  Tail(sortQueue)[i] \in Queued \ {current}
      <4>1. i + 1 \in DOMAIN sortQueue /\ 1 \in DOMAIN sortQueue /\ i + 1 # 1
        BY <2>6
      <4>2. Tail(sortQueue)[i] = sortQueue[i + 1] /\ sortQueue[i + 1] # current
        BY <2>5, <2>6, <4>1
      <4>3. QED
        BY <4>1, <4>2 DEF Queued
    <3>2. ASSUME NEW e \in Queued \ {current}
          PROVE  \E i \in DOMAIN Tail(sortQueue) : e = Tail(sortQueue)[i]
      <4>1. PICK k \in 1 .. Len(sortQueue) : e = sortQueue[k] /\ k # 1
        BY <2>6, <3>2 DEF Queued
      <4>2. k - 1 \in 1 .. Len(sortQueue) - 1 /\ (k - 1) + 1 = k
        BY <2>6, <4>1
      <4>3. QED
        BY <2>6, <4>1, <4>2
    <3>3. QED
      BY <3>1, <3>2
  <2> DEFINE T == Tail(sortQueue)
  <2> HIDE DEF T
  <2>9. /\ sortQueue' \in Seq(Nodes)
        /\ DOMAIN sortQueue' = 1 .. Len(T) + Len(freed)
        /\ \A i \in 1 .. Len(T) + Len(freed) :
              sortQueue'[i] = IF i <= Len(T) THEN T[i] ELSE freed[i - Len(T)]
        /\ T \in Seq(Nodes) /\ DOMAIN T = 1 .. Len(T) /\ Len(T) \in Nat
        /\ DOMAIN freed = 1 .. Len(freed) /\ Len(freed) \in Nat
    BY <2>2, <2>6 DEF T
  <2>10. Queued' = (Queued \ {current}) \cup Freed
    <3>1. ASSUME NEW i \in DOMAIN sortQueue' PROVE sortQueue'[i] \in (Queued \ {current}) \cup Freed
      <4>1. CASE i <= Len(T)
        BY <2>8, <2>9, <4>1 DEF T
      <4>2. CASE ~(i <= Len(T))
        <5>1. i - Len(T) \in DOMAIN freed /\ sortQueue'[i] = freed[i - Len(T)]
          BY <2>9, <4>2
        <5>2. QED
          BY <2>2, <5>1
      <4>3. QED
        BY <4>1, <4>2
    <3>2. ASSUME NEW e \in Queued \ {current} PROVE \E i \in DOMAIN sortQueue' : e = sortQueue'[i]
      <4>1. PICK i \in DOMAIN T : e = T[i]
        BY <2>8, <3>2 DEF T
      <4>2. QED
        BY <2>9, <4>1
    <3>3. ASSUME NEW e \in Freed PROVE \E i \in DOMAIN sortQueue' : e = sortQueue'[i]
      <4>1. PICK i \in DOMAIN freed : e = freed[i]
        BY <2>2, <3>3
      <4>2. i + Len(T) \in DOMAIN sortQueue' /\ sortQueue'[i + Len(T)] = freed[i]
        BY <2>9
      <4>3. QED
        BY <4>1, <4>2
    <3>4. QED
      BY <3>1, <3>2, <3>3 DEF Queued
  <2>11. NoRepeat'
    <3>1. ASSUME NEW i \in DOMAIN sortQueue', NEW j \in DOMAIN sortQueue', sortQueue'[i] = sortQueue'[j]
          PROVE  i = j
      <4>1. \A a \in DOMAIN T, b \in DOMAIN freed : T[a] # freed[b]
        BY <2>2, <2>4, <2>8 DEF T
      <4>2. CASE i <= Len(T) /\ j <= Len(T)
        <5>1. i \in DOMAIN T /\ j \in DOMAIN T /\ T[i] = T[j]
          BY <2>9, <3>1, <4>2
        <5>2. QED
          BY <2>7, <5>1 DEF T
      <4>3. CASE ~(i <= Len(T)) /\ ~(j <= Len(T))
        <5>1. /\ i - Len(T) \in DOMAIN freed /\ j - Len(T) \in DOMAIN freed
              /\ freed[i - Len(T)] = freed[j - Len(T)]
          BY <2>9, <3>1, <4>3
        <5>2. i - Len(T) = j - Len(T)
          BY <2>2, <5>1
        <5>3. QED
          BY <2>9, <5>2
      <4>4. CASE i <= Len(T) /\ ~(j <= Len(T))
        <5>1. i \in DOMAIN T /\ j - Len(T) \in DOMAIN freed /\ T[i] = freed[j - Len(T)]
          BY <2>9, <3>1, <4>4
        <5>2. QED
          BY <4>1, <5>1
      <4>5. CASE ~(i <= Len(T)) /\ j <= Len(T)
        <5>1. j \in DOMAIN T /\ i - Len(T) \in DOMAIN freed /\ T[j] = freed[i - Len(T)]
          BY <2>9, <3>1, <4>5
        <5>2. QED
          BY <4>1, <5>1
      <4>6. QED
        BY <4>2, <4>3, <4>4, <4>5
    <3>2. QED
      BY <3>1 DEF NoRepeat
  <2>12. SortTypeOK'
    <3>1. inDegree' = [e \in Nodes |-> inDegree'[e]]
      BY <1>1 DEF Visit
    <3>2. inDegree' \in [Nodes -> Nat]
      BY <2>3, <3>1
    <3>3. result' \in Seq(Nodes)
      BY <2>1, <2>5
    <3>4. QED
      BY <2>1, <2>5, <2>9, <3>2, <3>3 DEF SortTypeOK
  <2>13. Queued' \cap Emitted' = {}
    BY <1>1, <2>1, <2>4, <2>10 DEF SortInv
  <2>14. CountsWaiting'
    BY <2>3 DEF CountsWaiting
  <2>15. ZeroIsReached'
    BY <1>1, <2>1, <2>3, <2>10 DEF ZeroIsReached, SortInv
  <2>16. DependenciesFirst'
    <3>1. /\ DOMAIN result = 1 .. Len(result) /\ Len(result) \in Nat
          /\ DOMAIN result' = 1 .. Len(result) + 1
          /\ \A i \in 1 .. Len(result) : result'[i] = result[i]
          /\ result'[Len(result) + 1] = current
      BY <2>1, <2>5
    <3>2. ASSUME NEW i \in DOMAIN result'
          PROVE  /\ deps'[result'[i]] \subseteq {result'[j] : j \in 1 .. (i - 1)}
                 /\ \A j \in 1 .. (i - 1) : result'[j] # result'[i]
      <4>1. CASE i = Len(result) + 1
        <5>1. \A j \in 1 .. (i - 1) : j \in DOMAIN result /\ result'[j] = result[j]
          BY <3>1, <4>1
        <5>2. i - 1 = Len(result)
          BY <3>1, <4>1
        <5>3. Emitted = {result'[j] : j \in 1 .. (i - 1)}
          BY <3>1, <5>1, <5>2 DEF Emitted
        <5>4. \A j \in 1 .. (i - 1) : result'[j] # current
          BY <2>1, <5>3
        <5>5. QED
          BY <2>1, <3>1, <4>1, <5>3, <5>4
      <4>2. CASE i # Len(result) + 1
        <5>1. i \in DOMAIN result
          BY <3>1, <4>2
        <5>2. /\ deps[result[i]] \subseteq {result[j] : j \in 1 .. (i - 1)}
              /\ \A j \in 1 .. (i - 1) : result[j] # result[i]
          BY <1>1, <5>1 DEF SortInv, DependenciesFirst
        <5>3. \A j \in 1 .. (i - 1) : result'[j] = result[j]
          BY <3>1, <5>1
        <5>4. result'[i] = result[i]
          BY <3>1, <5>1
        <5>5. {result'[j] : j \in 1 .. (i - 1)} = {result[j] : j \in 1 .. (i - 1)}
          BY <5>3
        <5>6. QED
          BY <2>1, <5>2, <5>3, <5>4, <5>5
      <4>3. QED
        BY <4>1, <4>2
    <3>3. QED
      BY <3>2 DEF DependenciesFirst
  <2>17. EmittedIsAcyclic'
    <3>1. ASSUME NEW S \in SUBSET Nodes, S \cap Emitted' # {}
          PROVE  \E e \in S \cap Emitted' : deps'[e] \cap S = {}
      <4>1. CASE S \cap Emitted # {}
        BY <1>1, <2>1, <4>1 DEF SortInv, EmittedIsAcyclic
      <4>2. CASE S \cap Emitted = {}
        BY <2>1, <3>1, <4>2
      <4>3. QED
        BY <4>1, <4>2
    <3>2. QED
      BY <3>1 DEF EmittedIsAcyclic
  <2>18. QED
    BY <2>11, <2>12, <2>13, <2>14, <2>15, <2>16, <2>17 DEF SortInv
<1>2. ASSUME SortInv, UNCHANGED sortVars PROVE SortInv'
  <2>1. UNCHANGED <<deps, inDegree, sortQueue, result>>
    BY <1>2 DEF sortVars
  <2>2. UNCHANGED Queued /\ UNCHANGED Emitted
    BY <2>1 DEF Queued, Emitted
  <2>3. SortTypeOK' /\ NoRepeat' /\ (Queued \cap Emitted = {})'
    BY <1>2, <2>1, <2>2 DEF SortInv, SortTypeOK, NoRepeat
  <2>4. CountsWaiting' /\ ZeroIsReached'
    BY <1>2, <2>1, <2>2 DEF SortInv, CountsWaiting, ZeroIsReached
  <2>5. DependenciesFirst'
    BY <1>2, <2>1 DEF SortInv, DependenciesFirst
  <2>6. EmittedIsAcyclic'
    BY <1>2, <2>1, <2>2 DEF SortInv, EmittedIsAcyclic
  <2>7. QED
    BY <2>3, <2>4, <2>5, <2>6 DEF SortInv
<1>3. QED
  BY <1>1, <1>2

\* The loop of topologicalSort keeps SortInv, for every dependency map.
THEOREM GraphInvariant == SortSpec => []SortInv
BY SortInvInit, SortInvStep, PTL DEF SortSpec

\* The containers of the sort hold what they are declared to hold.
THEOREM SortTypeCorrect == SortSpec => []SortTypeOK
<1>1. SortInv => SortTypeOK
  BY DEF SortInv
<1>2. QED
  BY <1>1, GraphInvariant, PTL

\* No engine is updated before one it depends on, nor twice, whatever the map.
THEOREM OrderRespectsDependencies == SortSpec => []DependenciesFirst
<1>1. SortInv => DependenciesFirst
  BY DEF SortInv
<1>2. QED
  BY <1>1, GraphInvariant, PTL

-----------------------------------------------------------------------------
(* The length test that throws. *)

\* The result lists each engine once.
LEMMA ResultIsInjective ==
    ASSUME SortInv
    PROVE  LET N == Len(result) IN
           /\ N \in Nat /\ DOMAIN result = 1 .. N
           /\ IsFiniteSet(1 .. N) /\ Cardinality(1 .. N) = N
           /\ result \in Injection(1 .. N, Nodes)
<1> DEFINE N == Len(result)
<1>1. result \in Seq(Nodes) /\ DependenciesFirst
  BY DEF SortInv, SortTypeOK
<1>2. N \in Nat /\ DOMAIN result = 1 .. N /\ result \in [1 .. N -> Nodes]
  BY <1>1
<1>3. ASSUME NEW i \in 1 .. N, NEW j \in 1 .. N, result[i] = result[j] PROVE i = j
  <2>1. ~(i < j) /\ ~(j < i)
    BY <1>1, <1>2, <1>3 DEF DependenciesFirst
  <2>2. QED
    BY <1>2, <2>1
<1>4. result \in Injection(1 .. N, Nodes)
  BY <1>2, <1>3 DEF Injection, IsInjective
<1>5. QED
  BY <1>2, <1>4, CountToN

\* With every engine in the result, no set of engines waits on itself.
LEMMA CompleteIsAcyclic ==
    ASSUME SortInv, Len(result) = Cardinality(Nodes)
    PROVE  Acyclic
<1>1. result \in Surjection(1 .. Len(result), Nodes) /\ DOMAIN result = 1 .. Len(result)
  BY ResultIsInjective, DependencyGraphAssumption, FS_Injection
<1>2. Emitted = Nodes
  <2>1. Nodes \subseteq Emitted
    BY <1>1 DEF Surjection, Emitted
  <2>2. Emitted \subseteq Nodes
    BY <1>1 DEF Surjection, Emitted
  <2>3. QED
    BY <2>1, <2>2
<1>3. QED
  BY <1>2 DEF SortInv, EmittedIsAcyclic, Acyclic

\* When the queue runs empty too early, the engines that are left wait on each
\* other.
LEMMA AcyclicIsComplete ==
    ASSUME SortInv, sortQueue = <<>>, Acyclic
    PROVE  Len(result) = Cardinality(Nodes)
<1> DEFINE N == Len(result)
           Left == Nodes \ Emitted
<1>1. Queued = {}
  BY DEF Queued
<1>2. ASSUME NEW e \in Left PROVE deps[e] \cap Left # {}
  <2>1. inDegree[e] # 0
    BY <1>1 DEF SortInv, ZeroIsReached
  <2>2. Cardinality(deps[e] \ Emitted) # 0 /\ deps[e] \subseteq Nodes
    BY <2>1 DEF SortInv, CountsWaiting, SortTypeOK
  <2>3. QED
    BY <2>2, FS_EmptySet
<1>3. Left = {}
  BY <1>2 DEF Acyclic
<1>4. result \in Injection(1 .. N, Nodes) /\ DOMAIN result = 1 .. N
  BY ResultIsInjective
<1>5. result \in Surjection(1 .. N, Nodes)
  BY <1>3, <1>4 DEF Injection, Surjection, Emitted
<1>6. IsFiniteSet(1 .. N) /\ Cardinality(1 .. N) = N
  BY ResultIsInjective
<1>7. QED
  BY <1>4, <1>5, <1>6, FS_Surjection

\* The sort reports a map exactly when it has a cycle: the length test neither
\* lets a partial order through nor rejects a map that can be ordered.
THEOREM ReportsExactlyCycles == SortSpec => []CompleteIffAcyclic
<1>1. SortInv => CompleteIffAcyclic
  BY CompleteIsAcyclic, AcyclicIsComplete DEF CompleteIffAcyclic
<1>2. QED
  BY <1>1, GraphInvariant, PTL
=============================================================================
