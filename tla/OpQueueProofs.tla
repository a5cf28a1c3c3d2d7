--------------------------- MODULE OpQueueProofs ---------------------------
(***************************************************************************)
(* Proofs about OpQueue, for every number of operations, of runs that      *)
(* overlap, and of failures and restarts: no operation is lost but by a    *)
(* restart, none is executed twice without a reason, and undisturbed they  *)
(* are executed in order.                                                  *)
(*                                                                         *)
(* For the first, what a run reads into todo plays no part: that an        *)
(* operation leaves L2 only after it was executed depends on the run that  *)
(* completes it alone, whose first operation stays the same between the    *)
(* execution and complete.  The other two need what the two queues and the *)
(* runs' lists hold, and so the lemmas about the arrays' filters.          *)
(***************************************************************************)
EXTENDS OpQueue, SequenceTheorems, FiniteSetTheorems, WellFoundedInduction, TLAPS

-----------------------------------------------------------------------------
(* Lemmas about the map of the L2 store. *)

\* s is a sequence, of whatever elements.
IsSeq(s) == s \in Seq(Range(s))

\* A sequence over some set is one over its own elements, which are in the set.
LEMMA SeqOverRange ==
    ASSUME NEW S, NEW s \in Seq(S)
    PROVE  IsSeq(s) /\ Range(s) \subseteq S
<1>1. /\ Len(s) \in Nat /\ DOMAIN s = 1 .. Len(s)
      /\ s = [i \in 1 .. Len(s) |-> s[i]]
      /\ \A i \in 1 .. Len(s) : s[i] \in S
  OBVIOUS
<1>2. Range(s) \subseteq S
  BY <1>1 DEF Range
<1>3. \A i \in 1 .. Len(s) : s[i] \in Range(s)
  BY <1>1 DEF Range
<1>4. s \in [1 .. Len(s) -> Range(s)]
  BY <1>1, <1>3
<1>5. s \in Seq(Range(s))
  BY <1>1, <1>4
<1>6. QED
  BY <1>2, <1>5 DEF IsSeq

\* Map.set keeps the keys that are there and adds the one given.
LEMMA PutFacts ==
    ASSUME NEW s, IsSeq(s), NEW o
    PROVE  IsSeq(Put(s, o)) /\ Range(s) \cup {o} \subseteq Range(Put(s, o))
<1>1. CASE o \in Range(s)
  BY <1>1 DEF Put
<1>2. CASE o \notin Range(s)
  <2> DEFINE T == Range(s) \cup {o}
             t == Append(s, o)
  <2>1. Put(s, o) = t
    BY <1>2 DEF Put
  <2>2. s \in Seq(T)
    BY DEF IsSeq
  <2>3. t \in Seq(T) /\ Len(t) = Len(s) + 1 /\ Len(s) \in Nat
    BY <2>2
  <2>4. \A i \in 1 .. Len(s) : t[i] = s[i]
    BY <2>2
  <2>5. t[Len(s) + 1] = o
    BY <2>2
  <2>6. DOMAIN s = 1 .. Len(s) /\ DOMAIN t = 1 .. Len(s) + 1
    BY <2>2, <2>3
  <2>7. IsSeq(t)
    BY <2>3, SeqOverRange
  <2>8. T \subseteq Range(t)
    <3>1. ASSUME NEW x \in Range(s) PROVE x \in Range(t)
      <4>1. PICK i \in DOMAIN s : s[i] = x
        BY DEF Range
      <4>2. i \in DOMAIN t /\ t[i] = x
        BY <4>1, <2>3, <2>4, <2>6
      <4>3. QED
        BY <4>2 DEF Range
    <3>2. o \in Range(t)
      BY <2>3, <2>5, <2>6 DEF Range
    <3>3. QED
      BY <3>1, <3>2
  <2>9. QED
    BY <2>1, <2>7, <2>8
<1>3. QED
  BY <1>1, <1>2

\* Removing a position moves up what comes after it.
LEMMA RemoveAtElements ==
    ASSUME NEW S, NEW s \in Seq(S), NEW k \in 1 .. Len(s)
    PROVE  /\ RemoveAt(s, k) \in Seq(S) /\ DOMAIN RemoveAt(s, k) = 1 .. Len(s) - 1
           /\ \A i \in 1 .. Len(s) - 1 :
                 RemoveAt(s, k)[i] = IF i < k THEN s[i] ELSE s[i + 1]
<1> DEFINE a == SubSeq(s, 1, k - 1)
           b == SubSeq(s, k + 1, Len(s))
<1>1. Len(s) \in Nat /\ k \in Nat /\ 1 <= k /\ k <= Len(s)
  OBVIOUS
<1>2. \A i \in 1 .. k - 1 : s[i] \in S
  BY <1>1
<1>3. /\ a \in Seq(S) /\ Len(a) = k - 1
      /\ \A i \in 1 .. k - 1 : a[i] = s[i]
  <2>1. k - 1 \in 0 .. Len(s) /\ 1 \in 1 .. Len(s) + 1
    BY <1>1
  <2>2. QED
    BY <2>1, <1>1, SubSeqProperties
<1>4. /\ b \in Seq(S) /\ Len(b) = Len(s) - k
      /\ \A i \in 1 .. Len(s) - k : b[i] = s[k + i]
  <2>1. k + 1 \in 1 .. Len(s) + 1 /\ Len(s) \in k .. Len(s)
    BY <1>1
  <2>2. QED
    BY <2>1, <1>1, SubSeqProperties
<1>5. RemoveAt(s, k) = a \o b
  BY DEF RemoveAt
<1> HIDE DEF a, b
<1>6. /\ a \o b \in Seq(S) /\ Len(a \o b) = Len(s) - 1
      /\ \A i \in 1 .. Len(s) - 1 :
            (a \o b)[i] = IF i <= k - 1 THEN a[i] ELSE b[i - (k - 1)]
  <2>1. /\ a \o b \in Seq(S) /\ Len(a \o b) = Len(a) + Len(b)
        /\ \A i \in 1 .. Len(a) + Len(b) :
              (a \o b)[i] = IF i <= Len(a) THEN a[i] ELSE b[i - Len(a)]
    BY <1>3, <1>4, ConcatProperties, Zenon
  <2>2. Len(a) + Len(b) = Len(s) - 1
    BY <1>1, <1>3, <1>4
  <2>3. QED
    BY <2>1, <2>2, <1>3, Zenon
<1>7. DOMAIN (a \o b) = 1 .. Len(s) - 1
  BY <1>6
<1>8. ASSUME NEW i \in 1 .. Len(s) - 1
      PROVE  (a \o b)[i] = IF i < k THEN s[i] ELSE s[i + 1]
  <2>1. CASE i < k
    <3>1. i <= k - 1 /\ i \in 1 .. k - 1
      BY <2>1, <1>1
    <3>2. QED
      BY <2>1, <3>1, <1>3, <1>6
  <2>2. CASE ~(i < k)
    <3>1. ~(i <= k - 1) /\ i - (k - 1) \in 1 .. Len(s) - k /\ k + (i - (k - 1)) = i + 1
      BY <2>2, <1>1
    <3>2. QED
      BY <2>2, <3>1, <1>4, <1>6
  <2>3. QED
    BY <2>1, <2>2
<1>9. QED
  BY <1>5, <1>6, <1>7, <1>8

\* The elements of the other positions are all that is left.
LEMMA RemoveAtFacts ==
    ASSUME NEW S, NEW s \in Seq(S), NEW k \in 1 .. Len(s)
    PROVE  /\ RemoveAt(s, k) \in Seq(S)
           /\ Range(RemoveAt(s, k)) = {s[i] : i \in (1 .. Len(s)) \ {k}}
           /\ \A i, j \in DOMAIN RemoveAt(s, k) : i < j =>
                 \E m, n \in (1 .. Len(s)) \ {k} :
                    m < n /\ RemoveAt(s, k)[i] = s[m] /\ RemoveAt(s, k)[j] = s[n]
<1> DEFINE t == RemoveAt(s, k)
           rest == (1 .. Len(s)) \ {k}
<1>1. /\ t \in Seq(S) /\ DOMAIN t = 1 .. Len(s) - 1
      /\ \A i \in DOMAIN t : t[i] = IF i < k THEN s[i] ELSE s[i + 1]
  <2>1. \A i \in 1 .. Len(s) - 1 : t[i] = IF i < k THEN s[i] ELSE s[i + 1]
    BY RemoveAtElements, Zenon
  <2>2. t \in Seq(S) /\ DOMAIN t = 1 .. Len(s) - 1
    BY RemoveAtElements, Zenon
  <2>3. QED
    BY <2>1, <2>2, Zenon
<1> HIDE DEF t
<1>2. Len(s) \in Nat /\ k \in Nat /\ DOMAIN s = 1 .. Len(s)
  OBVIOUS
<1> DEFINE from(i) == IF i < k THEN i ELSE i + 1
<1>3. \A i \in DOMAIN t : from(i) \in rest /\ t[i] = s[from(i)]
  BY <1>1, <1>2
<1>4. \A i, j \in DOMAIN t : i < j => from(i) < from(j)
  BY <1>1, <1>2
<1>5. \A m \in rest : \E i \in DOMAIN t : from(i) = m
  <2> SUFFICES ASSUME NEW m \in rest PROVE \E i \in DOMAIN t : from(i) = m
    OBVIOUS
  <2>1. CASE m < k
    <3>1. m \in DOMAIN t /\ from(m) = m
      BY <2>1, <1>1, <1>2
    <3>2. QED
      BY <3>1
  <2>2. CASE m > k
    <3>1. m - 1 \in DOMAIN t /\ from(m - 1) = m
      BY <2>2, <1>1, <1>2
    <3>2. QED
      BY <3>1
  <2>3. QED
    BY <2>1, <2>2, <1>2
<1> HIDE DEF from, rest
<1>6. Range(t) = {s[i] : i \in rest}
  <2>1. ASSUME NEW m \in rest PROVE s[m] \in Range(t)
    <3>1. PICK i \in DOMAIN t : from(i) = m
      BY <1>5
    <3>2. t[i] = s[m]
      BY <1>3, <3>1
    <3>3. QED
      BY <3>2 DEF Range
  <2>2. ASSUME NEW i \in DOMAIN t PROVE \E m \in rest : t[i] = s[m]
    BY <1>3
  <2>3. QED
    BY <2>1, <2>2 DEF Range
<1>7. \A i, j \in DOMAIN t : i < j =>
         \E m, n \in rest : m < n /\ t[i] = s[m] /\ t[j] = s[n]
  BY <1>3, <1>4
<1>8. QED
  BY <1>1, <1>6, <1>7 DEF t, rest

\* Map.delete keeps every key but the one given.
LEMMA DeletedFacts ==
    ASSUME NEW s, IsSeq(s), NEW o
    PROVE  IsSeq(Deleted(s, o)) /\ \A x \in Range(s) : x # o => x \in Range(Deleted(s, o))
<1>1. CASE o \notin Range(s)
  BY <1>1 DEF Deleted
<1>2. CASE o \in Range(s)
  <2> DEFINE k == CHOOSE i \in DOMAIN s : s[i] = o
  <2>1. s \in Seq(Range(s)) /\ DOMAIN s = 1 .. Len(s)
    BY DEF IsSeq
  <2>2. k \in 1 .. Len(s) /\ s[k] = o
    BY <1>2, <2>1 DEF Range
  <2>3. Deleted(s, o) = RemoveAt(s, k)
    BY <1>2 DEF Deleted
  <2> HIDE DEF k
  <2>4. /\ RemoveAt(s, k) \in Seq(Range(s))
        /\ Range(RemoveAt(s, k)) = {s[i] : i \in (1 .. Len(s)) \ {k}}
    BY <2>1, <2>2, RemoveAtFacts
  <2>5. IsSeq(RemoveAt(s, k))
    BY <2>4, SeqOverRange
  <2>6. \A x \in Range(s) : x # o => x \in Range(RemoveAt(s, k))
    BY <2>1, <2>2, <2>4 DEF Range
  <2>7. QED
    BY <2>3, <2>5, <2>6
<1>3. QED
  BY <1>1, <1>2

-----------------------------------------------------------------------------
(* The inductive invariant. *)

\* What the proof needs of the types.
Shape ==
    /\ born \in 0 .. NumOps
    /\ IsSeq(l2)
    /\ executed \in [Ops -> Nat]
    /\ DOMAIN phase = Runs
    /\ DOMAIN todo = Runs

\* Before a run completes its first operation, the server has executed it.
Answered ==
    \A r \in Runs, o \in Ops :
        (phase[r] = "executed" /\ o = Head(todo[r])) => executed[o] > 0

IInv == Shape /\ NeverLost /\ Answered

LEMMA IInvInit == Init => IInv
<1> SUFFICES ASSUME Init PROVE IInv
  OBVIOUS
<1>1. Shape
  BY OpQueueAssumption DEF Init, Shape, IsSeq
<1>2. NeverLost
  BY DEF Init, NeverLost
<1>3. Answered
  BY DEF Init, Answered
<1>4. QED
  BY <1>1, <1>2, <1>3 DEF IInv

\* A step that adds to L2, or lets go of all of it, and does not touch the executions loses
\* nothing else.
LEMMA KeepsExecutions ==
    ASSUME IInv, executed' = executed, born' = born, IsSeq(l2'),
           DOMAIN phase' = Runs, DOMAIN todo' = Runs,
           forgotten \cup Range(l2) \subseteq forgotten' \cup Range(l2)',
           \A r \in Runs : phase'[r] = "executed" => phase[r] = "executed" /\ todo'[r] = todo[r]
    PROVE  IInv'
<1>1. Shape'
  BY DEF IInv, Shape
<1>2. NeverLost'
  BY DEF IInv, NeverLost
<1>3. Answered'
  BY DEF IInv, Answered
<1>4. QED
  BY <1>1, <1>2, <1>3 DEF IInv

\* Going on with a list leaves the run where nothing awaits an answer.
LEMMA ContinueFacts ==
    ASSUME Shape, NEW r \in Runs, NEW list, Continue(r, list)
    PROVE  /\ DOMAIN phase' = Runs /\ DOMAIN todo' = Runs
           /\ \A q \in Runs : phase'[q] = "executed"
                                => phase[q] = "executed" /\ todo'[q] = todo[q]
BY DEF Shape, Continue

LEMMA IInvStep == IInv /\ [Next]_vars => IInv'
<1> SUFFICES ASSUME IInv, [Next]_vars PROVE IInv'
  OBVIOUS
<1> USE DEF store
<1>0. Shape /\ IsSeq(l2)
  BY DEF IInv, Shape
<1>1. CASE EnqueueOp
  <2>1. l2' = Put(l2, born + 1) /\ born' = born + 1 /\ born < NumOps
    BY <1>1 DEF EnqueueOp, Enqueue
  <2>2. IsSeq(l2') /\ Range(l2) \cup {born + 1} \subseteq Range(l2')
    BY <2>1, <1>0, PutFacts
  <2>3. UNCHANGED <<phase, todo, executed, forgotten>>
    BY <1>1 DEF EnqueueOp
  <2>4. Shape'
    BY <1>0, <2>1, <2>2, <2>3, OpQueueAssumption DEF Shape
  <2>5. NeverLost'
    <3>1. ASSUME NEW o \in 1 .. born', executed[o] = 0, o \notin forgotten
          PROVE  o \in Range(l2')
      <4>1. o \in 1 .. born \/ o = born + 1
        BY <2>1, <1>0 DEF Shape
      <4>2. QED
        BY <3>1, <4>1, <2>2 DEF IInv, NeverLost
    <3>2. QED
      BY <3>1, <2>3 DEF NeverLost
  <2>6. Answered'
    BY <2>3 DEF IInv, Answered
  <2>7. QED
    BY <2>4, <2>5, <2>6 DEF IInv
<1>2. ASSUME NEW r \in Runs, DequeueAll(r) PROVE IInv'
  BY <1>0, <1>2, KeepsExecutions DEF DequeueAll, Shape
<1>3. ASSUME NEW r \in Runs, Drain(r) PROVE IInv'
  BY <1>0, <1>3, KeepsExecutions, ContinueFacts DEF Drain
<1>4. ASSUME NEW r \in Runs, ServerExecutes(r) PROVE IInv'
  <2>1. /\ executed' = [executed EXCEPT ![Head(todo[r])] = @ + 1]
        /\ phase' = [phase EXCEPT ![r] = "executed"]
        /\ UNCHANGED <<born, l2, todo, forgotten>>
    BY <1>4 DEF ServerExecutes
  <2>2. /\ executed' \in [Ops -> Nat]
        /\ \A o \in Ops : executed'[o] >= executed[o]
        /\ Head(todo[r]) \in Ops => executed'[Head(todo[r])] > 0
    <3> DEFINE h == Head(todo[r])
    <3>1. executed \in [Ops -> Nat] /\ executed' = [executed EXCEPT ![h] = executed[h] + 1]
      BY <2>1, <1>0 DEF Shape
    <3> HIDE DEF h
    <3>2. CASE h \in Ops
      <4>1. executed[h] \in Nat
        BY <3>1, <3>2
      <4>2. executed' \in [Ops -> Nat]
        BY <3>1, <3>2, <4>1
      <4>3. \A o \in Ops : executed'[o] = IF o = h THEN executed[h] + 1 ELSE executed[o]
        BY <3>1
      <4>4. \A o \in Ops : executed[o] \in Nat
        BY <3>1
      <4>5. \A o \in Ops : executed'[o] >= executed[o]
        BY <4>3, <4>4
      <4>6. executed'[h] > 0
        BY <3>2, <4>1, <4>3
      <4>7. QED
        BY <4>2, <4>5, <4>6, Zenon DEF h
    <3>3. CASE h \notin Ops
      <4>1. executed' = executed
        BY <3>1, <3>3
      <4>2. \A o \in Ops : executed[o] \in Nat /\ executed'[o] = executed[o]
        BY <3>1, <4>1, Zenon
      <4>3. \A o \in Ops : executed'[o] >= executed[o]
        BY <4>2
      <4>4. QED
        BY <3>1, <3>3, <4>1, <4>3, Zenon DEF h
    <3>4. QED
      BY <3>2, <3>3
  <2>3. Shape'
    BY <2>1, <2>2, <1>0 DEF Shape
  <2>4. NeverLost'
    <3>1. ASSUME NEW o \in 1 .. born, executed'[o] = 0, o \notin forgotten
          PROVE  o \in Range(l2)
      <4>1. o \in Ops
        BY <1>0, OpQueueAssumption DEF Shape, Ops
      <4>2. executed[o] = 0
        BY <4>1, <3>1, <2>2, <1>0 DEF Shape
      <4>3. QED
        BY <3>1, <4>2 DEF IInv, NeverLost
    <3>2. QED
      BY <3>1, <2>1 DEF NeverLost
  <2>5. Answered'
    <3>1. ASSUME NEW q \in Runs, NEW o \in Ops, phase'[q] = "executed", o = Head(todo[q])
          PROVE  executed'[o] > 0
      <4>1. CASE q = r
        BY <4>1, <3>1, <2>2
      <4>2. CASE q # r
        <5>1. phase[q] = "executed"
          BY <4>2, <3>1, <2>1, <1>0 DEF Shape
        <5>2. executed[o] > 0
          BY <5>1, <3>1 DEF IInv, Answered
        <5>3. QED
          BY <5>2, <2>2, <1>0 DEF Shape
      <4>3. QED
        BY <4>1, <4>2
    <3>2. QED
      BY <3>1, <2>1 DEF Answered
  <2>6. QED
    BY <2>3, <2>4, <2>5 DEF IInv
<1>5. ASSUME NEW r \in Runs, ExecutorTrue(r) PROVE IInv'
  <2> DEFINE h == Head(todo[r])
  <2>1. /\ l2' = Deleted(l2, h)
        /\ phase[r] = "executed"
        /\ phase' = [phase EXCEPT ![r] = "written"]
        /\ UNCHANGED <<born, todo, executed, forgotten>>
    BY <1>5 DEF ExecutorTrue, Complete
  <2>2. IsSeq(l2') /\ \A x \in Range(l2) : x # h => x \in Range(l2')
    BY <2>1, <1>0, DeletedFacts
  <2>3. Shape'
    BY <2>1, <2>2, <1>0 DEF Shape
  <2>4. NeverLost'
    <3>1. ASSUME NEW o \in 1 .. born, executed[o] = 0, o \notin forgotten
          PROVE  o \in Range(l2')
      <4>1. o \in Ops
        BY <1>0, OpQueueAssumption DEF Shape, Ops
      <4>2. o # h
        BY <4>1, <3>1, <2>1 DEF IInv, Answered
      <4>3. o \in Range(l2)
        BY <3>1 DEF IInv, NeverLost
      <4>4. QED
        BY <4>2, <4>3, <2>2
    <3>2. QED
      BY <3>1, <2>1 DEF NeverLost
  <2>5. Answered'
    BY <2>1, <1>0 DEF IInv, Answered, Shape
  <2>6. QED
    BY <2>3, <2>4, <2>5 DEF IInv
<1>6. ASSUME NEW r \in Runs, NextOp(r) PROVE IInv'
  BY <1>0, <1>6, KeepsExecutions, ContinueFacts DEF NextOp
<1>7. ASSUME NEW r \in Runs, ExecutorFalse(r) PROVE IInv'
  <2>1. /\ l2' = Put(l2, Head(todo[r]))
        /\ phase' = [phase EXCEPT ![r] = "written"]
        /\ UNCHANGED <<born, todo, executed, forgotten>>
    BY <1>7 DEF ExecutorFalse, Enqueue
  <2>2. IsSeq(l2') /\ Range(l2) \subseteq Range(l2')
    BY <2>1, <1>0, PutFacts
  <2>3. QED
    BY <1>0, <2>1, <2>2, KeepsExecutions DEF Shape
<1>8. ASSUME NEW r \in Runs, ExecutorThrows(r) PROVE IInv'
  BY <1>0, <1>8, KeepsExecutions, ContinueFacts DEF ExecutorThrows
<1>9. CASE Restart
  <2>1. /\ l2' = <<>> /\ forgotten' = forgotten \cup Range(l2)
        /\ phase' = [r \in Runs |-> "idle"] /\ todo' = [r \in Runs |-> <<>>]
        /\ UNCHANGED <<born, executed>>
    BY <1>9 DEF Restart
  <2>2. IsSeq(l2')
    BY <2>1 DEF IsSeq
  <2>3. QED
    BY <2>1, <2>2, KeepsExecutions
<1>10. CASE UNCHANGED vars
  BY <1>0, <1>10, KeepsExecutions DEF vars, Shape
<1>11. QED
  BY <1>1, <1>2, <1>3, <1>4, <1>5, <1>6, <1>7, <1>8, <1>9, <1>10
  DEF Next, RunStep

-----------------------------------------------------------------------------
(* The result. *)

\* enqueue, dequeueAll, complete and executePendingOps together: until the server has
\* executed an operation, L2 keeps it, unless it was pending at a restart, which makes L2
\* anew; for every number of operations and overlapping runs, through refused and
\* unanswered requests and restarts.
THEOREM NothingIsLost == Spec => []NeverLost
<1>1. IInv => NeverLost
  BY DEF IInv
<1>2. QED
  BY IInvInit, IInvStep, <1>1, PTL DEF Spec

-----------------------------------------------------------------------------
(* Sequences without repetition (IsInjective), and rising ones. *)

Rising(s) == \A i, j \in DOMAIN s : i < j => s[i] < s[j]

\* A set of numbers has a least one.
LEMMA LeastElement ==
    ASSUME NEW S \in SUBSET Nat, S # {}
    PROVE  \E m \in S : \A n \in S : m <= n
<1> DEFINE R == OpToRel(<, Nat)
<1>1. IsWellFoundedOn(R, Nat)
  BY NatLessThanWellFounded
<1>2. ASSUME NEW x \in Nat, NEW y \in Nat, y < x
      PROVE  <<y, x>> \in R
  <2>1. <<y, x>> \in {ss \in Nat \X Nat : ss[1] < ss[2]}
    BY <1>2
  <2>2. R = {ss \in Nat \X Nat : ss[1] < ss[2]}
    BY Zenon DEF OpToRel
  <2> HIDE DEF R
  <2>3. QED
    BY <2>1, <2>2
<1> HIDE DEF R
<1>3. PICK x \in S : \A y \in S : <<y, x>> \notin R
  BY <1>1, WFMin
<1>4. ASSUME NEW y \in S PROVE x <= y
  <2>1. ~(y < x)
    BY <1>2, <1>3
  <2>2. QED
    BY <2>1
<1>5. QED
  BY <1>3, <1>4

LEMMA AppendFacts ==
    ASSUME NEW S, NEW s \in Seq(S), NEW o \in S
    PROVE  /\ Append(s, o) \in Seq(S)
           /\ Range(Append(s, o)) = Range(s) \cup {o}
           /\ o \notin Range(s) /\ IsInjective(s) => IsInjective(Append(s, o))
<1> DEFINE t == Append(s, o)
<1>1. /\ t \in Seq(S) /\ Len(s) \in Nat /\ DOMAIN s = 1 .. Len(s)
      /\ DOMAIN t = 1 .. Len(s) + 1
      /\ \A i \in 1 .. Len(s) : t[i] = s[i]
      /\ t[Len(s) + 1] = o
  OBVIOUS
<1> HIDE DEF t
<1>2. \A i \in DOMAIN t : i \in DOMAIN s \/ i = Len(s) + 1
  BY <1>1
<1>3. DOMAIN s \subseteq DOMAIN t /\ Len(s) + 1 \in DOMAIN t
  BY <1>1
<1>4. Range(t) = Range(s) \cup {o}
  BY <1>1, <1>2, <1>3 DEF Range
<1>5. o \notin Range(s) /\ IsInjective(s) => IsInjective(t)
  BY <1>1, <1>2 DEF Range, IsInjective
<1>6. QED
  BY <1>1, <1>4, <1>5 DEF t

LEMMA AppendRises ==
    ASSUME NEW S \in SUBSET Nat, NEW s \in Seq(S), NEW o \in S,
           Rising(s), \A x \in Range(s) : x < o
    PROVE  Rising(Append(s, o))
<1> DEFINE t == Append(s, o)
<1>1. /\ Len(s) \in Nat /\ DOMAIN s = 1 .. Len(s)
      /\ DOMAIN t = 1 .. Len(s) + 1
      /\ \A i \in 1 .. Len(s) : t[i] = s[i]
      /\ t[Len(s) + 1] = o
  OBVIOUS
<1> HIDE DEF t
<1>2. ASSUME NEW i \in DOMAIN t, NEW j \in DOMAIN t, i < j PROVE t[i] < t[j]
  <2>1. i \in DOMAIN s
    BY <1>1, <1>2
  <2>2. CASE j \in DOMAIN s
    BY <1>1, <1>2, <2>1, <2>2 DEF Rising
  <2>3. CASE j = Len(s) + 1
    BY <1>1, <2>1, <2>3 DEF Range
  <2>4. QED
    BY <1>1, <2>2, <2>3
<1>3. QED
  BY <1>2 DEF Rising, t

\* The first element and the rest.
LEMMA TailFacts ==
    ASSUME NEW S, NEW s \in Seq(S), s # <<>>
    PROVE  /\ Head(s) \in S /\ Tail(s) \in Seq(S)
           /\ Range(s) = {Head(s)} \cup Range(Tail(s))
           /\ IsInjective(s) => IsInjective(Tail(s)) /\ Head(s) \notin Range(Tail(s))
           /\ Rising(s) => Rising(Tail(s)) /\ \A x \in Range(Tail(s)) : Head(s) < x
<1> DEFINE t == Tail(s)
<1>1. /\ t \in Seq(S) /\ Len(s) \in Nat /\ Len(s) >= 1 /\ DOMAIN s = 1 .. Len(s)
      /\ DOMAIN t = 1 .. Len(s) - 1
      /\ \A i \in 1 .. Len(s) - 1 : t[i] = s[i + 1]
      /\ Head(s) = s[1]
  OBVIOUS
<1> HIDE DEF t
<1>2. \A i \in DOMAIN s : i = 1 \/ (i - 1 \in DOMAIN t /\ t[i - 1] = s[i])
  BY <1>1
<1>3. 1 \in DOMAIN s /\ \A i \in DOMAIN t : i + 1 \in DOMAIN s /\ i + 1 # 1 /\ i \in Nat
  BY <1>1
<1>4. Range(s) = {Head(s)} \cup Range(t)
  <2>1. ASSUME NEW x \in Range(s) PROVE x \in {Head(s)} \cup Range(t)
    <3>1. PICK i \in DOMAIN s : s[i] = x
      BY DEF Range
    <3>2. QED
      BY <3>1, <1>1, <1>2 DEF Range
  <2>2. ASSUME NEW x \in {Head(s)} \cup Range(t) PROVE x \in Range(s)
    <3>1. CASE x = Head(s)
      BY <3>1, <1>1, <1>3 DEF Range
    <3>2. ASSUME NEW i \in DOMAIN t, t[i] = x PROVE x \in Range(s)
      <4>1. i + 1 \in DOMAIN s /\ s[i + 1] = x
        BY <3>2, <1>1, <1>3
      <4>2. QED
        BY <4>1 DEF Range
    <3>3. QED
      BY <3>1, <3>2 DEF Range
  <2>3. QED
    BY <2>1, <2>2
<1>5. ASSUME IsInjective(s) PROVE IsInjective(t) /\ Head(s) \notin Range(t)
  <2>1. ASSUME NEW i \in DOMAIN t, NEW j \in DOMAIN t, t[i] = t[j] PROVE i = j
    <3>1. s[i + 1] = s[j + 1] /\ i + 1 \in DOMAIN s /\ j + 1 \in DOMAIN s
      BY <2>1, <1>1, <1>3
    <3>2. i + 1 = j + 1
      BY <1>5, <3>1 DEF IsInjective
    <3>3. QED
      BY <3>2, <1>3
  <2>2. ASSUME NEW i \in DOMAIN t PROVE t[i] # Head(s)
    <3>1. s[i + 1] = t[i] /\ i + 1 \in DOMAIN s /\ i + 1 # 1 /\ 1 \in DOMAIN s
      BY <1>1, <1>3
    <3>2. QED
      BY <1>1, <1>5, <3>1 DEF IsInjective
  <2>3. QED
    BY <2>1, <2>2 DEF IsInjective, Range
<1>6. ASSUME Rising(s) PROVE Rising(t) /\ \A x \in Range(t) : Head(s) < x
  <2>1. ASSUME NEW i \in DOMAIN t, NEW j \in DOMAIN t, i < j PROVE t[i] < t[j]
    <3>1. /\ s[i + 1] = t[i] /\ s[j + 1] = t[j] /\ i + 1 < j + 1
          /\ i + 1 \in DOMAIN s /\ j + 1 \in DOMAIN s
      BY <2>1, <1>1, <1>3
    <3>2. s[i + 1] < s[j + 1]
      BY <1>6, <3>1 DEF Rising
    <3>3. QED
      BY <3>1, <3>2
  <2>2. ASSUME NEW i \in DOMAIN t PROVE Head(s) < t[i]
    <3>1. s[i + 1] = t[i] /\ i + 1 \in DOMAIN s /\ 1 < i + 1 /\ 1 \in DOMAIN s
      BY <1>1, <1>3
    <3>2. s[1] < s[i + 1]
      BY <1>6, <3>1 DEF Rising
    <3>3. QED
      BY <1>1, <3>1, <3>2
  <2>3. QED
    BY <2>1, <2>2 DEF Rising, Range
<1>7. QED
  BY <1>1, <1>3, <1>4, <1>5, <1>6 DEF t

\* A filter keeps the elements at its positions, and their order.
LEMMA FilteredFacts ==
    ASSUME NEW S, NEW s \in Seq(S), NEW P \in SUBSET DOMAIN s, NEW t \in Filtered(s, P)
    PROVE  /\ t \in Seq(S)
           /\ Range(t) = {s[i] : i \in P}
           /\ \A j, k \in DOMAIN t : j < k =>
                 \E a, b \in P : a < b /\ t[j] = s[a] /\ t[k] = s[b]
<1> DEFINE n == Cardinality(P)
<1>1. DOMAIN s = 1 .. Len(s) /\ Len(s) \in Nat /\ IsFiniteSet(P) /\ n \in Nat
  <2>1. DOMAIN s = 1 .. Len(s) /\ Len(s) \in Nat
    OBVIOUS
  <2>2. IsFiniteSet(1 .. Len(s))
    BY <2>1, FS_Interval
  <2>3. IsFiniteSet(P)
    BY <2>1, <2>2, FS_Subset
  <2>4. QED
    BY <2>1, <2>3, FS_CardinalityType
<1>2. PICK at \in [1 .. n -> P] :
         /\ \A j, k \in 1 .. n : j < k => at[j] < at[k]
         /\ t = [k \in 1 .. n |-> s[at[k]]]
  BY DEF Filtered
<1>3. \A k \in 1 .. n : at[k] \in P /\ at[k] \in Nat
  BY <1>1, <1>2
<1>4. Range(at) = P
  <2>1. \A j, k \in 1 .. n : at[j] = at[k] => j = k
    <3>1. ASSUME NEW j \in 1 .. n, NEW k \in 1 .. n, j # k PROVE at[j] # at[k]
      <4>1. j < k \/ k < j
        BY <3>1, <1>1
      <4>2. at[j] < at[k] \/ at[k] < at[j]
        BY <1>2, <4>1
      <4>3. QED
        BY <4>2, <1>3
    <3>2. QED
      BY <3>1
  <2>2. at \in Injection(1 .. n, P)
    BY <1>2, <2>1 DEF Injection, IsInjective
  <2>3. Cardinality(1 .. n) = n
    <3>1. 1 \in Int /\ n \in Int
      BY <1>1
    <3>2. Cardinality(1 .. n) = IF 1 > n THEN 0 ELSE n - 1 + 1
      BY <3>1, FS_Interval
    <3>3. QED
      BY <3>2, <1>1
  <2>4. at \in Surjection(1 .. n, P)
    BY <1>1, <2>2, <2>3, FS_Injection, Zenon
  <2>5. QED
    BY <1>2, <2>4 DEF Surjection, Range
<1> HIDE DEF n
<1>5. t \in [1 .. n -> S] /\ DOMAIN t = 1 .. n
  <2>1. \A k \in 1 .. n : s[at[k]] \in S
    BY <1>1, <1>3
  <2>2. QED
    BY <1>2, <2>1
<1>6. t \in Seq(S)
  BY <1>1, <1>5
<1>7. Range(t) = {s[i] : i \in P}
  BY <1>2, <1>3, <1>4, <1>5 DEF Range
<1>8. \A j, k \in DOMAIN t : j < k => \E a, b \in P : a < b /\ t[j] = s[a] /\ t[k] = s[b]
  BY <1>2, <1>3, <1>5
<1>9. QED
  BY <1>6, <1>7, <1>8

\* The filter of complete removes one operation and nothing else.
LEMMA WithoutFacts ==
    ASSUME NEW S, NEW s \in Seq(S), NEW o, NEW t \in Without(s, o)
    PROVE  /\ t \in Seq(S) /\ Range(t) = Range(s) \ {o}
           /\ S \subseteq Nat /\ Rising(s) => Rising(t)
<1> DEFINE P == {i \in DOMAIN s : s[i] # o}
<1>1. /\ t \in Seq(S) /\ Range(t) = {s[i] : i \in P}
      /\ \A j, k \in DOMAIN t : j < k => \E a, b \in P : a < b /\ t[j] = s[a] /\ t[k] = s[b]
  <2>1. t \in Filtered(s, P)
    BY DEF Without
  <2>2. P \in SUBSET DOMAIN s
    OBVIOUS
  <2> HIDE DEF P
  <2>3. QED
    BY <2>1, <2>2, FilteredFacts
<1>2. Range(t) = Range(s) \ {o}
  BY <1>1 DEF Range
<1>3. Rising(s) => Rising(t)
  BY <1>1 DEF Rising
<1>4. QED
  BY <1>1, <1>2, <1>3

\* The filter of dequeueAll keeps every operation, once; and when the second list has
\* nothing the first one has not, in the order of the first one.
LEMMA DistinctFacts ==
    ASSUME NEW S \in SUBSET Nat, NEW q \in Seq(S), NEW s \in Seq(S),
           NEW t \in Distinct(q \o s)
    PROVE  /\ t \in Seq(S) /\ Range(t) = Range(q) \cup Range(s) /\ IsInjective(t)
           /\ Rising(q) /\ Range(s) \subseteq Range(q) => Rising(t)
<1> DEFINE c == q \o s
           P == {i \in DOMAIN c : \A j \in 1 .. (i - 1) : c[j] # c[i]}
<1>1. /\ c \in Seq(S) /\ DOMAIN c = 1 .. (Len(q) + Len(s))
      /\ Len(q) \in Nat /\ Len(s) \in Nat
      /\ DOMAIN q = 1 .. Len(q) /\ DOMAIN s = 1 .. Len(s)
      /\ \A i \in DOMAIN q : c[i] = q[i]
      /\ \A i \in DOMAIN s : c[Len(q) + i] = s[i]
  OBVIOUS
<1>2. t \in Filtered(c, P)
  BY DEF Distinct
<1> HIDE DEF c
<1>3. /\ t \in Seq(S) /\ Range(t) = {c[i] : i \in P}
      /\ \A j, k \in DOMAIN t : j < k => \E a, b \in P : a < b /\ t[j] = c[a] /\ t[k] = c[b]
  <2>1. P \in SUBSET DOMAIN c
    OBVIOUS
  <2>2. c \in Seq(S)
    BY <1>1
  <2> HIDE DEF P
  <2>3. QED
    BY <1>2, <2>1, <2>2, FilteredFacts
<1>4. \A i \in DOMAIN c : i \in DOMAIN q \/ (i - Len(q) \in DOMAIN s /\ c[i] = s[i - Len(q)])
  <2>1. ASSUME NEW i \in DOMAIN c, i \notin DOMAIN q
        PROVE  i - Len(q) \in DOMAIN s /\ c[i] = s[i - Len(q)]
    <3>1. i - Len(q) \in DOMAIN s /\ Len(q) + (i - Len(q)) = i
      BY <1>1, <2>1
    <3>2. QED
      BY <1>1, <3>1
  <2>2. QED
    BY <2>1
<1>5. DOMAIN q \subseteq DOMAIN c /\ \A i \in DOMAIN s : Len(q) + i \in DOMAIN c
  BY <1>1
<1>6. Range(c) = Range(q) \cup Range(s)
  <2>1. Range(c) \subseteq Range(q) \cup Range(s)
    BY <1>1, <1>4 DEF Range
  <2>2. Range(q) \subseteq Range(c) /\ Range(s) \subseteq Range(c)
    BY <1>1, <1>5 DEF Range
  <2>3. QED
    BY <2>1, <2>2
<1>7. \A i \in DOMAIN c : \E m \in P : c[m] = c[i]
  <2> SUFFICES ASSUME NEW i \in DOMAIN c PROVE \E m \in P : c[m] = c[i]
    OBVIOUS
  <2> DEFINE same == {j \in DOMAIN c : c[j] = c[i]}
  <2>1. same \in SUBSET Nat /\ same # {}
    BY <1>1
  <2>2. PICK m \in same : \A n \in same : m <= n
    <3> HIDE DEF same
    <3> QED BY <2>1, LeastElement
  <2>3. \A j \in 1 .. (m - 1) : j \in DOMAIN c /\ ~(m <= j)
    BY <1>1
  <2>4. m \in P
    BY <2>2, <2>3
  <2>5. QED
    BY <2>4
<1>8. Range(t) = Range(c)
  <2>1. P \subseteq DOMAIN c
    OBVIOUS
  <2> HIDE DEF P
  <2>2. ASSUME NEW i \in DOMAIN c PROVE c[i] \in Range(t)
    BY <1>3, <1>7
  <2>3. QED
    BY <1>3, <2>1, <2>2, Zenon DEF Range
<1>9. \A a, b \in P : a < b => c[a] # c[b]
  <2> SUFFICES ASSUME NEW a \in P, NEW b \in P, a < b PROVE c[a] # c[b]
    OBVIOUS
  <2>1. a \in 1 .. (b - 1)
    BY <1>1
  <2>2. QED
    BY <2>1
<1>10. IsInjective(t)
  <2> SUFFICES ASSUME NEW j \in DOMAIN t, NEW k \in DOMAIN t, j # k PROVE t[j] # t[k]
    BY DEF IsInjective
  <2>1. j < k \/ k < j
    <3>1. j \in Nat /\ k \in Nat
      BY <1>3
    <3>2. QED
      BY <3>1
  <2> HIDE DEF P
  <2>2. QED
    BY <1>3, <1>9, <2>1
<1>11. ASSUME Rising(q), Range(s) \subseteq Range(q) PROVE Rising(t)
  <2>1. P \subseteq DOMAIN q
    <3> SUFFICES ASSUME NEW i \in P, i \notin DOMAIN q PROVE FALSE
      OBVIOUS
    <3>1. c[i] \in Range(s)
      BY <1>4 DEF Range
    <3>2. PICK k \in DOMAIN q : q[k] = c[i]
      BY <3>1, <1>11 DEF Range
    <3>3. k \in 1 .. (i - 1) /\ c[k] = c[i]
      BY <3>2, <1>1
    <3>4. QED
      BY <3>3
  <2>2. \A a, b \in P : a < b => c[a] < c[b]
    BY <1>1, <1>11, <2>1 DEF Rising
  <2>3. QED
    BY <1>3, <2>2 DEF Rising
<1>12. QED
  BY <1>3, <1>6, <1>8, <1>10, <1>11

\* Map.set and Map.delete on keys that are there once.
LEMMA PutKeys ==
    ASSUME NEW S, NEW s \in Seq(S), NEW o \in S, IsInjective(s)
    PROVE  /\ Put(s, o) \in Seq(S) /\ Range(Put(s, o)) = Range(s) \cup {o}
           /\ IsInjective(Put(s, o))
<1>1. CASE o \in Range(s)
  BY <1>1 DEF Put
<1>2. CASE o \notin Range(s)
  BY <1>2, AppendFacts DEF Put
<1>3. QED
  BY <1>1, <1>2

LEMMA DeletedKeys ==
    ASSUME NEW S, NEW s \in Seq(S), NEW o, IsInjective(s)
    PROVE  /\ Deleted(s, o) \in Seq(S) /\ Range(Deleted(s, o)) = Range(s) \ {o}
           /\ IsInjective(Deleted(s, o))
           /\ S \subseteq Nat /\ Rising(s) => Rising(Deleted(s, o))
<1>1. CASE o \notin Range(s)
  BY <1>1 DEF Deleted
<1>2. CASE o \in Range(s)
  <2> DEFINE k == CHOOSE i \in DOMAIN s : s[i] = o
             t == RemoveAt(s, k)
             rest == (1 .. Len(s)) \ {k}
  <2>1. DOMAIN s = 1 .. Len(s) /\ Len(s) \in Nat
    OBVIOUS
  <2>2. k \in 1 .. Len(s) /\ s[k] = o
    BY <1>2, <2>1 DEF Range
  <2>3. Deleted(s, o) = t
    BY <1>2 DEF Deleted
  <2> HIDE DEF k
  <2>4. /\ t \in Seq(S) /\ Range(t) = {s[i] : i \in rest}
        /\ \A i, j \in DOMAIN t : i < j =>
              \E m, n \in rest : m < n /\ t[i] = s[m] /\ t[j] = s[n]
    BY <2>2, RemoveAtFacts
  <2> HIDE DEF t
  <2>5. \A i \in DOMAIN s : s[i] = o => i = k
    BY <2>1, <2>2 DEF IsInjective
  <2>6. Range(t) = Range(s) \ {o}
    <3>1. \A i : i \in rest <=> i \in DOMAIN s /\ s[i] # o
      BY <2>1, <2>2, <2>5
    <3>2. Range(t) = {s[i] : i \in rest}
      BY <2>4
    <3> HIDE DEF rest
    <3>3. QED
      BY <3>1, <3>2, Zenon DEF Range
  <2>7. IsInjective(t)
    <3> SUFFICES ASSUME NEW i \in DOMAIN t, NEW j \in DOMAIN t, i # j PROVE t[i] # t[j]
      BY DEF IsInjective
    <3>1. i < j \/ j < i
      <4>1. i \in Nat /\ j \in Nat
        BY <2>4
      <4>2. QED
        BY <4>1
    <3>2. \A m, n \in rest : m < n => s[m] # s[n]
      <4> SUFFICES ASSUME NEW m \in rest, NEW n \in rest, m < n PROVE s[m] # s[n]
        OBVIOUS
      <4>1. m # n /\ m \in DOMAIN s /\ n \in DOMAIN s
        BY <2>1
      <4>2. QED
        BY <4>1 DEF IsInjective
    <3> HIDE DEF rest
    <3>3. QED
      BY <2>4, <3>1, <3>2
  <2>8. ASSUME Rising(s) PROVE Rising(t)
    <3>1. \A m, n \in rest : m < n => s[m] < s[n]
      BY <2>1, <2>8 DEF Rising
    <3> HIDE DEF rest
    <3>2. QED
      BY <2>4, <3>1 DEF Rising
  <2>9. QED
    BY <2>3, <2>4, <2>6, <2>7, <2>8
<1>3. QED
  BY <1>1, <1>2

-----------------------------------------------------------------------------
(* Type correctness, with what the types do not say: ids that were given out, *)
(* keys and lists without repetition, runs that have something in hand.       *)

RunsInv ==
    /\ phase \in [Runs -> {"idle", "dequeuing", "executing", "executed", "written"}]
    /\ todo \in [Runs -> Seq(Ops)]
    /\ \A r \in Runs :
          /\ IsInjective(todo[r]) /\ Range(todo[r]) \subseteq 1 .. born
          /\ phase[r] \in {"executing", "executed", "written"} => todo[r] # <<>>

StoreInv ==
    /\ born \in 0 .. NumOps
    /\ ops \in Seq(Ops) /\ Range(ops) \subseteq 1 .. born
    /\ l2 \in Seq(Ops) /\ Range(l2) \subseteq 1 .. born /\ IsInjective(l2)

CountInv ==
    /\ executed \in [Ops -> Nat] /\ \A o \in Ops : executed[o] > 0 => o <= born
    /\ disturbed \subseteq Disturbances /\ forgotten \subseteq 1 .. born
    /\ faults \in 0 .. MaxFaults

QueueInv == RunsInv /\ StoreInv /\ CountInv

LEMMA OpsFacts == Ops = 1 .. NumOps /\ NumOps \in Nat /\ Ops \subseteq Nat
BY OpQueueAssumption DEF Ops

\* A list without elements is in order.
LEMMA EmptyFacts ==
    ASSUME NEW e, e = <<>>
    PROVE  e \in Seq(Ops) /\ Range(e) = {} /\ IsInjective(e) /\ Rising(e)
<1>1. e \in Seq(Ops) /\ DOMAIN e = {}
  OBVIOUS
<1>2. Range(e) = {}
  BY <1>1, Zenon DEF Range
<1>3. IsInjective(e) /\ Rising(e)
  BY <1>1, Zenon DEF IsInjective, Rising
<1>4. QED
  BY <1>1, <1>2, <1>3, Zenon

LEMMA QueueInit == Init => QueueInv
<1> SUFFICES ASSUME Init PROVE QueueInv
  OBVIOUS
<1>1. RunsInv
  <2>1. \A r \in Runs : todo[r] = <<>> /\ phase[r] = "idle"
    BY DEF Init
  <2>2. \A r \in Runs : todo[r] \in Seq(Ops) /\ IsInjective(todo[r]) /\ Range(todo[r]) = {}
    BY <2>1, EmptyFacts, Zenon
  <2>3. DOMAIN todo = Runs /\ todo = [r \in Runs |-> todo[r]]
    BY DEF Init
  <2>4. phase \in [Runs -> {"idle", "dequeuing", "executing", "executed", "written"}]
    BY DEF Init
  <2>5. QED
    BY <2>1, <2>2, <2>3, <2>4 DEF RunsInv
<1>2. StoreInv
  <2>1. ops = <<>> /\ l2 = <<>> /\ born = 0
    BY DEF Init
  <2>2. /\ ops \in Seq(Ops) /\ Range(ops) = {}
        /\ l2 \in Seq(Ops) /\ Range(l2) = {} /\ IsInjective(l2)
    BY <2>1, EmptyFacts, Zenon
  <2>3. 0 \in 0 .. NumOps
    BY OpsFacts
  <2>4. QED
    BY <2>1, <2>2, <2>3, Zenon DEF StoreInv
<1>3. CountInv
  BY OpQueueAssumption DEF Init, CountInv
<1>4. QED
  BY <1>1, <1>2, <1>3 DEF QueueInv

\* What a run has in hand.
LEMMA InHandFacts ==
    ASSUME QueueInv, NEW r \in Runs, phase[r] \in {"executing", "executed", "written"}
    PROVE  /\ todo[r] \in Seq(Ops) /\ todo[r] # <<>>
           /\ Head(todo[r]) \in Ops /\ Head(todo[r]) \in 1 .. born
           /\ Tail(todo[r]) \in Seq(Ops) /\ IsInjective(Tail(todo[r]))
           /\ Range(todo[r]) = {Head(todo[r])} \cup Range(Tail(todo[r]))
           /\ Head(todo[r]) \notin Range(Tail(todo[r]))
<1>1. todo[r] \in Seq(Ops) /\ todo[r] # <<>> /\ IsInjective(todo[r])
      /\ Range(todo[r]) \subseteq 1 .. born
  BY DEF QueueInv, RunsInv
<1>2. QED
  BY <1>1, TailFacts

LEMMA ContinueRuns ==
    ASSUME QueueInv, NEW r \in Runs, NEW list \in Seq(Ops), IsInjective(list),
           Range(list) \subseteq 1 .. born, Continue(r, list), UNCHANGED born
    PROVE  RunsInv'
BY DEF QueueInv, RunsInv, Continue

LEMMA RunsStep == QueueInv /\ [Next]_vars => RunsInv'
<1> SUFFICES ASSUME QueueInv, [Next]_vars PROVE RunsInv'
  OBVIOUS
<1> USE DEF store
<1>1. CASE EnqueueOp
  BY <1>1 DEF EnqueueOp, QueueInv, RunsInv, StoreInv
<1>2. ASSUME NEW r \in Runs, DequeueAll(r) PROVE RunsInv'
  <2>1. PICK unique \in Distinct(ops \o l2) : todo' = [todo EXCEPT ![r] = unique]
    BY <1>2 DEF DequeueAll
  <2>2. ops \in Seq(Ops) /\ l2 \in Seq(Ops) /\ Ops \in SUBSET Nat
        /\ Range(ops) \subseteq 1 .. born /\ Range(l2) \subseteq 1 .. born
    BY OpsFacts DEF QueueInv, StoreInv
  <2>3. /\ unique \in Seq(Ops) /\ IsInjective(unique)
        /\ Range(unique) = Range(ops) \cup Range(l2)
    BY <2>1, <2>2, DistinctFacts
  <2>4. QED
    BY <1>2, <2>1, <2>2, <2>3 DEF DequeueAll, QueueInv, RunsInv
<1>3. ASSUME NEW r \in Runs, Drain(r) PROVE RunsInv'
  <2>1. todo[r] \in Seq(Ops) /\ IsInjective(todo[r]) /\ Range(todo[r]) \subseteq 1 .. born
    BY DEF QueueInv, RunsInv
  <2>2. QED
    BY <1>3, <2>1, ContinueRuns DEF Drain
<1>4. ASSUME NEW r \in Runs, ServerExecutes(r) \/ ExecutorTrue(r) \/ ExecutorFalse(r)
      PROVE  RunsInv'
  BY <1>4 DEF ServerExecutes, ExecutorTrue, ExecutorFalse, QueueInv, RunsInv
<1>5. ASSUME NEW r \in Runs, NextOp(r) PROVE RunsInv'
  <2>1. phase[r] = "written" /\ UNCHANGED born /\ Continue(r, Tail(todo[r]))
    BY <1>5 DEF NextOp
  <2>2. /\ Tail(todo[r]) \in Seq(Ops) /\ IsInjective(Tail(todo[r]))
        /\ Range(Tail(todo[r])) \subseteq Range(todo[r])
    BY <2>1, InHandFacts
  <2>3. Range(todo[r]) \subseteq 1 .. born
    BY DEF QueueInv, RunsInv
  <2>4. QED
    BY <2>1, <2>2, <2>3, ContinueRuns
<1>6. ASSUME NEW r \in Runs, ExecutorThrows(r) PROVE RunsInv'
  <2>1. PICK list : list = <<>> /\ Continue(r, list)
    BY <1>6 DEF ExecutorThrows
  <2>2. list \in Seq(Ops) /\ IsInjective(list) /\ Range(list) \subseteq 1 .. born
    BY <2>1, EmptyFacts, Zenon
  <2>3. QED
    BY <1>6, <2>1, <2>2, ContinueRuns DEF ExecutorThrows
<1>7. CASE Restart
  <2>1. /\ phase' = [r \in Runs |-> "idle"] /\ DOMAIN todo' = Runs
        /\ todo' = [r \in Runs |-> todo'[r]] /\ \A r \in Runs : todo'[r] = <<>>
    BY <1>7 DEF Restart
  <2>2. \A r \in Runs : /\ todo'[r] \in Seq(Ops) /\ IsInjective(todo'[r])
                         /\ Range(todo'[r]) = {}
    BY <2>1, EmptyFacts, Zenon
  <2>3. QED
    BY <2>1, <2>2 DEF RunsInv
<1>8. CASE UNCHANGED vars
  BY <1>8 DEF vars, QueueInv, RunsInv
<1>9. QED
  BY <1>1, <1>2, <1>3, <1>4, <1>5, <1>6, <1>7, <1>8 DEF Next, RunStep

\* What enqueue and complete do to the two queues.
LEMMA EnqueueFacts ==
    ASSUME StoreInv, NEW o \in Ops, Enqueue(o)
    PROVE  /\ ops' \in Seq(Ops) /\ Range(ops') = Range(ops) \cup {o}
           /\ l2' \in Seq(Ops) /\ Range(l2') = Range(l2) \cup {o} /\ IsInjective(l2')
BY AppendFacts, PutKeys DEF StoreInv, Enqueue

LEMMA CompleteFacts ==
    ASSUME StoreInv, NEW o \in Ops, Complete(o)
    PROVE  /\ ops' \in Seq(Ops) /\ Range(ops') = Range(ops) \ {o}
           /\ l2' \in Seq(Ops) /\ Range(l2') = Range(l2) \ {o} /\ IsInjective(l2')
           /\ Rising(ops) => Rising(ops')
           /\ Rising(l2) => Rising(l2')
<1>1. /\ Ops \subseteq Nat /\ ops \in Seq(Ops) /\ l2 \in Seq(Ops) /\ IsInjective(l2)
      /\ ops' \in Without(ops, o) /\ l2' = Deleted(l2, o)
  BY OpsFacts DEF StoreInv, Complete
<1>2. /\ ops' \in Seq(Ops) /\ Range(ops') = Range(ops) \ {o}
      /\ Rising(ops) => Rising(ops')
  BY <1>1, WithoutFacts, Zenon
<1>3. /\ l2' \in Seq(Ops) /\ Range(l2') = Range(l2) \ {o} /\ IsInjective(l2')
      /\ Rising(l2) => Rising(l2')
  BY <1>1, DeletedKeys, Zenon
<1>4. QED
  BY <1>2, <1>3, Zenon

LEMMA StoreStep == QueueInv /\ [Next]_vars => StoreInv'
<1> SUFFICES ASSUME QueueInv, [Next]_vars PROVE StoreInv'
  OBVIOUS
<1> USE DEF store
<1>1. CASE EnqueueOp
  <2>1. /\ born + 1 \in Ops /\ born' = born + 1 /\ born \in Nat /\ born' \in 0 .. NumOps
        /\ Enqueue(born + 1)
    BY <1>1, OpsFacts DEF EnqueueOp, QueueInv, StoreInv
  <2>2. /\ ops' \in Seq(Ops) /\ Range(ops') = Range(ops) \cup {born + 1}
        /\ l2' \in Seq(Ops) /\ Range(l2') = Range(l2) \cup {born + 1} /\ IsInjective(l2')
    BY <2>1, EnqueueFacts DEF QueueInv
  <2>3. Range(ops) \subseteq 1 .. born /\ Range(l2) \subseteq 1 .. born
    BY DEF QueueInv, StoreInv
  <2>4. 1 .. born \subseteq 1 .. born' /\ born + 1 \in 1 .. born'
    BY <2>1
  <2>5. QED
    BY <2>1, <2>2, <2>3, <2>4 DEF StoreInv
<1>2. ASSUME NEW r \in Runs, ExecutorFalse(r) PROVE StoreInv'
  <2>1. Enqueue(Head(todo[r])) /\ UNCHANGED born /\ phase[r] \in {"executing", "executed"}
    BY <1>2 DEF ExecutorFalse
  <2>2. Head(todo[r]) \in Ops /\ Head(todo[r]) \in 1 .. born
    BY <2>1, InHandFacts
  <2>3. QED
    BY <2>1, <2>2, EnqueueFacts DEF QueueInv, StoreInv
<1>3. ASSUME NEW r \in Runs, ExecutorTrue(r) PROVE StoreInv'
  <2>1. Complete(Head(todo[r])) /\ UNCHANGED born /\ phase[r] = "executed"
    BY <1>3 DEF ExecutorTrue
  <2>2. Head(todo[r]) \in Ops
    BY <2>1, InHandFacts
  <2>3. QED
    BY <2>1, <2>2, CompleteFacts DEF QueueInv, StoreInv
<1>4. CASE ops' = <<>> /\ UNCHANGED <<born, l2>>
  <2>1. ops' \in Seq(Ops) /\ Range(ops') = {}
    BY <1>4, EmptyFacts, Zenon
  <2>2. QED
    BY <1>4, <2>1 DEF QueueInv, StoreInv
<1>5. CASE Restart
  <2>1. /\ ops' \in Seq(Ops) /\ Range(ops') = {} /\ l2' \in Seq(Ops) /\ Range(l2') = {}
        /\ IsInjective(l2')
    BY <1>5, EmptyFacts, Zenon DEF Restart
  <2>2. QED
    BY <1>5, <2>1 DEF Restart, QueueInv, StoreInv
<1>6. CASE UNCHANGED <<born, store>>
  BY <1>6 DEF QueueInv, StoreInv
<1>7. QED
  BY <1>1, <1>2, <1>3, <1>4, <1>5, <1>6
     DEF Next, RunStep, DequeueAll, Drain, ServerExecutes, NextOp, ExecutorThrows, vars

LEMMA CountStep == QueueInv /\ [Next]_vars => CountInv'
<1> SUFFICES ASSUME QueueInv, [Next]_vars PROVE CountInv'
  OBVIOUS
<1>1. faults' \in 0 .. MaxFaults
  BY OpQueueAssumption
     DEF QueueInv, CountInv, Next, RunStep, EnqueueOp, DequeueAll, Drain, ServerExecutes,
         ExecutorTrue, ExecutorFalse, ExecutorThrows, NextOp, Restart, Fault, vars
<1>2. disturbed' \subseteq Disturbances
  BY DEF QueueInv, CountInv, Next, RunStep, EnqueueOp, DequeueAll, Drain, ServerExecutes,
         ExecutorTrue, ExecutorFalse, ExecutorThrows, NextOp, Restart, Doubt, Disturbances,
         vars
<1>3. executed' \in [Ops -> Nat] /\ \A o \in Ops : executed'[o] > 0 => o <= born'
  <2>1. ASSUME NEW r \in Runs, ServerExecutes(r)
        PROVE  executed' \in [Ops -> Nat] /\ \A o \in Ops : executed'[o] > 0 => o <= born'
    <3>1. Head(todo[r]) \in Ops /\ Head(todo[r]) \in 1 .. born
      BY <2>1, InHandFacts DEF ServerExecutes
    <3>2. /\ executed' = [executed EXCEPT ![Head(todo[r])] = @ + 1] /\ born' = born
          /\ executed \in [Ops -> Nat] /\ \A o \in Ops : executed[o] > 0 => o <= born
      BY <2>1 DEF ServerExecutes, QueueInv, CountInv
    <3> DEFINE h == Head(todo[r])
    <3> HIDE DEF h
    <3>3. h \in Ops /\ h <= born /\ executed' = [executed EXCEPT ![h] = executed[h] + 1]
      BY <3>1, <3>2 DEF h
    <3>4. QED
      BY <3>2, <3>3
  <2>2. CASE EnqueueOp
    BY <2>2, OpsFacts DEF EnqueueOp, QueueInv, CountInv, StoreInv
  <2>3. CASE UNCHANGED <<executed, born>>
    BY <2>3 DEF QueueInv, CountInv
  <2>4. QED
    BY <2>1, <2>2, <2>3
       DEF Next, RunStep, DequeueAll, Drain, ExecutorTrue, ExecutorFalse, ExecutorThrows,
           NextOp, Restart, vars
<1>4. forgotten' \subseteq 1 .. born'
  <2>1. CASE Restart
    BY <2>1 DEF Restart, QueueInv, StoreInv, CountInv
  <2>2. CASE EnqueueOp
    <3>1. /\ born' = born + 1 /\ born \in Nat /\ forgotten' = forgotten
          /\ forgotten \subseteq 1 .. born
      BY <2>2, OpsFacts DEF EnqueueOp, QueueInv, StoreInv, CountInv
    <3>2. 1 .. born \subseteq 1 .. born'
      BY <3>1
    <3>3. QED
      BY <3>1, <3>2
  <2>3. CASE UNCHANGED <<forgotten, born>>
    BY <2>3 DEF QueueInv, CountInv
  <2>4. QED
    BY <2>1, <2>2, <2>3
       DEF Next, RunStep, DequeueAll, Drain, ServerExecutes, ExecutorTrue, ExecutorFalse,
           ExecutorThrows, NextOp, store, vars
<1>5. QED
  BY <1>1, <1>2, <1>3, <1>4 DEF CountInv

LEMMA QueueStep == QueueInv /\ [Next]_vars => QueueInv'
BY RunsStep, StoreStep, CountStep DEF QueueInv

LEMMA QueueTypes == QueueInv => TypeOK
<1> SUFFICES ASSUME QueueInv PROVE TypeOK
  OBVIOUS
<1>1. forgotten \subseteq Ops
  <2>1. born \in 0 .. NumOps /\ forgotten \subseteq 1 .. born
    BY DEF QueueInv, StoreInv, CountInv
  <2>2. 1 .. born \subseteq Ops
    BY <2>1, OpsFacts
  <2>3. QED
    BY <2>1, <2>2
<1>2. QED
  BY <1>1 DEF QueueInv, RunsInv, StoreInv, CountInv, TypeOK

\* Both queues hold operations, the L2 store each once, and so do the lists the
\* runs work through, whatever happens to them.
THEOREM QueueIsWellFormed == Spec => [](TypeOK /\ QueueInv)
<1>1. QueueInv => TypeOK
  BY QueueTypes
<1>2. QED
  BY <1>1, QueueInit, QueueStep, PTL DEF Spec

-----------------------------------------------------------------------------
(* Twice only in doubt: without an overlap or a lost answer there is one run, *)
(* and what it has ahead of it was never executed.                            *)

Clear == disturbed \cap {"overlap", "unanswered"} = {}

Solo == \A q, r \in Runs : phase[q] # "idle" /\ phase[r] # "idle" => q = r

\* The operations run r is still going to execute.
Ahead(r) ==
    IF phase[r] = "idle" THEN {}
    ELSE IF phase[r] \in {"dequeuing", "executing"} THEN Range(todo[r])
    ELSE Range(Tail(todo[r]))

\* The server has executed o and run r has not completed it yet.
AtHand(r, o) == phase[r] = "executed" /\ o = Head(todo[r])

OnceInv ==
    Clear =>
        /\ Solo
        /\ \A o \in Ops :
              /\ executed[o] <= 1
              /\ executed[o] = 1 =>
                    /\ \A r \in Runs : o \notin Ahead(r)
                    /\ o \in Range(l2) \cup Range(ops) => \E r \in Runs : AtHand(r, o)

LEMMA OnceInit == Init => OnceInv
<1> SUFFICES ASSUME Init PROVE OnceInv
  OBVIOUS
<1>1. Solo /\ \A o \in Ops : executed[o] = 0
  BY DEF Init, Solo
<1>2. QED
  BY <1>1 DEF OnceInv

\* While run r is under way nothing else is, and only r has an operation at hand.
LEMMA Alone ==
    ASSUME QueueInv, OnceInv, Clear, NEW r \in Runs, phase[r] # "idle"
    PROVE  /\ \A q \in Runs : q # r => phase[q] = "idle"
           /\ \A o \in Ops : executed[o] = 1 /\ o \in Range(l2) \cup Range(ops) => AtHand(r, o)
           /\ \A o \in Ops : executed[o] = 1 => o \notin Ahead(r)
<1>1. Solo /\ \A q \in Runs : q # r => phase[q] = "idle"
  BY DEF OnceInv, Solo
<1>2. \A q \in Runs, o \in Ops : AtHand(q, o) => q = r
  BY <1>1 DEF AtHand
<1>3. QED
  BY <1>1, <1>2 DEF OnceInv

\* Steps of run r that execute nothing.
LEMMA OnceKept ==
    ASSUME QueueInv, OnceInv, Clear, NEW r \in Runs, phase[r] # "idle",
           executed' = executed, NEW list, NEW p,
           phase' = [phase EXCEPT ![r] = p], todo' = [todo EXCEPT ![r] = list],
           Ahead(r)' \subseteq Ahead(r),
           \A o \in Ops : executed[o] = 1 /\ o \in Range(l2') \cup Range(ops')
                             => (AtHand(r, o))'
    PROVE  OnceInv'
<1>1. /\ phase'[r] = p /\ todo'[r] = list
      /\ \A q \in Runs : q # r => phase'[q] = phase[q]
  BY DEF QueueInv, RunsInv
<1>2. \A q \in Runs : q # r => phase'[q] = "idle"
  BY <1>1, Alone
<1>3. Solo'
  BY <1>2 DEF Solo
<1>4. \A q \in Runs, o \in Ops : executed[o] = 1 => o \notin Ahead(q)'
  BY <1>2, Alone DEF Ahead
<1>5. \A o \in Ops : executed[o] <= 1
  BY DEF OnceInv
<1>6. QED
  BY <1>3, <1>4, <1>5 DEF OnceInv

LEMMA OnceStep == QueueInv /\ OnceInv /\ [Next]_vars => OnceInv'
<1> SUFFICES ASSUME QueueInv, OnceInv, [Next]_vars, Clear' PROVE OnceInv'
  BY DEF OnceInv
<1> USE DEF store
<1>0. Clear /\ disturbed \subseteq disturbed'
  BY DEF Next, RunStep, EnqueueOp, DequeueAll, Drain, ServerExecutes, ExecutorTrue,
         ExecutorFalse, ExecutorThrows, NextOp, Restart, vars, Clear
<1>a. \A o \in Ops : executed[o] <= 1 /\ executed[o] \in Nat
  BY <1>0 DEF OnceInv, QueueInv, CountInv
<1>1. CASE EnqueueOp
  <2>1. /\ born + 1 \in Ops /\ born \in Nat /\ Enqueue(born + 1)
        /\ UNCHANGED <<phase, todo, executed>>
    BY <1>1, OpsFacts DEF EnqueueOp, QueueInv, StoreInv
  <2>2. Range(ops') = Range(ops) \cup {born + 1} /\ Range(l2') = Range(l2) \cup {born + 1}
    BY <2>1, EnqueueFacts DEF QueueInv
  <2>3. executed[born + 1] # 1
    BY <2>1, <1>a DEF QueueInv, CountInv
  <2>4. Solo' /\ \A r \in Runs : Ahead(r)' = Ahead(r)
                    /\ \A o \in Ops : (AtHand(r, o))' <=> AtHand(r, o)
    BY <1>0, <2>1 DEF OnceInv, Solo, Ahead, AtHand
  <2>5. ASSUME NEW o \in Ops, executed[o] = 1
        PROVE  /\ \A r \in Runs : o \notin Ahead(r)'
               /\ o \in Range(l2') \cup Range(ops') => \E r \in Runs : (AtHand(r, o))'
    <3>1. o # born + 1
      BY <2>3, <2>5
    <3>2. o \in Range(l2') \cup Range(ops') => o \in Range(l2) \cup Range(ops)
      BY <2>2, <3>1
    <3>3. /\ \A r \in Runs : o \notin Ahead(r)
          /\ o \in Range(l2) \cup Range(ops) => \E r \in Runs : AtHand(r, o)
      BY <1>0, <2>5 DEF OnceInv
    <3>4. QED
      BY <2>4, <3>2, <3>3
  <2>6. QED
    BY <1>a, <2>1, <2>4, <2>5 DEF OnceInv
<1>2. ASSUME NEW r \in Runs, DequeueAll(r) PROVE OnceInv'
  <2>1. PICK unique \in Distinct(ops \o l2) : todo' = [todo EXCEPT ![r] = unique]
    BY <1>2 DEF DequeueAll
  <2>2. /\ \A q \in Runs : phase[q] = "idle"
        /\ phase' = [phase EXCEPT ![r] = "dequeuing"] /\ UNCHANGED <<ops, l2, executed>>
    BY <1>2 DEF DequeueAll, Clear
  <2>3. /\ phase'[r] = "dequeuing" /\ todo'[r] = unique
        /\ \A q \in Runs : q # r => phase'[q] = "idle"
    BY <2>1, <2>2 DEF QueueInv, RunsInv
  <2>4. Range(unique) = Range(ops) \cup Range(l2)
    <3>1. ops \in Seq(Ops) /\ l2 \in Seq(Ops) /\ Ops \in SUBSET Nat
      BY OpsFacts DEF QueueInv, StoreInv
    <3>2. QED
      BY <2>1, <3>1, DistinctFacts
  <2>5. \A o \in Ops : executed[o] = 1 => o \notin Range(l2) \cup Range(ops)
    BY <1>0, <2>2 DEF OnceInv, AtHand
  <2>6. Solo'
    BY <2>3 DEF Solo
  <2>7. \A q \in Runs, o \in Ops : executed[o] = 1 => o \notin Ahead(q)'
    BY <2>3, <2>4, <2>5 DEF Ahead
  <2>8. QED
    BY <1>a, <2>2, <2>5, <2>6, <2>7 DEF OnceInv
<1>3. ASSUME NEW r \in Runs, Drain(r) PROVE OnceInv'
  <2>1. /\ phase[r] = "dequeuing" /\ ops' = <<>> /\ UNCHANGED <<l2, executed>>
        /\ Continue(r, todo[r])
    BY <1>3 DEF Drain
  <2>2. Range(ops') = {}
    BY <2>1, EmptyFacts, Zenon
  <2>3. Ahead(r)' \subseteq Ahead(r)
    BY <2>1 DEF Continue, Ahead, QueueInv, RunsInv
  <2>4. \A o \in Ops : executed[o] = 1 => o \notin Range(l2') \cup Range(ops')
    BY <1>0, <2>1, <2>2, Alone DEF AtHand
  <2>5. QED
    BY <1>0, <2>1, <2>3, <2>4, OnceKept DEF Continue
<1>4. ASSUME NEW r \in Runs, ServerExecutes(r) PROVE OnceInv'
  <2> DEFINE h == Head(todo[r])
  <2>1. /\ phase[r] = "executing" /\ phase' = [phase EXCEPT ![r] = "executed"]
        /\ executed' = [executed EXCEPT ![h] = executed[h] + 1]
        /\ UNCHANGED <<ops, l2, todo>>
    BY <1>4 DEF ServerExecutes
  <2>2. h \in Ops /\ Range(todo[r]) = {h} \cup Range(Tail(todo[r]))
        /\ h \notin Range(Tail(todo[r]))
    BY <2>1, InHandFacts
  <2>3. h \in Ahead(r) /\ Range(Tail(todo[r])) \subseteq Ahead(r)
    BY <2>1, <2>2 DEF Ahead
  <2>4. executed[h] = 0
    BY <1>0, <1>a, <2>1, <2>2, <2>3, Alone
  <2>5. /\ phase'[r] = "executed"
        /\ \A q \in Runs : q # r => phase'[q] = "idle"
    BY <1>0, <2>1, Alone DEF QueueInv, RunsInv
  <2>6. Solo' /\ Ahead(r)' = Range(Tail(todo[r])) /\ \A q \in Runs : q # r => Ahead(q)' = {}
    BY <2>1, <2>5 DEF Solo, Ahead
  <2>7. \A o \in Ops : o = h => (AtHand(r, o))'
    BY <2>1, <2>5 DEF AtHand
  <2>8. \A o \in Ops : executed[o] = 1 => o \notin Range(l2) \cup Range(ops)
    BY <1>0, <2>1, Alone DEF AtHand
  <2> HIDE DEF h
  <2>9. \A o \in Ops : executed'[o] = IF o = h THEN 1 ELSE executed[o]
    BY <2>1, <2>2, <2>4 DEF QueueInv, CountInv
  <2>10. \A o \in Ops : executed[o] = 1 => o \notin Ahead(r)
    BY <1>0, <2>1, Alone
  <2>11. \A q \in Runs, o \in Ops : executed'[o] = 1 => o \notin Ahead(q)'
    BY <2>2, <2>3, <2>6, <2>9, <2>10
  <2>12. \A o \in Ops : executed'[o] = 1 /\ o \in Range(l2') \cup Range(ops')
                            => (AtHand(r, o))'
    BY <2>1, <2>7, <2>8, <2>9
  <2>13. \A o \in Ops : executed'[o] <= 1
    BY <1>a, <2>9
  <2>14. QED
    BY <2>6, <2>11, <2>12, <2>13 DEF OnceInv
<1>5. ASSUME NEW r \in Runs, ExecutorTrue(r) PROVE OnceInv'
  <2>1. /\ phase[r] = "executed" /\ phase' = [phase EXCEPT ![r] = "written"]
        /\ Complete(Head(todo[r])) /\ UNCHANGED <<todo, executed>>
        /\ todo' = [todo EXCEPT ![r] = todo[r]]
    BY <1>5 DEF ExecutorTrue, QueueInv, RunsInv
  <2>2. Head(todo[r]) \in Ops
    BY <2>1, InHandFacts
  <2>3. Range(ops') = Range(ops) \ {Head(todo[r])} /\ Range(l2') = Range(l2) \ {Head(todo[r])}
    BY <2>1, <2>2, CompleteFacts DEF QueueInv
  <2>4. \A o \in Ops : executed[o] = 1 => o \notin Range(l2') \cup Range(ops')
    BY <1>0, <2>1, <2>3, Alone DEF AtHand
  <2>5. Ahead(r)' \subseteq Ahead(r)
    BY <2>1 DEF Ahead, QueueInv, RunsInv
  <2>6. QED
    BY <1>0, <2>1, <2>4, <2>5, OnceKept
<1>6. ASSUME NEW r \in Runs, NextOp(r) PROVE OnceInv'
  <2>1. /\ phase[r] = "written" /\ Continue(r, Tail(todo[r]))
        /\ UNCHANGED <<ops, l2, executed>>
    BY <1>6 DEF NextOp
  <2>2. Ahead(r)' \subseteq Ahead(r)
    BY <2>1 DEF Continue, Ahead, QueueInv, RunsInv
  <2>3. \A o \in Ops : executed[o] = 1 => o \notin Range(l2') \cup Range(ops')
    BY <1>0, <2>1, Alone DEF AtHand
  <2>4. QED
    BY <1>0, <2>1, <2>2, <2>3, OnceKept DEF Continue
<1>7. ASSUME NEW r \in Runs, ExecutorFalse(r) PROVE OnceInv'
  <2>1. /\ phase[r] = "executing" /\ phase' = [phase EXCEPT ![r] = "written"]
        /\ Enqueue(Head(todo[r])) /\ UNCHANGED <<todo, executed>>
        /\ todo' = [todo EXCEPT ![r] = todo[r]]
    BY <1>7 DEF ExecutorFalse, Doubt, Clear, QueueInv, RunsInv
  <2>2. /\ Head(todo[r]) \in Ops
        /\ Range(todo[r]) = {Head(todo[r])} \cup Range(Tail(todo[r]))
    BY <2>1, InHandFacts
  <2>3. /\ Range(ops') = Range(ops) \cup {Head(todo[r])}
        /\ Range(l2') = Range(l2) \cup {Head(todo[r])}
    BY <2>1, <2>2, EnqueueFacts DEF QueueInv
  <2>4. Head(todo[r]) \in Ahead(r) /\ Ahead(r)' \subseteq Ahead(r)
    BY <2>1, <2>2 DEF Ahead, QueueInv, RunsInv
  <2>5. executed[Head(todo[r])] # 1
    BY <1>0, <2>1, <2>2, <2>4, Alone
  <2>6. \A o \in Ops : executed[o] = 1 => o \notin Range(l2') \cup Range(ops')
    BY <1>0, <2>1, <2>3, <2>5, Alone DEF AtHand
  <2>7. QED
    BY <1>0, <2>1, <2>4, <2>6, OnceKept
<1>8. ASSUME NEW r \in Runs, ExecutorThrows(r) PROVE OnceInv'
  <2>1. /\ phase[r] = "executing" /\ UNCHANGED <<ops, l2, executed>>
    BY <1>8 DEF ExecutorThrows, Doubt, Clear
  <2>2. PICK list : list = <<>> /\ Continue(r, list)
    BY <1>8 DEF ExecutorThrows
  <2>3. Ahead(r)' \subseteq Ahead(r)
    BY <2>2 DEF Continue, Ahead, QueueInv, RunsInv
  <2>4. \A o \in Ops : executed[o] = 1 => o \notin Range(l2') \cup Range(ops')
    BY <1>0, <2>1, Alone DEF AtHand
  <2>5. QED
    BY <1>0, <2>1, <2>2, <2>3, <2>4, OnceKept DEF Continue
<1>9. CASE Restart
  <2>1. /\ ops' = <<>> /\ l2' = <<>> /\ executed' = executed
        /\ \A q \in Runs : phase'[q] = "idle"
    BY <1>9 DEF Restart
  <2>2. Range(ops') = {} /\ Range(l2') = {}
    BY <2>1, EmptyFacts, Zenon
  <2>3. Solo' /\ \A q \in Runs : Ahead(q)' = {}
    BY <2>1 DEF Solo, Ahead
  <2>4. QED
    BY <1>a, <2>1, <2>2, <2>3 DEF OnceInv
<1>10. CASE UNCHANGED vars
  BY <1>0, <1>10 DEF vars, OnceInv, Solo, Ahead, AtHand
<1>11. QED
  BY <1>1, <1>2, <1>3, <1>4, <1>5, <1>6, <1>7, <1>8, <1>9, <1>10 DEF Next, RunStep

\* Without an overlap or a lost answer the server executes every operation at most once,
\* whatever is refused, dropped from memory or forgotten in a restart.
THEOREM TwiceOnlyInDoubt == Spec => []RepeatedOnlyInDoubt
<1>1. QueueInv /\ OnceInv => RepeatedOnlyInDoubt
  BY DEF QueueInv, CountInv, OnceInv, Clear, RepeatedOnlyInDoubt
<1>2. QED
  BY QueueInit, QueueStep, OnceInit, OnceStep, <1>1, PTL DEF Spec

-----------------------------------------------------------------------------
(* In order when nothing is disturbed: the queues and the run's list rise,    *)
(* what is not in L2 any more is older than all that is, and the run and the  *)
(* memory queue share out between them what L2 holds.                         *)

AllRise == Rising(ops) /\ Rising(l2) /\ \A r \in Runs : Rising(todo[r])

LowerDone == \A x \in 1 .. born, y \in Range(l2) : x \notin Range(l2) => x < y

\* The operations run r has not completed.
Left(r) == IF phase[r] = "written" THEN Range(Tail(todo[r])) ELSE Range(todo[r])

Cover ==
    /\ (\A r \in Runs : phase[r] \in {"idle", "dequeuing"}) => Range(ops) = Range(l2)
    /\ \A r \in Runs : phase[r] = "dequeuing" => Range(todo[r]) \subseteq Range(l2)
    /\ \A r \in Runs : phase[r] \in {"executing", "executed", "written"} =>
          /\ Range(l2) = Left(r) \cup Range(ops)
          /\ \A x \in Range(todo[r]), y \in Range(ops) : x < y

OrderInv == disturbed = {} => AllRise /\ LowerDone /\ Cover

LEMMA OrderInit == Init => OrderInv
<1> SUFFICES ASSUME Init PROVE OrderInv
  OBVIOUS
<1>1. /\ ops = <<>> /\ l2 = <<>> /\ \A r \in Runs : todo[r] = <<>> /\ phase[r] = "idle"
  BY DEF Init
<1>2. /\ Rising(ops) /\ Rising(l2) /\ \A r \in Runs : Rising(todo[r])
      /\ Range(ops) = {} /\ Range(l2) = {}
  BY <1>1, EmptyFacts, Zenon
<1>3. QED
  BY <1>1, <1>2 DEF OrderInv, AllRise, LowerDone, Cover

LEMMA OrderStep == QueueInv /\ OnceInv /\ OrderInv /\ [Next]_vars => OrderInv'
<1> SUFFICES ASSUME QueueInv, OnceInv, OrderInv, [Next]_vars, disturbed' = {} PROVE OrderInv'
  BY DEF OrderInv
<1> USE DEF store
<1>0. disturbed = {} /\ Clear
  BY DEF Next, RunStep, EnqueueOp, DequeueAll, Drain, ServerExecutes, ExecutorTrue,
         ExecutorFalse, ExecutorThrows, NextOp, Restart, vars, Clear
<1>a. AllRise /\ LowerDone /\ Cover
  BY <1>0 DEF OrderInv
<1>b. /\ ops \in Seq(Ops) /\ Range(ops) \subseteq 1 .. born
      /\ l2 \in Seq(Ops) /\ Range(l2) \subseteq 1 .. born /\ IsInjective(l2)
      /\ born \in Nat /\ Ops \subseteq Nat
      /\ \A r \in Runs : todo[r] \in Seq(Ops) /\ Range(todo[r]) \subseteq 1 .. born
      /\ DOMAIN todo = Runs /\ DOMAIN phase = Runs
  BY OpsFacts DEF QueueInv, StoreInv, RunsInv
<1>1. CASE EnqueueOp
  <2> DEFINE b == born + 1
  <2>1. /\ b \in Ops /\ b \in Nat /\ born' = b /\ Enqueue(b) /\ UNCHANGED <<phase, todo>>
    BY <1>1, <1>b, OpsFacts DEF EnqueueOp
  <2>2. Range(ops') = Range(ops) \cup {b} /\ Range(l2') = Range(l2) \cup {b}
    BY <2>1, EnqueueFacts DEF QueueInv
  <2>3. /\ \A x \in 1 .. born : x < b
        /\ \A x \in 1 .. b : x \in 1 .. born \/ x = b
        /\ 1 .. born \subseteq Nat
    BY <1>b
  <2> HIDE DEF b
  <2>4. b \notin Range(l2) /\ Ops \in SUBSET Nat
    <3>1. b \notin 1 .. born
      BY <2>1, <2>3
    <3>2. QED
      BY <1>b, <3>1
  <2>5. ops' = Append(ops, b) /\ l2' = Append(l2, b)
    BY <2>1, <2>4 DEF Enqueue, Put
  <2>6. Rising(ops') /\ Rising(l2')
    <3>1. Rising(ops) /\ \A x \in Range(ops) : x < b
      BY <1>a, <1>b, <2>3 DEF AllRise
    <3>2. Rising(l2) /\ \A x \in Range(l2) : x < b
      BY <1>a, <1>b, <2>3 DEF AllRise
    <3>3. QED
      BY <1>b, <2>1, <2>4, <2>5, <3>1, <3>2, AppendRises
  <2>7. AllRise'
    BY <1>a, <2>1, <2>6 DEF AllRise
  <2>8. LowerDone'
    BY <1>a, <2>1, <2>2, <2>3 DEF LowerDone
  <2>9. \A x \in 1 .. born, y \in Range(ops') : y \notin Range(ops) => x < y
    BY <2>2, <2>3
  <2>10. Cover'
    BY <1>a, <1>b, <2>1, <2>2, <2>9 DEF Cover, Left
  <2>11. QED
    BY <2>7, <2>8, <2>10 DEF OrderInv
<1>2. ASSUME NEW r \in Runs, DequeueAll(r) PROVE OrderInv'
  <2>1. PICK unique \in Distinct(ops \o l2) : todo' = [todo EXCEPT ![r] = unique]
    BY <1>2 DEF DequeueAll
  <2>2. /\ \A q \in Runs : phase[q] = "idle"
        /\ phase' = [phase EXCEPT ![r] = "dequeuing"] /\ UNCHANGED <<ops, l2, born>>
    BY <1>0, <1>2 DEF DequeueAll
  <2>3. Range(ops) = Range(l2) /\ Rising(ops)
    BY <1>a, <2>2 DEF Cover, AllRise
  <2>4. Range(unique) = Range(l2) /\ Rising(unique)
    <3>1. Ops \in SUBSET Nat
      BY <1>b
    <3>2. /\ Range(unique) = Range(ops) \cup Range(l2)
          /\ Rising(ops) /\ Range(l2) \subseteq Range(ops) => Rising(unique)
      BY <1>b, <2>1, <3>1, DistinctFacts
    <3>3. QED
      BY <2>3, <3>2
  <2>5. /\ todo'[r] = unique /\ phase'[r] = "dequeuing"
        /\ \A q \in Runs : q # r => todo'[q] = todo[q] /\ phase'[q] = "idle"
    BY <1>b, <2>1, <2>2
  <2>6. AllRise' /\ LowerDone'
    BY <1>a, <2>2, <2>4, <2>5 DEF AllRise, LowerDone
  <2>7. Cover'
    BY <2>2, <2>3, <2>4, <2>5 DEF Cover
  <2>8. QED
    BY <2>6, <2>7 DEF OrderInv
<1>3. ASSUME NEW r \in Runs, Drain(r) PROVE OrderInv'
  <2>1. /\ phase[r] = "dequeuing" /\ ops' = <<>> /\ UNCHANGED <<l2, born>>
        /\ Continue(r, todo[r]) /\ Range(ops) \subseteq Range(todo[r])
    BY <1>0, <1>3 DEF Drain
  <2>2. Range(ops') = {} /\ Rising(ops')
    BY <2>1, EmptyFacts, Zenon
  <2>3. \A q \in Runs : q # r => phase[q] = "idle"
    BY <1>0, <2>1, Alone
  <2>4. Range(todo[r]) = Range(l2)
    BY <1>a, <2>1, <2>3 DEF Cover
  <2>5. /\ \A q \in Runs : todo'[q] = todo[q] /\ (q # r => phase'[q] = "idle")
        /\ phase'[r] = IF todo[r] = <<>> THEN "idle" ELSE "executing"
    BY <1>b, <2>1, <2>3 DEF Continue
  <2>6. AllRise' /\ LowerDone'
    BY <1>a, <2>1, <2>2, <2>5 DEF AllRise, LowerDone
  <2>7. todo[r] = <<>> => Range(l2) = {}
    BY <2>4, EmptyFacts, Zenon
  <2>8. Cover'
    BY <2>1, <2>2, <2>4, <2>5, <2>7 DEF Cover, Left
  <2>9. QED
    BY <2>6, <2>8 DEF OrderInv
<1>4. ASSUME NEW r \in Runs, ServerExecutes(r) PROVE OrderInv'
  <2>1. /\ phase[r] = "executing" /\ phase' = [phase EXCEPT ![r] = "executed"]
        /\ UNCHANGED <<ops, l2, todo, born>>
    BY <1>4 DEF ServerExecutes
  <2>2. AllRise' /\ LowerDone'
    BY <1>a, <2>1 DEF AllRise, LowerDone
  <2>3. /\ phase'[r] = "executed" /\ \A q \in Runs : q # r => phase'[q] = phase[q]
    BY <1>b, <2>1
  <2>4. Cover'
    BY <1>a, <2>1, <2>3 DEF Cover, Left
  <2>5. QED
    BY <2>2, <2>4 DEF OrderInv
<1>5. ASSUME NEW r \in Runs, ExecutorTrue(r) PROVE OrderInv'
  <2> DEFINE h == Head(todo[r])
             rest == Range(Tail(todo[r]))
  <2>1. /\ phase[r] = "executed" /\ phase' = [phase EXCEPT ![r] = "written"]
        /\ Complete(h) /\ UNCHANGED <<todo, born>>
    BY <1>5 DEF ExecutorTrue
  <2>2. /\ h \in Ops /\ Range(todo[r]) = {h} \cup rest /\ h \notin rest
        /\ todo[r] \in Seq(Ops) /\ todo[r] # <<>>
    BY <2>1, InHandFacts
  <2>3. /\ Range(ops') = Range(ops) \ {h} /\ Range(l2') = Range(l2) \ {h}
        /\ Rising(ops) => Rising(ops')
        /\ Rising(l2) => Rising(l2')
    BY <2>1, <2>2, CompleteFacts DEF QueueInv
  <2>4. \A x \in rest : h < x
    BY <1>a, <2>2, TailFacts DEF AllRise
  <2>5. /\ Range(l2) = Range(todo[r]) \cup Range(ops)
        /\ \A x \in Range(todo[r]), y \in Range(ops) : x < y
    BY <1>a, <2>1 DEF Cover, Left
  <2>6. /\ phase'[r] = "written" /\ \A q \in Runs : q # r => phase'[q] = "idle"
    BY <1>0, <1>b, <2>1, Alone
  <2> HIDE DEF h, rest
  <2>7. AllRise'
    BY <1>a, <2>1, <2>3 DEF AllRise
  <2>8. LowerDone'
    <3>1. \A y \in Range(l2) \ {h} : h < y
      BY <2>2, <2>4, <2>5
    <3>2. QED
      BY <1>a, <2>1, <2>3, <3>1 DEF LowerDone
  <2>9. Left(r)' = rest
    BY <2>1, <2>6 DEF Left, rest
  <2>10. Range(l2') = rest \cup Range(ops')
    BY <2>2, <2>3, <2>5
  <2>11. \A x \in Range(todo'[r]), y \in Range(ops') : x < y
    BY <2>1, <2>3, <2>5
  <2>12. Cover'
    BY <2>6, <2>9, <2>10, <2>11 DEF Cover
  <2>13. QED
    BY <2>7, <2>8, <2>12 DEF OrderInv
<1>6. ASSUME NEW r \in Runs, NextOp(r) PROVE OrderInv'
  <2> DEFINE list == Tail(todo[r])
  <2>1. /\ phase[r] = "written" /\ Continue(r, list) /\ UNCHANGED <<ops, l2, born>>
    BY <1>6 DEF NextOp
  <2>2. todo[r] \in Seq(Ops) /\ todo[r] # <<>>
    BY <2>1, InHandFacts
  <2>3. Range(list) \subseteq Range(todo[r]) /\ Rising(list)
    BY <1>a, <2>2, TailFacts DEF AllRise
  <2>4. /\ Range(l2) = Range(list) \cup Range(ops)
        /\ \A x \in Range(list), y \in Range(ops) : x < y
    BY <1>a, <2>1, <2>3 DEF Cover, Left
  <2>5. \A q \in Runs : q # r => phase[q] = "idle"
    BY <1>0, <2>1, Alone
  <2> HIDE DEF list
  <2>6. /\ todo'[r] = list /\ phase'[r] = IF list = <<>> THEN "idle" ELSE "executing"
        /\ \A q \in Runs : q # r => todo'[q] = todo[q] /\ phase'[q] = "idle"
    BY <1>b, <2>1, <2>5 DEF Continue
  <2>7. AllRise' /\ LowerDone'
    BY <1>a, <2>1, <2>3, <2>6 DEF AllRise, LowerDone
  <2>8. list = <<>> => Range(list) = {}
    BY EmptyFacts, Zenon
  <2>9. Cover'
    BY <2>1, <2>4, <2>6, <2>8 DEF Cover, Left
  <2>10. QED
    BY <2>7, <2>9 DEF OrderInv
<1>7. CASE UNCHANGED vars
  BY <1>a, <1>7 DEF vars, OrderInv, AllRise, LowerDone, Cover, Left
<1>8. CASE Restart
  <2>1. /\ ops' = <<>> /\ l2' = <<>>
        /\ \A q \in Runs : phase'[q] = "idle" /\ todo'[q] = <<>>
    BY <1>8 DEF Restart
  <2>2. /\ Range(ops') = {} /\ Range(l2') = {} /\ Rising(ops') /\ Rising(l2')
        /\ \A q \in Runs : Rising(todo'[q])
    BY <2>1, EmptyFacts, Zenon
  <2>3. QED
    BY <2>1, <2>2 DEF OrderInv, AllRise, LowerDone, Cover
<1>9. QED
  BY <1>1, <1>2, <1>3, <1>4, <1>5, <1>6, <1>7, <1>8
     DEF Next, RunStep, ExecutorFalse, ExecutorThrows

\* As long as nothing is refused, dropped or overlapped, the server has executed every
\* operation enqueued before one it has executed, but those pending at a restart.
THEOREM ExecutedInOrder == Spec => []InOrderUnlessDisturbed
<1>1. IInv /\ QueueInv /\ OnceInv /\ OrderInv => InOrderUnlessDisturbed
  <2> SUFFICES ASSUME IInv, QueueInv, OnceInv, OrderInv, disturbed = {},
                      NEW o \in 1 .. born, NEW p \in 1 .. born,
                      o < p, executed[p] > 0, ~(executed[o] > 0), o \notin forgotten
               PROVE  FALSE
    BY DEF InOrderUnlessDisturbed
  <2>1. Clear /\ AllRise /\ LowerDone /\ Cover
    BY DEF Clear, OrderInv
  <2>2. o \in Ops /\ p \in Ops /\ o \in Nat /\ p \in Nat
    BY OpsFacts DEF QueueInv, StoreInv
  <2>3. executed[o] = 0 /\ executed[p] = 1
    BY <2>1, <2>2 DEF QueueInv, CountInv, OnceInv
  <2>4. o \in Range(l2)
    BY <2>3 DEF IInv, NeverLost
  <2>5. p \in Range(l2)
    BY <2>1, <2>2, <2>4 DEF LowerDone
  <2>6. PICK r \in Runs : AtHand(r, p)
    BY <2>1, <2>2, <2>3, <2>5 DEF OnceInv
  <2>7. phase[r] = "executed" /\ p = Head(todo[r])
    BY <2>6 DEF AtHand
  <2>8. /\ todo[r] \in Seq(Ops) /\ todo[r] # <<>>
        /\ Range(todo[r]) = {p} \cup Range(Tail(todo[r]))
    BY <2>7, InHandFacts
  <2>9. \A x \in Range(Tail(todo[r])) : p < x
    BY <2>1, <2>7, <2>8, TailFacts DEF AllRise
  <2>10. /\ Range(l2) = Range(todo[r]) \cup Range(ops)
         /\ \A x \in Range(todo[r]), y \in Range(ops) : x < y
    BY <2>1, <2>7 DEF Cover, Left
  <2>11. o = p \/ p < o
    BY <2>4, <2>8, <2>9, <2>10
  <2>12. QED
    BY <2>2, <2>11
<1>2. QED
  BY IInvInit, IInvStep, QueueInit, QueueStep, OnceInit, OnceStep, OrderInit, OrderStep,
     <1>1, PTL DEF Spec
=============================================================================
