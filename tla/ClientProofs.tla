---------------------------- MODULE ClientProofs ----------------------------
(***************************************************************************)
(* What TLAPS proves of the client beside its queue, and of the scripts of *)
(* its repository: of the provider of the runtime (RuntimeBoot), the       *)
(* offline cache and the version stack (ManifestCache), the engine that    *)
(* swaps features (HotSwap), the store of the front end (FrontendStore),   *)
(* the engines (ManifestEngines), the ways a configuration comes about     *)
(* (ClientConfig), the wiki and the gates (RepositoryScripts); for any     *)
(* number of calls, versions, features, documents and files.               *)
(***************************************************************************)
EXTENDS RuntimeBoot, ManifestCache, HotSwap, RepositoryScripts, FrontendStore, ManifestEngines,
        ClientConfig, FiniteSetTheorems, WellFoundedInduction, TLAPS

-----------------------------------------------------------------------------
(* The provider of the runtime *)

BootSpec == BootInit /\ [][BootNext]_clientVars

\* Boots are numbered in the order of the manifests (RuntimeBoot!Boots).
BootsNumbered == \E n \in Nat : Calls = 1 .. n

Level == {"unknown", "offline", "metered", "online"}
Listener == [state : [level : Level, isMetered : BOOLEAN], handler : BOOLEAN, subscribed : BOOLEAN]
BootMemory == [boot : {0} \cup Boots, runtime : BOOLEAN, status : {"booting", "ready", "error"},
               shown : Level, listener : [Boots -> Listener]]

BootTypes ==
    /\ memory \in BootMemory
    /\ outside \in [network : Network, untold : SUBSET Boots]
    /\ log \in [cutShort : SUBSET Boots, late : BOOLEAN]
    /\ call \in [Boots -> {Idle} \cup [at : {"persist"}] \cup [at : {"fetch"}, network : Network]]

\* Nothing has happened to the boots to come.
BootsToCome ==
    \A b \in Boots : b > memory.boot => call[b] = Idle /\ memory.listener[b] = NewListener

\* The boot of the provider is under way or subscribed only for a runtime that is there,
\* whose listener still has its handler.
RunningBoot ==
    memory.boot # 0 =>
        IF memory.runtime THEN memory.listener[memory.boot].handler
        ELSE call[memory.boot] = Idle /\ ~memory.listener[memory.boot].subscribed

\* A boot before it is under way or subscribed only if it was cut short, and then no
\* handler listens to it.
BootsBefore ==
    \A b \in Boots : b < memory.boot /\ (call[b] # Idle \/ memory.listener[b].subscribed) =>
        b \in log.cutShort /\ ~memory.listener[b].handler

\* A subscribed listener that has been told knows the network, and what it knows is shown.
Told ==
    LET b == memory.boot IN
    b # 0 /\ memory.runtime /\ memory.listener[b].subscribed =>
        /\ b \notin outside.untold =>
              memory.listener[b].state.level = ToConnectivityLevel(outside.network)
        /\ log.late \/ memory.shown = memory.listener[b].state.level

BootInv ==
    /\ BootTypes /\ (memory.runtime => memory.boot # 0)
    /\ BootsToCome /\ RunningBoot /\ BootsBefore /\ Told

\* What the listener and the provider have been told of the network n
LEMMA UpdateStateFacts ==
    ASSUME NEW m \in BootMemory, NEW b \in Boots, NEW n \in Network
    PROVE  LET u == UpdateState(m, b, n) IN
           /\ u \in BootMemory
           /\ u.boot = m.boot /\ u.runtime = m.runtime /\ u.status = m.status
           /\ \A c \in Boots \ {b} : u.listener[c] = m.listener[c]
           /\ u.listener[b].handler = m.listener[b].handler
           /\ u.listener[b].subscribed = m.listener[b].subscribed
           /\ u.listener[b].state.level = ToConnectivityLevel(n)
           /\ \/ u.shown = m.shown
              \/ m.listener[b].handler /\ u.shown = ToConnectivityLevel(n)
           /\ m.listener[b].handler /\ m.shown = m.listener[b].state.level =>
                 u.shown = ToConnectivityLevel(n)
<1> DEFINE new == ToNetworkDetails(n)
           u == UpdateState(m, b, n)
<1>1. new \in [level : Level, isMetered : BOOLEAN] /\ new.level = ToConnectivityLevel(n)
  BY DEF ToNetworkDetails, ToConnectivityLevel, Network, Level
<1>2. m.listener \in [Boots -> Listener] /\ m.listener[b] \in Listener /\ m.shown \in Level
  BY DEF BootMemory
<1> HIDE DEF new
<1>3. CASE new.level = m.listener[b].state.level
  <2>1. u = m
    BY <1>3 DEF UpdateState, new
  <2>2. QED
    BY <1>1, <1>3, <2>1
<1>4. CASE new.level # m.listener[b].state.level
  <2> DEFINE l == [m.listener[b] EXCEPT !.state = new]
             shown == IF m.listener[b].handler THEN new.level ELSE m.shown
  <2>1. u = [m EXCEPT !.listener = [m.listener EXCEPT ![b] = l], !.shown = shown]
    BY <1>4 DEF UpdateState, new, BootMemory, Listener
  <2>2. /\ l \in Listener /\ l.state = new /\ l.handler = m.listener[b].handler
        /\ l.subscribed = m.listener[b].subscribed /\ shown \in Level
    BY <1>1, <1>2 DEF Listener
  <2> HIDE DEF l, u
  <2>3. [m.listener EXCEPT ![b] = l] \in [Boots -> Listener]
    BY <1>2, <2>2
  <2>4. /\ u \in BootMemory /\ u.boot = m.boot /\ u.runtime = m.runtime /\ u.status = m.status
        /\ u.shown = shown /\ u.listener = [m.listener EXCEPT ![b] = l]
    BY <2>1, <2>2, <2>3 DEF BootMemory
  <2>5. u.listener[b] = l /\ \A c \in Boots \ {b} : u.listener[c] = m.listener[c]
    BY <1>2, <2>4
  <2>6. QED
    BY <1>1, <1>4, <2>2, <2>4, <2>5 DEF u
<1>5. QED
  BY <1>3, <1>4

\* A boot that ends subscribes its listener, and no other.
LEMMA ListeningFacts ==
    ASSUME NEW m \in BootMemory, NEW b \in Boots, NEW n \in Network
    PROVE  LET u == Listening(m, b, n) IN
           /\ u \in BootMemory
           /\ u.boot = m.boot /\ u.runtime = m.runtime /\ u.status = m.status
           /\ \A c \in Boots \ {b} : u.listener[c] = m.listener[c]
           /\ u.listener[b].handler = m.listener[b].handler
           /\ u.listener[b].subscribed
<1> DEFINE v == UpdateState(m, b, n)
           l == [v.listener[b] EXCEPT !.subscribed = TRUE]
           u == Listening(m, b, n)
<1>1. /\ v \in BootMemory /\ v.boot = m.boot /\ v.runtime = m.runtime /\ v.status = m.status
      /\ \A c \in Boots \ {b} : v.listener[c] = m.listener[c]
      /\ v.listener[b].handler = m.listener[b].handler
  BY UpdateStateFacts
<1>2. u = [v EXCEPT !.listener = [v.listener EXCEPT ![b] = l]]
  BY DEF Listening
<1> HIDE DEF v, u
<1>3. v.listener \in [Boots -> Listener] /\ v.listener[b] \in Listener
  BY <1>1 DEF BootMemory
<1>4. l \in Listener /\ l.subscribed /\ l.handler = v.listener[b].handler
  BY <1>3 DEF Listener
<1> HIDE DEF l
<1>5. [v.listener EXCEPT ![b] = l] \in [Boots -> Listener]
  BY <1>3, <1>4
<1>6. /\ u \in BootMemory /\ u.boot = v.boot /\ u.runtime = v.runtime /\ u.status = v.status
      /\ u.listener = [v.listener EXCEPT ![b] = l]
  BY <1>1, <1>2, <1>5 DEF BootMemory
<1>7. u.listener[b] = l /\ \A c \in Boots \ {b} : u.listener[c] = v.listener[c]
  BY <1>3, <1>6
<1>8. QED
  BY <1>1, <1>4, <1>6, <1>7 DEF u

\* The clean-up of an effect reaches the listener of its boot.
LEMMA CleanUpFacts ==
    ASSUME NEW m \in BootMemory
    PROVE  LET u == CleanUp(m) IN
           /\ u \in BootMemory
           /\ u.boot = m.boot /\ u.runtime = m.runtime /\ u.status = m.status /\ u.shown = m.shown
           /\ \A c \in Boots : c # m.boot => u.listener[c] = m.listener[c]
           /\ m.boot # 0 /\ m.runtime =>
                 ~u.listener[m.boot].handler /\ ~u.listener[m.boot].subscribed
           /\ ~m.runtime => u = m
<1>1. CASE m.boot = 0 \/ ~m.runtime
  BY <1>1 DEF CleanUp
<1>2. CASE m.boot # 0 /\ m.runtime
  <2> DEFINE b == m.boot
             l == [m.listener[b] EXCEPT !.handler = FALSE, !.subscribed = FALSE]
             u == CleanUp(m)
  <2>1. b \in Boots /\ m.listener \in [Boots -> Listener] /\ m.listener[b] \in Listener
    BY <1>2 DEF BootMemory
  <2>2. u = [m EXCEPT !.listener = [m.listener EXCEPT ![b] = l]]
    BY <1>2, <2>1 DEF CleanUp, Destroy, BootMemory, Listener
  <2>3. l \in Listener /\ ~l.handler /\ ~l.subscribed
    BY <2>1 DEF Listener
  <2> HIDE DEF l, u
  <2>4. [m.listener EXCEPT ![b] = l] \in [Boots -> Listener]
    BY <2>1, <2>3
  <2>5. /\ u \in BootMemory /\ u.boot = m.boot /\ u.runtime = m.runtime /\ u.status = m.status
        /\ u.shown = m.shown /\ u.listener = [m.listener EXCEPT ![b] = l]
    BY <2>2, <2>4 DEF BootMemory
  <2>6. u.listener[b] = l /\ \A c \in Boots \ {b} : u.listener[c] = m.listener[c]
    BY <2>1, <2>5
  <2>7. QED
    BY <1>2, <2>3, <2>5, <2>6 DEF u
<1>3. QED
  BY <1>1, <1>2

LEMMA BootInitially ==
    ASSUME BootInit, BootsNumbered
    PROVE  BootInv
<1>1. PICK n \in Network :
        ClientInit([boot |-> 0, runtime |-> FALSE, status |-> "booting", shown |-> "unknown",
                    listener |-> [b \in Boots |-> NewListener]],
                   {}, [network |-> n, untold |-> {}], [cutShort |-> {}, late |-> FALSE])
  BY DEF BootInit
<1>2. NewListener \in Listener
  BY DEF NewListener, Listener, Level
<1>3. BootTypes
  BY <1>1, <1>2 DEF ClientInit, BootTypes, BootMemory, Level, Boots
<1>4. memory.boot = 0 /\ memory.runtime = FALSE
  BY <1>1 DEF ClientInit
<1>5. BootsToCome
  BY <1>1 DEF ClientInit, BootsToCome, Boots
<1>6. \A b \in Boots : ~(b < 0)
  BY DEF BootsNumbered, Boots
<1>7. QED
  BY <1>3, <1>4, <1>5, <1>6 DEF BootInv, RunningBoot, BootsBefore, Told

\* A boot that is under way is the provider's, which then has its runtime, or one before.
LEMMA BootUnderWay ==
    ASSUME BootInv, BootsNumbered, NEW b \in Boots, call[b] # Idle
    PROVE  /\ b \in Nat /\ memory.boot \in Nat /\ b <= memory.boot
           /\ b = memory.boot => memory.runtime /\ memory.listener[b].handler
           /\ b # memory.boot => b \in log.cutShort /\ ~memory.listener[b].handler
<1>1. b \in Nat /\ memory.boot \in Nat /\ b # 0
  BY DEF BootsNumbered, BootInv, BootTypes, BootMemory, Boots
<1>2. b <= memory.boot
  BY <1>1 DEF BootInv, BootsToCome
<1>3. QED
  BY <1>1, <1>2 DEF BootInv, RunningBoot, BootsBefore

LEMMA GiveManifestStep ==
    ASSUME BootInv, BootsNumbered, NEW valid \in BOOLEAN, GiveManifest(valid)
    PROVE  BootInv'
<1> DEFINE b == memory.boot + 1
           m == CleanUp(memory)
           step == IF valid THEN [at |-> "persist"] ELSE Idle
<1> memory \in BootMemory
  BY DEF BootInv, BootTypes
<1>1. /\ b \in Boots /\ b \in Nat /\ memory.boot \in Nat /\ b # memory.boot /\ b # 0
      /\ \A c \in Boots : c \in Nat /\ c # 0 /\ (c > b => c > memory.boot)
                          /\ (c < b => c # b /\ c <= memory.boot)
  BY DEF GiveManifest, BootsNumbered, BootMemory, Boots
<1>2. /\ m \in BootMemory /\ m.boot = memory.boot /\ m.shown = memory.shown
      /\ m.status = memory.status
      /\ \A c \in Boots : c # memory.boot => m.listener[c] = memory.listener[c]
      /\ memory.boot # 0 /\ memory.runtime =>
            ~m.listener[memory.boot].handler /\ ~m.listener[memory.boot].subscribed
      /\ ~memory.runtime => m = memory
  BY CleanUpFacts
<1>3. /\ memory' = [m EXCEPT !.boot = b, !.runtime = valid,
                             !.status = IF valid THEN @ ELSE "error"]
      /\ call' = [call EXCEPT ![b] = step]
      /\ log' = IF memory.boot # 0 /\ memory.runtime /\ call[memory.boot] # Idle
                  THEN [log EXCEPT !.cutShort = @ \cup {memory.boot}] ELSE log
      /\ outside' = outside
  BY DEF GiveManifest, Begins
<1> HIDE DEF m
<1>4. /\ memory' \in BootMemory /\ memory'.boot = b /\ memory'.runtime = valid
      /\ memory'.shown = memory.shown /\ memory'.listener = m.listener
  BY <1>1, <1>2, <1>3 DEF BootMemory
<1>5. /\ call' \in [Boots -> {Idle} \cup [at : {"persist"}] \cup [at : {"fetch"}, network : Network]]
      /\ call'[b] = step /\ \A c \in Boots \ {b} : call'[c] = call[c]
  BY <1>1, <1>3 DEF BootInv, BootTypes
<1>6. /\ log' \in [cutShort : SUBSET Boots, late : BOOLEAN] /\ log'.late = log.late
      /\ log.cutShort \subseteq log'.cutShort
      /\ memory.boot # 0 /\ memory.runtime /\ call[memory.boot] # Idle =>
            memory.boot \in log'.cutShort
  BY <1>3 DEF BootInv, BootTypes, BootMemory
<1> HIDE DEF b, step
<1>7. BootTypes'
  BY <1>3, <1>4, <1>5, <1>6 DEF BootInv, BootTypes
<1>8. memory.listener[b] = NewListener /\ m.listener[b] = NewListener
  BY <1>1, <1>2 DEF BootInv, BootsToCome, b
<1>9. BootsToCome'
  BY <1>1, <1>2, <1>4, <1>5 DEF BootInv, BootsToCome
<1>10. RunningBoot'
  BY <1>4, <1>5, <1>8 DEF RunningBoot, NewListener, step
<1>11. BootsBefore'
  <2> SUFFICES ASSUME NEW c \in Boots, c < b, call'[c] # Idle \/ m.listener[c].subscribed
               PROVE  c \in log'.cutShort /\ ~m.listener[c].handler
    BY <1>4 DEF BootsBefore
  <2>1. c # b /\ c <= memory.boot /\ call'[c] = call[c]
    <3>1. c # b /\ c <= memory.boot
      BY <1>1
    <3>2. QED
      BY <1>5, <3>1
  <2>2. CASE c = memory.boot
    BY <1>1, <1>2, <1>6, <2>1, <2>2 DEF BootInv, RunningBoot
  <2>3. CASE c # memory.boot
    BY <1>1, <1>2, <1>6, <2>1, <2>3 DEF BootInv, BootsBefore
  <2>4. QED
    BY <2>2, <2>3
<1>12. Told'
  BY <1>4, <1>8 DEF Told, NewListener
<1>13. QED
  BY <1>1, <1>4, <1>7, <1>9, <1>10, <1>11, <1>12 DEF BootInv

LEMMA UnmountStep ==
    ASSUME BootInv, BootsNumbered, Unmount
    PROVE  BootInv'
<1> DEFINE b == Cardinality(Boots)
           m == CleanUp(memory)
<1> memory \in BootMemory
  BY DEF BootInv, BootTypes
<1>1. PICK n \in Nat : Boots = 1 .. n
  BY DEF BootsNumbered, Boots
<1>2. b = n
  BY <1>1, FS_Interval
<1>3. /\ memory.boot \in Nat /\ memory.boot < b /\ b \in Boots /\ b \in Nat /\ b # 0
      /\ memory.boot # 0 /\ memory.runtime
      /\ \A c \in Boots : c \in Nat /\ c # 0 /\ c <= b
  BY <1>1, <1>2 DEF Unmount, BootMemory, BootInv
<1>4. /\ m \in BootMemory /\ m.boot = memory.boot /\ m.shown = memory.shown
      /\ \A c \in Boots : c # memory.boot => m.listener[c] = memory.listener[c]
      /\ ~m.listener[memory.boot].handler /\ ~m.listener[memory.boot].subscribed
  BY <1>3, CleanUpFacts
<1>5. /\ memory' = [m EXCEPT !.boot = b, !.runtime = FALSE]
      /\ call' = call /\ outside' = outside
      /\ log' = IF call[memory.boot] # Idle
                  THEN [log EXCEPT !.cutShort = @ \cup {memory.boot}] ELSE log
  BY DEF Unmount, Called
<1> HIDE DEF m, b
<1>6. /\ memory' \in BootMemory /\ memory'.boot = b /\ ~memory'.runtime
      /\ memory'.listener = m.listener
  BY <1>3, <1>4, <1>5 DEF BootMemory
<1>7. /\ log' \in [cutShort : SUBSET Boots, late : BOOLEAN]
      /\ log.cutShort \subseteq log'.cutShort
      /\ call[memory.boot] # Idle => memory.boot \in log'.cutShort
  BY <1>3, <1>5 DEF BootInv, BootTypes, BootMemory
<1>8. BootTypes'
  BY <1>5, <1>6, <1>7 DEF BootInv, BootTypes
<1>9. BootsToCome'
  BY <1>3, <1>6 DEF BootsToCome
<1>10. memory.listener[b] = NewListener /\ m.listener[b] = NewListener /\ call[b] = Idle
  BY <1>3, <1>4 DEF BootInv, BootsToCome
<1>11. RunningBoot'
  BY <1>5, <1>6, <1>10 DEF RunningBoot, NewListener
<1>12. BootsBefore'
  <2> SUFFICES ASSUME NEW c \in Boots, c < b, call[c] # Idle \/ m.listener[c].subscribed
               PROVE  c \in log'.cutShort /\ ~m.listener[c].handler
    BY <1>5, <1>6 DEF BootsBefore
  <2>1. CASE c = memory.boot
    BY <1>4, <1>7, <2>1
  <2>2. CASE c # memory.boot
    <3>1. m.listener[c] = memory.listener[c]
      BY <1>4, <2>2
    <3>2. c < memory.boot \/ c > memory.boot
      BY <1>3, <2>2
    <3>3. CASE c > memory.boot
      BY <3>1, <3>3 DEF BootInv, BootsToCome, NewListener
    <3>4. CASE c < memory.boot
      BY <1>7, <3>1, <3>4 DEF BootInv, BootsBefore
    <3>5. QED
      BY <3>2, <3>3, <3>4
  <2>3. QED
    BY <2>1, <2>2
<1>13. Told'
  BY <1>6 DEF Told
<1>14. QED
  BY <1>6, <1>8, <1>9, <1>11, <1>12, <1>13 DEF BootInv

\* A boot goes on to its next await, or fails: its listener stays as it is.
LEMMA GoesOnStep ==
    ASSUME BootInv, BootsNumbered, NEW b \in Boots, Persisted(b) \/ BootFails(b)
    PROVE  BootInv'
<1> DEFINE step == IF Persisted(b) THEN [at |-> "fetch", network |-> outside.network] ELSE Idle
<1> USE DEF BootInv
<1>1. /\ call[b] # Idle
      /\ call' = [call EXCEPT ![b] = IF Persisted(b) THEN [at |-> "fetch", network |-> outside.network]
                                     ELSE Idle]
      /\ log' = log /\ outside' = outside
      /\ memory' = memory \/ memory' = [memory EXCEPT !.status = "error"]
  BY DEF Persisted, BootFails, GoesOn, Returns, Idle
<1>2. b <= memory.boot /\ b \in Nat /\ memory.boot \in Nat
  BY <1>1, BootUnderWay
<1>3. /\ memory' \in BootMemory /\ memory'.boot = memory.boot /\ memory'.shown = memory.shown
      /\ memory'.runtime = memory.runtime /\ memory'.listener = memory.listener
  BY <1>1 DEF BootTypes, BootMemory
<1>4. call' \in [Boots -> {Idle} \cup [at : {"persist"}] \cup [at : {"fetch"}, network : Network]]
  <2>1. outside.network \in Network
    BY DEF BootTypes
  <2>2. step \in {Idle} \cup [at : {"persist"}] \cup [at : {"fetch"}, network : Network]
    BY <2>1
  <2> HIDE DEF step
  <2>3. call' = [call EXCEPT ![b] = step]
    BY <1>1 DEF step
  <2>4. QED
    BY <2>2, <2>3 DEF BootTypes
<1>5. /\ \A c \in Boots : c # b => call'[c] = call[c]
      /\ \A c \in Boots : call[c] = Idle => call'[c] = Idle
  BY <1>1 DEF BootTypes
<1>6. BootTypes' /\ (memory'.runtime => memory'.boot # 0)
  BY <1>1, <1>3, <1>4 DEF BootTypes
<1>7. BootsToCome' /\ BootsBefore'
  BY <1>1, <1>3, <1>5 DEF BootsToCome, BootsBefore
<1>8. RunningBoot' /\ Told'
  <2>1. memory.boot # 0 => memory.boot \in Boots
    BY DEF BootTypes, BootMemory
  <2>2. QED
    BY <1>1, <1>3, <1>5, <2>1 DEF RunningBoot, Told
<1>9. QED
  BY <1>6, <1>7, <1>8

LEMMA BootedStep ==
    ASSUME BootInv, BootsNumbered, NEW b \in Boots, Booted(b)
    PROVE  BootInv'
<1> DEFINE n == call[b].network
           m == Listening(memory, b, n)
<1> memory \in BootMemory
  BY DEF BootInv, BootTypes
<1>1. call[b] # Idle /\ n \in Network
  <2>1. call[b].at = "fetch"
    BY DEF Booted
  <2>2. call[b] \in {Idle} \cup [at : {"persist"}] \cup [at : {"fetch"}, network : Network]
    BY DEF BootInv, BootTypes
  <2>3. QED
    BY <2>1, <2>2 DEF Idle
<1>2. /\ b \in Nat /\ memory.boot \in Nat /\ b <= memory.boot
      /\ b = memory.boot => memory.runtime /\ memory.listener[b].handler
      /\ b # memory.boot => b \in log.cutShort /\ ~memory.listener[b].handler
  BY <1>1, BootUnderWay
<1>3. /\ m \in BootMemory /\ m.boot = memory.boot /\ m.runtime = memory.runtime
      /\ \A c \in Boots \ {b} : m.listener[c] = memory.listener[c]
      /\ m.listener[b].handler = memory.listener[b].handler
      /\ m.listener[b].subscribed
  BY <1>1, ListeningFacts
<1>4. /\ memory' = [m EXCEPT !.shown = m.listener[b].state.level,
                             !.status = IF Cancelled(b) THEN @ ELSE "ready"]
      /\ outside' = [outside EXCEPT !.untold = @ \cup {b}]
      /\ log' = [log EXCEPT !.late = @ \/ Cancelled(b)]
      /\ call' = [call EXCEPT ![b] = Idle]
  BY DEF Booted, Returns, GoesOn
<1> HIDE DEF m, n
<1>5. m.listener[b].state.level \in Level
  BY <1>3 DEF BootMemory, Listener
<1>6. /\ memory' \in BootMemory /\ memory'.boot = memory.boot
      /\ memory'.runtime = memory.runtime /\ memory'.listener = m.listener
      /\ memory'.shown = m.listener[b].state.level
  BY <1>3, <1>4, <1>5 DEF BootMemory
<1>7. /\ outside' \in [network : Network, untold : SUBSET Boots]
      /\ outside'.network = outside.network /\ outside'.untold = outside.untold \cup {b}
      /\ log' \in [cutShort : SUBSET Boots, late : BOOLEAN] /\ log'.cutShort = log.cutShort
      /\ log'.late = (log.late \/ Cancelled(b))
  BY <1>4 DEF BootInv, BootTypes, Cancelled
<1>8. /\ call' \in [Boots -> {Idle} \cup [at : {"persist"}] \cup [at : {"fetch"}, network : Network]]
      /\ call'[b] = Idle /\ \A c \in Boots \ {b} : call'[c] = call[c]
  BY <1>4 DEF BootInv, BootTypes
<1>9. BootTypes' /\ (memory'.runtime => memory'.boot # 0)
  BY <1>6, <1>7, <1>8 DEF BootInv, BootTypes
<1>10. BootsToCome'
  BY <1>2, <1>3, <1>6, <1>8 DEF BootInv, BootsToCome
<1>11. RunningBoot'
  <2>1. memory.boot # 0 => memory.boot \in Boots
    BY DEF BootMemory
  <2>2. QED
    BY <1>2, <1>3, <1>6, <1>8, <2>1 DEF BootInv, RunningBoot
<1>12. BootsBefore'
  BY <1>2, <1>3, <1>6, <1>7, <1>8 DEF BootInv, BootsBefore
<1>13. Told'
  <2>1. CASE b = memory.boot
    BY <1>6, <1>7, <2>1 DEF Told
  <2>2. CASE b # memory.boot
    <3>1. memory.boot # 0 => memory.boot \in Boots
      BY DEF BootMemory
    <3>2. log'.late
      BY <1>7, <2>2 DEF Cancelled
    <3>3. memory.boot # 0 => m.listener[memory.boot] = memory.listener[memory.boot]
      BY <1>3, <2>2, <3>1
    <3>4. QED
      BY <1>6, <1>7, <3>2, <3>3 DEF BootInv, Told
  <2>3. QED
    BY <2>1, <2>2
<1>14. QED
  BY <1>9, <1>10, <1>11, <1>12, <1>13 DEF BootInv

LEMMA NetworkChangesStep ==
    ASSUME BootInv, BootsNumbered, NEW n \in Network, NetworkChanges(n)
    PROVE  BootInv'
<1>1. /\ outside' = [network |-> n, untold |-> {b \in Boots : memory.listener[b].subscribed}]
      /\ UNCHANGED <<memory, call, log>>
  BY DEF NetworkChanges, Called
<1>2. BootTypes'
  BY <1>1 DEF BootInv, BootTypes
<1>3. Told'
  <2>1. memory.boot # 0 => memory.boot \in Boots
    BY DEF BootInv, BootTypes, BootMemory
  <2>2. QED
    BY <1>1, <2>1 DEF BootInv, Told
<1>4. QED
  BY <1>1, <1>2, <1>3 DEF BootInv, BootsToCome, RunningBoot, BootsBefore

LEMMA TellStep ==
    ASSUME BootInv, BootsNumbered, NEW b \in Boots, Tell(b)
    PROVE  BootInv'
<1> memory \in BootMemory
  BY DEF BootInv, BootTypes
<1>1. /\ outside' = [outside EXCEPT !.untold = @ \ {b}]
      /\ UNCHANGED <<call, log>>
  BY DEF Tell
<1>2. /\ outside' \in [network : Network, untold : SUBSET Boots]
      /\ outside'.network = outside.network /\ outside'.untold = outside.untold \ {b}
  BY <1>1 DEF BootInv, BootTypes
<1>3. memory.boot # 0 => memory.boot \in Boots
  BY DEF BootMemory
<1>4. CASE ~memory.listener[b].subscribed
  <2>1. memory' = memory
    BY <1>4 DEF Tell
  <2>2. BootTypes'
    BY <1>1, <1>2, <2>1 DEF BootInv, BootTypes
  <2>3. Told'
    BY <1>1, <1>2, <1>3, <1>4, <2>1 DEF BootInv, Told
  <2>4. QED
    BY <1>1, <2>1, <2>2, <2>3 DEF BootInv, BootsToCome, RunningBoot, BootsBefore
<1>5. CASE memory.listener[b].subscribed
  <2> DEFINE n == outside.network
             level == ToConnectivityLevel(n)
  <2>1. n \in Network /\ memory' = UpdateState(memory, b, n)
    BY <1>5 DEF Tell, BootInv, BootTypes
  <2>2. /\ memory' \in BootMemory /\ memory'.boot = memory.boot
        /\ memory'.runtime = memory.runtime
        /\ \A c \in Boots \ {b} : memory'.listener[c] = memory.listener[c]
        /\ memory'.listener[b].handler = memory.listener[b].handler
        /\ memory'.listener[b].subscribed = memory.listener[b].subscribed
        /\ memory'.listener[b].state.level = level
        /\ \/ memory'.shown = memory.shown
           \/ memory.listener[b].handler /\ memory'.shown = level
        /\ memory.listener[b].handler /\ memory.shown = memory.listener[b].state.level =>
              memory'.shown = level
    BY <2>1, UpdateStateFacts
  <2>3. b \in Nat /\ memory.boot \in Nat /\ b <= memory.boot
    <3>1. b \in Nat /\ memory.boot \in Nat
      BY DEF BootsNumbered, Boots, BootMemory
    <3>2. QED
      BY <1>5, <3>1 DEF BootInv, BootsToCome, NewListener
  <2> HIDE DEF level
  <2>4. BootTypes' /\ (memory'.runtime => memory'.boot # 0)
    BY <1>1, <1>2, <2>2 DEF BootInv, BootTypes
  <2>5. BootsToCome'
    BY <1>1, <2>2, <2>3 DEF BootInv, BootsToCome
  <2>6. RunningBoot'
    BY <1>1, <1>3, <2>2 DEF BootInv, RunningBoot
  <2>7. BootsBefore'
    BY <1>1, <1>5, <2>2 DEF BootInv, BootsBefore
  <2>8. Told'
    <3>1. CASE b = memory.boot /\ memory.runtime
      <4>1. memory.listener[b].handler /\ b # 0
        BY <3>1 DEF BootInv, RunningBoot
      <4>2. log.late \/ memory'.shown = level
        BY <1>5, <2>2, <3>1, <4>1 DEF BootInv, Told
      <4>3. QED
        BY <1>1, <1>2, <2>2, <3>1, <4>2 DEF Told, level
    <3>2. CASE ~memory.runtime
      BY <2>2, <3>2 DEF Told
    <3>3. CASE b # memory.boot
      <4>1. ~memory.listener[b].handler
        BY <1>5, <2>3, <3>3 DEF BootInv, BootsBefore
      <4>2. memory'.shown = memory.shown
        BY <2>2, <4>1
      <4>3. memory.boot # 0 => memory'.listener[memory.boot] = memory.listener[memory.boot]
        BY <1>3, <2>2, <3>3
      <4>4. QED
        BY <1>1, <1>2, <2>2, <3>3, <4>2, <4>3 DEF BootInv, Told
    <3>4. QED
      BY <3>1, <3>2, <3>3
  <2>9. QED
    BY <2>4, <2>5, <2>6, <2>7, <2>8 DEF BootInv
<1>6. QED
  BY <1>4, <1>5

LEMMA BootStep ==
    ASSUME BootInv, BootsNumbered, [BootNext]_clientVars
    PROVE  BootInv'
<1>1. CASE BootNext
  <2>1. ASSUME NEW valid \in BOOLEAN, GiveManifest(valid) PROVE BootInv'
    BY <2>1, GiveManifestStep
  <2>2. CASE Unmount
    BY <2>2, UnmountStep
  <2>3. ASSUME NEW b \in Boots, Persisted(b) \/ BootFails(b) PROVE BootInv'
    BY <2>3, GoesOnStep
  <2>4. ASSUME NEW b \in Boots, Booted(b) PROVE BootInv'
    BY <2>4, BootedStep
  <2>5. ASSUME NEW b \in Boots, Tell(b) PROVE BootInv'
    BY <2>5, TellStep
  <2>6. ASSUME NEW n \in Network, NetworkChanges(n) PROVE BootInv'
    BY <2>6, NetworkChangesStep
  <2>7. QED
    BY <1>1, <2>1, <2>2, <2>3, <2>4, <2>5, <2>6 DEF BootNext
<1>2. CASE UNCHANGED clientVars
  BY <1>2 DEF clientVars, BootInv, BootTypes, BootsToCome, RunningBoot, BootsBefore, Told
<1>3. QED
  BY <1>1, <1>2

LEMMA BootInvImplies ==
    ASSUME BootsNumbered, BootInv
    PROVE  BootTypeOK /\ OnlyCutShortStays /\ ShownIsCurrent
<1>1. memory.boot \in Nat /\ \A b \in Boots : b \in Nat
  BY DEF BootsNumbered, Boots, BootInv, BootTypes, BootMemory
<1>2. OnlyCutShortStays
  BY <1>1 DEF BootInv, BootsToCome, BootsBefore, NewListener, OnlyCutShortStays, Cancelled
<1>3. ShownIsCurrent
  BY DEF BootInv, Told, ShownIsCurrent
<1>4. BootTypeOK
  BY DEF BootInv, BootTypes, BootMemory, BootTypeOK
<1>5. QED
  BY <1>2, <1>3, <1>4

\* Only a boot that was cut short at an await leaves its listener subscribed
\* (OnlyCutShortStays), and when NetInfo has told everyone, the provider shows the
\* connection there is, unless a boot that was over showed its own late (ShownIsCurrent;
\* RuntimeProvider.tsx, connectivity-listener.ts).
THEOREM ListenersAreKept ==
    ASSUME BootsNumbered
    PROVE  BootSpec => [](OnlyCutShortStays /\ ShownIsCurrent)
<1>1. BootInit => BootInv
  BY BootInitially
<1>2. BootInv /\ [BootNext]_clientVars => BootInv'
  BY BootStep
<1>3. BootInv => OnlyCutShortStays /\ ShownIsCurrent
  BY BootInvImplies
<1>4. QED
  BY <1>1, <1>2, <1>3, PTL DEF BootSpec

\* The step of the next theorem
LEMMA ReadyHolds ==
    ASSUME BootsNumbered, BootInv, [BootNext]_clientVars
    PROVE  ReadyStep
<1> SUFFICES ASSUME BootNext, memory.status # "ready", memory'.status = "ready"
             PROVE  memory'.runtime
  BY DEF ReadyStep, clientVars
<1> memory \in BootMemory
  BY DEF BootInv, BootTypes
<1>1. ASSUME NEW valid \in BOOLEAN, GiveManifest(valid) PROVE memory'.runtime
  <2> DEFINE m == CleanUp(memory)
  <2>1. m \in BootMemory /\ m.status = memory.status
    BY CleanUpFacts
  <2>2. memory' = [m EXCEPT !.boot = memory.boot + 1, !.runtime = valid,
                            !.status = IF valid THEN @ ELSE "error"]
    BY <1>1 DEF GiveManifest
  <2> HIDE DEF m
  <2>3. QED
    BY <2>1, <2>2 DEF BootMemory
<1>2. ASSUME Unmount PROVE FALSE
  <2> DEFINE m == CleanUp(memory)
  <2>1. m \in BootMemory /\ m.status = memory.status
    BY CleanUpFacts
  <2>2. memory' = [m EXCEPT !.boot = Cardinality(Boots), !.runtime = FALSE]
    BY <1>2 DEF Unmount
  <2> HIDE DEF m
  <2>3. QED
    BY <2>1, <2>2 DEF BootMemory
<1>3. ASSUME NEW b \in Boots, Persisted(b) \/ BootFails(b) PROVE FALSE
  BY <1>3 DEF Persisted, BootFails, BootMemory
<1>4. ASSUME NEW b \in Boots, Booted(b) PROVE memory'.runtime
  <2> DEFINE n == call[b].network
             m == Listening(memory, b, n)
  <2>1. call[b] # Idle /\ n \in Network
    <3>1. call[b].at = "fetch"
      BY <1>4 DEF Booted
    <3>2. call[b] \in {Idle} \cup [at : {"persist"}] \cup [at : {"fetch"}, network : Network]
      BY DEF BootInv, BootTypes
    <3>3. QED
      BY <3>1, <3>2 DEF Idle
  <2>2. m \in BootMemory /\ m.status = memory.status /\ m.runtime = memory.runtime
    BY <2>1, ListeningFacts
  <2>3. memory' = [m EXCEPT !.shown = m.listener[b].state.level,
                            !.status = IF Cancelled(b) THEN @ ELSE "ready"]
    BY <1>4 DEF Booted
  <2> HIDE DEF m, n
  <2>4. memory'.runtime = memory.runtime /\ ~Cancelled(b)
    BY <2>2, <2>3 DEF BootMemory, Cancelled
  <2>5. QED
    BY <2>1, <2>4, BootUnderWay DEF Cancelled
<1>5. ASSUME NEW b \in Boots, Tell(b) PROVE FALSE
  <2>1. outside.network \in Network
    BY DEF BootInv, BootTypes
  <2>2. memory'.status = memory.status
    BY <1>5, <2>1, UpdateStateFacts DEF Tell
  <2>3. QED
    BY <2>2
<1>6. ASSUME NEW n \in Network, NetworkChanges(n) PROVE FALSE
  BY <1>6 DEF NetworkChanges
<1>7. QED
  BY <1>1, <1>2, <1>3, <1>4, <1>5, <1>6 DEF BootNext

\* The provider turns ready only when it has a runtime: no boot that ends late, after
\* another manifest was refused or the provider unmounted, makes it ready.
THEOREM ReadyOnlyWithRuntime ==
    ASSUME BootsNumbered
    PROVE  BootSpec => ReadyHasRuntime
<1>1. BootInit => BootInv
  BY BootInitially
<1>2. BootInv /\ [BootNext]_clientVars => BootInv'
  BY BootStep
<1>3. BootInv /\ [BootNext]_clientVars => [ReadyStep]_clientVars
  BY ReadyHolds
<1>4. QED
  BY <1>1, <1>2, <1>3, PTL DEF BootSpec, ReadyHasRuntime

-----------------------------------------------------------------------------
(* The offline cache and the version stack *)

LEMMA LeastVersion ==
    ASSUME NEW S \in SUBSET Nat, S # {}
    PROVE  \E v \in S : \A w \in S : v <= w
<1> DEFINE R == OpToRel(<, Nat)
<1>1. IsWellFoundedOn(R, Nat)
  BY NatLessThanWellFounded
<1>2. ASSUME NEW v \in S, NEW w \in S, w < v
      PROVE  <<w, v>> \in R
  <2>1. <<w, v>> \in {pair \in Nat \X Nat : pair[1] < pair[2]}
    BY <1>2
  <2>2. R = {pair \in Nat \X Nat : pair[1] < pair[2]}
    BY Zenon DEF OpToRel
  <2> HIDE DEF R
  <2>3. QED
    BY <2>1, <2>2
<1> HIDE DEF R
<1>3. PICK v \in S : \A w \in S : <<w, v>> \notin R
  BY <1>1, WFMin
<1>4. ASSUME NEW w \in S PROVE v <= w
  <2>1. ~(w < v)
    BY <1>2, <1>3
  <2>2. QED
    BY <2>1
<1>5. QED
  BY <1>3, <1>4

\* The largest of some numbers up to n
LEMMA MaxFacts ==
    ASSUME NEW n \in Nat, NEW S \in SUBSET (1 .. n), S # {}
    PROVE  Max(S) \in S
<1> DEFINE room == {n - v : v \in S}
<1>1. \A v \in S : v \in Nat /\ n - v \in Nat
  OBVIOUS
<1>2. room \in SUBSET Nat /\ room # {}
  BY <1>1
<1>3. PICK t \in room : \A u \in room : t <= u
  <2> HIDE DEF room
  <2>1. QED
    BY <1>2, LeastVersion
<1>4. PICK v \in S : t = n - v
  BY <1>3
<1>5. \A w \in S : v >= w
  <2>1. ASSUME NEW w \in S PROVE v >= w
    <3>1. n - v <= n - w
      BY <1>3, <1>4
    <3>2. QED
      BY <1>1, <3>1
  <2>2. QED
    BY <2>1
<1>6. QED
  BY <1>4, <1>5 DEF Max

LEMMA MinFacts ==
    ASSUME NEW S \in SUBSET Nat, S # {}
    PROVE  Min(S) \in S /\ \A v \in S : Min(S) <= v
BY LeastVersion DEF Min

-----------------------------------------------------------------------------
(* ManifestCache *)

CacheAssumption == MaxVersion \in Nat

Deployed == [version : Versions, deployment : Nat \ {0}]
MaybeDeployed == Deployed \cup {NoManifest}

CacheCall ==
    {Idle}
    \cup [at : {"l2"}, version : Versions \cup {None}, found : MaybeDeployed,
          refreshing : BOOLEAN, since : Int]
    \cup [at : {"list"}, version : Versions \cup {0}, found : {NoManifest},
          refreshing : BOOLEAN, since : Int]
    \cup [at : {"l3"}, version : Versions, found : MaybeDeployed,
          refreshing : BOOLEAN, since : Int]
    \cup [at : {"fetch"}, local : MaybeDeployed, since : Int]
    \cup [at : {"fetched"}, local : MaybeDeployed, server : Deployed, since : Int]
    \cup [at : {"set"}, data : Deployed, since : Int]
    \cup [at : {"persist"}, data : Deployed]
    \cup [at : {"l2Deleted"}, version : Versions, since : Int]

Memories == [Versions -> {NoEntry} \cup [data : Deployed, fresh : BOOLEAN]]
Disks == [l2 : MaybeDeployed, l3 : [Versions -> MaybeDeployed], saving : SUBSET Deployed]
Logs == [refreshed : MaybeDeployed, invalidated : SUBSET [version : Versions, deleted : BOOLEAN],
         upset : SUBSET {"went back", "L2 emptied"}]

HasSince(r) == r.at \in {"l2", "list", "l3", "fetch", "fetched", "set", "l2Deleted"}

CacheTypes ==
    /\ memory \in Memories
    /\ \A v \in Versions : memory[v] # NoEntry => memory[v].data.version = v
    /\ disk \in Disks
    /\ outside \in Deployed
    /\ call \in [Calls -> CacheCall]
    /\ \A c \in Calls : HasSince(call[c]) => call[c].since <= calls
    /\ log \in Logs
    /\ calls \in Nat

\* The manifests a call holds: those that came from the cache or went into it, and those
\* that are still to go into it.
Past(r) ==
    IF r.at \in {"l2", "l3"} THEN {r.found}
    ELSE IF r.at \in {"fetch", "fetched"} THEN {r.local}
    ELSE IF r.at \in {"set", "persist"} THEN {r.data} ELSE {}
Answer(r) == IF r.at = "fetched" THEN {r.server} ELSE {}

Kept ==
    {NoManifest} \cup {memory[v].data : v \in Versions} \cup {disk.l3[v] : v \in Versions}
    \cup disk.saving \cup UNION {Past(call[c]) : c \in Calls}
Known == Kept \cup {disk.l2, outside} \cup UNION {Answer(call[c]) : c \in Calls}

\* The number of a deployment tells the manifest, and the server's is the last.
Distinguished ==
    /\ \A m, n \in Known : m.deployment = n.deployment => m = n
    /\ \A m \in Known : m.deployment <= outside.deployment

\* L2 has the latest of all that is in the cache, unless a write or an invalidation made it
\* go back.
L2IsLatest ==
    log.upset = {} =>
        \A m \in Kept : m.version <= disk.l2.version /\ m.deployment <= disk.l2.deployment

\* A call during which no other was under way still finds in the tiers what it left there.
Finds(r) ==
    /\ r.at \in {"fetch", "fetched"} /\ r.local # NoManifest =>
          memory[r.local.version].data = r.local
    /\ r.at = "set" => disk.l2 = r.data /\ memory[r.data.version].data = r.data
    /\ r.at = "l2Deleted" => /\ memory[r.version] = NoEntry /\ disk.l2 = NoManifest
                             /\ disk.saving = {}
AloneFinds ==
    \A c \in Calls : HasSince(call[c]) /\ Undisturbed(c) => OnlyCall(c) /\ Finds(call[c])

\* What the history says of a refresh or an invalidation is said of a quiet cache.
HistoryHolds ==
    /\ log.refreshed # NoManifest =>
          /\ Quiet
          /\ log.upset = {} =>
                /\ disk.l2 = log.refreshed
                /\ \/ \A v \in Versions : memory[v] = NoEntry
                   \/ memory[disk.l2.version].data = disk.l2
    /\ log.invalidated # {} => Quiet /\ disk.saving = {} /\ InvalidatedIsGone

CacheInv == CacheTypes /\ Distinguished /\ L2IsLatest /\ AloneFinds /\ HistoryHolds

LEMMA HighestVersion ==
    ASSUME CacheAssumption, NEW S \in SUBSET Versions, S # {}
    PROVE  \E v \in S : \A w \in S : w <= v
<1> DEFINE T == {MaxVersion - v : v \in S}
<1>1. \A v \in S : v \in Nat /\ MaxVersion - v \in Nat
  BY DEF CacheAssumption, Versions
<1>2. PICK t \in T : \A u \in T : t <= u
  <2>1. T \in SUBSET Nat /\ T # {}
    BY <1>1
  <2> HIDE DEF T
  <2>2. QED
    BY <2>1, LeastVersion
<1>3. PICK v \in S : t = MaxVersion - v
  BY <1>2
<1>4. ASSUME NEW w \in S PROVE w <= v
  <2>1. MaxVersion - v <= MaxVersion - w
    BY <1>2, <1>3
  <2>2. QED
    BY <1>1, <2>1 DEF CacheAssumption
<1>5. QED
  BY <1>4

\* A hit of L1 is the entry of its own version; without a version asked for there is no
\* higher one.
LEMMA L1GetFacts ==
    ASSUME CacheTypes, CacheAssumption, NEW version \in Versions \cup {None}
    PROVE  LET hit == L1Get(version) IN
           /\ hit \in MaybeDeployed
           /\ hit # NoManifest =>
                 /\ hit.version \in Versions /\ memory[hit.version].data = hit
                 /\ version = None => \A v \in Versions : memory[v] # NoEntry => v <= hit.version
<1> DEFINE cached == {v \in Versions : memory[v] # NoEntry /\ version \in {v, None}}
           top == CHOOSE v \in cached : \A w \in cached : w <= v
           hit == L1Get(version)
<1>1. hit = IF cached # {} /\ memory[top].fresh THEN memory[top].data ELSE NoManifest
  BY DEF L1Get
<1>2. CASE cached # {}
  <2>1. \E v \in cached : \A w \in cached : w <= v
    <3>1. cached \in SUBSET Versions
      OBVIOUS
    <3> HIDE DEF cached
    <3>2. QED
      BY <1>2, <3>1, HighestVersion
  <2>2. top \in cached /\ \A w \in cached : w <= top
    BY <2>1
  <2> HIDE DEF top, hit
  <2>3. top \in Versions /\ memory[top] # NoEntry
    BY <2>2
  <2>4. memory[top].data \in Deployed /\ memory[top].data.version = top
    BY <2>3 DEF CacheTypes, Memories
  <2>5. version = None => \A v \in Versions : memory[v] # NoEntry => v <= top
    BY <2>2
  <2>6. QED
    BY <1>1, <2>3, <2>4, <2>5 DEF MaybeDeployed, hit
<1>3. CASE cached = {}
  BY <1>1, <1>3 DEF MaybeDeployed
<1>4. QED
  BY <1>2, <1>3

LEMMA L1SetFacts ==
    ASSUME CacheTypes, NEW m \in Deployed, L1Set(m)
    PROVE  /\ memory' \in Memories
           /\ \A v \in Versions : memory'[v] # NoEntry => memory'[v].data.version = v
           /\ m.version \in Versions /\ memory'[m.version].data = m
           /\ \A v \in Versions : memory'[v].data = m \/ memory'[v] = memory[v]
<1> DEFINE entry == [data |-> m, fresh |-> TRUE]
<1>1. m.version \in Versions
  BY DEF Deployed
<1>2. entry \in [data : Deployed, fresh : BOOLEAN] /\ entry.data = m
  OBVIOUS
<1>3. memory' = [memory EXCEPT ![m.version] = entry]
  BY DEF L1Set
<1> HIDE DEF entry
<1>4. QED
  BY <1>1, <1>2, <1>3 DEF CacheTypes, Memories

\* What a call holds where it stands
LEMMA CacheCallHolds ==
    ASSUME CacheTypes, NEW c \in Calls
    PROVE  LET r == call[c] IN
           /\ r \in CacheCall
           /\ r.at \in {"l2", "l3"} => r.found \in MaybeDeployed /\ r.refreshing \in BOOLEAN
           /\ r.at = "l2" => r.version \in Versions \cup {None}
           /\ r.at = "list" => r.version \in Versions \cup {0} /\ r.refreshing \in BOOLEAN
           /\ r.at = "l3" => r.version \in Versions
           /\ r.at \in {"fetch", "fetched"} => r.local \in MaybeDeployed
           /\ r.at = "fetched" => r.server \in Deployed
           /\ r.at \in {"set", "persist"} => r.data \in Deployed
           /\ r.at = "l2Deleted" => r.version \in Versions
           /\ HasSince(r) => r.since \in Int
           /\ r.at # "idle" <=> r # Idle
           /\ Past(r) \subseteq Kept /\ Answer(r) \subseteq Known
<1> DEFINE r == call[c]
<1>1. r \in CacheCall
  BY DEF CacheTypes
<1>2. Past(r) \subseteq Kept /\ Answer(r) \subseteq Known
  BY DEF Kept, Known
<1> HIDE DEF r
<1>3. CASE r = Idle
  BY <1>1, <1>2, <1>3 DEF Idle, HasSince, r
<1>4. CASE r \in [at : {"l2"}, version : Versions \cup {None}, found : MaybeDeployed,
                  refreshing : BOOLEAN, since : Int]
  BY <1>1, <1>2, <1>4 DEF HasSince, Idle, r
<1>5. CASE r \in [at : {"list"}, version : Versions \cup {0}, found : {NoManifest},
                  refreshing : BOOLEAN, since : Int]
  BY <1>1, <1>2, <1>5 DEF HasSince, Idle, r
<1>6. CASE r \in [at : {"l3"}, version : Versions, found : MaybeDeployed,
                  refreshing : BOOLEAN, since : Int]
  BY <1>1, <1>2, <1>6 DEF HasSince, Idle, r
<1>7. CASE r \in [at : {"fetch"}, local : MaybeDeployed, since : Int]
  BY <1>1, <1>2, <1>7 DEF HasSince, Idle, r
<1>8. CASE r \in [at : {"fetched"}, local : MaybeDeployed, server : Deployed, since : Int]
  BY <1>1, <1>2, <1>8 DEF HasSince, Idle, r
<1>9. CASE r \in [at : {"set"}, data : Deployed, since : Int] \cup [at : {"persist"}, data : Deployed]
  BY <1>1, <1>2, <1>9 DEF HasSince, Idle, r
<1>10. CASE r \in [at : {"l2Deleted"}, version : Versions, since : Int]
  BY <1>1, <1>2, <1>10 DEF HasSince, Idle, r
<1>11. QED
  BY <1>1, <1>3, <1>4, <1>5, <1>6, <1>7, <1>8, <1>9, <1>10 DEF CacheCall

LEMMA ManifestNumbers ==
    ASSUME NEW m \in MaybeDeployed
    PROVE  /\ m.version \in Int /\ m.deployment \in Int
           /\ m.version = 0 <=> m = NoManifest
<1>1. CASE m \in Deployed
  BY <1>1 DEF Deployed, Versions, NoManifest
<1>2. CASE m = NoManifest
  BY <1>2 DEF NoManifest
<1>3. QED
  BY <1>1, <1>2 DEF MaybeDeployed

LEMMA DeployedIsSome ==
    ASSUME NEW m \in Deployed
    PROVE  m # NoManifest
<1>1. m.deployment # 0
  BY DEF Deployed
<1>2. QED
  BY <1>1 DEF NoManifest

LEMMA KeptTypes ==
    ASSUME CacheTypes, NEW m \in Kept
    PROVE  m \in MaybeDeployed
<1>1. CASE m \in UNION {Past(call[c]) : c \in Calls}
  BY <1>1, CacheCallHolds DEF Past, MaybeDeployed
<1>2. CASE m \in {memory[v].data : v \in Versions}
  <2>1. PICK v \in Versions : m = memory[v].data
    BY <1>2
  <2>2. memory[v] \in {NoEntry} \cup [data : Deployed, fresh : BOOLEAN]
    BY DEF CacheTypes, Memories
  <2>3. QED
    BY <2>1, <2>2 DEF NoEntry, MaybeDeployed
<1>3. CASE m \in {NoManifest} \cup {disk.l3[v] : v \in Versions} \cup disk.saving
  <2>1. disk.l3 \in [Versions -> MaybeDeployed] /\ disk.saving \in SUBSET Deployed
    BY DEF CacheTypes, Disks
  <2>2. QED
    BY <1>3, <2>1 DEF MaybeDeployed
<1>4. QED
  BY <1>1, <1>2, <1>3 DEF Kept

\* Nothing new is known, and L2 stays or becomes the latest, when what the tiers and the
\* calls hold was in the cache or goes into L2, and L2 goes back only with a notice.
LEMMA ManifestsStep ==
    ASSUME CacheTypes, CacheTypes', Distinguished, L2IsLatest,
           outside' = outside, log.upset \subseteq log'.upset,
           log'.upset = {} => /\ disk.l2.version <= disk'.l2.version
                              /\ disk.l2.deployment <= disk'.l2.deployment,
           disk'.l2 \in Known,
           \A v \in Versions : /\ memory'[v].data \in Kept \cup {disk.l2, disk'.l2}
                               /\ disk'.l3[v] \in Kept \cup {disk.l2, disk'.l2},
           disk'.saving \subseteq Kept \cup {disk.l2, disk'.l2},
           \A c \in Calls : /\ Past(call'[c]) \subseteq Kept \cup {disk.l2, disk'.l2}
                            /\ Answer(call'[c]) \subseteq Known
    PROVE  Distinguished' /\ L2IsLatest'
<1> DEFINE X == Kept \cup {disk.l2, disk'.l2}
<1>1. Kept' \subseteq X
  BY DEF Kept
<1>2. X \subseteq Known
  BY DEF Known
<1>3. Known' \subseteq Known
  BY <1>1, <1>2 DEF Known
<1>4. Distinguished'
  <2> HIDE DEF X
  <2>1. QED
    BY <1>3 DEF Distinguished
<1>5. ASSUME log'.upset = {}, NEW m \in Kept'
      PROVE  m.version <= disk'.l2.version /\ m.deployment <= disk'.l2.deployment
  <2>1. /\ disk.l2.version \in Int /\ disk.l2.deployment \in Int
        /\ disk'.l2.version \in Int /\ disk'.l2.deployment \in Int
    <3>1. disk.l2 \in MaybeDeployed /\ disk'.l2 \in MaybeDeployed
      BY DEF CacheTypes, Disks
    <3>2. QED
      BY <3>1, ManifestNumbers
  <2>2. CASE m \in {disk.l2, disk'.l2}
    BY <1>5, <2>1, <2>2
  <2>3. CASE m \in Kept
    <3>1. m.version <= disk.l2.version /\ m.deployment <= disk.l2.deployment
      BY <1>5, <2>3 DEF L2IsLatest
    <3>2. m.version \in Int /\ m.deployment \in Int
      BY <2>3, KeptTypes, ManifestNumbers
    <3>3. QED
      BY <1>5, <2>1, <3>1, <3>2
  <2>4. QED
    BY <1>1, <1>5, <2>2, <2>3
<1>6. QED
  BY <1>4, <1>5 DEF L2IsLatest

LEMMA CallChanges ==
    ASSUME CacheTypes, NEW c \in Calls, NEW step \in CacheCall,
           call' = [call EXCEPT ![c] = step]
    PROVE  /\ call' \in [Calls -> CacheCall] /\ call'[c] = step
           /\ \A d \in Calls \ {c} : call'[d] = call[d]
<1>1. call \in [Calls -> CacheCall]
  BY DEF CacheTypes
<1>2. QED
  BY <1>1

LEMMA SameL2 ==
    ASSUME CacheTypes
    PROVE  disk.l2.version <= disk.l2.version /\ disk.l2.deployment <= disk.l2.deployment
<1>1. disk.l2 \in MaybeDeployed
  BY DEF CacheTypes, Disks
<1>2. disk.l2.version \in Int /\ disk.l2.deployment \in Int
  BY <1>1, ManifestNumbers
<1>3. QED
  BY <1>2

\* A call begins, and is numbered if no other is under way; or it goes on with its number.
CallStep(c, step) ==
    /\ call' = [call EXCEPT ![c] = step]
    /\ \/ /\ call[c] = Idle /\ calls' = calls + 1
          /\ HasSince(step) => step.since \in {None, Since(c)}
       \/ /\ call[c] # Idle /\ calls' = calls
          /\ HasSince(step) => HasSince(call[c]) /\ step.since = call[c].since

\* After one step of call c, a call that is alone is the one that was alone before, or c.
LEMMA OneCallSteps ==
    ASSUME CacheTypes, AloneFinds, NEW c \in Calls, NEW step \in CacheCall,
           CallStep(c, step),
           HasSince(step) /\ step.since = calls' /\ OnlyCall(c) => Finds(step)'
    PROVE  /\ AloneFinds' /\ \A d \in Calls : HasSince(call'[d]) => call'[d].since <= calls'
           /\ call' \in [Calls -> CacheCall] /\ calls' \in Nat /\ call'[c] = step
           /\ \A d \in Calls \ {c} : call'[d] = call[d]
<1> USE DEF CallStep
<1>1. /\ call'[c] = step /\ \A d \in Calls \ {c} : call'[d] = call[d]
      /\ calls \in Nat /\ None # calls + 1 /\ None # calls
  <2>1. call \in [Calls -> CacheCall] /\ calls \in Nat
    BY DEF CacheTypes
  <2>2. QED
    BY <2>1 DEF None
<1>2. ASSUME NEW d \in Calls, HasSince(call'[d])
      PROVE  call'[d].since <= calls' /\ (call'[d].since = calls' => OnlyCall(c) /\ d = c)
  <2>1. CASE d = c
    <3>1. CASE call[c] = Idle
      BY <1>1, <1>2, <2>1, <3>1 DEF Since, None
    <3>2. CASE call[c] # Idle
      BY <1>1, <1>2, <2>1, <3>2 DEF AloneFinds, Undisturbed, CacheTypes
    <3>3. QED
      BY <3>1, <3>2
  <2>2. CASE d # c
    <3>1. call'[d] = call[d] /\ call[d].since \in Int /\ call[d].since <= calls
      BY <1>1, <1>2, <2>2, CacheCallHolds DEF CacheTypes
    <3>2. CASE call[c] = Idle
      BY <1>1, <3>1, <3>2
    <3>3. CASE call[c] # Idle
      <4>1. calls' = calls
        BY <3>3
      <4>2. ~OnlyCall(d)
        BY <2>2, <3>3 DEF OnlyCall
      <4>3. call[d].since # calls
        BY <1>2, <3>1, <4>2 DEF AloneFinds, Undisturbed
      <4>4. QED
        BY <3>1, <4>1, <4>3
    <3>4. QED
      BY <3>2, <3>3
  <2>3. QED
    BY <2>1, <2>2
<1>3. ASSUME NEW d \in Calls, HasSince(call[d])', Undisturbed(d)'
      PROVE  OnlyCall(d)' /\ Finds(call[d])'
  <2>1. d = c /\ OnlyCall(c) /\ HasSince(step) /\ step.since = calls'
    BY <1>1, <1>2, <1>3 DEF Undisturbed, HasSince
  <2>2. Finds(step)'
    BY <2>1
  <2>3. Finds(call[d])'
    BY <1>1, <2>1, <2>2 DEF Finds
  <2>4. OnlyCall(d)'
    BY <1>1, <2>1 DEF OnlyCall
  <2>5. QED
    BY <2>3, <2>4
<1>4. call' \in [Calls -> CacheCall]
  BY CallChanges
<1>5. calls' \in Nat
  BY <1>1
<1>6. QED
  BY <1>1, <1>2, <1>3, <1>4, <1>5 DEF AloneFinds, HasSince

\* Between two steps of a call the history is empty.
LEMMA NoHistory ==
    ASSUME HistoryHolds, NEW c \in Calls, call[c] # Idle
    PROVE  log.refreshed = NoManifest /\ log.invalidated = {}
BY DEF HistoryHolds, Quiet

LEMMA CacheInitially ==
    ASSUME CacheInit, CacheAssumption
    PROVE  CacheInv
<1>1. PICK first \in Versions :
        /\ memory = [v \in Versions |-> NoEntry]
        /\ disk = [l2 |-> NoManifest, l3 |-> [v \in Versions |-> NoManifest], saving |-> {}]
        /\ outside = [version |-> first, deployment |-> 1]
        /\ call = [c \in Calls |-> Idle]
        /\ log = [refreshed |-> NoManifest, invalidated |-> {}, upset |-> {}]
        /\ calls = 0
  BY DEF CacheInit, ClientInit, NoDisk
<1>2. outside \in Deployed /\ outside.deployment = 1 /\ NoManifest.deployment = 0
  BY <1>1 DEF Deployed, NoManifest
<1>3. CacheTypes
  BY <1>1, <1>2 DEF CacheTypes, Memories, Disks, Logs, MaybeDeployed, CacheCall, HasSince, Idle
<1>4. Kept = {NoManifest} /\ Known = {NoManifest, outside}
  <2>1. \A c \in Calls : Past(call[c]) = {} /\ Answer(call[c]) = {}
    BY <1>1 DEF Past, Answer, Idle
  <2>2. \A v \in Versions : memory[v].data = NoManifest /\ disk.l3[v] = NoManifest
    BY <1>1 DEF NoEntry
  <2>3. Kept = {NoManifest}
    BY <1>1, <2>1, <2>2 DEF Kept
  <2>4. QED
    BY <1>1, <2>1, <2>3 DEF Known
<1>5. Distinguished
  BY <1>2, <1>4 DEF Distinguished
<1>6. L2IsLatest
  BY <1>1, <1>4 DEF L2IsLatest, NoManifest
<1>7. AloneFinds /\ HistoryHolds
  BY <1>1 DEF AloneFinds, HistoryHolds, HasSince, Idle
<1>8. QED
  BY <1>3, <1>5, <1>6, <1>7 DEF CacheInv

\* A step of call c keeps all but the history when it types, when what the tiers and the
\* call hold then was in the cache or goes into L2, and when L2 goes back only with a notice.
LEMMA TierStep ==
    ASSUME CacheInv, NEW c \in Calls, NEW step \in CacheCall, CallStep(c, step),
           memory' \in Memories, \A v \in Versions : memory'[v] # NoEntry => memory'[v].data.version = v,
           disk' \in Disks, log' \in Logs, outside' = outside, log.upset \subseteq log'.upset,
           log'.upset = {} => /\ disk.l2.version <= disk'.l2.version
                              /\ disk.l2.deployment <= disk'.l2.deployment,
           disk'.l2 \in Known,
           \A v \in Versions : /\ memory'[v].data \in Kept \cup {disk.l2, disk'.l2}
                               /\ disk'.l3[v] \in Kept \cup {disk.l2, disk'.l2},
           disk'.saving \subseteq Kept \cup {disk.l2, disk'.l2},
           Past(step) \subseteq Kept \cup {disk.l2, disk'.l2}, Answer(step) \subseteq Known,
           HasSince(step) /\ step.since = calls' /\ OnlyCall(c) => Finds(step)'
    PROVE  /\ CacheTypes' /\ Distinguished' /\ L2IsLatest' /\ AloneFinds'
           /\ call'[c] = step /\ \A d \in Calls \ {c} : call'[d] = call[d]
<1> USE DEF CacheInv
<1>1. /\ AloneFinds' /\ \A d \in Calls : HasSince(call'[d]) => call'[d].since <= calls'
      /\ call' \in [Calls -> CacheCall] /\ calls' \in Nat /\ call'[c] = step
      /\ \A d \in Calls \ {c} : call'[d] = call[d]
  BY OneCallSteps
<1>2. outside \in Deployed
  BY DEF CacheTypes
<1>3. CacheTypes'
  BY <1>1, <1>2 DEF CacheTypes, HasSince
<1>4. \A d \in Calls : /\ Past(call'[d]) \subseteq Kept \cup {disk.l2, disk'.l2}
                       /\ Answer(call'[d]) \subseteq Known
  BY <1>1, CacheCallHolds
<1>5. Distinguished' /\ L2IsLatest'
  BY <1>3, <1>4, ManifestsStep
<1>6. QED
  BY <1>1, <1>3, <1>5

\* What the tiers hold before a step
LEMMA TiersHold ==
    ASSUME CacheTypes
    PROVE  /\ disk.l2 \in MaybeDeployed /\ disk.l2 \in Known
           /\ disk.saving \subseteq Kept /\ disk.saving \subseteq Deployed
           /\ NoManifest \in Kept /\ NoManifest \in MaybeDeployed
           /\ outside \in Deployed /\ outside \in Known /\ Kept \subseteq Known
           /\ \A v \in Versions : /\ disk.l3[v] \in Kept /\ disk.l3[v] \in MaybeDeployed
                                 /\ memory[v].data \in Kept
           /\ disk = [l2 |-> disk.l2, l3 |-> disk.l3, saving |-> disk.saving]
           /\ log = [refreshed |-> log.refreshed, invalidated |-> log.invalidated,
                     upset |-> log.upset]
           /\ log.upset \subseteq {"went back", "L2 emptied"}
<1>1. disk \in Disks /\ log \in Logs
  BY DEF CacheTypes
<1>2. \A v \in Versions : disk.l3[v] \in Kept /\ memory[v].data \in Kept
  BY DEF Kept
<1>3. disk.saving \subseteq Kept /\ NoManifest \in Kept
  BY DEF Kept
<1>4. disk.l2 \in Known /\ outside \in Known /\ Kept \subseteq Known
  BY DEF Known
<1>5. /\ disk.l2 \in MaybeDeployed /\ disk.saving \subseteq Deployed
      /\ \A v \in Versions : disk.l3[v] \in MaybeDeployed
  BY <1>1 DEF Disks
<1>6. /\ disk = [l2 |-> disk.l2, l3 |-> disk.l3, saving |-> disk.saving]
      /\ log = [refreshed |-> log.refreshed, invalidated |-> log.invalidated, upset |-> log.upset]
      /\ log.upset \subseteq {"went back", "L2 emptied"}
  BY <1>1 DEF Disks, Logs
<1>7. NoManifest \in MaybeDeployed /\ outside \in Deployed
  BY DEF MaybeDeployed, CacheTypes
<1>8. QED
  BY <1>2, <1>3, <1>4, <1>5, <1>6, <1>7

\* getManifest and the awaits of its tiers: the tiers below L1 stay as they are, and what is
\* written to L1 and held is a manifest the cache had.
LEMMA ReadStep ==
    ASSUME CacheInv, CacheAssumption, NEW c \in Calls, NEW step \in CacheCall,
           CallStep(c, step),
           call[c] # Idle => log' = log,
           call[c] = Idle => log'.refreshed = NoManifest /\ log'.invalidated = {},
           log' \in Logs, log'.upset = log.upset, disk' = disk, outside' = outside,
           UNCHANGED memory \/ \E m \in Kept \cap Deployed : L1Set(m),
           Past(step) \subseteq Kept \cup {disk.l2}, Answer(step) \subseteq Known,
           step.at \in {"fetch", "fetched"} /\ step.local # NoManifest
              /\ step.since = calls' /\ OnlyCall(c) =>
              memory'[step.local.version].data = step.local,
           step.at \notin {"set", "l2Deleted"}
    PROVE  CacheInv'
<1> USE DEF CacheInv
<1>1. /\ memory' \in Memories
      /\ \A v \in Versions : memory'[v] # NoEntry => memory'[v].data.version = v
      /\ \A v \in Versions : memory'[v].data \in Kept
  <2>1. \A v \in Versions : memory[v].data \in Kept
    BY TiersHold
  <2>2. CASE UNCHANGED memory
    BY <2>1, <2>2 DEF CacheTypes
  <2>3. ASSUME NEW m \in Kept \cap Deployed, L1Set(m)
        PROVE  /\ memory' \in Memories
               /\ \A v \in Versions : memory'[v] # NoEntry => memory'[v].data.version = v
               /\ \A v \in Versions : memory'[v].data \in Kept
    <3>1. /\ memory' \in Memories
          /\ \A v \in Versions : memory'[v] # NoEntry => memory'[v].data.version = v
          /\ \A v \in Versions : memory'[v].data = m \/ memory'[v] = memory[v]
      BY <2>3, L1SetFacts
    <3>2. QED
      BY <2>1, <3>1
  <2>4. QED
    BY <2>2, <2>3
<1>2. HasSince(step) /\ step.since = calls' /\ OnlyCall(c) => Finds(step)'
  BY DEF Finds
<1>3. disk' \in Disks /\ disk'.l2 = disk.l2 /\ disk'.l3 = disk.l3 /\ disk'.saving = disk.saving
  BY DEF CacheTypes
<1>4. disk.l2.version <= disk.l2.version /\ disk.l2.deployment <= disk.l2.deployment
  BY SameL2
<1>5. CacheTypes' /\ Distinguished' /\ L2IsLatest' /\ AloneFinds'
  BY <1>1, <1>2, <1>3, <1>4, TiersHold, TierStep
<1>6. HistoryHolds'
  <2>1. log'.refreshed = NoManifest /\ log'.invalidated = {}
    BY NoHistory
  <2>2. QED
    BY <2>1 DEF HistoryHolds
<1>7. QED
  BY <1>5, <1>6

\* Where a call goes when the tiers have answered
LEMMA FoundStep ==
    ASSUME CacheTypes, NEW c \in Calls, NEW m \in MaybeDeployed, Found(c, m),
           call[c].at \in {"l2", "list", "l3"}
    PROVE  \E step \in CacheCall :
              /\ call' = [call EXCEPT ![c] = step] /\ calls' = calls
              /\ \/ step = Idle
                 \/ step = [at |-> "fetch", local |-> m, since |-> call[c].since]
<1>1. call[c].since \in Int
  BY CacheCallHolds DEF HasSince
<1>2. CASE call[c].refreshing
  <2> DEFINE step == [at |-> "fetch", local |-> m, since |-> call[c].since]
  <2>1. step \in CacheCall
    BY <1>1 DEF CacheCall
  <2>2. call' = [call EXCEPT ![c] = step] /\ calls' = calls
    BY <1>2 DEF Found, GoesOn
  <2>3. QED
    BY <2>1, <2>2
<1>3. CASE ~call[c].refreshing
  <2>1. Idle \in CacheCall
    BY DEF CacheCall
  <2>2. call' = [call EXCEPT ![c] = Idle] /\ calls' = calls
    BY <1>3 DEF Found, Returns, GoesOn
  <2>3. QED
    BY <2>1, <2>2
<1>4. QED
  BY <1>2, <1>3

LEMMA GetManifestStep ==
    ASSUME CacheInv, CacheAssumption, NEW c \in Calls,
           NEW version \in Versions \cup {None}, NEW refreshing \in BOOLEAN,
           GetManifest(c, version, refreshing)
    PROVE  CacheInv'
<1> USE DEF CacheInv
<1> DEFINE hit == L1Get(version)
           step == IF hit = NoManifest
                     THEN [at |-> "l2", version |-> version, found |-> disk.l2,
                           refreshing |-> refreshing, since |-> Since(c)]
                     ELSE IF refreshing THEN [at |-> "fetch", local |-> hit, since |-> Since(c)]
                     ELSE Idle
<1>1. /\ hit \in MaybeDeployed
      /\ hit # NoManifest => hit.version \in Versions /\ memory[hit.version].data = hit
  BY L1GetFacts
<1>2. /\ call[c] = Idle /\ calls' = calls + 1 /\ call' = [call EXCEPT ![c] = step]
      /\ log' = [refreshed |-> NoManifest, invalidated |-> {}, upset |-> log.upset]
      /\ UNCHANGED <<memory, disk, outside>>
  BY DEF GetManifest, Begins, Forget, Forgetting
<1>3. Since(c) \in Int /\ disk.l2 \in MaybeDeployed /\ log.upset \in SUBSET {"went back", "L2 emptied"}
  <2>1. calls \in Nat
    BY DEF CacheTypes
  <2>2. Since(c) \in Int
    BY <2>1 DEF Since, None
  <2>3. QED
    BY <2>2, TiersHold
<1> HIDE DEF hit
<1>4. step \in CacheCall
  BY <1>1, <1>3 DEF CacheCall
<1>5. /\ HasSince(step) => step.since \in {None, Since(c)}
      /\ step.at \in {"fetch", "fetched"} /\ step.local # NoManifest =>
            memory[step.local.version].data = step.local
      /\ step.at \notin {"set", "l2Deleted"}
  BY <1>1 DEF HasSince, Idle
<1>6. Past(step) \subseteq Kept \cup {disk.l2} /\ Answer(step) \subseteq Known
  <2>1. hit \in Kept
    BY <1>1 DEF Kept
  <2>2. QED
    BY <2>1 DEF Past, Answer, Idle
<1>7. log' \in Logs
  BY <1>2, <1>3 DEF MaybeDeployed, Logs
<1> HIDE DEF step
<1>8. CallStep(c, step)
  BY <1>2, <1>5 DEF CallStep
<1>9. QED
  BY <1>2, <1>4, <1>5, <1>6, <1>7, <1>8, ReadStep

\* L2, its list or L3 has answered.
LEMMA AnsweredStep ==
    ASSUME CacheInv, CacheAssumption, NEW c \in Calls,
           L2Answered(c) \/ VersionsListed(c) \/ L3Answered(c)
    PROVE  CacheInv'
<1> USE DEF CacheInv
<1> DEFINE r == call[c]
<1>1. /\ r.at \in {"l2", "list", "l3"} /\ r # Idle /\ r.since \in Int /\ HasSince(r)
      /\ r.refreshing \in BOOLEAN /\ log' = log /\ disk' = disk /\ outside' = outside
  BY CacheCallHolds DEF L2Answered, VersionsListed, L3Answered, HasSince, Idle
<1>2. ASSUME NEW m \in MaybeDeployed, m \in Kept, Found(c, m),
             IF m # NoManifest THEN L1Set(m) ELSE UNCHANGED memory
      PROVE  CacheInv'
  <2>1. PICK step \in CacheCall :
          /\ call' = [call EXCEPT ![c] = step] /\ calls' = calls
          /\ step = Idle \/ step = [at |-> "fetch", local |-> m, since |-> r.since]
    BY <1>1, <1>2, FoundStep
  <2>2. UNCHANGED memory \/ \E n \in Kept \cap Deployed : L1Set(n)
    BY <1>2 DEF MaybeDeployed
  <2>3. m # NoManifest => memory'[m.version].data = m
    <3>1. m # NoManifest => m \in Deployed /\ L1Set(m)
      BY <1>2 DEF MaybeDeployed
    <3>2. QED
      BY <3>1, L1SetFacts
  <2>4. /\ HasSince(step) => step.since = r.since
        /\ step.at \in {"fetch", "fetched"} /\ step.local # NoManifest =>
              memory'[step.local.version].data = step.local
        /\ step.at \notin {"set", "l2Deleted"}
        /\ Past(step) \subseteq Kept /\ Answer(step) \subseteq Known
    BY <1>2, <2>1, <2>3 DEF HasSince, Idle, Past, Answer
  <2>5. log \in Logs
    BY DEF CacheTypes
  <2>6. CallStep(c, step)
    BY <1>1, <2>1, <2>4 DEF CallStep
  <2>7. QED
    BY <1>1, <2>2, <2>4, <2>5, <2>6, ReadStep
<1>3. ASSUME NEW step \in CacheCall, call' = [call EXCEPT ![c] = step], calls' = calls,
             UNCHANGED memory, step.at \in {"list", "l3"}, step.since = r.since,
             Past(step) \subseteq Kept
      PROVE  CacheInv'
  <2>1. Answer(step) \subseteq Known /\ step.at \notin {"fetch", "fetched", "set", "l2Deleted"}
    BY <1>3 DEF Answer
  <2>2. log \in Logs
    BY DEF CacheTypes
  <2>3. CallStep(c, step)
    BY <1>1, <1>3 DEF CallStep
  <2>4. QED
    BY <1>1, <1>3, <2>1, <2>2, <2>3, ReadStep
<1>4. ASSUME NEW v \in Versions PROVE disk.l3[v] \in MaybeDeployed /\ disk.l3[v] \in Kept
  BY TiersHold
<1>5. CASE L2Answered(c)
  <2>1. /\ r.at = "l2" /\ r.found \in MaybeDeployed /\ r.found \in Kept
        /\ r.version \in Versions \cup {None}
    BY <1>5, CacheCallHolds DEF L2Answered, Past
  <2>2. CASE r.found # NoManifest
    BY <1>2, <1>5, <2>1, <2>2 DEF L2Answered
  <2>3. CASE r.found = NoManifest /\ r.version = None
    <3> DEFINE step == [at |-> "list", version |-> disk.l2.version, found |-> NoManifest,
                        refreshing |-> r.refreshing, since |-> r.since]
    <3>1. call' = [call EXCEPT ![c] = step] /\ calls' = calls /\ UNCHANGED memory
      BY <1>5, <2>3 DEF L2Answered, GoesOn, Asks
    <3>2. disk.l2.version \in Versions \cup {0}
      <4>1. disk.l2 \in MaybeDeployed
        BY TiersHold
      <4>2. QED
        BY <4>1 DEF MaybeDeployed, Deployed, NoManifest
    <3>3. step \in CacheCall /\ Past(step) \subseteq Kept
      BY <1>1, <3>2 DEF CacheCall, Past
    <3>4. QED
      BY <1>3, <3>1, <3>3
  <2>4. CASE r.found = NoManifest /\ r.version # None
    <3> DEFINE step == [at |-> "l3", version |-> r.version, found |-> disk.l3[r.version],
                        refreshing |-> r.refreshing, since |-> r.since]
    <3>1. call' = [call EXCEPT ![c] = step] /\ calls' = calls /\ UNCHANGED memory
      BY <1>5, <2>4 DEF L2Answered, GoesOn, Asks
    <3>2. step \in CacheCall /\ Past(step) \subseteq Kept
      BY <1>1, <1>4, <2>1, <2>4 DEF CacheCall, Past
    <3>3. QED
      BY <1>3, <3>1, <3>2
  <2>5. QED
    BY <2>2, <2>3, <2>4
<1>6. CASE VersionsListed(c)
  <2>1. /\ r.at = "list" /\ r.version \in Versions \cup {0}
    BY <1>6, CacheCallHolds DEF VersionsListed
  <2>2. CASE r.version = 0
    <3>1. NoManifest \in MaybeDeployed /\ NoManifest \in Kept
      BY DEF MaybeDeployed, Kept
    <3>2. QED
      BY <1>2, <1>6, <2>2, <3>1 DEF VersionsListed
  <2>3. CASE r.version # 0
    <3> DEFINE step == [at |-> "l3", version |-> r.version, found |-> disk.l3[r.version],
                        refreshing |-> r.refreshing, since |-> r.since]
    <3>1. call' = [call EXCEPT ![c] = step] /\ calls' = calls /\ UNCHANGED memory
      BY <1>6, <2>3 DEF VersionsListed, GoesOn, Asks
    <3>2. step \in CacheCall /\ Past(step) \subseteq Kept
      BY <1>1, <1>4, <2>1, <2>3 DEF CacheCall, Past
    <3>3. QED
      BY <1>3, <3>1, <3>2
  <2>4. QED
    BY <2>2, <2>3
<1>7. CASE L3Answered(c)
  <2>1. r.at = "l3" /\ r.found \in MaybeDeployed /\ r.found \in Kept
    BY <1>7, CacheCallHolds DEF L3Answered, Past
  <2>2. QED
    BY <1>2, <1>7, <2>1 DEF L3Answered
<1>8. QED
  BY <1>5, <1>6, <1>7

\* The server's answer is known: it is what the server has.
LEMMA FetchStep ==
    ASSUME CacheInv, CacheAssumption, NEW c \in Calls, Fetch(c)
    PROVE  CacheInv'
<1> USE DEF CacheInv
<1> DEFINE r == call[c]
           step == [at |-> "fetched", local |-> r.local, server |-> outside, since |-> r.since]
<1>1. r.at = "fetch" /\ r # Idle /\ r.local \in MaybeDeployed /\ r.since \in Int /\ HasSince(r)
      /\ r.local \in Kept
  BY CacheCallHolds DEF Fetch, Idle, HasSince, Past
<1>2. /\ call' = [call EXCEPT ![c] = step] /\ calls' = calls
      /\ UNCHANGED <<memory, disk, outside, log>>
  BY DEF Fetch, GoesOn
<1>3. step \in CacheCall
  BY <1>1, TiersHold DEF CacheCall
<1>4. CallStep(c, step)
  BY <1>1, <1>2 DEF CallStep, HasSince
<1>5. Past(step) \subseteq Kept /\ Answer(step) \subseteq Known
  BY <1>1, TiersHold DEF Past, Answer
<1>6. step.local # NoManifest /\ step.since = calls' /\ OnlyCall(c) =>
        memory'[step.local.version].data = step.local
  BY <1>1, <1>2 DEF AloneFinds, Undisturbed, Finds
<1>7. log \in Logs
  BY DEF CacheTypes
<1>8. step.at \notin {"set", "l2Deleted"} /\ call[c] # Idle
  BY <1>1
<1> HIDE DEF r, step
<1>9. QED
  BY <1>2, <1>3, <1>4, <1>5, <1>6, <1>7, <1>8, ReadStep

\* A manifest that goes into L2, and perhaps into L1, empties the history; it says when L2
\* goes back.
LEMMA WriteStep ==
    ASSUME CacheInv, CacheAssumption, NEW c \in Calls, NEW m \in Known \cap Deployed,
           NEW step \in CacheCall, CallStep(c, step),
           L1Set(m) \/ UNCHANGED memory, L2SetManifest(m), outside' = outside,
           log' = [refreshed |-> NoManifest, invalidated |-> {},
                   upset |-> log.upset \cup Backwards(m)],
           step.at \in {"set", "persist"}, step.data = m, step.at = "set" => L1Set(m)
    PROVE  CacheInv'
<1> USE DEF CacheInv
<1>1. disk' = [l2 |-> m, l3 |-> disk.l3, saving |-> disk.saving]
  BY TiersHold DEF L2SetManifest
<1>2. /\ memory' \in Memories
      /\ \A v \in Versions : memory'[v] # NoEntry => memory'[v].data.version = v
      /\ \A v \in Versions : memory'[v].data = m \/ memory'[v] = memory[v]
      /\ L1Set(m) => memory'[m.version].data = m
  <2>1. CASE L1Set(m)
    BY <2>1, L1SetFacts
  <2>2. CASE UNCHANGED memory /\ ~L1Set(m)
    BY <2>2 DEF CacheTypes
  <2>3. QED
    BY <2>1, <2>2
<1>3. disk' \in Disks /\ disk'.l2 = m /\ disk'.l3 = disk.l3 /\ disk'.saving = disk.saving
  <2>1. disk \in Disks
    BY DEF CacheTypes
  <2>2. QED
    BY <1>1, <2>1 DEF Disks, MaybeDeployed
<1>4. Backwards(m) \subseteq {"went back", "L2 emptied"}
  BY DEF Backwards
<1>5. log' \in Logs /\ log.upset \subseteq log'.upset
  BY <1>4, TiersHold DEF Logs
<1>6. log'.upset = {} => disk.l2.version <= m.version /\ disk.l2.deployment <= m.deployment
  <2>1. log'.upset = {} => Backwards(m) = {}
    OBVIOUS
  <2>2. Backwards(m) = {} => ~(m.version < disk.l2.version \/ m.deployment < disk.l2.deployment)
    BY DEF Backwards
  <2>3. /\ disk.l2.version \in Int /\ disk.l2.deployment \in Int
        /\ m.version \in Int /\ m.deployment \in Int
    BY ManifestNumbers, TiersHold DEF MaybeDeployed
  <2>4. QED
    BY <2>1, <2>2, <2>3
<1>7. Past(step) = {m} /\ Answer(step) = {}
  BY DEF Past, Answer
<1>8. Finds(step)'
  BY <1>2, <1>3 DEF Finds
<1>9. \A v \in Versions : memory'[v].data \in Kept \cup {disk.l2, m}
  BY <1>2, TiersHold
<1>10. CacheTypes' /\ Distinguished' /\ L2IsLatest' /\ AloneFinds'
  BY <1>2, <1>3, <1>5, <1>6, <1>7, <1>8, <1>9, TiersHold, TierStep
<1>11. HistoryHolds'
  BY DEF HistoryHolds
<1>12. QED
  BY <1>10, <1>11

LEMMA SetManifestStep ==
    ASSUME CacheInv, CacheAssumption, NEW c \in Calls, SetManifest(c, outside)
    PROVE  CacheInv'
<1> DEFINE step == [at |-> "set", data |-> outside, since |-> None]
<1>1. CacheTypes
  BY DEF CacheInv
<1>2. outside \in Known \cap Deployed
  BY <1>1, TiersHold
<1>3. step \in CacheCall
  BY <1>2 DEF CacheCall, None
<1>4. CallStep(c, step)
  BY DEF SetManifest, Begins, CallStep
<1>5. QED
  BY <1>2, <1>3, <1>4, WriteStep DEF SetManifest, Set, Forgetting

LEMMA PersistManifestStep ==
    ASSUME CacheInv, CacheAssumption, NEW c \in Calls, PersistManifest(c, outside)
    PROVE  CacheInv'
<1> DEFINE step == [at |-> "persist", data |-> outside]
<1>1. CacheTypes
  BY DEF CacheInv
<1>2. outside \in Known \cap Deployed
  BY <1>1, TiersHold
<1>3. step \in CacheCall
  BY <1>2 DEF CacheCall
<1>4. CallStep(c, step)
  BY DEF PersistManifest, Begins, CallStep, HasSince
<1>5. QED
  BY <1>2, <1>3, <1>4, WriteStep DEF PersistManifest, Forgetting

\* A call returns or is over at once, and the tiers lose something or move it down.
LEMMA ReturnStep ==
    ASSUME CacheInv, NEW c \in Calls, CallStep(c, Idle), outside' = outside,
           memory' \in Memories, \A v \in Versions : memory'[v] \in {memory[v], NoEntry},
           disk' \in Disks, disk'.l2 = disk.l2, disk'.saving \subseteq Kept,
           \A v \in Versions : disk'.l3[v] \in Kept,
           log' \in Logs, log'.upset = log.upset
    PROVE  /\ CacheTypes' /\ Distinguished' /\ L2IsLatest' /\ AloneFinds'
           /\ call'[c] = Idle /\ \A d \in Calls \ {c} : call'[d] = call[d]
<1> USE DEF CacheInv
<1>1. Idle \in CacheCall /\ Past(Idle) = {} /\ Answer(Idle) = {} /\ ~HasSince(Idle)
  BY DEF CacheCall, Past, Answer, HasSince, Idle
<1>2. ASSUME NEW v \in Versions
      PROVE  (memory'[v] # NoEntry => memory'[v].data.version = v) /\ memory'[v].data \in Kept
  <2>1. memory'[v] = memory[v] \/ memory'[v] = NoEntry
    OBVIOUS
  <2>2. NoEntry.data = NoManifest
    BY DEF NoEntry
  <2>3. memory[v].data \in Kept /\ NoManifest \in Kept
    BY TiersHold
  <2>4. memory[v] # NoEntry => memory[v].data.version = v
    BY DEF CacheTypes
  <2>5. QED
    BY <2>1, <2>2, <2>3, <2>4
<1>3. disk.l2.version <= disk.l2.version /\ disk.l2.deployment <= disk.l2.deployment
  BY SameL2
<1>4. QED
  BY <1>1, <1>2, <1>3, TiersHold, TierStep

LEMMA HistoryWritten ==
    ASSUME log = [refreshed |-> log.refreshed, invalidated |-> log.invalidated,
                  upset |-> log.upset],
           NEW x
    PROVE  /\ [log EXCEPT !.refreshed = x]
                 = [refreshed |-> x, invalidated |-> log.invalidated, upset |-> log.upset]
           /\ [log EXCEPT !.invalidated = x]
                 = [refreshed |-> log.refreshed, invalidated |-> x, upset |-> log.upset]
<1>1. [log EXCEPT !.refreshed = x]
        = [refreshed |-> x, invalidated |-> log.invalidated, upset |-> log.upset]
  OBVIOUS
<1>2. [log EXCEPT !.invalidated = x]
        = [refreshed |-> log.refreshed, invalidated |-> x, upset |-> log.upset]
  OBVIOUS
<1>3. QED
  BY <1>1, <1>2

\* setManifest is over: a refresh that was alone all the time has left its manifest in L1 and
\* L2.
LEMMA L2WrittenStep ==
    ASSUME CacheInv, CacheAssumption, NEW c \in Calls, L2Written(c)
    PROVE  CacheInv'
<1> USE DEF CacheInv
<1> DEFINE r == call[c]
<1>1. /\ r.at = "set" /\ r # Idle /\ HasSince(r) /\ r.data \in Deployed /\ r.data \in Kept
      /\ log.refreshed = NoManifest /\ log.invalidated = {}
  BY CacheCallHolds, NoHistory DEF L2Written, Idle, HasSince, Past
<1>2. CallStep(c, Idle) /\ memory' = memory /\ outside' = outside
  BY <1>1 DEF L2Written, Returns, GoesOn, CallStep, HasSince, Idle
<1>3. disk' = [l2 |-> disk.l2, l3 |-> disk.l3, saving |-> disk.saving \cup {r.data}]
  BY TiersHold DEF L2Written
<1>4. log' = IF Undisturbed(c) /\ r.data = outside
               THEN [refreshed |-> r.data, invalidated |-> {}, upset |-> log.upset] ELSE log
  <2>1. log' = IF Undisturbed(c) /\ r.data = outside THEN [log EXCEPT !.refreshed = r.data] ELSE log
    BY DEF L2Written
  <2>2. [log EXCEPT !.refreshed = r.data]
          = [refreshed |-> r.data, invalidated |-> {}, upset |-> log.upset]
    BY <1>1, HistoryWritten, TiersHold
  <2>3. QED
    BY <2>1, <2>2
<1>5. disk' \in Disks /\ disk'.l2 = disk.l2 /\ disk'.l3 = disk.l3 /\ disk'.saving \subseteq Kept
  <2>1. disk \in Disks
    BY DEF CacheTypes
  <2>2. QED
    BY <1>1, <1>3, <2>1, TiersHold DEF Disks
<1>6. log' \in Logs /\ log'.upset = log.upset
  <2>1. log \in Logs
    BY DEF CacheTypes
  <2>2. QED
    BY <1>1, <1>4, <2>1 DEF Logs, MaybeDeployed
<1>7. \A v \in Versions : memory'[v] \in {memory[v], NoEntry} /\ disk'.l3[v] \in Kept
  BY <1>2, <1>5, TiersHold
<1>8. memory' \in Memories
  BY <1>2 DEF CacheTypes
<1>9. /\ CacheTypes' /\ Distinguished' /\ L2IsLatest' /\ AloneFinds'
      /\ call'[c] = Idle /\ \A d \in Calls \ {c} : call'[d] = call[d]
  BY <1>2, <1>5, <1>6, <1>7, <1>8, ReturnStep
<1>10. HistoryHolds'
  <2>1. log'.invalidated = {}
    BY <1>1, <1>4
  <2>2. CASE Undisturbed(c) /\ r.data = outside
    <3>1. OnlyCall(c) /\ disk.l2 = r.data /\ memory[r.data.version].data = r.data
      BY <1>1, <2>2 DEF AloneFinds, Finds
    <3>2. Quiet'
      BY <1>9, <3>1 DEF Quiet, OnlyCall
    <3>3. log'.refreshed = r.data
      BY <1>4, <2>2
    <3>4. QED
      BY <1>2, <1>5, <2>1, <3>1, <3>2, <3>3 DEF HistoryHolds
  <2>3. CASE ~(Undisturbed(c) /\ r.data = outside)
    BY <1>1, <1>4, <2>3 DEF HistoryHolds
  <2>4. QED
    BY <2>2, <2>3
<1>11. QED
  BY <1>9, <1>10

\* The server's answer was in the cache, or goes into it.
LEMMA FetchedStep ==
    ASSUME CacheInv, CacheAssumption, NEW c \in Calls, Fetched(c)
    PROVE  CacheInv'
<1> USE DEF CacheInv
<1> DEFINE r == call[c]
<1>1. /\ r.at = "fetched" /\ r # Idle /\ HasSince(r) /\ r.since \in Int
      /\ r.local \in MaybeDeployed /\ r.local \in Kept
      /\ r.server \in Deployed /\ r.server \in Known
      /\ log.refreshed = NoManifest /\ log.invalidated = {}
  BY CacheCallHolds, NoHistory DEF Fetched, Idle, HasSince, Past, Answer
<1>2. CASE r.local # r.server
  <2> DEFINE step == [at |-> "set", data |-> r.server, since |-> r.since]
  <2>1. /\ Set(r.server) /\ call' = [call EXCEPT ![c] = step] /\ calls' = calls
        /\ log' = [log EXCEPT !.upset = @ \cup Backwards(r.server)] /\ outside' = outside
    BY <1>2 DEF Fetched, Changed, GoesOn
  <2>2. step \in CacheCall
    BY <1>1 DEF CacheCall
  <2>3. CallStep(c, step)
    BY <1>1, <2>1 DEF CallStep
  <2>4. log' = [refreshed |-> NoManifest, invalidated |-> {},
                upset |-> log.upset \cup Backwards(r.server)]
    BY <1>1, <2>1, TiersHold
  <2>5. step.at = "set" /\ step.data = r.server
    OBVIOUS
  <2> HIDE DEF r, step
  <2>6. QED
    BY <1>1, <2>1, <2>2, <2>3, <2>4, <2>5, WriteStep DEF Set
<1>3. CASE r.local = r.server
  <2>1. CallStep(c, Idle) /\ memory' = memory /\ disk' = disk /\ outside' = outside
    BY <1>1, <1>3 DEF Fetched, Changed, Returns, GoesOn, CallStep, HasSince, Idle
  <2>2. log' = IF Undisturbed(c) /\ r.server = outside
                 THEN [refreshed |-> r.server, invalidated |-> {}, upset |-> log.upset] ELSE log
    BY <1>1, <1>3, TiersHold DEF Fetched, Changed
  <2>3. log' \in Logs /\ log'.upset = log.upset
    <3>1. log \in Logs
      BY DEF CacheTypes
    <3>2. QED
      BY <1>1, <2>2, <3>1 DEF Logs, MaybeDeployed
  <2>4. /\ disk' \in Disks /\ memory' \in Memories /\ disk'.saving \subseteq Kept
        /\ \A v \in Versions : memory'[v] \in {memory[v], NoEntry} /\ disk'.l3[v] \in Kept
    BY <2>1, TiersHold DEF CacheTypes
  <2>5. /\ CacheTypes' /\ Distinguished' /\ L2IsLatest' /\ AloneFinds'
        /\ call'[c] = Idle /\ \A d \in Calls \ {c} : call'[d] = call[d]
    BY <2>1, <2>3, <2>4, ReturnStep
  <2>6. HistoryHolds'
    <3>1. log'.invalidated = {}
      BY <1>1, <2>2
    <3>2. CASE Undisturbed(c) /\ r.server = outside
      <4>1. r.local = outside /\ outside # NoManifest
        BY <1>3, <3>2, DeployedIsSome, TiersHold
      <4>2. OnlyCall(c) /\ memory[outside.version].data = outside
        BY <1>1, <3>2, <4>1 DEF AloneFinds, Finds
      <4>3. Quiet'
        BY <2>5, <4>2 DEF Quiet, OnlyCall
      <4>4. log.upset = {} => disk.l2 = outside
        <5>1. log.upset = {} => outside.deployment <= disk.l2.deployment
          BY <1>1, <4>1 DEF L2IsLatest
        <5>2. disk.l2.deployment <= outside.deployment
          BY TiersHold DEF Distinguished
        <5>3. disk.l2.deployment \in Int /\ outside.deployment \in Int
          BY TiersHold, ManifestNumbers DEF MaybeDeployed
        <5>4. log.upset = {} => disk.l2.deployment = outside.deployment
          BY <5>1, <5>2, <5>3
        <5>5. QED
          BY <5>4, TiersHold DEF Distinguished
      <4>5. log'.refreshed = outside /\ log'.upset = log.upset
        BY <2>2, <3>2
      <4>6. QED
        BY <2>1, <3>1, <4>2, <4>3, <4>4, <4>5 DEF HistoryHolds
    <3>3. CASE ~(Undisturbed(c) /\ r.server = outside)
      BY <1>1, <2>2, <3>3 DEF HistoryHolds
    <3>4. QED
      BY <3>2, <3>3
  <2>7. QED
    BY <2>5, <2>6
<1>4. QED
  BY <1>2, <1>3

\* persistManifest is over; the history is empty, for no call returns into it.
LEMMA ManifestPersistedStep ==
    ASSUME CacheInv, CacheAssumption, NEW c \in Calls, ManifestPersisted(c)
    PROVE  CacheInv'
<1> USE DEF CacheInv
<1> DEFINE r == call[c]
<1>1. /\ r # Idle /\ r.data \in Deployed /\ r.data \in Kept
      /\ log.refreshed = NoManifest /\ log.invalidated = {}
  BY CacheCallHolds, NoHistory DEF ManifestPersisted, Idle, Past
<1>2. CallStep(c, Idle) /\ UNCHANGED <<memory, outside, log>>
  BY <1>1 DEF ManifestPersisted, Returns, GoesOn, CallStep, HasSince, Idle
<1>3. disk' = [l2 |-> disk.l2, l3 |-> [disk.l3 EXCEPT ![r.data.version] = r.data],
               saving |-> disk.saving]
  BY TiersHold DEF ManifestPersisted
<1>4. disk'.l2 = disk.l2 /\ disk'.saving = disk.saving
  BY <1>3
<1>5. disk'.l3 \in [Versions -> MaybeDeployed] /\ \A v \in Versions : disk'.l3[v] \in Kept
  <2>1. disk.l3 \in [Versions -> MaybeDeployed]
    BY DEF CacheTypes, Disks
  <2>2. r.data \in MaybeDeployed
    BY <1>1 DEF MaybeDeployed
  <2>3. disk'.l3 = [disk.l3 EXCEPT ![r.data.version] = r.data]
    BY <1>3
  <2>4. QED
    BY <1>1, <2>1, <2>2, <2>3, TiersHold
<1>6. disk' \in Disks
  BY <1>3, <1>4, <1>5, TiersHold DEF Disks
<1>7. memory' \in Memories /\ log' \in Logs
  BY <1>2 DEF CacheTypes
<1>8. CacheTypes' /\ Distinguished' /\ L2IsLatest' /\ AloneFinds'
  BY <1>2, <1>4, <1>5, <1>6, <1>7, TiersHold, ReturnStep
<1>9. HistoryHolds'
  BY <1>1, <1>2 DEF HistoryHolds
<1>10. QED
  BY <1>8, <1>9

LEMMA L1InvalidateFacts ==
    ASSUME CacheTypes, NEW version \in Versions \cup {None}, L1Invalidate(version)
    PROVE  /\ memory' \in Memories /\ \A v \in Versions : memory'[v] \in {memory[v], NoEntry}
           /\ version \in Versions => memory'[version] = NoEntry
BY DEF CacheTypes, Memories, L1Invalidate

\* Without a version L1 alone is emptied; with one, so is L2, which then has gone back.
LEMMA InvalidateStep ==
    ASSUME CacheInv, CacheAssumption, NEW c \in Calls, NEW version \in Versions \cup {None},
           Invalidate(c, version)
    PROVE  CacheInv'
<1> USE DEF CacheInv
<1>1. /\ memory' \in Memories /\ \A v \in Versions : memory'[v] \in {memory[v], NoEntry}
      /\ version \in Versions => memory'[version] = NoEntry
  BY L1InvalidateFacts DEF Invalidate
<1>2. CASE version = None
  <2>1. CallStep(c, Idle) /\ disk' = disk /\ outside' = outside
    BY <1>2 DEF Invalidate, BeginsAndReturns, Begins, CallStep, HasSince, Idle
  <2>2. log' = [refreshed |-> NoManifest, invalidated |-> {}, upset |-> log.upset]
    BY <1>2 DEF Invalidate, Forget, Forgetting
  <2>3. log' \in Logs
    BY <2>2, TiersHold DEF Logs
  <2>4. disk' \in Disks
    BY <2>1 DEF CacheTypes
  <2>5. CacheTypes' /\ Distinguished' /\ L2IsLatest' /\ AloneFinds'
    BY <1>1, <2>1, <2>2, <2>3, <2>4, TiersHold, ReturnStep
  <2>6. HistoryHolds'
    BY <2>2 DEF HistoryHolds
  <2>7. QED
    BY <2>5, <2>6
<1>3. CASE version # None
  <2> DEFINE upset == IF disk.l2 = NoManifest THEN {} ELSE {"L2 emptied"}
             since == IF disk.saving = {} THEN Since(c) ELSE None
  <2>0. PICK step : step = [at |-> "l2Deleted", version |-> version, since |-> since]
    OBVIOUS
  <2>1. /\ call[c] = Idle /\ calls' = calls + 1 /\ call' = [call EXCEPT ![c] = step]
        /\ outside' = outside
    BY <1>3, <2>0 DEF Invalidate, Begins
  <2>2. disk' = [l2 |-> NoManifest, l3 |-> disk.l3, saving |-> disk.saving]
    BY <1>3, TiersHold DEF Invalidate, L2DeleteManifest
  <2>3. log' = [refreshed |-> NoManifest, invalidated |-> {}, upset |-> log.upset \cup upset]
    BY <1>3 DEF Invalidate, Forgetting
  <2>4. step \in CacheCall /\ CallStep(c, step)
    <3>1. calls \in Nat
      BY DEF CacheTypes
    <3>2. step.since \in Int /\ step.since \in {None, Since(c)}
      BY <2>0, <3>1 DEF Since, None
    <3>3. step \in CacheCall
      BY <1>3, <2>0, <3>2 DEF CacheCall
    <3>4. QED
      BY <2>1, <3>2, <3>3 DEF CallStep
  <2>5. disk' \in Disks /\ disk'.l2 = NoManifest /\ disk'.l3 = disk.l3 /\ disk'.saving = disk.saving
    <3>1. disk \in Disks
      BY DEF CacheTypes
    <3>2. QED
      BY <2>2, <3>1, TiersHold DEF Disks
  <2>6. log' \in Logs /\ log.upset \subseteq log'.upset
    BY <2>3, TiersHold DEF Logs
  <2>7. log'.upset = {} => /\ disk.l2.version <= disk'.l2.version
                           /\ disk.l2.deployment <= disk'.l2.deployment
    <3>1. log'.upset = {} => disk.l2 = disk'.l2
      BY <2>3, <2>5
    <3>2. QED
      BY <3>1, SameL2
  <2>8. \A v \in Versions : (memory'[v] # NoEntry => memory'[v].data.version = v)
                            /\ memory'[v].data \in Kept
    <3>1. NoEntry.data = NoManifest
      BY DEF NoEntry
    <3>2. \A v \in Versions : memory[v] # NoEntry => memory[v].data.version = v
      BY DEF CacheTypes
    <3>3. QED
      BY <1>1, <3>1, <3>2, TiersHold
  <2>9. Past(step) = {} /\ Answer(step) = {}
    BY <2>0 DEF Past, Answer
  <2>10. step.since = calls' => Finds(step)'
    <3>1. step.since = calls' => disk.saving = {}
      <4>1. calls \in Nat
        BY DEF CacheTypes
      <4>2. QED
        BY <2>0, <2>1, <4>1 DEF None
    <3>2. step.at = "l2Deleted" /\ step.version = version
      BY <2>0
    <3>3. QED
      BY <1>1, <1>3, <2>5, <3>1, <3>2 DEF Finds
  <2>11. CacheTypes' /\ Distinguished' /\ L2IsLatest' /\ AloneFinds'
    BY <1>1, <2>1, <2>4, <2>5, <2>6, <2>7, <2>8, <2>9, <2>10, TiersHold, TierStep
  <2>12. HistoryHolds'
    BY <2>3 DEF HistoryHolds
  <2>13. QED
    BY <2>11, <2>12
<1>4. QED
  BY <1>2, <1>3

\* The invalidation is over: when it was alone all the time the version is in neither L1 nor
\* L2, nor in L3 unless its file could not be deleted.
LEMMA L2DeletedStep ==
    ASSUME CacheInv, CacheAssumption, NEW c \in Calls, NEW deleted \in BOOLEAN,
           L2Deleted(c, deleted)
    PROVE  CacheInv'
<1> USE DEF CacheInv
<1> DEFINE r == call[c]
           gone == [version |-> r.version, deleted |-> deleted]
<1>1. /\ r.at = "l2Deleted" /\ r # Idle /\ HasSince(r) /\ r.version \in Versions
      /\ log.refreshed = NoManifest /\ log.invalidated = {}
  BY CacheCallHolds, NoHistory DEF L2Deleted, Idle, HasSince
<1>2. CallStep(c, Idle) /\ UNCHANGED <<memory, outside>>
  BY <1>1 DEF L2Deleted, Returns, GoesOn, CallStep, HasSince, Idle
<1>3. /\ disk'.l2 = disk.l2 /\ disk'.saving = disk.saving /\ disk' \in Disks
      /\ deleted => disk'.l3[r.version] = NoManifest
      /\ \A v \in Versions : disk'.l3[v] \in Kept
  <2>1. CASE ~deleted
    BY <2>1, TiersHold DEF L2Deleted, CacheTypes
  <2>2. CASE deleted
    <3>1. disk' = [l2 |-> disk.l2, l3 |-> [disk.l3 EXCEPT ![r.version] = NoManifest],
                   saving |-> disk.saving]
      BY <2>2, TiersHold DEF L2Deleted, L3DeleteFile
    <3>2. disk'.l2 = disk.l2 /\ disk'.saving = disk.saving
      BY <3>1
    <3>3. /\ disk'.l3 \in [Versions -> MaybeDeployed] /\ disk'.l3[r.version] = NoManifest
          /\ \A v \in Versions : disk'.l3[v] \in Kept
      <4>1. disk.l3 \in [Versions -> MaybeDeployed]
        BY DEF CacheTypes, Disks
      <4>2. disk'.l3 = [disk.l3 EXCEPT ![r.version] = NoManifest]
        BY <3>1
      <4>3. QED
        BY <1>1, <4>1, <4>2, TiersHold
    <3>4. disk' \in Disks
      BY <3>1, <3>2, <3>3, TiersHold DEF Disks
    <3>5. QED
      BY <3>2, <3>3, <3>4
  <2>3. QED
    BY <2>1, <2>2
<1>4. gone \in [version : Versions, deleted : BOOLEAN]
  BY <1>1
<1> HIDE DEF gone
<1>5. log' = IF Undisturbed(c)
               THEN [refreshed |-> NoManifest, invalidated |-> {gone}, upset |-> log.upset]
               ELSE log
  <2>1. log' = IF Undisturbed(c) THEN [log EXCEPT !.invalidated = {gone}] ELSE log
    BY DEF L2Deleted, gone
  <2>2. [log EXCEPT !.invalidated = {gone}]
          = [refreshed |-> log.refreshed, invalidated |-> {gone}, upset |-> log.upset]
    BY HistoryWritten, TiersHold
  <2>3. QED
    BY <1>1, <2>1, <2>2
<1>6. memory' \in Memories /\ log' \in Logs /\ log'.upset = log.upset
  <2>1. log \in Logs /\ memory' \in Memories
    BY <1>2 DEF CacheTypes
  <2>2. QED
    BY <1>4, <1>5, <2>1, TiersHold DEF Logs
<1>7. /\ CacheTypes' /\ Distinguished' /\ L2IsLatest' /\ AloneFinds'
      /\ call'[c] = Idle /\ \A d \in Calls \ {c} : call'[d] = call[d]
  BY <1>2, <1>3, <1>6, TiersHold, ReturnStep
<1>8. HistoryHolds'
  <2>1. log'.refreshed = NoManifest
    BY <1>1, <1>5
  <2>2. CASE Undisturbed(c)
    <3>1. OnlyCall(c) /\ memory[r.version] = NoEntry /\ disk.l2 = NoManifest /\ disk.saving = {}
      BY <1>1, <2>2 DEF AloneFinds, Finds
    <3>2. Quiet'
      BY <1>7, <3>1 DEF Quiet, OnlyCall
    <3>3. log'.invalidated = {gone} /\ NoManifest.version \notin Versions
      BY <1>5, <2>2 DEF NoManifest, Versions
    <3>4. gone.version = r.version /\ gone.deleted = deleted
      BY DEF gone
    <3>5. InvalidatedIsGone'
      BY <1>1, <1>2, <1>3, <3>1, <3>3, <3>4 DEF InvalidatedIsGone
    <3>6. QED
      BY <1>3, <2>1, <3>1, <3>2, <3>5 DEF HistoryHolds
  <2>3. CASE ~Undisturbed(c)
    BY <1>1, <1>5, <2>3 DEF HistoryHolds
  <2>4. QED
    BY <2>2, <2>3
<1>9. QED
  BY <1>7, <1>8

-----------------------------------------------------------------------------
(* The steps of no call *)

\* With the calls as they are, the tiers lose something or move it down.
LEMMA QuietStep ==
    ASSUME CacheInv, call' = call, calls' = calls, log' = log, outside' = outside,
           memory' \in Memories,
           \A v \in Versions : /\ memory'[v].data = memory[v].data
                               /\ (memory'[v] = NoEntry) = (memory[v] = NoEntry),
           disk' \in Disks, disk'.l2 = disk.l2, disk'.saving \subseteq disk.saving,
           \A v \in Versions : disk'.l3[v] \in Kept,
           disk' # disk => disk.saving # {}
    PROVE  CacheInv'
<1> USE DEF CacheInv
<1>1. CacheTypes'
  BY DEF CacheTypes
<1>2. disk.l2.version <= disk.l2.version /\ disk.l2.deployment <= disk.l2.deployment
  BY SameL2
<1>3. \A c \in Calls : Past(call[c]) \subseteq Kept /\ Answer(call[c]) \subseteq Known
  BY CacheCallHolds
<1>4. Distinguished' /\ L2IsLatest'
  BY <1>1, <1>2, <1>3, TiersHold, ManifestsStep
<1>5. AloneFinds'
  <2>1. ASSUME NEW c \in Calls, HasSince(call[c]), Undisturbed(c)
        PROVE  OnlyCall(c)' /\ Finds(call[c])'
    <3>1. OnlyCall(c) /\ Finds(call[c])
      BY <2>1 DEF AloneFinds
    <3>2. OnlyCall(c)'
      BY <3>1 DEF OnlyCall
    <3>3. /\ call[c].at \in {"fetch", "fetched"} => call[c].local \in MaybeDeployed
          /\ call[c].at = "set" => call[c].data \in Deployed
          /\ call[c].at = "l2Deleted" => call[c].version \in Versions
      BY CacheCallHolds
    <3>4. /\ call[c].at \in {"fetch", "fetched"} /\ call[c].local # NoManifest =>
                call[c].local.version \in Versions
          /\ call[c].at = "set" => call[c].data.version \in Versions
      BY <3>3 DEF MaybeDeployed, Deployed
    <3>5. QED
      BY <3>1, <3>2, <3>3, <3>4 DEF Finds
  <2>2. QED
    BY <2>1 DEF AloneFinds, HasSince, Undisturbed
<1>6. HistoryHolds'
  <2>1. log.refreshed # NoManifest => Quiet' /\ (log.upset = {} =>
          /\ disk'.l2 = log.refreshed
          /\ \/ \A v \in Versions : memory'[v] = NoEntry
             \/ memory'[disk'.l2.version].data = disk'.l2)
    <3>1. log.refreshed # NoManifest /\ log.upset = {} => disk.l2.version \in Versions
      BY TiersHold DEF HistoryHolds, MaybeDeployed, Deployed
    <3>2. QED
      BY <3>1 DEF HistoryHolds, Quiet
  <2>2. log.invalidated # {} => Quiet' /\ disk'.saving = {} /\ InvalidatedIsGone'
    <3>1. log.invalidated # {} => disk.saving = {} /\ disk' = disk /\ InvalidatedIsGone /\ Quiet
      BY DEF HistoryHolds
    <3>2. \A i \in log.invalidated : i.version \in Versions
      BY DEF CacheTypes, Logs
    <3>3. QED
      BY <3>1, <3>2 DEF InvalidatedIsGone, Quiet
  <2>3. QED
    BY <2>1, <2>2 DEF HistoryHolds
<1>7. QED
  BY <1>1, <1>4, <1>5, <1>6

LEMMA FileStep ==
    ASSUME CacheInv, NEW m \in disk.saving, FileSaved(m) \/ FileLost(m)
    PROVE  CacheInv'
<1> USE DEF CacheInv
<1>1. UNCHANGED <<memory, outside, call, log, calls>>
  BY DEF FileSaved, FileLost
<1>2. memory \in Memories /\ disk.l3 \in [Versions -> MaybeDeployed] /\ m \in Deployed /\ m \in Kept
  BY TiersHold DEF CacheTypes, Disks
<1>3. disk' \in Disks /\ disk'.l2 = disk.l2 /\ disk'.saving = disk.saving \ {m}
      /\ \A v \in Versions : disk'.l3[v] \in Kept
  <2>1. CASE FileSaved(m)
    <3>1. disk' = [l2 |-> disk.l2, l3 |-> [disk.l3 EXCEPT ![m.version] = m],
                   saving |-> disk.saving \ {m}]
      BY <2>1, TiersHold DEF FileSaved
    <3>2. [disk.l3 EXCEPT ![m.version] = m] \in [Versions -> MaybeDeployed]
          /\ \A v \in Versions : [disk.l3 EXCEPT ![m.version] = m][v] \in Kept
      BY <1>2, TiersHold DEF MaybeDeployed
    <3>3. QED
      BY <3>1, <3>2, TiersHold DEF Disks
  <2>2. CASE FileLost(m)
    <3>1. disk' = [l2 |-> disk.l2, l3 |-> disk.l3, saving |-> disk.saving \ {m}]
      BY <2>2, TiersHold DEF FileLost
    <3>2. QED
      BY <1>2, <3>1, TiersHold DEF Disks
  <2>3. QED
    BY <2>1, <2>2
<1>4. QED
  BY <1>1, <1>2, <1>3, QuietStep

LEMMA FiveMinutesPassStep ==
    ASSUME CacheInv, FiveMinutesPass
    PROVE  CacheInv'
<1> USE DEF CacheInv
<1>1. UNCHANGED <<disk, outside, call, log, calls>>
  BY DEF FiveMinutesPass
<1>2. memory' = [v \in Versions |-> [memory[v] EXCEPT !.fresh = FALSE]]
  BY DEF FiveMinutesPass
<1>3. ASSUME NEW v \in Versions
      PROVE  /\ memory'[v] \in {NoEntry} \cup [data : Deployed, fresh : BOOLEAN]
             /\ memory'[v].data = memory[v].data
             /\ (memory'[v] = NoEntry) = (memory[v] = NoEntry)
  <2>1. memory'[v] = [memory[v] EXCEPT !.fresh = FALSE]
    BY <1>2
  <2>2. memory[v] \in [data : MaybeDeployed, fresh : BOOLEAN]
    <3>1. NoEntry \in [data : MaybeDeployed, fresh : BOOLEAN]
      BY TiersHold DEF NoEntry
    <3>2. memory[v] \in {NoEntry} \cup [data : Deployed, fresh : BOOLEAN]
      BY DEF CacheTypes, Memories
    <3>3. CASE memory[v] \in [data : Deployed, fresh : BOOLEAN]
      BY <3>3 DEF MaybeDeployed
    <3>4. QED
      BY <3>1, <3>2, <3>3
  <2>3. memory'[v] = [data |-> memory[v].data, fresh |-> FALSE] /\ memory'[v].data = memory[v].data
    BY <2>1, <2>2
  <2>4. CASE memory[v] = NoEntry
    <3>1. memory[v].data = NoManifest
      BY <2>4 DEF NoEntry
    <3>2. memory'[v] = NoEntry
      BY <2>3, <3>1 DEF NoEntry
    <3>3. QED
      BY <2>3, <2>4, <3>2
  <2>5. CASE memory[v] # NoEntry
    <3>1. memory[v].data \in Deployed
      BY <2>5 DEF CacheTypes, Memories
    <3>2. memory'[v] \in [data : Deployed, fresh : BOOLEAN]
      BY <2>3, <3>1
    <3>3. memory'[v] # NoEntry
      BY <2>3, <3>1, DeployedIsSome DEF NoEntry
    <3>4. QED
      BY <2>3, <2>5, <3>2, <3>3
  <2>6. QED
    BY <2>4, <2>5
<1>4. memory' \in Memories
  BY <1>2, <1>3 DEF Memories
<1>5. disk \in Disks
  BY DEF CacheTypes
<1>6. QED
  BY <1>1, <1>3, <1>4, <1>5, TiersHold, QuietStep

\* What the server deploys is later than all that is known.
LEMMA ServerDeploysStep ==
    ASSUME CacheInv, NEW version \in Versions, ServerDeploys(version)
    PROVE  CacheInv'
<1> USE DEF CacheInv
<1>1. /\ outside' = [version |-> version, deployment |-> outside.deployment + 1]
      /\ log' = [refreshed |-> NoManifest, invalidated |-> {}, upset |-> log.upset]
      /\ UNCHANGED <<memory, disk, call, calls>>
  BY DEF ServerDeploys, Forget, Forgetting
<1>2. outside.deployment \in Nat \ {0} /\ outside.version \in Versions
  BY TiersHold DEF Deployed
<1>3. outside' \in Deployed /\ outside'.deployment = outside.deployment + 1
  BY <1>1, <1>2 DEF Deployed
<1>4. log' \in Logs
  BY <1>1, TiersHold DEF Logs
<1>5. CacheTypes'
  BY <1>1, <1>3, <1>4 DEF CacheTypes
<1>6. Kept' = Kept /\ Known' \subseteq Known \cup {outside'}
  <2>1. Kept' = Kept
    BY <1>1 DEF Kept
  <2>2. QED
    BY <1>1, <2>1 DEF Known
<1>7. ASSUME NEW m \in Known PROVE m.deployment \in Int /\ m.deployment < outside'.deployment
  <2>1. m \in MaybeDeployed
    <3>1. CASE m \in UNION {Answer(call[c]) : c \in Calls}
      BY <3>1, CacheCallHolds DEF Answer, MaybeDeployed
    <3>2. CASE m \in {disk.l2, outside}
      BY <3>2, TiersHold DEF MaybeDeployed
    <3>3. CASE m \in Kept
      BY <3>3, KeptTypes
    <3>4. QED
      BY <1>7, <3>1, <3>2, <3>3 DEF Known
  <2>2. m.deployment \in Int
    BY <2>1, ManifestNumbers
  <2>3. m.deployment <= outside.deployment
    BY DEF Distinguished
  <2>4. QED
    BY <1>2, <1>3, <2>2, <2>3
<1>8. Distinguished'
  <2>1. ASSUME NEW m \in Known', NEW n \in Known', m.deployment = n.deployment PROVE m = n
    <3>1. CASE m \in Known /\ n \in Known
      BY <2>1, <3>1 DEF Distinguished
    <3>2. CASE m = outside' /\ n \in Known
      <4>1. n.deployment \in Int /\ n.deployment < outside'.deployment
        BY <1>7, <3>2
      <4>2. QED
        BY <1>2, <1>3, <2>1, <3>2, <4>1
    <3>3. CASE m \in Known /\ n = outside'
      <4>1. m.deployment \in Int /\ m.deployment < outside'.deployment
        BY <1>7, <3>3
      <4>2. QED
        BY <1>2, <1>3, <2>1, <3>3, <4>1
    <3>4. QED
      BY <1>6, <3>1, <3>2, <3>3
  <2>2. ASSUME NEW m \in Known' PROVE m.deployment <= outside'.deployment
    <3>1. CASE m \in Known
      BY <1>2, <1>3, <1>7, <3>1
    <3>2. CASE m = outside'
      BY <1>2, <1>3, <3>2
    <3>3. QED
      BY <1>6, <3>1, <3>2
  <2>3. QED
    BY <2>1, <2>2 DEF Distinguished
<1>9. L2IsLatest'
  BY <1>1, <1>6 DEF L2IsLatest
<1>10. AloneFinds'
  BY <1>1 DEF AloneFinds, Finds, Undisturbed, OnlyCall
<1>11. HistoryHolds'
  BY <1>1 DEF HistoryHolds
<1>12. QED
  BY <1>5, <1>8, <1>9, <1>10, <1>11

LEMMA RestartAppStep ==
    ASSUME CacheInv, RestartApp
    PROVE  CacheInv'
<1> USE DEF CacheInv
<1>1. /\ calls' = calls + 1 /\ memory' = [v \in Versions |-> NoEntry]
      /\ call' = [c \in Calls |-> Idle] /\ UNCHANGED <<outside, log>>
  BY DEF RestartApp, StartsAgain
<1>2. disk' = [l2 |-> disk.l2, l3 |-> disk.l3, saving |-> {}]
  BY TiersHold DEF RestartApp
<1>3. disk' \in Disks /\ disk'.l2 = disk.l2 /\ disk'.l3 = disk.l3 /\ disk'.saving = {}
  <2>1. disk \in Disks
    BY DEF CacheTypes
  <2>2. QED
    BY <1>2, <2>1 DEF Disks
<1>4. Idle \in CacheCall /\ Past(Idle) = {} /\ Answer(Idle) = {} /\ ~HasSince(Idle)
  BY DEF CacheCall, Past, Answer, HasSince, Idle
<1>5. \A c \in Calls : call'[c] = Idle
  BY <1>1
<1>6. \A v \in Versions : memory'[v] = NoEntry
  BY <1>1
<1>7. NoEntry.data = NoManifest
  BY DEF NoEntry
<1>8. CacheTypes'
  <2>1. calls' \in Nat
    BY <1>1 DEF CacheTypes
  <2>2. memory' \in Memories /\ call' \in [Calls -> CacheCall]
    BY <1>1, <1>4 DEF Memories
  <2>3. outside' \in Deployed /\ log' \in Logs
    BY <1>1 DEF CacheTypes
  <2>4. QED
    BY <1>3, <1>4, <1>5, <1>6, <2>1, <2>2, <2>3 DEF CacheTypes, HasSince
<1>9. disk.l2.version <= disk.l2.version /\ disk.l2.deployment <= disk.l2.deployment
  BY SameL2
<1>10. \A v \in Versions : memory'[v].data \in Kept /\ disk'.l3[v] \in Kept
  BY <1>3, <1>6, <1>7, TiersHold
<1>11. Distinguished' /\ L2IsLatest'
  BY <1>1, <1>3, <1>4, <1>5, <1>8, <1>9, <1>10, TiersHold, ManifestsStep
<1>12. AloneFinds'
  BY <1>4, <1>5 DEF AloneFinds, HasSince
<1>13. HistoryHolds'
  <2>1. Quiet'
    BY <1>5 DEF Quiet
  <2>2. log.invalidated # {} => InvalidatedIsGone'
    <3>1. \A i \in log.invalidated : i.version \in Versions
      BY DEF CacheTypes, Logs
    <3>2. QED
      BY <1>1, <1>3, <1>6, <3>1 DEF HistoryHolds, InvalidatedIsGone
  <2>3. QED
    BY <1>1, <1>3, <1>6, <2>1, <2>2 DEF HistoryHolds
<1>14. QED
  BY <1>8, <1>11, <1>12, <1>13

\* With new stores the cache is as at first, but for the server.
LEMMA RestartInMemoryStep ==
    ASSUME CacheInv, RestartInMemory
    PROVE  CacheInv'
<1> USE DEF CacheInv
<1>1. /\ calls' = calls + 1 /\ memory' = [v \in Versions |-> NoEntry]
      /\ call' = [c \in Calls |-> Idle] /\ outside' = outside /\ disk' = NoDisk
      /\ log' = [refreshed |-> NoManifest, invalidated |-> log.invalidated, upset |-> {}]
  BY DEF RestartInMemory, StartsAgain
<1>2. Idle \in CacheCall /\ Past(Idle) = {} /\ Answer(Idle) = {} /\ ~HasSince(Idle)
  BY DEF CacheCall, Past, Answer, HasSince, Idle
<1>3. \A c \in Calls : call'[c] = Idle
  BY <1>1
<1>4. \A v \in Versions : memory'[v] = NoEntry
  BY <1>1
<1>5. NoEntry.data = NoManifest
  BY DEF NoEntry
<1>6. disk'.l2 = NoManifest /\ disk'.saving = {} /\ \A v \in Versions : disk'.l3[v] = NoManifest
  BY <1>1 DEF NoDisk
<1>7. CacheTypes'
  <2>1. calls' \in Nat /\ log.invalidated \subseteq [version : Versions, deleted : BOOLEAN]
    <3>1. log \in Logs /\ calls \in Nat
      BY DEF CacheTypes
    <3>2. log.invalidated \in SUBSET [version : Versions, deleted : BOOLEAN]
      BY <3>1 DEF Logs
    <3>3. QED
      BY <1>1, <3>1, <3>2
  <2>2. memory' \in Memories /\ call' \in [Calls -> CacheCall]
    BY <1>1, <1>2 DEF Memories
  <2>3. outside' \in Deployed /\ NoManifest \in MaybeDeployed
    BY <1>1 DEF CacheTypes, MaybeDeployed
  <2>4. disk' \in Disks
    BY <1>1, <2>3 DEF NoDisk, Disks
  <2>5. log' \in Logs
    BY <1>1, <2>1, <2>3 DEF Logs
  <2>6. QED
    BY <1>2, <1>3, <1>4, <2>1, <2>2, <2>3, <2>4, <2>5 DEF CacheTypes
<1>8. Kept' = {NoManifest} /\ Known' = {NoManifest, outside}
  <2>1. UNION {Past(call'[c]) : c \in Calls} = {} /\ UNION {Answer(call'[c]) : c \in Calls} = {}
    BY <1>2, <1>3
  <2>2. \A x \in Kept' : x = NoManifest
    BY <1>4, <1>5, <1>6, <2>1 DEF Kept
  <2>3. NoManifest \in Kept'
    BY DEF Kept
  <2>4. Kept' = {NoManifest}
    BY <2>2, <2>3
  <2>5. QED
    BY <1>1, <1>6, <2>1, <2>4 DEF Known
<1>9. Distinguished' /\ L2IsLatest'
  <2>1. NoManifest \in Known /\ outside \in Known
    BY DEF Known, Kept
  <2>2. Distinguished'
    BY <1>1, <1>8, <2>1 DEF Distinguished
  <2>3. NoManifest.version <= NoManifest.version /\ NoManifest.deployment <= NoManifest.deployment
    BY DEF NoManifest
  <2>4. QED
    BY <1>6, <1>8, <2>2, <2>3 DEF L2IsLatest
<1>10. AloneFinds'
  BY <1>2, <1>3 DEF AloneFinds, HasSince
<1>11. HistoryHolds'
  <2>1. Quiet'
    BY <1>3 DEF Quiet
  <2>2. InvalidatedIsGone'
    <3>1. \A i \in log'.invalidated : i.version \in Versions /\ NoManifest.version # i.version
      <4>1. log'.invalidated \subseteq [version : Versions, deleted : BOOLEAN]
        BY <1>7 DEF CacheTypes, Logs
      <4>2. NoManifest.version \notin Versions
        BY DEF NoManifest, Versions
      <4>3. QED
        BY <4>1, <4>2
    <3>2. QED
      BY <1>4, <1>6, <3>1 DEF InvalidatedIsGone
  <2>3. QED
    BY <1>1, <1>6, <2>1, <2>2 DEF HistoryHolds
<1>12. QED
  BY <1>7, <1>9, <1>10, <1>11

LEMMA CacheStep ==
    ASSUME CacheInv, CacheAssumption, [CacheNext]_clientVars
    PROVE  CacheInv'
<1>1. ASSUME NEW c \in Calls,
             \/ \E version \in Versions \cup {None}, refreshing \in BOOLEAN :
                   GetManifest(c, version, refreshing)
             \/ L2Answered(c) \/ VersionsListed(c) \/ L3Answered(c)
             \/ SetManifest(c, outside)
             \/ PersistManifest(c, outside) \/ ManifestPersisted(c)
             \/ L2Written(c) \/ Fetch(c) \/ Fetched(c)
             \/ \E version \in Versions \cup {None} : Invalidate(c, version)
             \/ \E deleted \in BOOLEAN : L2Deleted(c, deleted)
      PROVE  CacheInv'
  <2>1. CASE \E version \in Versions \cup {None}, refreshing \in BOOLEAN :
               GetManifest(c, version, refreshing)
    BY <2>1, GetManifestStep
  <2>2. CASE L2Answered(c) \/ VersionsListed(c) \/ L3Answered(c)
    BY <2>2, AnsweredStep
  <2>3. CASE SetManifest(c, outside)
    BY <2>3, SetManifestStep
  <2>4. CASE PersistManifest(c, outside)
    BY <2>4, PersistManifestStep
  <2>5. CASE ManifestPersisted(c)
    BY <2>5, ManifestPersistedStep
  <2>6. CASE L2Written(c)
    BY <2>6, L2WrittenStep
  <2>7. CASE Fetch(c)
    BY <2>7, FetchStep
  <2>8. CASE Fetched(c)
    BY <2>8, FetchedStep
  <2>9. CASE \E version \in Versions \cup {None} : Invalidate(c, version)
    BY <2>9, InvalidateStep
  <2>10. CASE \E deleted \in BOOLEAN : L2Deleted(c, deleted)
    BY <2>10, L2DeletedStep
  <2>11. QED
    BY <1>1, <2>1, <2>2, <2>3, <2>4, <2>5, <2>6, <2>7, <2>8, <2>9, <2>10
<1>2. CASE \E m \in disk.saving : FileSaved(m) \/ FileLost(m)
  BY <1>2, FileStep
<1>3. CASE FiveMinutesPass
  BY <1>3, FiveMinutesPassStep
<1>4. CASE \E version \in Versions : ServerDeploys(version)
  BY <1>4, ServerDeploysStep
<1>5. CASE RestartApp
  BY <1>5, RestartAppStep
<1>6. CASE RestartInMemory
  BY <1>6, RestartInMemoryStep
<1>7. CASE UNCHANGED clientVars
  <2>1. UNCHANGED <<memory, disk, outside, call, log, calls>>
    BY <1>7 DEF clientVars
  <2>2. CacheTypes' /\ Distinguished' /\ L2IsLatest'
    BY <2>1 DEF CacheInv, CacheTypes, Distinguished, L2IsLatest, Known, Kept
  <2>3. AloneFinds' /\ HistoryHolds'
    BY <2>1 DEF CacheInv, AloneFinds, Finds, Undisturbed, OnlyCall, HistoryHolds, Quiet,
                InvalidatedIsGone
  <2>4. QED
    BY <2>2, <2>3 DEF CacheInv
<1>8. QED
  BY <1>1, <1>2, <1>3, <1>4, <1>5, <1>6, <1>7 DEF CacheNext

\* What getManifest reads in a quiet cache after a refresh
LEMMA RefreshIsRead ==
    ASSUME CacheInv, CacheAssumption
    PROVE  RefreshedIsRead /\ InvalidatedIsGone
<1> USE DEF CacheInv
<1>1. ASSUME log.upset = {}, log.refreshed # NoManifest
      PROVE  Read = log.refreshed
  <2> DEFINE hit == L1Get(None)
  <2>1. /\ disk.l2 = log.refreshed /\ disk.l2 # NoManifest
        /\ \/ \A v \in Versions : memory[v] = NoEntry
           \/ memory[disk.l2.version].data = disk.l2
    BY <1>1 DEF HistoryHolds
  <2>2. CASE hit = NoManifest
    BY <2>1, <2>2 DEF Read
  <2>3. CASE hit # NoManifest
    <3>1. /\ hit.version \in Versions /\ memory[hit.version].data = hit
          /\ \A v \in Versions : memory[v] # NoEntry => v <= hit.version
      BY <2>3, L1GetFacts
    <3>2. memory[hit.version] # NoEntry
      BY <2>3, <3>1 DEF NoEntry
    <3>3. disk.l2.version \in Versions /\ memory[disk.l2.version].data = disk.l2
      BY <2>1, <3>1, <3>2, TiersHold DEF MaybeDeployed, Deployed
    <3>4. memory[disk.l2.version] # NoEntry
      BY <2>1, <3>3 DEF NoEntry
    <3>5. disk.l2.version <= hit.version /\ hit.version <= disk.l2.version
      <4>1. hit \in Kept
        BY <3>1, TiersHold
      <4>2. QED
        BY <1>1, <3>1, <3>3, <3>4, <4>1 DEF L2IsLatest
    <3>6. hit.version = disk.l2.version
      BY <3>1, <3>3, <3>5 DEF Versions
    <3>7. hit = disk.l2
      BY <3>1, <3>3, <3>6
    <3>8. QED
      BY <2>1, <2>3, <3>7 DEF Read
  <2>4. QED
    BY <2>2, <2>3
<1>2. InvalidatedIsGone
  BY DEF HistoryHolds, InvalidatedIsGone
<1>3. QED
  BY <1>1, <1>2 DEF RefreshedIsRead

\* The cache holds every manifest under its version, and none of a deployment there was not.
CacheWithin ==
    /\ \A v \in Versions : disk.l3[v] = NoManifest \/ disk.l3[v].version = v
    /\ outside.deployment <= MaxDeployments

LEMMA CacheWithinInitially ==
    ASSUME CacheAssumption, MaxDeployments \in Nat \ {0}, CacheInit
    PROVE  CacheWithin
BY DEF CacheInit, ClientInit, NoDisk, CacheWithin, CacheAssumption, Versions

LEMMA CacheWithinStep ==
    ASSUME CacheAssumption, MaxDeployments \in Nat \ {0}, CacheInv, CacheWithin,
           [CacheNext]_clientVars
    PROVE  CacheWithin'
<1>0. /\ disk \in Disks /\ outside \in Deployed /\ call \in [Calls -> CacheCall]
      /\ DOMAIN disk.l3 = Versions
  BY DEF CacheInv, CacheTypes, Disks
<1>1. ASSUME disk'.l3 = disk.l3, outside' = outside PROVE CacheWithin'
  BY <1>1 DEF CacheWithin
<1>2. ASSUME NEW v \in Versions, NEW m \in MaybeDeployed, m = NoManifest \/ m.version = v,
             disk'.l3 = [disk.l3 EXCEPT ![v] = m], outside' = outside
      PROVE  CacheWithin'
  BY <1>0, <1>2 DEF CacheWithin
<1>3. ASSUME NEW c \in Calls,
             \/ \E version \in Versions \cup {None}, refreshing \in BOOLEAN :
                   GetManifest(c, version, refreshing)
             \/ L2Answered(c) \/ VersionsListed(c) \/ L3Answered(c) \/ Fetch(c)
      PROVE  CacheWithin'
  BY <1>1, <1>3 DEF GetManifest, L2Answered, VersionsListed, L3Answered, Fetch
<1>4. ASSUME NEW c \in Calls,
             \/ SetManifest(c, outside) \/ PersistManifest(c, outside) \/ L2Written(c)
             \/ Fetched(c) \/ \E version \in Versions \cup {None} : Invalidate(c, version)
      PROVE  CacheWithin'
  BY <1>0, <1>1, <1>4 DEF SetManifest, PersistManifest, L2Written, Fetched, Invalidate, Set,
        L2SetManifest, L2DeleteManifest, Disks
<1>5. ASSUME NEW c \in Calls, ManifestPersisted(c) PROVE CacheWithin'
  <2>1. call[c].at = "persist" /\ call[c] \in CacheCall
    BY <1>0, <1>5 DEF ManifestPersisted
  <2>2. call[c].data \in Deployed
    BY <2>1 DEF CacheCall, Idle
  <2>3. disk'.l3 = [disk.l3 EXCEPT ![call[c].data.version] = call[c].data] /\ outside' = outside
    BY <1>0, <1>5 DEF ManifestPersisted, Disks
  <2>4. QED
    BY <2>2, <2>3, <1>2 DEF Deployed, MaybeDeployed
<1>6. ASSUME NEW c \in Calls, NEW deleted \in BOOLEAN, L2Deleted(c, deleted)
      PROVE  CacheWithin'
  <2>1. call[c].at = "l2Deleted" /\ call[c] \in CacheCall
    BY <1>0, <1>6 DEF L2Deleted
  <2>2. call[c].version \in Versions
    BY <2>1 DEF CacheCall, Idle
  <2>3. CASE deleted
    <3>1. disk'.l3 = [disk.l3 EXCEPT ![call[c].version] = NoManifest] /\ outside' = outside
      BY <1>0, <1>6, <2>3 DEF L2Deleted, L3DeleteFile, Disks
    <3>2. QED
      BY <2>2, <3>1, <1>2 DEF MaybeDeployed
  <2>4. CASE ~deleted
    BY <1>1, <1>6, <2>4 DEF L2Deleted
  <2>5. QED
    BY <2>3, <2>4
<1>7. ASSUME NEW m \in disk.saving, FileSaved(m) \/ FileLost(m) PROVE CacheWithin'
  <2>1. m \in Deployed
    BY <1>0 DEF Disks
  <2>2. CASE FileLost(m)
    BY <1>0, <1>1, <2>2 DEF FileLost, Disks
  <2>3. CASE FileSaved(m)
    <3>1. disk'.l3 = [disk.l3 EXCEPT ![m.version] = m] /\ outside' = outside
      BY <1>0, <2>3 DEF FileSaved, Disks
    <3>2. QED
      BY <2>1, <3>1, <1>2 DEF Deployed, MaybeDeployed
  <2>4. QED
    BY <1>7, <2>2, <2>3
<1>8. ASSUME NEW version \in Versions, ServerDeploys(version) PROVE CacheWithin'
  <2>1. outside.deployment < MaxDeployments /\ outside'.deployment = outside.deployment + 1
        /\ disk' = disk
    BY <1>8 DEF ServerDeploys
  <2>2. QED
    BY <1>0, <2>1 DEF CacheWithin, Deployed
<1>9. CASE FiveMinutesPass \/ RestartApp \/ UNCHANGED clientVars
  BY <1>0, <1>1, <1>9 DEF FiveMinutesPass, RestartApp, StartsAgain, clientVars, Disks
<1>10. CASE RestartInMemory
  BY <1>10 DEF CacheWithin, RestartInMemory, StartsAgain, NoDisk
<1>11. QED
  BY <1>3, <1>4, <1>5, <1>6, <1>7, <1>8, <1>9, <1>10 DEF CacheNext

LEMMA CacheInvImplies ==
    ASSUME CacheAssumption, MaxDeployments \in Nat \ {0}, CacheInv, CacheWithin
    PROVE  CacheTypeOK /\ RefreshedIsRead /\ InvalidatedIsGone
<1>1. CacheTypes
  BY DEF CacheInv
<1>2. \A m \in Deployed : m \in Known => m \in Manifest
  <2> SUFFICES ASSUME NEW m \in Deployed, m \in Known PROVE m \in Manifest
    OBVIOUS
  <2>1. m.deployment <= outside.deployment
    BY DEF CacheInv, Distinguished
  <2>2. m.deployment \in 1 .. MaxDeployments
    BY <1>1, <2>1 DEF CacheWithin, Deployed, CacheTypes
  <2>3. QED
    BY <2>2 DEF Deployed, Manifest
<1>3. disk.l2 \in Manifest \cup {NoManifest} /\ disk.saving \subseteq Manifest /\ outside \in Manifest
  BY <1>1, <1>2, TiersHold DEF MaybeDeployed
<1>4. CacheTypeOK
  BY <1>1, <1>3 DEF CacheTypes, CacheTypeOK, CacheWithin
<1>5. QED
  BY <1>4, RefreshIsRead

\* Whatever calls overlapped before and whatever was lost in a restart: after a refresh that
\* no other call overlapped getManifest answers with the server's last deployment, unless L2
\* went back or was emptied before (RefreshedIsRead), and a version invalidated while no
\* other call and no write of a file was under way is in neither L1 nor L2, nor in L3 unless
\* the swallowed deletion of its file failed (InvalidatedIsGone; cache.ts).
THEOREM RefreshedAndInvalidated ==
    ASSUME CacheAssumption
    PROVE  CacheSpec => [](RefreshedIsRead /\ InvalidatedIsGone)
<1>1. CacheInit => CacheInv
  BY CacheInitially
<1>2. CacheInv /\ [CacheNext]_clientVars => CacheInv'
  BY CacheStep
<1>3. CacheInv => RefreshedIsRead /\ InvalidatedIsGone
  BY RefreshIsRead
<1>4. QED
  BY <1>1, <1>2, <1>3, PTL DEF CacheSpec

-----------------------------------------------------------------------------
(* VersionStack *)

StackSpec == StackInit /\ [][StackNext]_clientVars

\* A stack has a size, and versions are numbered.
StackAssumption == MaxStored \in Nat /\ LastVersion \in Nat

StackCall ==
    {Idle} \cup [at : {"listed"}, version : StackVersions, listed : SUBSET StackVersions]
           \cup [at : {"saved"}] \cup [at : {"pruning"}, excess : SUBSET StackVersions]

StackTypes ==
    /\ disk \subseteq StackVersions
    /\ log \in [appended : SUBSET StackVersions, removed : SUBSET StackVersions, failed : BOOLEAN]
    /\ call \in [Calls -> StackCall]

\* MaxStored newer versions than v were appended.
Outnumbered(v) == Cardinality({w \in log.appended : w > v}) >= MaxStored

\* What the store holds was appended; a call that deletes has something to delete, all of
\* it outnumbered.
DeletedForNewer ==
    /\ disk \subseteq log.appended
    /\ \A c \in Calls : call[c].at = "pruning" =>
          call[c].excess # {} /\ \A v \in call[c].excess : Outnumbered(v)

\* Unless a call was cut short, either the stack fits, or one call is going to read the
\* store again, or what one call is going to delete makes it fit.
WillFit ==
    \/ log.failed
    \/ Cardinality(disk) <= MaxStored
    \/ \E c \in Calls : call[c].at = "saved"
    \/ \E c \in Calls : call[c].at = "pruning" /\ Cardinality(disk \ call[c].excess) <= MaxStored

StackInv == StackTypes /\ DeletedForNewer /\ MissingForNewer /\ WillFit

LEMMA VersionsFinite ==
    ASSUME StackAssumption, NEW S \in SUBSET StackVersions
    PROVE  IsFiniteSet(S) /\ Cardinality(S) \in Nat /\ S \subseteq Nat
<1>1. IsFiniteSet(StackVersions) /\ StackVersions \subseteq Nat
  BY FS_Interval DEF StackVersions, StackAssumption
<1>2. QED
  BY <1>1, FS_Subset, FS_CardinalityType

\* Without what there is no room for, the stack fits.
LEMMA NewestFit ==
    ASSUME StackAssumption, NEW all \in SUBSET StackVersions
    PROVE  Cardinality(all \ Excess(all)) <= MaxStored
<1> DEFINE kept == all \ Excess(all)
<1>1. kept \in SUBSET StackVersions /\ IsFiniteSet(kept) /\ Cardinality(kept) \in Nat
  BY VersionsFinite
<1>2. CASE kept = {}
  BY <1>2, FS_EmptySet DEF StackAssumption
<1>3. CASE kept # {}
  <2>1. kept \in SUBSET Nat
    BY <1>1, VersionsFinite
  <2>2. PICK m \in kept : \A y \in kept : m <= y
    <3> HIDE DEF kept
    <3>1. QED
      BY <1>3, <2>1, LeastVersion
  <2> DEFINE above == {w \in all : w > m}
  <2>3. ~(Cardinality(above) >= MaxStored)
    BY <2>2 DEF Excess
  <2>4. IsFiniteSet(above) /\ Cardinality(above) \in Nat
    BY VersionsFinite
  <2>5. kept \ {m} \in SUBSET above
    BY <2>1, <2>2
  <2>6. Cardinality(kept \ {m}) <= Cardinality(above)
    <3> HIDE DEF above, kept
    <3>1. QED
      BY <2>4, <2>5, FS_Subset
  <2>7. Cardinality(kept \ {m}) = Cardinality(kept) - 1
    <3> HIDE DEF kept
    <3>1. QED
      BY <1>1, <2>2, FS_RemoveElement
  <2> HIDE DEF kept, above
  <2>8. Cardinality(kept) <= MaxStored
    BY <1>1, <2>3, <2>4, <2>6, <2>7 DEF StackAssumption
  <2>9. QED
    BY <2>8 DEF kept
<1>4. QED
  BY <1>2, <1>3

\* A smaller stack fits all the more.
LEMMA SmallerFits ==
    ASSUME StackAssumption, NEW S \in SUBSET StackVersions, NEW T \in SUBSET S,
           Cardinality(S) <= MaxStored
    PROVE  Cardinality(T) <= MaxStored
<1>1. Cardinality(T) <= Cardinality(S)
  BY VersionsFinite, FS_Subset
<1>2. Cardinality(T) \in Nat /\ Cardinality(S) \in Nat
  BY VersionsFinite
<1>3. QED
  BY <1>1, <1>2 DEF StackAssumption

\* Once outnumbered, a version stays so: nothing is taken out of the history.
LEMMA StaysOutnumbered ==
    ASSUME StackAssumption, StackTypes, log'.appended \in SUBSET StackVersions,
           log.appended \subseteq log'.appended, NEW v, Outnumbered(v)
    PROVE  Outnumbered(v)'
<1> DEFINE before == {w \in log.appended : w > v}
           after == {w \in log'.appended : w > v}
<1>1. after \in SUBSET StackVersions /\ before \in SUBSET after /\ before \in SUBSET StackVersions
  BY DEF StackTypes
<1>2. Cardinality(before) >= MaxStored
  BY DEF Outnumbered
<1> HIDE DEF before, after
<1>3. /\ Cardinality(before) <= Cardinality(after)
      /\ Cardinality(before) \in Nat /\ Cardinality(after) \in Nat
  BY <1>1, VersionsFinite, FS_Subset
<1>4. Cardinality(after) >= MaxStored
  BY <1>2, <1>3 DEF StackAssumption
<1>5. QED
  BY <1>4 DEF Outnumbered, after

LEMMA StackInitially ==
    ASSUME StackInit, StackAssumption
    PROVE  StackInv
<1>1. /\ disk = {} /\ log = [appended |-> {}, removed |-> {}, failed |-> FALSE]
      /\ call = [c \in Calls |-> Idle]
  BY DEF StackInit, ClientInit
<1>2. StackTypes
  BY <1>1 DEF StackTypes, StackCall
<1>3. DeletedForNewer
  BY <1>1 DEF DeletedForNewer, Idle
<1>4. MissingForNewer
  BY <1>1 DEF MissingForNewer
<1>5. Cardinality(disk) <= MaxStored
  BY <1>1, FS_EmptySet DEF StackAssumption
<1>6. QED
  BY <1>2, <1>3, <1>4, <1>5 DEF StackInv, WillFit

\* Where a call stands decides what it holds.
LEMMA CallHolds ==
    ASSUME StackTypes, NEW c \in Calls
    PROVE  /\ call[c].at = "listed" => call[c].version \in StackVersions
           /\ call[c].at = "pruning" => call[c].excess \in SUBSET StackVersions
<1>1. call[c] \in StackCall
  BY DEF StackTypes
<1>2. QED
  BY <1>1 DEF StackCall, Idle

\* append begins or a version is taken out by hand; the call holds nothing afterwards that
\* the invariant speaks of, and the store does not grow.
LEMMA BeginsStep ==
    ASSUME StackInv, StackAssumption, NEW c \in Calls, NEW v \in StackVersions,
           Append_(c, v) \/ Remove_(c, v)
    PROVE  StackInv'
<1> USE DEF StackInv
<1>1. call[c] = Idle /\ call[c].at = "idle"
  BY DEF Append_, Remove_, BeginsAndReturns, Begins, Idle
<1>2. PICK step \in StackCall :
        /\ call' = [call EXCEPT ![c] = step]
        /\ step.at \in {"idle", "listed"}
  <2>1. CASE Append_(c, v)
    <3> DEFINE step == [at |-> "listed", version |-> v, listed |-> disk]
    <3>1. step \in StackCall /\ step.at = "listed"
      BY DEF StackCall, StackTypes
    <3>2. call' = [call EXCEPT ![c] = step]
      BY <2>1 DEF Append_, Begins
    <3>3. QED
      BY <3>1, <3>2
  <2>2. CASE Remove_(c, v)
    <3>1. call' = [call EXCEPT ![c] = Idle]
      BY <2>2 DEF Remove_, BeginsAndReturns, Begins
    <3>2. Idle \in StackCall /\ Idle.at = "idle"
      BY DEF StackCall, Idle
    <3>3. QED
      BY <3>1, <3>2
  <2>3. QED
    BY <2>1, <2>2
<1>3. /\ disk' \in SUBSET disk /\ log'.appended = log.appended /\ log'.failed = log.failed
      /\ log' \in [appended : SUBSET StackVersions, removed : SUBSET StackVersions,
                   failed : BOOLEAN]
      /\ log.removed \subseteq log'.removed /\ disk \ disk' \subseteq log'.removed
  BY DEF Append_, Remove_, StackTypes
<1>4. /\ call' \in [Calls -> StackCall] /\ call'[c] = step
      /\ \A d \in Calls \ {c} : call'[d] = call[d]
  BY <1>2 DEF StackTypes
<1>5. StackTypes'
  BY <1>3, <1>4 DEF StackTypes
<1>6. DeletedForNewer'
  <2>1. ASSUME NEW d \in Calls, call'[d].at = "pruning", NEW w \in call'[d].excess
        PROVE  Outnumbered(w)'
    <3>1. d # c /\ call'[d] = call[d]
      BY <1>2, <1>4, <2>1
    <3>2. Outnumbered(w)
      BY <2>1, <3>1 DEF DeletedForNewer
    <3>3. QED
      BY <1>3, <3>2 DEF Outnumbered
  <2>2. ASSUME NEW d \in Calls, call'[d].at = "pruning" PROVE call'[d].excess # {}
    BY <1>2, <1>4, <2>2 DEF DeletedForNewer
  <2>3. disk' \subseteq log'.appended
    BY <1>3 DEF DeletedForNewer
  <2>4. QED
    BY <2>1, <2>2, <2>3 DEF DeletedForNewer
<1>7. MissingForNewer'
  BY <1>3 DEF MissingForNewer
<1>8. WillFit'
  <2>1. CASE log.failed
    BY <1>3, <2>1 DEF WillFit
  <2>2. CASE Cardinality(disk) <= MaxStored
    <3>1. disk \in SUBSET StackVersions
      BY DEF StackTypes
    <3>2. Cardinality(disk') <= MaxStored
      BY <1>3, <2>2, <3>1, SmallerFits
    <3>3. QED
      BY <3>2 DEF WillFit
  <2>3. CASE \E d \in Calls : call[d].at = "saved"
    <3>1. PICK d \in Calls : call[d].at = "saved"
      BY <2>3
    <3>2. call'[d].at = "saved"
      BY <1>1, <1>4, <3>1
    <3>3. QED
      BY <3>2 DEF WillFit
  <2>4. CASE \E d \in Calls : call[d].at = "pruning" /\ Cardinality(disk \ call[d].excess) <= MaxStored
    <3>1. PICK d \in Calls : call[d].at = "pruning" /\ Cardinality(disk \ call[d].excess) <= MaxStored
      BY <2>4
    <3>2. call'[d] = call[d]
      BY <1>1, <1>4, <3>1
    <3>3. disk' \ call[d].excess \in SUBSET (disk \ call[d].excess)
      BY <1>3
    <3>4. Cardinality(disk' \ call[d].excess) <= MaxStored
      BY <3>1, <3>3, SmallerFits DEF StackTypes
    <3>5. QED
      BY <3>1, <3>2, <3>4 DEF WillFit
  <2>5. QED
    BY <2>1, <2>2, <2>3, <2>4 DEF WillFit
<1>9. QED
  BY <1>5, <1>6, <1>7, <1>8

\* append saves its version, or knows it already.
LEMMA ListedStep ==
    ASSUME StackInv, StackAssumption, NEW c \in Calls, Listed(c)
    PROVE  StackInv'
<1> USE DEF StackInv
<1> DEFINE v == call[c].version
<1>1. call[c].at = "listed" /\ v \in StackVersions
  BY CallHolds DEF Listed
<1>2. CASE v \in call[c].listed
  <2>1. /\ disk' = disk /\ log' = log
        /\ call' \in [Calls -> StackCall] /\ call'[c].at = "idle"
        /\ \A d \in Calls \ {c} : call'[d] = call[d]
    BY <1>2 DEF Listed, Returns, GoesOn, StackTypes, StackCall, Idle
  <2>2. StackTypes'
    BY <2>1 DEF StackTypes
  <2>3. DeletedForNewer'
    BY <2>1 DEF DeletedForNewer, Outnumbered
  <2>4. MissingForNewer'
    BY <2>1 DEF MissingForNewer
  <2>5. WillFit'
    <3>1. \A d \in Calls : call[d].at \in {"saved", "pruning"} => call'[d] = call[d]
      BY <1>1, <2>1
    <3>2. QED
      BY <2>1, <3>1 DEF WillFit
  <2>6. QED
    BY <2>2, <2>3, <2>4, <2>5
<1>3. CASE v \notin call[c].listed
  <2> DEFINE step == [at |-> "saved"]
  <2>1. /\ disk' = disk \cup {v} /\ call' = [call EXCEPT ![c] = step]
        /\ log' = [log EXCEPT !.appended = @ \cup {v}, !.removed = @ \ {v}]
    BY <1>3 DEF Listed, GoesOn
  <2>2. /\ log' \in [appended : SUBSET StackVersions, removed : SUBSET StackVersions,
                     failed : BOOLEAN]
        /\ log'.appended = log.appended \cup {v} /\ log'.removed = log.removed \ {v}
    BY <1>1, <2>1 DEF StackTypes
  <2>3. /\ call' \in [Calls -> StackCall] /\ call'[c].at = "saved"
        /\ \A d \in Calls \ {c} : call'[d] = call[d]
    BY <2>1 DEF StackTypes, StackCall
  <2>4. StackTypes'
    BY <1>1, <2>1, <2>2, <2>3 DEF StackTypes
  <2>5. ASSUME NEW w, Outnumbered(w) PROVE Outnumbered(w)'
    BY <2>2, <2>5, StaysOutnumbered
  <2>6. DeletedForNewer'
    <3>1. ASSUME NEW d \in Calls, call'[d].at = "pruning", NEW w \in call'[d].excess
          PROVE  Outnumbered(w)'
      <4>1. call'[d] = call[d]
        BY <2>3, <3>1
      <4>2. Outnumbered(w)
        BY <3>1, <4>1 DEF DeletedForNewer
      <4>3. QED
        BY <2>5, <4>2
    <3>2. ASSUME NEW d \in Calls, call'[d].at = "pruning" PROVE call'[d].excess # {}
      BY <2>3, <3>2 DEF DeletedForNewer
    <3>3. disk' \subseteq log'.appended
      BY <2>1, <2>2 DEF DeletedForNewer
    <3>4. QED
      BY <3>1, <3>2, <3>3 DEF DeletedForNewer
  <2>7. MissingForNewer'
    <3>1. ASSUME NEW w \in log'.appended \ log'.removed, w \notin disk' PROVE Outnumbered(w)'
      <4>1. w \in log.appended \ log.removed /\ w \notin disk
        BY <2>1, <2>2, <3>1
      <4>2. Outnumbered(w)
        BY <4>1 DEF MissingForNewer, Outnumbered
      <4>3. QED
        BY <2>5, <4>2
    <3>2. QED
      BY <3>1 DEF MissingForNewer, Outnumbered
  <2>8. WillFit'
    BY <2>3 DEF WillFit
  <2>9. QED
    BY <2>4, <2>6, <2>7, <2>8
<1>4. QED
  BY <1>2, <1>3

\* _prune reads the store: what there is no room for is outnumbered, and without it the
\* stack fits.
LEMMA SavedStep ==
    ASSUME StackInv, StackAssumption, NEW c \in Calls, Saved(c)
    PROVE  StackInv'
<1> USE DEF StackInv
<1> DEFINE step == IF Excess(disk) = {} THEN Idle ELSE [at |-> "pruning", excess |-> Excess(disk)]
<1>1. call[c].at = "saved" /\ disk' = disk /\ log' = log /\ call' = [call EXCEPT ![c] = step]
  BY DEF Saved, Pruning, Returns, GoesOn
<1>2. disk \in SUBSET StackVersions /\ Excess(disk) \in SUBSET StackVersions
  BY DEF StackTypes, Excess
<1>3. /\ step \in StackCall /\ step.at \in {"idle", "pruning"}
      /\ step.at = "pruning" => step.excess = Excess(disk) /\ Excess(disk) # {}
      /\ step.at = "idle" => Excess(disk) = {}
  BY <1>2 DEF StackCall, Idle
<1> HIDE DEF step
<1>4. /\ call' \in [Calls -> StackCall] /\ call'[c] = step
      /\ \A d \in Calls \ {c} : call'[d] = call[d]
  BY <1>1, <1>3 DEF StackTypes
<1>5. StackTypes'
  BY <1>1, <1>4 DEF StackTypes
<1>6. ASSUME NEW v \in Excess(disk) PROVE Outnumbered(v)
  <2> DEFINE held == {w \in disk : w > v}
             all == {w \in log.appended : w > v}
  <2>1. Cardinality(held) >= MaxStored
    BY DEF Excess
  <2>2. held \in SUBSET all /\ all \in SUBSET StackVersions /\ held \in SUBSET StackVersions
    BY <1>2 DEF DeletedForNewer, StackTypes
  <2> HIDE DEF held, all
  <2>3. /\ Cardinality(held) <= Cardinality(all)
        /\ Cardinality(held) \in Nat /\ Cardinality(all) \in Nat
    BY <2>2, VersionsFinite, FS_Subset
  <2>4. Cardinality(all) >= MaxStored
    BY <2>1, <2>3 DEF StackAssumption
  <2>5. QED
    BY <2>4 DEF Outnumbered, all
<1>7. DeletedForNewer'
  <2>1. ASSUME NEW d \in Calls, call'[d].at = "pruning", NEW v \in call'[d].excess
        PROVE  Outnumbered(v)
    <3>1. CASE d = c
      BY <1>3, <1>4, <1>6, <2>1, <3>1
    <3>2. CASE d # c
      BY <1>4, <2>1, <3>2 DEF DeletedForNewer
    <3>3. QED
      BY <3>1, <3>2
  <2>2. ASSUME NEW d \in Calls, call'[d].at = "pruning" PROVE call'[d].excess # {}
    BY <1>3, <1>4, <2>2 DEF DeletedForNewer
  <2>3. disk' \subseteq log'.appended
    BY <1>1 DEF DeletedForNewer
  <2>4. QED
    BY <1>1, <2>1, <2>2, <2>3 DEF DeletedForNewer, Outnumbered
<1>8. MissingForNewer'
  BY <1>1 DEF MissingForNewer
<1>9. WillFit'
  <2>1. Cardinality(disk \ Excess(disk)) <= MaxStored
    BY <1>2, NewestFit
  <2>2. CASE step.at = "idle"
    <3>1. disk \ Excess(disk) = disk
      BY <1>3, <2>2
    <3>2. QED
      BY <1>1, <2>1, <3>1 DEF WillFit
  <2>3. CASE step.at = "pruning"
    BY <1>1, <1>3, <1>4, <2>1, <2>3 DEF WillFit
  <2>4. QED
    BY <1>3, <2>2, <2>3
<1>10. QED
  BY <1>5, <1>7, <1>8, <1>9

\* _prune deletes one version after the other; what is left to delete and what is there
\* shrink together.
LEMMA PruneStep ==
    ASSUME StackInv, StackAssumption, NEW c \in Calls, Prune(c)
    PROVE  StackInv'
<1> USE DEF StackInv
<1> DEFINE excess == call[c].excess
           oldest == Min(excess)
           left == excess \ {oldest}
           step == IF left = {} THEN Idle ELSE [at |-> "pruning", excess |-> left]
<1>1. /\ call[c].at = "pruning" /\ disk' = disk \ {oldest} /\ log' = log
      /\ call' = [call EXCEPT ![c] = step]
  BY DEF Prune, Pruning, Returns, GoesOn
<1>2. excess \in SUBSET StackVersions /\ left \in SUBSET excess
  BY <1>1, CallHolds
<1>3. oldest \in excess
  <2>1. excess \in SUBSET Nat /\ excess # {}
    BY <1>1, <1>2, VersionsFinite DEF DeletedForNewer
  <2> HIDE DEF excess
  <2>2. \E v \in excess : \A w \in excess : v <= w
    BY <2>1, LeastVersion
  <2>3. QED
    BY <2>2 DEF Min
<1> HIDE DEF oldest
<1>4. /\ step \in StackCall /\ step.at \in {"idle", "pruning"}
      /\ step.at = "pruning" => step.excess = left /\ left # {}
      /\ step.at = "idle" => left = {}
  BY <1>2 DEF StackCall, Idle
<1> HIDE DEF step
<1>5. /\ call' \in [Calls -> StackCall] /\ call'[c] = step
      /\ \A d \in Calls \ {c} : call'[d] = call[d]
  BY <1>1, <1>4 DEF StackTypes
<1>6. StackTypes'
  BY <1>1, <1>5 DEF StackTypes
<1>7. DeletedForNewer'
  <2>1. ASSUME NEW d \in Calls, call'[d].at = "pruning", NEW v \in call'[d].excess
        PROVE  Outnumbered(v)
    <3>1. CASE d = c
      BY <1>1, <1>4, <1>5, <2>1, <3>1 DEF DeletedForNewer
    <3>2. CASE d # c
      BY <1>5, <2>1, <3>2 DEF DeletedForNewer
    <3>3. QED
      BY <3>1, <3>2
  <2>2. ASSUME NEW d \in Calls, call'[d].at = "pruning" PROVE call'[d].excess # {}
    BY <1>4, <1>5, <2>2 DEF DeletedForNewer
  <2>3. disk' \subseteq log'.appended
    BY <1>1 DEF DeletedForNewer
  <2>4. QED
    BY <1>1, <2>1, <2>2, <2>3 DEF DeletedForNewer, Outnumbered
<1>8. MissingForNewer'
  <2>1. ASSUME NEW v \in log.appended \ log.removed, v \notin disk' PROVE Outnumbered(v)
    <3>1. CASE v \in disk
      <4>1. v = oldest
        BY <1>1, <2>1, <3>1
      <4>2. QED
        BY <1>1, <1>3, <4>1 DEF DeletedForNewer
    <3>2. CASE v \notin disk
      BY <3>2 DEF MissingForNewer, Outnumbered
    <3>3. QED
      BY <3>1, <3>2
  <2>2. QED
    BY <1>1, <2>1 DEF MissingForNewer, Outnumbered
<1>9. WillFit'
  <2>1. disk \in SUBSET StackVersions
    BY DEF StackTypes
  <2>2. CASE log.failed
    BY <1>1, <2>2 DEF WillFit
  <2>3. CASE Cardinality(disk) <= MaxStored
    <3>1. disk' \in SUBSET disk
      BY <1>1
    <3>2. Cardinality(disk') <= MaxStored
      BY <2>1, <2>3, <3>1, SmallerFits
    <3>3. QED
      BY <3>2 DEF WillFit
  <2>4. CASE \E d \in Calls : call[d].at = "saved"
    <3>1. PICK d \in Calls : call[d].at = "saved"
      BY <2>4
    <3>2. call'[d].at = "saved"
      BY <1>1, <1>5, <3>1
    <3>3. QED
      BY <3>2 DEF WillFit
  <2>5. ASSUME NEW d \in Calls, call[d].at = "pruning",
               Cardinality(disk \ call[d].excess) <= MaxStored
        PROVE  WillFit'
    <3>1. CASE d = c
      <4>1. disk' \ left \in SUBSET (disk \ excess)
        BY <1>1
      <4>2. Cardinality(disk' \ left) <= MaxStored
        BY <2>1, <2>5, <3>1, <4>1, SmallerFits
      <4>3. CASE step.at = "pruning"
        BY <1>4, <1>5, <4>2, <4>3 DEF WillFit
      <4>4. CASE step.at = "idle"
        <5>1. disk' \ left = disk'
          BY <1>4, <4>4
        <5>2. QED
          BY <4>2, <5>1 DEF WillFit
      <4>5. QED
        BY <1>4, <4>3, <4>4
    <3>2. CASE d # c
      <4>1. call'[d] = call[d]
        BY <1>5, <3>2
      <4>2. disk' \ call[d].excess \in SUBSET (disk \ call[d].excess)
        BY <1>1
      <4>3. Cardinality(disk' \ call[d].excess) <= MaxStored
        BY <2>1, <2>5, <4>2, SmallerFits
      <4>4. QED
        BY <2>5, <4>1, <4>3 DEF WillFit
    <3>3. QED
      BY <3>1, <3>2
  <2>6. QED
    BY <2>2, <2>3, <2>4, <2>5 DEF WillFit
<1>10. QED
  BY <1>6, <1>7, <1>8, <1>9

LEMMA StackStep ==
    ASSUME StackInv, StackAssumption, [StackNext]_clientVars
    PROVE  StackInv'
<1>1. ASSUME NEW c \in Calls, NEW v \in StackVersions, Append_(c, v) \/ Remove_(c, v)
      PROVE  StackInv'
  BY <1>1, BeginsStep
<1>2. ASSUME NEW c \in Calls, Listed(c) PROVE StackInv'
  BY <1>2, ListedStep
<1>3. ASSUME NEW c \in Calls, Saved(c) PROVE StackInv'
  BY <1>3, SavedStep
<1>4. ASSUME NEW c \in Calls, Prune(c) PROVE StackInv'
  BY <1>4, PruneStep
<1>5. CASE StackCallFails
  <2>1. /\ disk' = disk /\ call' = [c \in Calls |-> Idle]
        /\ log' = [log EXCEPT !.failed = TRUE]
    BY <1>5 DEF StackCallFails
  <2>2. /\ log' \in [appended : SUBSET StackVersions, removed : SUBSET StackVersions,
                     failed : BOOLEAN]
        /\ log'.appended = log.appended /\ log'.removed = log.removed /\ log'.failed
    BY <2>1 DEF StackInv, StackTypes
  <2>3. StackTypes'
    BY <2>1, <2>2 DEF StackInv, StackTypes, StackCall
  <2>4. DeletedForNewer' /\ MissingForNewer'
    BY <2>1, <2>2 DEF StackInv, DeletedForNewer, MissingForNewer, Idle
  <2>5. QED
    BY <2>2, <2>3, <2>4 DEF StackInv, WillFit
<1>6. CASE UNCHANGED clientVars
  BY <1>6 DEF clientVars, StackInv, StackTypes, DeletedForNewer, MissingForNewer, WillFit,
              Outnumbered
<1>7. QED
  BY <1>1, <1>2, <1>3, <1>4, <1>5, <1>6 DEF StackNext

LEMMA StackInvImplies ==
    ASSUME StackInv
    PROVE  StackTypeOK /\ AtMostStored /\ MissingForNewer
<1>1. ASSUME Quiet, ~log.failed PROVE Cardinality(disk) <= MaxStored
  <2>1. \A c \in Calls : call[c].at = "idle"
    BY <1>1 DEF Quiet, Idle
  <2>2. QED
    BY <1>1, <2>1 DEF StackInv, WillFit
<1>2. QED
  BY <1>1 DEF StackInv, StackTypes, StackTypeOK, AtMostStored

\* However appends and deletions overlap, the stack fits between calls if none was cut
\* short (AtMostStored), and whatever fails, a version that was appended and not taken out
\* by hand is missing only for MaxStored newer ones (MissingForNewer; version-stack.ts).
THEOREM StackKeepsNewest ==
    ASSUME StackAssumption
    PROVE  StackSpec => [](AtMostStored /\ MissingForNewer)
<1>1. StackInit => StackInv
  BY StackInitially
<1>2. StackInv /\ [StackNext]_clientVars => StackInv'
  BY StackStep
<1>3. StackInv => AtMostStored /\ MissingForNewer
  BY StackInvImplies
<1>4. QED
  BY <1>1, <1>2, <1>3, PTL DEF StackSpec

-----------------------------------------------------------------------------
(* The engine that swaps features *)

SwapSpec == SwapInit /\ [][SwapNext]_clientVars

SwapAssumption == LastFeature \in Nat /\ Successors \subseteq 2 .. LastFeature

Flags == [mounted : BOOLEAN, active : BOOLEAN, handle : Int]
Engine == [feature : [Features -> Flags], previous : [Features -> Flags],
           registered : SUBSET Features, manifest : FeatureManifest,
           live : [Features -> SUBSET Nat], mounts : [Features -> Nat]]

\* What is said of one feature of the engine e: what is live was mounted, and a feature without
\* a module is not mounted.
FeatureKept(e, f) ==
    /\ e.live[f] \subseteq 1 .. e.mounts[f]
    /\ f \notin e.registered => ~e.feature[f].mounted

SwapInv ==
    /\ memory \in Engine
    /\ log \in [parted : SUBSET Features, applied : BOOLEAN, disposed : BOOLEAN]
    /\ \A f \in Features : FeatureKept(memory, f)
    /\ FlagsAreTrue

\* A method keeps a feature as it should be, and of an unregistered one it changes nothing.
KeepsFeature(e, a, f) ==
    /\ a.registered = e.registered /\ a.manifest = e.manifest
    /\ FeatureKept(e, f) => FeatureKept(a, f)
    /\ f \notin e.registered => a.feature[f] = e.feature[f] /\ a.live[f] = e.live[f]

LEMMA RollbackFacts ==
    ASSUME NEW e \in Engine, NEW f \in Features
    PROVE  /\ Rollback(e, f) \in Engine /\ KeepsFeature(e, Rollback(e, f), f)
           /\ Rollback(e, f).live = e.live
BY DEF Rollback, Engine, Flags, KeepsFeature, FeatureKept

LEMMA ActivateFacts ==
    ASSUME NEW e \in Engine, NEW f \in Features, NEW bad
    PROVE  /\ Activate(e, f, bad) \in Engine /\ KeepsFeature(e, Activate(e, f, bad), f)
           /\ FlagsFit(e, f) => FlagsFit(Activate(e, f, bad), f)
<1> DEFINE saved == SavePreviousState(e, f)
<1>1. /\ saved \in Engine /\ saved = [e EXCEPT !.previous = saved.previous]
      /\ saved.previous[f] = e.feature[f]
  BY DEF SavePreviousState, Engine, Flags
<1>2. KeepsFeature(e, saved, f) /\ (FlagsFit(e, f) => FlagsFit(saved, f))
  BY <1>1 DEF KeepsFeature, FeatureKept, FlagsFit, Engine
<1>3. ASSUME f \in e.registered
      PROVE  /\ Rollback(saved, f) \in Engine /\ KeepsFeature(e, Rollback(saved, f), f)
             /\ FlagsFit(e, f) => FlagsFit(Rollback(saved, f), f)
  <2>1. Rollback(saved, f) = saved
     \/ Rollback(saved, f) = [saved EXCEPT !.feature[f] = e.feature[f]]
    BY <1>1 DEF Rollback
  <2>2. [saved EXCEPT !.feature[f] = e.feature[f]] = saved
    BY <1>1 DEF Engine
  <2>3. QED
    BY <1>1, <1>2, <2>1, <2>2
<1>4. ASSUME f \in e.registered, ~e.feature[f].mounted
      PROVE  /\ Mount(saved, f) \in Engine /\ KeepsFeature(e, Mount(saved, f), f)
             /\ FlagsFit(e, f) => FlagsFit(Mount(saved, f), f)
  <2> DEFINE n == e.mounts[f] + 1
             a == Mount(saved, f)
  <2>0. /\ n \in Nat \ {0} /\ saved.mounts[f] = e.mounts[f] /\ saved.live = e.live
        /\ saved.mounts = e.mounts /\ saved.feature = e.feature
        /\ [mounted |-> TRUE, active |-> TRUE, handle |-> n] \in Flags
    BY <1>1 DEF Engine, Flags
  <2>1. a = [saved EXCEPT !.mounts = [e.mounts EXCEPT ![f] = n],
                          !.live = [e.live EXCEPT ![f] = e.live[f] \cup {n}],
                          !.feature = [e.feature EXCEPT ![f] =
                              [mounted |-> TRUE, active |-> TRUE, handle |-> n]]]
    BY <1>1, <2>0 DEF Mount, Engine
  <2> HIDE DEF a, n
  <2>2. /\ a.mounts \in [Features -> Nat] /\ a.mounts[f] = n
        /\ a.live \in [Features -> SUBSET Nat] /\ a.live[f] = e.live[f] \cup {n}
        /\ a.feature \in [Features -> Flags]
        /\ a.feature[f] = [mounted |-> TRUE, active |-> TRUE, handle |-> n]
        /\ a.registered = e.registered /\ a.manifest = e.manifest
        /\ a.previous \in [Features -> Flags]
        /\ a = [feature |-> a.feature, previous |-> a.previous, registered |-> a.registered,
                manifest |-> a.manifest, live |-> a.live, mounts |-> a.mounts]
    BY <1>1, <2>0, <2>1 DEF Engine
  <2>4. a \in Engine
    BY <2>2 DEF Engine
  <2>5. KeepsFeature(e, a, f)
    BY <1>4, <2>0, <2>2 DEF KeepsFeature, FeatureKept, Engine, n
  <2>3. ASSUME FlagsFit(e, f) PROVE FlagsFit(Mount(saved, f), f)
    <3>1. e.live[f] = {}
      BY <1>4, <2>3 DEF FlagsFit
    <3>2. /\ a.live[f] = {n} /\ a.feature[f].mounted = TRUE /\ a.feature[f].handle = n
      BY <2>2, <3>1
    <3>3. (a.live[f] # {}) = TRUE
      BY <3>2
    <3>4. QED
      BY <3>2, <3>3 DEF FlagsFit, a
  <2>6. QED
    BY <2>3, <2>4, <2>5 DEF a
<1> HIDE DEF saved
<1>5. Activate(e, f, bad) \in {e, saved, Rollback(saved, f), Mount(saved, f)}
  BY DEF Activate, saved
<1>6. CASE f \notin e.registered
  BY <1>6 DEF Activate, KeepsFeature
<1>7. CASE f \in e.registered /\ e.feature[f].mounted
  <2>1. Activate(e, f, bad) \in {e, saved}
    BY <1>7 DEF Activate, saved
  <2>2. QED
    BY <1>1, <1>2, <2>1 DEF KeepsFeature
<1>8. CASE f \in e.registered /\ ~e.feature[f].mounted
  <2>1. KeepsFeature(e, e, f)
    BY DEF KeepsFeature
  <2>2. QED
    BY <1>1, <1>2, <1>3, <1>4, <1>5, <1>8, <2>1
<1>9. QED
  BY <1>6, <1>7, <1>8

LEMMA DeactivateFacts ==
    ASSUME NEW e \in Engine, NEW f \in Features, NEW bad
    PROVE  /\ Deactivate(e, f, bad) \in Engine /\ KeepsFeature(e, Deactivate(e, f, bad), f)
           /\ FlagsFit(e, f) /\ <<f, "handle">> \notin bad /\ <<f, "unmount">> \notin bad =>
                 /\ FlagsFit(Deactivate(e, f, bad), f)
                 /\ f \in e.registered => Deactivate(e, f, bad).live[f] = {}
<1> DEFINE saved == SavePreviousState(e, f)
           undone == IF e.feature[f].handle = None THEN saved ELSE RunHandle(saved, f)
           down == [undone EXCEPT !.live[f] = {}, !.feature[f].mounted = FALSE,
                                  !.feature[f].active = FALSE]
<1>1. saved \in Engine /\ saved = [e EXCEPT !.previous = saved.previous]
  BY DEF SavePreviousState, Engine, Flags
<1> HIDE DEF saved
<1>2. /\ undone \in Engine /\ undone.registered = e.registered /\ undone.manifest = e.manifest
      /\ undone.live[f] \subseteq e.live[f] /\ undone.mounts = e.mounts
      /\ undone.feature[f].mounted = e.feature[f].mounted
      /\ undone.feature[f].handle = None
  <2> DEFINE h == e.feature[f].handle
  <2>1. /\ saved.live = e.live /\ saved.mounts = e.mounts /\ saved.feature = e.feature
        /\ saved.registered = e.registered /\ saved.manifest = e.manifest
        /\ e.feature[f] \in Flags /\ [e.feature[f] EXCEPT !.handle = None] \in Flags
    BY <1>1 DEF Engine, Flags, None
  <2>2. CASE h = None
    BY <1>1, <2>1, <2>2
  <2>3. CASE h # None
    <3>1. undone = [saved EXCEPT !.live = [e.live EXCEPT ![f] = e.live[f] \ {h}],
                                 !.feature = [e.feature EXCEPT ![f] =
                                                 [e.feature[f] EXCEPT !.handle = None]]]
      BY <1>1, <2>1, <2>3 DEF RunHandle, Engine, Flags
    <3> HIDE DEF undone, h
    <3>2. /\ undone.live \in [Features -> SUBSET Nat] /\ undone.live[f] \subseteq e.live[f]
          /\ undone.feature \in [Features -> Flags]
          /\ undone.feature[f] = [e.feature[f] EXCEPT !.handle = None]
          /\ undone.registered = e.registered /\ undone.manifest = e.manifest
          /\ undone.mounts = e.mounts /\ undone.previous \in [Features -> Flags]
          /\ undone = [feature |-> undone.feature, previous |-> undone.previous,
                       registered |-> undone.registered, manifest |-> undone.manifest,
                       live |-> undone.live, mounts |-> undone.mounts]
      BY <1>1, <2>1, <3>1 DEF Engine
    <3>3. /\ undone.feature[f].mounted = e.feature[f].mounted
          /\ undone.feature[f].handle = None
      BY <2>1, <3>2 DEF Flags
    <3>4. QED
      BY <3>2, <3>3 DEF Engine
  <2>4. QED
    BY <2>2, <2>3
<1> HIDE DEF undone
<1>3. /\ down \in Engine /\ down.registered = e.registered /\ down.manifest = e.manifest
      /\ down.live[f] = {} /\ down.mounts = e.mounts
      /\ down.feature[f].mounted = FALSE /\ down.feature[f].handle = None
  <2> DEFINE flags == [undone.feature[f] EXCEPT !.mounted = FALSE, !.active = FALSE]
  <2>0. undone.feature[f] \in Flags
    BY <1>2 DEF Engine
  <2>1. /\ flags \in Flags /\ flags.mounted = FALSE /\ flags.handle = None
    BY <1>2, <2>0 DEF Flags
  <2>2. down = [undone EXCEPT !.live = [undone.live EXCEPT ![f] = {}],
                              !.feature = [undone.feature EXCEPT ![f] = flags]]
    BY <1>2 DEF Engine, Flags
  <2> HIDE DEF down, flags
  <2>3. /\ down.live \in [Features -> SUBSET Nat] /\ down.live[f] = {}
        /\ down.feature \in [Features -> Flags] /\ down.feature[f] = flags
        /\ down.registered = e.registered /\ down.manifest = e.manifest
        /\ down.mounts = e.mounts /\ down.previous \in [Features -> Flags]
        /\ down = [feature |-> down.feature, previous |-> down.previous,
                   registered |-> down.registered, manifest |-> down.manifest,
                   live |-> down.live, mounts |-> down.mounts]
    BY <1>2, <2>1, <2>2 DEF Engine
  <2>4. QED
    BY <2>1, <2>3 DEF Engine
<1> HIDE DEF down
<1>4. Deactivate(e, f, bad) =
        IF f \notin e.registered THEN e
        ELSE IF <<f, "handle">> \in bad /\ e.feature[f].handle # None THEN saved
        ELSE IF <<f, "unmount">> \in bad THEN undone ELSE down
  BY DEF Deactivate, down, undone, saved
<1>5. CASE f \notin e.registered
  BY <1>4, <1>5 DEF KeepsFeature
<1>6. CASE f \in e.registered
  <2>1. KeepsFeature(e, saved, f)
    BY <1>1 DEF KeepsFeature, FeatureKept, Engine
  <2>2. KeepsFeature(e, undone, f)
    BY <1>2, <1>6 DEF KeepsFeature, FeatureKept, Engine
  <2>3. KeepsFeature(e, down, f) /\ FlagsFit(down, f)
    BY <1>3, <1>6 DEF KeepsFeature, FeatureKept, Engine, FlagsFit
  <2>4. QED
    BY <1>1, <1>2, <1>3, <1>4, <1>6, <2>1, <2>2, <2>3
<1>7. QED
  BY <1>5, <1>6

LEMMA TogetherFacts ==
    ASSUME NEW e \in Engine, NEW after \in [Features -> Engine]
    PROVE  /\ Together(e, after) \in Engine
           /\ Together(e, after).registered = e.registered
           /\ Together(e, after).manifest = e.manifest
           /\ \A f \in Features :
                 /\ Together(e, after).feature[f] = after[f].feature[f]
                 /\ Together(e, after).live[f] = after[f].live[f]
                 /\ Together(e, after).mounts[f] = after[f].mounts[f]
<1> DEFINE t == Together(e, after)
<1>1. \A f \in Features :
        /\ after[f].feature[f] \in Flags /\ after[f].previous[f] \in Flags
        /\ after[f].live[f] \in SUBSET Nat /\ after[f].mounts[f] \in Nat
  BY DEF Engine
<1>2. /\ t.feature = [f \in Features |-> after[f].feature[f]]
      /\ t.previous = [f \in Features |-> after[f].previous[f]]
      /\ t.live = [f \in Features |-> after[f].live[f]]
      /\ t.mounts = [f \in Features |-> after[f].mounts[f]]
      /\ t.registered = e.registered /\ t.manifest = e.manifest
      /\ t = [feature |-> t.feature, previous |-> t.previous, registered |-> t.registered,
              manifest |-> t.manifest, live |-> t.live, mounts |-> t.mounts]
  <2> DEFINE F == [f \in Features |-> after[f].feature[f]]
             P == [f \in Features |-> after[f].previous[f]]
             L == [f \in Features |-> after[f].live[f]]
             M == [f \in Features |-> after[f].mounts[f]]
  <2>1. t = [e EXCEPT !.feature = F, !.previous = P, !.live = L, !.mounts = M]
    BY DEF Together
  <2> HIDE DEF t, F, P, L, M
  <2>2. /\ t.feature = F /\ t.previous = P /\ t.live = L /\ t.mounts = M
        /\ t.registered = e.registered /\ t.manifest = e.manifest
        /\ t = [feature |-> t.feature, previous |-> t.previous, registered |-> t.registered,
                manifest |-> t.manifest, live |-> t.live, mounts |-> t.mounts]
    BY <2>1 DEF Engine
  <2>3. QED
    BY <2>2 DEF F, P, L, M
<1> HIDE DEF t
<1>3. /\ t.feature \in [Features -> Flags] /\ t.previous \in [Features -> Flags]
      /\ t.live \in [Features -> SUBSET Nat] /\ t.mounts \in [Features -> Nat]
  BY <1>1, <1>2
<1>4. t \in Engine
  BY <1>2, <1>3 DEF Engine
<1>5. QED
  BY <1>2, <1>4 DEF t

\* A method that does nothing, and one called for each of some features, keep every feature.
LEMMA SameEngine == ASSUME NEW e, NEW f PROVE KeepsFeature(e, e, f)
BY DEF KeepsFeature

LEMMA TogetherKeeps ==
    ASSUME NEW e \in Engine, NEW after \in [Features -> Engine],
           \A f \in Features : KeepsFeature(e, after[f], f)
    PROVE  \A f \in Features : KeepsFeature(e, Together(e, after), f)
BY TogetherFacts DEF KeepsFeature, FeatureKept

LEMMA ActivateAllFacts ==
    ASSUME NEW e \in Engine, NEW S \in SUBSET Features, NEW bad
    PROVE  LET a == ActivateAll(e, S, bad) IN
           /\ a \in Engine
           /\ \A f \in Features :
                 /\ KeepsFeature(e, a, f) /\ (FlagsFit(e, f) => FlagsFit(a, f))
                 /\ f \notin S => a.live[f] = e.live[f]
<1> DEFINE after == [f \in Features |-> IF f \in S THEN Activate(e, f, bad) ELSE e]
           a == ActivateAll(e, S, bad)
<1>1. a = Together(e, after)
  BY DEF ActivateAll
<1>2. \A f \in Features : after[f] = IF f \in S THEN Activate(e, f, bad) ELSE e
  OBVIOUS
<1>3. /\ after = [f \in Features |-> after[f]]
      /\ \A f \in Features :
            /\ after[f] \in Engine /\ KeepsFeature(e, after[f], f)
            /\ FlagsFit(e, f) => FlagsFit(after[f], f)
            /\ f \notin S => after[f].live[f] = e.live[f]
  <2> HIDE DEF after
  <2>1. QED
    BY <1>2, ActivateFacts, SameEngine DEF after
<1> HIDE DEF after
<1>8. after \in [Features -> Engine]
  BY <1>3
<1>4. \A f \in Features : KeepsFeature(e, a, f)
  BY <1>1, <1>3, <1>8, TogetherKeeps
<1>5. /\ a \in Engine
      /\ \A f \in Features : a.feature[f] = after[f].feature[f] /\ a.live[f] = after[f].live[f]
  BY <1>1, <1>8, TogetherFacts
<1> HIDE DEF a
<1>6. \A f \in Features : FlagsFit(e, f) => FlagsFit(a, f)
  BY <1>3, <1>5 DEF FlagsFit
<1>7. QED
  BY <1>3, <1>4, <1>5, <1>6 DEF a

LEMMA DeactivateAllFacts ==
    ASSUME NEW e \in Engine, NEW S \in SUBSET Features, NEW bad
    PROVE  LET a == DeactivateAll(e, S, bad) IN
           /\ a \in Engine
           /\ \A f \in Features :
                 /\ KeepsFeature(e, a, f)
                 /\ FlagsFit(e, f) /\ f \notin Failing(bad) =>
                       /\ FlagsFit(a, f)
                       /\ f \in S \cap e.registered => a.live[f] = {}
<1> DEFINE after == [f \in Features |-> IF f \in S THEN Deactivate(e, f, bad) ELSE e]
           a == DeactivateAll(e, S, bad)
<1>1. a = Together(e, after)
  BY DEF DeactivateAll
<1>2. \A f \in Features :
        /\ after[f] \in Engine /\ KeepsFeature(e, after[f], f)
        /\ FlagsFit(e, f) /\ f \notin Failing(bad) =>
              /\ FlagsFit(after[f], f)
              /\ f \in S \cap e.registered => after[f].live[f] = {}
  <2>1. ASSUME NEW f \in Features, f \notin Failing(bad)
        PROVE  <<f, "handle">> \notin bad /\ <<f, "unmount">> \notin bad
    BY <2>1 DEF Failing
  <2>2. QED
    BY <2>1, DeactivateFacts, SameEngine
<1>3. after \in [Features -> Engine]
  BY <1>2
<1> HIDE DEF after
<1>4. \A f \in Features : KeepsFeature(e, a, f)
  BY <1>1, <1>2, <1>3, TogetherKeeps
<1>5. /\ a \in Engine
      /\ \A f \in Features : a.feature[f] = after[f].feature[f] /\ a.live[f] = after[f].live[f]
  BY <1>1, <1>3, TogetherFacts
<1> HIDE DEF a
<1>6. ASSUME NEW f \in Features, FlagsFit(e, f), f \notin Failing(bad)
      PROVE  FlagsFit(a, f) /\ (f \in S \cap e.registered => a.live[f] = {})
  BY <1>2, <1>5, <1>6 DEF FlagsFit
<1>7. QED
  BY <1>4, <1>5, <1>6 DEF a


\* The entry of a toggle key is one of that key that the manifest has, if it has any.
LEMMA EntryFacts ==
    ASSUME SwapAssumption, NEW manifest \in FeatureManifest, NEW key \in Features,
           NEW f \in Features, ToggleKey(f) = key, manifest[f] # "absent"
    PROVE  LET g == EntryOf(manifest, key) IN
           g \in Features /\ ToggleKey(g) = key /\ manifest[g] # "absent"
<1> DEFINE entries == {g \in Features : ToggleKey(g) = key /\ manifest[g] # "absent"}
<1>1. entries \in SUBSET (1 .. LastFeature) /\ entries # {}
  BY DEF Features
<1>2. EntryOf(manifest, key) = Max(entries)
  BY <1>1 DEF EntryOf
<1> HIDE DEF entries
<1>3. Max(entries) \in entries
  BY <1>1, MaxFacts DEF SwapAssumption
<1>4. QED
  BY <1>2, <1>3 DEF entries

LEMMA EntriesAreFeatures ==
    ASSUME SwapAssumption, NEW old \in FeatureManifest, NEW new \in FeatureManifest
    PROVE  /\ \A key \in KeysOf(new) : EntryOf(new, key) \in Features
                                      /\ ToggleKey(EntryOf(new, key)) = key
           /\ Added(old, new) \subseteq Features
           /\ Removed(old, new) \subseteq Features /\ Toggled(old, new) \subseteq Features
<1>1. ASSUME NEW m \in FeatureManifest, NEW key \in KeysOf(m)
      PROVE  EntryOf(m, key) \in Features /\ ToggleKey(EntryOf(m, key)) = key
  <2>1. PICK f \in Features : ToggleKey(f) = key /\ m[f] # "absent"
    BY <1>1 DEF KeysOf, EntryOf
  <2>2. QED
    BY <1>1, <2>1, EntryFacts DEF KeysOf
<1>2. QED
  BY <1>1 DEF Added, Removed, Toggled

\* An update keeps every feature, and what has a toggle key of its own and is switched off
\* is torn down unless it fails.
LEMMA ApplyFacts ==
    ASSUME SwapAssumption, NEW e \in Engine, NEW new \in FeatureManifest, NEW bad
    PROVE  LET a == Apply(e, new, bad) IN
           /\ a \in Engine /\ a.manifest = new
           /\ \A f \in Features :
                 /\ FeatureKept(e, f) => FeatureKept(a, f)
                 /\ FlagsFit(e, f) /\ f \notin Failing(bad) => FlagsFit(a, f)
                 /\ /\ FlagsFit(e, f) /\ f \notin Failing(bad) /\ FeatureKept(e, f)
                    /\ \A g \in Features : ToggleKey(g) = ToggleKey(f) => g = f
                    /\ e.manifest[f] = "on" /\ new[f] = "off"
                    => a.live[f] = {}
<1> DEFINE old == e.manifest
           off == {f \in Removed(old, new) \cup Toggled(old, new) : new[f] = "off"}
           d == DeactivateAll(e, off, bad)
           u == ActivateAll(d, Added(old, new), bad)
           a == Apply(e, new, bad)
<1>1. old \in FeatureManifest
  BY DEF Engine
<1>2. off \in SUBSET Features /\ Added(old, new) \in SUBSET Features
  BY <1>1, EntriesAreFeatures
<1>3. a = [u EXCEPT !.manifest = new]
  BY DEF Apply
<1>10. ASSUME NEW f \in Features, FlagsFit(e, f), FeatureKept(e, f),
              \A g \in Features : ToggleKey(g) = ToggleKey(f) => g = f,
              old[f] = "on", new[f] = "off"
       PROVE  f \notin Added(old, new) /\ f \in off
  <2> DEFINE key == ToggleKey(f)
  <2>1. key \in Features
    BY DEF ToggleKey, SwapAssumption, Features
  <2>2. EntryOf(old, key) = f /\ EntryOf(new, key) = f
    BY <1>1, <1>10, <2>1, EntryFacts
  <2>3. key \in KeysOf(old) \cap KeysOf(new)
    BY <2>1, <2>2 DEF KeysOf, Features, None, SwapAssumption
  <2>4. f \in Toggled(old, new)
    BY <1>10, <2>2, <2>3 DEF Toggled
  <2>5. f \notin Added(old, new)
    BY <1>1, <2>3, EntriesAreFeatures DEF Added
  <2>6. QED
    BY <1>10, <2>4, <2>5
<1> HIDE DEF off
<1>4. /\ d \in Engine
      /\ \A f \in Features :
            /\ KeepsFeature(e, d, f)
            /\ FlagsFit(e, f) /\ f \notin Failing(bad) =>
                  FlagsFit(d, f) /\ (f \in off \cap e.registered => d.live[f] = {})
  BY <1>2, DeactivateAllFacts
<1> HIDE DEF d
<1>5. /\ u \in Engine
      /\ \A f \in Features : /\ KeepsFeature(d, u, f) /\ (FlagsFit(d, f) => FlagsFit(u, f))
                             /\ f \notin Added(old, new) => u.live[f] = d.live[f]
  BY <1>2, <1>4, ActivateAllFacts
<1> HIDE DEF u
<1>6. /\ a \in Engine /\ a.manifest = new /\ a.registered = u.registered
      /\ a.live = u.live /\ a.feature = u.feature /\ a.mounts = u.mounts
  BY <1>3, <1>5 DEF Engine
<1> HIDE DEF a
<1>7. ASSUME NEW f \in Features
      PROVE  /\ FeatureKept(e, f) => FeatureKept(a, f)
             /\ FlagsFit(e, f) /\ f \notin Failing(bad) => FlagsFit(a, f)
  BY <1>4, <1>5, <1>6 DEF KeepsFeature, FeatureKept, FlagsFit
<1>8. ASSUME NEW f \in Features, FlagsFit(e, f), f \notin Failing(bad), FeatureKept(e, f),
             \A g \in Features : ToggleKey(g) = ToggleKey(f) => g = f,
             old[f] = "on", new[f] = "off"
      PROVE  a.live[f] = {}
  <2>1. f \notin Added(old, new) /\ f \in off
    BY <1>8, <1>10
  <2>2. CASE f \in e.registered
    BY <1>4, <1>5, <1>6, <1>8, <2>1, <2>2
  <2>3. CASE f \notin e.registered
    <3>1. e.live[f] = {}
      BY <1>8, <2>3 DEF FeatureKept, FlagsFit
    <3>2. d.live[f] = {}
      BY <1>4, <2>3, <3>1 DEF KeepsFeature
    <3>3. QED
      BY <1>5, <1>6, <2>1, <3>2
  <2>4. QED
    BY <2>2, <2>3
<1>9. QED
  BY <1>6, <1>7, <1>8 DEF a

LEMMA SwapInitially ==
    ASSUME SwapAssumption, SwapInit
    PROVE  SwapInv
<1>1. memory = NewEngine /\ log = [parted |-> {}, applied |-> FALSE, disposed |-> TRUE]
  BY DEF SwapInit, ClientInit
<1>2. NewEngine \in Engine
  BY DEF NewEngine, Engine, Flags, Unmounted, NoSnapshot, None, FeatureManifest, Absent
<1>3. \A f \in Features : /\ NewEngine.live[f] = {} /\ NewEngine.feature[f].mounted = FALSE
                          /\ NewEngine.feature[f].handle = None
  BY DEF NewEngine, Unmounted
<1>4. QED
  BY <1>1, <1>2, <1>3 DEF SwapInv, FeatureKept, FlagsAreTrue, FlagsFit

\* Becomes with an engine that keeps every feature
LEMMA BecomesStep ==
    ASSUME SwapInv, NEW e, e \in Engine, NEW parted \in SUBSET Features,
           NEW applied \in BOOLEAN, Becomes(e, parted, applied),
           \A f \in Features :
              /\ FeatureKept(memory, f) => FeatureKept(e, f)
              /\ FlagsFit(memory, f) /\ f \notin parted => FlagsFit(e, f)
    PROVE  SwapInv' /\ log'.applied = applied
<1>1. /\ memory' = e
      /\ log' = [log EXCEPT !.parted = {f \in log.parted \cup parted : ~FlagsFit(e, f)},
                            !.applied = applied]
  BY DEF Becomes
<1>2. /\ log' \in [parted : SUBSET Features, applied : BOOLEAN, disposed : BOOLEAN]
      /\ log'.parted = {f \in log.parted \cup parted : ~FlagsFit(e, f)}
      /\ log'.applied = applied
  BY <1>1 DEF SwapInv
<1>3. \A f \in Features : FeatureKept(e, f)
  BY DEF SwapInv
<1>4. \A f \in Features \ log'.parted : FlagsFit(e, f)
  BY <1>2 DEF SwapInv, FlagsAreTrue
<1>5. QED
  BY <1>1, <1>2, <1>3, <1>4 DEF SwapInv, FlagsAreTrue, FeatureKept, FlagsFit

LEMMA BootRuntimeStep ==
    ASSUME SwapInv, NEW manifest \in FeatureManifest, NEW modules \in SUBSET Features, NEW bad,
           BootRuntime(manifest, modules, bad)
    PROVE  SwapInv' /\ ~log'.applied
<1> DEFINE boot == [memory EXCEPT !.feature = NewEngine.feature,
                                  !.previous = NewEngine.previous,
                                  !.registered = modules, !.manifest = manifest]
           on == {f \in modules : manifest[f] = "on"}
           a == ActivateAll(boot, on, bad)
<1>1. /\ memory' = a
      /\ log' = [parted |-> {f \in Features : memory.live[f] # {}}, applied |-> FALSE,
                 disposed |-> FALSE]
  BY DEF BootRuntime
<1>2. /\ NewEngine.feature \in [Features -> Flags] /\ NewEngine.previous \in [Features -> Flags]
      /\ \A f \in Features : /\ NewEngine.feature[f].mounted = FALSE
                             /\ NewEngine.feature[f].handle = None
  BY DEF NewEngine, Flags, Unmounted, NoSnapshot, None
<1>3. /\ boot \in Engine /\ boot.live = memory.live /\ boot.mounts = memory.mounts
      /\ boot.feature = NewEngine.feature
  BY <1>2 DEF SwapInv, Engine
<1> HIDE DEF boot
<1>4. \A f \in Features : FeatureKept(boot, f)
  BY <1>2, <1>3 DEF SwapInv, FeatureKept
<1>5. \A f \in Features : memory.live[f] = {} => FlagsFit(boot, f)
  BY <1>2, <1>3 DEF FlagsFit
<1>6. a \in Engine /\ \A f \in Features : KeepsFeature(boot, a, f)
                                        /\ (FlagsFit(boot, f) => FlagsFit(a, f))
  BY <1>3, ActivateAllFacts
<1> HIDE DEF a
<1>7. \A f \in Features : FeatureKept(a, f)
  BY <1>4, <1>6 DEF KeepsFeature
<1>8. \A f \in Features \ log'.parted : FlagsFit(a, f)
  BY <1>1, <1>5, <1>6
<1>9. log' \in [parted : SUBSET Features, applied : BOOLEAN, disposed : BOOLEAN]
  BY <1>1
<1>10. QED
  BY <1>1, <1>6, <1>7, <1>8, <1>9 DEF SwapInv, FlagsAreTrue, FeatureKept, FlagsFit

LEMMA DisposeRuntimeStep ==
    ASSUME SwapInv, DisposeRuntime
    PROVE  SwapInv' /\ ~log'.applied
<1> DEFINE after == [f \in Features |-> Rollback(memory, f)]
           t == Together(memory, after)
           a == FullRollback(memory)
<1>1. /\ memory' = a
      /\ log' = [log EXCEPT !.disposed = TRUE, !.applied = FALSE, !.parted = Features]
  BY DEF DisposeRuntime
<1>2. \A f \in Features : /\ after[f] = Rollback(memory, f) /\ after[f] \in Engine
                          /\ KeepsFeature(memory, after[f], f)
  BY RollbackFacts DEF SwapInv
<1>3. after \in [Features -> Engine]
  BY RollbackFacts DEF SwapInv
<1> HIDE DEF after
<1>4. t \in Engine /\ \A f \in Features : KeepsFeature(memory, t, f)
  <2>1. \A f \in Features : KeepsFeature(memory, t, f)
    BY <1>2, <1>3, TogetherKeeps DEF SwapInv
  <2>2. QED
    BY <1>3, <2>1, TogetherFacts DEF SwapInv
<1>5. a = [t EXCEPT !.previous = [f \in Features |-> NoSnapshot]]
  BY DEF FullRollback, after
<1> HIDE DEF t, a
<1>6. /\ a \in Engine /\ a.live = t.live /\ a.mounts = t.mounts /\ a.feature = t.feature
      /\ a.registered = t.registered
  <2> DEFINE none == [f \in Features |-> NoSnapshot]
  <2>1. none \in [Features -> Flags]
    BY DEF Flags, NoSnapshot
  <2> HIDE DEF none
  <2>2. QED
    BY <1>4, <1>5, <2>1 DEF Engine, none
<1>7. \A f \in Features : FeatureKept(a, f)
  BY <1>4, <1>6 DEF SwapInv, KeepsFeature, FeatureKept
<1>8. /\ log' \in [parted : SUBSET Features, applied : BOOLEAN, disposed : BOOLEAN]
      /\ log'.parted = Features /\ log'.applied = FALSE
  BY <1>1 DEF SwapInv
<1>9. QED
  BY <1>1, <1>6, <1>7, <1>8 DEF SwapInv, FlagsAreTrue, FeatureKept

\* The calls of the engine, with what a step that applied a manifest did
LEMMA EngineCallStep ==
    ASSUME SwapInv, NEW bad,
           \/ ActivateAllFromManifest(bad)
           \/ \E f, g \in Features :
                 \/ ActivateFeature(f, bad) \/ DeactivateFeature(f, bad)
                 \/ HotSwap(f, g, bad) \/ RegisterModule(f) \/ RollbackFeature(f)
    PROVE  SwapInv' /\ ~log'.applied
<1>0. memory \in Engine /\ \A h \in Features : FeatureKept(memory, h)
  BY DEF SwapInv
<1>1. ASSUME NEW a \in Engine, NEW parted \in SUBSET Features, Becomes(a, parted, FALSE),
             \A h \in Features :
                /\ FeatureKept(memory, h) => FeatureKept(a, h)
                /\ FlagsFit(memory, h) /\ h \notin parted => FlagsFit(a, h)
      PROVE  SwapInv' /\ ~log'.applied
  BY <1>1, BecomesStep, FALSE \in BOOLEAN
<1>2. Failing(bad) \in SUBSET Features
  BY DEF Failing
<1>3. ASSUME NEW e \in Engine, NEW h \in Features
      PROVE  LET a == Activate(e, h, bad) IN
             /\ a \in Engine
             /\ \A k \in Features :
                   /\ FeatureKept(e, k) => FeatureKept(a, k)
                   /\ FlagsFit(e, k) => FlagsFit(a, k)
  <2> DEFINE a == Activate(e, h, bad)
  <2>1. /\ a \in Engine /\ KeepsFeature(e, a, h) /\ (FlagsFit(e, h) => FlagsFit(a, h))
    BY ActivateFacts
  <2>2. ASSUME NEW k \in Features, k # h
        PROVE  /\ a.live[k] = e.live[k] /\ a.mounts[k] = e.mounts[k]
               /\ a.feature[k] = e.feature[k] /\ a.registered = e.registered
    BY <2>2 DEF Activate, SavePreviousState, Rollback, Mount, Engine
  <2> HIDE DEF a
  <2>3. QED
    BY <2>1, <2>2 DEF KeepsFeature, FeatureKept, FlagsFit, a
<1>4. ASSUME NEW e \in Engine, NEW h \in Features
      PROVE  LET a == Deactivate(e, h, bad) IN
             /\ a \in Engine
             /\ \A k \in Features :
                   /\ FeatureKept(e, k) => FeatureKept(a, k)
                   /\ FlagsFit(e, k) /\ k \notin Failing(bad) => FlagsFit(a, k)
  <2> DEFINE a == Deactivate(e, h, bad)
  <2>0. h \notin Failing(bad) => <<h, "handle">> \notin bad /\ <<h, "unmount">> \notin bad
    BY DEF Failing
  <2>1. /\ a \in Engine /\ KeepsFeature(e, a, h)
        /\ FlagsFit(e, h) /\ h \notin Failing(bad) => FlagsFit(a, h)
    BY <2>0, DeactivateFacts
  <2>2. ASSUME NEW k \in Features, k # h
        PROVE  /\ a.live[k] = e.live[k] /\ a.mounts[k] = e.mounts[k]
               /\ a.feature[k] = e.feature[k] /\ a.registered = e.registered
    BY <2>2 DEF Deactivate, SavePreviousState, RunHandle, Engine
  <2> HIDE DEF a
  <2>3. QED
    BY <2>1, <2>2 DEF KeepsFeature, FeatureKept, FlagsFit, a
<1>5. ASSUME NEW f \in Features, ActivateFeature(f, bad) PROVE SwapInv' /\ ~log'.applied
  <2> DEFINE a == Activate(memory, f, bad)
             p == {}
  <2>1. Becomes(a, p, FALSE) /\ p \in SUBSET Features
    BY <1>5 DEF ActivateFeature
  <2>2. /\ a \in Engine
        /\ \A k \in Features : /\ FeatureKept(memory, k) => FeatureKept(a, k)
                               /\ FlagsFit(memory, k) => FlagsFit(a, k)
    BY <1>0, <1>3
  <2> HIDE DEF a, p
  <2>3. QED
    BY <1>1, <2>1, <2>2
<1>6. ASSUME NEW f \in Features, DeactivateFeature(f, bad) PROVE SwapInv' /\ ~log'.applied
  <2>1. Becomes(Deactivate(memory, f, bad), Failing(bad), FALSE)
    BY <1>6 DEF DeactivateFeature
  <2>2. QED
    BY <1>0, <1>1, <1>2, <1>4, <2>1
<1>7. ASSUME NEW f \in Features, NEW g \in Features, HotSwap(f, g, bad)
      PROVE  SwapInv' /\ ~log'.applied
  <2> DEFINE known == [memory EXCEPT !.registered = @ \cup {g}]
             gone == Deactivate(known, f, bad)
             a == IF Deactivated(known, f, bad) THEN Activate(gone, g, bad) ELSE gone
  <2>1. Becomes(a, Failing(bad), FALSE)
    BY <1>7 DEF HotSwap
  <2>2. /\ known \in Engine /\ known.live = memory.live /\ known.mounts = memory.mounts
        /\ known.feature = memory.feature /\ memory.registered \subseteq known.registered
    BY <1>0 DEF Engine
  <2> HIDE DEF known
  <2>3. \A h \in Features : /\ FeatureKept(memory, h) => FeatureKept(known, h)
                            /\ FlagsFit(memory, h) => FlagsFit(known, h)
    BY <2>2 DEF FeatureKept, FlagsFit
  <2>4. /\ gone \in Engine
        /\ \A k \in Features :
              /\ FeatureKept(known, k) => FeatureKept(gone, k)
              /\ FlagsFit(known, k) /\ k \notin Failing(bad) => FlagsFit(gone, k)
    BY <1>4, <2>2
  <2> HIDE DEF gone
  <2>5. /\ a \in Engine
        /\ \A k \in Features :
              /\ FeatureKept(gone, k) => FeatureKept(a, k)
              /\ FlagsFit(gone, k) => FlagsFit(a, k)
    BY <1>3, <2>4
  <2> HIDE DEF a
  <2>6. QED
    BY <1>1, <1>2, <2>1, <2>3, <2>4, <2>5
<1>8. CASE ActivateAllFromManifest(bad)
  <2> DEFINE a == ActivateAll(memory, {h \in Features : memory.manifest[h] = "on"}, bad)
             p == {}
  <2>1. Becomes(a, p, FALSE) /\ p \in SUBSET Features
    BY <1>8 DEF ActivateAllFromManifest
  <2>2. a \in Engine /\ \A h \in Features : KeepsFeature(memory, a, h)
                                          /\ (FlagsFit(memory, h) => FlagsFit(a, h))
    BY <1>0, ActivateAllFacts
  <2> HIDE DEF a, p
  <2>3. \A h \in Features : /\ FeatureKept(memory, h) => FeatureKept(a, h)
                            /\ FlagsFit(memory, h) => FlagsFit(a, h)
    BY <2>2 DEF KeepsFeature
  <2>4. QED
    BY <1>1, <2>1, <2>2, <2>3
<1>9. ASSUME NEW f \in Features, RegisterModule(f) PROVE SwapInv' /\ ~log'.applied
  <2> DEFINE a == [memory EXCEPT !.registered = @ \cup {f}]
             p == {}
  <2>1. Becomes(a, p, FALSE) /\ p \in SUBSET Features
    BY <1>9 DEF RegisterModule
  <2>2. /\ a \in Engine /\ a.live = memory.live /\ a.mounts = memory.mounts
        /\ a.feature = memory.feature /\ memory.registered \subseteq a.registered
    BY <1>0 DEF Engine
  <2> HIDE DEF a, p
  <2>3. \A h \in Features : /\ FeatureKept(memory, h) => FeatureKept(a, h)
                            /\ FlagsFit(memory, h) => FlagsFit(a, h)
    BY <2>2 DEF FeatureKept, FlagsFit
  <2>4. QED
    BY <1>1, <2>1, <2>2, <2>3
<1>10. ASSUME NEW f \in Features, RollbackFeature(f) PROVE SwapInv' /\ ~log'.applied
  <2> DEFINE a == Rollback(memory, f)
             p == {f}
  <2>1. Becomes(a, p, FALSE) /\ p \in SUBSET Features
    BY <1>10 DEF RollbackFeature
  <2>2. a \in Engine /\ KeepsFeature(memory, a, f)
    BY <1>0, RollbackFacts
  <2>3. ASSUME NEW k \in Features, k # f
        PROVE  /\ a.live[k] = memory.live[k] /\ a.mounts[k] = memory.mounts[k]
               /\ a.feature[k] = memory.feature[k] /\ a.registered = memory.registered
    BY <1>0, <2>3 DEF Rollback, Engine
  <2> HIDE DEF a
  <2>4. \A h \in Features : FeatureKept(memory, h) => FeatureKept(a, h)
    BY <2>2, <2>3 DEF KeepsFeature, FeatureKept
  <2>5. \A h \in Features : FlagsFit(memory, h) /\ h \notin p => FlagsFit(a, h)
    BY <2>3 DEF FlagsFit
  <2> HIDE DEF p
  <2>6. QED
    BY <1>1, <2>1, <2>2, <2>4, <2>5
<1>11. QED
  BY <1>5, <1>6, <1>7, <1>8, <1>9, <1>10

LEMMA ApplyStep ==
    ASSUME SwapAssumption, SwapInv, NEW new \in FeatureManifest, NEW bad,
           ApplyManifestUpdate(new, bad)
    PROVE  SwapInv' /\ SwitchedOffStep
<1> DEFINE a == Apply(memory, new, bad)
           applied == (bad = {} /\ log.parted = {})
<1>1. Becomes(a, Failing(bad), applied)
  BY DEF ApplyManifestUpdate
<1>2. /\ a \in Engine /\ a.manifest = new
      /\ \A f \in Features :
            /\ FeatureKept(memory, f) => FeatureKept(a, f)
            /\ FlagsFit(memory, f) /\ f \notin Failing(bad) => FlagsFit(a, f)
            /\ /\ FlagsFit(memory, f) /\ f \notin Failing(bad) /\ FeatureKept(memory, f)
               /\ \A g \in Features : ToggleKey(g) = ToggleKey(f) => g = f
               /\ memory.manifest[f] = "on" /\ new[f] = "off"
               => a.live[f] = {}
  BY ApplyFacts DEF SwapInv
<1> HIDE DEF a
<1>3. Failing(bad) \in SUBSET Features /\ applied \in BOOLEAN
  BY DEF Failing
<1>4. SwapInv' /\ log'.applied = applied
  <2> HIDE DEF applied
  <2>1. QED
    BY <1>1, <1>2, <1>3, BecomesStep
<1>5. memory' = a
  BY <1>1 DEF Becomes
<1>6. ASSUME NEW f \in Features, log'.applied,
             \A g \in Features : ToggleKey(g) = ToggleKey(f) => g = f,
             memory.manifest[f] = "on", memory'.manifest[f] = "off"
      PROVE  memory'.live[f] = {}
  <2>1. bad = {} /\ log.parted = {}
    BY <1>4, <1>6
  <2>2. Failing(bad) = {}
    BY <2>1 DEF Failing
  <2>3. FlagsFit(memory, f) /\ FeatureKept(memory, f)
    BY <2>1 DEF SwapInv, FlagsAreTrue
  <2>4. QED
    BY <1>2, <1>5, <1>6, <2>2, <2>3
<1>7. QED
  BY <1>4, <1>6 DEF SwitchedOffStep

LEMMA SwapStep ==
    ASSUME SwapAssumption, SwapInv, [SwapNext]_clientVars
    PROVE  SwapInv' /\ SwitchedOffStep
<1>1. ASSUME SwapInv' /\ ~log'.applied PROVE SwapInv' /\ SwitchedOffStep
  BY <1>1 DEF SwitchedOffStep
<1>2. ASSUME NEW manifest \in FeatureManifest, NEW modules \in SUBSET Features, NEW bad,
             BootRuntime(manifest, modules, bad)
      PROVE  SwapInv' /\ SwitchedOffStep
  BY <1>1, <1>2, BootRuntimeStep
<1>3. ASSUME NEW bad,
             \/ ActivateAllFromManifest(bad)
             \/ \E f, g \in Features :
                   \/ ActivateFeature(f, bad) \/ DeactivateFeature(f, bad)
                   \/ HotSwap(f, g, bad) \/ RegisterModule(f) \/ RollbackFeature(f)
      PROVE  SwapInv' /\ SwitchedOffStep
  BY <1>1, <1>3, EngineCallStep
<1>4. ASSUME NEW new \in FeatureManifest, NEW bad, ApplyManifestUpdate(new, bad)
      PROVE  SwapInv' /\ SwitchedOffStep
  BY <1>4, ApplyStep
<1>5. CASE DisposeRuntime
  BY <1>1, <1>5, DisposeRuntimeStep
<1>6. CASE UNCHANGED clientVars
  <2>1. memory' = memory /\ log' = log
    BY <1>6 DEF clientVars
  <2>2. SwapInv'
    BY <2>1 DEF SwapInv, FlagsAreTrue, FeatureKept, FlagsFit
  <2>3. SwitchedOffStep
    BY <2>1 DEF SwitchedOffStep
  <2>4. QED
    BY <2>2, <2>3
<1>7. QED
  BY <1>2, <1>3, <1>4, <1>5, <1>6 DEF SwapNext

LEMMA SwapInvImplies ==
    ASSUME SwapInv
    PROVE  SwapTypeOK /\ FlagsAreTrue
BY DEF SwapInv, SwapTypeOK, Engine, Flags, FeatureKept

\* A feature is mounted exactly when its flags say so, once, and its handle undoes that
\* mount, unless a rollback was asked for or a module failed to unmount: whatever features
\* fail in activations that are rolled back, in hot swaps and in updates (engine.ts).
THEOREM FlagsTellMounts ==
    ASSUME SwapAssumption
    PROVE  SwapSpec => []FlagsAreTrue
<1>1. SwapInit => SwapInv
  BY SwapInitially
<1>2. SwapInv /\ [SwapNext]_clientVars => SwapInv'
  BY SwapStep
<1>3. SwapInv => FlagsAreTrue
  BY DEF SwapInv
<1>4. QED
  BY <1>1, <1>2, <1>3, PTL DEF SwapSpec

\* A feature with a toggle key of its own that an update switches off is unmounted by it, if
\* the update went well (applyManifestUpdate).
THEOREM SwitchedOffUnmounts ==
    ASSUME SwapAssumption
    PROVE  SwapSpec => SwitchedOffIsUnmounted
<1>1. SwapInit => SwapInv
  BY SwapInitially
<1>2. SwapInv /\ [SwapNext]_clientVars => SwapInv'
  BY SwapStep
<1>3. SwapInv /\ [SwapNext]_clientVars => [SwitchedOffStep]_clientVars
  BY SwapStep
<1>4. QED
  BY <1>1, <1>2, <1>3, PTL DEF SwapSpec, SwitchedOffIsUnmounted

-----------------------------------------------------------------------------
(* The publisher of the wiki *)

WikiSpec == WikiInit /\ [][WikiNext]_clientVars

\* An attachment is no page.
WikiAssumption ==
    /\ LastDoc \in Nat /\ Index \in Docs \cup {None}
    /\ Attachments \cap ({"_Sidebar", "Home"} \cup {PageOf[d] : d \in Docs}) = {}

DocState == [there : BOOLEAN, edition : Nat]

\* A page is of an edition that its document has had.
PageSound(page, docs) ==
    /\ page.doc \in Docs \cup {Nowhere}
    /\ page.doc # Nowhere => page.edition \in Nat /\ page.edition <= docs[page.doc].edition

NoneBehind(pages, outputs) ==
    \A p \in DOMAIN pages, q \in DOMAIN outputs :
        pages[p].doc = outputs[q].doc /\ pages[p].doc # Nowhere =>
            pages[p].edition <= outputs[q].edition

WikiTypes ==
    /\ outside = [docs |-> outside.docs, head |-> outside.head, pages |-> outside.pages]
    /\ outside.docs \in [Docs -> DocState] /\ outside.head \in Nat
    /\ Attachments \subseteq DOMAIN outside.pages
    /\ \A p \in DOMAIN outside.pages : PageSound(outside.pages[p], outside.docs)
    /\ DOMAIN call = Calls
    /\ log.head \in Int /\ log.head <= outside.head

\* What a run of the publisher holds: pages of editions there were, which are not behind the
\* wiki as long as it is at the commit it had at the build, and a commit that is what was
\* built, on top of the one it was made from.
RunHolds(r, wiki) ==
    /\ r.at \in {"idle", "built", "committed"}
    /\ r.at # "idle" =>
          /\ DOMAIN r.outputs \cap Attachments = {}
          /\ \A q \in DOMAIN r.outputs : PageSound(r.outputs[q], wiki.docs)
          /\ r.seen \in Nat /\ r.seen <= wiki.head
          /\ r.seen = wiki.head => NoneBehind(wiki.pages, r.outputs)
    /\ r.at = "committed" =>
          /\ r.base \in Nat /\ r.base <= wiki.head
          /\ r.base = wiki.head => r.pages = WritePages(wiki.pages, r.outputs)

WikiInv == WikiTypes /\ (\A c \in Calls : RunHolds(call[c], outside)) /\ PublishedIsBuilt

LEMMA CombinedFacts ==
    ASSUME NEW f, NEW g
    PROVE  /\ DOMAIN Over(f, g) = DOMAIN f \cup DOMAIN g
           /\ \A x \in DOMAIN f : Over(f, g)[x] = f[x]
           /\ \A x \in DOMAIN g \ DOMAIN f : Over(f, g)[x] = g[x]
BY DEF Over

LEMMA OutputsFacts ==
    ASSUME WikiAssumption, NEW docs \in [Docs -> DocState], There(docs) # {}
    PROVE  /\ DOMAIN Outputs(docs) \cap Attachments = {}
           /\ \A q \in DOMAIN Outputs(docs) :
                 LET page == Outputs(docs)[q] IN
                 /\ PageSound(page, docs)
                 /\ page.doc # Nowhere => page.edition = docs[page.doc].edition
<1> DEFINE pages == DocPages(docs)
           home == IF Index \in There(docs) THEN [Home |-> pages[PageOf[Index]]] ELSE <<>>
           side == [_Sidebar |-> BuildSidebar(docs)]
           Good(page) == PageSound(page, docs)
                         /\ (page.doc # Nowhere => page.edition = docs[page.doc].edition)
<1>1. There(docs) \subseteq Docs
  BY DEF There
<1>2. ASSUME NEW d \in There(docs)
      PROVE  LET last == Max({e \in There(docs) : PageOf[e] = PageOf[d]}) IN last \in There(docs)
  <2> DEFINE S == {e \in There(docs) : PageOf[e] = PageOf[d]}
  <2>1. S \in SUBSET (1 .. LastDoc) /\ S # {} /\ LastDoc \in Nat
    BY <1>1, <1>2 DEF Docs, WikiAssumption
  <2>2. S \subseteq There(docs)
    OBVIOUS
  <2> HIDE DEF S
  <2>3. Max(S) \in There(docs)
    BY <2>1, <2>2, MaxFacts
  <2>4. QED
    BY <2>3 DEF S
<1>3. ASSUME NEW d \in There(docs) PROVE Good(Converted(d, docs))
  <2>1. /\ Converted(d, docs).doc = d /\ Converted(d, docs).edition = docs[d].edition
        /\ d \in Docs /\ docs[d].edition \in Nat
    BY <1>1, <1>3 DEF Converted, DocState
  <2>2. QED
    BY <2>1 DEF PageSound
<1>4. /\ DOMAIN pages = {PageOf[d] : d \in There(docs)}
      /\ \A q \in DOMAIN pages : Good(pages[q])
  <2>1. DOMAIN pages = {PageOf[d] : d \in There(docs)}
    BY DEF DocPages
  <2>2. ASSUME NEW d \in There(docs) PROVE Good(pages[PageOf[d]])
    <3>1. pages[PageOf[d]] = Converted(Max({e \in There(docs) : PageOf[e] = PageOf[d]}), docs)
      BY <2>2 DEF DocPages
    <3> HIDE DEF pages, Good
    <3>2. QED
      BY <1>2, <1>3, <2>2, <3>1
  <2> HIDE DEF pages, Good
  <2>3. QED
    BY <2>1, <2>2
<1>5. DOMAIN side = {"_Sidebar"} /\ side["_Sidebar"].doc = Nowhere
  BY DEF BuildSidebar
<1>6. DOMAIN home \subseteq {"Home"} /\ \A q \in DOMAIN home : Good(home[q])
  <2> HIDE DEF pages, Good
  <2>1. CASE Index \in There(docs)
    <3>1. home = [Home |-> pages[PageOf[Index]]]
      BY <2>1
    <3>0. PageOf[Index] \in DOMAIN pages
      BY <1>4, <2>1
    <3>4. Good(pages[PageOf[Index]])
      BY <1>4, <3>0
    <3>2. DOMAIN home = {"Home"} /\ home["Home"] = pages[PageOf[Index]]
      BY <3>1
    <3> HIDE DEF home
    <3>3. QED
      BY <3>2, <3>4
  <2>2. CASE Index \notin There(docs)
    <3>1. home = <<>> /\ DOMAIN <<>> = {}
      BY <2>2
    <3>2. QED
      BY <3>1
  <2>3. QED
    BY <2>1, <2>2
<1>7. Good(side["_Sidebar"])
  BY <1>5 DEF PageSound
<1>8. Outputs(docs) = Over(side, Over(home, pages))
  BY DEF Outputs
<1> HIDE DEF side, home, pages, Good
<1>9. /\ DOMAIN Outputs(docs) = DOMAIN side \cup DOMAIN home \cup DOMAIN pages
      /\ \A q \in DOMAIN Outputs(docs) : Good(Outputs(docs)[q])
  <2> DEFINE lower == Over(home, pages)
  <2>1. /\ DOMAIN lower = DOMAIN home \cup DOMAIN pages
        /\ \A q \in DOMAIN home : lower[q] = home[q]
        /\ \A q \in DOMAIN pages \ DOMAIN home : lower[q] = pages[q]
    BY CombinedFacts
  <2> HIDE DEF lower
  <2>2. \A q \in DOMAIN lower : Good(lower[q])
    BY <1>4, <1>6, <2>1
  <2>3. /\ DOMAIN Over(side, lower) = DOMAIN side \cup DOMAIN lower
        /\ \A q \in DOMAIN side : Over(side, lower)[q] = side[q]
        /\ \A q \in DOMAIN lower \ DOMAIN side : Over(side, lower)[q] = lower[q]
    BY CombinedFacts
  <2>4. Outputs(docs) = Over(side, lower)
    BY <1>8 DEF lower
  <2>5. QED
    BY <1>5, <1>7, <2>1, <2>2, <2>3, <2>4
<1>10. DOMAIN Outputs(docs) \subseteq {"_Sidebar", "Home"} \cup {PageOf[d] : d \in Docs}
  BY <1>1, <1>4, <1>5, <1>6, <1>9
<1>11. QED
  BY <1>9, <1>10 DEF WikiAssumption, Good

LEMMA WrittenFacts ==
    ASSUME NEW pages, NEW outputs, DOMAIN outputs \cap Attachments = {},
           Attachments \subseteq DOMAIN pages
    PROVE  /\ DOMAIN WritePages(pages, outputs) = DOMAIN outputs \cup Attachments
           /\ \A p \in DOMAIN outputs : WritePages(pages, outputs)[p] = outputs[p]
           /\ \A p \in Attachments : WritePages(pages, outputs)[p] = pages[p]
<1> DEFINE kept == [p \in DOMAIN pages \cap Attachments |-> pages[p]]
<1>1. DOMAIN kept = Attachments /\ \A p \in Attachments : kept[p] = pages[p]
  OBVIOUS
<1>2. WritePages(pages, outputs) = Over(outputs, kept)
  BY DEF WritePages
<1> HIDE DEF kept
<1>3. \A p \in Attachments : p \in DOMAIN kept \ DOMAIN outputs
  BY <1>1
<1>4. /\ DOMAIN Over(outputs, kept) = DOMAIN outputs \cup DOMAIN kept
      /\ \A p \in DOMAIN outputs : Over(outputs, kept)[p] = outputs[p]
      /\ \A p \in DOMAIN kept \ DOMAIN outputs : Over(outputs, kept)[p] = kept[p]
  BY CombinedFacts
<1>5. QED
  BY <1>1, <1>2, <1>3, <1>4

LEMMA WikiInitially ==
    ASSUME WikiAssumption, WikiInit
    PROVE  WikiInv
<1>1. /\ outside = [docs |-> [d \in Docs |-> [there |-> TRUE, edition |-> 1]], head |-> 0,
                    pages |-> [p \in Attachments \cup {"Home"} |-> ByHand]]
      /\ call = [c \in Calls |-> Idle] /\ log = [exit |-> None, outputs |-> <<>>, head |-> None]
  BY DEF WikiInit, ClientInit
<1>2. /\ outside.docs \in [Docs -> DocState] /\ outside.head = 0
      /\ DOMAIN outside.pages = Attachments \cup {"Home"}
      /\ \A p \in DOMAIN outside.pages : outside.pages[p].doc = Nowhere
  BY <1>1 DEF DocState, ByHand
<1>3. log.exit = -1 /\ log.head = -1
  BY <1>1 DEF None
<1>4. WikiTypes
  BY <1>1, <1>2, <1>3 DEF WikiTypes, PageSound
<1>5. \A c \in Calls : RunHolds(call[c], outside)
  BY <1>1 DEF RunHolds, Idle
<1>6. QED
  BY <1>3, <1>4, <1>5 DEF WikiInv, PublishedIsBuilt

\* What a run holds stays true as the wiki gets commits and documents get editions.
LEMMA RunStillHolds ==
    ASSUME NEW r, NEW old, NEW new, RunHolds(r, old),
           old.docs \in [Docs -> DocState], new.docs \in [Docs -> DocState],
           \A d \in Docs : old.docs[d].edition <= new.docs[d].edition,
           old.head \in Nat, new.head \in Nat, old.head <= new.head,
           new.head = old.head => new.pages = old.pages
    PROVE  RunHolds(r, new)
<1>1. ASSUME NEW page, PageSound(page, old.docs) PROVE PageSound(page, new.docs)
  <2>1. CASE page.doc = Nowhere
    BY <2>1 DEF PageSound
  <2>2. CASE page.doc # Nowhere
    <3>1. page.doc \in Docs /\ page.edition \in Nat /\ page.edition <= old.docs[page.doc].edition
      BY <1>1, <2>2 DEF PageSound
    <3>2. old.docs[page.doc].edition \in Nat /\ new.docs[page.doc].edition \in Nat
      BY <3>1 DEF DocState
    <3>3. page.edition <= new.docs[page.doc].edition
      BY <3>1, <3>2
    <3>4. QED
      BY <3>1, <3>3 DEF PageSound
  <2>3. QED
    BY <2>1, <2>2
<1>2. ASSUME r.at # "idle"
      PROVE  /\ DOMAIN r.outputs \cap Attachments = {}
             /\ \A q \in DOMAIN r.outputs : PageSound(r.outputs[q], new.docs)
             /\ r.seen \in Nat /\ r.seen <= new.head
             /\ r.seen = new.head => NoneBehind(new.pages, r.outputs)
  BY <1>1, <1>2 DEF RunHolds
<1>3. ASSUME r.at = "committed"
      PROVE  /\ r.base \in Nat /\ r.base <= new.head
             /\ r.base = new.head => new.head = old.head /\ r.pages = WritePages(new.pages, r.outputs)
  BY <1>3 DEF RunHolds
<1>4. QED
  BY <1>2, <1>3 DEF RunHolds

\* A change of the documents only
LEMMA EditDocsStep ==
    ASSUME WikiInv, EditDocs
    PROVE  WikiInv' /\ WikiForwardStep
<1>0. /\ outside = [docs |-> outside.docs, head |-> outside.head, pages |-> outside.pages]
      /\ outside.docs \in [Docs -> DocState] /\ outside.head \in Nat
  BY DEF WikiInv, WikiTypes
<1>1. PICK d \in Docs, there \in BOOLEAN :
        outside' = [outside EXCEPT
            !.docs[d] = [there |-> there, edition |-> outside.docs[d].edition + 1]]
  BY DEF EditDocs, ChangesOutside
<1>2. call' = call /\ log' = log
  BY DEF EditDocs, ChangesOutside, Called
<1>3. PICK state \in DocState :
        /\ state.edition = outside.docs[d].edition + 1
        /\ outside' = [outside EXCEPT !.docs = [outside.docs EXCEPT ![d] = state]]
  <2> DEFINE state == [there |-> there, edition |-> outside.docs[d].edition + 1]
  <2>1. state \in DocState /\ state.edition = outside.docs[d].edition + 1
    BY <1>0 DEF DocState
  <2>2. outside' = [outside EXCEPT !.docs = [outside.docs EXCEPT ![d] = state]]
    BY <1>0, <1>1
  <2>3. QED
    BY <2>1, <2>2
<1>4. /\ outside' = [docs |-> outside'.docs, head |-> outside'.head, pages |-> outside'.pages]
      /\ outside'.docs = [outside.docs EXCEPT ![d] = state]
      /\ outside'.head = outside.head /\ outside'.pages = outside.pages
  BY <1>0, <1>3
<1>5. outside'.docs \in [Docs -> DocState]
  BY <1>0, <1>4
<1>6. \A e \in Docs : outside.docs[e].edition <= outside'.docs[e].edition
  BY <1>0, <1>3, <1>4 DEF DocState
<1>7. \A p \in DOMAIN outside'.pages : PageSound(outside'.pages[p], outside'.docs)
  <2>1. ASSUME NEW p \in DOMAIN outside.pages
        PROVE  PageSound(outside.pages[p], outside'.docs)
    <3>1. PageSound(outside.pages[p], outside.docs)
      BY DEF WikiInv, WikiTypes
    <3>2. QED
      BY <1>0, <1>5, <1>6, <3>1 DEF PageSound, DocState
  <2>2. QED
    BY <1>4, <2>1
<1>8. WikiTypes'
  BY <1>2, <1>4, <1>5, <1>7, <1>0 DEF WikiInv, WikiTypes
<1>9. \A c \in Calls : RunHolds(call'[c], outside')
  <2>1. ASSUME NEW c \in Calls PROVE RunHolds(call[c], outside')
    BY <1>0, <1>4, <1>5, <1>6, RunStillHolds DEF WikiInv
  <2>2. QED
    BY <1>2, <2>1
<1>10. PublishedIsBuilt'
  BY <1>2, <1>4 DEF WikiInv, PublishedIsBuilt
<1>11. WikiForwardStep
  <2>1. ASSUME NEW p \in DOMAIN outside.pages, outside.pages[p].doc # Nowhere
        PROVE  ~(outside.pages[p].edition < outside.pages[p].edition)
    BY <2>1 DEF WikiInv, WikiTypes, PageSound
  <2>2. QED
    BY <1>4, <2>1 DEF WikiForwardStep
<1>12. QED
  BY <1>8, <1>9, <1>10, <1>11 DEF WikiInv

\* Somebody edits a page of the wiki.
LEMMA EditWikiStep ==
    ASSUME WikiInv, EditWiki
    PROVE  WikiInv' /\ WikiForwardStep
<1>0. /\ outside = [docs |-> outside.docs, head |-> outside.head, pages |-> outside.pages]
      /\ outside.docs \in [Docs -> DocState] /\ outside.head \in Nat
  BY DEF WikiInv, WikiTypes
<1>1. PICK p \in DOMAIN outside.pages :
        outside' = [outside EXCEPT !.head = @ + 1, !.pages[p] = ByHand]
  BY DEF EditWiki, ChangesOutside
<1>2. call' = call /\ log' = log
  BY DEF EditWiki, ChangesOutside, Called
<1>3. /\ outside' = [docs |-> outside'.docs, head |-> outside'.head, pages |-> outside'.pages]
      /\ outside'.docs = outside.docs /\ outside'.head = outside.head + 1
      /\ outside'.pages = [outside.pages EXCEPT ![p] = ByHand]
  BY <1>0, <1>1
<1>4. /\ DOMAIN outside'.pages = DOMAIN outside.pages
      /\ \A q \in DOMAIN outside.pages : outside'.pages[q] = outside.pages[q]
                                        \/ outside'.pages[q].doc = Nowhere
  BY <1>3 DEF ByHand
<1>5. \A q \in DOMAIN outside'.pages : PageSound(outside'.pages[q], outside'.docs)
  BY <1>3, <1>4 DEF WikiInv, WikiTypes, PageSound
<1>6. WikiTypes'
  BY <1>0, <1>2, <1>3, <1>4, <1>5 DEF WikiInv, WikiTypes
<1>7. \A c \in Calls : RunHolds(call'[c], outside')
  <2>1. ASSUME NEW c \in Calls PROVE RunHolds(call[c], outside')
    <3>1. /\ RunHolds(call[c], outside) /\ outside.head + 1 # outside.head
          /\ outside.head <= outside.head + 1 /\ outside.head + 1 \in Nat
      BY <1>0 DEF WikiInv
    <3>2. \A d \in Docs : outside.docs[d].edition <= outside'.docs[d].edition
      BY <1>0, <1>3 DEF DocState
    <3>3. QED
      BY <1>0, <1>3, <3>1, <3>2, RunStillHolds
  <2>2. QED
    BY <1>2, <2>1
<1>8. PublishedIsBuilt'
  BY <1>0, <1>2, <1>3 DEF WikiInv, WikiTypes, PublishedIsBuilt
<1>9. WikiForwardStep
  <2>1. ASSUME NEW q \in DOMAIN outside.pages, outside.pages[q].doc # Nowhere
        PROVE  ~(outside.pages[q].edition < outside.pages[q].edition)
    BY <2>1 DEF WikiInv, WikiTypes, PageSound
  <2>2. QED
    BY <1>4, <2>1 DEF WikiForwardStep
<1>10. QED
  BY <1>6, <1>7, <1>8, <1>9 DEF WikiInv

\* A run begins, or goes on or ends without a push: the wiki stays as it is.
LEMMA RunStep ==
    ASSUME WikiInv, NEW c \in Calls, NEW r, RunHolds(r, outside),
           outside' = outside, call' = [call EXCEPT ![c] = r],
           \/ log' = log
           \/ log'.head = outside.head /\ (log'.exit = 0 => PublishedIsBuilt')
    PROVE  WikiInv' /\ WikiForwardStep
<1>1. WikiTypes'
  <2>1. log'.head \in Int /\ log'.head <= outside.head
    BY DEF WikiInv, WikiTypes
  <2>2. DOMAIN call' = Calls
    BY DEF WikiInv, WikiTypes
  <2>3. QED
    BY <2>1, <2>2 DEF WikiInv, WikiTypes
<1>2. \A d \in Calls : RunHolds(call'[d], outside')
  BY DEF WikiInv, WikiTypes
<1>3. PublishedIsBuilt'
  BY DEF WikiInv, PublishedIsBuilt
<1>4. WikiForwardStep
  <2>1. ASSUME NEW p \in DOMAIN outside.pages, outside.pages[p].doc # Nowhere
        PROVE  ~(outside.pages[p].edition < outside.pages[p].edition)
    BY <2>1 DEF WikiInv, WikiTypes, PageSound
  <2>2. QED
    BY <2>1 DEF WikiForwardStep
<1>5. QED
  BY <1>1, <1>2, <1>3, <1>4 DEF WikiInv

LEMMA BuildStep ==
    ASSUME WikiAssumption, WikiInv, NEW c \in Calls, Build(c)
    PROVE  WikiInv' /\ WikiForwardStep
<1> DEFINE outputs == Outputs(outside.docs)
           r == [at |-> "built", outputs |-> outputs, seen |-> outside.head]
<1>1. outside' = outside /\ log' = log /\ call' = [call EXCEPT ![c] = r]
  BY DEF Build, Begins
<1>2. /\ DOMAIN outputs \cap Attachments = {}
      /\ \A q \in DOMAIN outputs :
            /\ PageSound(outputs[q], outside.docs)
            /\ outputs[q].doc # Nowhere => outputs[q].edition = outside.docs[outputs[q].doc].edition
  BY OutputsFacts DEF Build, WikiInv, WikiTypes
<1> HIDE DEF outputs
<1>3. NoneBehind(outside.pages, outputs)
  BY <1>2 DEF WikiInv, WikiTypes, PageSound, NoneBehind
<1>4. /\ r.at = "built" /\ r.outputs = outputs /\ r.seen = outside.head
  OBVIOUS
<1> HIDE DEF r
<1>5. RunHolds(r, outside)
  BY <1>2, <1>3, <1>4 DEF RunHolds, WikiInv, WikiTypes
<1>6. QED
  BY <1>1, <1>5, RunStep

LEMMA CloneStep ==
    ASSUME WikiInv, NEW c \in Calls, Clone(c)
    PROVE  WikiInv' /\ WikiForwardStep
<1> DEFINE o == call[c].outputs
<1>1. /\ outside' = outside /\ call[c].at = "built" /\ RunHolds(call[c], outside)
      /\ Attachments \subseteq DOMAIN outside.pages /\ outside.head \in Nat
  BY DEF Clone, WikiInv, WikiTypes
<1>2. DOMAIN o \cap Attachments = {}
  BY <1>1 DEF RunHolds
<1>8. Attachments \subseteq DOMAIN outside.pages
  BY <1>1
<1> HIDE DEF o
<1>7. /\ DOMAIN WritePages(outside.pages, o) = DOMAIN o \cup Attachments
      /\ \A p \in DOMAIN o : WritePages(outside.pages, o)[p] = o[p]
      /\ \A p \in Attachments : WritePages(outside.pages, o)[p] = outside.pages[p]
  BY <1>2, <1>8, WrittenFacts, Zenon
<1> DEFINE written == WritePages(outside.pages, o)
           r == [at |-> "committed", outputs |-> o, seen |-> call[c].seen,
                 base |-> outside.head, pages |-> written]
<1>3. /\ DOMAIN written = DOMAIN o \cup Attachments
      /\ \A p \in DOMAIN o : written[p] = o[p]
  BY <1>7
<1>4. CASE written = outside.pages
  <2>1. /\ call' = [call EXCEPT ![c] = Idle]
        /\ log' = [exit |-> 0, outputs |-> o, head |-> outside.head]
    BY <1>4 DEF Clone, Exits, Returns, GoesOn, o
  <2>2. log'.head = outside.head /\ log'.outputs = o
    BY <2>1
  <2> HIDE DEF written
  <2>3. PublishedIsBuilt'
    <3>1. outside'.pages = written /\ log'.outputs = o
      BY <1>1, <1>4, <2>2
    <3>2. DOMAIN written \ DOMAIN o = Attachments
      BY <1>2, <1>3
    <3>3. QED
      BY <1>3, <3>1, <3>2 DEF PublishedIsBuilt
  <2>4. RunHolds(Idle, outside)
    BY DEF RunHolds, Idle
  <2>5. QED
    BY <1>1, <2>1, <2>2, <2>3, <2>4, RunStep
<1>5. CASE written # outside.pages
  <2>1. call' = [call EXCEPT ![c] = r] /\ log' = log
    BY <1>5 DEF Clone, GoesOn, o
  <2>2. /\ r.at = "committed" /\ r.outputs = o /\ r.seen = call[c].seen
        /\ r.base = outside.head /\ r.pages = written
    OBVIOUS
  <2> HIDE DEF r
  <2>3. RunHolds(r, outside)
    BY <1>1, <2>2 DEF RunHolds, o
  <2>4. QED
    BY <1>1, <2>1, <2>3, RunStep
<1>6. QED
  BY <1>4, <1>5

LEMMA FailsStep ==
    ASSUME WikiInv, NEW c \in Calls, Fails(c)
    PROVE  WikiInv' /\ WikiForwardStep
<1>1. /\ outside' = outside /\ call' = [call EXCEPT ![c] = Idle]
      /\ log' = [exit |-> 1, outputs |-> call[c].outputs, head |-> outside.head]
  BY DEF Fails, Exits, Returns, GoesOn
<1>2. log'.exit = 1 /\ log'.head = outside.head
  BY <1>1
<1>3. RunHolds(Idle, outside)
  BY DEF RunHolds, Idle
<1>4. log'.head = outside.head /\ (log'.exit = 0 => PublishedIsBuilt')
  BY <1>2
<1>5. QED
  BY <1>1, <1>3, <1>4, RunStep

\* The commit is what was built, on top of the commit the wiki still has: no page is behind
\* the one it replaces, unless the wiki had changed between the build and the clone.
LEMMA PushStep ==
    ASSUME WikiInv, NEW c \in Calls, Push(c)
    PROVE  WikiInv' /\ WikiForwardStep
<1> DEFINE o == call[c].outputs
<1>0. /\ outside = [docs |-> outside.docs, head |-> outside.head, pages |-> outside.pages]
      /\ outside.docs \in [Docs -> DocState] /\ outside.head \in Nat
      /\ Attachments \subseteq DOMAIN outside.pages
      /\ DOMAIN call = Calls
  BY DEF WikiInv, WikiTypes
<1>1. /\ call[c].at = "committed" /\ RunHolds(call[c], outside) /\ call[c].base = outside.head
  BY DEF Push, WikiInv
<1>2. /\ DOMAIN o \cap Attachments = {}
      /\ \A q \in DOMAIN o : PageSound(o[q], outside.docs)
      /\ call[c].seen = outside.head => NoneBehind(outside.pages, o)
      /\ call[c].pages = WritePages(outside.pages, o)
  BY <1>1 DEF RunHolds
<1>3. /\ outside' = [outside EXCEPT !.head = @ + 1, !.pages = call[c].pages]
      /\ call' = [call EXCEPT ![c] = Idle]
      /\ log'.outputs = o /\ log'.head = outside.head + 1
  BY DEF Push, Exits, Returns, GoesOn
<1> HIDE DEF o
<1>4. /\ outside' = [docs |-> outside'.docs, head |-> outside'.head, pages |-> outside'.pages]
      /\ outside'.docs = outside.docs /\ outside'.head = outside.head + 1
      /\ outside'.pages = WritePages(outside.pages, o)
  BY <1>0, <1>2, <1>3
<1>5. /\ DOMAIN outside'.pages = DOMAIN o \cup Attachments
      /\ \A p \in DOMAIN o : outside'.pages[p] = o[p]
      /\ \A p \in Attachments : outside'.pages[p] = outside.pages[p]
  <2>1. /\ DOMAIN WritePages(outside.pages, o) = DOMAIN o \cup Attachments
        /\ \A p \in DOMAIN o : WritePages(outside.pages, o)[p] = o[p]
        /\ \A p \in Attachments : WritePages(outside.pages, o)[p] = outside.pages[p]
    BY <1>0, <1>2, WrittenFacts, Zenon
  <2>2. QED
    BY <1>4, <2>1
<1>6. \A p \in DOMAIN outside'.pages : PageSound(outside'.pages[p], outside'.docs)
  BY <1>0, <1>2, <1>4, <1>5 DEF WikiInv, WikiTypes
<1>7. WikiTypes'
  <2>1. Attachments \subseteq DOMAIN outside'.pages /\ DOMAIN call' = Calls
    BY <1>0, <1>3, <1>5
  <2>2. log'.head \in Int /\ log'.head <= outside'.head /\ outside'.head \in Nat
    BY <1>0, <1>3, <1>4
  <2>3. QED
    BY <1>0, <1>4, <1>6, <2>1, <2>2 DEF WikiTypes
<1>8. \A d \in Calls : RunHolds(call'[d], outside')
  <2>1. ASSUME NEW d \in Calls, d # c PROVE RunHolds(call[d], outside')
    <3>1. /\ RunHolds(call[d], outside) /\ outside.head + 1 # outside.head
          /\ outside.head <= outside.head + 1 /\ outside.head + 1 \in Nat
      BY <1>0 DEF WikiInv
    <3>2. \A e \in Docs : outside.docs[e].edition <= outside'.docs[e].edition
      BY <1>0, <1>4 DEF DocState
    <3>3. QED
      BY <1>0, <1>4, <3>1, <3>2, RunStillHolds
  <2>2. RunHolds(Idle, outside')
    BY DEF RunHolds, Idle
  <2>3. QED
    BY <1>0, <1>3, <2>1, <2>2
<1>9. PublishedIsBuilt'
  <2>1. DOMAIN outside'.pages \ DOMAIN o = Attachments
    BY <1>2, <1>5
  <2>2. QED
    BY <1>3, <1>5, <2>1 DEF PublishedIsBuilt
<1>10. WikiForwardStep
  <2>1. ASSUME call[c].seen = call[c].base,
               NEW p \in DOMAIN outside.pages \cap DOMAIN outside'.pages,
               outside.pages[p].doc = outside'.pages[p].doc, outside.pages[p].doc # Nowhere
        PROVE  ~(outside'.pages[p].edition < outside.pages[p].edition)
    <3>1. /\ outside.pages[p].edition \in Nat /\ outside'.pages[p].edition \in Nat
      BY <1>6, <2>1 DEF WikiInv, WikiTypes, PageSound
    <3>2. outside.pages[p].edition <= outside'.pages[p].edition
      <4>1. CASE p \in DOMAIN o
        BY <1>1, <1>2, <1>5, <2>1, <4>1 DEF NoneBehind
      <4>2. CASE p \in Attachments
        BY <1>5, <3>1, <4>2
      <4>3. QED
        BY <1>5, <2>1, <4>1, <4>2
    <3>3. QED
      BY <3>1, <3>2
  <2>2. QED
    BY <1>1, <2>1 DEF WikiForwardStep
<1>11. QED
  BY <1>7, <1>8, <1>9, <1>10 DEF WikiInv

LEMMA WikiRest ==
    ASSUME WikiInv, outside' = outside, call' = call, log' = log
    PROVE  WikiInv' /\ WikiForwardStep
<1>1. WikiInv'
  BY DEF WikiInv, WikiTypes, PublishedIsBuilt
<1>2. ASSUME NEW p \in DOMAIN outside.pages, outside.pages[p].doc # Nowhere
      PROVE  ~(outside.pages[p].edition < outside.pages[p].edition)
  BY <1>2 DEF WikiInv, WikiTypes, PageSound
<1>3. QED
  BY <1>1, <1>2 DEF WikiForwardStep

LEMMA WikiStep ==
    ASSUME WikiAssumption, WikiInv, [WikiNext]_clientVars
    PROVE  WikiInv' /\ WikiForwardStep
<1>1. CASE EditDocs
  BY <1>1, EditDocsStep
<1>2. CASE EditWiki
  BY <1>2, EditWikiStep
<1>3. CASE Preview
  BY <1>3, WikiRest DEF Preview, Called
<1>4. ASSUME NEW c \in Calls, Build(c) PROVE WikiInv' /\ WikiForwardStep
  BY <1>4, BuildStep
<1>5. ASSUME NEW c \in Calls, Clone(c) PROVE WikiInv' /\ WikiForwardStep
  BY <1>5, CloneStep
<1>6. ASSUME NEW c \in Calls, Push(c) PROVE WikiInv' /\ WikiForwardStep
  BY <1>6, PushStep
<1>7. ASSUME NEW c \in Calls, Fails(c) PROVE WikiInv' /\ WikiForwardStep
  BY <1>7, FailsStep
<1>8. CASE UNCHANGED clientVars
  BY <1>8, WikiRest DEF clientVars
<1>9. QED
  BY <1>1, <1>2, <1>3, <1>4, <1>5, <1>6, <1>7, <1>8 DEF WikiNext

\* After a run of the publisher that succeeded the wiki is what was built, down to the last
\* page, until somebody edits it; attachments stay (writePages with prune in export-wiki.mjs).
THEOREM WikiIsWhatWasBuilt ==
    ASSUME WikiAssumption
    PROVE  WikiSpec => []PublishedIsBuilt
<1>1. WikiInit => WikiInv
  BY WikiInitially
<1>2. WikiInv /\ [WikiNext]_clientVars => WikiInv'
  BY WikiStep
<1>3. WikiInv => PublishedIsBuilt
  BY DEF WikiInv
<1>4. QED
  BY <1>1, <1>2, <1>3, PTL DEF WikiSpec

\* A page goes back to an older edition of its document only in a push of what was built
\* before another run or an editor changed the wiki (steps 1 and 2 of export-wiki.mjs).
THEOREM WikiGoesForward ==
    ASSUME WikiAssumption
    PROVE  WikiSpec => [][WikiForwardStep]_clientVars
<1>1. WikiInit => WikiInv
  BY WikiInitially
<1>2. WikiInv /\ [WikiNext]_clientVars => WikiInv'
  BY WikiStep
<1>3. WikiInv /\ [WikiNext]_clientVars => [WikiForwardStep]_clientVars
  BY WikiStep
<1>4. QED
  BY <1>1, <1>2, <1>3, PTL DEF WikiSpec

\* No document is the sidebar, and a link's path may mean documents.
LinksAssumption ==
    /\ \A d \in Docs : PageOf[d] # "_Sidebar"
    /\ \A d \in Docs : \A l \in Links[d] : l.candidates \in Seq(Docs)

\* A page that one document has is that document's, and every document has a page.
LEMMA PageFacts ==
    ASSUME WikiAssumption, LinksAssumption, NEW docs \in [Docs -> DocState],
           NEW d \in There(docs)
    PROVE  /\ PageOf[d] \in DOMAIN Outputs(docs)
           /\ PageOf[d] # "Home" /\ (\A e \in There(docs) \ {d} : PageOf[e] # PageOf[d]) =>
                 Outputs(docs)[PageOf[d]] = Converted(d, docs)
<1> DEFINE pages == DocPages(docs)
           home == IF Index \in There(docs) THEN [Home |-> pages[PageOf[Index]]] ELSE <<>>
           side == [_Sidebar |-> BuildSidebar(docs)]
           lower == Over(home, pages)
<1>1. d \in Docs /\ PageOf[d] # "_Sidebar"
  BY DEF There, LinksAssumption
<1>2. DOMAIN pages = {PageOf[e] : e \in There(docs)}
  BY DEF DocPages
<1>3. DOMAIN side = {"_Sidebar"} /\ DOMAIN home \subseteq {"Home"}
  <2>1. DOMAIN [Home |-> pages[PageOf[Index]]] = {"Home"} /\ DOMAIN <<>> = {}
    OBVIOUS
  <2>2. QED
    BY <2>1
<1>4. Outputs(docs) = Over(side, lower)
  BY DEF Outputs
<1>5. ASSUME \A e \in There(docs) \ {d} : PageOf[e] # PageOf[d]
      PROVE  pages[PageOf[d]] = Converted(d, docs)
  <2>1. pages[PageOf[d]] = Converted(Max({e \in There(docs) : PageOf[e] = PageOf[d]}), docs)
    BY DEF DocPages
  <2>2. {e \in There(docs) : PageOf[e] = PageOf[d]} = {d}
    BY <1>5
  <2>3. Max({d}) = d
    <3>1. d \in Nat
      BY <1>1 DEF Docs, WikiAssumption
    <3>2. QED
      BY <3>1 DEF Max
  <2>4. QED
    BY <2>1, <2>2, <2>3
<1> HIDE DEF side, home, pages
<1>6. /\ DOMAIN lower = DOMAIN home \cup DOMAIN pages
      /\ \A q \in DOMAIN pages \ DOMAIN home : lower[q] = pages[q]
  BY CombinedFacts
<1> HIDE DEF lower
<1>7. /\ DOMAIN Over(side, lower) = DOMAIN side \cup DOMAIN lower
      /\ \A q \in DOMAIN lower \ DOMAIN side : Over(side, lower)[q] = lower[q]
  BY CombinedFacts
<1>8. PageOf[d] \in DOMAIN pages
  BY <1>2
<1>9. QED
  BY <1>1, <1>3, <1>4, <1>5, <1>6, <1>7, <1>8

\* A link goes to a page of a document that is there, and to the one its path names.
LEMMA TargetFacts ==
    ASSUME WikiAssumption, LinksAssumption, NEW docs, NEW d \in Docs, NEW l \in Links[d]
    PROVE  /\ Meant(l, docs) # None => /\ Meant(l, docs) \in There(docs)
                                       /\ ResolveTarget(l, docs) = PageOf[Meant(l, docs)]
           /\ ResolveTarget(l, docs) # "none" =>
                 \E e \in There(docs) : ResolveTarget(l, docs) = PageOf[e]
<1> DEFINE found == {i \in DOMAIN l.candidates : l.candidates[i] \in There(docs)}
           named == {e \in There(docs) : l.name \in {BareName[e], PageOf[e]}}
<1>1. Meant(l, docs) = IF found = {} THEN None ELSE l.candidates[Min(found)]
  BY DEF Meant
<1>2. found \in SUBSET Nat
  BY DEF LinksAssumption
<1>3. ASSUME Meant(l, docs) # None PROVE Meant(l, docs) \in There(docs)
  <2> HIDE DEF found
  <2>1. Min(found) \in found
    BY <1>1, <1>2, <1>3, MinFacts
  <2>2. QED
    BY <1>1, <1>3, <2>1 DEF found
<1>4. named \in SUBSET Nat /\ named \subseteq There(docs)
  BY DEF There, Docs, WikiAssumption
<1>5. ByName(l.name, docs) = IF named = {} THEN "none" ELSE PageOf[Min(named)]
  BY DEF ByName
<1> HIDE DEF found, named
<1>6. named # {} => Min(named) \in There(docs)
  BY <1>4, MinFacts
<1>7. ResolveTarget(l, docs)
        = IF Meant(l, docs) # None THEN PageOf[Meant(l, docs)] ELSE ByName(l.name, docs)
  BY DEF ResolveTarget
<1>8. QED
  BY <1>3, <1>5, <1>6, <1>7

LEMMA PagesHold ==
    ASSUME WikiAssumption, LinksAssumption, outside.docs \in [Docs -> DocState]
    PROVE  PagesComplete
<1> DEFINE docs == outside.docs
           pages == Outputs(docs)
           Alone(d) == PageOf[d] # "Home" /\ \A e \in There(docs) \ {d} : PageOf[e] # PageOf[d]
<1>1. There(docs) \subseteq Docs
  BY DEF There
<1>2. ASSUME NEW d \in There(docs), Alone(d)
      PROVE  pages[PageOf[d]] = Converted(d, docs)
  BY <1>2, PageFacts
<1>3. ASSUME NEW d \in There(docs)
      PROVE  /\ Converted(d, docs).doc = d
             /\ \A l \in Links[d] : Converted(d, docs).links[l] = ResolveTarget(l, docs)
  BY DEF Converted
<1>4. ASSUME NEW d \in There(docs), Alone(d), NEW l \in Links[d]
      PROVE  LET page == pages[PageOf[d]].links[l] IN
             /\ page # "none" => page \in DOMAIN pages
             /\ Meant(l, docs) # None /\ Alone(Meant(l, docs)) => pages[page].doc = Meant(l, docs)
  <2>1. pages[PageOf[d]].links[l] = ResolveTarget(l, docs)
    <3> HIDE DEF pages, Alone
    <3>1. QED
      BY <1>2, <1>3, <1>4
  <2>2. ResolveTarget(l, docs) # "none" => ResolveTarget(l, docs) \in DOMAIN pages
    BY <1>1, TargetFacts, PageFacts
  <2>3. ASSUME Meant(l, docs) # None, Alone(Meant(l, docs))
        PROVE  pages[ResolveTarget(l, docs)].doc = Meant(l, docs)
    <3>1. Meant(l, docs) \in There(docs) /\ ResolveTarget(l, docs) = PageOf[Meant(l, docs)]
      BY <1>1, <2>3, TargetFacts
    <3>2. pages[PageOf[Meant(l, docs)]] = Converted(Meant(l, docs), docs)
      BY <1>2, <2>3, <3>1
    <3>3. QED
      BY <1>3, <3>1, <3>2
  <2> HIDE DEF pages
  <2>4. QED
    BY <2>1, <2>2, <2>3
<1>5. ASSUME NEW d \in There(docs), Alone(d) PROVE pages[PageOf[d]].doc = d
  <2> HIDE DEF pages, Alone
  <2>1. QED
    BY <1>2, <1>3, <1>5
<1>6. QED
  BY <1>4, <1>5 DEF PagesComplete

LEMMA WikiInvImplies ==
    ASSUME WikiAssumption, LinksAssumption, WikiInv
    PROVE  PublishedIsBuilt /\ PagesComplete
BY PagesHold DEF WikiInv, WikiTypes

\* Every document is under its page unless it shares it, and a link that was rewritten leads
\* to a page there is, and to the document its path names unless that one shares its page
\* (export-wiki.mjs).
THEOREM LinksLeadToPages ==
    ASSUME WikiAssumption, LinksAssumption
    PROVE  WikiSpec => []PagesComplete
<1>1. WikiInit => WikiInv
  BY WikiInitially
<1>2. WikiInv /\ [WikiNext]_clientVars => WikiInv'
  BY WikiStep
<1>3. WikiInv => PagesComplete
  BY WikiInvImplies
<1>4. QED
  BY <1>1, <1>2, <1>3, PTL DEF WikiSpec

-----------------------------------------------------------------------------
(* The store of the front end *)

FrontendSpec == FrontendInit /\ [][FrontendNext]_clientVars

Entry == [status : {"none", "asking", "answering", "fulfilled", "rejected"},
          data : Nat \cup {None}, seen : Nat \cup {None}, tagged : BOOLEAN]
Slice == [loading : BOOLEAN, error : BOOLEAN]
FrontendMemory ==
    [slices : [Slices -> Slice], cache : [Queries -> Entry], used : SUBSET Queries,
     tags : SUBSET UNION {Invalidates[m] : m \in Mutations}, mutations : Nat]
Mutating == [at : {"changing", "changed"}, mutation : Mutations]

FrontendTypes ==
    /\ memory \in FrontendMemory
    /\ outside \in [Queries -> Nat]
    /\ log \in [promised : [Queries -> Nat], failed : BOOLEAN, signedOut : BOOLEAN]
    /\ call \in [Calls -> {Idle} \cup Mutating]

Asking == {c \in Calls : call[c] # Idle}

\* What query q has, or is about to have, is what was promised of it, or a tag of it waits.
Keeps(m, promised, q) ==
    LET entry == m.cache[q]
        hit == Provides[q] \cap m.tags # {} IN
    /\ entry.status = "fulfilled" => entry.tagged /\ (entry.data >= promised[q] \/ hit)
    /\ entry.status = "answering" => entry.seen >= promised[q] \/ hit

Rests(m) ==
    /\ m.tags # {} => UnderWay(m)
    /\ UnderWay(m) \/ \A s \in Slices : ~m.slices[s].loading

FrontendInv ==
    /\ FrontendTypes
    /\ memory.mutations = Cardinality(Asking)
    /\ \A q \in Queries : log.promised[q] <= outside[q] /\ Keeps(memory, log.promised, q)
    /\ Rests(memory)

LEMMA TagsFacts ==
    \A m \in Mutations : \A q \in SeenIn(m) : q \in Queries /\ Provides[q] \cap Invalidates[m] # {}
<1> SUFFICES ASSUME NEW m \in Mutations, NEW q \in SeenIn(m)
             PROVE  q \in Queries /\ Provides[q] \cap Invalidates[m] # {}
  OBVIOUS
<1>1. q \in Queries
  BY DEF SeenIn
<1> USE DEF Provides, Over, OrganizationProvides, UserProvides, FinanceProvides, SyncProvides,
            Invalidates, OrganizationInvalidates, UserInvalidates, FinanceInvalidates,
            SyncInvalidates
<1>2. CASE m \in {"createTransaction", "compensateTransaction", "deleteTransaction"}
  <2>1. q = "getTransactions"
    BY <1>2 DEF SeenIn
  <2>2. Provides[q] = {Tag("Transaction", "LIST")}
    BY <2>1
  <2>3. Tag("Transaction", "LIST") \in Invalidates[m]
    BY <1>2
  <2> QED BY <1>1, <2>2, <2>3
<1>3. CASE m \in {"updateTransaction", "transitionTransactionState"}
  <2>1. q = "getTransactionById"
    BY <1>3 DEF SeenIn
  <2>2. Provides[q] = {Tag("Transaction", "item")}
    BY <2>1
  <2>3. Tag("Transaction", "item") \in Invalidates[m]
    BY <1>3
  <2> QED BY <1>1, <2>2, <2>3
<1>4. CASE m = "login"
  <2>1. q = "getMe"
    BY <1>4 DEF SeenIn
  <2>2. Provides[q] = {Tag("User", "CURRENT")}
    BY <2>1
  <2>3. Tag("User", "CURRENT") \in Invalidates[m]
    BY <1>4
  <2> QED BY <1>1, <2>2, <2>3
<1>5. CASE m = "createOrgUnit"
  <2>1. q = "listOrganizationUnits"
    BY <1>5 DEF SeenIn
  <2>2. Provides[q] = {Tag("OrgUnit", "org")}
    BY <2>1
  <2>3. Tag("OrgUnit", "org") \in Invalidates[m]
    BY <1>5
  <2> QED BY <1>1, <2>2, <2>3
<1>6. CASE m \in {"archiveOrganization", "suspendOrganization"}
  <2>1. q = "getOrganizationProfile" \/ q = "getOrgHierarchy"
    BY <1>6 DEF SeenIn
  <2>2. Provides[q] = {Tag("Organization", "org")}
    BY <2>1
  <2>3. Tag("Organization", "org") \in Invalidates[m]
    BY <1>6
  <2> QED BY <1>1, <2>2, <2>3
<1>7. CASE m \in {"pushPendingOps", "clearSyncStatus"}
  <2>1. q = "getPendingOperations" \/ q = "getSyncStatusTracker"
    BY <1>7 DEF SeenIn
  <2>2. Provides[q] = {IF q = "getPendingOperations" THEN Tag("Sync", "PENDING") ELSE Tag("Sync", "TRACKER")}
    BY <2>1
  <2>3. Invalidates[m] = {Tag("Sync", "PENDING"), Tag("Sync", "TRACKER")}
    BY <1>7
  <2> QED BY <1>1, <2>1, <2>2, <2>3
<1>8. QED  BY <1>2, <1>3, <1>4, <1>5, <1>6, <1>7 DEF SeenIn

LEMMA SettledFacts ==
    ASSUME NEW m \in FrontendMemory, NEW promised \in [Queries -> Nat],
           \A q \in Queries : Keeps(m, promised, q),
           UnderWay(m) \/ \A s \in Slices : ~m.slices[s].loading
    PROVE  LET n == Settled(m) IN
           /\ n \in FrontendMemory /\ n.mutations = m.mutations
           /\ \A q \in Queries : Keeps(n, promised, q)
           /\ Rests(n)
<1> DEFINE n == Settled(m)
           hit == {q \in Queries : m.cache[q].tagged /\ Provides[q] \cap m.tags # {}}
           again == hit \cap m.used
<1>1. CASE UnderWay(m)
  BY <1>1 DEF Settled, Rests
<1>2. CASE ~UnderWay(m)
  <2>1. n = [m EXCEPT
                !.tags = {},
                !.cache = [q \in Queries |->
                             IF q \in again THEN [m.cache[q] EXCEPT !.status = "asking"]
                             ELSE IF q \in hit THEN NotAsked ELSE m.cache[q]],
                !.slices = IF again # {} THEN OnPending(m.slices) ELSE @]
    BY <1>2 DEF Settled
  <2> HIDE DEF n
  <2>2. /\ n.tags = {} /\ n.used = m.used /\ n.mutations = m.mutations
        /\ n.slices = IF again # {} THEN OnPending(m.slices) ELSE m.slices
        /\ n.cache = [q \in Queries |->
                             IF q \in again THEN [m.cache[q] EXCEPT !.status = "asking"]
                             ELSE IF q \in hit THEN NotAsked ELSE m.cache[q]]
    BY <2>1 DEF FrontendMemory
  <2>3. n \in FrontendMemory
    <3>1. NotAsked \in Entry
      BY DEF NotAsked, Entry
    <3>2. \A q \in Queries : n.cache[q] \in Entry
      BY <2>2, <3>1 DEF FrontendMemory, Entry
    <3>3. OnPending(m.slices) \in [Slices -> Slice]
      BY DEF OnPending, FrontendMemory, Slice
    <3>4. DOMAIN n = DOMAIN m /\ n = [n EXCEPT !.tags = n.tags]
      BY <2>1 DEF FrontendMemory
    <3> QED BY <2>1, <2>2, <3>2, <3>3 DEF FrontendMemory
  <2>4. \A q \in Queries : Keeps(n, promised, q)
    <3> SUFFICES ASSUME NEW q \in Queries PROVE Keeps(n, promised, q)
      OBVIOUS
    <3>1. m.cache[q] \in Entry /\ Keeps(m, promised, q)
      BY DEF FrontendMemory
    <3>2. CASE q \in again
      BY <2>2, <3>1, <3>2 DEF Keeps, Entry
    <3>3. CASE q \in hit \ again
      BY <2>2, <3>1, <3>3 DEF Keeps, NotAsked
    <3>4. CASE q \notin hit
      <4>1. n.cache[q] = m.cache[q] /\ m.cache[q].status # "answering"
        BY <1>2, <2>2, <3>4 DEF UnderWay
      <4> QED BY <3>1, <3>4, <4>1 DEF Keeps
    <3> QED BY <3>2, <3>3, <3>4
  <2>5. Rests(n)
    <3>1. CASE again = {}
      BY <1>2, <2>2, <3>1 DEF Rests
    <3>2. CASE again # {}
      <4>1. PICK q \in again : TRUE
        BY <3>2
      <4>2. n.cache[q].status = "asking"
        BY <2>2, <4>1 DEF FrontendMemory, Entry
      <4> QED BY <2>2, <4>2 DEF Rests, UnderWay
    <3> QED BY <3>1, <3>2
  <2> QED BY <2>2, <2>3, <2>4, <2>5 DEF n
<1> QED BY <1>1, <1>2

\* The mutations of finitely many calls are counted.
FrontendAssumption == IsFiniteSet(Calls)

LEMMA FrontendInitially == ASSUME FrontendAssumption, FrontendInit PROVE FrontendInv
<1> USE DEF FrontendInit, ClientInit, NotAsked
<1>1. FrontendTypes
  BY DEF FrontendTypes, FrontendMemory, Entry, Slice
<1>2. Asking = {} /\ Cardinality({}) = 0
  BY FS_EmptySet DEF Asking
<1> QED BY <1>1, <1>2 DEF FrontendInv, Keeps, Rests

\* What a call that begins or returns makes of the calls under way
LEMMA AskingFacts ==
    ASSUME FrontendAssumption, FrontendTypes, NEW c \in Calls
    PROVE  /\ IsFiniteSet(Asking) /\ Cardinality(Asking) \in Nat
           /\ call[c] # Idle => Cardinality(Asking) # 0
           /\ \A step \in Mutating :
                 step # Idle /\ (call' = [call EXCEPT ![c] = step] =>
                    Asking' = Asking \cup {c}
                    /\ Cardinality(Asking') = Cardinality(Asking) + IF call[c] = Idle THEN 1 ELSE 0)
           /\ call[c] # Idle /\ call' = [call EXCEPT ![c] = Idle] =>
                 Asking' = Asking \ {c} /\ Cardinality(Asking') = Cardinality(Asking) - 1
<1>1. IsFiniteSet(Asking)
  BY FS_Subset DEF FrontendAssumption, Asking
<1>2. \A step \in Mutating : step # Idle
  BY DEF Mutating, Idle
<1>3. \A step : call' = [call EXCEPT ![c] = step] =>
          Asking' = IF step = Idle THEN Asking \ {c} ELSE Asking \cup {c}
  BY DEF Asking, FrontendTypes
<1>4. c \in Asking <=> call[c] # Idle
  BY DEF Asking
<1>5. Cardinality(Asking) \in Nat
  BY <1>1, FS_CardinalityType
<1>6. Cardinality(Asking \cup {c}) = Cardinality(Asking) + IF call[c] = Idle THEN 1 ELSE 0
  <2>1. CASE c \in Asking
    <3>1. Asking \cup {c} = Asking
      BY <2>1
    <3> QED BY <1>4, <1>5, <2>1, <3>1
  <2>2. CASE c \notin Asking
    BY <1>1, <1>4, <2>2, FS_AddElement
  <2> QED BY <2>1, <2>2
<1>7. call[c] # Idle => Cardinality(Asking \ {c}) = Cardinality(Asking) - 1
  BY <1>1, <1>4, FS_RemoveElement
<1>8. call[c] # Idle => Cardinality(Asking) # 0
  BY <1>1, <1>4, FS_EmptySet
<1> QED BY <1>1, <1>2, <1>3, <1>5, <1>6, <1>7, <1>8

\* A request that ends, with m what the store makes of it before the waiting tags are acted on
LEMMA SettlesStep ==
    ASSUME FrontendInv, NEW m \in FrontendMemory, memory' = Settled(m),
           log' \in [promised : [Queries -> Nat], failed : BOOLEAN, signedOut : BOOLEAN],
           \A q \in Queries : Keeps(m, log'.promised, q) /\ log'.promised[q] <= outside[q],
           \A s \in Slices : ~m.slices[s].loading,
           UNCHANGED outside, call' \in [Calls -> {Idle} \cup Mutating],
           m.mutations = Cardinality(Asking')
    PROVE  FrontendInv'
<1>1. /\ memory' \in FrontendMemory /\ memory'.mutations = m.mutations
      /\ \A q \in Queries : Keeps(memory', log'.promised, q)
      /\ Rests(memory')
  <2>1. log'.promised \in [Queries -> Nat]
    OBVIOUS
  <2> QED BY <2>1, SettledFacts
<1>2. FrontendTypes'
  BY <1>1 DEF FrontendInv, FrontendTypes
<1> QED BY <1>1, <1>2 DEF FrontendInv

LEMMA UseQueryStep ==
    ASSUME FrontendInv, NEW q \in Queries, UseQuery(q) PROVE FrontendInv'
<1> DEFINE entry == memory.cache[q]
           cached == entry.status \in {"asking", "answering"} \/ entry.data # None
<1>1. entry \in Entry
  BY DEF FrontendInv, FrontendTypes, FrontendMemory
<1>2. UNCHANGED <<outside, log, call, Asking>>
  BY DEF UseQuery, Called, Asking
<1>3. memory' = [memory EXCEPT
              !.used = @ \cup {q},
              !.slices = IF cached THEN OnRejected ELSE OnPending(@),
              !.cache[q].status = IF cached THEN @ ELSE "asking"]
  BY DEF UseQuery
<1> HIDE DEF cached
<1>4. /\ OnRejected \in [Slices -> Slice] /\ OnPending(memory.slices) \in [Slices -> Slice]
  BY DEF OnRejected, OnPending, Slice, FrontendInv, FrontendTypes, FrontendMemory
<1>5. memory' \in FrontendMemory
  BY <1>1, <1>3, <1>4 DEF FrontendInv, FrontendTypes, FrontendMemory, Entry
<1>6. /\ memory'.tags = memory.tags /\ memory'.mutations = memory.mutations
      /\ memory'.slices = IF cached THEN OnRejected ELSE OnPending(memory.slices)
      /\ \A p \in Queries : memory'.cache[p] =
            IF p = q /\ ~cached THEN [entry EXCEPT !.status = "asking"] ELSE memory.cache[p]
  BY <1>1, <1>3 DEF FrontendInv, FrontendTypes, FrontendMemory, Entry
<1>7. \A p \in Queries : Keeps(memory', log.promised, p)
  BY <1>1, <1>6 DEF FrontendInv, Keeps, Entry
<1>8. Rests(memory')
  <2>1. CASE cached
    BY <1>6, <2>1 DEF FrontendInv, Rests, UnderWay, OnRejected
  <2>2. CASE ~cached
    <3>1. memory'.cache[q].status = "asking"
      BY <1>1, <1>6, <2>2 DEF Entry
    <3> QED BY <3>1 DEF Rests, UnderWay
  <2> QED BY <2>1, <2>2
<1> QED BY <1>2, <1>5, <1>6, <1>7, <1>8 DEF FrontendInv, FrontendTypes

\* A component or a cached entry goes, or the server reads what it answers.
LEMMA EntryStep ==
    ASSUME FrontendInv, NEW q \in Queries, Unuse(q) \/ Unkept(q) \/ Answers(q)
    PROVE  FrontendInv'
<1>1. UNCHANGED <<outside, log, call, Asking>>
  BY DEF Unuse, Unkept, Answers, Called, Asking
<1>2. memory.cache[q] \in Entry /\ outside[q] \in Nat /\ log.promised[q] <= outside[q]
  BY DEF FrontendInv, FrontendTypes, FrontendMemory
<1>3. NotAsked \in Entry
  BY DEF NotAsked, Entry
<1>4. memory \in FrontendMemory
  BY DEF FrontendInv, FrontendTypes
<1> DEFINE answering == [memory.cache[q] EXCEPT !.status = "answering", !.seen = outside[q]]
           From(old, new) ==
               \/ new = old
               \/ old.status \in {"fulfilled", "rejected"} /\ new = NotAsked
               \/ old.status = "asking" /\ new = answering
<1>5. /\ memory' \in FrontendMemory
      /\ memory'.tags = memory.tags /\ memory'.mutations = memory.mutations
      /\ memory'.slices = memory.slices
      /\ \A p \in Queries \ {q} : memory'.cache[p] = memory.cache[p]
      /\ From(memory.cache[q], memory'.cache[q])
  <2>1. CASE Unuse(q)
    BY <1>4, <2>1 DEF Unuse, FrontendMemory
  <2>2. CASE Unkept(q)
    BY <1>3, <1>4, <2>2 DEF Unkept, FrontendMemory
  <2>3. CASE Answers(q)
    <3>1. answering \in Entry
      BY <1>2 DEF Entry
    <3>2. memory.cache[q].status = "asking" /\ memory' = [memory EXCEPT !.cache[q] = answering]
      <4>1. /\ memory.cache[q].status = "asking"
            /\ memory' = [memory EXCEPT !.cache[q].status = "answering", !.cache[q].seen = outside[q]]
        BY <2>3 DEF Answers
      <4>2. memory'.cache = [memory.cache EXCEPT ![q] = answering]
        BY <1>2, <1>4, <4>1 DEF FrontendMemory, Entry
      <4>3. memory' = [memory EXCEPT !.cache = memory'.cache]
        BY <1>4, <4>1 DEF FrontendMemory
      <4> QED BY <1>4, <4>1, <4>2, <4>3 DEF FrontendMemory
    <3> HIDE DEF answering
    <3> QED BY <1>4, <3>1, <3>2 DEF FrontendMemory
  <2> QED BY <2>1, <2>2, <2>3
<1>6. \A p \in Queries : Keeps(memory', log.promised, p)
  <2> SUFFICES ASSUME NEW p \in Queries PROVE Keeps(memory', log.promised, p)
    OBVIOUS
  <2>1. Keeps(memory, log.promised, p)
    BY DEF FrontendInv
  <2>2. CASE memory'.cache[p] = memory.cache[p]
    BY <1>5, <2>1, <2>2 DEF Keeps
  <2>3. CASE p = q /\ memory'.cache[q] = NotAsked
    BY <2>3 DEF Keeps, NotAsked
  <2>4. CASE p = q /\ memory'.cache[q] = answering
    <3>1. memory'.cache[q].status = "answering" /\ memory'.cache[q].seen = outside[q]
      BY <1>2, <2>4 DEF Entry
    <3> QED BY <1>2, <2>4, <3>1 DEF Keeps
  <2> QED BY <1>5, <2>2, <2>3, <2>4
<1>7. Rests(memory')
  <2>1. memory'.cache[q].status \in {"asking", "answering"} <=>
           memory.cache[q].status \in {"asking", "answering"}
    <3>1. CASE memory'.cache[q] = NotAsked /\ memory.cache[q].status \in {"fulfilled", "rejected"}
      BY <3>1 DEF NotAsked
    <3>2. CASE memory'.cache[q] = answering /\ memory.cache[q].status = "asking"
      BY <1>2, <3>2 DEF Entry
    <3> QED BY <1>5, <3>1, <3>2
  <2>2. UnderWay(memory') <=> UnderWay(memory)
    <3>1. \A p \in Queries : memory'.cache[p].status \in {"asking", "answering"} <=>
                             memory.cache[p].status \in {"asking", "answering"}
      BY <1>5, <2>1
    <3> HIDE DEF From
    <3> QED BY <1>5, <3>1 DEF UnderWay
  <2> QED BY <1>5, <2>2 DEF FrontendInv, Rests
<1> QED BY <1>1, <1>5, <1>6, <1>7 DEF FrontendInv, FrontendTypes

LEMMA QueryEnds ==
    ASSUME FrontendInv, NEW q \in Queries,
           QueryFulfilled(q) \/ \E ok \in BOOLEAN : QueryRejected(q, ok)
    PROVE  FrontendInv'
<1> DEFINE entry == memory.cache[q]
<1>1. entry \in Entry /\ entry.status = "answering" /\ Keeps(memory, log.promised, q)
  BY DEF FrontendInv, FrontendTypes, FrontendMemory, QueryFulfilled, QueryRejected
<1>2. UNCHANGED <<outside, call, Asking>> /\ memory \in FrontendMemory
  BY DEF QueryFulfilled, QueryRejected, Asking, FrontendInv, FrontendTypes
<1>3. log' \in [promised : [Queries -> Nat], failed : BOOLEAN, signedOut : BOOLEAN]
      /\ log'.promised = log.promised
  BY DEF QueryFulfilled, QueryRejected, FrontendInv, FrontendTypes
<1> DEFINE Before(m) ==
        /\ memory' = Settled(m) /\ \A s \in Slices : ~m.slices[s].loading
        /\ m.mutations = memory.mutations /\ m.tags = memory.tags
        /\ \A p \in Queries \ {q} : m.cache[p] = memory.cache[p]
        /\ m.cache[q].status # "answering"
        /\ m.cache[q].status = "fulfilled" => m.cache[q].tagged /\ m.cache[q].data = entry.seen
<1>4. \E m \in FrontendMemory : Before(m)
  <2>1. CASE QueryFulfilled(q)
    <3> DEFINE after == [status |-> "fulfilled", data |-> entry.seen, seen |-> None, tagged |-> TRUE]
               m == [memory EXCEPT !.cache[q] = after, !.slices = OnFulfilled(@, q)]
    <3>1. after \in Entry
      BY <1>1 DEF Entry
    <3>2. OnFulfilled(memory.slices, q) \in [Slices -> Slice]
          /\ \A s \in Slices : ~OnFulfilled(memory.slices, q)[s].loading
      BY <1>2 DEF OnFulfilled, EndsLoading, RequestType, FrontendMemory, Slice
    <3>3. m \in FrontendMemory
      BY <1>2, <3>1, <3>2 DEF FrontendMemory
    <3>4. /\ m.mutations = memory.mutations /\ m.tags = memory.tags
          /\ \A p \in Queries \ {q} : m.cache[p] = memory.cache[p]
          /\ m.cache[q] = after /\ m.slices = OnFulfilled(memory.slices, q)
      BY <1>2 DEF FrontendMemory
    <3>5. memory' = Settled(m)
      BY <2>1 DEF QueryFulfilled
    <3> HIDE DEF m
    <3> QED BY <3>2, <3>3, <3>4, <3>5
  <2>2. ASSUME NEW ok \in BOOLEAN, QueryRejected(q, ok) PROVE \E n \in FrontendMemory : Before(n)
    <3> DEFINE after == [entry EXCEPT !.status = "rejected", !.seen = None, !.tagged = @ \/ ok]
               m == [memory EXCEPT !.cache[q] = after, !.slices = OnRejected]
    <3>1. after \in Entry /\ after.status = "rejected"
      BY <1>1 DEF Entry
    <3>2. OnRejected \in [Slices -> Slice] /\ \A s \in Slices : ~OnRejected[s].loading
      BY DEF OnRejected, Slice
    <3>3. m \in FrontendMemory
      BY <1>2, <3>1, <3>2 DEF FrontendMemory
    <3>4. /\ m.mutations = memory.mutations /\ m.tags = memory.tags
          /\ \A p \in Queries \ {q} : m.cache[p] = memory.cache[p]
          /\ m.cache[q] = after /\ m.slices = OnRejected
      BY <1>2 DEF FrontendMemory
    <3>5. memory' = Settled(m)
      BY <2>2 DEF QueryRejected
    <3> HIDE DEF m, after
    <3> QED BY <3>1, <3>2, <3>3, <3>4, <3>5
  <2> QED BY <2>1, <2>2
<1>5. PICK m \in FrontendMemory : Before(m)
  BY <1>4
<1>6. \A p \in Queries : Keeps(m, log.promised, p)
  BY <1>1, <1>5 DEF FrontendInv, Keeps
<1>7. call' \in [Calls -> {Idle} \cup Mutating] /\ m.mutations = Cardinality(Asking')
      /\ \A p \in Queries : log.promised[p] <= outside[p]
  BY <1>2, <1>5 DEF FrontendInv, FrontendTypes
<1> QED BY <1>2, <1>3, <1>5, <1>6, <1>7, SettlesStep

LEMMA MutateStep ==
    ASSUME FrontendAssumption, FrontendInv, NEW c \in Calls, NEW m \in Mutations, Mutate(c, m)
    PROVE  FrontendInv'
<1> DEFINE step == [at |-> "changing", mutation |-> m]
<1>1. step \in Mutating
  BY DEF Mutating
<1>2. call[c] = Idle /\ call' = [call EXCEPT ![c] = step] /\ UNCHANGED <<outside, log>>
      /\ memory' = [memory EXCEPT !.mutations = @ + 1, !.slices = OnPending(@)]
  BY DEF Mutate, Begins
<1>3. Cardinality(Asking') = Cardinality(Asking) + 1
  BY <1>1, <1>2, AskingFacts DEF FrontendInv
<1>4. call' \in [Calls -> {Idle} \cup Mutating]
  BY <1>1, <1>2 DEF FrontendInv, FrontendTypes
<1>5. OnPending(memory.slices) \in [Slices -> Slice]
  BY DEF OnPending, Slice, FrontendInv, FrontendTypes, FrontendMemory
<1>6. memory' \in FrontendMemory /\ memory'.tags = memory.tags /\ memory'.cache = memory.cache
      /\ memory'.mutations = memory.mutations + 1 /\ memory.mutations \in Nat
  <2>1. memory \in FrontendMemory
    BY DEF FrontendInv, FrontendTypes
  <2> HIDE DEF step
  <2>2. memory.mutations \in Nat /\ memory.mutations + 1 \in Nat
    BY <2>1 DEF FrontendMemory
  <2> DEFINE count == memory.mutations + 1
             slices == OnPending(memory.slices)
  <2>3. memory' = [memory EXCEPT !.mutations = count, !.slices = slices]
    BY <1>2, <2>1 DEF FrontendMemory
  <2>4. count \in Nat /\ slices \in [Slices -> Slice]
    BY <1>5, <2>2
  <2> HIDE DEF count, slices
  <2>5. memory' \in FrontendMemory /\ memory'.tags = memory.tags /\ memory'.cache = memory.cache
        /\ memory'.mutations = count
    BY <2>1, <2>3, <2>4 DEF FrontendMemory
  <2> QED BY <2>2, <2>5 DEF count
<1>7. Rests(memory')
  BY <1>6 DEF Rests, UnderWay
<1>8. \A q \in Queries : Keeps(memory', log.promised, q)
  BY <1>6 DEF FrontendInv, Keeps
<1> QED BY <1>2, <1>3, <1>4, <1>6, <1>7, <1>8 DEF FrontendInv, FrontendTypes

LEMMA ChangesStep ==
    ASSUME FrontendAssumption, FrontendInv, NEW c \in Calls, Changes(c) PROVE FrontendInv'
<1> DEFINE step == [call[c] EXCEPT !.at = "changed"]
<1>1. call[c] \in Mutating /\ call[c] # Idle
  BY DEF FrontendInv, FrontendTypes, Changes, Idle, Mutating
<1>2. step \in Mutating
  BY <1>1 DEF Mutating
<1>3. call' = [call EXCEPT ![c] = step] /\ UNCHANGED <<memory, log>>
  BY DEF Changes, GoesOn
<1>4. Cardinality(Asking') = Cardinality(Asking)
  <2> HIDE DEF step
  <2>1. FrontendTypes
    BY DEF FrontendInv
  <2>2. /\ Cardinality(Asking) \in Nat
        /\ Cardinality(Asking') = Cardinality(Asking) + IF call[c] = Idle THEN 1 ELSE 0
    BY <1>2, <1>3, <2>1, AskingFacts
  <2> QED BY <1>1, <2>2
<1>5. call' \in [Calls -> {Idle} \cup Mutating]
  BY <1>2, <1>3 DEF FrontendInv, FrontendTypes
<1>6. outside' \in [Queries -> Nat] /\ \A q \in Queries : outside[q] <= outside'[q]
  BY DEF Changes, FrontendInv, FrontendTypes
<1>7. \A q \in Queries : log.promised[q] <= outside'[q]
  BY <1>6 DEF FrontendInv, FrontendTypes
<1> QED BY <1>3, <1>4, <1>5, <1>6, <1>7 DEF FrontendInv, FrontendTypes

LEMMA MutationEnds ==
    ASSUME FrontendAssumption, FrontendInv, NEW c \in Calls,
           MutationFulfilled(c) \/ \E ok \in BOOLEAN : MutationRejected(c, ok)
    PROVE  FrontendInv'
<1> DEFINE of == call[c].mutation
<1>0. log \in [promised : [Queries -> Nat], failed : BOOLEAN, signedOut : BOOLEAN]
      /\ outside \in [Queries -> Nat]
  BY DEF FrontendInv, FrontendTypes
<1>1. call[c] \in Mutating /\ call[c] # Idle /\ of \in Mutations
  <2>1. call[c].at \in {"changing", "changed"}
    BY DEF MutationFulfilled, MutationRejected
  <2>2. call[c] \in {Idle} \cup Mutating
    BY DEF FrontendInv, FrontendTypes
  <2> QED BY <2>1, <2>2 DEF Idle, Mutating
<1>2. call' = [call EXCEPT ![c] = Idle] /\ UNCHANGED outside
  BY DEF MutationFulfilled, MutationRejected, Returns, GoesOn
<1>3. call' \in [Calls -> {Idle} \cup Mutating]
  BY <1>2 DEF FrontendInv, FrontendTypes
<1>4. Cardinality(Asking') = memory.mutations - 1 /\ memory.mutations - 1 \in Nat
  <2>1. FrontendTypes /\ memory.mutations = Cardinality(Asking)
    BY DEF FrontendInv
  <2>2. Cardinality(Asking) \in Nat /\ Cardinality(Asking) # 0
        /\ Cardinality(Asking') = Cardinality(Asking) - 1
    BY <1>1, <1>2, <2>1, AskingFacts
  <2> QED BY <2>1, <2>2
<1>5. memory \in FrontendMemory /\ Invalidates[of] \in SUBSET UNION {Invalidates[m] : m \in Mutations}
  BY <1>1 DEF FrontendInv, FrontendTypes
<1> DEFINE Before(m) ==
        /\ memory' = Settled(m) /\ \A s \in Slices : ~m.slices[s].loading
        /\ m.mutations = memory.mutations - 1 /\ m.cache = memory.cache
        /\ memory.tags \subseteq m.tags
        /\ \/ log'.promised = log.promised
           \/ /\ Invalidates[of] \subseteq m.tags
              /\ log'.promised = [q \in Queries |->
                                    IF q \in SeenIn(of) THEN outside[q] ELSE log.promised[q]]
<1>6. \E m \in FrontendMemory : Before(m)
  <2>1. CASE MutationFulfilled(c)
    <3> DEFINE m == [memory EXCEPT
          !.mutations = @ - 1, !.tags = @ \cup Invalidates[of], !.slices = OnFulfilled(@, of)]
    <3>1. OnFulfilled(memory.slices, of) \in [Slices -> Slice]
          /\ \A s \in Slices : ~OnFulfilled(memory.slices, of)[s].loading
      BY <1>5 DEF OnFulfilled, EndsLoading, RequestType, FrontendMemory, Slice
    <3>2. m \in FrontendMemory
      BY <1>4, <1>5, <3>1 DEF FrontendMemory
    <3>3. /\ m.mutations = memory.mutations - 1 /\ m.cache = memory.cache
          /\ m.tags = memory.tags \cup Invalidates[of]
          /\ m.slices = OnFulfilled(memory.slices, of)
      BY <1>5 DEF FrontendMemory
    <3>4. memory' = Settled(m) /\ log' = [log EXCEPT
              !.promised = [q \in Queries |-> IF q \in SeenIn(of) THEN outside[q] ELSE @[q]],
              !.signedOut = of = "logout"]
      BY <2>1 DEF MutationFulfilled
    <3>5. log'.promised = [q \in Queries |->
                              IF q \in SeenIn(of) THEN outside[q] ELSE log.promised[q]]
      BY <1>0, <3>4
    <3> HIDE DEF m
    <3> QED BY <3>1, <3>2, <3>3, <3>4, <3>5
  <2>2. ASSUME NEW ok \in BOOLEAN, MutationRejected(c, ok) PROVE \E n \in FrontendMemory : Before(n)
    <3> DEFINE tags == IF ok THEN Invalidates[of] ELSE {}
               m == [memory EXCEPT
          !.mutations = @ - 1, !.slices = OnRejected, !.tags = @ \cup tags]
    <3>1. OnRejected \in [Slices -> Slice] /\ \A s \in Slices : ~OnRejected[s].loading
      BY DEF OnRejected, Slice
    <3>2. tags \in SUBSET UNION {Invalidates[n] : n \in Mutations}
      BY <1>5
    <3>3. memory' = Settled(m)
      BY <2>2 DEF MutationRejected
    <3> HIDE DEF tags
    <3>4. m \in FrontendMemory
      BY <1>4, <1>5, <3>1, <3>2 DEF FrontendMemory
    <3>5. /\ m.mutations = memory.mutations - 1 /\ m.cache = memory.cache
          /\ m.tags = memory.tags \cup tags /\ m.slices = OnRejected
      BY <1>5 DEF FrontendMemory
    <3>6. log'.promised = log.promised
      BY <1>0, <2>2 DEF MutationRejected
    <3> HIDE DEF m
    <3> QED BY <3>1, <3>3, <3>4, <3>5, <3>6
  <2> QED BY <2>1, <2>2
<1>7. PICK m \in FrontendMemory : Before(m)
  BY <1>6
<1>8. log' \in [promised : [Queries -> Nat], failed : BOOLEAN, signedOut : BOOLEAN]
  <2>1. CASE MutationFulfilled(c)
    BY <1>0, <2>1 DEF MutationFulfilled
  <2>2. CASE \E ok \in BOOLEAN : MutationRejected(c, ok)
    BY <1>0, <2>2 DEF MutationRejected
  <2> QED BY <2>1, <2>2
<1>9. \A q \in Queries : Keeps(m, log'.promised, q) /\ log'.promised[q] <= outside[q]
  <2> SUFFICES ASSUME NEW q \in Queries
               PROVE  Keeps(m, log'.promised, q) /\ log'.promised[q] <= outside[q]
    OBVIOUS
  <2>1. Keeps(memory, log.promised, q) /\ log.promised[q] <= outside[q] /\ outside[q] \in Nat
    BY DEF FrontendInv, FrontendTypes
  <2>2. CASE log'.promised[q] = log.promised[q]
    BY <1>7, <2>1, <2>2 DEF Keeps
  <2>3. CASE Invalidates[of] \subseteq m.tags /\ q \in SeenIn(of) /\ log'.promised[q] = outside[q]
    <3>1. Provides[q] \cap m.tags # {}
      BY <1>1, <1>7, <2>3, TagsFacts
    <3> QED BY <1>7, <2>1, <2>3, <3>1 DEF Keeps
  <2> QED BY <1>7, <2>2, <2>3
<1>10. m.mutations = Cardinality(Asking')
  BY <1>4, <1>7
<1> QED BY <1>2, <1>3, <1>7, <1>8, <1>9, <1>10, SettlesStep

LEMMA FrontendStep ==
    ASSUME FrontendAssumption, FrontendInv, [FrontendNext]_clientVars PROVE FrontendInv'
<1>1. CASE UNCHANGED clientVars
  BY <1>1 DEF clientVars, FrontendInv, FrontendTypes, Asking
<1>2. CASE FrontendNext
  BY <1>2, UseQueryStep, EntryStep, QueryEnds, MutateStep, ChangesStep, MutationEnds
     DEF FrontendNext
<1> QED BY <1>1, <1>2

LEMMA FrontendInvImplies == ASSUME FrontendInv PROVE FrontendTypeOK /\ FrontendSound
<1>1. FrontendTypeOK
  BY DEF FrontendInv, FrontendTypes, FrontendMemory, Entry, FrontendTypeOK
<1>2. LoadingEnds
  BY DEF FrontendInv, Rests, LoadingEnds
<1>3. ShownHasMutations
  BY DEF FrontendInv, FrontendTypes, FrontendMemory, Rests, Keeps, ShownHasMutations, Shown
<1> QED BY <1>1, <1>2, <1>3 DEF FrontendSound

\* The requests of the front end in any order and with any ends: no slice shows a request when
\* none is under way, and a list in use that was not refused has the mutations answered.
THEOREM FrontendShowsAnswers ==
    ASSUME FrontendAssumption PROVE FrontendSpec => [](FrontendTypeOK /\ FrontendSound)
<1>1. FrontendInit => FrontendInv
  BY FrontendInitially
<1>2. FrontendInv /\ [FrontendNext]_clientVars => FrontendInv'
  BY FrontendStep
<1>3. FrontendInv => FrontendTypeOK /\ FrontendSound
  BY FrontendInvImplies
<1> QED BY <1>1, <1>2, <1>3, PTL DEF FrontendSpec

-----------------------------------------------------------------------------
(* The gates of the repository *)

GatesSpec == GatesInit /\ [][GatesNext]_clientVars

\* From 20000 files on, one that the matrix leaves out would be rounded away.
GatesAssumption == IsFiniteSet(Files) /\ Cardinality(Files) < 20000

Tree == [facts : [Files -> SUBSET Facts], there : SUBSET Files, unreadable : SUBSET Files,
         matrix : {"valid", "missing"}, entries : SUBSET Entries, rules : BOOLEAN,
         tests : SUBSET Tests, edits : Nat]
Said == {"nothing", "PASS", "FAIL"} \cup [md : {"BLOCKED", "WARNING", "CLEAN"}, json : {"BLOCKED", "CLEAN"}]

\* A gate has looked at nothing newer than the tree, and its report is of no later run.
GatesTypes ==
    /\ outside \in Tree
    /\ disk \in [Gates -> [says : Said, at : Nat \cup {None}]]
    /\ log \in [Gates -> [exit : {None, 0, 1, 2}, at : Nat \cup {None}]]
    /\ \A g \in Gates : disk[g].at <= log[g].at /\ log[g].at <= outside.edits

\* What a gate's report says of the tree
SaysOf(g) ==
    IF g = "architecture" THEN ArchitectureStatus
    ELSE IF g = "traceability" THEN TraceabilityStatus ELSE BlockersStatus

\* A run of a gate that writes reports either wrote what is so and ended accordingly, or died of
\* a file that it could not read.
ReportHolds(g) ==
    \/ /\ disk[g] = [says |-> SaysOf(g), at |-> outside.edits]
       /\ log[g].exit \in {0, 1} /\ (log[g].exit = 0 <=> SaysPassed(g))
       /\ g = "architecture" => Sources \cap outside.unreadable = {}
       /\ g = "blockers" => ScannedForBlockers \cap outside.unreadable = {}
    \/ log[g].exit = 1 /\ outside.unreadable # {}

GatesInv ==
    /\ GatesTypes
    /\ \A g \in Gates \ {"preAudit"} : log[g].at = outside.edits => ReportHolds(g)
    /\ log["preAudit"].at = outside.edits /\ log["preAudit"].exit = 0 => PreAuditPassed

LEMMA CoverageFacts ==
    ASSUME GatesAssumption, outside \in Tree, Coverage >= 10000
    PROVE  {} # AllSourceFiles /\ AllSourceFiles \subseteq MatrixFiles
<1> DEFINE covered == Cardinality(AllSourceFiles \cap MatrixFiles)
           total == Cardinality(AllSourceFiles)
<1>1. AllSourceFiles \subseteq Files
  BY DEF AllSourceFiles, Sources, Tree
<1>2. IsFiniteSet(AllSourceFiles) /\ total \in Nat /\ total < 20000
  <2>1. IsFiniteSet(AllSourceFiles) /\ total <= Cardinality(Files)
    BY <1>1, FS_Subset DEF GatesAssumption
  <2>2. total \in Nat /\ Cardinality(Files) \in Nat
    BY <2>1, FS_CardinalityType DEF GatesAssumption
  <2> QED BY <2>1, <2>2 DEF GatesAssumption
<1>3. /\ covered \in Nat /\ covered <= total
      /\ covered = total => AllSourceFiles \cap MatrixFiles = AllSourceFiles
  BY <1>2, FS_Subset, FS_CardinalityType
<1>4. total # 0 /\ covered = total
  <2> HIDE DEF covered, total
  <2>1. Percentage(covered, total) >= 10000
    BY DEF Coverage, covered, total
  <2>2. total # 0
    BY <2>1 DEF Percentage
  <2>3. (20000 * covered + total) \div (2 * total) >= 10000
    BY <2>1, <2>2 DEF Percentage
  <2> DEFINE q == (20000 * covered + total) \div (2 * total)
  <2>4. 20000 * covered + total >= (2 * total) * q /\ q \in Nat
    BY <1>2, <1>3, <2>2
  <2>5. (2 * total) * q >= (2 * total) * 10000
    <3> HIDE DEF q
    <3> QED BY <1>2, <2>3, <2>4 DEF q
  <2>6. 20000 * covered + total >= 20000 * total
    <3> HIDE DEF q
    <3> QED BY <1>2, <1>3, <2>4, <2>5
  <2> QED BY <1>2, <1>3, <2>2, <2>6
<1>5. AllSourceFiles # {}
  BY <1>4, FS_EmptySet
<1> QED BY <1>3, <1>4, <1>5

LEMMA GatesInitially == ASSUME GatesInit PROVE GatesInv
<1>1. GatesTypes
  BY DEF GatesInit, ClientInit, GatesTypes, Tree, Said, NoReport, Facts, None, Gates
<1>2. \A g \in Gates : log[g].at # outside.edits
  BY DEF GatesInit, ClientInit, None
<1> QED BY <1>1, <1>2 DEF GatesInv, Gates

LEMMA EditsStep ==
    ASSUME GatesInv, GatesAssumption, EditTree \/ EditMatrix PROVE GatesInv'
<1>1. UNCHANGED <<disk, log>> /\ \E new \in Tree : new.edits = outside.edits /\ outside' = [new EXCEPT !.edits = @ + 1]
  <2>1. outside \in Tree
    BY DEF GatesInv, GatesTypes
  <2>2. ASSUME NEW new \in Tree, new.edits = outside.edits, Edits(new) PROVE <1>1
    BY <2>2 DEF Edits
  <2>3. CASE EditTree
    BY <2>1, <2>2, <2>3 DEF EditTree, Tree, Toggle
  <2>4. CASE EditMatrix
    <3>1. ASSUME NEW e \in Entries, Edits([outside EXCEPT !.entries = Toggle(e, @)]) PROVE <1>1
      BY <2>1, <2>2, <3>1 DEF Tree, Toggle
    <3>2. ASSUME NEW m \in {"valid", "missing"}, Edits([outside EXCEPT !.matrix = m]) PROVE <1>1
      BY <2>1, <2>2, <3>2 DEF Tree
    <3>3. ASSUME NEW at \in {"value", "listed", "nested"},
                 Edits([outside EXCEPT !.matrix = "valid",
                           !.entries = {[file |-> f, at |-> at, fromRoot |-> TRUE] : f \in Sources}])
          PROVE  <1>1
      <4> DEFINE entries == {[file |-> f, at |-> at, fromRoot |-> TRUE] : f \in Sources}
      <4>1. entries \subseteq Entries
        <5>1. \A f \in Sources : f \in Files
          BY <2>1 DEF Sources, Tree
        <5>2. \A f \in Sources : [file |-> f, at |-> at, fromRoot |-> TRUE] \in Entries
          BY <5>1 DEF Entries
        <5> QED BY <5>2
      <4> HIDE DEF entries
      <4>2. [outside EXCEPT !.matrix = "valid", !.entries = entries] \in Tree
        BY <2>1, <4>1 DEF Tree
      <4>3. [outside EXCEPT !.matrix = "valid", !.entries = entries].edits = outside.edits
        BY <2>1 DEF Tree
      <4> QED BY <2>2, <3>3, <4>2, <4>3 DEF entries
    <3> QED BY <2>4, <3>1, <3>2, <3>3 DEF EditMatrix
  <2> QED BY <2>3, <2>4
<1>2. PICK new \in Tree : new.edits = outside.edits /\ outside' = [new EXCEPT !.edits = @ + 1]
  BY <1>1
<1>3. outside' \in Tree /\ outside'.edits = outside.edits + 1 /\ outside.edits \in Nat
  BY <1>2 DEF Tree
<1>4. GatesTypes'
  BY <1>1, <1>3 DEF GatesInv, GatesTypes, None
<1>5. \A g \in Gates : log'[g].at # outside'.edits
  BY <1>1, <1>3 DEF GatesInv, GatesTypes, None
<1> QED BY <1>4, <1>5 DEF GatesInv, Gates

\* A gate that runs reads the tree and leaves it as it is.
LEMMA TreeStays ==
    ASSUME UNCHANGED outside
    PROVE  /\ \A g : SaysOf(g)' = SaysOf(g)
           /\ UNCHANGED <<Sources, ScannedForBlockers, PreAuditPassed>>
<1>1. UNCHANGED <<Sources, AllSourceFiles, MatrixFiles, Violations>>
  BY DEF Sources, AllSourceFiles, MatrixFiles, Violations, CheckReverseDependencies,
         CheckNestDecorators, CheckDependencyInversion, CheckHardcodedColors,
         CheckTestSourcePairing, CheckDomainEventPattern, Has
<1>2. UNCHANGED <<ArchitectureStatus, TraceabilityStatus>>
  BY <1>1 DEF ArchitectureStatus, TraceabilityStatus, Coverage
<1>3. UNCHANGED ScannedForBlockers
  BY <1>1 DEF ScannedForBlockers
<1>4. \A s : Blockers(s)' = Blockers(s)
  BY <1>3 DEF Blockers
<1>5. UNCHANGED BlockersStatus
  BY <1>4 DEF BlockersStatus
<1>6. UNCHANGED AllViolations
  BY DEF AllViolations, DiscoveredFiles, CheckForbiddenPatterns, CheckMandatoryPatterns,
         CheckSpecificRules, CheckMetadataHeaders, CheckPrismaModels, Has
<1>7. UNCHANGED PreAuditPassed
  BY <1>6 DEF PreAuditPassed
<1> QED BY <1>1, <1>2, <1>3, <1>5, <1>7 DEF SaysOf

\* The report of another gate does not change.
LEMMA OtherGates ==
    ASSUME GatesInv, UNCHANGED outside, NEW g \in Gates,
           \A h \in Gates \ {g} : disk'[h] = disk[h] /\ log'[h] = log[h]
    PROVE  /\ \A h \in Gates \ {"preAudit", g} : log'[h].at = outside'.edits => ReportHolds(h)'
           /\ g # "preAudit" /\ log'["preAudit"].at = outside'.edits /\ log'["preAudit"].exit = 0 =>
                 PreAuditPassed'
<1>1. /\ \A h : SaysOf(h)' = SaysOf(h)
      /\ UNCHANGED <<Sources, ScannedForBlockers, PreAuditPassed>>
  BY TreeStays
<1>2. ASSUME NEW h \in Gates \ {"preAudit", g}, log'[h].at = outside'.edits PROVE ReportHolds(h)'
  <2>1. ReportHolds(h) /\ disk'[h] = disk[h] /\ log'[h] = log[h]
    BY <1>2 DEF GatesInv
  <2>2. SaysPassed(h)' = SaysPassed(h)
    BY <2>1 DEF SaysPassed
  <2> QED BY <1>1, <2>1, <2>2 DEF ReportHolds
<1>3. "preAudit" \in Gates
  BY DEF Gates
<1> QED BY <1>1, <1>2, <1>3 DEF GatesInv

LEMMA StatusFacts ==
    /\ ArchitectureStatus \in {"PASS", "FAIL"} /\ TraceabilityStatus \in {"PASS", "FAIL"}
    /\ BlockersStatus \in Said /\ {ArchitectureStatus, TraceabilityStatus} \subseteq Said
    /\ BlockersStatus.json = "CLEAN" <=> Blockers("ERROR") = {}
BY DEF ArchitectureStatus, TraceabilityStatus, BlockersStatus, Said

\* A gate that wrote its report, or could not
LEMMA GateEnds ==
    ASSUME GatesInv, NEW g \in Gates, NEW exit \in {0, 1, 2}, Ends(g, exit),
           \/ UNCHANGED disk
           \/ \E status \in Said : Reports(g, status),
           g = "preAudit" => (exit = 0 => PreAuditPassed),
           g # "preAudit" => ReportHolds(g)'
    PROVE  GatesInv'
<1>1. /\ UNCHANGED outside /\ log' = [log EXCEPT ![g] = [exit |-> exit, at |-> outside.edits]]
      /\ outside.edits \in Nat
  BY DEF Ends, GatesInv, GatesTypes, Tree
<1>2. disk' \in [Gates -> [says : Said, at : Nat \cup {None}]]
      /\ (\A h \in Gates \ {g} : disk'[h] = disk[h])
      /\ disk'[g].at \in {disk[g].at, outside.edits}
  <2>1. disk \in [Gates -> [says : Said, at : Nat \cup {None}]]
    BY DEF GatesInv, GatesTypes
  <2>2. CASE UNCHANGED disk
    BY <2>1, <2>2
  <2>3. ASSUME NEW status \in Said, Reports(g, status) PROVE <1>2
    BY <1>1, <2>1, <2>3 DEF Reports
  <2> QED BY <2>2, <2>3
<1>3. log' \in [Gates -> [exit : {None, 0, 1, 2}, at : Nat \cup {None}]]
      /\ (\A h \in Gates \ {g} : log'[h] = log[h])
      /\ log'[g] = [exit |-> exit, at |-> outside.edits]
  BY <1>1 DEF GatesInv, GatesTypes
<1>4. GatesTypes'
  <2>1. \A h \in Gates : /\ disk[h].at \in Nat \cup {None} /\ log[h].at \in Nat \cup {None}
                         /\ disk[h].at <= log[h].at /\ log[h].at <= outside.edits
    BY DEF GatesInv, GatesTypes
  <2>2. \A h \in Gates : disk'[h].at <= log'[h].at /\ log'[h].at <= outside.edits
    <3>1. disk'[g].at <= log'[g].at /\ log'[g].at <= outside.edits
      BY <1>1, <1>2, <1>3, <2>1 DEF None
    <3> QED BY <1>2, <1>3, <2>1, <3>1
  <2> QED BY <1>1, <1>2, <1>3, <2>2 DEF GatesInv, GatesTypes
<1>5. g = "preAudit" /\ log'["preAudit"].exit = 0 => PreAuditPassed'
  BY <1>1, <1>3, TreeStays
<1> QED BY <1>1, <1>2, <1>3, <1>4, <1>5, OtherGates DEF GatesInv

LEMMA GatesRun ==
    ASSUME GatesInv, ValidateArchitecture \/ VerifyTraceability \/ DetectBlockers \/ RunAudit
    PROVE  GatesInv'
<1>1. outside \in Tree /\ disk \in [Gates -> [says : Said, at : Nat \cup {None}]]
      /\ log \in [Gates -> [exit : {None, 0, 1, 2}, at : Nat \cup {None}]]
  BY DEF GatesInv, GatesTypes
<1>2. UNCHANGED outside
  BY DEF ValidateArchitecture, VerifyTraceability, DetectBlockers, RunAudit, Ends
<1>3. /\ \A g : SaysOf(g)' = SaysOf(g)
      /\ UNCHANGED <<Sources, ScannedForBlockers, PreAuditPassed>>
  BY <1>2, TreeStays
<1>4. ASSUME NEW g \in Gates \ {"preAudit"}, NEW exit \in {0, 1}, Ends(g, exit), Reports(g, SaysOf(g)),
             exit = 0 <=> IF g = "blockers" THEN SaysOf(g).json = "CLEAN" ELSE SaysOf(g) = "PASS",
             g = "architecture" => Sources \cap outside.unreadable = {},
             g = "blockers" => ScannedForBlockers \cap outside.unreadable = {}
      PROVE  GatesInv'
  <2>1. disk'[g] = [says |-> SaysOf(g), at |-> outside.edits]
        /\ log'[g] = [exit |-> exit, at |-> outside.edits]
    BY <1>1, <1>4 DEF Ends, Reports
  <2>2. SaysOf(g) \in Said
    BY StatusFacts DEF SaysOf
  <2>3. SaysPassed(g)' <=> exit = 0
    <3>1. SaysPassed(g)' <=> IF g = "blockers" THEN SaysOf(g).json = "CLEAN" ELSE SaysOf(g) = "PASS"
      BY <2>1 DEF SaysPassed
    <3> QED BY <1>4, <3>1
  <2>4. ReportHolds(g)'
    BY <1>2, <1>3, <1>4, <2>1, <2>3 DEF ReportHolds
  <2>5. \E status \in Said : Reports(g, status)
    BY <1>4, <2>2
  <2> QED BY <1>4, <2>4, <2>5, GateEnds
<1>5. ASSUME NEW g \in Gates \ {"preAudit"}, Ends(g, 1), UNCHANGED disk, outside.unreadable # {}
      PROVE  GatesInv'
  <2>1. log'[g].exit = 1 /\ outside'.unreadable # {}
    BY <1>1, <1>2, <1>5 DEF Ends
  <2> QED BY <1>5, <2>1, GateEnds DEF ReportHolds
<1>6. CASE ValidateArchitecture
  <2>1. CASE /\ Sources \cap outside.unreadable = {} /\ Reports("architecture", ArchitectureStatus)
             /\ Ends("architecture", IF ArchitectureStatus = "PASS" THEN 0 ELSE 1)
    <3> DEFINE exit == IF ArchitectureStatus = "PASS" THEN 0 ELSE 1
    <3>1. exit \in {0, 1} /\ (exit = 0 <=> ArchitectureStatus = "PASS")
      OBVIOUS
    <3>2. "architecture" \in Gates \ {"preAudit"} /\ SaysOf("architecture") = ArchitectureStatus
      BY DEF Gates, SaysOf
    <3> HIDE DEF exit
    <3> QED BY <1>4, <2>1, <3>1, <3>2 DEF exit
  <2>2. CASE Sources \cap outside.unreadable # {} /\ Ends("architecture", 1) /\ UNCHANGED disk
    BY <1>5, <2>2 DEF Gates
  <2> QED BY <1>6, <2>1, <2>2 DEF ValidateArchitecture
<1>7. CASE VerifyTraceability
  <2> DEFINE exit == IF outside.matrix = "valid" /\ Coverage >= 10000 THEN 0 ELSE 1
  <2>1. exit \in {0, 1} /\ (exit = 0 <=> TraceabilityStatus = "PASS")
    BY DEF TraceabilityStatus
  <2>2. "traceability" \in Gates \ {"preAudit"} /\ SaysOf("traceability") = TraceabilityStatus
    BY DEF Gates, SaysOf
  <2>3. Reports("traceability", TraceabilityStatus) /\ Ends("traceability", exit)
    BY <1>7 DEF VerifyTraceability
  <2> HIDE DEF exit
  <2> QED BY <1>4, <2>1, <2>2, <2>3
<1>8. CASE DetectBlockers
  <2>1. CASE /\ ScannedForBlockers \cap outside.unreadable = {} /\ Reports("blockers", BlockersStatus)
             /\ Ends("blockers", IF Blockers("ERROR") = {} THEN 0 ELSE 1)
    <3> DEFINE exit == IF Blockers("ERROR") = {} THEN 0 ELSE 1
    <3>1. exit \in {0, 1} /\ (exit = 0 <=> BlockersStatus.json = "CLEAN")
      BY StatusFacts
    <3>2. "blockers" \in Gates \ {"preAudit"} /\ SaysOf("blockers") = BlockersStatus
      BY DEF Gates, SaysOf
    <3> HIDE DEF exit
    <3> QED BY <1>4, <2>1, <3>1, <3>2 DEF exit
  <2>2. CASE ScannedForBlockers \cap outside.unreadable # {} /\ Ends("blockers", 1) /\ UNCHANGED disk
    BY <1>5, <2>2 DEF Gates
  <2> QED BY <1>8, <2>1, <2>2 DEF DetectBlockers
<1>9. CASE RunAudit
  <2> DEFINE exit == IF ~outside.rules THEN 2 ELSE IF PreAuditPassed THEN 0 ELSE 1
  <2>1. exit \in {0, 1, 2} /\ (exit = 0 => PreAuditPassed)
    OBVIOUS
  <2>2. Ends("preAudit", exit) /\ UNCHANGED disk
    BY <1>9 DEF RunAudit
  <2> HIDE DEF exit
  <2> QED BY <2>1, <2>2, GateEnds DEF Gates
<1> QED BY <1>6, <1>7, <1>8, <1>9

LEMMA GatesStep ==
    ASSUME GatesAssumption, GatesInv, [GatesNext]_clientVars PROVE GatesInv'
<1>1. CASE UNCHANGED clientVars
  <2>1. UNCHANGED <<outside, disk, log>>
    BY <1>1 DEF clientVars
  <2>2. UNCHANGED PreAuditPassed /\ \A g \in Gates \ {"preAudit"} : log'[g].at = outside'.edits => ReportHolds(g)'
    BY <2>1, TreeStays, OtherGates DEF Gates
  <2> QED BY <2>1, <2>2 DEF GatesInv, GatesTypes
<1>2. CASE GatesNext
  BY <1>2, EditsStep, GatesRun DEF GatesNext
<1> QED BY <1>1, <1>2

LEMMA GatesInvImplies ==
    ASSUME GatesAssumption, GatesInv
    PROVE  GatesTypeOK /\ VerdictsSound /\ GatesAgree
<1>1. GatesTypeOK
  BY DEF GatesInv, GatesTypes, Tree, None, GatesTypeOK
<1>2. VerdictsSound
  <2> SUFFICES ASSUME NEW g \in Gates, log[g].at = outside.edits
               PROVE
        /\ log[g].exit = 0 /\ g # "preAudit" => SaysPassed(g) /\ disk[g].at = outside.edits
        /\ log[g].exit = 1 /\ g # "preAudit" /\ disk[g].at # None /\ SaysPassed(g) =>
              outside.unreadable # {}
        /\ log[g].exit = 0 /\ g = "architecture" =>
              Sources \cap outside.unreadable = {} /\ \A c \in DOMAIN Violations : Violations[c] = {}
        /\ log[g].exit = 0 /\ g = "traceability" =>
              {} # AllSourceFiles /\ AllSourceFiles \subseteq MatrixFiles
        /\ log[g].exit = 0 /\ g = "blockers" => ScannedForBlockers \cap outside.unreadable = {}
    BY DEF VerdictsSound
  <2>1. g # "preAudit" => ReportHolds(g)
    BY DEF GatesInv
  <2>2. g # "preAudit" /\ log[g].exit = 0 =>
           disk[g] = [says |-> SaysOf(g), at |-> outside.edits] /\ SaysPassed(g)
    BY <2>1 DEF ReportHolds
  <2>3. g # "preAudit" /\ log[g].exit = 1 /\ SaysPassed(g) => outside.unreadable # {}
    BY <2>1 DEF ReportHolds
  <2>4. g = "architecture" /\ log[g].exit = 0 => ArchitectureStatus = "PASS"
    BY <2>2 DEF SaysPassed, SaysOf
  <2>5. g = "traceability" /\ log[g].exit = 0 => Coverage >= 10000
    <3>1. g = "traceability" /\ log[g].exit = 0 => TraceabilityStatus = "PASS"
      BY <2>2 DEF SaysPassed, SaysOf
    <3> QED BY <3>1 DEF TraceabilityStatus
  <2>6. g = "traceability" /\ log[g].exit = 0 => {} # AllSourceFiles /\ AllSourceFiles \subseteq MatrixFiles
    BY <2>5, CoverageFacts DEF GatesInv, GatesTypes
  <2>7. ArchitectureStatus = "PASS" => \A c \in DOMAIN Violations : Violations[c] = {}
    BY DEF ArchitectureStatus
  <2>8. log[g].exit = 0 /\ g \in {"architecture", "blockers"} =>
           /\ g = "architecture" => Sources \cap outside.unreadable = {}
           /\ g = "blockers" => ScannedForBlockers \cap outside.unreadable = {}
    BY <2>1 DEF ReportHolds
  <2> QED BY <2>2, <2>3, <2>4, <2>6, <2>7, <2>8
<1>3. GatesAgree
  <2> SUFFICES ASSUME log["preAudit"].exit = 0, log["preAudit"].at = outside.edits,
                      outside.unreadable = {}, NEW f \in Blockers("ERROR"), InSafeBoot(f)
               PROVE  \E x \in outside.facts[f] : PatternSeverity(x) = "ERROR" /\ x \notin Forbidden
    BY DEF GatesAgree
  <2>1. PICK x \in outside.facts[f] : PatternSeverity(x) = "ERROR"
    BY DEF Blockers
  <2>2. f \in DiscoveredFiles \ outside.unreadable
    BY DEF Blockers, ScannedForBlockers, AllSourceFiles, Sources, DiscoveredFiles
  <2>3. x \notin Forbidden
    <3>1. SUFFICES ASSUME x \in Forbidden PROVE FALSE
      OBVIOUS
    <3>2. Violation("FORBIDDEN-PATTERN", f, "CRITICAL") \in AllViolations
      BY <2>2, <3>1 DEF AllViolations, CheckForbiddenPatterns
    <3> QED BY <3>2 DEF GatesInv, PreAuditPassed, Violation
  <2> QED BY <2>1, <2>3
<1> QED BY <1>1, <1>2, <1>3

\* A gate that let the tree pass, with nothing changed since, had a report of this run that
\* says so on files it could all read (VerdictsSound), and what the pre-audit forbids and
\* detect-blockers calls an error passes neither (GatesAgree): whichever edits and runs came
\* before, for any tree of fewer than 20000 files.
THEOREM VerdictsHold ==
    ASSUME GatesAssumption
    PROVE  GatesSpec => [](VerdictsSound /\ GatesAgree)
<1>1. GatesInit => GatesInv
  BY GatesInitially
<1>2. GatesInv /\ [GatesNext]_clientVars => GatesInv'
  BY GatesStep
<1>3. GatesInv => VerdictsSound /\ GatesAgree
  BY GatesInvImplies
<1>4. QED
  BY <1>1, <1>2, <1>3, PTL DEF GatesSpec

-----------------------------------------------------------------------------
(* What the engines compute from a manifest *)

EnginesSpec == EnginesInit /\ [][EnginesNext]_clientVars

EnginesTypes ==
    /\ memory.nodes \in [Nodes -> NodeDefs]
    /\ memory.roles \in [Roles -> RoleDefs]
    /\ memory.label \in [Locales -> 0 .. 3]
    /\ outside.at \in {0} \cup Targets

\* Where a flow stands it has been; it has been nowhere that the search does not see, and
\* nowhere that is not declared if the definition passed validation.
EnginesInv ==
    /\ EnginesTypes
    /\ outside.at = 0 <=> log = {}
    /\ outside.at # 0 => /\ outside.at \in log /\ StartState \in Nodes
                         /\ log \subseteq SeenFrom(StartState)
    /\ ValidateDefinition => outside.at \in {0} \cup Nodes

\* The rounds of the search exist ...
LEMMA RoundsThere ==
    ASSUME LastNode \in Nat, NEW from
    PROVE  \A n \in 0 .. LastNode + 1 :
              \E f : f = [k \in 0 .. n |-> IF k = 0 THEN {from} ELSE Onward(f[k - 1])]
<1> DEFINE Good(n) == \E f : f = [k \in 0 .. n |-> IF k = 0 THEN {from} ELSE Onward(f[k - 1])]
           Bad == {n \in 0 .. LastNode + 1 : ~Good(n)}
<1>1. SUFFICES ASSUME Bad # {} PROVE FALSE
  OBVIOUS
<1>2. PICK n \in Bad : \A m \in Bad : n <= m
  <2>1. Bad \in SUBSET Nat
    OBVIOUS
  <2>2. QED
    BY <1>1, <2>1, LeastVersion
<1>3. n \in 0 .. LastNode + 1 /\ ~Good(n)
  BY <1>2
<1>4. n # 0
  <2>1. [k \in 0 .. 0 |-> {from}]
          = [k \in 0 .. 0 |-> IF k = 0 THEN {from} ELSE Onward([j \in 0 .. 0 |-> {from}][k - 1])]
    OBVIOUS
  <2>2. Good(0)
    BY <2>1
  <2>3. QED
    BY <1>3, <2>2
<1>5. Good(n - 1)
  <2>1. n - 1 \in 0 .. LastNode + 1 /\ ~(n <= n - 1)
    BY <1>3, <1>4
  <2>2. n - 1 \notin Bad
    BY <1>2, <2>1
  <2> HIDE DEF Good
  <2>3. QED
    BY <2>1, <2>2
<1>6. PICK f : f = [k \in 0 .. n - 1 |-> IF k = 0 THEN {from} ELSE Onward(f[k - 1])]
  BY <1>5
<1> DEFINE g == [k \in 0 .. n |-> IF k = n THEN Onward(f[n - 1]) ELSE f[k]]
<1>7. \A k \in 0 .. n : g[k] = IF k = 0 THEN {from} ELSE Onward(g[k - 1])
  <2> SUFFICES ASSUME NEW k \in 0 .. n
               PROVE  g[k] = IF k = 0 THEN {from} ELSE Onward(g[k - 1])
    OBVIOUS
  <2>1. CASE k = n
    BY <1>3, <1>4, <2>1
  <2>2. CASE k # n /\ k = 0
    BY <1>3, <1>4, <1>6, <2>2
  <2>3. CASE k # n /\ k # 0
    <3>1. g[k] = f[k] /\ g[k - 1] = f[k - 1] /\ k \in 0 .. n - 1
      BY <1>3, <2>3
    <3>2. f[k] = Onward(f[k - 1])
      BY <1>6, <2>3, <3>1
    <3>3. QED
      BY <2>3, <3>1, <3>2
  <2>4. QED
    BY <2>1, <2>2, <2>3
<1>8. g = [k \in 0 .. n |-> IF k = 0 THEN {from} ELSE Onward(g[k - 1])]
  <2>1. g = [k \in 0 .. n |-> g[k]]
    OBVIOUS
  <2> HIDE DEF g
  <2>2. QED
    BY <1>7, <2>1
<1>9. QED
  BY <1>3, <1>8

LEMMA SeenRounds ==
    ASSUME LastNode \in Nat, NEW from
    PROVE  \E f : /\ f[0] = {from}
                  /\ \A k \in 1 .. LastNode + 1 : f[k] = Onward(f[k - 1])
                  /\ SeenFrom(from) = f[LastNode + 1]
<1> DEFINE N == LastNode + 1
           R == CHOOSE f : f = [k \in 0 .. N |-> IF k = 0 THEN {from} ELSE Onward(f[k - 1])]
<1>1. R = [k \in 0 .. N |-> IF k = 0 THEN {from} ELSE Onward(R[k - 1])]
  <2>1. \E f : f = [k \in 0 .. N |-> IF k = 0 THEN {from} ELSE Onward(f[k - 1])]
    <3>1. N \in 0 .. LastNode + 1
      OBVIOUS
    <3>2. QED
      BY <3>1, RoundsThere
  <2>2. QED
    BY <2>1
<1>2. SeenFrom(from) = R[N]
  BY DEF SeenFrom
<1> HIDE DEF R
<1>3. R[0] = {from} /\ \A k \in 1 .. N : R[k] = Onward(R[k - 1])
  <2>1. R[0] = {from}
    BY <1>1
  <2>2. ASSUME NEW k \in 1 .. N PROVE R[k] = Onward(R[k - 1])
    <3>1. k \in 0 .. N /\ k # 0
      OBVIOUS
    <3>2. R[k] = IF k = 0 THEN {from} ELSE Onward(R[k - 1])
      BY <1>1, <3>1
    <3>3. QED
      BY <3>1, <3>2
  <2>3. QED
    BY <2>1, <2>2
<1>4. QED
  BY <1>2, <1>3

\* ... and they come to an end: what is seen at last has no way on to anything else.
LEMMA SeenIsClosed ==
    ASSUME LastNode \in Nat, memory.nodes \in [Nodes -> NodeDefs], NEW from \in Targets
    PROVE  /\ from \in SeenFrom(from)
           /\ \A n \in SeenFrom(from) \cap Nodes : Node(n).to \subseteq SeenFrom(from)
<1> DEFINE N == LastNode + 1
<1>1. PICK R : /\ R[0] = {from}
               /\ \A k \in 1 .. N : R[k] = Onward(R[k - 1])
               /\ SeenFrom(from) = R[N]
  BY SeenRounds
<1>2. ASSUME NEW S \in SUBSET Targets PROVE S \subseteq Onward(S) /\ Onward(S) \in SUBSET Targets
  BY DEF Onward, Node, NodeDefs
<1>3. \A k \in 0 .. N : R[k] \in SUBSET Targets /\ from \in R[k]
  <2> DEFINE Bad == {k \in 0 .. N : ~(R[k] \in SUBSET Targets /\ from \in R[k])}
  <2>1. SUFFICES ASSUME Bad # {} PROVE FALSE
    OBVIOUS
  <2>2. PICK k \in Bad : \A m \in Bad : k <= m
    <3>1. Bad \in SUBSET Nat
      OBVIOUS
    <3>2. QED
      BY <2>1, <3>1, LeastVersion
  <2>3. k # 0
    BY <1>1, <2>2
  <2>4. k \in 1 .. N /\ k - 1 \in 0 .. N /\ ~(k <= k - 1)
    BY <2>3
  <2>5. R[k - 1] \in SUBSET Targets /\ from \in R[k - 1]
    BY <2>2, <2>4
  <2>6. R[k] \in SUBSET Targets /\ from \in R[k]
    BY <1>1, <1>2, <2>4, <2>5
  <2>7. QED
    BY <2>2, <2>6
<1>4. SUFFICES ASSUME Onward(R[N]) # R[N] PROVE FALSE
  BY <1>1, <1>3, <1>4 DEF Onward
<1>5. \A k \in 0 .. N : Onward(R[k]) # R[k]
  <2> DEFINE Bad == {m \in 0 .. N : Onward(R[N - m]) = R[N - m]}
  <2>1. SUFFICES ASSUME NEW k \in 0 .. N, Onward(R[k]) = R[k] PROVE FALSE
    OBVIOUS
  <2>2. N - k \in Bad
    <3>1. N - (N - k) = k /\ N - k \in 0 .. N
      OBVIOUS
    <3>2. QED
      BY <2>1, <3>1
  <2>3. PICK m \in Bad : \A j \in Bad : m <= j
    <3>1. Bad \in SUBSET Nat
      OBVIOUS
    <3>2. QED
      BY <2>2, <3>1, LeastVersion
  <2>4. m # 0
    BY <1>4, <2>3
  <2> DEFINE j == N - (m - 1)
  <2>5. j \in 1 .. N /\ j - 1 = N - m /\ m - 1 \in 0 .. N /\ ~(m <= m - 1)
    BY <2>3, <2>4
  <2>6. R[j] = Onward(R[N - m]) /\ Onward(R[N - m]) = R[N - m]
    BY <1>1, <2>3, <2>5
  <2>7. Onward(R[j]) = R[j]
    BY <2>6
  <2>8. m - 1 \in Bad
    BY <2>5, <2>7
  <2>9. QED
    BY <2>3, <2>5, <2>8
<1>6. IsFiniteSet(Targets) /\ Cardinality(Targets) = N
  <2>1. 1 \in Int /\ N \in Int /\ ~(1 > N) /\ N - 1 + 1 = N
    OBVIOUS
  <2>2. Cardinality(1 .. N) = IF 1 > N THEN 0 ELSE N - 1 + 1
    BY <2>1, FS_Interval
  <2>3. QED
    BY <2>1, <2>2, FS_Interval DEF Targets
<1>7. \A k \in 0 .. N : Cardinality(R[k]) \in Nat /\ Cardinality(R[k]) > k
  <2> DEFINE Bad == {k \in 0 .. N : ~(Cardinality(R[k]) > k)}
  <2>1. \A k \in 0 .. N : IsFiniteSet(R[k]) /\ Cardinality(R[k]) \in Nat
    BY <1>3, <1>6, FS_Subset, FS_CardinalityType
  <2>2. SUFFICES ASSUME Bad # {} PROVE FALSE
    BY <2>1
  <2>3. PICK k \in Bad : \A m \in Bad : k <= m
    <3>1. Bad \in SUBSET Nat
      OBVIOUS
    <3>2. QED
      BY <2>2, <3>1, LeastVersion
  <2>4. k # 0
    <3>1. Cardinality(R[0]) = 1
      BY <1>1, FS_Singleton
    <3>2. QED
      BY <2>3, <3>1
  <2>5. k \in 1 .. N /\ k - 1 \in 0 .. N /\ ~(k <= k - 1)
    BY <2>3, <2>4
  <2>6. Cardinality(R[k - 1]) > k - 1
    BY <2>3, <2>5
  <2>7. R[k] = Onward(R[k - 1]) /\ R[k - 1] \subseteq R[k] /\ R[k - 1] # R[k]
    BY <1>1, <1>2, <1>3, <1>5, <2>5
  <2>8. /\ Cardinality(R[k - 1]) <= Cardinality(R[k])
        /\ Cardinality(R[k - 1]) # Cardinality(R[k])
    BY <2>1, <2>5, <2>7, FS_Subset
  <2>9. QED
    BY <2>1, <2>3, <2>5, <2>6, <2>8
<1>8. Cardinality(R[N]) <= N
  BY <1>3, <1>6, FS_Subset
<1>9. QED
  BY <1>7, <1>8

LEMMA StartFacts ==
    ASSUME LastNode \in Nat, Starts # {}
    PROVE  StartState \in Starts /\ StartState \in Nodes
<1>1. Starts \subseteq Nodes /\ Starts \in SUBSET Nat
  BY DEF Starts, Nodes
<1>2. QED
  BY <1>1, MinFacts DEF StartState

LEMMA EnginesInitially == ASSUME LastNode \in Nat, EnginesInit PROVE EnginesInv
<1>1. PICK nodes \in [Nodes -> NodeDefs], roles \in [Roles -> RoleDefs],
           feature \in [enabled : BOOLEAN, required : SUBSET Grants],
           label \in [Locales -> 0 .. 3] :
         CompiledTo(nodes, roles, feature, label)
  <2>1. PlainNodes \in [Nodes -> NodeDefs]
    BY DEF PlainNodes, NodeDefs, Nodes, Targets
  <2>2. PlainRoles \in [Roles -> RoleDefs]
    BY DEF PlainRoles, RoleDefs
  <2>3. PlainFeature \in [enabled : BOOLEAN, required : SUBSET Grants]
    BY DEF PlainFeature
  <2>4. PlainLabel \in [Locales -> 0 .. 3]
    BY DEF PlainLabel
  <2>5. QED
    BY <2>1, <2>2, <2>3, <2>4 DEF EnginesInit
<1>2. memory.nodes = nodes /\ memory.roles = roles /\ memory.label = label
      /\ outside.at = 0 /\ log = {}
  BY <1>1 DEF CompiledTo, ClientInit
<1>3. QED
  BY <1>1, <1>2 DEF EnginesInv, EnginesTypes

LEMMA EnginesStep ==
    ASSUME LastNode \in Nat, EnginesInv, [EnginesNext]_clientVars PROVE EnginesInv'
<1>1. ASSUME UNCHANGED <<memory, outside, log>> PROVE EnginesInv'
  BY <1>1 DEF EnginesInv, EnginesTypes, SeenFrom, Onward, StartState, Starts, Node,
              ValidateDefinition
<1>2. ASSUME memory' = memory PROVE
        /\ ValidateDefinition' = ValidateDefinition /\ StartState' = StartState
        /\ \A n \in Targets : SeenFrom(n)' = SeenFrom(n)
  BY <1>2 DEF SeenFrom, Onward, StartState, Starts, Node, ValidateDefinition
<1>3. CASE StartFlow
  <2>1. memory' = memory /\ outside' = [at |-> StartState] /\ log' = {StartState} /\ Starts # {}
    BY <1>3 DEF StartFlow
  <2>2. StartState \in Nodes /\ StartState \in Targets /\ StartState # 0
    BY <2>1, StartFacts DEF Nodes, Targets
  <2>3. StartState \in SeenFrom(StartState)
    BY <2>2, SeenIsClosed DEF EnginesInv, EnginesTypes
  <2>4. QED
    BY <1>2, <2>1, <2>2, <2>3 DEF EnginesInv, EnginesTypes
<1>4. ASSUME NEW to \in Targets, TakeTransition(to) PROVE EnginesInv'
  <2>1. /\ memory' = memory /\ outside' = [at |-> to] /\ log' = log \cup {to}
        /\ outside.at \in Nodes /\ to \in Node(outside.at).to
    BY <1>4 DEF TakeTransition, CanTransition
  <2>2. outside.at # 0 /\ to # 0
    BY <2>1 DEF Nodes, Targets
  <2>3. StartState \in Nodes /\ StartState \in Targets /\ outside.at \in SeenFrom(StartState)
    BY <2>2 DEF EnginesInv, Nodes, Targets
  <2>4. to \in SeenFrom(StartState)
    BY <2>1, <2>3, SeenIsClosed DEF EnginesInv, EnginesTypes
  <2>5. ValidateDefinition => to \in Nodes
    BY <2>1 DEF ValidateDefinition
  <2>6. QED
    BY <1>2, <2>1, <2>2, <2>3, <2>4, <2>5 DEF EnginesInv, EnginesTypes
<1>5. QED
  BY <1>1, <1>3, <1>4 DEF EnginesNext, clientVars

\* Ranges of lists of roles and of their beginnings
LEMMA BeginningFacts ==
    ASSUME NEW s \in Seq(Roles), NEW n \in 1 .. Len(s)
    PROVE  /\ Range(SubSeq(s, 1, n)) \subseteq Range(s) /\ Range(s) \subseteq Roles
BY DEF Range

LEMMA CapabilitiesHold ==
    ASSUME EnginesTypes PROVE CapabilitiesAgree
<1> SUFFICES ASSUME NEW roles \in Seq(Roles)
             PROVE
        /\ Range(roles) \subseteq DeclaredRoles =>
              \A p \in Grants :
                  Can(roles, p) = "yes" <=> {p, Wildcard} \cap UnionPermissions(roles) # {}
        /\ CheckFeatureAccess(roles) = "enabled" <=>
              /\ memory.feature.enabled
              /\ \A p \in memory.feature.required : Can(roles, p) = "yes"
  <2>1. \A n \in 0 .. 2 : [1 .. n -> Roles] \subseteq Seq(Roles)
    OBVIOUS
  <2>2. QED
    BY <2>1 DEF CapabilitiesAgree, RoleLists
<1>1. ASSUME Range(roles) \subseteq DeclaredRoles, NEW p \in Grants
      PROVE  Can(roles, p) = "yes" <=> {p, Wildcard} \cap UnionPermissions(roles) # {}
  <2> DEFINE all == {i \in DOMAIN roles : Wildcard \in EffectivePermissions(roles[i])}
             looked == IF all = {} THEN Range(roles) ELSE Range(SubSeq(roles, 1, Min(all)))
  <2>1. Can(roles, p) = "yes" <=> \E i \in DOMAIN roles : RoleCan(roles[i], p)
    BY <1>1 DEF Can, Range
  <2>2. looked \subseteq DeclaredRoles
    <3>1. all \subseteq 1 .. Len(roles)
      OBVIOUS
    <3>2. all \in SUBSET Nat
      BY <3>1
    <3> HIDE DEF all
    <3>3. all # {} => Min(all) \in all
      BY <3>2, MinFacts
    <3>4. QED
      BY <1>1, <3>1, <3>3, BeginningFacts
  <2>3. UnionPermissions(roles)
          = IF all # {} THEN {Wildcard} ELSE UNION {EffectivePermissions(r) : r \in Range(roles)}
    <3>1. UnionPermissions(roles)
            = IF ~(looked \subseteq DeclaredRoles) THEN {"throws"}
              ELSE IF all # {} THEN {Wildcard}
              ELSE UNION {EffectivePermissions(r) : r \in looked}
      BY DEF UnionPermissions
    <3> HIDE DEF all
    <3>2. QED
      BY <2>2, <3>1
  <2>4. CASE all # {}
    <3>1. PICK i \in DOMAIN roles : Wildcard \in EffectivePermissions(roles[i])
      BY <2>4
    <3>2. RoleCan(roles[i], p)
      BY <3>1 DEF RoleCan
    <3>3. QED
      BY <2>1, <2>3, <2>4, <3>2
  <2>5. CASE all = {}
    <3>1. \A i \in DOMAIN roles :
             RoleCan(roles[i], p) <=> {p, Wildcard} \cap EffectivePermissions(roles[i]) # {}
      BY DEF RoleCan
    <3>2. {p, Wildcard} \cap UnionPermissions(roles) # {}
             <=> \E r \in Range(roles) : {p, Wildcard} \cap EffectivePermissions(r) # {}
      BY <2>3, <2>5
    <3>3. QED
      BY <2>1, <3>1, <3>2 DEF Range
  <2>6. QED
    BY <2>4, <2>5
<1>2. CheckFeatureAccess(roles) = "enabled" <=>
         /\ memory.feature.enabled
         /\ \A p \in memory.feature.required : Can(roles, p) = "yes"
  BY DEF CheckFeatureAccess
<1>3. QED
  BY <1>1, <1>2

LEMMA LabelHolds == ASSUME memory.label \in [Locales -> 0 .. 3] PROVE LabelHasText
BY DEF LabelHasText, ResolveLabel, HasText, Key, Locales, DefaultLocale

LEMMA EnginesInvImplies ==
    ASSUME LastNode \in Nat, EnginesInv
    PROVE  CapabilitiesAgree /\ FlowStaysDeclared /\ LabelHasText
<1>1. FlowStaysDeclared
  BY DEF EnginesInv, EnginesTypes, FlowStaysDeclared, PathExists, ValidateDefinition, IsEndState
<1>2. QED
  BY <1>1, CapabilitiesHold, LabelHolds DEF EnginesInv, EnginesTypes

\* The two ways to ask for a permission agree, a feature is there for those who can do all
\* that it requires (CapabilitiesAgree), a flow from the start of a validated definition is
\* always in a declared state that the search finds (FlowStaysDeclared), and a label has a
\* text (LabelHasText): for manifests of any number of roles and nodes (capability-engine.ts,
\* workflow-engine.ts, vocabulary-engine.ts).
THEOREM EnginesAgree ==
    ASSUME LastNode \in Nat
    PROVE  EnginesSpec => [](CapabilitiesAgree /\ FlowStaysDeclared /\ LabelHasText)
<1>1. EnginesInit => EnginesInv
  BY EnginesInitially
<1>2. EnginesInv /\ [EnginesNext]_clientVars => EnginesInv'
  BY EnginesStep
<1>3. EnginesInv => CapabilitiesAgree /\ FlowStaysDeclared /\ LabelHasText
  BY EnginesInvImplies
<1>4. QED
  BY <1>1, <1>2, <1>3, PTL DEF EnginesSpec

-----------------------------------------------------------------------------
(* A field of a generated form *)

FormSpec == FormInit /\ [][FormNext]_clientVars

\* What the component of a field leaves in the form
Chosens == {s \in Seq(Options) : IsInjective(s)}
Entered ==
    {Undefined}
    \cup CASE Field.type = "number" -> {Number(n) : n \in {0, 1}} \cup Texts
           [] Field.type = "boolean" -> {Boolean(b) : b \in BOOLEAN}
           [] Field.type = "multiselect" -> {List(s) : s \in Chosens}
           [] Field.type = "select" -> {EmptyText, Text(1, NaN, TRUE)}
           [] OTHER -> Texts

FormInv == Field \in Fields /\ memory \in Entered /\ SubmittedIsSound

LEMMA ChosenFacts ==
    ASSUME NEW s \in Chosens, NEW key \in Options, NEW t \in Chosen(s, key)
    PROVE  t \in Chosens
<1>1. CASE Contains(s, key)
  <2> DEFINE others == {i \in DOMAIN s : s[i] # key}
  <2>1. PICK at \in [1 .. Cardinality(others) -> others] :
           /\ \A j, k \in DOMAIN at : j < k => at[j] < at[k]
           /\ t = [k \in DOMAIN at |-> s[at[k]]]
    BY <1>1 DEF Chosen, Filtered
  <2>2. others \subseteq DOMAIN s /\ DOMAIN s = 1 .. Len(s) /\ Len(s) \in Nat
    BY DEF Chosens
  <2> HIDE DEF others
  <2>3. Cardinality(others) \in Nat
    <3>1. IsFiniteSet(1 .. Len(s))
      BY <2>2, FS_Interval
    <3>2. QED
      BY <2>2, <3>1, FS_Subset, FS_CardinalityType
  <2>4. \A k \in 1 .. Cardinality(others) : at[k] \in DOMAIN s /\ at[k] \in Nat /\ s[at[k]] \in Options
    BY <2>1, <2>2 DEF Chosens
  <2>5. t \in Seq(Options) /\ DOMAIN t = 1 .. Cardinality(others)
    <3>1. t = [k \in 1 .. Cardinality(others) |-> s[at[k]]]
      BY <2>1
    <3>2. t \in [1 .. Cardinality(others) -> Options]
      BY <2>4, <3>1
    <3>3. QED
      BY <2>3, <3>2
  <2>6. ASSUME NEW j \in DOMAIN t, NEW k \in DOMAIN t, t[j] = t[k] PROVE j = k
    <3>1. at[j] = at[k]
      BY <2>1, <2>4, <2>5, <2>6 DEF Chosens, IsInjective
    <3>2. ~(j < k) /\ ~(k < j) /\ j \in Nat /\ k \in Nat
      BY <2>1, <2>3, <2>4, <2>5, <3>1
    <3>3. QED
      BY <3>2
  <2>7. QED
    BY <2>5, <2>6 DEF Chosens, IsInjective
<1>2. CASE ~Contains(s, key)
  <2>1. t = Append(s, key) /\ \A i \in 1 .. Len(s) : s[i] # key
    BY <1>2 DEF Chosen, Contains
  <2>2. /\ t \in Seq(Options) /\ DOMAIN t = 1 .. Len(s) + 1 /\ Len(s) \in Nat
        /\ \A i \in 1 .. Len(s) : t[i] = s[i]
        /\ t[Len(s) + 1] = key /\ DOMAIN s = 1 .. Len(s)
    BY <2>1 DEF Chosens
  <2>3. ASSUME NEW j \in DOMAIN t, NEW k \in DOMAIN t, t[j] = t[k] PROVE j = k
    <3>1. CASE j # Len(s) + 1 /\ k # Len(s) + 1
      BY <2>2, <2>3, <3>1 DEF Chosens, IsInjective
    <3>2. CASE j = Len(s) + 1 \/ k = Len(s) + 1
      BY <2>1, <2>2, <2>3, <3>2
    <3>3. QED
      BY <3>1, <3>2
  <2>4. QED
    BY <2>2, <2>3 DEF Chosens, IsInjective
<1>3. QED
  BY <1>1, <1>2

LEMMA FormInitially == ASSUME FormInit PROVE FormInv
BY DEF FormInit, ClientInit, FormInv, Field, Entered, SubmittedIsSound

\* What is coerced is as good as what was entered, and stays so.
LEMMA CoerceFacts ==
    ASSUME Field \in Fields, NEW v \in Entered, v # Undefined,
           ValidateField(v) = "none", Coerce(v) # Undefined
    PROVE  LET w == Coerce(v) IN
           /\ ValidateField(w) = "none" /\ Coerce(w) = w
           /\ Field.required => ~IsEmpty(w)
           /\ w.is = "number" => /\ w.value # NaN
                                 /\ Field.min # None => w.value >= Field.min
                                 /\ Field.max # None => w.value <= Field.max
           /\ w.is = "list" => IsInjective(w.value)
<1>1. CASE Field.type = "number"
  <2>1. Coerce(v) \in {Number(n) : n \in Nat}
    BY <1>1 DEF Entered, Coerce, Texts, Text, EmptyText, Number, NaN, IsEmpty, Undefined
  <2>2. PICK n \in Nat : Coerce(v) = Number(n)
    BY <2>1
  <2>3. ~IsEmpty(Number(n)) /\ Coerce(Number(n)) = Number(n)
    BY <1>1 DEF IsEmpty, Number, Undefined, EmptyText, Text, Coerce
  <2>4. ValidateField(Number(n)) = "none"
    BY <1>1, <2>2, <2>3 DEF ValidateField
  <2>5. (Field.min # None => n >= Field.min) /\ (Field.max # None => n <= Field.max)
    BY <1>1, <2>3, <2>4 DEF ValidateField, Fields, None, Number
  <2>6. QED
    BY <2>2, <2>3, <2>4, <2>5 DEF Number, NaN
<1>2. CASE Field.type = "boolean"
  <2>1. PICK b \in BOOLEAN : Coerce(v) = Boolean(b)
    BY <1>2 DEF Coerce, Boolean
  <2>2. ~IsEmpty(Boolean(b)) /\ Coerce(Boolean(b)) = Boolean(b)
    BY <1>2 DEF IsEmpty, Boolean, Undefined, EmptyText, Text, Coerce
  <2>3. QED
    BY <1>2, <2>1, <2>2 DEF ValidateField, Boolean
<1>3. CASE Field.type = "multiselect"
  <2>1. PICK s \in Chosens : v = List(s)
    BY <1>3 DEF Entered
  <2>2. Coerce(List(s)) = List(s)
    BY <1>3 DEF Coerce, List
  <2>3. Field.required => ~IsEmpty(List(s))
    BY <2>1, <2>2 DEF ValidateField
  <2>4. List(s).is = "list" /\ List(s).value = s
    BY DEF List
  <2>5. QED
    BY <2>1, <2>2, <2>3, <2>4 DEF Chosens
<1>4. CASE Field.type \in {"text", "date", "select"}
  <2>1. v \in Texts \cup {Text(1, NaN, TRUE)}
    <3>1. EmptyText \in Texts
      BY DEF Texts
    <3>2. QED
      BY <1>4, <3>1 DEF Entered
  <2>2. v.is = "text"
    BY <2>1 DEF Texts, Text, EmptyText
  <2>3. Coerce(v) = v
    BY <1>4, <2>2 DEF Coerce
  <2>4. Field.required => ~IsEmpty(v)
    BY <2>3 DEF ValidateField
  <2>5. QED
    BY <2>2, <2>3, <2>4
<1>5. QED
  BY <1>1, <1>2, <1>3, <1>4 DEF Fields, FieldTypes

LEMMA FormStep ==
    ASSUME LastNumber \in Nat, FormInv, [FormNext]_clientVars PROVE FormInv'
<1>1. ASSUME NEW v \in Entered, Takes(v) PROVE FormInv'
  BY <1>1 DEF Takes, FormInv, Field, Entered, SubmittedIsSound, ValidateField, Coerce
<1>2. CASE DefaultValues
  <2>1. <<>> \in Chosens /\ EmptyText \in Texts
    BY DEF Chosens, IsInjective, Texts
  <2>2. DefaultValue \in Entered
    BY <2>1 DEF DefaultValue, Entered, FormInv, Fields, None
  <2>3. QED
    BY <1>1, <1>2, <2>2 DEF DefaultValues
<1>3. ASSUME NEW text \in Texts, EnterText(text) PROVE FormInv'
  BY <1>1, <1>3 DEF EnterText, Entered
<1>4. CASE SelectOption
  BY <1>1, <1>4 DEF SelectOption, Entered
<1>5. ASSUME NEW key \in Options, ToggleOption(key) PROVE FormInv'
  <2>1. Field.type = "multiselect"
    BY <1>5 DEF ToggleOption
  <2>2. Coerce(memory).value \in Chosens
    BY <2>1 DEF FormInv, Entered, Coerce, List, Undefined, Chosens, IsInjective
  <2>3. PICK chosen \in Chosen(Coerce(memory).value, key) : Takes(List(chosen))
    BY <1>5 DEF ToggleOption
  <2>4. List(chosen) \in Entered
    BY <2>1, <2>2, <2>3, ChosenFacts DEF Entered
  <2>5. QED
    BY <1>1, <2>3, <2>4
<1>6. ASSUME NEW on \in BOOLEAN, Switch(on) PROVE FormInv'
  BY <1>1, <1>6 DEF Switch, Entered
<1>7. CASE Submit
  <2>1. ValidateField(memory) = "none" /\ log' = Normalize(memory) /\ UNCHANGED <<memory, outside>>
    BY <1>7 DEF Submit
  <2>2. Field' = Field /\ Entered' = Entered
    BY <2>1 DEF Field, Entered
  <2>3. log' # Undefined => memory # Undefined /\ log' = Coerce(memory)
    BY <2>1 DEF Normalize
  <2>4. ASSUME log' # Undefined
        PROVE  /\ ValidateField(log') = "none" /\ Coerce(log') = log'
               /\ Field.required => ~IsEmpty(log')
               /\ log'.is = "number" => /\ log'.value # NaN
                                        /\ Field.min # None => log'.value >= Field.min
                                        /\ Field.max # None => log'.value <= Field.max
               /\ log'.is = "list" => IsInjective(log'.value)
    BY <2>1, <2>3, <2>4, CoerceFacts DEF FormInv
  <2>5. ASSUME log' # Undefined PROVE ValidateField(log)' = "none" /\ Coerce(log)' = log'
    BY <2>2, <2>4, <2>5 DEF ValidateField, Coerce
  <2>6. SubmittedIsSound'
    BY <2>2, <2>4, <2>5 DEF SubmittedIsSound
  <2>7. QED
    BY <2>1, <2>2, <2>6 DEF FormInv
<1>8. CASE UNCHANGED clientVars
  BY <1>8 DEF clientVars, FormInv, Field, Entered, SubmittedIsSound, ValidateField, Coerce
<1>9. QED
  BY <1>2, <1>3, <1>4, <1>5, <1>6, <1>7, <1>8 DEF FormNext

\* Whoever validates or coerces a submitted value again gets the same answer and the same
\* value; a number is one and within its bounds, and no option is chosen twice
\* (forms-engine.ts, form-renderer.tsx).
THEOREM SubmittedStands ==
    ASSUME LastNumber \in Nat
    PROVE  FormSpec => []SubmittedIsSound
<1>1. FormInit => FormInv
  BY FormInitially
<1>2. FormInv /\ [FormNext]_clientVars => FormInv'
  BY FormStep
<1>3. FormInv => SubmittedIsSound
  BY DEF FormInv
<1>4. QED
  BY <1>1, <1>2, <1>3, PTL DEF FormSpec

-----------------------------------------------------------------------------
(* Texts become configuration *)

\* A schema is a number of members.
SchemasNumbered == Schemas \subseteq Nat

ParsingSpec == ParsingInit /\ [][ParsingNext]_clientVars

ParsingInv == DOMAIN memory = Keys /\ ReturnedIsValidated

LEMMA ParsingStep ==
    ASSUME SchemasNumbered, ParsingInv, [ParsingNext]_clientVars PROVE ParsingInv'
<1>1. ASSUME NEW k \in Keys, NEW schema \in Schemas
      PROVE  /\ DOMAIN Compiled(memory, k, schema) = Keys
             /\ Compiled(memory, k, schema)[k] # None
  BY DEF Compiled, ParsingInv, SchemasNumbered, None
<1>2. ASSUME NEW key \in KeyPairs, NEW schema \in Schemas, ValidateConfig(key, schema)
      PROVE  ParsingInv'
  <2> DEFINE a == Attempt(outside.text, key)
             validators == IF a.data = NotData THEN memory ELSE Compiled(memory, a.key, schema)
  <2>1. /\ memory' = validators /\ outside' = outside
        /\ log' = IF a.data = NotData THEN [result |-> "all-failed"]
                  ELSE IF ~Admits(validators[a.key], a.data) THEN [result |-> "schema-failed"]
                  ELSE [result |-> "success", tier |-> a.tier, data |-> a.data,
                        key |-> key, schema |-> schema]
    BY <1>2 DEF ValidateConfig
  <2>2. /\ a.tier \in {"direct", "preprocessed"}
        /\ a.key = IF a.tier = "direct" THEN key.direct ELSE key.preprocessed
        /\ (a.tier = "direct") = (Parse(outside.text) # NotData)
        /\ a.tier = "direct" => a.data = Parse(outside.text)
    BY DEF Attempt
  <2>3. a.key \in Keys
    BY <2>2 DEF KeyPairs
  <2> HIDE DEF a
  <2>4. DOMAIN memory' = Keys
    BY <1>1, <2>1, <2>3 DEF ParsingInv
  <2>5. ReturnedIsValidated'
    <3>1. ASSUME log'.result = "success"
          PROVE  /\ log'.tier = a.tier /\ log'.data = a.data /\ log'.key = key
                 /\ memory'[a.key] # None /\ Admits(memory'[a.key], a.data)
      BY <1>1, <2>1, <2>3, <3>1
    <3> HIDE DEF validators
    <3>2. Parse(outside.text)' = Parse(outside.text)
      BY <2>1
    <3>3. QED
      BY <2>2, <3>1, <3>2 DEF ReturnedIsValidated, Admits
  <2>6. QED
    BY <2>4, <2>5 DEF ParsingInv
<1>3. ASSUME NEW key \in KeyPairs, NEW schema \in Schemas, CompileFromJson(key, schema)
      PROVE  ParsingInv'
  <2> DEFINE data == Parse(outside.text)
             validators == IF data = NotData THEN memory ELSE Compiled(memory, key.direct, schema)
  <2>1. /\ memory' = validators /\ outside' = outside
        /\ log' = IF data = NotData \/ ~Admits(validators[key.direct], data)
                    THEN [result |-> "ManifestValidationError"]
                    ELSE [result |-> "success", tier |-> "direct", data |-> data,
                          key |-> key, schema |-> schema]
    BY <1>3 DEF CompileFromJson
  <2>2. key.direct \in Keys
    BY DEF KeyPairs
  <2>3. Parse(outside.text)' = data
    BY <2>1
  <2> HIDE DEF data
  <2>4. DOMAIN memory' = Keys
    BY <1>1, <2>1, <2>2 DEF ParsingInv
  <2>5. ASSUME log'.result = "success"
        PROVE  /\ log'.tier = "direct" /\ log'.data = data /\ log'.key = key /\ data # NotData
               /\ memory'[key.direct] # None /\ Admits(memory'[key.direct], data)
    BY <1>1, <2>1, <2>2, <2>5
  <2> HIDE DEF validators
  <2>6. ReturnedIsValidated'
    BY <2>3, <2>5 DEF ReturnedIsValidated, Admits, data
  <2>7. QED
    BY <2>4, <2>6 DEF ParsingInv
<1>4. CASE UNCHANGED clientVars
  BY <1>4 DEF clientVars, ParsingInv, ReturnedIsValidated, Admits
<1>5. QED
  BY <1>2, <1>3, <1>4 DEF ParsingNext

LEMMA ParsingInitially == ASSUME ParsingInit PROVE ParsingInv
BY DEF ParsingInit, ClientInit, ParsingInv, ReturnedIsValidated

\* Data that is returned passed the validator of the key it was asked for, and a text that
\* parses is never repaired, whatever was compiled before (json-validation.ts).
THEOREM TextsAreValidated ==
    ASSUME SchemasNumbered
    PROVE  ParsingSpec => []ReturnedIsValidated
<1>1. ParsingInit => ParsingInv
  BY ParsingInitially
<1>2. ParsingInv /\ [ParsingNext]_clientVars => ParsingInv'
  BY ParsingStep
<1>3. ParsingInv => ReturnedIsValidated
  BY DEF ParsingInv
<1>4. QED
  BY <1>1, <1>2, <1>3, PTL DEF ParsingSpec

-----------------------------------------------------------------------------
(* Two manifests become one *)

MergeSpec == MergeInit /\ [][MergeNext]_clientVars

\* A manifest has a value for each field.
ManifestOf(m) ==
    /\ DOMAIN m = Scalars \cup {"permissions"}
    /\ \A f \in Scalars : m[f] \in Values(f)

MergeInv ==
    /\ DOMAIN memory = {"client"} /\ ManifestOf(memory.client)
    /\ DOMAIN outside = {"server"} /\ ManifestOf(outside.server)
    /\ MergeTakesSides

LEMMA EditsFacts ==
    ASSUME NEW m, ManifestOf(m), NEW e \in EditsOf(m) PROVE ManifestOf(e)
<1>1. ASSUME NEW f \in Scalars, NEW v \in Values(f), e = [m EXCEPT ![f] = v] PROVE ManifestOf(e)
  BY <1>1 DEF ManifestOf
<1>2. ASSUME NEW p, e = [m EXCEPT !.permissions = p] PROVE ManifestOf(e)
  BY <1>2 DEF ManifestOf, Scalars
<1>3. CASE e \in UNION {{[m EXCEPT ![f] = v] : v \in Values(f)} : f \in Scalars}
  BY <1>1, <1>3
<1>4. ASSUME NEW p, \/ e = [m EXCEPT !.permissions = Append(@, p)]
                    \/ e = [m EXCEPT !.permissions = Remove(@, p)]
      PROVE  ManifestOf(e)
  <2>1. \/ e = [m EXCEPT !.permissions = Append(m.permissions, p)]
        \/ e = [m EXCEPT !.permissions = Remove(m.permissions, p)]
    BY <1>4
  <2>2. QED
    BY <1>2, <2>1
<1>5. QED
  <2> DEFINE values == UNION {{[m EXCEPT ![f] = v] : v \in Values(f)} : f \in Scalars}
             added == {[m EXCEPT !.permissions = Append(@, p)] :
                       p \in Permissions \ Range(m.permissions)}
             removed == {[m EXCEPT !.permissions = Remove(@, p)] : p \in Range(m.permissions)}
  <2>1. EditsOf(m) = values \cup added \cup removed
    BY DEF EditsOf
  <2>2. ASSUME e \in added PROVE ManifestOf(e)
    BY <1>4, <2>2
  <2>3. ASSUME e \in removed PROVE ManifestOf(e)
    BY <1>4, <2>3
  <2>4. ASSUME e \in values PROVE ManifestOf(e)
    BY <1>3, <2>4
  <2> HIDE DEF values, added, removed
  <2>5. QED
    BY <2>1, <2>2, <2>3, <2>4

LEMMA MergedFacts ==
    ASSUME NEW s, NEW c, ManifestOf(s), ManifestOf(c),
           Recommended(Differing(s, c)) # "manual-review"
    PROVE  LET m == Merged(s, c) IN
           /\ m.version = s.version /\ m.other = s.other
           /\ m.enabled = c.enabled
           /\ s.label # AbsentValue /\ c.label # AbsentValue => m.label = c.label
<1>1. ASSUME NEW f \in Scalars PROVE f \in DOMAIN s /\ Merged(s, c)[f] = MergedField(f, s, c)
  BY DEF Merged, ManifestOf
<1>2. "version" \in Scalars /\ "other" \in Scalars /\ "enabled" \in Scalars /\ "label" \in Scalars
  BY DEF Scalars
<1>3. MergedField("version", s, c) = s.version
  BY DEF MergedField, StrategyForPath
<1>4. s.other = c.other
  BY <1>1, <1>2 DEF Recommended, Differing, StrategyForPath
<1>5. MergedField("other", s, c) = s.other
  BY <1>4 DEF MergedField
<1>6. MergedField("enabled", s, c) = c.enabled
  BY <1>2 DEF MergedField, StrategyForPath, Difference, Applied, ManifestOf, Values, AbsentValue,
              UndefinedValue
<1>7. s.label # AbsentValue /\ c.label # AbsentValue => MergedField("label", s, c) = c.label
  BY <1>2 DEF MergedField, StrategyForPath, Difference, Applied, ManifestOf, Values, AbsentValue,
              UndefinedValue
<1>8. QED
  BY <1>1, <1>2, <1>3, <1>5, <1>6, <1>7

LEMMA MergeInitially == ASSUME MergeInit PROVE MergeInv
BY DEF MergeInit, ClientInit, MergeInv, MergeTakesSides, Unmerged, Edited, Over, ManifestOf,
       Scalars, Values

LEMMA MergeStep ==
    ASSUME MergeInv, [MergeNext]_clientVars PROVE MergeInv'
<1>1. CASE ClientEdits
  <2>1. PICK m \in EditsOf(memory.client) : memory' = [memory EXCEPT !.client = m]
    BY <1>1 DEF ClientEdits
  <2>2. log' = log /\ outside' = outside /\ log.outcome = "none"
    BY <1>1 DEF ClientEdits, Unmerged
  <2>3. ManifestOf(m)
    BY EditsFacts DEF MergeInv
  <2>4. QED
    BY <2>1, <2>2, <2>3 DEF MergeInv, MergeTakesSides, ManifestOf
<1>2. CASE ServerIsEdited
  <2>1. PICK m \in EditsOf(outside.server) : outside' = [outside EXCEPT !.server = m]
    BY <1>2 DEF ServerIsEdited
  <2>2. log' = log /\ memory' = memory /\ log.outcome = "none"
    BY <1>2 DEF ServerIsEdited, Unmerged
  <2>3. ManifestOf(m)
    BY EditsFacts DEF MergeInv
  <2>4. QED
    BY <2>1, <2>2, <2>3 DEF MergeInv, MergeTakesSides, ManifestOf
<1>3. CASE CompareAndMerge
  <2> DEFINE s == outside.server
             c == memory.client
  <2>1. /\ memory' = memory /\ outside' = outside
        /\ log' = IF s = c THEN [outcome |-> "no conflict"]
                  ELSE IF Recommended(Differing(s, c)) = "manual-review" THEN [outcome |-> "review"]
                  ELSE [outcome |-> "merged", manifest |-> Merged(s, c)]
    BY <1>3 DEF CompareAndMerge
  <2>2. ASSUME log'.outcome = "merged"
        PROVE  log'.manifest = Merged(s, c) /\ Recommended(Differing(s, c)) # "manual-review"
    BY <2>1, <2>2
  <2>3. MergeTakesSides'
    <3>1. ASSUME log'.outcome = "merged"
          PROVE  LET m == log'.manifest IN
                 /\ m.version = s.version /\ m.other = s.other
                 /\ m.enabled = c.enabled
                 /\ s.label # AbsentValue /\ c.label # AbsentValue => m.label = c.label
      BY <2>2, <3>1, MergedFacts DEF MergeInv
    <3>2. QED
      BY <2>1, <3>1 DEF MergeTakesSides
  <2>4. QED
    BY <2>1, <2>3 DEF MergeInv, ManifestOf
<1>4. CASE UNCHANGED clientVars
  BY <1>4 DEF clientVars, MergeInv, MergeTakesSides, ManifestOf
<1>5. QED
  BY <1>1, <1>2, <1>3, <1>4 DEF MergeNext

\* A merge has the server's value where the server decides and the client's toggle, and the
\* client's label if both sides have one (merge in conflict-resolver.ts).
THEOREM MergesTakeSides == MergeSpec => []MergeTakesSides
<1>1. MergeInit => MergeInv
  BY MergeInitially
<1>2. MergeInv /\ [MergeNext]_clientVars => MergeInv'
  BY MergeStep
<1>3. MergeInv => MergeTakesSides
  BY DEF MergeInv
<1>4. QED
  BY <1>1, <1>2, <1>3, PTL DEF MergeSpec
=============================================================================
