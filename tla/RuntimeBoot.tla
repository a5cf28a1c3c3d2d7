----------------------------- MODULE RuntimeBoot -----------------------------
(***************************************************************************)
(* The React provider of the runtime (src/shared/runtime/RuntimeProvider.  *)
(* tsx) and the ConnectivityListener it boots (offline-runtime/            *)
(* connectivity-listener.ts; its queue is in OpQueue).                     *)
(*                                                                         *)
(* Each manifest given to the provider makes a new runtime and a new       *)
(* listener, and an effect that boots them; the effect of the manifest     *)
(* before is cleaned up, wherever its boot stands.  Boots are numbered,    *)
(* call[b] is what boot b waits for, listener[b] its listener.             *)
(***************************************************************************)
EXTENDS ClientStore

Boots == Calls   \* 1, 2, ... in the order of the manifests

\* NetInfoState.  The library's details carry a type of their own only when `tagged`.
Network == [type : {"wifi", "cellular"}, connected : {TRUE}, tagged : BOOLEAN]
             \cup {[type |-> "none", connected |-> FALSE, tagged |-> FALSE]}

ToConnectivityLevel(n) ==
    IF ~n.connected THEN "offline"
    ELSE IF n.tagged /\ n.type = "cellular" THEN "metered" ELSE "online"

ToNetworkDetails(n) == [level |-> ToConnectivityLevel(n), isMetered |-> n.type = "cellular"]

NewListener ==
    [state |-> [level |-> "unknown", isMetered |-> FALSE], handler |-> TRUE, subscribed |-> FALSE]

\* outside: the network, and the listeners NetInfo has still to tell of it.
BootInit ==
    \E n \in Network :
        ClientInit([boot |-> 0, runtime |-> FALSE, status |-> "booting", shown |-> "unknown",
                    listener |-> [b \in Boots |-> NewListener]],
                   {}, [network |-> n, untold |-> {}], [cutShort |-> {}, late |-> FALSE])

\* _updateState: details alone are no change.
\* Mutant: going offline is not told.
UpdateState_OnlineOnly(m, b, n) ==
    LET new == ToNetworkDetails(n) IN
    IF new.level = m.listener[b].state.level \/ new.level = "offline" THEN m
    ELSE [m EXCEPT !.listener[b].state = new,
                   !.shown = IF m.listener[b].handler THEN new.level ELSE @]

UpdateState(m, b, n) ==
    LET new == ToNetworkDetails(n) IN
    IF new.level = m.listener[b].state.level THEN m
    ELSE [m EXCEPT !.listener[b].state = new,
                   !.shown = IF m.listener[b].handler THEN new.level ELSE @]

CanDoFullSync(b) ==
    /\ memory.listener[b].state.level = "online"
    /\ ~memory.listener[b].state.isMetered

-----------------------------------------------------------------------------
Cancelled(b) == b # memory.boot

\* destroy: the subscription goes if startListening has come that far.
\* Mutant: the handlers alone are removed.
Destroy_Handlers(m, b) == [m EXCEPT !.listener[b].handler = FALSE]

Destroy(m, b) == [m EXCEPT !.listener[b].handler = FALSE, !.listener[b].subscribed = FALSE]

CleanUp(m) == IF m.boot = 0 \/ ~m.runtime THEN m ELSE Destroy(m, m.boot)

\* A new manifest: runtime and listener are made, or refused; the old effect is cleaned up.
\* The effect then saves the manifest, or has nothing to boot.
GiveManifest(valid) ==
    LET b == memory.boot + 1 IN
    /\ b \in Boots /\ Begins(b, IF valid THEN [at |-> "persist"] ELSE Idle)
    /\ memory' = [CleanUp(memory) EXCEPT !.boot = b, !.runtime = valid,
                                          !.status = IF valid THEN @ ELSE "error"]
    /\ log' = IF memory.boot # 0 /\ memory.runtime /\ call[memory.boot] # Idle
                THEN [log EXCEPT !.cutShort = @ \cup {memory.boot}] ELSE log
    /\ UNCHANGED <<disk, outside>>

\* The provider is unmounted: the last effect is cleaned up for good.
Unmount ==
    LET last == Cardinality(Boots) IN
    /\ memory.boot < last /\ memory.runtime /\ Called
    /\ memory' = [CleanUp(memory) EXCEPT !.boot = last, !.runtime = FALSE]
    /\ log' = IF call[memory.boot] # Idle
                THEN [log EXCEPT !.cutShort = @ \cup {memory.boot}] ELSE log
    /\ UNCHANGED <<disk, outside>>

\* The manifest is saved: startListening asks NetInfo, whose answer is on its way.
Persisted(b) ==
    /\ call[b].at = "persist"
    /\ GoesOn(b, [at |-> "fetch", network |-> outside.network])
    /\ UNCHANGED <<memory, disk, outside, log>>

BootFails(b) ==
    /\ call[b].at \in {"persist", "fetch"}
    /\ memory' = IF Cancelled(b) THEN memory ELSE [memory EXCEPT !.status = "error"]
    /\ Returns(b)
    /\ UNCHANGED <<disk, outside, log>>

\* startListening goes on: the first state, and the subscription.  NetInfo tells a new
\* subscriber the state of the network.
Listening(m, b, n) == [UpdateState(m, b, n) EXCEPT !.listener[b].subscribed = TRUE]

\* The boot ends.  The state is shown also for a boot that was cancelled.
\* Mutant: so is the status.
Booted_Always(b) ==
    LET m == Listening(memory, b, call[b].network) IN
    /\ call[b].at = "fetch"
    /\ memory' = [m EXCEPT !.shown = m.listener[b].state.level, !.status = "ready"]
    /\ outside' = [outside EXCEPT !.untold = @ \cup {b}]
    /\ log' = [log EXCEPT !.late = @ \/ Cancelled(b)]
    /\ Returns(b)
    /\ UNCHANGED disk

Booted(b) ==
    LET m == Listening(memory, b, call[b].network) IN
    /\ call[b].at = "fetch"
    /\ memory' = [m EXCEPT !.shown = m.listener[b].state.level,
                           !.status = IF Cancelled(b) THEN @ ELSE "ready"]
    /\ outside' = [outside EXCEPT !.untold = @ \cup {b}]
    /\ log' = [log EXCEPT !.late = @ \/ Cancelled(b)]
    /\ Returns(b)
    /\ UNCHANGED disk

NetworkChanges(n) ==
    /\ n # outside.network /\ Called
    /\ outside' = [network |-> n,
                   untold |-> {b \in Boots : memory.listener[b].subscribed}]
    /\ UNCHANGED <<memory, disk, log>>

\* NetInfo tells a listener that is still subscribed.
Tell(b) ==
    /\ b \in outside.untold
    /\ memory' = IF memory.listener[b].subscribed
                   THEN UpdateState(memory, b, outside.network) ELSE memory
    /\ outside' = [outside EXCEPT !.untold = @ \ {b}]
    /\ UNCHANGED <<disk, call, log, calls>>

BootNext ==
    \/ \E valid \in BOOLEAN : GiveManifest(valid)
    \/ Unmount
    \/ \E b \in Boots : Persisted(b) \/ BootFails(b) \/ Booted(b) \/ Tell(b)
    \/ \E n \in Network : NetworkChanges(n)

-----------------------------------------------------------------------------
BootTypeOK ==
    /\ memory.status \in {"booting", "ready", "error"}
    /\ memory.boot \in {0} \cup Boots /\ memory.runtime \in BOOLEAN
    /\ outside.network \in Network /\ outside.untold \subseteq Boots

\* A boot that ends late, after another manifest was refused or the provider unmounted,
\* does not make the provider ready: there is a runtime whenever it turns ready
\* (`cancelled` in RuntimeProvider.tsx).
ReadyStep == memory.status # "ready" /\ memory'.status = "ready" => memory'.runtime
ReadyHasRuntime == [][ReadyStep]_clientVars

\* Only a boot that was cut short leaves its listener subscribed; all others are gone
\* with the effect (destroy in connectivity-listener.ts).
OnlyCutShortStays ==
    \A b \in Boots : memory.listener[b].subscribed /\ Cancelled(b) => b \in log.cutShort

\* When NetInfo has told everyone, the listener of the provider knows whether it is
\* online, and so does what is shown, unless a cancelled boot showed its state late.
ShownIsCurrent ==
    LET b == memory.boot IN
    /\ b # 0 /\ memory.runtime /\ memory.listener[b].subscribed /\ outside.untold = {}
    => /\ memory.listener[b].state.level = ToConnectivityLevel(outside.network)
       /\ log.late \/ memory.shown = ToConnectivityLevel(outside.network)

\* "4. Disposes listeners on unmount."
UnmountedIsUnsubscribed ==
    \A b \in Boots : Cancelled(b) => ~memory.listener[b].subscribed

\* "Check if the current connection supports full sync (WiFi/ethernet)."
FullSyncOnlyOnWifi ==
    LET b == memory.boot IN
    /\ b # 0 /\ memory.runtime /\ memory.listener[b].subscribed /\ outside.untold = {}
    /\ CanDoFullSync(b)
    => outside.network.type = "wifi"
=============================================================================
