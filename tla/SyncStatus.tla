----------------------------- MODULE SyncStatus ------------------------------
(***************************************************************************)
(* What src/safe-boot/backend/src/domains/sync has besides the push and    *)
(* pull coordinators: the scheduler's list of organizations and its        *)
(* cycles, and the connection state of the trackers.                       *)
(*                                                                         *)
(* Ids are organizations and the scheduler, whose row is what it holds in  *)
(* memory.  An organization has a row when it has trackers: nothing calls  *)
(* the repository's upsert, so whether it has is settled at the start, and *)
(* updateMany gives all of them one state.                                 *)
(***************************************************************************)
EXTENDS AggregateStore

CONSTANT
    Scheduler  \* \in Ids

Orgs == Ids \ {Scheduler}
Connection == {"online", "offline"}
Tracker == [state : Connection]

\* initializedOrgs, previousConnectionState
Memory == [orgs |-> <<>>, previous |-> "null"]

SyncStatusInit ==
    /\ rows \in {[tracked EXCEPT ![Scheduler] = Memory] :
                   tracked \in [Ids -> {NoRow, [state |-> "online"]}]}
    /\ request = [r \in Requests |-> Idle]
    /\ log = <<>>
    /\ clock = 0 /\ commands = 0

-----------------------------------------------------------------------------
(* SyncScheduler: initializedOrgs and the cycles that go through it *)

Registered == rows[Scheduler].orgs
Holds(orgs, o) == \E k \in DOMAIN orgs : orgs[k] = o

\* A cycle goes through the array it found.  `live` says that it is still the scheduler's:
\* registerOrg extends that array, unregisterOrg replaces it.
Cycle(r) == request[r].at = "cycle"

\* Mutant: registerOrg does not look whether the organization is there.
RegisterOrg_Again(o) ==
    /\ commands < MaxCommands /\ commands' = commands + 1
    /\ rows' = [rows EXCEPT ![Scheduler].orgs = Append(@, o)]
    /\ request' = [r \in Requests |-> IF Cycle(r) /\ request[r].live
                                      THEN [request[r] EXCEPT !.orgs = Append(@, o)] ELSE request[r]]
    /\ UNCHANGED <<log, clock>>

RegisterOrg(o) ==
    /\ commands < MaxCommands /\ commands' = commands + 1
    /\ ~Holds(Registered, o)
    /\ rows' = [rows EXCEPT ![Scheduler].orgs = Append(@, o)]
    /\ request' = [r \in Requests |-> IF Cycle(r) /\ request[r].live
                                      THEN [request[r] EXCEPT !.orgs = Append(@, o)] ELSE request[r]]
    /\ UNCHANGED <<log, clock>>

UnregisterOrg(o) ==
    /\ commands < MaxCommands /\ commands' = commands + 1
    /\ rows' = [rows EXCEPT ![Scheduler].orgs = SelectSeq(@, LAMBDA id : id # o)]
    /\ request' = [r \in Requests |-> IF Cycle(r) THEN [request[r] EXCEPT !.live = FALSE]
                                                  ELSE request[r]]
    /\ UNCHANGED <<log, clock>>

\* handlePushCron, handlePullCron, handleRetryCron: an organization whose call fails is left
\* for the next cycle.  visited is history.
HandleCron(r) ==
    /\ Registered # <<>>
    /\ Starts(r, [at |-> "cycle", orgs |-> Registered, live |-> TRUE, visited |-> <<>>])
    /\ UNCHANGED <<rows, log, clock>>

CycleNext(r) ==
    /\ Cycle(r)
    /\ LET q == request[r]
           n == Len(q.visited) + 1
       IN  IF n <= Len(q.orgs)
           THEN GoesOn(r, [q EXCEPT !.visited = Append(@, q.orgs[n])])
           ELSE IsAnswered(r)
    /\ UNCHANGED <<rows, log, clock>>

-----------------------------------------------------------------------------
(* Connection state *)

UpdateConnectionState(r, o, state) ==
    /\ rows' = IF Stored(o) THEN [rows EXCEPT ![o].state = state] ELSE rows
    /\ StartsAndEnds(r)
    /\ UNCHANGED <<log, clock>>

\* checkConnectivity: without a tracker the organization is taken to be online.
StateOf(o) == IF Stored(o) THEN rows[o].state ELSE "online"

CheckConnectivity(r, o) ==
    /\ Starts(r, [at |-> "check", org |-> o, found |-> StateOf(o)])
    /\ UNCHANGED <<rows, log, clock>>

\* checkAndSyncConnectivity, once it has the answer.  previousConnectionState is one for
\* all organizations.
CheckNext(r) ==
    /\ request[r].at = "check"
    /\ rows' = [rows EXCEPT ![Scheduler].previous = request[r].found]
    /\ IsAnswered(r)
    /\ UNCHANGED <<log, clock>>

-----------------------------------------------------------------------------

\* The process stops: its list of organizations is empty again.
SchedulerStops ==
    /\ commands < MaxCommands /\ commands' = commands + 1
    /\ rows[Scheduler] # Memory
    /\ rows' = [rows EXCEPT ![Scheduler] = Memory]
    /\ request' = [r \in Requests |-> Idle]
    /\ UNCHANGED <<log, clock>>

Cycles == \/ \E o \in Orgs : RegisterOrg(o) \/ UnregisterOrg(o)
          \/ \E r \in Requests : HandleCron(r) \/ CycleNext(r)

Connections == \E r \in Requests :
    \/ \E o \in Orgs : CheckConnectivity(r, o) \/ \E s \in Connection : UpdateConnectionState(r, o, s)
    \/ CheckNext(r)

SyncStatusNext == Cycles \/ Connections \/ SchedulerStops

-----------------------------------------------------------------------------

\* The organizations of a cycle and the state of every tracker are of their types.
SyncStatusTypeOK ==
    /\ \A o \in Orgs : rows[o] \in Tracker \cup {NoRow}
    /\ rows[Scheduler].previous \in Connection \cup {"null"}
    /\ \A r \in Requests : Cycle(r) => Len(request[r].visited) <= Len(request[r].orgs)

\* However organizations are registered and unregistered while a cycle runs (initializedOrgs
\* is extended in place and replaced), the cycle does none of them twice.
OncePerCycle == \A r \in Requests : Cycle(r) =>
    \A j, k \in DOMAIN request[r].visited :
        request[r].visited[j] = request[r].visited[k] => j = k

-----------------------------------------------------------------------------
(***************************************************************************)
(* Two services of src/safe-boot/backend/src/domains/sync that keep        *)
(* nothing: the Retrier, and ConflictResolver with the strategies of       *)
(* ConflictResolutionPolicy.  The table is not used.                       *)
(***************************************************************************)
CONSTANT
    MaxAttempts  \* maxAttempts of Retrier.execute

Nothing == [type |-> "none"]

\* log: the calls of resolve and of execute that ended last
SyncRulesInit == StoreInit([resolved |-> Nothing, tried |-> <<>>], 0)

-----------------------------------------------------------------------------
(* Retrier.execute.  An instant is the delay after the first attempt. *)

\* Mutant: every delay is the first one.
DelayAfter_Flat(attempt) == 1

DelayAfter(attempt) ==
    LET capped == IF attempt > 5 THEN 5 ELSE IF attempt < 1 THEN 1 ELSE attempt
    IN  2 ^ (capped - 1)

Execute(r) ==
    /\ Starts(r, [at |-> "attempt", tried |-> <<clock>>])
    /\ UNCHANGED <<rows, log, clock>>

AttemptSucceeds(r) ==
    /\ request[r].at = "attempt"
    /\ log' = [log EXCEPT !.tried = request[r].tried]
    /\ IsAnswered(r)
    /\ UNCHANGED <<rows, clock>>

\* The error of the last attempt is thrown.
AttemptFails(r) ==
    /\ request[r].at = "attempt"
    /\ LET q == request[r]
           attempt == Len(q.tried)
       IN  IF attempt >= MaxAttempts
           THEN log' = [log EXCEPT !.tried = q.tried] /\ IsAnswered(r)
           ELSE GoesOn(r, [at |-> "sleep", tried |-> q.tried, until |-> clock + DelayAfter(attempt)])
                /\ UNCHANGED log
    /\ UNCHANGED <<rows, clock>>

Wakes(r) ==
    /\ request[r].at = "sleep" /\ clock >= request[r].until
    /\ GoesOn(r, [at |-> "attempt", tried |-> Append(request[r].tried, clock)])
    /\ UNCHANGED <<rows, log, clock>>

-----------------------------------------------------------------------------
(* ConflictResolver.resolve.  A payload has a state or "none", an id or "none", and a time for   *)
(* some of the fields that may hold one.                                                     *)

ResourceTypes == {"transaction", "member", "archive_entry", "other"}
States == {"none", "draft", "pending", "approved"}
StampFields == <<"updated_at", "synced_at">>
Stamps == UNION {[fields -> 1..2] : fields \in SUBSET {"updated_at", "synced_at"}}
Payload(states, ids, stamps) == [state : states, id : ids, stamp : stamps]

\* Payloads of a type that differ in what is looked at
PayloadsOf(type) ==
    CASE type = "transaction" -> Payload(States, {"none", "i", "j"}, {<<>>})
      [] type = "member" -> Payload({"none"}, {"none"}, Stamps)
      [] OTHER -> Payload({"none"}, {"none"}, {<<>>})

\* ConflictResolutionPolicy.getStrategy
Strategy(type, localState) ==
    CASE type = "transaction" /\ localState = "draft" -> "uuid_dedup"
      [] type = "transaction" /\ localState # "draft" -> "immutable"
      [] type = "member" -> "LWW"
      [] OTHER -> "server_wins"

ExtractTimestamp(payload) ==
    LET present == {k \in DOMAIN StampFields : StampFields[k] \in DOMAIN payload.stamp}
    IN  IF present = {} THEN 0
        ELSE payload.stamp[StampFields[CHOOSE k \in present : \A j \in present : k <= j]]

\* The outcome, whose fields win where both payloads have them, and whose are kept
\* where one has them
LocalWins == [resolution |-> "local_wins", shared |-> "local", kept |-> {"local"}]
RemoteWins == [resolution |-> "remote_wins", shared |-> "remote", kept |-> {"local", "remote"}]
BothKept == [resolution |-> "both_kept", shared |-> "local", kept |-> {"local", "copy"}]
Blocked == [resolution |-> "blocked", shared |-> "none", kept |-> {}]

\* Mutant: the state looked at is the one of the local payload.
ResolveImmutable_Local(local, remote) == IF local.state = "approved" THEN Blocked ELSE LocalWins

ResolveImmutable(local, remote) == IF remote.state = "approved" THEN Blocked ELSE LocalWins

\* Mutant: the comparison is the wrong way round.
ResolveLWW_Oldest(local, remote) ==
    IF ExtractTimestamp(remote) <= ExtractTimestamp(local) THEN RemoteWins ELSE LocalWins

ResolveLWW(local, remote) ==
    IF ExtractTimestamp(remote) >= ExtractTimestamp(local) THEN RemoteWins ELSE LocalWins

ResolveUuidDedup(local, remote) ==
    IF local.id # "none" /\ remote.id # "none" /\ local.id # remote.id THEN BothKept ELSE LocalWins

Resolve(type, local, remote) ==
    CASE Strategy(type, local.state) = "immutable" -> ResolveImmutable(local, remote)
      [] Strategy(type, local.state) = "LWW" -> ResolveLWW(local, remote)
      [] Strategy(type, local.state) = "uuid_dedup" -> ResolveUuidDedup(local, remote)
      [] OTHER -> RemoteWins

ResolveConflict(r, type, local, remote) ==
    /\ log' = [log EXCEPT !.resolved = [type |-> type, local |-> local, remote |-> remote,
                                        outcome |-> Resolve(type, local, remote)]]
    /\ StartsAndEnds(r)
    /\ UNCHANGED <<rows, clock>>

-----------------------------------------------------------------------------

Retries == \E r \in Requests : Execute(r) \/ AttemptSucceeds(r) \/ AttemptFails(r) \/ Wakes(r)

Resolutions ==
    /\ commands < MaxCommands
    /\ \E r \in Requests, type \in ResourceTypes :
         \E local, remote \in PayloadsOf(type) : ResolveConflict(r, type, local, remote)

SyncRulesNext == Retries \/ Resolutions \/ Tick

-----------------------------------------------------------------------------

\* Retrier.execute: no more attempts than asked for, and every wait between two of them is at
\* least twice the one that was due before it.
BacksOff == log.tried # <<>> =>
    /\ Len(log.tried) <= MaxAttempts
    /\ \A k \in 2..Len(log.tried) : log.tried[k] - log.tried[k - 1] >= 2 ^ (k - 2)

\* ConflictResolver: an approved remote transaction gives way to nothing but a local draft,
\* whose state decides the strategy; nothing of a member is taken from the older side when
\* both say when they were changed in the same field, whichever of the two resolves it.
ResolvedSoundly == log.resolved # Nothing =>
    LET c == log.resolved
    IN  /\ c.type = "transaction" /\ c.remote.state = "approved" /\ c.outcome.shared # "none"
             => c.local.state = "draft"
        /\ c.type = "member" /\ DOMAIN c.local.stamp = DOMAIN c.remote.stamp
           /\ ExtractTimestamp(c.local) # ExtractTimestamp(c.remote)
             => (c.outcome.shared = "local") = (ExtractTimestamp(c.local) > ExtractTimestamp(c.remote))

RulesSound == BacksOff /\ ResolvedSoundly

\* Not kept (conflict-resolution-policy.ts:17 says such drafts are kept side by side): a local
\* draft replaces the approved transaction of the server that has the same id.
ApprovedIsNotReplaced == log.resolved # Nothing =>
    (log.resolved.type = "transaction" /\ log.resolved.remote.state = "approved"
       => log.resolved.outcome.resolution # "local_wins")
=============================================================================
