------------------------------ MODULE SyncPull ------------------------------
(***************************************************************************)
(* The pull half of OfflineSyncAggregate: PullCoordinator.execute, called  *)
(* by handlePullCron for one table reference after the other, against a    *)
(* remote log of changes.  A pull reads the cursor of its table, fetches   *)
(* every change since then (the table reference is not part of the         *)
(* request), applies the changes one by one, and then moves the cursor to  *)
(* the local time of that moment.                                          *)
(*                                                                         *)
(* Whether a row of pending_operations for the same resource is pending    *)
(* does not matter here: resolvePullConflict ends in applyChange under     *)
(* every strategy, and the local row is left alone.                        *)
(***************************************************************************)
EXTENDS Naturals, FiniteSets

CONSTANTS
    Changes,    \* changes other devices make at the remote
    NumTables,  \* the table references a pull tick goes through, in order
    Pullers,    \* pull ticks that may be under way together
    MaxTime,    \* bound: the clock
    MaxPullFaults,  \* bound: failed calls and crashes
    MaxCopies   \* bound: local records of one change that are told apart

ASSUME SyncPullAssumption ==
    /\ NumTables \in Nat \ {0} /\ MaxTime \in Nat \ {0} /\ MaxPullFaults \in Nat
    /\ MaxCopies \in Nat \ {0}
    /\ IsFiniteSet(Changes) /\ IsFiniteSet(Pullers)

VARIABLES
    now,        \* the clock, of the remote and of the device alike
    stamp,      \* when each change was made at the remote, 0 while it was not
    copies,     \* local records (status confirmed) created for each change
    tracked,    \* the tables that have a row in sync_statuses
    cursor,     \* sync_statuses.derniere_synchro_timestamp of each table
    pos,        \* the table a tick is pulling, 0 when it is idle
    phase,      \* where execute stands for that table
    since,      \* the cursor it read
    todo,       \* the fetched changes it has not handled yet
    skipped,    \* changes noted under PullResult.errors
    pullFaults

pullVars == <<now, stamp, copies, tracked, cursor, pos, phase, since, todo, skipped, pullFaults>>
tick == <<pos, phase, since, todo>>

Tables == 1 .. NumTables
Made   == {c \in Changes : stamp[c] # 0}

\* The cursor as execute sees it: the epoch when there is no row.
\* Mutant: the present instead of the epoch.
Cursor_Now(t) == IF t \in tracked THEN cursor[t] ELSE now

Cursor(t) == IF t \in tracked THEN cursor[t] ELSE 0

PullInit ==
    /\ now    = 1
    /\ stamp  = [c \in Changes |-> 0]
    /\ copies = [c \in Changes |-> 0]
    /\ tracked \in SUBSET Tables
    /\ cursor = [t \in Tables |-> 0]
    /\ pos    = [p \in Pullers |-> 0]
    /\ phase  = [p \in Pullers |-> "lookup"]
    /\ since  = [p \in Pullers |-> 0]
    /\ todo   = [p \in Pullers |-> {}]
    /\ skipped = {}
    /\ pullFaults = 0

\* Time passes.
Clock ==
    /\ now < MaxTime
    /\ now' = now + 1
    /\ UNCHANGED <<stamp, copies, tracked, cursor, tick, pullFaults, skipped>>

\* Another device's change arrives at the remote.
RemoteChange(c) ==
    /\ c \in Changes \ Made
    /\ stamp' = [stamp EXCEPT ![c] = now]
    /\ UNCHANGED <<now, copies, tracked, cursor, tick, pullFaults, skipped>>

\* What the remote answers to GET /sync/delta?since=s.
\* Mutant: changes after s only.
Delta_After(s) == {c \in Made : stamp[c] > s}

Delta(s) == {c \in Made : stamp[c] >= s}

-----------------------------------------------------------------------------
PullTick(p) ==
    /\ pos[p] = 0
    /\ pos'   = [pos EXCEPT ![p] = 1]
    /\ UNCHANGED <<now, stamp, copies, tracked, cursor, phase, since, todo, pullFaults, skipped>>

\* statusRepo.findByOrgAndTable
Lookup(p) ==
    /\ pos[p] # 0 /\ phase[p] = "lookup"
    /\ since' = [since EXCEPT ![p] = Cursor(pos[p])]
    /\ phase' = [phase EXCEPT ![p] = "fetch"]
    /\ UNCHANGED <<now, stamp, copies, tracked, cursor, pos, todo, pullFaults, skipped>>

Fetch(p) ==
    /\ phase[p] = "fetch"
    /\ todo'  = [todo EXCEPT ![p] = Delta(since[p])]
    /\ phase' = [phase EXCEPT ![p] = "apply"]
    /\ UNCHANGED <<now, stamp, copies, tracked, cursor, pos, since, pullFaults, skipped>>

PullCallFails == pullFaults < MaxPullFaults /\ pullFaults' = pullFaults + 1

EndTick(p) ==
    /\ pos'   = [pos EXCEPT ![p] = 0]
    /\ phase' = [phase EXCEPT ![p] = "lookup"]
    /\ since' = [since EXCEPT ![p] = 0]
    /\ todo'  = [todo EXCEPT ![p] = {}]

\* Outside the loop over the changes a failed call (the lookup, the fetch or the
\* cursor update) makes execute throw; the scheduler's catch then skips the
\* tables that were still to come.
ExecuteThrows(p) ==
    /\ pos[p] # 0 /\ todo[p] = {}
    /\ PullCallFails
    /\ EndTick(p)
    /\ UNCHANGED <<now, stamp, copies, tracked, cursor, skipped>>

\* applyChange inserts another record, whether or not one is there already.
Apply(p, c) ==
    /\ c \in todo[p]
    /\ copies' = [copies EXCEPT ![c] = IF @ < MaxCopies THEN @ + 1 ELSE @]
    /\ todo'   = [todo EXCEPT ![p] = @ \ {c}]
    /\ UNCHANGED <<now, stamp, tracked, cursor, pos, phase, since, pullFaults, skipped>>

\* The insert fails: the change is noted under errors and passed over.
ApplyThrows(p, c) ==
    /\ c \in todo[p]
    /\ PullCallFails
    /\ skipped' = skipped \cup {c}
    /\ todo' = [todo EXCEPT ![p] = @ \ {c}]
    /\ UNCHANGED <<now, stamp, copies, tracked, cursor, pos, phase, since>>

\* updateLastSyncTimestamp(new Date()): the time of the end of the pull, not of
\* the fetch.  updateMany changes nothing when the row does not exist.
\* Mutant: the timestamp is rounded up.
Advance_RoundedUp(p) ==
    /\ phase[p] = "apply" /\ todo[p] = {}
    /\ cursor' = IF pos[p] \in tracked THEN [cursor EXCEPT ![pos[p]] = now + 1] ELSE cursor
    /\ EndTick(p)
    /\ UNCHANGED <<now, stamp, copies, tracked, pullFaults, skipped>>

Advance(p) ==
    /\ phase[p] = "apply" /\ todo[p] = {}
    /\ cursor' = IF pos[p] \in tracked THEN [cursor EXCEPT ![pos[p]] = now] ELSE cursor
    /\ IF pos[p] = NumTables
         THEN EndTick(p)
         ELSE /\ pos'   = [pos EXCEPT ![p] = @ + 1]
              /\ phase' = [phase EXCEPT ![p] = "lookup"]
              /\ since' = [since EXCEPT ![p] = 0]
              /\ UNCHANGED todo
    /\ UNCHANGED <<now, stamp, copies, tracked, pullFaults, skipped>>

PullStep(p) ==
    \/ PullTick(p) \/ Lookup(p) \/ Fetch(p) \/ Advance(p)
    \/ \E c \in Changes : Apply(p, c)

PullFault(p) == ExecuteThrows(p) \/ \E c \in Changes : ApplyThrows(p, c)

\* The server process stops and is started again.
PullCrash ==
    /\ \E p \in Pullers : pos[p] # 0
    /\ PullCallFails
    /\ pos'   = [p \in Pullers |-> 0]
    /\ phase' = [p \in Pullers |-> "lookup"]
    /\ since' = [p \in Pullers |-> 0]
    /\ todo'  = [p \in Pullers |-> {}]
    /\ UNCHANGED <<now, stamp, copies, tracked, cursor, skipped>>

PullNext ==
    \/ Clock \/ PullCrash
    \/ \E c \in Changes : RemoteChange(c)
    \/ \E p \in Pullers : PullStep(p) \/ PullFault(p)

PullSpec == PullInit /\ [][PullNext]_pullVars

\* The cron keeps firing and a started pull goes on.
FairPullSpec == PullSpec /\ \A p \in Pullers : WF_pullVars(PullStep(p))

-----------------------------------------------------------------------------
(* Properties *)

PullTypeOK ==
    /\ now \in 1 .. MaxTime
    /\ stamp \in [Changes -> 0 .. MaxTime]
    /\ copies \in [Changes -> 0 .. MaxCopies]
    /\ tracked \subseteq Tables
    /\ cursor \in [Tables -> 0 .. MaxTime]
    /\ pos \in [Pullers -> 0 .. NumTables]
    /\ phase \in [Pullers -> {"lookup", "fetch", "apply"}]
    /\ since \in [Pullers -> 0 .. MaxTime]
    /\ todo \in [Pullers -> SUBSET Changes]
    /\ skipped \subseteq Changes
    /\ pullFaults \in 0 .. MaxPullFaults

\* A pull will still fetch c, or has and is about to apply it.
StillComing(c) ==
    \/ \E p \in Pullers : c \in todo[p]
    \/ \E t \in Tables : Cursor(t) <= stamp[c]

\* No missing updates: every change made at the remote has a local record or is
\* still coming.  A change made between a fetch and the end of that pull slips
\* under that table's cursor; another table's older cursor must cover it.
NoMissingUpdates == \A c \in Made : copies[c] = 0 => StillComing(c)

\* A failed insert is skipped and the cursor moves on over it.  Otherwise, or as
\* long as one table has no row in sync_statuses, nothing is missing.
MissingOnlyIfSkipped ==
    \A c \in Made : copies[c] = 0 =>
        StillComing(c) \/ (c \in skipped /\ tracked = Tables)

\* Every other remote change is eventually recorded locally.
EventuallyPulled ==
    \A c \in Changes :
        stamp[c] # 0 ~> (copies[c] > 0 \/ (c \in skipped /\ tracked = Tables))
=============================================================================
