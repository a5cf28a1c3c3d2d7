----------------------------- MODULE Lifecycle -----------------------------
(***************************************************************************)
(* Archive entries and purge schedules (src/safe-boot/backend/src/domains/ *)
(* lifecycle): two tables, whose rows share Ids.  The commands write single *)
(* columns by id; a row is never deleted.  The clock counts months.        *)
(***************************************************************************)
EXTENDS AggregateStore

LifecycleState == {"active", "archived", "trashed", "purged"}
Retentions == {1, 3, 6, 12, 24, 36, 60, 120}

EntryRow == [table : {"archives"}, state : LifecycleState]
ScheduleRow == [table : {"purge_schedules"}, entry : Ids, eligible : LifecycleState,
                due : Nat, executed : BOOLEAN]

IsEntry(i) == Stored(i) /\ rows[i].table = "archives"
IsSchedule(i) == Stored(i) /\ rows[i].table = "purge_schedules"

\* LIFECYCLE_TRANSITIONS
CanTransition(from, to) ==
    to \in CASE from = "active" -> {"archived"}
             [] from = "archived" -> {"trashed", "active"}
             [] from = "trashed" -> {"active", "purged"}
             [] OTHER -> {}

\* StateTransitionValidator.isRestorable
IsRestorable(s) == CanTransition(s, "active")

LifecycleInit == StoreInit([purged |-> {}, restored |-> {}], 0)

-----------------------------------------------------------------------------
\* The entry is stored 'active': the resource it came from is what is archived.
ArchiveResource(r, i) ==
    /\ ~Stored(i)
    /\ PutRow(i, [table |-> "archives", state |-> "active"])
    /\ StartsAndEnds(r)
    /\ UNCHANGED <<log, clock>>

\* trashResource refuses an entry in the trash, and no other.
TrashResource(r, i) ==
    /\ IsEntry(i) /\ rows[i].state # "trashed"
    /\ Starts(r, [at |-> "update", id |-> i, to |-> "trashed"])
    /\ UNCHANGED <<rows, log, clock>>

RestoreResource(r, i) ==
    /\ IsEntry(i) /\ IsRestorable(rows[i].state)
    /\ Starts(r, [at |-> "update", id |-> i, to |-> "active"])
    /\ UNCHANGED <<rows, log, clock>>

\* The row is read again for the answer only: it cannot be gone.
UpdateState(r) ==
    LET c == request[r] IN
    /\ c.at = "update"
    /\ PutRow(c.id, [rows[c.id] EXCEPT !.state = c.to])
    /\ log' = IF c.to = "active" THEN [log EXCEPT !.restored = @ \cup {c.id}] ELSE log
    /\ IsAnswered(r)
    /\ UNCHANGED clock

\* schedulePurge: any state, and whether or not a schedule of the entry is pending
SchedulePurge(r, i, months) ==
    /\ IsEntry(i) /\ months \in Retentions
    /\ Starts(r, [at |-> "schedule", id |-> i, eligible |-> rows[i].state, due |-> clock + months])
    /\ UNCHANGED <<rows, log, clock>>

CreateSchedule(r, s) ==
    LET c == request[r] IN
    /\ c.at = "schedule" /\ ~Stored(s)
    /\ PutRow(s, [table |-> "purge_schedules", entry |-> c.id, eligible |-> c.eligible,
                  due |-> c.due, executed |-> FALSE])
    /\ IsAnswered(r)
    /\ UNCHANGED <<log, clock>>

\* findPendingByDate: what the job that purges asks for
FindPurgeEligible == {s \in Ids : IsSchedule(s) /\ ~rows[s].executed /\ rows[s].due <= clock}

\* Mutant: the schedule is marked, and the entry stays what it was.
ExecutePurge_MarkOnly(r, s) ==
    /\ IsSchedule(s)
    /\ Starts(r, [at |-> "executed", id |-> s])
    /\ UNCHANGED <<rows, log, clock>>

\* executePurge does not look whether the schedule is due, or was executed already, or
\* what the state of the entry is.
ExecutePurge(r, s) ==
    /\ IsSchedule(s)
    /\ Starts(r, [at |-> "purge", id |-> s])
    /\ UNCHANGED <<rows, log, clock>>

\* markTrashed
TrashPurged(r) ==
    LET c == request[r]  e == rows[c.id].entry IN
    /\ c.at = "purge"
    /\ PutRow(e, [rows[e] EXCEPT !.state = "trashed"])
    /\ log' = [log EXCEPT !.purged = @ \cup {e}]
    /\ GoesOn(r, [c EXCEPT !.at = "executed"])
    /\ UNCHANGED clock

MarkExecuted(r) ==
    LET c == request[r] IN
    /\ c.at = "executed"
    /\ PutRow(c.id, [rows[c.id] EXCEPT !.executed = TRUE])
    /\ IsAnswered(r)
    /\ UNCHANGED <<log, clock>>

LifecycleNext ==
    \/ \E r \in Requests, i \in Ids :
          \/ ArchiveResource(r, i) \/ TrashResource(r, i) \/ RestoreResource(r, i)
          \/ \E months \in 0 .. 3 : SchedulePurge(r, i, months)
          \/ CreateSchedule(r, i)
          \/ ExecutePurge(r, i)
    \/ \E r \in Requests : UpdateState(r) \/ TrashPurged(r) \/ MarkExecuted(r)
    \/ StopProcess
    \/ Tick

LifecycleSpec == LifecycleInit /\ [][LifecycleNext]_aggregateVars

-----------------------------------------------------------------------------
LifecycleTypeOK ==
    /\ rows \in [Ids -> EntryRow \cup ScheduleRow \cup {NoRow}]
    /\ log.purged \subseteq Ids /\ log.restored \subseteq Ids

\* Through crashes between the two writes of executePurge no purge is lost: a schedule
\* stays among those that are due until its entry was put into the trash, and an entry
\* comes out of the trash again only if somebody restored it.
PurgeNeverLost ==
    \A s \in Ids : IsSchedule(s) =>
        LET e == rows[s].entry IN
        /\ rows[s].due <= clock => s \in FindPurgeEligible \/ e \in log.purged
        /\ e \in log.purged /\ rows[e].state # "trashed" => e \in log.restored

\* "BR-LIF-006: purged is irreversible" (lifecycle.service.ts, executePurge): an entry
\* whose purge was executed is not active again.
PurgedIsIrreversible ==
    \A s \in Ids : IsSchedule(s) /\ rows[s].executed => rows[rows[s].entry].state # "active"
=============================================================================
