---------------------------- MODULE BackendProofs ----------------------------
(***************************************************************************)
(* What TLAPS proves of aggregates of the backend, for any number of rows, *)
(* overlapping requests, stops of the process and instants: the purges of  *)
(* Lifecycle, the acceptance of invitations (Invite), lockout and sessions *)
(* (Sessions), the versions and approvals of transactions (Finance), the   *)
(* dates and outcomes of events (EventRecords), what organizations archive *)
(* (Organizations), the entities' states and versions (ResourceRecords),   *)
(* the rules of workflow steps (WorkflowRules), grants of power            *)
(* (Delegation) and deprecations (Vocabulary).                             *)
(* Each command is split at its awaits in the model, so the invariants say *)
(* what a request that waits may still take for granted.                   *)
(***************************************************************************)
EXTENDS Lifecycle, Invite, Sessions, Finance, EventRecords, Organizations,
        ResourceRecords, WorkflowRules, Delegation, Vocabulary, FiniteSetTheorems, TLAPS

-----------------------------------------------------------------------------
(* Lifecycle *)

LifecycleRequest ==
    {Idle}
    \cup [at : {"update"}, id : Ids, to : {"trashed", "active"}]
    \cup [at : {"schedule"}, id : Ids, eligible : LifecycleState, due : Nat]
    \cup [at : {"purge", "executed"}, id : Ids]

LifecycleTypes ==
    /\ LifecycleTypeOK
    /\ request \in [Requests -> LifecycleRequest]
    /\ log \in [purged : SUBSET Ids, restored : SUBSET Ids]
    /\ clock \in Nat

\* A request goes on with the row it found, and marks a schedule whose entry was purged.
LifecycleUnderWay ==
    \A r \in Requests :
        LET c == request[r] IN
        /\ c.at \in {"update", "schedule"} => IsEntry(c.id)
        /\ c.at \in {"purge", "executed"} => IsSchedule(c.id)
        /\ c.at = "executed" => rows[c.id].entry \in log.purged

SchedulesSound ==
    \A s \in Ids : IsSchedule(s) =>
        /\ IsEntry(rows[s].entry)
        /\ rows[s].executed => rows[s].entry \in log.purged

PurgedSound ==
    \A e \in log.purged : IsEntry(e) /\ (rows[e].state # "trashed" => e \in log.restored)

LifecycleInv == LifecycleTypes /\ LifecycleUnderWay /\ SchedulesSound /\ PurgedSound

\* A row of either table is a row.
LEMMA LifecycleStored ==
    /\ \A row \in EntryRow : row # NoRow /\ row.table = "archives"
    /\ \A row \in ScheduleRow : row # NoRow /\ row.table = "purge_schedules"
<1>1. DOMAIN NoRow = {"state"}
  BY DEF NoRow
<1>2. \A row \in EntryRow : "table" \in DOMAIN row /\ row.table = "archives"
  BY DEF EntryRow
<1>3. \A row \in ScheduleRow : "table" \in DOMAIN row /\ row.table = "purge_schedules"
  BY DEF ScheduleRow
<1>4. QED
  BY <1>1, <1>2, <1>3

LEMMA LifecycleInvInit == LifecycleInit => LifecycleInv
  BY DEF LifecycleInit, StoreInit, LifecycleInv, LifecycleTypes, LifecycleTypeOK,
         LifecycleUnderWay, SchedulesSound, PurgedSound, LifecycleRequest, Idle, NoRow,
         IsSchedule, IsEntry, Stored

\* What the tables hold
LEMMA LifecycleRows ==
    ASSUME LifecycleTypes, NEW i \in Ids
    PROVE  /\ IsEntry(i) => rows[i] \in EntryRow
           /\ IsSchedule(i) => rows[i] \in ScheduleRow
           /\ ~(IsEntry(i) /\ IsSchedule(i))
  BY DEF LifecycleTypes, LifecycleTypeOK, IsEntry, IsSchedule, Stored, EntryRow, ScheduleRow

\* A command that only starts a request, with the row it found
LEMMA LifecycleStarts ==
    ASSUME LifecycleInv, NEW r \in Requests, NEW step \in LifecycleRequest, Starts(r, step),
           UNCHANGED <<rows, log, clock>>,
           step.at \in {"update", "schedule"} => IsEntry(step.id),
           step.at \in {"purge", "executed"} => IsSchedule(step.id),
           step.at # "executed"
    PROVE  LifecycleInv'
  BY DEF LifecycleInv, LifecycleTypes, LifecycleTypeOK, LifecycleUnderWay, SchedulesSound,
         PurgedSound, Starts, IsSchedule, IsEntry, Stored

LEMMA LifecycleInvStep == LifecycleInv /\ [LifecycleNext]_aggregateVars => LifecycleInv'
<1> SUFFICES ASSUME LifecycleInv, [LifecycleNext]_aggregateVars PROVE LifecycleInv'
  OBVIOUS
<1> LifecycleTypes
  BY DEF LifecycleInv
<1> USE DEF LifecycleInv, LifecycleTypes, LifecycleTypeOK, LifecycleUnderWay, SchedulesSound,
        PurgedSound
<1>1. ASSUME NEW r \in Requests, NEW i \in Ids, ArchiveResource(r, i) PROVE LifecycleInv'
  <2>1. [table |-> "archives", state |-> "active"] \in EntryRow
    BY DEF EntryRow, LifecycleState
  <2>2. rows' = [rows EXCEPT ![i] = [table |-> "archives", state |-> "active"]] /\ ~Stored(i)
    BY <1>1 DEF ArchiveResource, PutRow
  <2>3. LifecycleTypes'
    BY <1>1, <2>1, <2>2 DEF ArchiveResource, StartsAndEnds, Starts, LifecycleRequest
  <2>4. \A j \in Ids : Stored(j) => rows'[j] = rows[j]
    BY <2>2
  <2>5. \A j \in Ids : IsEntry(j) => IsEntry(j)' /\ rows'[j] = rows[j]
    BY <2>4 DEF IsEntry, Stored
  <2>6. \A j \in Ids : (IsSchedule(j) <=> IsSchedule(j)') /\ (IsSchedule(j) => rows'[j] = rows[j])
    BY <2>2, <2>4 DEF IsSchedule, Stored
  <2>7. \A q \in Requests : request'[q] = Idle \/ request'[q] = request[q]
    BY <1>1 DEF ArchiveResource, StartsAndEnds, Starts
  <2>8. log' = log
    BY <1>1 DEF ArchiveResource
  <2>9. \A s \in Ids : IsSchedule(s) => rows[s].entry \in Ids
    BY LifecycleRows DEF ScheduleRow
  <2>10. LifecycleUnderWay'
    BY <2>5, <2>6, <2>7, <2>8 DEF Idle, LifecycleRequest
  <2>11. SchedulesSound'
    BY <2>5, <2>6, <2>8, <2>9
  <2>12. PurgedSound'
    BY <2>5, <2>8
  <2>13. QED
    BY <2>3, <2>10, <2>11, <2>12
<1>2. ASSUME NEW r \in Requests, NEW i \in Ids, TrashResource(r, i) \/ RestoreResource(r, i)
      PROVE  LifecycleInv'
  <2>1. PICK to \in {"trashed", "active"} :
            IsEntry(i) /\ Starts(r, [at |-> "update", id |-> i, to |-> to])
    BY <1>2 DEF TrashResource, RestoreResource
  <2>2. UNCHANGED <<rows, log, clock>>
    BY <1>2 DEF TrashResource, RestoreResource
  <2>3. [at |-> "update", id |-> i, to |-> to] \in LifecycleRequest
    BY DEF LifecycleRequest
  <2>4. QED
    BY <2>1, <2>2, <2>3, LifecycleStarts
<1>3. ASSUME NEW r \in Requests, NEW i \in Ids, NEW months \in 0 .. 3, SchedulePurge(r, i, months)
      PROVE  LifecycleInv'
  <2> DEFINE step == [at |-> "schedule", id |-> i, eligible |-> rows[i].state,
                      due |-> clock + months]
  <2>1. IsEntry(i) /\ Starts(r, step) /\ UNCHANGED <<rows, log, clock>>
    BY <1>3 DEF SchedulePurge
  <2>2. rows[i].state \in LifecycleState
    BY <2>1, LifecycleRows DEF EntryRow
  <2>3. step \in LifecycleRequest
    BY <2>2 DEF LifecycleRequest
  <2>4. QED
    BY <2>1, <2>3, LifecycleStarts
<1>4. ASSUME NEW r \in Requests, NEW s \in Ids, CreateSchedule(r, s) PROVE LifecycleInv'
  <2> DEFINE c == request[r]
             row == [table |-> "purge_schedules", entry |-> c.id, eligible |-> c.eligible,
                     due |-> c.due, executed |-> FALSE]
  <2>1. c.at = "schedule" /\ IsEntry(c.id) /\ ~Stored(s)
    BY <1>4 DEF CreateSchedule
  <2>2. c \in [at : {"schedule"}, id : Ids, eligible : LifecycleState, due : Nat]
    BY <2>1 DEF LifecycleRequest, Idle
  <2>3. row \in ScheduleRow
    BY <2>2 DEF ScheduleRow
  <2>4. rows' = [rows EXCEPT ![s] = row] /\ UNCHANGED <<log, clock>>
        /\ request' = [request EXCEPT ![r] = Idle]
    BY <1>4 DEF CreateSchedule, PutRow, IsAnswered, GoesOn
  <2>5. LifecycleTypes'
    BY <2>3, <2>4 DEF LifecycleRequest
  <2>6. \A j \in Ids : IsEntry(j) => IsEntry(j)' /\ rows'[j] = rows[j]
    BY <2>1, <2>4 DEF IsEntry, Stored
  <2>7. \A j \in Ids : IsSchedule(j) => IsSchedule(j)' /\ rows'[j] = rows[j]
    BY <2>1, <2>4 DEF IsSchedule, Stored
  <2>8. \A j \in Ids : IsSchedule(j)' => IsSchedule(j) \/ rows'[j] = row
    BY <2>4 DEF IsSchedule, Stored
  <2>9. \A q \in Requests : request'[q] = Idle \/ request'[q] = request[q]
    BY <2>4
  <2>10. \A j \in Ids : IsSchedule(j) => rows[j].entry \in Ids
    BY LifecycleRows DEF ScheduleRow
  <2>11. LifecycleUnderWay'
    BY <2>4, <2>6, <2>7, <2>9 DEF Idle, LifecycleRequest
  <2>12. SchedulesSound'
    BY <2>1, <2>2, <2>4, <2>6, <2>7, <2>8, <2>10
  <2>13. PurgedSound'
    BY <2>4, <2>6
  <2>14. QED
    BY <2>5, <2>11, <2>12, <2>13
<1>5. ASSUME NEW r \in Requests, NEW s \in Ids, ExecutePurge(r, s) PROVE LifecycleInv'
  <2>1. [at |-> "purge", id |-> s] \in LifecycleRequest
    BY DEF LifecycleRequest
  <2>2. QED
    BY <1>5, <2>1, LifecycleStarts DEF ExecutePurge
<1>6. ASSUME NEW e \in Ids, NEW state \in LifecycleState, IsEntry(e),
             rows' = [rows EXCEPT ![e] = [rows[e] EXCEPT !.state = state]]
      PROVE  /\ LifecycleTypeOK!1'
             /\ \A j \in Ids : /\ IsEntry(j) => IsEntry(j)'
                               /\ IsSchedule(j) <=> IsSchedule(j)'
                               /\ j # e \/ IsSchedule(j) => rows'[j] = rows[j]
             /\ rows'[e].state = state
  <2>1. rows[e] \in EntryRow
    BY <1>6, LifecycleRows
  <2>2. [rows[e] EXCEPT !.state = state] \in EntryRow /\ rows'[e] = [rows[e] EXCEPT !.state = state]
    BY <1>6, <2>1 DEF EntryRow
  <2>3. IsEntry(e)' /\ ~IsSchedule(e)' /\ ~IsSchedule(e)
    BY <2>1, <2>2 DEF IsEntry, IsSchedule, Stored, EntryRow, NoRow
  <2>4. \A j \in Ids \ {e} : rows'[j] = rows[j]
    BY <1>6
  <2>5. \A j \in Ids \ {e} : (IsEntry(j)' <=> IsEntry(j)) /\ (IsSchedule(j)' <=> IsSchedule(j))
    BY <2>4 DEF IsEntry, IsSchedule, Stored
  <2>6. LifecycleTypeOK!1'
    BY <1>6, <2>2
  <2>7. rows'[e].state = state
    BY <2>1, <2>2 DEF EntryRow
  <2>8. QED
    BY <2>3, <2>4, <2>5, <2>6, <2>7
<1>7. ASSUME NEW r \in Requests, UpdateState(r) PROVE LifecycleInv'
  <2> DEFINE c == request[r]
  <2>1. c.at = "update" /\ IsEntry(c.id)
    BY <1>7 DEF UpdateState
  <2>2. c.id \in Ids /\ c.to \in {"trashed", "active"}
    BY <2>1 DEF LifecycleRequest, Idle
  <2>3. /\ rows' = [rows EXCEPT ![c.id] = [rows[c.id] EXCEPT !.state = c.to]]
        /\ log' = IF c.to = "active" THEN [log EXCEPT !.restored = @ \cup {c.id}] ELSE log
        /\ request' = [request EXCEPT ![r] = Idle] /\ clock' = clock
    BY <1>7 DEF UpdateState, PutRow, IsAnswered, GoesOn
  <2>4. c.to \in LifecycleState
    BY <2>2 DEF LifecycleState
  <2>5. /\ LifecycleTypeOK!1'
        /\ \A j \in Ids : /\ IsEntry(j) => IsEntry(j)'
                          /\ IsSchedule(j) <=> IsSchedule(j)'
                          /\ j # c.id \/ IsSchedule(j) => rows'[j] = rows[j]
        /\ rows'[c.id].state = c.to
    BY <1>6, <2>1, <2>2, <2>3, <2>4
  <2>6. log'.purged = log.purged /\ log.restored \subseteq log'.restored
        /\ (c.to = "active" => c.id \in log'.restored)
        /\ log' \in [purged : SUBSET Ids, restored : SUBSET Ids]
    BY <2>2, <2>3
  <2>7. LifecycleTypes'
    BY <2>3, <2>5, <2>6 DEF LifecycleRequest
  <2>8. \A q \in Requests : request'[q] = Idle \/ request'[q] = request[q]
    BY <2>3
  <2>9. LifecycleUnderWay'
    BY <2>5, <2>6, <2>8 DEF Idle, LifecycleRequest
  <2>10. \A j \in Ids : IsSchedule(j) => rows[j].entry \in Ids
    BY LifecycleRows DEF ScheduleRow
  <2>11. SchedulesSound'
    BY <2>5, <2>6, <2>10
  <2>12. PurgedSound'
    BY <2>2, <2>5, <2>6
  <2>13. QED
    BY <2>7, <2>9, <2>11, <2>12
<1>8. ASSUME NEW r \in Requests, TrashPurged(r) PROVE LifecycleInv'
  <2> DEFINE c == request[r]
  <2>1. c.at = "purge" /\ IsSchedule(c.id)
    BY <1>8 DEF TrashPurged
  <2>2. c \in [at : {"purge", "executed"}, id : Ids]
    BY <2>1 DEF LifecycleRequest, Idle
  <2>3. PICK e \in Ids : e = rows[c.id].entry /\ IsEntry(e)
    BY <2>1, <2>2, LifecycleRows DEF ScheduleRow
  <2>4. /\ rows' = [rows EXCEPT ![e] = [rows[e] EXCEPT !.state = "trashed"]]
        /\ log' = [log EXCEPT !.purged = @ \cup {e}]
        /\ request' = [request EXCEPT ![r] = [c EXCEPT !.at = "executed"]] /\ clock' = clock
    BY <1>8, <2>3 DEF TrashPurged, PutRow, GoesOn
  <2>5. "trashed" \in LifecycleState
    BY DEF LifecycleState
  <2>6. /\ LifecycleTypeOK!1'
        /\ \A j \in Ids : /\ IsEntry(j) => IsEntry(j)'
                          /\ IsSchedule(j) <=> IsSchedule(j)'
                          /\ j # e \/ IsSchedule(j) => rows'[j] = rows[j]
        /\ rows'[e].state = "trashed"
    <3> HIDE DEF c
    <3>1. IsEntry(e) /\ rows' = [rows EXCEPT ![e] = [rows[e] EXCEPT !.state = "trashed"]]
      BY <2>3, <2>4
    <3>2. QED
      BY <1>6, <2>5, <3>1
  <2>7. /\ log'.purged = log.purged \cup {e} /\ log'.restored = log.restored
        /\ log' \in [purged : SUBSET Ids, restored : SUBSET Ids]
    BY <2>3, <2>4
  <2>8. /\ [c EXCEPT !.at = "executed"] \in [at : {"purge", "executed"}, id : Ids]
        /\ [c EXCEPT !.at = "executed"].at = "executed" /\ [c EXCEPT !.at = "executed"].id = c.id
    BY <2>2
  <2>9. LifecycleTypes'
    BY <2>4, <2>6, <2>7, <2>8 DEF LifecycleRequest
  <2>10. \A q \in Requests \ {r} : request'[q] = request[q]
    BY <2>4
  <2>11. request'[r].at = "executed" /\ request'[r].id = c.id
    BY <2>4, <2>8
  <2>12. \A q \in Requests : request[q].at \in {"update", "schedule", "purge", "executed"} =>
             request[q].id \in Ids
    BY DEF LifecycleRequest, Idle
  <2>13. LifecycleUnderWay'
    BY <2>1, <2>2, <2>3, <2>6, <2>7, <2>10, <2>11, <2>12
  <2>14. \A j \in Ids : IsSchedule(j) => rows[j].entry \in Ids
    BY LifecycleRows DEF ScheduleRow
  <2>15. SchedulesSound'
    BY <2>6, <2>7, <2>14
  <2>16. PurgedSound'
    BY <2>3, <2>6, <2>7
  <2>17. QED
    BY <2>9, <2>13, <2>15, <2>16
<1>9. ASSUME NEW r \in Requests, MarkExecuted(r) PROVE LifecycleInv'
  <2> DEFINE c == request[r]
  <2>1. c.at = "executed" /\ IsSchedule(c.id) /\ rows[c.id].entry \in log.purged
    BY <1>9 DEF MarkExecuted
  <2>2. PICK s \in Ids : s = c.id
    BY <2>1 DEF LifecycleRequest, Idle
  <2> DEFINE row == [rows[s] EXCEPT !.executed = TRUE]
  <2>3. rows[s] \in ScheduleRow
    BY <2>1, <2>2, LifecycleRows
  <2>4. row \in ScheduleRow /\ row.entry = rows[s].entry
    BY <2>3 DEF ScheduleRow
  <2>5. /\ rows' = [rows EXCEPT ![s] = row] /\ UNCHANGED <<log, clock>>
        /\ request' = [request EXCEPT ![r] = Idle]
    BY <1>9, <2>2 DEF MarkExecuted, PutRow, IsAnswered, GoesOn
  <2>6. rows'[s] = row
    BY <2>2, <2>5
  <2> HIDE DEF row
  <2>7. IsSchedule(s)' /\ ~IsEntry(s)' /\ ~IsEntry(s)
    BY <2>3, <2>4, <2>6, LifecycleStored DEF IsEntry, IsSchedule, Stored
  <2>8. \A j \in Ids \ {s} : rows'[j] = rows[j]
    BY <2>5
  <2>9. \A j \in Ids : /\ IsEntry(j) <=> IsEntry(j)'
                       /\ IsSchedule(j) <=> IsSchedule(j)'
                       /\ IsEntry(j) => rows'[j] = rows[j]
                       /\ IsSchedule(j) => rows'[j].entry = rows[j].entry
    BY <2>1, <2>2, <2>4, <2>6, <2>7, <2>8 DEF IsEntry, IsSchedule, Stored
  <2>10. LifecycleTypes'
    BY <2>4, <2>5 DEF LifecycleRequest
  <2>11. \A q \in Requests : request'[q] = Idle \/ request'[q] = request[q]
    BY <2>5
  <2>12. LifecycleUnderWay'
    BY <2>5, <2>9, <2>11 DEF Idle, LifecycleRequest
  <2>13. \A j \in Ids : IsSchedule(j) => rows[j].entry \in Ids
    BY LifecycleRows DEF ScheduleRow
  <2>14. SchedulesSound'
    BY <2>1, <2>2, <2>5, <2>8, <2>9, <2>13
  <2>15. PurgedSound'
    BY <2>5, <2>9
  <2>16. QED
    BY <2>10, <2>12, <2>14, <2>15
<1>10. ASSUME StopProcess PROVE LifecycleInv'
  BY <1>10 DEF StopProcess, LifecycleRequest, Idle, IsSchedule, IsEntry, Stored
<1>11. ASSUME Tick PROVE LifecycleInv'
  BY <1>11 DEF Tick, IsSchedule, IsEntry, Stored
<1>12. ASSUME UNCHANGED aggregateVars PROVE LifecycleInv'
  BY <1>12 DEF aggregateVars, IsSchedule, IsEntry, Stored
<1>13. QED
  BY <1>1, <1>2, <1>3, <1>4, <1>5, <1>7, <1>8, <1>9, <1>10, <1>11, <1>12 DEF LifecycleNext

\* However the two writes of executePurge are cut short, a purge that is due stays among those
\* the job asks for until its entry is in the trash, and an entry leaves the trash only when
\* somebody restored it; the rows of both tables have their types throughout.
THEOREM NoPurgeIsLost == LifecycleSpec => [](LifecycleTypeOK /\ PurgeNeverLost)
<1>1. LifecycleInv => LifecycleTypeOK /\ PurgeNeverLost
  BY LifecycleRows DEF LifecycleInv, LifecycleTypes, LifecycleTypeOK, SchedulesSound, PurgedSound, PurgeNeverLost,
     FindPurgeEligible, ScheduleRow
<1>2. QED
  BY <1>1, LifecycleInvInit, LifecycleInvStep, PTL DEF LifecycleSpec

-----------------------------------------------------------------------------
(* Invite *)

\* Validity is asked for in days.
InviteAssumption == MaxDays \in Nat

InviteRequest ==
    {Idle} \cup [at : {"update", "emit"}, id : Ids, read : Invitation, entity : Invitation]

InviteTypes ==
    /\ rows \in [Ids -> Invitation \cup {NoRow}]
    /\ request \in [Requests -> InviteRequest]
    /\ log \in [joined : [Ids -> Nat], overtaken : SUBSET Ids, refused : SUBSET Ids]
    /\ clock \in Nat

InTime(e) == e.acceptedAt <= e.expiresAt

\* What a request makes of the row it read: what is final stays so, and what is accepted was
\* open, and is so in time.
InviteChange(read, entity) ==
    /\ read.status \in Final => entity.status = read.status
    /\ entity.status = "accepted" => read.status \in {"sent", "pending"} /\ InTime(entity)

\* revoke() refuses every invitation that is not final, and its status is asked for when it
\* is: none is ever revoked.
NeverRevoked ==
    /\ \A i \in Ids : Stored(i) => rows[i].status # "revoked"
    /\ \A r \in Requests : request[r] # Idle => request[r].entity.status # "revoked"

InviteUnderWay ==
    \A r \in Requests : request[r] # Idle =>
        Stored(request[r].id) /\ InviteChange(request[r].read, request[r].entity)

Announces(r, i) ==
    request[r].at = "emit" /\ request[r].id = i /\ request[r].entity.status = "accepted"

\* One acceptance of an invitation that was not overtaken, which is announced or will be
OneAcceptance ==
    \A i \in Ids \ log.overtaken :
        /\ log.joined[i] <= 1
        /\ \A r \in Requests : Announces(r, i) =>
              log.joined[i] = 0 /\ \A q \in Requests : Announces(q, i) => q = r
        /\ log.joined[i] = 1 \/ (\E r \in Requests : Announces(r, i)) =>
              Stored(i) /\ rows[i].status = "accepted" /\ InTime(rows[i])

InviteInv == InviteTypes /\ NeverRevoked /\ InviteUnderWay /\ OneAcceptance

LEMMA InviteInvInit == InviteInit => InviteInv
<1> SUFFICES ASSUME InviteInit PROVE InviteInv
  OBVIOUS
<1> USE DEF InviteInit, StoreInit
<1>1. InviteTypes
  BY DEF InviteTypes, InviteRequest
<1>2. \A r \in Requests, i \in Ids : request[r] = Idle /\ ~Announces(r, i) /\ log.joined[i] = 0
  BY DEF Announces, Idle
<1>3. \A i \in Ids : ~Stored(i)
  BY DEF Stored
<1>4. QED
  BY <1>1, <1>2, <1>3 DEF InviteInv, NeverRevoked, InviteUnderWay, OneAcceptance

LEMMA InviteRequests ==
    ASSUME InviteTypes, NEW r \in Requests, request[r] # Idle
    PROVE  /\ request[r] \in [at : {"update", "emit"}, id : Ids, read : Invitation, entity : Invitation]
           /\ request[r].id \in Ids
           /\ request[r].read \in Invitation /\ request[r].entity \in Invitation
           /\ request[r].at \in {"update", "emit"}
  BY DEF InviteTypes, InviteRequest

\* A command that goes on to update() with a change of the row it read
LEMMA InviteHolds ==
    ASSUME InviteInv, NEW r \in Requests, NEW i \in Ids, NEW entity \in Invitation,
           Stored(i), InviteChange(rows[i], entity), entity.status # "revoked",
           Holds(r, i, entity), UNCHANGED log
    PROVE  InviteInv'
<1> DEFINE c == [at |-> "update", id |-> i, read |-> rows[i], entity |-> entity]
<1>1. /\ request' = [request EXCEPT ![r] = c]
      /\ UNCHANGED <<rows, log, clock>>
  BY DEF Holds, Starts
<1>2. rows[i] \in Invitation
  BY DEF InviteInv, InviteTypes, Stored
<1>3. c \in InviteRequest
  BY <1>2 DEF InviteRequest
<1>4. c.id = i /\ c.read = rows[i] /\ c.entity = entity /\ c.at # "emit"
  OBVIOUS
<1> HIDE DEF c
<1>5. InviteTypes'
  BY <1>1, <1>3 DEF InviteInv, InviteTypes
<1>6. \A q \in Requests : request'[q] = IF q = r THEN c ELSE request[q]
  BY <1>1 DEF InviteInv, InviteTypes
<1>7. NeverRevoked'
  BY <1>1, <1>4, <1>6 DEF InviteInv, NeverRevoked, Stored
<1>8. InviteUnderWay'
  BY <1>1, <1>4, <1>6 DEF InviteInv, InviteUnderWay, Stored
<1>9. \A q \in Requests, j \in Ids : Announces(q, j)' => Announces(q, j)
  BY <1>4, <1>6 DEF Announces
<1>10. OneAcceptance'
  BY <1>1, <1>9 DEF InviteInv, OneAcceptance, Stored
<1>11. QED
  BY <1>5, <1>7, <1>8, <1>10 DEF InviteInv

LEMMA InviteUpdates ==
    ASSUME InviteInv, NEW r \in Requests, UpdateInvite(r)
    PROVE  InviteInv' /\ FinalInviteStep
<1>1. request[r] # Idle /\ request[r].at = "update"
  BY DEF UpdateInvite, Idle
<1>2. PICK c : c = request[r]
  OBVIOUS
<1>3. /\ c \in [at : {"update", "emit"}, id : Ids, read : Invitation, entity : Invitation]
      /\ c.id \in Ids /\ c.read \in Invitation /\ c.entity \in Invitation
  BY <1>1, <1>2, InviteRequests DEF InviteInv
<1>4. /\ Stored(c.id) /\ InviteChange(c.read, c.entity)
      /\ c.entity.status # "revoked"
  BY <1>1, <1>2 DEF InviteInv, InviteUnderWay, NeverRevoked
<1>5. /\ rows' = [rows EXCEPT ![c.id] = c.entity]
      /\ log' = [log EXCEPT !.overtaken = OvertakenBy(c.id, c.read)]
      /\ request' = [request EXCEPT ![r] = [c EXCEPT !.at = "emit"]]
      /\ clock' = clock
  BY <1>2 DEF UpdateInvite, PutRow, GoesOn
<1>6. PICK d \in [at : {"update", "emit"}, id : Ids, read : Invitation, entity : Invitation] :
         d = [c EXCEPT !.at = "emit"] /\ d.id = c.id /\ d.read = c.read /\ d.entity = c.entity
         /\ d.at = "emit"
  <2> DEFINE f == [c EXCEPT !.at = "emit"]
  <2>1. /\ f \in [at : {"update", "emit"}, id : Ids, read : Invitation, entity : Invitation]
        /\ f.id = c.id /\ f.read = c.read /\ f.entity = c.entity /\ f.at = "emit"
    BY <1>3
  <2> HIDE DEF f
  <2>2. QED
    BY <2>1 DEF f
<1>7. /\ log' \in [joined : [Ids -> Nat], overtaken : SUBSET Ids, refused : SUBSET Ids]
      /\ log'.joined = log.joined /\ log.overtaken \subseteq log'.overtaken
      /\ rows[c.id] # c.read => c.id \in log'.overtaken
  BY <1>3, <1>5 DEF InviteInv, InviteTypes, OvertakenBy
<1>8. InviteTypes'
  <2>1. rows' \in [Ids -> Invitation \cup {NoRow}]
    BY <1>3, <1>5 DEF InviteInv, InviteTypes
  <2>2. request' \in [Requests -> InviteRequest]
    BY <1>5, <1>6 DEF InviteInv, InviteTypes, InviteRequest
  <2>3. QED
    BY <1>5, <1>7, <2>1, <2>2 DEF InviteInv, InviteTypes
<1>9. \A i \in Ids : rows'[i] = IF i = c.id THEN c.entity ELSE rows[i]
  BY <1>5 DEF InviteInv, InviteTypes
<1>10. \A q \in Requests : request'[q] = IF q = r THEN d ELSE request[q]
  BY <1>5, <1>6 DEF InviteInv, InviteTypes
<1>11. c.entity # NoRow
  <2>1. DOMAIN NoRow = {"state"} /\ "status" \in DOMAIN c.entity
    BY <1>3 DEF NoRow, Invitation
  <2>2. QED
    BY <2>1
<1>12. \A i \in Ids : Stored(i) <=> Stored(i)'
  BY <1>4, <1>9, <1>11 DEF Stored
<1>13. NeverRevoked'
  BY <1>4, <1>6, <1>9, <1>10, <1>12 DEF InviteInv, NeverRevoked
<1>14. InviteUnderWay'
  <2>1. ASSUME NEW q \in Requests, request'[q] # Idle
        PROVE  Stored(request[q].id)' /\ InviteChange(request[q].read, request[q].entity)'
    <3>1. CASE q = r
      <4>1. request'[q] = d
        BY <1>10, <3>1
      <4>2. QED
        BY <1>3, <1>4, <1>6, <1>12, <4>1 DEF Stored
    <3>2. CASE q # r
      <4>1. request'[q] = request[q] /\ request[q].id \in Ids
        BY <1>10, <2>1, <3>2, InviteRequests DEF InviteInv
      <4>2. QED
        BY <1>12, <2>1, <4>1 DEF InviteInv, InviteUnderWay, Stored
    <3>3. QED
      BY <3>1, <3>2
  <2>2. QED
    BY <2>1 DEF InviteUnderWay
<1>15. \A q \in Requests, j \in Ids :
          Announces(q, j)' <=>
             IF q = r THEN j = c.id /\ c.entity.status = "accepted" ELSE Announces(q, j)
  BY <1>6, <1>10 DEF Announces
<1>16. ASSUME NEW i \in Ids, i \notin log'.overtaken
       PROVE  /\ log'.joined[i] <= 1
              /\ \A q \in Requests : Announces(q, i)' =>
                    log'.joined[i] = 0 /\ \A p \in Requests : Announces(p, i)' => p = q
              /\ log'.joined[i] = 1 \/ (\E q \in Requests : Announces(q, i)') =>
                    Stored(i)' /\ rows'[i].status = "accepted" /\ InTime(rows'[i])
  <2>1. i \notin log.overtaken
    BY <1>7, <1>16
  <2>2. ~Announces(r, i)
    BY <1>1 DEF Announces
  <2>3. CASE i # c.id
    BY <1>7, <1>9, <1>12, <1>15, <2>1, <2>2, <2>3 DEF InviteInv, OneAcceptance
  <2>4. CASE i = c.id
    <3>1. rows[i] = c.read
      BY <1>7, <1>16, <2>4
    <3>2. rows[i].status # "accepted"
      BY <1>4, <3>1 DEF InviteChange, Final
    <3>3. log.joined[i] = 0 /\ \A q \in Requests : ~Announces(q, i)
      <4>1. log.joined[i] \in Nat
        BY DEF InviteInv, InviteTypes
      <4>2. QED
        BY <2>1, <3>2, <4>1 DEF InviteInv, OneAcceptance
    <3>4. \A q \in Requests : Announces(q, i)' => q = r /\ c.entity.status = "accepted"
      BY <1>15, <3>3
    <3>5. c.entity.status = "accepted" => Stored(i)' /\ rows'[i].status = "accepted" /\ InTime(rows'[i])
      BY <1>4, <1>9, <1>12, <2>4 DEF InviteChange
    <3>6. QED
      BY <1>7, <3>3, <3>4, <3>5
  <2>5. QED
    BY <2>3, <2>4
<1>17. OneAcceptance'
  BY <1>16 DEF OneAcceptance
<1>18. FinalInviteStep
  <2>1. ASSUME NEW i \in Ids, rows[i].status \in Final, rows'[i].status # rows[i].status
        PROVE  i \in log'.overtaken
    BY <1>4, <1>7, <1>9, <2>1 DEF InviteChange
  <2>2. QED
    BY <2>1 DEF FinalInviteStep
<1>19. QED
  BY <1>8, <1>13, <1>14, <1>17, <1>18 DEF InviteInv

LEMMA InviteEmits ==
    ASSUME InviteInv, NEW r \in Requests, EmitInviteEvents(r)
    PROVE  InviteInv'
<1>1. request[r] # Idle /\ request[r].at = "emit"
  BY DEF EmitInviteEvents, Idle
<1>2. PICK c : c = request[r]
  OBVIOUS
<1>3. c.id \in Ids
  BY <1>1, <1>2, InviteRequests DEF InviteInv
<1>4. /\ log' = IF c.entity.status = "accepted" THEN [log EXCEPT !.joined[c.id] = @ + 1] ELSE log
      /\ request' = [request EXCEPT ![r] = Idle]
      /\ UNCHANGED <<rows, clock>>
  BY <1>2 DEF EmitInviteEvents, IsAnswered, GoesOn
<1>5. /\ log' \in [joined : [Ids -> Nat], overtaken : SUBSET Ids, refused : SUBSET Ids]
      /\ log'.overtaken = log.overtaken
      /\ \A i \in Ids : log'.joined[i] = IF i = c.id /\ c.entity.status = "accepted"
                                         THEN log.joined[i] + 1 ELSE log.joined[i]
  BY <1>3, <1>4 DEF InviteInv, InviteTypes
<1>6. InviteTypes'
  BY <1>4, <1>5 DEF InviteInv, InviteTypes, InviteRequest
<1>7. \A q \in Requests : request'[q] = IF q = r THEN Idle ELSE request[q]
  BY <1>4 DEF InviteInv, InviteTypes
<1>8. \A i \in Ids : Stored(i)' <=> Stored(i)
  BY <1>4 DEF Stored
<1>9. NeverRevoked'
  BY <1>4, <1>7, <1>8 DEF InviteInv, NeverRevoked
<1>10. InviteUnderWay'
  BY <1>4, <1>7 DEF InviteInv, InviteUnderWay, Stored
<1>11. \A q \in Requests, j \in Ids : Announces(q, j)' <=> q # r /\ Announces(q, j)
  BY <1>7 DEF Announces, Idle
<1>12. \A j \in Ids : Announces(r, j) <=> j = c.id /\ c.entity.status = "accepted"
  BY <1>1, <1>2 DEF Announces
<1>13. ASSUME NEW i \in Ids, i \notin log.overtaken
       PROVE  /\ log'.joined[i] <= 1
              /\ \A q \in Requests : Announces(q, i)' =>
                    log'.joined[i] = 0 /\ \A p \in Requests : Announces(p, i)' => p = q
              /\ log'.joined[i] = 1 \/ (\E q \in Requests : Announces(q, i)') =>
                    Stored(i) /\ rows[i].status = "accepted" /\ InTime(rows[i])
  <2>1. CASE Announces(r, i)
    <3>1. log.joined[i] = 0 /\ \A q \in Requests : ~Announces(q, i)'
      BY <1>11, <1>13, <2>1 DEF InviteInv, OneAcceptance
    <3>2. log'.joined[i] = 1
      BY <1>5, <1>12, <2>1, <3>1
    <3>3. QED
      BY <1>13, <2>1, <3>1, <3>2 DEF InviteInv, OneAcceptance
  <2>2. CASE ~Announces(r, i)
    <3>1. log'.joined[i] = log.joined[i]
      BY <1>5, <1>12, <2>2
    <3>2. QED
      BY <1>11, <1>13, <3>1 DEF InviteInv, OneAcceptance
  <2>3. QED
    BY <2>1, <2>2
<1>14. OneAcceptance'
  BY <1>4, <1>5, <1>8, <1>13 DEF OneAcceptance
<1>15. QED
  BY <1>6, <1>9, <1>10, <1>14 DEF InviteInv


LEMMA InviteCreates ==
    ASSUME InviteAssumption, InviteInv, NEW r \in Requests, NEW i \in Ids, NEW days, NEW ok,
           CreateInvite(r, i, days, ok)
    PROVE  InviteInv'
<1> DEFINE e == [status |-> "created", expiresAt |-> clock + days, token |-> clock,
                 usageCount |-> 0, acceptedAt |-> None]
<1>1. /\ ~Stored(i) /\ days \in 1 .. MaxDays
      /\ rows' = [rows EXCEPT ![i] = e]
      /\ request[r] = Idle /\ request' = [request EXCEPT ![r] = Idle]
      /\ UNCHANGED <<log, clock>>
  BY DEF CreateInvite, CreationParamsValid, InsertInvite, PutRow, StartsAndEnds, Starts
<1>2. clock \in Nat
  BY DEF InviteInv, InviteTypes
<1>3. e \in Invitation /\ e.status = "created"
  BY <1>1, <1>2 DEF InviteAssumption, Invitation, InviteStatus, None
<1> HIDE DEF e
<1>4. request' = request
  BY <1>1 DEF InviteInv, InviteTypes
<1>5. \A j \in Ids : rows'[j] = IF j = i THEN e ELSE rows[j]
  BY <1>1 DEF InviteInv, InviteTypes
<1>6. \A j \in Ids : Stored(j) => Stored(j)' /\ rows'[j] = rows[j]
  BY <1>1, <1>5 DEF Stored
<1>7. InviteTypes'
  BY <1>1, <1>3, <1>4 DEF InviteInv, InviteTypes
<1>8. NeverRevoked'
  BY <1>3, <1>4, <1>5 DEF InviteInv, NeverRevoked, Stored
<1>9. InviteUnderWay'
  <2>1. ASSUME NEW q \in Requests, request[q] # Idle
        PROVE  Stored(request[q].id)' /\ InviteChange(request[q].read, request[q].entity)'
    <3>1. request[q].id \in Ids
      BY <2>1, InviteRequests DEF InviteInv
    <3>2. QED
      BY <1>4, <1>6, <2>1, <3>1 DEF InviteInv, InviteUnderWay, Stored
  <2>2. QED
    BY <1>4, <2>1 DEF InviteUnderWay
<1>10. OneAcceptance'
  BY <1>1, <1>4, <1>6 DEF InviteInv, OneAcceptance, Announces
<1>11. QED
  BY <1>7, <1>8, <1>9, <1>10 DEF InviteInv

LEMMA InviteStarts ==
    ASSUME InviteInv, NEW r \in Requests, NEW i \in Ids, NEW token,
           \/ SendInvite(r, i) \/ AcceptInvite(r, i, token) \/ RejectInvite(r, i)
           \/ RevokeInvite(r, i) \/ ExpireInvite(r, i)
    PROVE  InviteInv' /\ UNCHANGED rows
<1> DEFINE e == FromPersistence(i)
<1>1. Stored(i)
  BY DEF SendInvite, AcceptInvite, RejectInvite, RevokeInvite, ExpireInvite, Found, Loadable
<1>2. rows[i] \in Invitation /\ rows[i].status # "revoked" /\ clock \in Nat
  BY <1>1 DEF InviteInv, InviteTypes, NeverRevoked, Stored
<1>3. e \in Invitation /\ e = [rows[i] EXCEPT !.usageCount = 0] /\ e.status = rows[i].status
      /\ e.usageCount = 0 /\ e.expiresAt = rows[i].expiresAt
  BY <1>2 DEF FromPersistence, Invitation
<1> HIDE DEF e
<1>4. CASE SendInvite(r, i)
  <2>1. rows[i].status = "created" /\ Holds(r, i, Sent(e)) /\ UNCHANGED <<rows, log>>
    BY <1>4 DEF SendInvite, Holds, e
  <2>2. Sent(e) \in Invitation /\ Sent(e).status = "sent"
    BY <1>3 DEF Sent, Invitation, InviteStatus
  <2>3. InviteChange(rows[i], Sent(e))
    BY <2>1, <2>2 DEF InviteChange, Final
  <2>4. QED
    BY <1>1, <2>1, <2>2, <2>3, InviteHolds
<1>5. CASE AcceptInvite(r, i, token)
  <2>1. /\ e.status \in {"sent", "pending"} /\ TokenUsable(e, token)
        /\ Holds(r, i, Accepted(e)) /\ UNCHANGED <<rows, log>>
    BY <1>5 DEF AcceptInvite, Holds, e
  <2>2. ~(clock > e.expiresAt)
    BY <2>1 DEF TokenUsable, TokenExpired
  <2>3. /\ Accepted(e) \in Invitation /\ Accepted(e).status = "accepted"
        /\ Accepted(e).acceptedAt = clock /\ Accepted(e).expiresAt = e.expiresAt
    <3>1. e.expiresAt \in Nat /\ e.token \in Nat \cup {None} /\ e.usageCount = 0
      BY <1>3 DEF Invitation
    <3>2. "accepted" \in InviteStatus
      BY DEF InviteStatus, Final
    <3>3. QED
      BY <1>2, <3>1, <3>2 DEF Accepted, Invitation
  <2>4. e.expiresAt \in Nat
    BY <1>3 DEF Invitation
  <2>5. InviteChange(rows[i], Accepted(e))
    BY <1>2, <1>3, <2>1, <2>2, <2>3, <2>4 DEF InviteChange, Final, InTime
  <2>6. QED
    BY <1>1, <2>1, <2>3, <2>5, InviteHolds
<1>6. CASE RejectInvite(r, i)
  <2>1. rows[i].status \in {"sent", "pending"} /\ Holds(r, i, Rejected(e)) /\ UNCHANGED <<rows, log>>
    BY <1>6 DEF RejectInvite, CanBeRejected, Holds, e
  <2>2. Rejected(e) \in Invitation /\ Rejected(e).status = "rejected"
    BY <1>3 DEF Rejected, Invitation, InviteStatus, Final
  <2>3. InviteChange(rows[i], Rejected(e))
    BY <2>1, <2>2 DEF InviteChange, Final
  <2>4. QED
    BY <1>1, <2>1, <2>2, <2>3, InviteHolds
<1>7. CASE RevokeInvite(r, i)
  <2>1. e.status \notin Final
    BY <1>7 DEF RevokeInvite, CanBeRevoked, e
  <2>2. /\ log' = [log EXCEPT !.refused = @ \cup {i}]
        /\ request[r] = Idle /\ request' = [request EXCEPT ![r] = Idle]
        /\ UNCHANGED <<rows, clock>>
    BY <1>7, <2>1 DEF RevokeInvite, IsFinalStatus, StartsAndEnds, Starts, e
  <2>3. request' = request
    BY <2>2 DEF InviteInv, InviteTypes
  <2>4. /\ log' \in [joined : [Ids -> Nat], overtaken : SUBSET Ids, refused : SUBSET Ids]
        /\ log'.joined = log.joined /\ log'.overtaken = log.overtaken
    BY <2>2 DEF InviteInv, InviteTypes
  <2>5. InviteTypes' /\ NeverRevoked' /\ InviteUnderWay'
    BY <2>2, <2>3, <2>4 DEF InviteInv, InviteTypes, NeverRevoked, InviteUnderWay, Stored
  <2>6. OneAcceptance'
    BY <2>2, <2>3, <2>4 DEF InviteInv, OneAcceptance, Announces, Stored
  <2>7. QED
    BY <2>2, <2>5, <2>6 DEF InviteInv
<1>8. CASE ExpireInvite(r, i)
  <2>1. /\ rows[i].status \notin {"accepted", "rejected"}
        /\ Holds(r, i, Expired(e)) /\ UNCHANGED <<rows, log>>
    BY <1>8 DEF ExpireInvite, Holds, e
  <2>2. Expired(e) \in Invitation /\ Expired(e).status = "expired"
    BY <1>3 DEF Expired, Invitation, InviteStatus, Final, None
  <2>3. InviteChange(rows[i], Expired(e))
    BY <1>2, <2>1, <2>2 DEF InviteChange, Final
  <2>4. QED
    BY <1>1, <2>1, <2>2, <2>3, InviteHolds
<1>9. QED
  BY <1>4, <1>5, <1>6, <1>7, <1>8

LEMMA InviteInvStep ==
    ASSUME InviteAssumption, InviteInv, [InviteNext]_aggregateVars
    PROVE  InviteInv' /\ FinalInviteStep
<1> DEFINE Kept == InviteInv' /\ FinalInviteStep
<1>1. ASSUME \A i \in Ids : Stored(i) => rows'[i] = rows[i] PROVE FinalInviteStep
  BY <1>1 DEF FinalInviteStep
<1>2. ASSUME NEW r \in Requests, NEW i \in Ids, NEW days \in AskedDays, NEW ok \in BOOLEAN,
             CreateInvite(r, i, days, ok)
      PROVE  Kept
  <2>1. \A j \in Ids : Stored(j) => rows'[j] = rows[j]
    BY <1>2 DEF CreateInvite, InsertInvite, PutRow, InviteInv, InviteTypes, Stored
  <2>2. QED
    BY <1>1, <1>2, <2>1, InviteCreates
<1>3. ASSUME NEW r \in Requests, NEW i \in Ids, NEW token,
             \/ SendInvite(r, i) \/ AcceptInvite(r, i, token) \/ RejectInvite(r, i)
             \/ RevokeInvite(r, i) \/ ExpireInvite(r, i)
      PROVE  Kept
  BY <1>1, <1>3, InviteStarts
<1>4. ASSUME NEW r \in Requests, UpdateInvite(r) \/ EmitInviteEvents(r)
      PROVE  Kept
  <2>1. CASE UpdateInvite(r)
    BY <2>1, InviteUpdates
  <2>2. CASE EmitInviteEvents(r)
    <3>1. UNCHANGED rows
      BY <2>2 DEF EmitInviteEvents
    <3>2. QED
      BY <1>1, <2>2, <3>1, InviteEmits
  <2>3. QED
    BY <1>4, <2>1, <2>2
<1>5. CASE StopProcess
  <2>1. request' = [q \in Requests |-> Idle] /\ UNCHANGED <<rows, log, clock>>
    BY <1>5 DEF StopProcess
  <2>2. InviteTypes'
    BY <2>1 DEF InviteInv, InviteTypes, InviteRequest
  <2>3. \A q \in Requests : request'[q] = Idle
    BY <2>1
  <2>4. NeverRevoked' /\ InviteUnderWay'
    BY <2>1, <2>3 DEF InviteInv, NeverRevoked, InviteUnderWay, Stored
  <2>5. OneAcceptance'
    BY <2>1, <2>3 DEF InviteInv, OneAcceptance, Announces, Stored, Idle
  <2>6. QED
    BY <1>1, <2>1, <2>2, <2>4, <2>5 DEF InviteInv
<1>6. CASE UNCHANGED <<rows, request, log>> /\ clock' \in Nat
  <2>1. InviteTypes' /\ NeverRevoked' /\ InviteUnderWay'
    BY <1>6 DEF InviteInv, InviteTypes, NeverRevoked, InviteUnderWay, Stored
  <2>2. OneAcceptance'
    BY <1>6 DEF InviteInv, OneAcceptance, Announces, Stored
  <2>3. QED
    BY <1>1, <1>6, <2>1, <2>2 DEF InviteInv
<1>7. Tick \/ UNCHANGED aggregateVars => UNCHANGED <<rows, request, log>> /\ clock' \in Nat
  BY DEF Tick, aggregateVars, InviteInv, InviteTypes
<1>8. QED
  BY <1>2, <1>3, <1>4, <1>5, <1>6, <1>7 DEF InviteNext

\* However the commands on an invitation overlap, and wherever the process stops between the
\* write of a row and the events: unless a request overwrote what another had written, an
\* invitation leads to at most one member, was accepted then, and in time.
THEOREM InviteJoinsOnce ==
    ASSUME InviteAssumption
    PROVE  InviteSpec => []JoinedOnceInTime
<1>1. InviteInv => JoinedOnceInTime
  BY DEF InviteInv, OneAcceptance, JoinedOnceInTime, InTime
<1>2. InviteInv /\ [InviteNext]_aggregateVars => InviteInv'
  BY InviteInvStep
<1>3. QED
  BY <1>1, <1>2, InviteInvInit, PTL DEF InviteSpec

\* A final status is left only by a write that overtakes another request's.
THEOREM InviteEndsStay ==
    ASSUME InviteAssumption
    PROVE  InviteSpec => FinalInvitesStay
<1>1. InviteInv /\ [InviteNext]_aggregateVars => InviteInv' /\ [FinalInviteStep]_aggregateVars
  BY InviteInvStep
<1>2. QED
  BY <1>1, InviteInvInit, PTL DEF InviteSpec, FinalInvitesStay

-----------------------------------------------------------------------------
(* Sessions *)

SessionsSpec == SessionsInit /\ [][SessionsNext]_aggregateVars

SessionsAssumption ==
    /\ IsFiniteSet(Ids) /\ IsFiniteSet(Requests) /\ Account \in Ids
    /\ MaxSessions \in Nat /\ SessionTTL \in Nat /\ LockAfter \in Nat \ {0}

SessionsRequest ==
    {Idle}
    \cup [at : {"verify"}, service : Services, right : BOOLEAN]
    \cup [at : {"count"}]
    \cup [at : {"create"}, counted : Nat \cup {None}, refreshed : SUBSET SessionIds]
    \cup [at : {"check", "revoke"}, old : SessionIds]

SessionsLog ==
    [guesses : Nat, uncounted : BOOLEAN, refusedIdle : BOOLEAN, together : SUBSET SessionIds,
     successors : [SessionIds -> Nat]]

SessionsTypes ==
    /\ DOMAIN rows = Ids /\ rows = [i \in Ids |-> rows[i]] /\ SessionsTypeOK
    /\ request \in [Requests -> SessionsRequest]
    /\ log \in SessionsLog
    /\ clock \in Nat

\* The credential counts the wrong passwords; while it is below the limit nobody is let in to
\* try one more.
Verifying == {r \in Requests : request[r].at = "verify"}
GuessesCounted ==
    /\ log.guesses = Credential.failedAttempts
    /\ Credential.isLocked <=> Credential.failedAttempts >= LockAfter
    /\ log.guesses + Cardinality(Verifying) < LockAfter + Cardinality(Requests)

\* r refreshes s and has not revoked it yet; r has, and will create the successor
Refreshes(r, s) == request[r].at \in {"check", "revoke"} /\ request[r].old = s
Succeeds(r, s) == request[r].at = "create" /\ s \in request[r].refreshed

\* A session that is not refreshed together is refreshed by one request at a time, and by none
\* once it was revoked for a successor.
RefreshedAlone ==
    /\ \A r \in Requests, s \in SessionIds : Refreshes(r, s) => s \in Used
    /\ \A s \in SessionIds \ log.together :
          /\ \A r, q \in Requests : Refreshes(r, s) /\ Refreshes(q, s) => r = q
          /\ \A r, q \in Requests : Succeeds(r, s) /\ Succeeds(q, s) => r = q
          /\ log.successors[s] <= 1
          /\ \A r \in Requests : Succeeds(r, s) => log.successors[s] = 0
          /\ log.successors[s] = 1 \/ (\E r \in Requests : Succeeds(r, s)) =>
                s \in Used \ Active /\ \A r \in Requests : ~Refreshes(r, s)

\* A request creates a session on a count that no longer holds, or there is room for it.
RoomWhereCounted ==
    /\ \A r \in Requests : request[r].at = "create" => request[r].counted <= Cardinality(Used)
    /\ ~log.uncounted =>
          /\ Cardinality(Active) <= MaxSessions
          /\ \A r \in Requests : request[r].at = "create" /\ request[r].counted = Cardinality(Used) =>
                Cardinality(Active) < MaxSessions

SessionsInv == SessionsTypes /\ GuessesCounted /\ RefreshedAlone /\ RoomWhereCounted

\* Finite sets, and what they count
LEMMA SessionsFinite ==
    ASSUME SessionsAssumption
    PROVE  /\ \A S \in SUBSET SessionIds :
                 IsFiniteSet(S) /\ Cardinality(S) \in Nat
           /\ \A R \in SUBSET Requests :
                 /\ IsFiniteSet(R) /\ Cardinality(R) \in Nat
                 /\ Cardinality(R) <= Cardinality(Requests)
           /\ Cardinality(Requests) \in Nat
<1>1. ASSUME NEW S \in SUBSET SessionIds PROVE IsFiniteSet(S) /\ Cardinality(S) \in Nat
  <2>1. S \in SUBSET Ids
    BY DEF SessionIds
  <2>2. QED
    BY <2>1, FS_Subset, FS_CardinalityType DEF SessionsAssumption
<1>2. ASSUME NEW R \in SUBSET Requests
      PROVE  IsFiniteSet(R) /\ Cardinality(R) \in Nat /\ Cardinality(R) <= Cardinality(Requests)
  BY FS_Subset, FS_CardinalityType DEF SessionsAssumption
<1>3. Cardinality(Requests) \in Nat
  BY FS_CardinalityType DEF SessionsAssumption
<1>4. QED
  BY <1>1, <1>2, <1>3

LEMMA SessionsInvInit ==
    ASSUME SessionsAssumption
    PROVE  SessionsInit => SessionsInv
<1> SUFFICES ASSUME SessionsInit PROVE SessionsInv
  OBVIOUS
<1> USE DEF SessionsInit, StoreInit
<1>1. \A r \in Requests : request[r] = Idle
  OBVIOUS
<1>2. \A i \in Ids : ~Stored(i)
  BY DEF Stored
<1>3. Used = {} /\ Active = {} /\ Verifying = {}
  BY <1>1, <1>2 DEF Used, Active, Verifying, SessionIds, Idle
<1>4. /\ log.guesses = 0 /\ log \in SessionsLog
      /\ \A s \in SessionIds : log.successors[s] = 0
  BY DEF SessionsLog
<1>5. SessionsTypes
  BY <1>4 DEF SessionsTypes, SessionsTypeOK, SessionsRequest, SessionsAssumption, SessionIds
<1>6. GuessesCounted
  <2>1. Credential.failedAttempts = 0 /\ Credential.isLocked = FALSE
    BY <1>2 DEF Credential, SessionsAssumption
  <2>2. QED
    BY <1>3, <1>4, <2>1, FS_EmptySet, SessionsFinite DEF GuessesCounted, SessionsAssumption
<1>7. RefreshedAlone
  BY <1>1, <1>4 DEF RefreshedAlone, Refreshes, Succeeds, Idle
<1>8. RoomWhereCounted
  BY <1>1, <1>3, FS_EmptySet DEF RoomWhereCounted, SessionsAssumption, Idle
<1>9. QED
  BY <1>5, <1>6, <1>7, <1>8 DEF SessionsInv

\* The fields of a request
LEMMA SessionsRequests ==
    ASSUME SessionsTypes, NEW r \in Requests
    PROVE  /\ request[r].at = "verify" =>
                 request[r] \in [at : {"verify"}, service : Services, right : BOOLEAN]
           /\ request[r].at = "create" =>
                 request[r] \in [at : {"create"}, counted : Nat \cup {None},
                                 refreshed : SUBSET SessionIds]
           /\ request[r].at \in {"check", "revoke"} =>
                 request[r] \in [at : {"check", "revoke"}, old : SessionIds]
  BY DEF SessionsTypes, SessionsRequest, Idle

LEMMA SessionsRows ==
    ASSUME SessionsTypes
    PROVE  /\ Stored(Account) => Credential = rows[Account]
           /\ Credential \in CredentialRow
           /\ \A s \in Used : rows[s] \in SessionRow
           /\ Active \subseteq Used /\ Used \subseteq SessionIds
<1>1. Credential \in CredentialRow
  BY DEF SessionsTypes, SessionsTypeOK, Credential, Stored, CredentialRow
<1>2. QED
  BY <1>1 DEF SessionsTypes, SessionsTypeOK, Credential, Stored, Used, Active

\* What is written to the table
LEMMA CredentialWritten ==
    ASSUME SessionsAssumption, SessionsTypes, NEW row \in CredentialRow, PutRow(Account, row)
    PROVE  /\ rows' = [i \in Ids |-> rows'[i]] /\ DOMAIN rows' = Ids /\ SessionsTypeOK'
           /\ Credential' = row /\ Used' = Used /\ Active' = Active
<1>1. rows' = [i \in Ids |-> IF i = Account THEN row ELSE rows[i]]
  BY DEF PutRow, SessionsTypes
<1>2. row # NoRow
  <2>1. DOMAIN NoRow = {"state"} /\ "isLocked" \in DOMAIN row
    BY DEF NoRow, CredentialRow
  <2>2. QED
    BY <2>1
<1>3. rows'[Account] = row /\ \A s \in SessionIds : rows'[s] = rows[s]
  BY <1>1 DEF SessionsAssumption, SessionIds
<1>4. SessionsTypeOK'
  BY <1>3 DEF SessionsTypes, SessionsTypeOK
<1>5. Credential' = row
  BY <1>2, <1>3 DEF Credential, Stored
<1>6. Used' = Used /\ Active' = Active
  BY <1>3 DEF Used, Active, Stored
<1>7. QED
  BY <1>1, <1>4, <1>5, <1>6

LEMMA SessionWritten ==
    ASSUME SessionsAssumption, SessionsTypes, NEW row \in SessionRow, row.isActive,
           NEW s \in SessionIds, ~Stored(s), PutRow(s, row)
    PROVE  /\ rows' = [i \in Ids |-> rows'[i]] /\ DOMAIN rows' = Ids /\ SessionsTypeOK'
           /\ Credential' = Credential /\ Used' = Used \cup {s} /\ Active' = Active \cup {s}
<1>1. rows' = [i \in Ids |-> IF i = s THEN row ELSE rows[i]]
  BY DEF PutRow, SessionsTypes
<1>2. row # NoRow
  <2>1. DOMAIN NoRow = {"state"} /\ "isActive" \in DOMAIN row
    BY DEF NoRow, SessionRow
  <2>2. QED
    BY <2>1
<1>3. rows'[s] = row /\ rows'[Account] = rows[Account] /\ \A t \in SessionIds \ {s} : rows'[t] = rows[t]
  BY <1>1 DEF SessionsAssumption, SessionIds
<1>4. SessionsTypeOK'
  BY <1>3 DEF SessionsTypes, SessionsTypeOK
<1>5. Credential' = Credential
  BY <1>3 DEF Credential, Stored
<1>6. Used' = Used \cup {s} /\ Active' = Active \cup {s}
  BY <1>2, <1>3 DEF Used, Active, Stored
<1>7. QED
  BY <1>1, <1>4, <1>5, <1>6

LEMMA SessionsRevoked ==
    ASSUME SessionsAssumption, SessionsTypes, NEW S \in SUBSET Used, rows' = RevokedRows(S)
    PROVE  /\ rows' = [i \in Ids |-> rows'[i]] /\ DOMAIN rows' = Ids /\ SessionsTypeOK'
           /\ Credential' = Credential /\ Used' = Used /\ Active' = Active \ S
<1>1. rows' = [i \in Ids |-> IF i \in S THEN [rows[i] EXCEPT !.isActive = FALSE] ELSE rows[i]]
  BY DEF RevokedRows
<1>2. S \subseteq SessionIds /\ S \subseteq Ids /\ Account \notin S
  BY DEF Used, SessionIds
<1>3. rows'[Account] = rows[Account] /\ \A t \in SessionIds \ S : rows'[t] = rows[t]
  BY <1>1, <1>2 DEF SessionsAssumption, SessionIds
<1>4. ASSUME NEW t \in S
      PROVE  rows'[t] \in SessionRow /\ rows'[t] # NoRow /\ ~rows'[t].isActive
  <2>1. rows[t] \in SessionRow
    BY SessionsRows
  <2>2. rows'[t] = [rows[t] EXCEPT !.isActive = FALSE]
    BY <1>1, <1>2
  <2>3. rows'[t] \in SessionRow /\ ~rows'[t].isActive
    BY <2>1, <2>2 DEF SessionRow
  <2>4. DOMAIN NoRow = {"state"} /\ "isActive" \in DOMAIN rows'[t]
    BY <2>3 DEF NoRow, SessionRow
  <2>5. QED
    BY <2>3, <2>4
<1>5. SessionsTypeOK'
  BY <1>2, <1>3, <1>4 DEF SessionsTypes, SessionsTypeOK
<1>6. Credential' = Credential
  BY <1>3 DEF Credential, Stored
<1>7. Used' = Used
  BY <1>2, <1>3, <1>4 DEF Used, Stored
<1>8. Active' = Active \ S
  BY <1>2, <1>3, <1>4 DEF Active, Used, Stored
<1>9. QED
  BY <1>1, <1>5, <1>6, <1>7, <1>8

LEMMA RowsKept ==
    ASSUME SessionsTypes, UNCHANGED rows
    PROVE  /\ rows' = [i \in Ids |-> rows'[i]] /\ DOMAIN rows' = Ids /\ SessionsTypeOK'
           /\ Credential' = Credential /\ Used' = Used /\ Active' = Active
  BY DEF SessionsTypes, SessionsTypeOK, Credential, Stored, Used, Active

\* One request goes on.
LEMMA OneGoesOn ==
    ASSUME SessionsTypes, NEW r \in Requests, NEW step \in SessionsRequest,
           request' = [request EXCEPT ![r] = step]
    PROVE  /\ request' \in [Requests -> SessionsRequest]
           /\ request'[r] = step /\ \A q \in Requests \ {r} : request'[q] = request[q]
  BY DEF SessionsTypes

\* Where nothing is begun that the parts of the invariant are about
LEMMA GuessesStay ==
    ASSUME SessionsAssumption, SessionsTypes, GuessesCounted, Credential' = Credential,
           log'.guesses = log.guesses, Verifying' \subseteq Verifying
    PROVE  GuessesCounted'
<1>1. /\ Cardinality(Verifying') <= Cardinality(Verifying)
      /\ Cardinality(Verifying') \in Nat /\ Cardinality(Verifying) \in Nat
      /\ Cardinality(Requests) \in Nat
  <2>1. Verifying \in SUBSET Requests
    BY DEF Verifying
  <2>2. QED
    BY <2>1, FS_Subset, SessionsFinite
<1>2. log.guesses \in Nat /\ LockAfter \in Nat
  BY DEF SessionsTypes, SessionsLog, SessionsAssumption
<1>3. QED
  BY <1>1, <1>2 DEF GuessesCounted

LEMMA RefreshesStay ==
    ASSUME RefreshedAlone,
           \A r \in Requests, s \in SessionIds : Refreshes(r, s)' => Refreshes(r, s),
           \A r \in Requests, s \in SessionIds : Succeeds(r, s)' => Succeeds(r, s),
           log'.together = log.together, log'.successors = log.successors,
           Used \subseteq Used', Used \ Active \subseteq Used' \ Active'
    PROVE  RefreshedAlone'
  BY DEF RefreshedAlone

LEMMA RoomStays ==
    ASSUME SessionsAssumption, SessionsTypes, RoomWhereCounted, Used' = Used,
           Active' \subseteq Active, log'.uncounted = log.uncounted,
           \A r \in Requests : request'[r].at = "create" =>
               \/ request'[r].counted = None
               \/ request[r].at = "create" /\ request'[r].counted = request[r].counted
    PROVE  RoomWhereCounted'
<1>1. /\ Cardinality(Active') <= Cardinality(Active)
      /\ Cardinality(Active') \in Nat /\ Cardinality(Active) \in Nat
      /\ Cardinality(Used) \in Nat
  <2>1. Active \in SUBSET SessionIds /\ Used \in SUBSET SessionIds /\ Active' \in SUBSET SessionIds
    BY DEF Active, Used
  <2>2. QED
    BY <2>1, FS_Subset, SessionsFinite
<1>2. MaxSessions \in Nat
  BY DEF SessionsAssumption
<1>3. \A r \in Requests : request'[r].at = "create" => request'[r].counted <= Cardinality(Used)
  BY <1>1 DEF RoomWhereCounted, None
<1>4. \A r \in Requests : request'[r].at = "create" /\ request'[r].counted = Cardinality(Used) =>
          request[r].at = "create" /\ request[r].counted = Cardinality(Used)
  BY <1>1 DEF None
<1>5. QED
  BY <1>1, <1>2, <1>3, <1>4 DEF RoomWhereCounted

-----------------------------------------------------------------------------
(* The commands *)

LEMMA LoginKeeps ==
    ASSUME SessionsAssumption, SessionsInv, NEW r \in Requests, NEW service \in Services,
           NEW right \in BOOLEAN, Login(r, service, right)
    PROVE  SessionsInv'
<1> USE DEF SessionsInv
<1> DEFINE step == IF IsLocked(service) THEN Idle
                   ELSE [at |-> "verify", service |-> service, right |-> right]
<1>1. request[r] = Idle /\ request' = [request EXCEPT ![r] = step] /\ UNCHANGED <<rows, log, clock>>
  BY DEF Login, Starts
<1>2. step \in SessionsRequest
  BY DEF SessionsRequest
<1>3. step.at \in {"idle", "verify"} /\ (IsLocked(service) => step.at = "idle")
  BY DEF Idle
<1> HIDE DEF step
<1>4. /\ request' \in [Requests -> SessionsRequest]
      /\ request'[r] = step /\ \A q \in Requests \ {r} : request'[q] = request[q]
  BY <1>1, <1>2, OneGoesOn
<1>5. SessionsTypes'
  BY <1>1, <1>4, RowsKept DEF SessionsTypes
<1>6. GuessesCounted'
  <2>1. CASE IsLocked(service)
    <3>1. Verifying' \subseteq Verifying
      BY <1>3, <1>4, <2>1 DEF Verifying
    <3>2. QED
      BY <1>1, <3>1, RowsKept, GuessesStay
  <2>2. CASE ~IsLocked(service)
    <3>1. Credential.failedAttempts \in Nat /\ Credential.isLocked \in BOOLEAN
      BY SessionsRows DEF CredentialRow
    <3>2. Credential.failedAttempts < LockAfter
      BY <2>2, <3>1 DEF IsLocked, GuessesCounted, SessionsAssumption
    <3>3. Verifying' \in SUBSET Requests
      BY DEF Verifying
    <3>4. Cardinality(Verifying') \in Nat /\ Cardinality(Verifying') <= Cardinality(Requests)
          /\ Cardinality(Requests) \in Nat
      BY <3>3, SessionsFinite
    <3>5. Credential' = Credential /\ log' = log
      BY <1>1, RowsKept
    <3>6. QED
      BY <3>1, <3>2, <3>4, <3>5 DEF GuessesCounted, SessionsAssumption
  <2>3. QED
    BY <2>1, <2>2
<1>7. RefreshedAlone'
  <2>1. \A q \in Requests, s \in SessionIds : Refreshes(q, s)' => Refreshes(q, s)
    BY <1>3, <1>4 DEF Refreshes
  <2>2. \A q \in Requests, s \in SessionIds : Succeeds(q, s)' => Succeeds(q, s)
    BY <1>3, <1>4 DEF Succeeds
  <2>3. QED
    BY <1>1, <2>1, <2>2, RowsKept, RefreshesStay
<1>8. RoomWhereCounted'
  <2>1. \A q \in Requests : request'[q].at = "create" =>
            request[q].at = "create" /\ request'[q].counted = request[q].counted
    BY <1>3, <1>4
  <2>2. QED
    BY <1>1, <2>1, RowsKept, RoomStays
<1>9. QED
  BY <1>5, <1>6, <1>7, <1>8

LEMMA VerifyPasswordKeeps ==
    ASSUME SessionsAssumption, SessionsInv, NEW r \in Requests, VerifyPassword(r)
    PROVE  SessionsInv'
<1> USE DEF SessionsInv
<1>1. PICK c : c = request[r]
  OBVIOUS
<1>2. c.at = "verify" /\ c.right \in BOOLEAN /\ clock' = clock
  BY <1>1, SessionsRequests DEF VerifyPassword
<1>3. PICK row \in CredentialRow, step \in SessionsRequest, guesses \in Nat :
          /\ PutRow(Account, row) /\ request' = [request EXCEPT ![r] = step]
          /\ log' = [log EXCEPT !.guesses = guesses]
          /\ step.at \in {"idle", "count", "create"}
          /\ step.at = "create" => step.counted = None /\ step.refreshed = {}
          /\ guesses = row.failedAttempts
          /\ row.isLocked <=> row.failedAttempts >= LockAfter
          /\ row.failedAttempts = 0 \/ row.failedAttempts = log.guesses + 1
  <2>1. CASE c.right
    <3> DEFINE row == [failedAttempts |-> 0, isLocked |-> FALSE]
               step == IF c.service = "auth" THEN [at |-> "count"]
                       ELSE [at |-> "create", counted |-> None, refreshed |-> {}]
    <3>1. row \in CredentialRow /\ row.failedAttempts = 0 /\ row.isLocked = FALSE
      BY DEF CredentialRow
    <3>2. step \in SessionsRequest
      BY DEF SessionsRequest
    <3>3. /\ step.at \in {"idle", "count", "create"}
          /\ step.at = "create" => step.counted = None /\ step.refreshed = {}
      OBVIOUS
    <3>4. /\ PutRow(Account, row) /\ request' = [request EXCEPT ![r] = step]
          /\ log' = [log EXCEPT !.guesses = 0]
      BY <1>1, <2>1 DEF VerifyPassword, GoesOn
    <3>5. LockAfter > 0 /\ LockAfter \in Nat
      BY DEF SessionsAssumption
    <3>6. (row.isLocked <=> row.failedAttempts >= LockAfter) /\ row.failedAttempts = 0
      BY <3>1, <3>5
    <3> row \in CredentialRow /\ step \in SessionsRequest
      BY <3>1, <3>2
    <3> HIDE DEF row, step
    <3>7. WITNESS row \in CredentialRow, step \in SessionsRequest, 0 \in Nat
    <3>8. QED
      BY <3>3, <3>4, <3>6
  <2>2. CASE ~c.right
    <3>1. /\ PutRow(Account, RecordFailedAttempt) /\ request' = [request EXCEPT ![r] = Idle]
          /\ log' = [log EXCEPT !.guesses = @ + 1]
      BY <1>1, <2>2 DEF VerifyPassword, GoesOn, IsAnswered
    <3>2. Credential.failedAttempts \in Nat /\ log.guesses = Credential.failedAttempts
      BY SessionsRows DEF CredentialRow, GuessesCounted
    <3>3. /\ RecordFailedAttempt \in CredentialRow
          /\ RecordFailedAttempt.failedAttempts = log.guesses + 1
          /\ RecordFailedAttempt.isLocked = (log.guesses + 1 >= LockAfter)
      BY <3>2 DEF RecordFailedAttempt, CredentialRow
    <3>4. Idle \in SessionsRequest /\ Idle.at = "idle"
      BY DEF SessionsRequest, Idle
    <3>5. log.guesses + 1 \in Nat
      BY <3>2
    <3>6. log' = [log EXCEPT !.guesses = log.guesses + 1]
      BY <3>1
    <3>7. QED
      BY <3>1, <3>3, <3>4, <3>5, <3>6
  <2>3. QED
    BY <1>2, <2>1, <2>2
<1>4. /\ request' \in [Requests -> SessionsRequest]
      /\ request'[r] = step /\ \A q \in Requests \ {r} : request'[q] = request[q]
  BY <1>3, OneGoesOn
<1>5. /\ log' \in SessionsLog /\ log'.guesses = guesses
      /\ log'.together = log.together /\ log'.successors = log.successors
      /\ log'.uncounted = log.uncounted
  BY <1>3 DEF SessionsTypes, SessionsLog
<1>6. /\ SessionsTypes'
      /\ Credential' = row /\ Used' = Used /\ Active' = Active
  BY <1>2, <1>3, <1>4, <1>5, CredentialWritten DEF SessionsTypes
<1>7. GuessesCounted'
  <2>1. r \in Verifying /\ Verifying' = Verifying \ {r}
    BY <1>1, <1>2, <1>3, <1>4 DEF Verifying
  <2>2. Verifying \in SUBSET Requests /\ Verifying' \in SUBSET Requests
    BY DEF Verifying
  <2>3. Cardinality(Verifying') = Cardinality(Verifying) - 1
    BY <2>1, <2>2, FS_RemoveElement, SessionsFinite
  <2>4. /\ Cardinality(Verifying) \in Nat /\ Cardinality(Verifying') \in Nat
        /\ Cardinality(Requests) \in Nat /\ Cardinality(Verifying') <= Cardinality(Requests)
    BY <2>2, SessionsFinite
  <2>5. log.guesses \in Nat /\ LockAfter \in Nat /\ LockAfter > 0
    BY DEF SessionsTypes, SessionsLog, SessionsAssumption
  <2>6. log'.guesses + Cardinality(Verifying') < LockAfter + Cardinality(Requests)
    BY <1>3, <1>5, <2>3, <2>4, <2>5 DEF GuessesCounted
  <2>7. QED
    BY <1>3, <1>5, <1>6, <2>6 DEF GuessesCounted
<1>8. RefreshedAlone'
  <2>1. \A q \in Requests, s \in SessionIds : Refreshes(q, s)' => Refreshes(q, s)
    BY <1>3, <1>4 DEF Refreshes
  <2>2. \A q \in Requests, s \in SessionIds : Succeeds(q, s)' => Succeeds(q, s)
    BY <1>3, <1>4 DEF Succeeds
  <2>3. QED
    BY <1>5, <1>6, <2>1, <2>2, RefreshesStay
<1>9. RoomWhereCounted'
  <2>1. \A q \in Requests : request'[q].at = "create" =>
            \/ request'[q].counted = None
            \/ request[q].at = "create" /\ request'[q].counted = request[q].counted
    BY <1>3, <1>4
  <2>2. QED
    BY <1>5, <1>6, <2>1, RoomStays
<1>10. QED
  BY <1>6, <1>7, <1>8, <1>9

LEMMA CountSessionsKeeps ==
    ASSUME SessionsAssumption, SessionsInv, NEW r \in Requests, CountSessions(r)
    PROVE  SessionsInv'
<1> USE DEF SessionsInv
<1> DEFINE counted == [at |-> "create", counted |-> Cardinality(Used), refreshed |-> {}]
<1>1. request[r].at = "count" /\ UNCHANGED <<rows, clock>>
  BY DEF CountSessions
<1>2. Used \in SUBSET SessionIds /\ Active \in SUBSET SessionIds
  BY DEF Used, Active
<1>3. Cardinality(Used) \in Nat /\ Cardinality(Active) \in Nat
  BY <1>2, SessionsFinite
<1>4. /\ counted \in SessionsRequest
      /\ counted.at = "create" /\ counted.counted = Cardinality(Used) /\ counted.refreshed = {}
  BY <1>3 DEF SessionsRequest
<1>5. Idle \in SessionsRequest /\ Idle.at = "idle"
  BY DEF SessionsRequest, Idle
<1>6. PICK step \in {Idle, counted} :
          /\ request' = [request EXCEPT ![r] = step]
          /\ step = counted => Cardinality(Active) < MaxSessions
  <2>1. CASE Cardinality(Active) < MaxSessions
    BY <2>1 DEF CountSessions, GoesOn, CanCreateSession
  <2>2. CASE ~(Cardinality(Active) < MaxSessions)
    <3>1. request' = [request EXCEPT ![r] = Idle]
      BY <2>2 DEF CountSessions, GoesOn, IsAnswered, CanCreateSession
    <3>2. Idle # counted
      BY <1>4, <1>5
    <3> HIDE DEF counted
    <3>3. QED
      BY <3>1, <3>2
  <2>3. QED
    BY <2>1, <2>2
<1>7. /\ log' \in SessionsLog /\ log'.guesses = log.guesses
      /\ log'.together = log.together /\ log'.successors = log.successors
      /\ log'.uncounted = log.uncounted
  <2>1. log \in SessionsLog
    BY DEF SessionsTypes
  <2>2. log' = log \/ \E b \in BOOLEAN : log' = [log EXCEPT !.refusedIdle = b]
    <3> DEFINE b == log.refusedIdle \/ \A s \in Active : ~IsActiveSession(s)
    <3>1. log' = log \/ log' = [log EXCEPT !.refusedIdle = b]
      BY DEF CountSessions
    <3>2. b \in BOOLEAN
      OBVIOUS
    <3> HIDE DEF b
    <3>3. QED
      BY <3>1, <3>2
  <2>3. QED
    BY <2>1, <2>2 DEF SessionsLog
<1> HIDE DEF counted
<1>8. /\ request' \in [Requests -> SessionsRequest]
      /\ request'[r] = step /\ \A q \in Requests \ {r} : request'[q] = request[q]
  BY <1>4, <1>5, <1>6, OneGoesOn
<1>9. /\ SessionsTypes'
      /\ Credential' = Credential /\ Used' = Used /\ Active' = Active
  BY <1>1, <1>7, <1>8, RowsKept DEF SessionsTypes
<1>10. GuessesCounted'
  <2>1. Verifying' \subseteq Verifying
    BY <1>4, <1>5, <1>6, <1>8 DEF Verifying
  <2>2. QED
    BY <1>7, <1>9, <2>1, GuessesStay
<1>11. RefreshedAlone'
  <2>1. \A q \in Requests, s \in SessionIds : Refreshes(q, s)' => Refreshes(q, s)
    BY <1>4, <1>5, <1>6, <1>8 DEF Refreshes
  <2>2. \A q \in Requests, s \in SessionIds : Succeeds(q, s)' => Succeeds(q, s)
    BY <1>4, <1>5, <1>6, <1>8 DEF Succeeds
  <2>3. QED
    BY <1>7, <1>9, <2>1, <2>2, RefreshesStay
<1>12. RoomWhereCounted'
  BY <1>3, <1>4, <1>5, <1>6, <1>7, <1>8, <1>9 DEF RoomWhereCounted
<1>13. QED
  BY <1>9, <1>10, <1>11, <1>12

LEMMA CreateSessionKeeps ==
    ASSUME SessionsAssumption, SessionsInv, NEW r \in Requests, NEW s \in SessionIds,
           CreateSession(r, s)
    PROVE  SessionsInv'
<1> USE DEF SessionsInv
<1> DEFINE row == [isActive |-> TRUE, expiresAt |-> clock + SessionTTL]
<1>1. PICK c : c = request[r]
  OBVIOUS
<1>2. c.at = "create" /\ c.counted \in Nat \cup {None} /\ c.refreshed \in SUBSET SessionIds
  BY <1>1, SessionsRequests DEF CreateSession
<1>3. /\ ~Stored(s) /\ PutRow(s, row) /\ clock' = clock
      /\ request' = [request EXCEPT ![r] = Idle]
  BY DEF CreateSession, IsAnswered, GoesOn
<1>4. row \in SessionRow /\ row.isActive
  BY DEF SessionRow, SessionsTypes, SessionsAssumption
<1> HIDE DEF row
<1>5. Idle \in SessionsRequest /\ Idle.at = "idle"
  BY DEF SessionsRequest, Idle
<1>6. /\ request' \in [Requests -> SessionsRequest]
      /\ request'[r] = Idle /\ \A q \in Requests \ {r} : request'[q] = request[q]
  BY <1>3, <1>5, OneGoesOn
<1>7. /\ log' \in SessionsLog /\ log'.guesses = log.guesses /\ log'.together = log.together
      /\ log'.uncounted = (log.uncounted \/ c.counted # Cardinality(Used))
      /\ \A p \in SessionIds : log'.successors[p] =
            IF p \in c.refreshed THEN log.successors[p] + 1 ELSE log.successors[p]
  <2> DEFINE uncounted == log.uncounted \/ c.counted # Cardinality(Used)
             successors == [p \in SessionIds |-> IF p \in c.refreshed THEN log.successors[p] + 1
                                                 ELSE log.successors[p]]
  <2>1. log \in SessionsLog
    BY DEF SessionsTypes
  <2>2. uncounted \in BOOLEAN
    OBVIOUS
  <2>3. successors \in [SessionIds -> Nat]
    BY <2>1 DEF SessionsLog
  <2>4. log' = [log EXCEPT !.uncounted = uncounted, !.successors = successors]
    BY <1>1 DEF CreateSession
  <2>5. \A p \in SessionIds : successors[p] =
            IF p \in c.refreshed THEN log.successors[p] + 1 ELSE log.successors[p]
    OBVIOUS
  <2> HIDE DEF uncounted, successors
  <2>6. /\ log' \in SessionsLog /\ log'.guesses = log.guesses /\ log'.together = log.together
        /\ log'.uncounted = uncounted /\ log'.successors = successors
    BY <2>1, <2>2, <2>3, <2>4 DEF SessionsLog
  <2>7. QED
    BY <2>5, <2>6 DEF uncounted
<1>8. /\ SessionsTypes'
      /\ Credential' = Credential /\ Used' = Used \cup {s} /\ Active' = Active \cup {s}
  BY <1>3, <1>4, <1>6, <1>7, SessionWritten DEF SessionsTypes
<1>9. s \notin Used /\ s \notin Active
  BY <1>3 DEF Used, Active
<1>10. GuessesCounted'
  <2>1. Verifying' \subseteq Verifying
    BY <1>5, <1>6 DEF Verifying
  <2>2. QED
    BY <1>7, <1>8, <2>1, GuessesStay
<1>11. \A q \in Requests, t \in SessionIds : Refreshes(q, t)' <=> Refreshes(q, t)
  BY <1>1, <1>2, <1>5, <1>6 DEF Refreshes
<1>12. \A q \in Requests, t \in SessionIds : Succeeds(q, t)' <=> q # r /\ Succeeds(q, t)
  BY <1>5, <1>6 DEF Succeeds
<1>13. RefreshedAlone'
  <2>1. ASSUME NEW t \in SessionIds, t \notin log.together
        PROVE  /\ log'.successors[t] <= 1
               /\ \A q \in Requests : Succeeds(q, t)' => log'.successors[t] = 0
               /\ log'.successors[t] = 1 \/ (\E q \in Requests : Succeeds(q, t)') =>
                     t \in Used \ Active /\ \A q \in Requests : ~Refreshes(q, t)
    <3>1. CASE Succeeds(r, t)
      <4>1. log.successors[t] = 0 /\ \A q \in Requests : ~Succeeds(q, t)'
        BY <1>12, <2>1, <3>1 DEF RefreshedAlone
      <4>2. log'.successors[t] = 1
        BY <1>1, <1>7, <3>1, <4>1 DEF Succeeds
      <4>3. QED
        BY <2>1, <3>1, <4>1, <4>2 DEF RefreshedAlone
    <3>2. CASE ~Succeeds(r, t)
      <4>1. log'.successors[t] = log.successors[t]
        BY <1>1, <1>2, <1>7, <3>2 DEF Succeeds
      <4>2. QED
        BY <1>12, <2>1, <4>1 DEF RefreshedAlone
    <3>3. QED
      BY <3>1, <3>2
  <2>2. \A t \in Used \ Active : t \in Used' \ Active'
    BY <1>8, <1>9
  <2>3. QED
    BY <1>7, <1>8, <1>11, <1>12, <2>1, <2>2 DEF RefreshedAlone
<1>14. RoomWhereCounted'
  <2>1. Used \in SUBSET SessionIds /\ Active \in SUBSET SessionIds
    BY DEF Used, Active
  <2>2. /\ IsFiniteSet(Used) /\ IsFiniteSet(Active)
        /\ Cardinality(Used) \in Nat /\ Cardinality(Active) \in Nat /\ MaxSessions \in Nat
    BY <2>1, SessionsFinite DEF SessionsAssumption
  <2>3. Cardinality(Used') = Cardinality(Used) + 1 /\ Cardinality(Active') = Cardinality(Active) + 1
    BY <1>8, <1>9, <2>2, FS_AddElement
  <2>4. \A q \in Requests : request'[q].at = "create" =>
            request[q].at = "create" /\ request'[q] = request[q] /\ request[q].counted \in Nat \cup {None}
    BY <1>5, <1>6, SessionsRequests
  <2>5. \A q \in Requests : request'[q].at = "create" => request'[q].counted <= Cardinality(Used)
    BY <2>4 DEF RoomWhereCounted
  <2>6. ASSUME ~log'.uncounted PROVE Cardinality(Active') <= MaxSessions
    <3>1. ~log.uncounted /\ c.counted = Cardinality(Used)
      BY <1>7, <2>6, Zenon
    <3>2. Cardinality(Active) < MaxSessions
      BY <1>1, <1>2, <3>1 DEF RoomWhereCounted
    <3>3. QED
      BY <2>2, <2>3, <3>2
  <2>7. \A q \in Requests : request'[q].at = "create" =>
            request'[q].counted <= Cardinality(Used') /\ request'[q].counted # Cardinality(Used')
    <3>1. \A q \in Requests : request'[q].at = "create" => request'[q].counted \in Int
      BY <2>4 DEF None
    <3>2. QED
      BY <2>2, <2>3, <2>5, <3>1
  <2>8. QED
    BY <2>6, <2>7 DEF RoomWhereCounted
<1>15. QED
  BY <1>8, <1>10, <1>13, <1>14

LEMMA RefreshKeeps ==
    ASSUME SessionsAssumption, SessionsInv, NEW r \in Requests, NEW s \in SessionIds, Refresh(r, s)
    PROVE  SessionsInv'
<1> USE DEF SessionsInv
<1> DEFINE step == IF rows[s].isActive THEN [at |-> "check", old |-> s] ELSE Idle
<1>1. /\ Stored(s) /\ request[r] = Idle /\ request' = [request EXCEPT ![r] = step]
      /\ UNCHANGED <<rows, clock>>
  BY DEF Refresh, Starts
<1>2. step \in SessionsRequest
  BY DEF SessionsRequest
<1>3. /\ rows[s].isActive => step.at = "check" /\ step.old = s
      /\ ~rows[s].isActive => step.at = "idle"
  BY DEF Idle
<1> HIDE DEF step
<1>4. /\ request' \in [Requests -> SessionsRequest]
      /\ request'[r] = step /\ \A q \in Requests \ {r} : request'[q] = request[q]
  BY <1>1, <1>2, OneGoesOn
<1>5. /\ log' \in SessionsLog /\ log'.guesses = log.guesses /\ log'.uncounted = log.uncounted
      /\ log'.successors = log.successors
      /\ log.together \subseteq log'.together
      /\ rows[s].isActive /\ Refreshing(s) # {} => s \in log'.together
  BY DEF Refresh, SessionsTypes, SessionsLog
<1>6. /\ SessionsTypes'
      /\ Credential' = Credential /\ Used' = Used /\ Active' = Active
  BY <1>1, <1>4, <1>5, RowsKept DEF SessionsTypes
<1>7. s \in Used /\ (s \in Active <=> rows[s].isActive)
  BY <1>1 DEF Used, Active
<1>8. GuessesCounted'
  <2>1. Verifying' \subseteq Verifying
    BY <1>3, <1>4 DEF Verifying
  <2>2. QED
    BY <1>5, <1>6, <2>1, GuessesStay
<1>9. \A q \in Requests, t \in SessionIds :
          Refreshes(q, t)' <=> IF q = r THEN t = s /\ rows[s].isActive ELSE Refreshes(q, t)
  BY <1>3, <1>4 DEF Refreshes
<1>10. \A q \in Requests, t \in SessionIds : Succeeds(q, t)' <=> Succeeds(q, t)
  BY <1>1, <1>3, <1>4 DEF Succeeds, Idle
<1>11. RefreshedAlone'
  <2>1. \A q \in Requests, t \in SessionIds : Refreshes(q, t)' => t \in Used
    BY <1>7, <1>9 DEF RefreshedAlone
  <2>2. ASSUME NEW t \in SessionIds, t \notin log'.together
        PROVE  /\ t \notin log.together
               /\ t = s /\ rows[s].isActive => \A q \in Requests : ~Refreshes(q, s)
    BY <1>5, <2>2 DEF Refreshing, Refreshes
  <2>3. ASSUME NEW t \in SessionIds, t \notin log'.together
        PROVE  /\ \A p, q \in Requests : Refreshes(p, t)' /\ Refreshes(q, t)' => p = q
               /\ log.successors[t] = 1 \/ (\E q \in Requests : Succeeds(q, t)) =>
                     \A q \in Requests : ~Refreshes(q, t)'
    BY <1>7, <1>9, <2>2, <2>3 DEF RefreshedAlone
  <2>4. QED
    BY <1>5, <1>6, <1>10, <2>1, <2>2, <2>3 DEF RefreshedAlone
<1>12. RoomWhereCounted'
  <2>1. \A q \in Requests : request'[q].at = "create" =>
            request[q].at = "create" /\ request'[q].counted = request[q].counted
    BY <1>3, <1>4
  <2>2. QED
    BY <1>5, <1>6, <2>1, RoomStays
<1>13. QED
  BY <1>6, <1>8, <1>11, <1>12

LEMMA CheckSessionKeeps ==
    ASSUME SessionsAssumption, SessionsInv, NEW r \in Requests, CheckSession(r)
    PROVE  SessionsInv'
<1> USE DEF SessionsInv
<1>1. PICK c : c = request[r]
  OBVIOUS
<1>2. c.at = "check" /\ c \in [at : {"check", "revoke"}, old : SessionIds]
  BY <1>1, SessionsRequests DEF CheckSession
<1> DEFINE step == IF IsActiveSession(c.old) THEN [c EXCEPT !.at = "revoke"] ELSE Idle
<1>3. request' = [request EXCEPT ![r] = step] /\ UNCHANGED <<rows, log, clock>>
  BY <1>1 DEF CheckSession, GoesOn
<1>4. /\ [c EXCEPT !.at = "revoke"] \in [at : {"check", "revoke"}, old : SessionIds]
      /\ [c EXCEPT !.at = "revoke"].at = "revoke" /\ [c EXCEPT !.at = "revoke"].old = c.old
  BY <1>2
<1>5. /\ step \in SessionsRequest
      /\ step.at \in {"idle", "revoke"} /\ (step.at = "revoke" => step.old = c.old)
  BY <1>4 DEF SessionsRequest, Idle
<1> HIDE DEF step
<1>6. /\ request' \in [Requests -> SessionsRequest]
      /\ request'[r] = step /\ \A q \in Requests \ {r} : request'[q] = request[q]
  BY <1>3, <1>5, OneGoesOn
<1>7. /\ SessionsTypes'
      /\ Credential' = Credential /\ Used' = Used /\ Active' = Active
  BY <1>3, <1>6, RowsKept DEF SessionsTypes
<1>8. GuessesCounted'
  <2>1. Verifying' \subseteq Verifying
    BY <1>5, <1>6 DEF Verifying
  <2>2. QED
    BY <1>3, <1>7, <2>1, GuessesStay
<1>9. RefreshedAlone'
  <2>1. \A q \in Requests, t \in SessionIds : Refreshes(q, t)' => Refreshes(q, t)
    BY <1>1, <1>2, <1>5, <1>6 DEF Refreshes
  <2>2. \A q \in Requests, t \in SessionIds : Succeeds(q, t)' => Succeeds(q, t)
    BY <1>5, <1>6 DEF Succeeds
  <2>3. QED
    BY <1>3, <1>7, <2>1, <2>2, RefreshesStay
<1>10. RoomWhereCounted'
  <2>1. \A q \in Requests : request'[q].at = "create" =>
            request[q].at = "create" /\ request'[q].counted = request[q].counted
    BY <1>5, <1>6
  <2>2. QED
    BY <1>3, <1>7, <2>1, RoomStays
<1>11. QED
  BY <1>7, <1>8, <1>9, <1>10

LEMMA RevokeOldKeeps ==
    ASSUME SessionsAssumption, SessionsInv, NEW r \in Requests, RevokeOld(r)
    PROVE  SessionsInv'
<1> USE DEF SessionsInv
<1>1. PICK c : c = request[r]
  OBVIOUS
<1>2. c.at = "revoke" /\ c.old \in SessionIds
  BY <1>1, SessionsRequests DEF RevokeOld
<1>3. PICK s \in SessionIds : s = c.old
  BY <1>2
<1> DEFINE counted == IF s \in Active THEN Cardinality(Used) ELSE None
           step == [at |-> "create", refreshed |-> {s}, counted |-> counted]
<1>4. rows' = RevokedRows({s}) /\ request' = [request EXCEPT ![r] = step] /\ UNCHANGED <<log, clock>>
  BY <1>1, <1>3 DEF RevokeOld, GoesOn
<1>5. Refreshes(r, s) /\ s \in Used
  BY <1>1, <1>2, <1>3 DEF Refreshes, RefreshedAlone
<1>6. Used \in SUBSET SessionIds /\ Active \in SUBSET SessionIds
  BY DEF Used, Active
<1>7. /\ IsFiniteSet(Used) /\ IsFiniteSet(Active)
      /\ Cardinality(Used) \in Nat /\ Cardinality(Active) \in Nat /\ MaxSessions \in Nat
  BY <1>6, SessionsFinite DEF SessionsAssumption
<1>8. counted \in Nat \cup {None}
  BY <1>7
<1>9. /\ step \in SessionsRequest
      /\ step.at = "create" /\ step.refreshed = {s} /\ step.counted = counted
  BY <1>8 DEF SessionsRequest
<1> HIDE DEF step
<1>10. /\ request' \in [Requests -> SessionsRequest]
       /\ request'[r] = step /\ \A q \in Requests \ {r} : request'[q] = request[q]
  BY <1>4, <1>9, OneGoesOn
<1>11. /\ SessionsTypes'
       /\ Credential' = Credential /\ Used' = Used /\ Active' = Active \ {s}
  <2>1. {s} \in SUBSET Used
    BY <1>5
  <2>2. QED
    BY <1>4, <1>10, <2>1, SessionsRevoked DEF SessionsTypes
<1>12. GuessesCounted'
  <2>1. Verifying' \subseteq Verifying
    BY <1>9, <1>10 DEF Verifying
  <2>2. QED
    BY <1>4, <1>11, <2>1, GuessesStay
<1>13. \A q \in Requests, t \in SessionIds : Refreshes(q, t)' <=> q # r /\ Refreshes(q, t)
  BY <1>9, <1>10 DEF Refreshes
<1>14. \A q \in Requests, t \in SessionIds :
           Succeeds(q, t)' <=> IF q = r THEN t = s ELSE Succeeds(q, t)
  BY <1>9, <1>10 DEF Succeeds
<1>15. RefreshedAlone'
  <2>1. ASSUME NEW t \in SessionIds, t \notin log.together
        PROVE  /\ \A p, q \in Requests : Refreshes(p, t)' /\ Refreshes(q, t)' => p = q
               /\ \A p, q \in Requests : Succeeds(p, t)' /\ Succeeds(q, t)' => p = q
               /\ log.successors[t] <= 1
               /\ \A q \in Requests : Succeeds(q, t)' => log.successors[t] = 0
               /\ log.successors[t] = 1 \/ (\E q \in Requests : Succeeds(q, t)') =>
                     t \in Used' \ Active' /\ \A q \in Requests : ~Refreshes(q, t)'
    <3>1. CASE t = s
      <4>1. /\ \A q \in Requests : ~Succeeds(q, t) /\ (Refreshes(q, t) => q = r)
            /\ log.successors[t] # 1 /\ log.successors[t] <= 1
        BY <1>5, <2>1, <3>1 DEF RefreshedAlone
      <4>2. log.successors[t] = 0
        <5>1. log.successors[t] \in Nat
          BY DEF SessionsTypes, SessionsLog
        <5>2. QED
          BY <4>1, <5>1
      <4>3. QED
        BY <1>5, <1>11, <1>13, <1>14, <3>1, <4>1, <4>2
    <3>2. CASE t # s
      BY <1>11, <1>13, <1>14, <2>1, <3>2 DEF RefreshedAlone
    <3>3. QED
      BY <3>1, <3>2
  <2>2. QED
    BY <1>4, <1>11, <1>13, <2>1 DEF RefreshedAlone
<1>16. RoomWhereCounted'
  <2>1. CASE s \notin Active
    <3>1. counted = None
      BY <2>1
    <3>2. \A q \in Requests : request'[q].at = "create" =>
              \/ request'[q].counted = None
              \/ request[q].at = "create" /\ request'[q].counted = request[q].counted
      BY <1>9, <1>10, <3>1
    <3>3. QED
      BY <1>4, <1>11, <3>2, RoomStays
  <2>2. CASE s \in Active
    <3>1. Cardinality(Active') = Cardinality(Active) - 1
      BY <1>7, <1>11, <2>2, FS_RemoveElement
    <3>2. counted = Cardinality(Used)
      BY <2>2
    <3>3. \A q \in Requests : request'[q].at = "create" => request'[q].counted <= Cardinality(Used)
      BY <1>7, <1>9, <1>10, <3>2 DEF RoomWhereCounted
    <3>4. ASSUME ~log'.uncounted
          PROVE  Cardinality(Active') <= MaxSessions /\ Cardinality(Active') < MaxSessions
      <4>1. Cardinality(Active) <= MaxSessions
        BY <1>4, <3>4 DEF RoomWhereCounted
      <4>2. QED
        BY <1>7, <3>1, <4>1
    <3>5. QED
      BY <1>11, <3>3, <3>4 DEF RoomWhereCounted
  <2>3. QED
    BY <2>1, <2>2
<1>17. QED
  BY <1>11, <1>12, <1>15, <1>16

LEMMA LogoutKeeps ==
    ASSUME SessionsAssumption, SessionsInv, NEW r \in Requests, NEW S \in SUBSET Used,
           rows' = RevokedRows(S), StartsAndEnds(r), UNCHANGED <<log, clock>>
    PROVE  SessionsInv'
<1> USE DEF SessionsInv
<1>1. request' = request
  BY DEF StartsAndEnds, Starts, SessionsTypes
<1>2. /\ SessionsTypes'
      /\ Credential' = Credential /\ Used' = Used /\ Active' = Active \ S
  BY <1>1, SessionsRevoked DEF SessionsTypes
<1>3. GuessesCounted'
  BY <1>1, <1>2, GuessesStay DEF Verifying
<1>4. RefreshedAlone'
  BY <1>1, <1>2, RefreshesStay DEF Refreshes, Succeeds
<1>5. RoomWhereCounted'
  BY <1>1, <1>2, RoomStays
<1>6. QED
  BY <1>2, <1>3, <1>4, <1>5

LEMMA SessionsInvStep ==
    ASSUME SessionsAssumption, SessionsInv, [SessionsNext]_aggregateVars
    PROVE  SessionsInv'
<1>1. ASSUME NEW r \in Requests, NEW s \in SessionIds, LogoutSession(r, s) PROVE SessionsInv'
  <2>1. {s} \in SUBSET Used
    BY <1>1 DEF LogoutSession, Used
  <2>2. QED
    BY <1>1, <2>1, LogoutKeeps DEF LogoutSession
<1>2. ASSUME NEW r \in Requests, LogoutUser(r) PROVE SessionsInv'
  <2>1. Active \in SUBSET Used
    BY DEF Active, Used
  <2>2. QED
    BY <1>2, <2>1, LogoutKeeps DEF LogoutUser
<1>3. ASSUME UNCHANGED <<rows, log>>, clock' \in Nat, request' = request \/ request' = [r \in Requests |-> Idle]
      PROVE  SessionsInv'
  <2> USE DEF SessionsInv
  <2>1. Idle \in SessionsRequest /\ Idle.at = "idle"
    BY DEF SessionsRequest, Idle
  <2>2. \A q \in Requests : request'[q] = request[q] \/ request'[q] = Idle
    BY <1>3
  <2>3. SessionsTypes' /\ Credential' = Credential /\ Used' = Used /\ Active' = Active
    BY <1>3, <2>1, RowsKept DEF SessionsTypes
  <2>4. GuessesCounted'
    <3>1. Verifying' \subseteq Verifying
      BY <2>1, <2>2 DEF Verifying
    <3>2. QED
      BY <1>3, <2>3, <3>1, GuessesStay
  <2>5. RefreshedAlone'
    BY <1>3, <2>1, <2>2, <2>3, RefreshesStay DEF Refreshes, Succeeds
  <2>6. RoomWhereCounted'
    BY <1>3, <2>1, <2>2, <2>3, RoomStays
  <2>7. QED
    BY <2>3, <2>4, <2>5, <2>6
<1>4. StopProcess \/ Tick \/ UNCHANGED aggregateVars =>
          /\ UNCHANGED <<rows, log>> /\ clock' \in Nat
          /\ request' = request \/ request' = [r \in Requests |-> Idle]
  BY DEF StopProcess, Tick, aggregateVars, SessionsInv, SessionsTypes
<1>5. QED
  BY <1>1, <1>2, <1>3, <1>4, LoginKeeps, VerifyPasswordKeeps, CountSessionsKeeps,
     CreateSessionKeeps, RefreshKeeps, CheckSessionKeeps, RevokeOldKeeps DEF SessionsNext

\* However logins, refreshes and logouts overlap: an account has no more live sessions than the
\* policy allows, unless one was created without a count that still holds; a session is
\* refreshed once, unless two requests refresh it together; and no more wrong passwords are
\* tried than the limit and the requests under way allow.
THEOREM SessionsHold ==
    ASSUME SessionsAssumption
    PROVE  SessionsSpec => [](SessionsTypeOK /\ SessionsSound)
<1>1. SessionsInv => SessionsTypeOK /\ SessionsSound
  <2> SUFFICES ASSUME SessionsInv PROVE SessionsTypeOK /\ SessionsSound
    OBVIOUS
  <2>1. SessionsAreLimited
    BY DEF SessionsInv, RoomWhereCounted, SessionsAreLimited
  <2>2. RefreshedOnce
    BY DEF SessionsInv, RefreshedAlone, RefreshedOnce
  <2>3. GuessesAreBounded
    <3>1. Verifying \in SUBSET Requests
      BY DEF Verifying
    <3>2. Cardinality(Verifying) \in Nat
      BY <3>1, SessionsFinite
    <3>3. log.guesses \in Nat /\ LockAfter \in Nat /\ Cardinality(Requests) \in Nat
      BY SessionsFinite DEF SessionsInv, SessionsTypes, SessionsLog, SessionsAssumption
    <3>4. QED
      BY <3>2, <3>3 DEF SessionsInv, GuessesCounted, GuessesAreBounded
  <2>4. SessionsTypeOK
    BY DEF SessionsInv, SessionsTypes
  <2>5. QED
    BY <2>1, <2>2, <2>3, <2>4 DEF SessionsSound
<1>2. SessionsInv /\ [SessionsNext]_aggregateVars => SessionsInv'
  BY SessionsInvStep
<1>3. SessionsInit => SessionsInv
  BY SessionsInvInit
<1>4. QED
  BY <1>1, <1>2, <1>3, PTL DEF SessionsSpec

-----------------------------------------------------------------------------
(* Finance *)

FinanceAssumption == LastTick \in Nat

FinanceTask ==
    [does : {"update"}, input : UpdateInput] \cup [does : {"delete"}]
    \cup [does : {"move"}, to : TransactionState] \cup [does : {"compensate"}, new : Ids]

FinanceRequest ==
    {Idle}
    \cup [at : {"write"}, id : Ids, read : TransactionRow, task : FinanceTask]
    \cup [at : {"announce"}, id : Ids, version : Nat]

FinanceLog ==
    [announced : [Ids -> Nat], granted : SUBSET Ids, compensated : SUBSET (Ids \X Ids),
     overtaken : SUBSET Ids]

FinanceTypes ==
    /\ rows \in [Ids -> TransactionRow \cup {NoRow}]
    /\ request \in [Requests -> FinanceRequest]
    /\ log \in FinanceLog
    /\ clock \in 0 .. LastTick

\* What a request read was so, and versions are counted up from there.
TaskSound(c) ==
    /\ c.at \in {"write", "announce"} => Stored(c.id)
    /\ c.at = "write" =>
          /\ c.read.version <= rows[c.id].version
          /\ c.task.does = "update" => Mutable(c.read)
          /\ c.task.does = "compensate" => c.id \in log.granted
    /\ c.at = "announce" => c.version <= rows[c.id].version

AnnouncedSound ==
    \A i \in Ids : log.announced[i] <= IF Stored(i) THEN rows[i].version ELSE 0

ApprovedWereGranted == \A i \in Ids : Stored(i) /\ rows[i].state = "approved" => i \in log.granted

CompensationsSound ==
    \A p \in log.compensated :
        p[1] \in log.granted /\ Stored(p[2]) /\ rows[p[2]].compensates = p[1]

FinanceInv ==
    /\ FinanceTypes
    /\ \A r \in Requests : TaskSound(request[r])
    /\ AnnouncedSound /\ ApprovedWereGranted /\ CompensationsSound

LEMMA FinanceIdle == TaskSound(Idle) /\ TaskSound(Idle)' /\ Idle.at = "idle" /\ Idle \in FinanceRequest
  BY DEF TaskSound, Idle, FinanceRequest

LEMMA FinanceInvInit ==
    ASSUME FinanceAssumption
    PROVE  FinanceInit => FinanceInv
<1> SUFFICES ASSUME FinanceInit PROVE FinanceInv
  OBVIOUS
<1> USE DEF FinanceInit, StoreInit
<1>1. FinanceTypes
  BY FinanceIdle DEF FinanceTypes, FinanceLog, FinanceAssumption
<1>2. \A i \in Ids : ~Stored(i) /\ log.announced[i] = 0
  BY DEF Stored
<1>3. log.compensated = {} /\ \A r \in Requests : request[r] = Idle
  OBVIOUS
<1>4. QED
  BY <1>1, <1>2, <1>3, FinanceIdle
     DEF FinanceInv, AnnouncedSound, ApprovedWereGranted, CompensationsSound

LEMMA TransactionStored == \A row \in TransactionRow : row # NoRow
<1>1. DOMAIN NoRow = {"state"} /\ \A row \in TransactionRow : "version" \in DOMAIN row
  BY DEF NoRow, TransactionRow
<1>2. QED
  BY <1>1

\* The fields of a request
LEMMA FinanceRequests ==
    ASSUME FinanceTypes, NEW r \in Requests
    PROVE  /\ request[r].at = "write" =>
                 request[r] \in [at : {"write"}, id : Ids, read : TransactionRow, task : FinanceTask]
           /\ request[r].at = "announce" =>
                 request[r] \in [at : {"announce"}, id : Ids, version : Nat]
           /\ request[r].at \in {"idle", "write", "announce"}
  BY DEF FinanceTypes, FinanceRequest, Idle

\* Where rows are only added, or written as rows of one version more that compensate what they
\* did, and one request goes on, what held of requests and rows holds.
LEMMA FinanceGoesOn ==
    ASSUME FinanceInv, NEW r \in Requests, NEW step \in FinanceRequest,
           rows' \in [Ids -> TransactionRow \cup {NoRow}],
           \A i \in Ids : Stored(i) =>
               /\ Stored(i)' /\ rows[i].version <= rows'[i].version
               /\ rows'[i].compensates = rows[i].compensates,
           \A i \in Ids : Stored(i)' /\ rows'[i].state = "approved" =>
               i \in log'.granted \/ (Stored(i) /\ rows[i].state = "approved"),
           request' = [request EXCEPT ![r] = step], TaskSound(step)',
           log' \in FinanceLog, log.granted \subseteq log'.granted, clock' \in 0 .. LastTick
    PROVE  /\ FinanceTypes' /\ ApprovedWereGranted'
           /\ \A q \in Requests : TaskSound(request[q])'
           /\ log'.announced = log.announced => AnnouncedSound'
           /\ log'.compensated = log.compensated => CompensationsSound'
<1> USE DEF FinanceInv
<1>1. FinanceTypes'
  BY DEF FinanceTypes
<1>2. ApprovedWereGranted'
  BY DEF ApprovedWereGranted
<1>3. request'[r] = step /\ \A q \in Requests \ {r} : request'[q] = request[q]
  BY DEF FinanceTypes
<1>4. ASSUME NEW q \in Requests PROVE TaskSound(request[q])'
  <2>1. CASE q = r
    BY <1>3, <2>1 DEF TaskSound, Stored
  <2>2. CASE q # r
    <3>1. PICK c : c = request[q]
      OBVIOUS
    <3>2. request'[q] = c /\ TaskSound(c)
      BY <1>3, <2>2, <3>1
    <3>3. /\ c.at = "write" =>
                c \in [at : {"write"}, id : Ids, read : TransactionRow, task : FinanceTask]
          /\ c.at = "announce" => c \in [at : {"announce"}, id : Ids, version : Nat]
      BY <3>1, FinanceRequests
    <3>4. \A i \in Ids : Stored(i) => rows[i].version \in Nat /\ rows'[i].version \in Nat
      <4>1. \A row \in TransactionRow : row.version \in Nat
        BY DEF TransactionRow
      <4>2. QED
        BY <4>1 DEF FinanceTypes, Stored
    <3>5. TaskSound(c)'
      <4>1. CASE c.at = "write"
        <5>1. c.id \in Ids /\ c.read.version \in Nat
          BY <3>3, <4>1 DEF TransactionRow
        <5>2. QED
          BY <3>2, <3>4, <4>1, <5>1 DEF TaskSound
      <4>2. CASE c.at = "announce"
        <5>1. c.id \in Ids /\ c.version \in Nat
          BY <3>3, <4>2
        <5>2. QED
          BY <3>2, <3>4, <4>2, <5>1 DEF TaskSound
      <4>3. QED
        BY <4>1, <4>2 DEF TaskSound
    <3>6. QED
      BY <3>2, <3>5 DEF TaskSound, Stored
  <2>3. QED
    BY <2>1, <2>2
<1>5. ASSUME log'.announced = log.announced PROVE AnnouncedSound'
  <2>1. ASSUME NEW i \in Ids
        PROVE  log'.announced[i] <= IF Stored(i)' THEN rows'[i].version ELSE 0
    <3>1. /\ log.announced[i] \in Nat
          /\ Stored(i) => rows[i].version \in Nat
          /\ Stored(i)' => rows'[i].version \in Nat
      <4>1. \A row \in TransactionRow : row.version \in Nat
        BY DEF TransactionRow
      <4>2. QED
        BY <4>1 DEF FinanceTypes, FinanceLog, Stored
    <3>2. log.announced[i] <= IF Stored(i) THEN rows[i].version ELSE 0
      BY DEF AnnouncedSound
    <3>3. CASE Stored(i)
      BY <1>5, <3>1, <3>2, <3>3
    <3>4. CASE ~Stored(i)
      BY <1>5, <3>1, <3>2, <3>4
    <3>5. QED
      BY <3>3, <3>4
  <2>2. QED
    BY <2>1 DEF AnnouncedSound
<1>6. ASSUME log'.compensated = log.compensated PROVE CompensationsSound'
  <2>1. \A p \in log.compensated : p[2] \in Ids
    BY DEF FinanceTypes, FinanceLog
  <2>2. QED
    BY <1>6, <2>1 DEF CompensationsSound
<1>7. QED
  BY <1>1, <1>2, <1>4, <1>5, <1>6

\* A command that reads a row and goes on with a task
LEMMA FinanceReads ==
    ASSUME FinanceInv, NEW r \in Requests, NEW i \in Ids, NEW task \in FinanceTask,
           Reads(r, i, task),
           task.does = "update" => Mutable(rows[i]),
           task.does = "compensate" => rows[i].state = "approved"
    PROVE  FinanceInv' /\ UNCHANGED rows
<1> USE DEF FinanceInv
<1> DEFINE step == [at |-> "write", id |-> i, read |-> rows[i], task |-> task]
<1>1. Stored(i) /\ request' = [request EXCEPT ![r] = step] /\ UNCHANGED <<rows, log, clock>>
  BY DEF Reads, Starts
<1>2. rows[i] \in TransactionRow /\ rows[i].version <= rows[i].version
  BY <1>1 DEF FinanceTypes, Stored, TransactionRow
<1>3. step \in FinanceRequest
  BY <1>2 DEF FinanceRequest
<1>4. step.at = "write" /\ step.id = i /\ step.read = rows[i] /\ step.task = task
  OBVIOUS
<1> HIDE DEF step
<1>5. task.does = "compensate" => i \in log.granted
  BY <1>1 DEF ApprovedWereGranted
<1>6. PICK c : c = step
  OBVIOUS
<1>7. TaskSound(c)'
  BY <1>1, <1>2, <1>4, <1>5, <1>6 DEF TaskSound, Stored
<1>8. /\ FinanceTypes' /\ ApprovedWereGranted' /\ AnnouncedSound' /\ CompensationsSound'
      /\ \A q \in Requests : TaskSound(request[q])'
  <2>1. /\ rows' \in [Ids -> TransactionRow \cup {NoRow}]
        /\ log' \in FinanceLog /\ log.granted \subseteq log'.granted /\ clock' \in 0 .. LastTick
    BY <1>1 DEF FinanceTypes
  <2>2. \A j \in Ids : Stored(j) =>
            /\ Stored(j)' /\ rows[j].version <= rows'[j].version
            /\ rows'[j].compensates = rows[j].compensates
    <3>1. \A j \in Ids : Stored(j) => rows[j].version \in Nat
      BY DEF FinanceTypes, Stored, TransactionRow
    <3>2. QED
      BY <1>1, <3>1 DEF Stored
  <2>3. \A j \in Ids : Stored(j)' /\ rows'[j].state = "approved" =>
            j \in log'.granted \/ (Stored(j) /\ rows[j].state = "approved")
    BY <1>1 DEF Stored
  <2>4. c \in FinanceRequest /\ request' = [request EXCEPT ![r] = c]
    BY <1>1, <1>3, <1>6
  <2>5. QED
    BY <1>1, <1>7, <2>1, <2>2, <2>3, <2>4, FinanceGoesOn
<1>9. QED
  BY <1>1, <1>8

\* A row is written, of one version more.
LEMMA FinanceWrites ==
    ASSUME FinanceInv, NEW r \in Requests, NEW i \in Ids, NEW row \in TransactionRow,
           NEW step \in FinanceRequest, Stored(i), PutRow(i, row),
           row.version = rows[i].version + 1, row.compensates = rows[i].compensates,
           row.state = "approved" => i \in log'.granted \/ rows[i].state = "approved",
           request' = [request EXCEPT ![r] = step],
           step = Idle \/ (step.at = "announce" /\ step.id = i /\ step.version <= row.version),
           log' \in FinanceLog, log.granted \subseteq log'.granted,
           log'.announced = log.announced, log'.compensated = log.compensated, clock' = clock
    PROVE  FinanceInv'
<1> USE DEF FinanceInv
<1>1. rows' = [j \in Ids |-> IF j = i THEN row ELSE rows[j]]
  BY DEF PutRow, FinanceTypes
<1>2. row # NoRow /\ \A t \in TransactionRow : t.version \in Nat
  BY TransactionStored DEF TransactionRow
<1>3. /\ rows' \in [Ids -> TransactionRow \cup {NoRow}] /\ clock' \in 0 .. LastTick
  BY <1>1 DEF FinanceTypes
<1>4. \A j \in Ids : Stored(j) =>
          /\ Stored(j)' /\ rows[j].version <= rows'[j].version
          /\ rows'[j].compensates = rows[j].compensates
  <2>1. \A j \in Ids : Stored(j) => rows[j].version \in Nat
    BY <1>2 DEF FinanceTypes, Stored
  <2>2. QED
    BY <1>1, <1>2, <2>1 DEF Stored
<1>5. \A j \in Ids : Stored(j)' /\ rows'[j].state = "approved" =>
          j \in log'.granted \/ (Stored(j) /\ rows[j].state = "approved")
  <2>1. ASSUME NEW j \in Ids, rows'[j].state = "approved", Stored(j)'
        PROVE  j \in log'.granted \/ (Stored(j) /\ rows[j].state = "approved")
    <3>1. CASE j = i
      <4>1. rows'[j] = row
        BY <1>1, <3>1
      <4>2. QED
        BY <2>1, <3>1, <4>1
    <3>2. CASE j # i
      <4>1. rows'[j] = rows[j]
        BY <1>1, <3>2
      <4>2. QED
        BY <2>1, <4>1 DEF Stored
    <3>3. QED
      BY <3>1, <3>2
  <2>2. QED
    BY <2>1
<1>6. TaskSound(step)'
  <2>1. CASE step = Idle
    BY <2>1 DEF TaskSound, Idle
  <2>2. CASE step # Idle
    <3>1. step.at = "announce" /\ step.id = i /\ step.version <= row.version
      BY <2>2
    <3>2. Stored(i)' /\ rows'[i] = row
      BY <1>1, <1>2 DEF Stored
    <3>3. QED
      BY <3>1, <3>2 DEF TaskSound, Stored
  <2>3. QED
    BY <2>1, <2>2
<1>7. PICK c : c = step
  OBVIOUS
<1>8. TaskSound(c)'
  BY <1>6, <1>7 DEF TaskSound, Stored
<1>9. /\ c \in FinanceRequest /\ request' = [request EXCEPT ![r] = c]
      /\ log' \in FinanceLog /\ log.granted \subseteq log'.granted
      /\ log'.announced = log.announced /\ log'.compensated = log.compensated
  BY <1>7
<1>10. QED
  BY <1>3, <1>4, <1>5, <1>8, <1>9, FinanceGoesOn

\* What a request that writes holds
LEMMA FinanceHolds ==
    ASSUME FinanceInv, NEW r \in Requests, NEW c, c = request[r], c.at = "write"
    PROVE  /\ c.id \in Ids /\ Stored(c.id) /\ rows[c.id] \in TransactionRow
           /\ c.read \in TransactionRow /\ c.read.version <= rows[c.id].version
           /\ c.read.version \in Nat /\ rows[c.id].version \in Nat
           /\ c.task.does = "update" => c.task.input \in UpdateInput /\ Mutable(c.read)
           /\ c.task.does = "move" => c.task.to \in TransactionState
           /\ c.task.does = "compensate" => c.task.new \in Ids /\ c.id \in log.granted
<1> USE DEF FinanceInv
<1>1. c.id \in Ids /\ c.read \in TransactionRow /\ c.task \in FinanceTask
  BY FinanceRequests
<1>2. TaskSound(c)
  OBVIOUS
<1>3. Stored(c.id) /\ rows[c.id] \in TransactionRow
  BY <1>1, <1>2 DEF TaskSound, FinanceTypes, Stored
<1>4. \A t \in TransactionRow : t.version \in Nat
  BY DEF TransactionRow
<1>5. /\ c.task.does = "update" => c.task.input \in UpdateInput
      /\ c.task.does = "move" => c.task.to \in TransactionState
      /\ c.task.does = "compensate" => c.task.new \in Ids
  BY <1>1 DEF FinanceTask
<1>6. QED
  BY <1>1, <1>2, <1>3, <1>4, <1>5 DEF TaskSound

LEMMA UpdateRowKeeps ==
    ASSUME FinanceAssumption, FinanceInv, NEW r \in Requests, UpdateRow(r)
    PROVE  FinanceInv' /\ ApprovedAmountStep
<1>1. PICK c : c = request[r]
  OBVIOUS
<1>2. c.at = "write" /\ c.task.does = "update"
  BY <1>1 DEF UpdateRow
<1> DEFINE i == c.id
           new == MapUpdateInput(rows[i], c.task.input)
           row == [new EXCEPT !.version = @ + 1]
           step == [at |-> "announce", id |-> i, version |-> c.read.version + 1]
<1>3. /\ i \in Ids /\ Stored(i) /\ rows[i] \in TransactionRow /\ c.task.input \in UpdateInput
      /\ c.read.version \in Nat /\ rows[i].version \in Nat /\ c.read.version <= rows[i].version
      /\ Mutable(c.read)
  BY <1>1, <1>2, FinanceHolds
<1>4. /\ PutRow(i, row) /\ request' = [request EXCEPT ![r] = step]
      /\ log' = [log EXCEPT !.overtaken = OvertakenBy(i, c.read)] /\ clock' = clock
  BY <1>1 DEF UpdateRow, Touched, GoesOn
<1>5. /\ new \in TransactionRow /\ new.version = rows[i].version /\ new.state = rows[i].state
      /\ new.compensates = rows[i].compensates
  <2>1. PICK amount \in Amounts, date \in 0 .. LastTick :
            new = [rows[i] EXCEPT !.amount = amount, !.date = date]
    <3>1. /\ c.task.input.amount \in Amounts \cup {None}
          /\ c.task.input.date \in {None, LastTick}
      BY <1>3 DEF UpdateInput
    <3>2. rows[i].amount \in Amounts /\ rows[i].date \in 0 .. LastTick
      BY <1>3 DEF TransactionRow
    <3>3. LastTick \in 0 .. LastTick
      BY DEF FinanceAssumption
    <3> DEFINE amount == IF c.task.input.amount # None THEN c.task.input.amount ELSE rows[i].amount
               date == IF c.task.input.date # None THEN c.task.input.date ELSE rows[i].date
    <3>4. amount \in Amounts /\ date \in 0 .. LastTick
      BY <3>1, <3>2, <3>3
    <3>5. new = [rows[i] EXCEPT !.amount = amount, !.date = date]
      BY DEF MapUpdateInput
    <3> HIDE DEF amount, date, new
    <3>6. QED
      BY <3>4, <3>5
  <2> HIDE DEF new
  <2>2. QED
    BY <1>3, <2>1 DEF TransactionRow
<1> HIDE DEF new
<1>6. /\ row \in TransactionRow /\ row.version = rows[i].version + 1
      /\ row.compensates = rows[i].compensates /\ row.state = rows[i].state
  BY <1>3, <1>5 DEF TransactionRow
<1>7. step \in FinanceRequest /\ step.at = "announce" /\ step.id = i
      /\ step.version = c.read.version + 1
  BY <1>3 DEF FinanceRequest
<1> HIDE DEF row, step
<1>8. /\ log' \in FinanceLog /\ log'.granted = log.granted /\ log'.announced = log.announced
      /\ log'.compensated = log.compensated
      /\ rows[i] # c.read => i \in log'.overtaken
  BY <1>3, <1>4 DEF FinanceInv, FinanceTypes, FinanceLog, OvertakenBy
<1>9. step.version <= row.version
  BY <1>3, <1>6, <1>7
<1>10. FinanceInv'
  BY <1>3, <1>4, <1>6, <1>7, <1>8, <1>9, FinanceWrites
<1>11. ApprovedAmountStep
  <2>1. ASSUME NEW j \in Ids, Stored(j), rows[j].state = "approved", rows'[j] # rows[j]
        PROVE  j \in log'.overtaken
    <3>1. j = i
      BY <1>4, <2>1 DEF PutRow, FinanceInv, FinanceTypes
    <3>2. rows[i] # c.read
      BY <1>3, <2>1, <3>1 DEF Mutable
    <3>3. QED
      BY <1>8, <3>1, <3>2
  <2>2. QED
    BY <2>1 DEF ApprovedAmountStep
<1>12. QED
  BY <1>10, <1>11

\* A row is added, which nobody has approved.
LEMMA FinanceInserts ==
    ASSUME FinanceInv, NEW r \in Requests, NEW i \in Ids, NEW row \in TransactionRow,
           ~Stored(i), PutRow(i, row), row.state # "approved",
           request' = [request EXCEPT ![r] = Idle], log' \in FinanceLog,
           log'.granted = log.granted, log'.announced = log.announced, clock' = clock
    PROVE  /\ FinanceTypes' /\ ApprovedWereGranted' /\ AnnouncedSound'
           /\ \A q \in Requests : TaskSound(request[q])'
           /\ \A j \in Ids : Stored(j) => rows'[j] = rows[j]
           /\ Stored(i)' /\ rows'[i] = row
           /\ log'.compensated = log.compensated => CompensationsSound'
<1> USE DEF FinanceInv
<1>1. rows' = [j \in Ids |-> IF j = i THEN row ELSE rows[j]]
  BY DEF PutRow, FinanceTypes
<1>2. row # NoRow /\ \A t \in TransactionRow : t.version \in Nat
  BY TransactionStored DEF TransactionRow
<1>3. rows' \in [Ids -> TransactionRow \cup {NoRow}] /\ clock' \in 0 .. LastTick
  BY <1>1 DEF FinanceTypes
<1>4. Stored(i)' /\ rows'[i] = row /\ \A j \in Ids : Stored(j) => rows'[j] = rows[j]
  BY <1>1, <1>2 DEF Stored
<1>5. \A j \in Ids : Stored(j) =>
          /\ Stored(j)' /\ rows[j].version <= rows'[j].version
          /\ rows'[j].compensates = rows[j].compensates
  <2>1. \A j \in Ids : Stored(j) => rows[j].version \in Nat
    BY <1>2 DEF FinanceTypes, Stored
  <2>2. QED
    BY <1>4, <2>1 DEF Stored
<1>6. \A j \in Ids : Stored(j)' /\ rows'[j].state = "approved" =>
          j \in log'.granted \/ (Stored(j) /\ rows[j].state = "approved")
  BY <1>1 DEF Stored
<1>7. PICK c : c = Idle
  OBVIOUS
<1>8. /\ TaskSound(c)' /\ c \in FinanceRequest /\ request' = [request EXCEPT ![r] = c]
      /\ log' \in FinanceLog /\ log.granted \subseteq log'.granted
      /\ log'.announced = log.announced
  BY <1>7, FinanceIdle DEF TaskSound, Idle
<1>9. QED
  BY <1>3, <1>4, <1>5, <1>6, <1>8, FinanceGoesOn

LEMMA NewTransactionTyped ==
    ASSUME FinanceInv, NEW amount \in Amounts, NEW type \in TransactionType,
           NEW original \in Ids \cup {None}
    PROVE  /\ NewTransaction(amount, type, original) \in TransactionRow
           /\ NewTransaction(amount, type, original).state = "draft"
           /\ NewTransaction(amount, type, original).compensates = original
  BY DEF FinanceInv, FinanceTypes, NewTransaction, TransactionRow, TransactionState

LEMMA CreateTransactionKeeps ==
    ASSUME FinanceInv, NEW r \in Requests, NEW i \in Ids, NEW amount \in Amounts,
           NEW type \in TransactionType, NEW original \in Ids \cup {None},
           CreateTransaction(r, i, amount, type, original)
    PROVE  FinanceInv' /\ ApprovedAmountStep
<1> DEFINE row == NewTransaction(amount, type, original)
<1>1. row \in TransactionRow /\ row.state # "approved"
  BY NewTransactionTyped
<1>2. /\ ~Stored(i) /\ PutRow(i, row) /\ request' = [request EXCEPT ![r] = Idle]
      /\ log' = log /\ clock' = clock /\ log' \in FinanceLog
  BY DEF CreateTransaction, StartsAndEnds, Starts, FinanceInv, FinanceTypes
<1> HIDE DEF row
<1>3. /\ FinanceTypes' /\ ApprovedWereGranted' /\ AnnouncedSound' /\ CompensationsSound'
      /\ \A q \in Requests : TaskSound(request[q])'
      /\ \A j \in Ids : Stored(j) => rows'[j] = rows[j]
  BY <1>1, <1>2, FinanceInserts
<1>4. QED
  BY <1>3 DEF FinanceInv, ApprovedAmountStep

LEMMA InsertCompensationKeeps ==
    ASSUME FinanceInv, NEW r \in Requests, NEW amount \in Amounts,
           NEW type \in TransactionType, InsertCompensation(r, amount, type)
    PROVE  FinanceInv' /\ ApprovedAmountStep
<1>1. PICK c : c = request[r]
  OBVIOUS
<1>2. c.at = "write" /\ c.task.does = "compensate"
  BY <1>1 DEF InsertCompensation
<1>3. PICK original \in Ids, new \in Ids : original = c.id /\ new = c.task.new
  BY <1>1, <1>2, FinanceHolds
<1>4. original \in log.granted
  BY <1>1, <1>2, <1>3, FinanceHolds
<1> DEFINE row == NewTransaction(amount, type, original)
<1>5. row \in TransactionRow /\ row.state # "approved" /\ row.compensates = original
  BY NewTransactionTyped
<1>6. /\ ~Stored(new) /\ PutRow(new, row) /\ request' = [request EXCEPT ![r] = Idle]
      /\ log' = [log EXCEPT !.compensated = @ \cup {<<original, new>>}] /\ clock' = clock
  BY <1>1, <1>3 DEF InsertCompensation, IsAnswered, GoesOn
<1> HIDE DEF row
<1>7. /\ log' \in FinanceLog /\ log'.granted = log.granted /\ log'.announced = log.announced
      /\ log'.compensated = log.compensated \cup {<<original, new>>}
  BY <1>6 DEF FinanceInv, FinanceTypes, FinanceLog
<1>8. /\ FinanceTypes' /\ ApprovedWereGranted' /\ AnnouncedSound'
      /\ \A q \in Requests : TaskSound(request[q])'
      /\ \A j \in Ids : Stored(j) => rows'[j] = rows[j]
      /\ Stored(new)' /\ rows'[new] = row
  BY <1>5, <1>6, <1>7, FinanceInserts
<1>9. CompensationsSound'
  <2>1. ASSUME NEW p \in log'.compensated
        PROVE  p[1] \in log'.granted /\ Stored(p[2])' /\ rows'[p[2]].compensates = p[1]
    <3>1. CASE p = <<original, new>>
      BY <1>4, <1>5, <1>7, <1>8, <3>1
    <3>2. CASE p \in log.compensated
      <4>1. p[2] \in Ids /\ p[1] \in log.granted /\ Stored(p[2]) /\ rows[p[2]].compensates = p[1]
        BY <3>2 DEF FinanceInv, FinanceTypes, FinanceLog, CompensationsSound
      <4>2. QED
        BY <1>7, <1>8, <4>1 DEF Stored
    <3>3. QED
      BY <1>7, <3>1, <3>2
  <2>2. QED
    BY <2>1 DEF CompensationsSound
<1>10. QED
  BY <1>8, <1>9 DEF FinanceInv, ApprovedAmountStep

LEMMA MoveRowKeeps ==
    ASSUME FinanceInv, NEW r \in Requests, MoveRow(r)
    PROVE  FinanceInv' /\ ApprovedAmountStep
<1>1. PICK c : c = request[r]
  OBVIOUS
<1>2. c.at = "write" /\ c.task.does = "move"
  BY <1>1 DEF MoveRow
<1>3. PICK i \in Ids, to \in TransactionState : i = c.id /\ to = c.task.to
  BY <1>1, <1>2, FinanceHolds
<1>4. Stored(i) /\ rows[i] \in TransactionRow /\ rows[i].version \in Nat
  BY <1>1, <1>2, <1>3, FinanceHolds
<1> DEFINE changed == [rows[i] EXCEPT !.state = to]
           row == Touched(changed, c.read)
<1>5. /\ PutRow(i, row) /\ request' = [request EXCEPT ![r] = Idle] /\ clock' = clock
      /\ log' = IF to = "approved" THEN [log EXCEPT !.granted = @ \cup {i}] ELSE log
  BY <1>1, <1>3 DEF MoveRow, IsAnswered, GoesOn
<1>6. /\ row \in TransactionRow /\ row.version = rows[i].version + 1 /\ row.state = to
      /\ row.compensates = rows[i].compensates
      /\ row.amount = rows[i].amount /\ row.date = rows[i].date
  <2>1. /\ changed \in TransactionRow /\ changed.version = rows[i].version
        /\ changed.state = to /\ changed.compensates = rows[i].compensates
        /\ changed.amount = rows[i].amount /\ changed.date = rows[i].date
    BY <1>4 DEF TransactionRow
  <2> HIDE DEF changed
  <2>2. QED
    BY <1>4, <2>1 DEF Touched, TransactionRow
<1> HIDE DEF row
<1>7. /\ log' \in FinanceLog /\ log.granted \subseteq log'.granted
      /\ log'.announced = log.announced /\ log'.compensated = log.compensated
      /\ to = "approved" => i \in log'.granted
  BY <1>5 DEF FinanceInv, FinanceTypes, FinanceLog
<1>8. FinanceInv'
  <2>1. PICK step : step = Idle
    OBVIOUS
  <2>2. step \in FinanceRequest /\ request' = [request EXCEPT ![r] = step]
    BY <1>5, <2>1, FinanceIdle
  <2>3. row.state = "approved" => i \in log'.granted \/ rows[i].state = "approved"
    BY <1>6, <1>7
  <2>4. QED
    BY <1>4, <1>5, <1>6, <1>7, <2>1, <2>2, <2>3, FinanceWrites
<1>9. \A j \in Ids : rows'[j].amount = rows[j].amount /\ rows'[j].date = rows[j].date
  BY <1>5, <1>6 DEF PutRow, FinanceInv, FinanceTypes
<1>10. QED
  BY <1>8, <1>9 DEF ApprovedAmountStep

LEMMA DeleteRowKeeps ==
    ASSUME FinanceInv, NEW r \in Requests, DeleteRow(r)
    PROVE  FinanceInv' /\ ApprovedAmountStep
<1>1. PICK c : c = request[r]
  OBVIOUS
<1>2. c.at = "write" /\ c.task.does = "delete"
  BY <1>1 DEF DeleteRow
<1>3. PICK i \in Ids : i = c.id
  BY <1>1, <1>2, FinanceHolds
<1>4. Stored(i) /\ rows[i] \in TransactionRow /\ rows[i].version \in Nat
  BY <1>1, <1>2, <1>3, FinanceHolds
<1> DEFINE changed == [rows[i] EXCEPT !.deleted = TRUE]
           row == Touched(changed, c.read)
<1>5. /\ PutRow(i, row) /\ request' = [request EXCEPT ![r] = Idle] /\ clock' = clock
      /\ log' = [log EXCEPT !.overtaken = OvertakenBy(i, c.read)]
  BY <1>1, <1>3 DEF DeleteRow, IsAnswered, GoesOn
<1>6. /\ row \in TransactionRow /\ row.version = rows[i].version + 1
      /\ row.state = rows[i].state /\ row.compensates = rows[i].compensates
      /\ row.amount = rows[i].amount /\ row.date = rows[i].date
  <2>1. /\ changed \in TransactionRow /\ changed.version = rows[i].version
        /\ changed.state = rows[i].state /\ changed.compensates = rows[i].compensates
        /\ changed.amount = rows[i].amount /\ changed.date = rows[i].date
    BY <1>4 DEF TransactionRow
  <2> HIDE DEF changed
  <2>2. QED
    BY <1>4, <2>1 DEF Touched, TransactionRow
<1> HIDE DEF row
<1>7. /\ log' \in FinanceLog /\ log.granted \subseteq log'.granted
      /\ log'.announced = log.announced /\ log'.compensated = log.compensated
  BY <1>5 DEF FinanceInv, FinanceTypes, FinanceLog, OvertakenBy
<1>8. FinanceInv'
  <2>1. PICK step : step = Idle
    OBVIOUS
  <2>2. step \in FinanceRequest /\ request' = [request EXCEPT ![r] = step]
    BY <1>5, <2>1, FinanceIdle
  <2>3. row.state = "approved" => i \in log'.granted \/ rows[i].state = "approved"
    BY <1>6, <1>7
  <2>4. QED
    BY <1>4, <1>5, <1>6, <1>7, <2>1, <2>2, <2>3, FinanceWrites
<1>9. \A j \in Ids : rows'[j].amount = rows[j].amount /\ rows'[j].date = rows[j].date
  BY <1>5, <1>6 DEF PutRow, FinanceInv, FinanceTypes
<1>10. QED
  BY <1>8, <1>9 DEF ApprovedAmountStep

LEMMA GreaterOfTwo == \A m, n \in Nat : Max({m, n}) \in Nat /\ Max({m, n}) \in {m, n}
<1> SUFFICES ASSUME NEW m \in Nat, NEW n \in Nat
             PROVE  Max({m, n}) \in {m, n}
  OBVIOUS
<1>1. \E x \in {m, n} : \A y \in {m, n} : x >= y
  OBVIOUS
<1>2. QED
  BY <1>1, Zenon DEF Max

LEMMA AnnounceUpdateKeeps ==
    ASSUME FinanceInv, NEW r \in Requests, AnnounceUpdate(r)
    PROVE  FinanceInv' /\ ApprovedAmountStep
<1> USE DEF FinanceInv
<1>1. PICK c : c = request[r]
  OBVIOUS
<1>2. c.at = "announce" /\ TaskSound(c)
  BY <1>1 DEF AnnounceUpdate
<1>3. PICK i \in Ids, version \in Nat : i = c.id /\ version = c.version
  BY <1>1, <1>2, FinanceRequests
<1>4. Stored(i) /\ version <= rows[i].version
  BY <1>2, <1>3 DEF TaskSound
<1>5. /\ log' = [log EXCEPT !.announced[i] = Max({@, version})]
      /\ request' = [request EXCEPT ![r] = Idle] /\ UNCHANGED <<rows, clock>>
  BY <1>1, <1>3 DEF AnnounceUpdate, IsAnswered, GoesOn
<1>6. log.announced \in [Ids -> Nat] /\ log.announced[i] \in Nat
  BY DEF FinanceTypes, FinanceLog
<1>7. PICK greater \in Nat : greater = Max({log.announced[i], version})
                           /\ greater \in {log.announced[i], version}
  BY <1>6, GreaterOfTwo
<1>8. log' = [log EXCEPT !.announced[i] = greater]
  BY <1>5, <1>7
<1>9. /\ log' \in FinanceLog /\ log'.granted = log.granted /\ log'.compensated = log.compensated
      /\ log'.announced = [log.announced EXCEPT ![i] = greater]
  BY <1>8 DEF FinanceTypes, FinanceLog
<1>10. AnnouncedSound'
  <2>1. log.announced[i] <= rows[i].version
    BY <1>4 DEF AnnouncedSound
  <2>2. greater <= rows[i].version
    BY <1>4, <1>7, <2>1
  <2>3. ASSUME NEW j \in Ids
        PROVE  log'.announced[j] <= IF Stored(j)' THEN rows'[j].version ELSE 0
    <3>1. Stored(j)' = Stored(j) /\ rows'[j] = rows[j]
      BY <1>5 DEF Stored
    <3>2. CASE j = i
      BY <1>4, <1>6, <1>9, <2>2, <3>1, <3>2
    <3>3. CASE j # i
      <4>1. log'.announced[j] = log.announced[j]
        BY <1>6, <1>9, <3>3
      <4>2. log.announced[j] <= IF Stored(j) THEN rows[j].version ELSE 0
        BY DEF AnnouncedSound
      <4>3. QED
        BY <3>1, <4>1, <4>2
    <3>4. QED
      BY <3>2, <3>3
  <2>4. QED
    BY <2>3 DEF AnnouncedSound
<1>11. FinanceTypes' /\ ApprovedWereGranted' /\ CompensationsSound'
       /\ \A q \in Requests : TaskSound(request[q])'
  <2>1. PICK d : d = Idle
    OBVIOUS
  <2>2. TaskSound(d)' /\ d \in FinanceRequest /\ request' = [request EXCEPT ![r] = d]
    BY <1>5, <2>1, FinanceIdle DEF TaskSound, Idle
  <2>3. /\ rows' \in [Ids -> TransactionRow \cup {NoRow}] /\ clock' \in 0 .. LastTick
        /\ log' \in FinanceLog /\ log.granted \subseteq log'.granted
        /\ log'.compensated = log.compensated
    BY <1>5, <1>9 DEF FinanceTypes
  <2>4. \A j \in Ids : Stored(j) =>
            /\ Stored(j)' /\ rows[j].version <= rows'[j].version
            /\ rows'[j].compensates = rows[j].compensates
    <3>1. \A j \in Ids : Stored(j) => rows[j].version \in Nat
      BY DEF FinanceTypes, Stored, TransactionRow
    <3>2. QED
      BY <1>5, <3>1 DEF Stored
  <2>5. \A j \in Ids : Stored(j)' /\ rows'[j].state = "approved" =>
            j \in log'.granted \/ (Stored(j) /\ rows[j].state = "approved")
    BY <1>5 DEF Stored
  <2>6. QED
    BY <2>2, <2>3, <2>4, <2>5, FinanceGoesOn
<1>12. QED
  BY <1>5, <1>10, <1>11 DEF ApprovedAmountStep

\* The commands that only read go on as FinanceReads says.
LEMMA ReadingCommandsKeep ==
    ASSUME FinanceInv, NEW r \in Requests, NEW i \in Ids,
           \/ \E input \in UpdateInput, v \in 1 .. MaxCommands : UpdateTransaction(r, i, input, v)
           \/ DeleteTransaction(r, i)
           \/ RequestApproval(r, i) \/ ApproveTransaction(r, i) \/ RejectTransaction(r, i)
           \/ \E to \in TransactionState : TransitionTransaction(r, i, to)
           \/ \E new \in Ids : CompensateTransaction(r, i, new)
    PROVE  FinanceInv' /\ ApprovedAmountStep
<1>1. PICK task \in FinanceTask :
          /\ Reads(r, i, task)
          /\ task.does = "update" => Mutable(rows[i])
          /\ task.does = "compensate" => rows[i].state = "approved"
  <2>1. CASE \E input \in UpdateInput, v \in 1 .. MaxCommands : UpdateTransaction(r, i, input, v)
    <3>1. PICK input \in UpdateInput : Mutable(rows[i])
                                       /\ Reads(r, i, [does |-> "update", input |-> input])
      BY <2>1 DEF UpdateTransaction
    <3>2. [does |-> "update", input |-> input] \in FinanceTask
      BY DEF FinanceTask
    <3>3. QED
      BY <3>1, <3>2
  <2>2. CASE DeleteTransaction(r, i)
    <3>1. Reads(r, i, [does |-> "delete"])
      BY <2>2 DEF DeleteTransaction
    <3>2. [does |-> "delete"] \in FinanceTask
      BY DEF FinanceTask
    <3>3. QED
      BY <3>1, <3>2
  <2>3. CASE \/ RequestApproval(r, i) \/ ApproveTransaction(r, i) \/ RejectTransaction(r, i)
             \/ \E to \in TransactionState : TransitionTransaction(r, i, to)
    <3>1. PICK to \in TransactionState : Reads(r, i, [does |-> "move", to |-> to])
      BY <2>3 DEF RequestApproval, ApproveTransaction, RejectTransaction, TransitionTransaction,
                  TransactionState
    <3>2. [does |-> "move", to |-> to] \in FinanceTask
      BY DEF FinanceTask
    <3>3. QED
      BY <3>1, <3>2
  <2>4. CASE \E new \in Ids : CompensateTransaction(r, i, new)
    <3>1. PICK new \in Ids : rows[i].state = "approved"
                             /\ Reads(r, i, [does |-> "compensate", new |-> new])
      BY <2>4 DEF CompensateTransaction
    <3>2. [does |-> "compensate", new |-> new] \in FinanceTask
      BY DEF FinanceTask
    <3>3. QED
      BY <3>1, <3>2
  <2>5. QED
    BY <2>1, <2>2, <2>3, <2>4
<1>2. FinanceInv' /\ UNCHANGED rows
  BY <1>1, FinanceReads
<1>3. QED
  BY <1>2 DEF ApprovedAmountStep

LEMMA FinanceStopsKeep ==
    ASSUME FinanceAssumption, FinanceInv,
           StopProcess \/ Tick \/ UNCHANGED aggregateVars
    PROVE  FinanceInv' /\ ApprovedAmountStep
<1> USE DEF FinanceInv
<1>1. UNCHANGED <<rows, log>>
  BY DEF StopProcess, Tick, aggregateVars
<1>2. clock' \in 0 .. LastTick
  BY DEF StopProcess, Tick, aggregateVars, FinanceTypes, FinanceAssumption
<1>3. request' = request \/ request' = [r \in Requests |-> Idle]
  BY DEF StopProcess, Tick, aggregateVars
<1>4. request' \in [Requests -> FinanceRequest] /\ \A r \in Requests : TaskSound(request[r])'
  <2>1. CASE request' = request
    BY <1>1, <2>1 DEF FinanceTypes, TaskSound, Stored
  <2>2. CASE request' = [r \in Requests |-> Idle]
    <3>1. \A r \in Requests : request'[r] = Idle
      BY <2>2
    <3>2. \A r \in Requests : TaskSound(request[r])'
      BY <3>1 DEF TaskSound, Idle
    <3>3. QED
      BY <2>2, <3>2, FinanceIdle
  <2>3. QED
    BY <1>3, <2>1, <2>2
<1>5. QED
  BY <1>1, <1>2, <1>4
     DEF FinanceTypes, AnnouncedSound, ApprovedWereGranted, CompensationsSound, Stored,
         ApprovedAmountStep

LEMMA FinanceInvStep ==
    ASSUME FinanceAssumption, FinanceInv, [FinanceNext]_aggregateVars
    PROVE  FinanceInv' /\ ApprovedAmountStep
<1>1. ASSUME NEW r \in Requests, NEW i \in Ids, NEW a \in Amounts, NEW t \in TransactionType,
             NEW o \in (Ids \ {i}) \cup {None}, CreateTransaction(r, i, a, t, o)
      PROVE  FinanceInv' /\ ApprovedAmountStep
  BY <1>1, CreateTransactionKeeps
<1>2. ASSUME NEW r \in Requests, UpdateRow(r) PROVE FinanceInv' /\ ApprovedAmountStep
  BY <1>2, UpdateRowKeeps
<1>3. ASSUME NEW r \in Requests, AnnounceUpdate(r) PROVE FinanceInv' /\ ApprovedAmountStep
  BY <1>3, AnnounceUpdateKeeps
<1>4. ASSUME NEW r \in Requests, MoveRow(r) PROVE FinanceInv' /\ ApprovedAmountStep
  BY <1>4, MoveRowKeeps
<1>5. ASSUME NEW r \in Requests, DeleteRow(r) PROVE FinanceInv' /\ ApprovedAmountStep
  BY <1>5, DeleteRowKeeps
<1>6. ASSUME NEW r \in Requests, NEW a \in Amounts, NEW t \in TransactionType,
             InsertCompensation(r, a, t)
      PROVE  FinanceInv' /\ ApprovedAmountStep
  BY <1>6, InsertCompensationKeeps
<1>7. ASSUME StopProcess \/ Tick \/ UNCHANGED aggregateVars
      PROVE  FinanceInv' /\ ApprovedAmountStep
  BY <1>7, FinanceStopsKeep
<1>8. QED
  BY <1>1, <1>2, <1>3, <1>4, <1>5, <1>6, <1>7, ReadingCommandsKeep DEF FinanceNext

\* However the updates of a transaction overlap, subscribers hear of no version that its row
\* has not reached, and only what had been approved is compensated
\* (application-service.ts of finance).
THEOREM FinanceSound ==
    ASSUME FinanceAssumption
    PROVE  FinanceSpec => [](FinanceTypeOK /\ VersionsAndCompensationsSound)
<1>1. FinanceInit => FinanceInv
  BY FinanceInvInit
<1>2. FinanceInv /\ [FinanceNext]_aggregateVars => FinanceInv'
  BY FinanceInvStep
<1>3. FinanceInv => FinanceTypeOK /\ VersionsAndCompensationsSound
  <2> SUFFICES ASSUME FinanceInv PROVE FinanceTypeOK /\ VersionsAndCompensationsSound
    OBVIOUS
  <2>1. FinanceTypeOK
    BY DEF FinanceInv, FinanceTypes, FinanceLog, FinanceTypeOK
  <2>2. VersionsAndCompensationsSound
    BY DEF FinanceInv, AnnouncedSound, CompensationsSound, VersionsAndCompensationsSound
  <2>3. QED
    BY <2>1, <2>2
<1>4. QED
  BY <1>1, <1>2, <1>3, PTL DEF FinanceSpec

\* INV-001: the amount and the date of an approved transaction change only through an update
\* that had read it before it was approved (updateTransaction checks its copy, the adapter
\* does not check again).
THEOREM ApprovedAmountsStand ==
    ASSUME FinanceAssumption
    PROVE  FinanceSpec => ApprovedAmountStands
<1>1. FinanceInit => FinanceInv
  BY FinanceInvInit
<1>2. FinanceInv /\ [FinanceNext]_aggregateVars => FinanceInv'
  BY FinanceInvStep
<1>3. FinanceInv /\ [FinanceNext]_aggregateVars => ApprovedAmountStep
  BY FinanceInvStep
<1>4. FinanceInv /\ [FinanceNext]_aggregateVars => [ApprovedAmountStep]_aggregateVars
  BY <1>3
<1>5. QED
  BY <1>1, <1>2, <1>4, PTL DEF FinanceSpec, ApprovedAmountStands

-----------------------------------------------------------------------------
(* Events *)

EventAssumption == LastTick \in Nat

EventRequest ==
    {Idle}
    \cup [at : {"insert"}, id : Ids, entity : EventRow]
    \cup [at : {"check", "write"}, id : Ids, read : EventRow, entity : EventRow, expected : 1 .. 2]
    \cup [at : {"guard", "announce"}, id : Ids, from : EventState, to : EventState]
    \cup [at : {"move"}, id : Ids, from : EventState, to : EventState, read : EventRow]
    \cup [at : {"delete"}, id : Ids]

EventTypes ==
    /\ rows \in [Ids -> EventRow \cup {NoRow}]
    /\ request \in [Requests -> EventRequest]
    /\ log \in [created : SUBSET Ids, changes : [Ids -> SUBSET (EventState \X EventState)],
                overtaken : SUBSET Ids, refused : SUBSET Ids]
    /\ clock \in Int

\* What a request holds is sound: an update keeps the state it read, and a change of state is
\* one of the machine, out of the state that was read.
EventStepSound(c) ==
    /\ c.at \in {"check", "write"} => c.entity.state = c.read.state
    /\ c.at \in {"guard", "move", "announce"} => c.to \in EventStateTransitions(c.from)
    /\ c.at = "move" => c.read.state = c.from

\* The dates of every row, and of every row that is about to be written, are in order.
EventDates ==
    /\ \A i \in Ids : Stored(i) => ValidDates(rows[i].start, rows[i].end)
    /\ \A r \in Requests : request[r].at \in {"insert", "check", "write"} =>
          ValidDates(request[r].entity.start, request[r].entity.end)

\* An event is inserted once, by the request that created it, and before that nobody has read
\* it and nothing is announced of it.
Inserts(r, i) == request[r].at = "insert" /\ request[r].id = i

HasRead(r, i) ==
    request[r].at \in {"check", "write", "move", "announce", "delete"} /\ request[r].id = i

EventBirths ==
    \A i \in Ids :
        /\ \A r \in Requests : Inserts(r, i) =>
              i \in log.created /\ \A q \in Requests : Inserts(q, i) => q = r
        /\ i \notin log.created \/ (\E r \in Requests : Inserts(r, i)) =>
              /\ ~Stored(i) /\ log.changes[i] = {}
              /\ \A q \in Requests : ~HasRead(q, i)

\* A change that was announced, or will be
Announcing(i, from, to) == [at |-> "announce", id |-> i, from |-> from, to |-> to]

ToldOf(i, from, to) ==
    <<from, to>> \in log.changes[i] \/ \E r \in Requests : request[r] = Announcing(i, from, to)

OneOutcomeTold ==
    \A i \in Ids \ log.overtaken : \A f, g \in EventState, t, u \in FinalEvent :
        /\ ToldOf(i, f, t) /\ ToldOf(i, g, u) => f = g /\ t = u
        /\ ToldOf(i, f, t) /\ Stored(i) => rows[i].state = t

EventInv ==
    /\ EventTypes /\ (\A r \in Requests : EventStepSound(request[r]))
    /\ EventDates /\ EventBirths /\ OneOutcomeTold

LEMMA EventStored == \A row \in EventRow : row # NoRow
<1>1. \A row \in EventRow : "version" \in DOMAIN row
  BY DEF EventRow
<1>2. "version" \notin DOMAIN NoRow
  BY DEF NoRow
<1>3. QED
  BY <1>1, <1>2

LEMMA EventStates ==
    /\ FinalEvent = {"cancelled", "completed"}
    /\ \A s \in FinalEvent : EventStateTransitions(s) = {}
    /\ \A s \in EventState : EventStateTransitions(s) \subseteq EventState
BY DEF FinalEvent, EventState, EventStateTransitions

LEMMA EventIdle ==
    Idle \in EventRequest /\ Idle.at = "idle" /\ EventStepSound(Idle)
BY DEF EventRequest, Idle, EventStepSound

LEMMA EventInitially == ASSUME EventAssumption, EventInit PROVE EventInv
<1> USE DEF EventInit, StoreInit
<1>1. EventTypes
  BY EventIdle DEF EventTypes, EventAssumption
<1>2. \A r \in Requests : request[r] = Idle
  OBVIOUS
<1>3. \A i \in Ids : ~Stored(i)
  BY DEF Stored
<1>4. EventDates
  BY <1>2, <1>3, EventIdle DEF EventDates
<1>5. EventBirths
  BY <1>2, <1>3, EventIdle DEF EventBirths, Inserts, HasRead
<1>6. OneOutcomeTold
  <2>1. \A i \in Ids : \A f \in EventState, t \in FinalEvent : ~ToldOf(i, f, t)
    BY <1>2, EventIdle DEF ToldOf, Announcing
  <2>2. QED
    BY <2>1 DEF OneOutcomeTold
<1>7. QED
  BY <1>1, <1>2, <1>4, <1>5, <1>6, EventIdle DEF EventInv

\* What a request holds at each step
LEMMA EventRequests ==
    ASSUME EventTypes, NEW r \in Requests, request[r] # Idle
    PROVE  LET c == request[r] IN
           /\ c.id \in Ids /\ c \in EventRequest
           /\ c.at \in {"insert", "check", "write", "guard", "announce", "move", "delete"}
           /\ c.at \in {"insert", "check", "write"} => c.entity \in EventRow
           /\ c.at \in {"check", "write"} => c.read \in EventRow /\ c.expected \in 1 .. 2
                 /\ c = [at |-> c.at, id |-> c.id, read |-> c.read, entity |-> c.entity,
                         expected |-> c.expected]
           /\ c.at \in {"guard", "announce", "move"} => c.from \in EventState /\ c.to \in EventState
           /\ c.at = "announce" => c = Announcing(c.id, c.from, c.to)
           /\ c.at = "move" => c.read \in EventRow
<1>1. request[r] \in EventRequest
  BY DEF EventTypes
<1>2. QED
  BY <1>1 DEF EventRequest, Announcing

\* A request that reads, goes on or is answered, and changes neither rows nor what was said
LEMMA EventGoesOn ==
    ASSUME EventInv, NEW r \in Requests, request[r].at # "insert",
           NEW step \in EventRequest, EventStepSound(step),
           step.at \notin {"insert", "announce"},
           step.at \in {"check", "write"} => ValidDates(step.entity.start, step.entity.end),
           step.at \in {"check", "write", "move", "delete"} =>
               step.id \in log.created /\ \A q \in Requests : ~Inserts(q, step.id),
           request' = [request EXCEPT ![r] = step], UNCHANGED <<rows, clock>>,
           NEW refused \in SUBSET Ids, log' = [log EXCEPT !.refused = refused]
    PROVE  EventInv' /\ FinalEventStep
<1>1. /\ log'.created = log.created /\ log'.changes = log.changes /\ log'.overtaken = log.overtaken
      /\ EventTypes'
  BY DEF EventInv, EventTypes
<1>2. \A q \in Requests : request'[q] = IF q = r THEN step ELSE request[q]
  BY DEF EventInv, EventTypes
<1>3. \A q \in Requests : EventStepSound(request[q])'
  BY <1>2 DEF EventInv, EventStepSound, EventStateTransitions
<1>4. EventDates'
  BY <1>2 DEF EventInv, EventDates, ValidDates, Stored
<1>5. \A q \in Requests, i \in Ids :
         /\ Inserts(q, i)' <=> Inserts(q, i)
         /\ HasRead(q, i)' => HasRead(q, i) \/ (q = r /\ i = step.id
                /\ step.at \in {"check", "write", "move", "delete"})
  BY <1>2 DEF Inserts, HasRead
<1>6. EventBirths'
  <2> SUFFICES ASSUME NEW i \in Ids
               PROVE  /\ \A q \in Requests : Inserts(q, i)' =>
                            i \in log'.created /\ \A p \in Requests : Inserts(p, i)' => p = q
                      /\ i \notin log'.created \/ (\E q \in Requests : Inserts(q, i)') =>
                            /\ ~Stored(i)' /\ log'.changes[i] = {}
                            /\ \A q \in Requests : ~HasRead(q, i)'
    BY DEF EventBirths
  <2>1. Stored(i)' <=> Stored(i)
    BY DEF Stored
  <2>2. QED
    BY <1>1, <1>5, <2>1 DEF EventInv, EventBirths
<1>7. \A i \in Ids, f, t \in EventState : ToldOf(i, f, t)' => ToldOf(i, f, t)
  <2> SUFFICES ASSUME NEW i \in Ids, NEW f \in EventState, NEW t \in EventState,
                      NEW q \in Requests, request'[q] = Announcing(i, f, t)
               PROVE  \E p \in Requests : request[p] = Announcing(i, f, t)
    BY <1>1 DEF ToldOf
  <2>1. Announcing(i, f, t).at = "announce"
    BY DEF Announcing
  <2>2. QED
    BY <1>2, <2>1
<1>8. OneOutcomeTold'
  BY <1>1, <1>7, EventStates DEF EventInv, OneOutcomeTold, Stored, EventState
<1>9. QED
  BY <1>1, <1>3, <1>4, <1>6, <1>8 DEF EventInv, FinalEventStep

\* What is stored was created and inserted.
LEMMA EventBorn ==
    ASSUME EventInv, NEW i \in Ids, Stored(i) \/ \E r \in Requests : HasRead(r, i)
    PROVE  i \in log.created /\ \A q \in Requests : ~Inserts(q, i)
BY DEF EventInv, EventBirths

LEMMA CreateEventKeeps ==
    ASSUME EventAssumption, EventInv, NEW r \in Requests, NEW i \in Ids, NEW start \in Instants,
           NEW end \in Instants, CreateEvent(r, i, start, end)
    PROVE  EventInv' /\ FinalEventStep
<1> DEFINE entity == [state |-> "draft", version |-> 1, start |-> start, end |-> end]
           step == [at |-> "insert", id |-> i, entity |-> entity]
<1>1. /\ ~Stored(i) /\ i \notin log.created /\ ValidDates(start, end) /\ request[r] = Idle
      /\ request' = [request EXCEPT ![r] = step]
      /\ log' = [log EXCEPT !.created = @ \cup {i}] /\ UNCHANGED <<rows, clock>>
  BY DEF CreateEvent, Starts
<1>2. /\ step \in EventRequest /\ step.at = "insert" /\ step.id = i
      /\ step.entity.start = start /\ step.entity.end = end /\ EventStepSound(step)
  BY DEF EventRequest, EventRow, EventState, EventStepSound
<1> HIDE DEF step
<1>3. /\ log'.created = log.created \cup {i} /\ log'.changes = log.changes
      /\ log'.overtaken = log.overtaken /\ EventTypes'
  BY <1>1, <1>2 DEF EventInv, EventTypes
<1>4. \A q \in Requests : request'[q] = IF q = r THEN step ELSE request[q]
  BY <1>1 DEF EventInv, EventTypes
<1>5. \A q \in Requests : EventStepSound(request[q])'
  BY <1>2, <1>4 DEF EventInv, EventStepSound, EventStateTransitions
<1>6. EventDates'
  BY <1>1, <1>2, <1>4 DEF EventInv, EventDates, ValidDates, Stored
<1>7. \A q \in Requests, j \in Ids :
         /\ Inserts(q, j)' <=> (Inserts(q, j) /\ q # r) \/ (q = r /\ j = i)
         /\ HasRead(q, j)' => HasRead(q, j)
  BY <1>2, <1>4 DEF Inserts, HasRead
<1>8. /\ \A q \in Requests : ~Inserts(q, i) /\ ~HasRead(q, i)
      /\ log.changes[i] = {}
  BY <1>1 DEF EventInv, EventBirths
<1>9. \A j \in Ids : Stored(j)' <=> Stored(j)
  BY <1>1 DEF Stored
<1>10. EventBirths'
  <2> SUFFICES ASSUME NEW j \in Ids
               PROVE  /\ \A q \in Requests : Inserts(q, j)' =>
                            j \in log'.created /\ \A p \in Requests : Inserts(p, j)' => p = q
                      /\ j \notin log'.created \/ (\E q \in Requests : Inserts(q, j)') =>
                            /\ ~Stored(j)' /\ log'.changes[j] = {}
                            /\ \A q \in Requests : ~HasRead(q, j)'
    BY DEF EventBirths
  <2>1. CASE j = i
    BY <1>1, <1>3, <1>7, <1>8, <1>9, <2>1
  <2>2. CASE j # i
    BY <1>3, <1>7, <1>9, <2>2 DEF EventInv, EventBirths
  <2>3. QED
    BY <2>1, <2>2
<1>11. \A j \in Ids, f, t \in EventState : ToldOf(j, f, t)' => ToldOf(j, f, t)
  <2> SUFFICES ASSUME NEW j \in Ids, NEW f \in EventState, NEW t \in EventState,
                      NEW q \in Requests, request'[q] = Announcing(j, f, t)
               PROVE  \E p \in Requests : request[p] = Announcing(j, f, t)
    BY <1>3 DEF ToldOf
  <2>1. Announcing(j, f, t).at = "announce"
    BY DEF Announcing
  <2>2. QED
    BY <1>2, <1>4, <2>1
<1>12. OneOutcomeTold'
  BY <1>1, <1>3, <1>9, <1>11, EventStates DEF EventInv, OneOutcomeTold, EventState
<1>13. QED
  BY <1>1, <1>3, <1>5, <1>6, <1>10, <1>12 DEF EventInv, FinalEventStep

\* A row is written or removed, and the request goes on to announce or is answered.  The
\* state of a row is changed only by what is told of it, and told only as a step of the state
\* machine that starts where the row stood.
LEMMA EventWritten ==
    ASSUME EventInv, NEW r \in Requests, NEW i \in Ids, NEW row \in EventRow \cup {NoRow},
           NEW step \in EventRequest, NEW overtaken \in BOOLEAN,
           Inserts(r, i) \/ (HasRead(r, i) /\ (row # NoRow => Stored(i))),
           Inserts(r, i) => step = Idle /\ ~overtaken,
           row # NoRow => ValidDates(row.start, row.end),
           \/ step = Idle
           \/ row # NoRow /\ step.from \in EventState /\ EventStepSound(step)
              /\ step = Announcing(i, step.from, row.state),
           rows' = [rows EXCEPT ![i] = row], request' = [request EXCEPT ![r] = step],
           UNCHANGED clock,
           log' = [log EXCEPT !.overtaken = IF overtaken THEN @ \cup {i} ELSE @],
           Stored(i) /\ ~overtaken /\ row # NoRow =>
               \/ step = Idle /\ row.state = rows[i].state
               \/ rows[i].state \notin FinalEvent
    PROVE  EventInv' /\ FinalEventStep
<1>1. /\ log'.created = log.created /\ log'.changes = log.changes
      /\ log'.overtaken = (IF overtaken THEN log.overtaken \cup {i} ELSE log.overtaken)
      /\ EventTypes'
  BY DEF EventInv, EventTypes
<1>2. /\ \A q \in Requests : request'[q] = IF q = r THEN step ELSE request[q]
      /\ \A j \in Ids : rows'[j] = IF j = i THEN row ELSE rows[j]
  BY DEF EventInv, EventTypes
<1>3. /\ step.at \in {"idle", "announce"} /\ EventStepSound(step)
      /\ step.at = "announce" => step.id = i
  BY EventIdle DEF Announcing
<1>4. \A q \in Requests : EventStepSound(request[q])'
  BY <1>2, <1>3 DEF EventInv, EventStepSound, EventStateTransitions
<1>5. EventDates'
  BY <1>2, <1>3 DEF EventInv, EventDates, ValidDates, Stored
<1>6. \A q \in Requests, j \in Ids :
         /\ Inserts(q, j)' <=> Inserts(q, j) /\ q # r
         /\ HasRead(q, j)' => HasRead(q, j) \/ (q = r /\ j = i /\ step # Idle)
  BY <1>2, <1>3, EventIdle DEF Inserts, HasRead
<1>7. i \in log.created
  BY EventBorn DEF EventInv, EventBirths
<1>8. \A q \in Requests : ~Inserts(q, i)'
  <2>1. CASE Inserts(r, i)
    BY <1>6, <2>1 DEF EventInv, EventBirths
  <2>2. CASE HasRead(r, i)
    BY <1>6, <2>2, EventBorn
  <2>3. QED
    BY <2>1, <2>2
<1>9. EventBirths'
  <2> SUFFICES ASSUME NEW j \in Ids
               PROVE  /\ \A q \in Requests : Inserts(q, j)' =>
                            j \in log'.created /\ \A p \in Requests : Inserts(p, j)' => p = q
                      /\ j \notin log'.created \/ (\E q \in Requests : Inserts(q, j)') =>
                            /\ ~Stored(j)' /\ log'.changes[j] = {}
                            /\ \A q \in Requests : ~HasRead(q, j)'
    BY DEF EventBirths
  <2>1. CASE j = i
    BY <1>1, <1>7, <1>8, <2>1
  <2>2. CASE j # i
    <3>1. Stored(j)' <=> Stored(j)
      BY <1>2, <2>2 DEF Stored
    <3>2. QED
      BY <1>1, <1>6, <2>2, <3>1 DEF EventInv, EventBirths
  <2>3. QED
    BY <2>1, <2>2
<1>10. \A j \in Ids, f, t \in EventState :
          ToldOf(j, f, t)' => \/ ToldOf(j, f, t)
                              \/ j = i /\ step # Idle /\ f = step.from /\ t = row.state
  <2> SUFFICES ASSUME NEW j \in Ids, NEW f \in EventState, NEW t \in EventState,
                      NEW q \in Requests, request'[q] = Announcing(j, f, t)
               PROVE  \/ \E p \in Requests : request[p] = Announcing(j, f, t)
                      \/ j = i /\ step # Idle /\ f = step.from /\ t = row.state
    BY <1>1 DEF ToldOf
  <2>1. /\ Announcing(j, f, t).at = "announce" /\ Announcing(j, f, t).id = j
        /\ Announcing(j, f, t).from = f /\ Announcing(j, f, t).to = t
        /\ Announcing(i, step.from, row.state).id = i
        /\ Announcing(i, step.from, row.state).to = row.state
    BY DEF Announcing
  <2>2. QED
    BY <1>2, <2>1, EventIdle
<1>11. Inserts(r, i) => \A f, t \in EventState : ~ToldOf(i, f, t)
  <2> SUFFICES ASSUME Inserts(r, i), NEW f \in EventState, NEW t \in EventState PROVE ~ToldOf(i, f, t)
    OBVIOUS
  <2>1. log.changes[i] = {} /\ \A q \in Requests : ~HasRead(q, i)
    BY DEF EventInv, EventBirths
  <2>2. \A q \in Requests : request[q] # Announcing(i, f, t)
    BY <2>1 DEF HasRead, Announcing
  <2>3. QED
    BY <2>1, <2>2 DEF ToldOf
<1>12. OneOutcomeTold'
  <2> SUFFICES ASSUME NEW j \in Ids \ log'.overtaken, NEW f \in EventState, NEW g \in EventState,
                      NEW t \in FinalEvent, NEW u \in FinalEvent
               PROVE  /\ ToldOf(j, f, t)' /\ ToldOf(j, g, u)' => f = g /\ t = u
                      /\ ToldOf(j, f, t)' /\ Stored(j)' => rows'[j].state = t
    BY DEF OneOutcomeTold
  <2>1. j \in Ids \ log.overtaken /\ t \in EventState /\ u \in EventState
    BY <1>1, EventStates DEF EventState
  <2>2. CASE j # i
    BY <1>2, <1>10, <2>1, <2>2 DEF EventInv, OneOutcomeTold, Stored
  <2>3. CASE j = i
    <3>1. ~overtaken
      BY <1>1, <2>3
    <3>2. CASE Inserts(r, i)
      BY <1>10, <1>11, <2>1, <2>3, <3>2
    <3>3. CASE HasRead(r, i) /\ row = NoRow
      <4>1. step = Idle /\ ~Stored(i)'
        BY <1>2, <3>3 DEF Stored
      <4>2. QED
        BY <1>10, <2>1, <2>3, <4>1 DEF EventInv, OneOutcomeTold
    <3>4. CASE Stored(i) /\ row # NoRow /\ step = Idle /\ row.state = rows[i].state
      <4>1. ToldOf(i, f, t)' => ToldOf(i, f, t)
        BY <1>10, <2>1, <3>4
      <4>2. ToldOf(i, g, u)' => ToldOf(i, g, u)
        BY <1>10, <2>1, <3>4
      <4>3. /\ ToldOf(i, f, t) /\ ToldOf(i, g, u) => f = g /\ t = u
            /\ ToldOf(i, f, t) => rows[i].state = t
        BY <2>1, <2>3, <3>4 DEF EventInv, OneOutcomeTold
      <4>4. rows'[i].state = rows[i].state
        BY <1>2, <3>4
      <4>5. QED
        BY <2>3, <4>1, <4>2, <4>3, <4>4
    <3>5. CASE Stored(i) /\ row # NoRow /\ rows[i].state \notin FinalEvent
      <4>1. ASSUME NEW e \in EventState, NEW s \in FinalEvent PROVE ~ToldOf(i, e, s)
        <5>1. ToldOf(i, e, s) => rows[i].state = s
          BY <2>1, <2>3, <3>5 DEF EventInv, OneOutcomeTold
        <5>2. QED
          BY <3>5, <5>1
      <4>2. QED
        BY <1>2, <1>10, <2>1, <2>3, <4>1
    <3>6. QED
      BY <3>1, <3>2, <3>3, <3>4, <3>5
  <2>4. QED
    BY <2>2, <2>3
<1>13. FinalEventStep
  <2> SUFFICES ASSUME NEW j \in Ids, Stored(j), Stored(j)', rows[j].state \in FinalEvent,
                      rows'[j].state # rows[j].state
               PROVE  j \in log'.overtaken
    BY DEF FinalEventStep
  <2>1. j = i /\ row # NoRow
    BY <1>2 DEF Stored
  <2>2. overtaken
    BY <1>2, <2>1
  <2>3. QED
    BY <1>1, <2>1, <2>2
<1>14. QED
  BY <1>1, <1>4, <1>5, <1>9, <1>12, <1>13 DEF EventInv

LEMMA EventInserted ==
    ASSUME EventInv, NEW r \in Requests, InsertEvent(r)
    PROVE  EventInv' /\ FinalEventStep
<1> DEFINE c == request[r]
<1>1. c.at = "insert" /\ c # Idle
  BY EventIdle DEF InsertEvent
<1>2. c.id \in Ids /\ c.entity \in EventRow /\ Inserts(r, c.id)
  BY <1>1, EventRequests DEF EventInv, Inserts
<1>3. ValidDates(c.entity.start, c.entity.end) /\ ~Stored(c.id)
  BY <1>1, <1>2 DEF EventInv, EventDates, EventBirths
<1>4. /\ rows' = [rows EXCEPT ![c.id] = c.entity] /\ request' = [request EXCEPT ![r] = Idle]
      /\ UNCHANGED <<log, clock>>
  BY DEF InsertEvent, PutRow, IsAnswered, GoesOn
<1>5. log' = [log EXCEPT !.overtaken = IF FALSE THEN @ \cup {c.id} ELSE @]
  BY <1>4 DEF EventInv, EventTypes
<1> HIDE DEF c
<1>6. QED
  BY <1>2, <1>3, <1>4, <1>5, EventIdle, EventWritten

LEMMA EventUpdated ==
    ASSUME EventInv, NEW r \in Requests, WriteEvent(r)
    PROVE  EventInv' /\ FinalEventStep
<1> DEFINE c == request[r]
<1>1. c.at = "write" /\ c # Idle
  BY EventIdle DEF WriteEvent
<1>2. /\ c.id \in Ids /\ c.entity \in EventRow /\ c.read \in EventRow /\ HasRead(r, c.id)
      /\ c.entity.state = c.read.state /\ ValidDates(c.entity.start, c.entity.end)
  BY <1>1, EventRequests DEF EventInv, HasRead, EventStepSound, EventDates
<1>3. CASE Stored(c.id)
  <2>1. /\ rows' = [rows EXCEPT ![c.id] = c.entity] /\ request' = [request EXCEPT ![r] = Idle]
        /\ log' = [log EXCEPT !.overtaken = OvertakenBy(c.id, c.read)] /\ UNCHANGED clock
    BY <1>3 DEF WriteEvent, PutRow, IsAnswered, GoesOn
  <2> DEFINE overtaken == rows[c.id] # c.read
  <2>2. log' = [log EXCEPT !.overtaken = IF overtaken THEN @ \cup {c.id} ELSE @]
    BY <2>1 DEF OvertakenBy
  <2>3. overtaken \in BOOLEAN /\ (~overtaken => c.entity.state = rows[c.id].state) /\ ~Inserts(r, c.id)
    BY <1>1, <1>2 DEF Inserts
  <2> HIDE DEF overtaken, c
  <2>4. QED
    BY <1>2, <1>3, <2>1, <2>2, <2>3, EventIdle, EventWritten
<1>4. CASE ~Stored(c.id)
  <2>1. UNCHANGED <<rows, log, clock>> /\ request' = [request EXCEPT ![r] = Idle]
    BY <1>4 DEF WriteEvent, IsAnswered, GoesOn
  <2>2. log.refused \in SUBSET Ids /\ log' = [log EXCEPT !.refused = log.refused]
    BY <2>1 DEF EventInv, EventTypes
  <2>3. QED
    BY <1>1, <2>1, <2>2, EventIdle, EventGoesOn
<1>5. QED
  BY <1>3, <1>4

LEMMA EventMoved ==
    ASSUME EventInv, NEW r \in Requests, MoveEvent(r)
    PROVE  EventInv' /\ FinalEventStep
<1> DEFINE c == request[r]
<1>1. c.at = "move" /\ c # Idle
  BY EventIdle DEF MoveEvent
<1>2. /\ c.id \in Ids /\ c.from \in EventState /\ c.to \in EventState /\ c.read \in EventRow
      /\ HasRead(r, c.id) /\ c.to \in EventStateTransitions(c.from) /\ c.read.state = c.from
  BY <1>1, EventRequests DEF EventInv, HasRead, EventStepSound
<1>3. CASE Stored(c.id)
  <2> DEFINE row == [rows[c.id] EXCEPT !.state = c.to]
             step == Announcing(c.id, c.from, c.to)
             overtaken == rows[c.id].state # c.read.state
  <2>1. rows[c.id] \in EventRow /\ ValidDates(rows[c.id].start, rows[c.id].end)
    BY <1>2, <1>3 DEF EventInv, EventTypes, EventDates, Stored
  <2>2. /\ row \in EventRow /\ row.state = c.to /\ row.start = rows[c.id].start
        /\ row.end = rows[c.id].end
    BY <1>2, <2>1 DEF EventRow
  <2>3. step \in EventRequest /\ step.from = c.from /\ EventStepSound(step)
    BY <1>2 DEF EventRequest, Announcing, EventStepSound
  <2>4. /\ rows' = [rows EXCEPT ![c.id] = row] /\ request' = [request EXCEPT ![r] = step]
        /\ log' = [log EXCEPT !.overtaken = IF overtaken THEN @ \cup {c.id} ELSE @]
        /\ UNCHANGED clock
    BY <1>3 DEF MoveEvent, PutRow, GoesOn, Announcing
  <2>5. /\ overtaken \in BOOLEAN /\ ~Inserts(r, c.id)
        /\ ~overtaken => rows[c.id].state \notin FinalEvent
    BY <1>1, <1>2, EventStates DEF Inserts
  <2>6. step = Announcing(c.id, step.from, row.state)
    BY <2>2, <2>3
  <2>7. row # NoRow
    BY <2>2, EventStored
  <2> HIDE DEF overtaken, c, row, step
  <2>8. QED
    BY <1>2, <1>3, <2>1, <2>2, <2>3, <2>4, <2>5, <2>6, <2>7, EventWritten
<1>4. CASE ~Stored(c.id)
  <2>1. UNCHANGED <<rows, log, clock>> /\ request' = [request EXCEPT ![r] = Idle]
    BY <1>4 DEF MoveEvent, IsAnswered, GoesOn
  <2>2. log.refused \in SUBSET Ids /\ log' = [log EXCEPT !.refused = log.refused]
    BY <2>1 DEF EventInv, EventTypes
  <2>3. QED
    BY <1>1, <2>1, <2>2, EventIdle, EventGoesOn
<1>5. QED
  BY <1>3, <1>4

LEMMA EventRemoved ==
    ASSUME EventInv, NEW r \in Requests, RemoveEvent(r)
    PROVE  EventInv' /\ FinalEventStep
<1> DEFINE c == request[r]
<1>1. c.at = "delete" /\ c # Idle
  BY EventIdle DEF RemoveEvent
<1>2. c.id \in Ids /\ HasRead(r, c.id) /\ ~Inserts(r, c.id)
  BY <1>1, EventRequests DEF EventInv, HasRead, Inserts
<1>3. /\ rows' = [rows EXCEPT ![c.id] = NoRow] /\ request' = [request EXCEPT ![r] = Idle]
      /\ UNCHANGED <<log, clock>>
  BY DEF RemoveEvent, PutRow, IsAnswered, GoesOn
<1>4. log' = [log EXCEPT !.overtaken = IF FALSE THEN @ \cup {c.id} ELSE @]
  BY <1>3 DEF EventInv, EventTypes
<1> HIDE DEF c
<1>5. QED
  BY <1>2, <1>3, <1>4, EventIdle, EventWritten

LEMMA ChangeAnnounced ==
    ASSUME EventInv, NEW r \in Requests, AnnounceChange(r)
    PROVE  EventInv' /\ FinalEventStep
<1> DEFINE c == request[r]
<1>1. c.at = "announce" /\ c # Idle
  BY EventIdle DEF AnnounceChange
<1>2. /\ c.id \in Ids /\ c.from \in EventState /\ c.to \in EventState
      /\ c = Announcing(c.id, c.from, c.to) /\ HasRead(r, c.id)
  BY <1>1, EventRequests DEF EventInv, HasRead
<1>3. /\ log' = [log EXCEPT !.changes[c.id] = @ \cup {<<c.from, c.to>>}]
      /\ request' = [request EXCEPT ![r] = Idle] /\ UNCHANGED <<rows, clock>>
  BY DEF AnnounceChange, IsAnswered, GoesOn
<1> HIDE DEF c
<1>4. /\ log'.created = log.created /\ log'.overtaken = log.overtaken
      /\ log'.changes = [log.changes EXCEPT ![c.id] = @ \cup {<<c.from, c.to>>}]
      /\ EventTypes'
  BY <1>2, <1>3, EventIdle DEF EventInv, EventTypes
<1>5. /\ \A q \in Requests : request'[q] = IF q = r THEN Idle ELSE request[q]
      /\ \A j \in Ids : log'.changes[j] =
            IF j = c.id THEN log.changes[j] \cup {<<c.from, c.to>>} ELSE log.changes[j]
  BY <1>2, <1>3, <1>4 DEF EventInv, EventTypes
<1>6. \A q \in Requests : EventStepSound(request[q])'
  BY <1>5, EventIdle DEF EventInv, EventStepSound, EventStateTransitions
<1>7. EventDates'
  BY <1>3, <1>5, EventIdle DEF EventInv, EventDates, ValidDates, Stored
<1>8. \A q \in Requests, j \in Ids :
         /\ Inserts(q, j)' => Inserts(q, j)
         /\ HasRead(q, j)' => HasRead(q, j)
  BY <1>5, EventIdle DEF Inserts, HasRead
<1>9. c.id \in log.created /\ \A q \in Requests : ~Inserts(q, c.id)
  BY <1>2, EventBorn
<1>10. EventBirths'
  <2> SUFFICES ASSUME NEW j \in Ids
               PROVE  /\ \A q \in Requests : Inserts(q, j)' =>
                            j \in log'.created /\ \A p \in Requests : Inserts(p, j)' => p = q
                      /\ j \notin log'.created \/ (\E q \in Requests : Inserts(q, j)') =>
                            /\ ~Stored(j)' /\ log'.changes[j] = {}
                            /\ \A q \in Requests : ~HasRead(q, j)'
    BY DEF EventBirths
  <2>1. Stored(j)' <=> Stored(j)
    BY <1>3 DEF Stored
  <2>2. CASE j = c.id
    BY <1>4, <1>8, <1>9, <2>2
  <2>3. CASE j # c.id
    BY <1>4, <1>5, <1>8, <2>1, <2>3 DEF EventInv, EventBirths
  <2>4. QED
    BY <2>2, <2>3
<1>11. \A j \in Ids, f, t \in EventState : ToldOf(j, f, t)' => ToldOf(j, f, t)
  <2> SUFFICES ASSUME NEW j \in Ids, NEW f \in EventState, NEW t \in EventState, ToldOf(j, f, t)'
               PROVE  ToldOf(j, f, t)
    OBVIOUS
  <2>1. CASE <<f, t>> \in log'.changes[j]
    <3>1. CASE <<f, t>> \in log.changes[j]
      BY <3>1 DEF ToldOf
    <3>2. CASE <<f, t>> \notin log.changes[j]
      <4>1. j = c.id /\ <<f, t>> = <<c.from, c.to>>
        BY <1>5, <2>1, <3>2
      <4>2. request[r] = Announcing(j, f, t)
        BY <1>2, <4>1 DEF c, Announcing
      <4>3. QED
        BY <4>2 DEF ToldOf
    <3>3. QED
      BY <3>1, <3>2
  <2>2. CASE \E q \in Requests : request'[q] = Announcing(j, f, t)
    <3>1. PICK q \in Requests : request'[q] = Announcing(j, f, t)
      BY <2>2
    <3>2. Announcing(j, f, t).at = "announce"
      BY DEF Announcing
    <3>3. request[q] = Announcing(j, f, t)
      BY <1>5, <3>1, <3>2, EventIdle
    <3>4. QED
      BY <3>3 DEF ToldOf
  <2>3. QED
    BY <2>1, <2>2 DEF ToldOf
<1>12. OneOutcomeTold'
  BY <1>3, <1>4, <1>11, EventStates DEF EventInv, OneOutcomeTold, EventState, Stored
<1>13. QED
  BY <1>3, <1>4, <1>6, <1>7, <1>10, <1>12 DEF EventInv, FinalEventStep

\* The commands that read, check and go on
LEMMA EventChecks ==
    ASSUME EventInv, NEW r \in Requests
    PROVE  /\ \A i \in Ids, fields \in Fields, v \in 1 .. 2 :
                 UpdateEvent(r, i, fields, v) => EventInv' /\ FinalEventStep
           /\ CheckVersion(r) \/ TransitionState(r) => EventInv' /\ FinalEventStep
           /\ \A i \in Ids : PublishEvent(r, i) \/ CompleteEvent(r, i) \/ CancelEvent(r, i)
                               \/ DeleteEvent(r, i) => EventInv' /\ FinalEventStep
<1> DEFINE Kept == EventInv' /\ FinalEventStep
<1> log.refused \in SUBSET Ids /\ log = [log EXCEPT !.refused = log.refused]
  BY DEF EventInv, EventTypes
<1>1. ASSUME NEW i \in Ids, NEW fields \in Fields, NEW v \in 1 .. 2, UpdateEvent(r, i, fields, v)
      PROVE  Kept
  <2> DEFINE e == ToEntity(rows[i])
             step == [at |-> "check", id |-> i, read |-> rows[i], entity |-> UpdateFields(e, fields),
                      expected |-> v]
  <2>1. /\ Stored(i) /\ rows[i] \in EventRow /\ ValidDates(rows[i].start, rows[i].end)
        /\ request[r] = Idle /\ UNCHANGED <<rows, clock>>
    BY <1>1 DEF UpdateEvent, EventInv, EventTypes, EventDates, Stored, StartsAndEnds, Starts
  <2>2. e \in EventRow /\ e.state = rows[i].state /\ e.start = rows[i].start /\ e.end = rows[i].end
        /\ e.version = 1
    BY <2>1 DEF ToEntity, EventRow
  <2>3. CASE v = e.version /\ ValidUpdate(e, fields)
    <3> DEFINE d == NewDates(e, fields)
    <3>1. /\ fields.start \in Instants \cup {None} /\ fields.end \in Instants \cup {None}
      BY DEF Fields
    <3>2. d.start \in Instants /\ d.end \in Instants
      BY <2>2, <3>1 DEF NewDates, EventRow
    <3>3. ValidDates(d.start, d.end)
      <4>1. CASE fields.start # None \/ fields.end # None
        BY <2>3, <4>1 DEF ValidUpdate
      <4>2. CASE fields.start = None /\ fields.end = None
        BY <2>1, <2>2, <4>2 DEF NewDates
      <4>3. QED
        BY <4>1, <4>2
    <3>4. UpdateFields(e, fields) = [start |-> d.start, end |-> d.end, state |-> e.state,
                                     version |-> e.version + 1]
      BY DEF UpdateFields, BumpVersion
    <3>5. /\ UpdateFields(e, fields) \in EventRow /\ UpdateFields(e, fields).state = rows[i].state
          /\ UpdateFields(e, fields).start = d.start /\ UpdateFields(e, fields).end = d.end
      BY <2>2, <3>2, <3>4 DEF EventRow
    <3>6. /\ step \in EventRequest /\ step.at = "check" /\ step.id = i
          /\ step.entity.start = d.start /\ step.entity.end = d.end /\ EventStepSound(step)
      BY <2>1, <3>5 DEF EventRequest, EventStepSound
    <3>7. request' = [request EXCEPT ![r] = step] /\ log' = log
      BY <1>1, <2>3 DEF UpdateEvent, Starts
    <3> HIDE DEF step, d
    <3>8. QED
      BY <2>1, <3>3, <3>6, <3>7, EventBorn, EventIdle, EventGoesOn
  <2>4. CASE ~(v = e.version /\ ValidUpdate(e, fields))
    <3>1. request' = [request EXCEPT ![r] = Idle]
      BY <1>1, <2>4 DEF UpdateEvent, StartsAndEnds, Starts
    <3>2. log' = [log EXCEPT !.refused = @ \cup {i}] \/ log' = log
      BY <1>1, <2>4 DEF UpdateEvent
    <3>3. log.refused \cup {i} \in SUBSET Ids
      OBVIOUS
    <3>4. QED
      BY <2>1, <3>1, <3>2, <3>3, EventIdle, EventGoesOn
  <2>5. QED
    BY <2>3, <2>4
<1>2. ASSUME CheckVersion(r) PROVE Kept
  <2> DEFINE c == request[r]
             step == [c EXCEPT !.at = "write"]
  <2>1. c.at = "check" /\ c # Idle /\ UNCHANGED <<rows, log, clock>>
    BY <1>2, EventIdle DEF CheckVersion
  <2>2. /\ c.id \in Ids /\ HasRead(r, c.id) /\ EventStepSound(c)
        /\ ValidDates(c.entity.start, c.entity.end)
        /\ c = [at |-> c.at, id |-> c.id, read |-> c.read, entity |-> c.entity,
                expected |-> c.expected]
        /\ c.read \in EventRow /\ c.entity \in EventRow /\ c.expected \in 1 .. 2
    BY <2>1, EventRequests DEF EventInv, HasRead, EventDates
  <2>3. step = [at |-> "write", id |-> c.id, read |-> c.read, entity |-> c.entity,
                expected |-> c.expected]
    BY <2>2
  <2>4. \/ request' = [request EXCEPT ![r] = step]
        \/ request' = [request EXCEPT ![r] = Idle]
    BY <1>2 DEF CheckVersion, IsAnswered, GoesOn
  <2> HIDE DEF step
  <2>5. /\ step \in EventRequest /\ step.at = "write" /\ step.id = c.id
        /\ step.entity = c.entity /\ EventStepSound(step)
    BY <2>1, <2>2, <2>3 DEF EventRequest, EventStepSound
  <2>6. QED
    BY <2>1, <2>2, <2>4, <2>5, EventBorn, EventIdle, EventGoesOn
<1>3. ASSUME TransitionState(r) PROVE Kept
  <2> DEFINE c == request[r]
             step == [at |-> "move", id |-> c.id, from |-> c.from, to |-> c.to, read |-> rows[c.id]]
  <2>1. c.at = "guard" /\ c # Idle /\ UNCHANGED <<rows, log, clock>>
    BY <1>3, EventIdle DEF TransitionState
  <2>2. /\ c.id \in Ids /\ c.from \in EventState /\ c.to \in EventState
        /\ c.to \in EventStateTransitions(c.from)
    BY <2>1, EventRequests DEF EventInv, EventStepSound
  <2>3. CASE Stored(c.id) /\ rows[c.id].state = c.from
    <3>1. request' = [request EXCEPT ![r] = step]
      BY <1>3, <2>3 DEF TransitionState, GoesOn
    <3>2. rows[c.id] \in EventRow
      BY <2>2, <2>3 DEF EventInv, EventTypes, Stored
    <3>3. /\ step \in EventRequest /\ step.at = "move" /\ step.id = c.id /\ EventStepSound(step)
      BY <2>2, <2>3, <3>2 DEF EventRequest, EventStepSound
    <3> HIDE DEF step
    <3>4. QED
      BY <2>1, <2>2, <2>3, <3>1, <3>3, EventBorn, EventGoesOn
  <2>4. CASE ~(Stored(c.id) /\ rows[c.id].state = c.from)
    <3>1. request' = [request EXCEPT ![r] = Idle]
      BY <1>3, <2>4 DEF TransitionState, IsAnswered, GoesOn
    <3>2. QED
      BY <2>1, <3>1, EventIdle, EventGoesOn
  <2>5. QED
    BY <2>3, <2>4
<1>4. ASSUME NEW i \in Ids, PublishEvent(r, i) \/ CompleteEvent(r, i) \/ CancelEvent(r, i)
      PROVE  Kept
  <2>1. PICK from \in EventState, to \in EventState :
           /\ to \in EventStateTransitions(from) /\ request[r] = Idle
           /\ request' = [request EXCEPT ![r] = [at |-> "guard", id |-> i, from |-> from, to |-> to]]
           /\ UNCHANGED <<rows, log, clock>>
    <3>1. CASE PublishEvent(r, i)
      BY <3>1 DEF PublishEvent, Starts, EventStateTransitions, EventState
    <3>2. CASE CompleteEvent(r, i)
      BY <3>2 DEF CompleteEvent, Starts, EventStateTransitions, EventState
    <3>3. CASE CancelEvent(r, i)
      <4>1. "cancelled" \in EventStateTransitions("draft") /\ "cancelled" \in EventStateTransitions("published")
        BY DEF EventStateTransitions
      <4>2. QED
        BY <3>3, <4>1 DEF CancelEvent, Starts, EventState
    <3>4. QED
      BY <1>4, <3>1, <3>2, <3>3
  <2> DEFINE step == [at |-> "guard", id |-> i, from |-> from, to |-> to]
  <2>2. step \in EventRequest /\ step.at = "guard" /\ EventStepSound(step)
    BY <2>1 DEF EventRequest, EventStepSound
  <2> HIDE DEF step
  <2>3. QED
    BY <2>1, <2>2, EventIdle, EventGoesOn DEF step
<1>5. ASSUME NEW i \in Ids, DeleteEvent(r, i) PROVE Kept
  <2> DEFINE step == [at |-> "delete", id |-> i]
  <2>1. /\ Stored(i) /\ request[r] = Idle /\ request' = [request EXCEPT ![r] = step]
        /\ UNCHANGED <<rows, log, clock>>
    BY <1>5 DEF DeleteEvent, Starts
  <2>2. step \in EventRequest /\ step.at = "delete" /\ step.id = i /\ EventStepSound(step)
    BY DEF EventRequest, EventStepSound
  <2> HIDE DEF step
  <2>3. QED
    BY <2>1, <2>2, EventBorn, EventIdle, EventGoesOn
<1>6. QED
  BY <1>1, <1>2, <1>3, <1>4, <1>5

LEMMA EventStep ==
    ASSUME EventAssumption, EventInv, [EventNext]_aggregateVars
    PROVE  EventInv' /\ FinalEventStep
<1>1. CASE StopProcess
  <2>1. request' = [q \in Requests |-> Idle] /\ UNCHANGED <<rows, log, clock>>
    BY <1>1 DEF StopProcess
  <2>2. EventTypes'
    BY <2>1, EventIdle DEF EventInv, EventTypes
  <2>3. \A q \in Requests : EventStepSound(request[q])'
    BY <2>1, EventIdle DEF EventStepSound
  <2>4. EventDates'
    BY <2>1, EventIdle DEF EventInv, EventDates, ValidDates, Stored
  <2>5. EventBirths'
    BY <2>1, EventIdle DEF EventInv, EventBirths, Inserts, HasRead, Stored
  <2>6. \A i \in Ids, f, t \in EventState : ToldOf(i, f, t)' => ToldOf(i, f, t)
    BY <2>1, EventIdle DEF ToldOf, Announcing
  <2>7. OneOutcomeTold'
    BY <2>1, <2>6, EventStates DEF EventInv, OneOutcomeTold, EventState, Stored
  <2>8. QED
    BY <2>1, <2>2, <2>3, <2>4, <2>5, <2>7 DEF EventInv, FinalEventStep
<1>2. CASE UNCHANGED <<rows, request, log>> /\ clock' \in Int /\ clock <= clock'
  <2>1. EventTypes'
    BY <1>2 DEF EventInv, EventTypes
  <2>2. \A q \in Requests : EventStepSound(request[q])'
    BY <1>2 DEF EventInv, EventStepSound, EventStateTransitions
  <2>3. ASSUME NEW row \in EventRow, ValidDates(row.start, row.end)
        PROVE  ValidDates(row.start, row.end)'
    BY <1>2, <2>3 DEF ValidDates, EventRow, Instants, EventAssumption, EventInv, EventTypes
  <2>4. EventDates'
    <3>1. ASSUME NEW i \in Ids, Stored(i) PROVE ValidDates(rows[i].start, rows[i].end)'
      <4>1. rows[i] \in EventRow /\ ValidDates(rows[i].start, rows[i].end)
        BY <3>1 DEF EventInv, EventTypes, EventDates, Stored
      <4>2. QED
        BY <1>2, <2>3, <4>1 DEF ValidDates
    <3>2. ASSUME NEW q \in Requests, request[q].at \in {"insert", "check", "write"}
          PROVE  ValidDates(request[q].entity.start, request[q].entity.end)'
      <4>1. request[q].entity \in EventRow
        BY <3>2, EventRequests, EventIdle DEF EventInv
      <4>2. ValidDates(request[q].entity.start, request[q].entity.end)
        BY <3>2 DEF EventInv, EventDates
      <4>3. QED
        BY <1>2, <2>3, <4>1, <4>2 DEF ValidDates
    <3>3. QED
      BY <1>2, <3>1, <3>2 DEF EventDates, Stored
  <2>5. EventBirths'
    BY <1>2 DEF EventInv, EventBirths, Inserts, HasRead, Stored
  <2>6. OneOutcomeTold'
    <3>1. \A i \in Ids, f, t \in EventState : ToldOf(i, f, t)' <=> ToldOf(i, f, t)
      BY <1>2 DEF ToldOf
    <3>2. QED
      BY <1>2, <3>1, EventStates DEF EventInv, OneOutcomeTold, EventState, Stored
  <2>7. QED
    BY <1>2, <2>1, <2>2, <2>4, <2>5, <2>6 DEF EventInv, FinalEventStep
<1>3. Tick \/ UNCHANGED aggregateVars =>
         UNCHANGED <<rows, request, log>> /\ clock' \in Int /\ clock <= clock'
  BY DEF Tick, aggregateVars, EventInv, EventTypes
<1>4. QED
  BY <1>1, <1>2, <1>3, CreateEventKeeps, EventInserted, EventUpdated, EventMoved, EventRemoved,
     ChangeAnnounced, EventChecks DEF EventNext

LEMMA EventsHold ==
    ASSUME EventAssumption, EventInv PROVE EventTypeOK /\ EventDatesSound /\ OneOutcomeAnnounced
<1>1. EventTypeOK /\ EventDatesSound
  BY DEF EventInv, EventTypes, EventTypeOK, EventDates, EventDatesSound
<1>2. OneOutcomeAnnounced
  <2> SUFFICES ASSUME NEW i \in Ids \ log.overtaken
               PROVE  LET outcomes == {c \in log.changes[i] : c[2] \in FinalEvent} IN
                      /\ Cardinality(outcomes) <= 1
                      /\ Stored(i) => \A c \in outcomes : rows[i].state = c[2]
    BY DEF OneOutcomeAnnounced
  <2> DEFINE outcomes == {c \in log.changes[i] : c[2] \in FinalEvent}
  <2>1. \A c \in outcomes : /\ c = <<c[1], c[2]>> /\ c[1] \in EventState /\ c[2] \in FinalEvent
                            /\ ToldOf(i, c[1], c[2])
    BY DEF EventInv, EventTypes, ToldOf
  <2>2. \A c, d \in outcomes : c = d
    <3> SUFFICES ASSUME NEW c \in outcomes, NEW d \in outcomes PROVE c = d
      OBVIOUS
    <3>1. c[1] = d[1] /\ c[2] = d[2]
      BY <2>1 DEF EventInv, OneOutcomeTold
    <3>2. QED
      BY <2>1, <3>1
  <2>3. Stored(i) => \A c \in outcomes : rows[i].state = c[2]
    BY <2>1 DEF EventInv, OneOutcomeTold
  <2> HIDE DEF outcomes
  <2>4. Cardinality(outcomes) <= 1
    <3>1. CASE outcomes = {}
      BY <3>1, FS_EmptySet
    <3>2. CASE outcomes # {}
      <4>1. PICK c \in outcomes : TRUE
        BY <3>2
      <4>2. outcomes = {c}
        BY <2>2, <4>1
      <4>3. Cardinality({c}) = 1
        BY FS_Singleton
      <4>4. QED
        BY <4>2, <4>3
    <3>3. QED
      BY <3>1, <3>2
  <2>5. QED
    BY <2>3, <2>4 DEF outcomes
<1>3. QED
  BY <1>1, <1>2

\* However updates, changes of state and deletions of events overlap, and wherever the process
\* stops: dates stay in order and past, and unless a write overtook another, one outcome of an
\* event is announced, which its row has (event.service.ts, prisma-event.repository.ts).
THEOREM EventsAreSound ==
    ASSUME EventAssumption
    PROVE  EventSpec => [](EventTypeOK /\ EventDatesSound /\ OneOutcomeAnnounced)
<1>1. EventInv /\ [EventNext]_aggregateVars => EventInv'
  BY EventStep
<1>2. QED
  BY <1>1, EventInitially, EventsHold, PTL DEF EventSpec

\* A cancelled or completed event changes its state only by a write that overtakes another.
THEOREM EventEndsStay == ASSUME EventAssumption PROVE EventSpec => FinalEventsStay
<1>1. EventInv /\ [EventNext]_aggregateVars => EventInv' /\ [FinalEventStep]_aggregateVars
  BY EventStep
<1>2. QED
  BY <1>1, EventInitially, PTL DEF EventSpec, FinalEventsStay


-----------------------------------------------------------------------------
(* Organizations *)

OrgRequest ==
    {Idle}
    \cup [at : {"target"}, id : Ids, read : OrganizationRow, into : Ids]
    \cup [at : {"update"}, id : Ids, read : OrganizationRow, org : OrganizationRow,
          into : Ids \cup {None}]

OrgTypes ==
    /\ rows \in [Ids -> OrganizationRow \cup {NoRow}]
    /\ request \in [Requests -> OrgRequest]
    /\ log \in [overtaken : SUBSET Ids, bumps : [Ids -> Nat], merged : SUBSET Ids]

\* What a command writes is what it read, or the status moved on from there.
OrgChange(c) ==
    \/ c.org = c.read /\ c.into = None
    \/ /\ IsValidStatusTransition(c.read.status, c.org.status)
       /\ c.org.version = c.read.version + 1
       /\ c.into # None => c.org.status = "archived"

OrgUnderWay ==
    \A r \in Requests : request[r] # Idle =>
        Stored(request[r].id) /\ (request[r].at = "update" => OrgChange(request[r]))

OrgCounted ==
    \A i \in Ids :
        /\ ~Stored(i) => log.bumps[i] = 0 /\ i \notin log.merged
        /\ Stored(i) /\ i \notin log.overtaken =>
              /\ rows[i].version = 1 + log.bumps[i]
              /\ i \in log.merged => rows[i].status = "archived"

OrgInv == OrgTypes /\ OrgUnderWay /\ OrgCounted

LEMMA OrgStored == \A row \in OrganizationRow : row # NoRow
<1>1. \A row \in OrganizationRow : "status" \in DOMAIN row
  BY DEF OrganizationRow
<1>2. "status" \notin DOMAIN NoRow
  BY DEF NoRow
<1>3. QED
  BY <1>1, <1>2

LEMMA OrgInitially == OrganizationInit => OrgInv
<1> SUFFICES ASSUME OrganizationInit PROVE OrgInv
  OBVIOUS
<1> USE DEF OrganizationInit, StoreInit
<1>1. OrgTypes
  BY DEF OrgTypes, OrgRequest
<1>2. \A i \in Ids : ~Stored(i)
  BY DEF Stored
<1>3. QED
  BY <1>1, <1>2 DEF OrgInv, OrgUnderWay, OrgCounted

\* What a request holds that has read its row
LEMMA OrgRequests ==
    ASSUME OrgTypes, NEW r \in Requests, request[r] # Idle
    PROVE  LET c == request[r] IN
           /\ c.id \in Ids /\ c.read \in OrganizationRow
           /\ c.at = "target" => c.into \in Ids
           /\ c.at = "update" => c.org \in OrganizationRow /\ c.into \in Ids \cup {None}
           /\ c.at \in {"target", "update"}
<1>1. request[r] \in OrgRequest
  BY DEF OrgTypes
<1>2. QED
  BY <1>1 DEF OrgRequest

\* A command that reads, goes on or is answered, and writes nothing
LEMMA OrgGoesOn ==
    ASSUME OrgInv, NEW r \in Requests, NEW step \in OrgRequest,
           step # Idle => Stored(step.id) /\ (step.at = "update" => OrgChange(step)),
           request' = [request EXCEPT ![r] = step], UNCHANGED <<rows, log>>
    PROVE  OrgInv' /\ ArchivedStep
<1>1. \A q \in Requests : request'[q] = IF q = r THEN step ELSE request[q]
  BY DEF OrgInv, OrgTypes
<1>2. OrgTypes'
  BY DEF OrgInv, OrgTypes
<1>3. OrgUnderWay'
  BY <1>1 DEF OrgInv, OrgUnderWay, Stored, OrgChange, IsValidStatusTransition
<1>4. OrgCounted'
  BY DEF OrgInv, OrgCounted, Stored
<1>5. ArchivedStep
  BY DEF OrgInv, OrgCounted, ArchivedStep
<1>6. QED
  BY <1>2, <1>3, <1>4, <1>5 DEF OrgInv

LEMMA OrgWritten ==
    ASSUME OrgInv, NEW r \in Requests, UpdateOrganization(r)
    PROVE  OrgInv' /\ ArchivedStep
<1> DEFINE c == request[r]
<1>1. c # Idle /\ c.at = "update"
  BY DEF UpdateOrganization, Idle
<1>2. /\ c.id \in Ids /\ c.read \in OrganizationRow /\ c.org \in OrganizationRow
      /\ Stored(c.id) /\ OrgChange(c)
  BY <1>1, OrgRequests DEF OrgInv, OrgUnderWay
<1>3. /\ rows' = [rows EXCEPT ![c.id] = c.org]
      /\ request' = [request EXCEPT ![r] = Idle]
      /\ log' = [overtaken |-> OvertakenBy(c.id, c.read),
                 bumps |-> IF c.org # c.read THEN [log.bumps EXCEPT ![c.id] = @ + 1] ELSE log.bumps,
                 merged |-> IF c.into # None THEN log.merged \cup {c.id} ELSE log.merged]
  BY DEF UpdateOrganization, PutRow, IsAnswered, GoesOn
<1>4. /\ \A q \in Requests : request'[q] = IF q = r THEN Idle ELSE request[q]
      /\ \A i \in Ids : rows'[i] = IF i = c.id THEN c.org ELSE rows[i]
      /\ request' \in [Requests -> OrgRequest] /\ rows' \in [Ids -> OrganizationRow \cup {NoRow}]
  BY <1>2, <1>3 DEF OrgInv, OrgTypes, OrgRequest
<1>5. /\ log'.overtaken = IF rows[c.id] # c.read THEN log.overtaken \cup {c.id} ELSE log.overtaken
      /\ log'.bumps = IF c.org # c.read THEN [log.bumps EXCEPT ![c.id] = @ + 1] ELSE log.bumps
      /\ log'.merged = IF c.into # None THEN log.merged \cup {c.id} ELSE log.merged
  BY <1>3 DEF OvertakenBy
<1>6. log'.overtaken \in SUBSET Ids /\ log'.bumps \in [Ids -> Nat] /\ log'.merged \in SUBSET Ids
  BY <1>2, <1>5 DEF OrgInv, OrgTypes
<1>7. log' = [overtaken |-> log'.overtaken, bumps |-> log'.bumps, merged |-> log'.merged]
  BY <1>3
<1>8. OrgTypes'
  BY <1>4, <1>6, <1>7 DEF OrgTypes
<1>9. \A i \in Ids : Stored(i)' <=> Stored(i)
  BY <1>2, <1>4, OrgStored DEF Stored
<1> HIDE DEF c
<1>10. OrgUnderWay'
  BY <1>4, <1>9, OrgRequests DEF OrgInv, OrgUnderWay, OrgChange, IsValidStatusTransition
<1>11. \/ c.org = c.read /\ c.into = None
       \/ c.org # c.read /\ c.org.version = c.read.version + 1 /\ c.read.status # "archived"
          /\ (c.into # None => c.org.status = "archived")
  <2>1. c.read.version \in Nat
    BY <1>2 DEF OrganizationRow
  <2>2. QED
    BY <1>2, <2>1 DEF OrgChange, IsValidStatusTransition
<1>12. ASSUME NEW i \in Ids, Stored(i), i \notin log'.overtaken
       PROVE  /\ rows'[i].version = 1 + log'.bumps[i]
              /\ i \in log'.merged => rows'[i].status = "archived"
              /\ rows[i].status = "archived" => rows'[i].status = "archived"
              /\ i \in log.merged => rows'[i].status = "archived"
  <2>1. /\ i \notin log.overtaken /\ rows[i].version = 1 + log.bumps[i] /\ log.bumps[i] \in Nat
        /\ i \in log.merged => rows[i].status = "archived"
    BY <1>5, <1>12 DEF OrgInv, OrgTypes, OrgCounted
  <2>2. CASE i # c.id
    BY <1>2, <1>4, <1>5, <2>1, <2>2 DEF OrgInv, OrgTypes
  <2>3. CASE i = c.id
    <3>1. rows[i] = c.read /\ rows'[i] = c.org
      BY <1>4, <1>5, <1>12, <2>3
    <3>2. log'.bumps[i] = IF c.org # c.read THEN log.bumps[i] + 1 ELSE log.bumps[i]
      BY <1>2, <1>5, <2>3 DEF OrgInv, OrgTypes
    <3>3. i \in log'.merged => i \in log.merged \/ c.into # None
      BY <1>5
    <3>4. QED
      BY <1>11, <2>1, <3>1, <3>2, <3>3
  <2>4. QED
    BY <2>2, <2>3
<1>13. OrgCounted'
  <2>1. \A i \in Ids : ~Stored(i) => log'.bumps[i] = 0 /\ i \notin log'.merged
    BY <1>2, <1>5 DEF OrgInv, OrgTypes, OrgCounted
  <2>2. QED
    BY <1>9, <1>12, <2>1 DEF OrgCounted
<1>14. ArchivedStep
  BY <1>12 DEF ArchivedStep
<1>15. QED
  BY <1>8, <1>10, <1>13, <1>14 DEF OrgInv

LEMMA OrgStep == ASSUME OrgInv, [OrganizationNext]_aggregateVars PROVE OrgInv' /\ ArchivedStep
<1> DEFINE Kept == OrgInv' /\ ArchivedStep
<1>1. \A i \in Ids : Stored(i) => rows[i] \in OrganizationRow
  BY DEF OrgInv, OrgTypes, Stored
<1>2. Idle \in OrgRequest
  BY DEF OrgRequest
<1>3. ASSUME NEW r \in Requests, NEW i \in Ids, CreateOrganization(r, i)
      PROVE  Kept
  <2> DEFINE row == [status |-> "active", version |-> 1]
  <2>1. row \in OrganizationRow /\ row # NoRow /\ row.version = 1 + 0
    BY OrgStored DEF OrganizationRow, OrganizationStatus
  <2>2. /\ ~Stored(i) /\ rows' = [rows EXCEPT ![i] = row] /\ UNCHANGED log
        /\ request' = [request EXCEPT ![r] = Idle]
    BY <1>3 DEF CreateOrganization, PutRow, StartsAndEnds, Starts
  <2> HIDE DEF row
  <2>3. /\ \A j \in Ids : rows'[j] = IF j = i THEN row ELSE rows[j]
        /\ \A q \in Requests : request'[q] = IF q = r THEN Idle ELSE request[q]
        /\ OrgTypes'
    BY <1>2, <2>1, <2>2 DEF OrgInv, OrgTypes
  <2>4. \A j \in Ids : Stored(j)' <=> Stored(j) \/ j = i
    BY <2>1, <2>3 DEF Stored
  <2>5. OrgUnderWay'
    BY <2>3, <2>4, OrgRequests DEF OrgInv, OrgUnderWay, OrgChange, IsValidStatusTransition
  <2>6. log.bumps[i] = 0 /\ i \notin log.merged
    BY <2>2 DEF OrgInv, OrgCounted
  <2>7. OrgCounted'
    BY <2>1, <2>2, <2>3, <2>4, <2>6 DEF OrgInv, OrgCounted
  <2>8. ArchivedStep
    BY <2>2, <2>3, <2>7 DEF OrgInv, OrgCounted, ArchivedStep
  <2>9. QED
    BY <2>3, <2>5, <2>7, <2>8 DEF OrgInv
<1>4. ASSUME NEW r \in Requests, NEW i \in Ids, NEW colourValid \in BOOLEAN,
             UpdateSettings(r, i, colourValid)
      PROVE  Kept
  <2> DEFINE step == [at |-> "update", id |-> i, read |-> rows[i], org |-> rows[i], into |-> None]
  <2>1. Stored(i) /\ UNCHANGED <<rows, log>>
    BY <1>4 DEF UpdateSettings
  <2>2. step \in OrgRequest /\ OrgChange(step) /\ step.id = i
    BY <1>1, <2>1 DEF OrgRequest, OrgChange
  <2>3. \/ request' = [request EXCEPT ![r] = step]
        \/ request' = [request EXCEPT ![r] = Idle]
    BY <1>4 DEF UpdateSettings, StartsAndEnds, Starts
  <2> HIDE DEF step
  <2>4. QED
    BY <1>2, <2>1, <2>2, <2>3, OrgGoesOn
<1>5. ASSUME NEW r \in Requests, NEW i \in Ids, NEW to \in {"archived", "suspended"},
             Changes(r, i, to, None)
      PROVE  Kept
  <2> DEFINE step == [at |-> "update", id |-> i, read |-> rows[i], org |-> Transitioned(rows[i], to),
                      into |-> None]
  <2>1. Stored(i) /\ UNCHANGED <<rows, log>> /\ to \in OrganizationStatus
    BY <1>5 DEF Changes, OrganizationStatus
  <2>2. Transitioned(rows[i], to) \in OrganizationRow
    BY <1>1, <2>1 DEF Transitioned, OrganizationRow
  <2>3. step \in OrgRequest /\ step.id = i
    BY <1>1, <2>1, <2>2 DEF OrgRequest
  <2>4. ASSUME IsValidStatusTransition(rows[i].status, to) PROVE OrgChange(step)
    BY <2>1, <2>4 DEF OrgChange, Transitioned
  <2>5. \/ IsValidStatusTransition(rows[i].status, to) /\ request' = [request EXCEPT ![r] = step]
        \/ request' = [request EXCEPT ![r] = Idle]
    BY <1>5 DEF Changes, StartsAndEnds, Starts
  <2> HIDE DEF step
  <2>6. QED
    BY <1>2, <2>1, <2>3, <2>4, <2>5, OrgGoesOn
<1>6. ASSUME NEW r \in Requests, NEW i \in Ids, NEW target \in Ids, MergeOrganizations(r, i, target)
      PROVE  Kept
  <2> DEFINE step == [at |-> "target", id |-> i, read |-> rows[i], into |-> target]
  <2>1. /\ Stored(i) /\ UNCHANGED <<rows, log>>
        /\ request' = [request EXCEPT ![r] = step]
    BY <1>6 DEF MergeOrganizations, Starts
  <2>2. step \in OrgRequest /\ step.id = i /\ step.at # "update"
    BY <1>1, <2>1 DEF OrgRequest
  <2> HIDE DEF step
  <2>3. QED
    BY <2>1, <2>2, OrgGoesOn
<1>7. ASSUME NEW r \in Requests, ReadTarget(r)
      PROVE  Kept
  <2> DEFINE c == request[r]
             step == [at |-> "update", id |-> c.id, read |-> c.read, into |-> c.into,
                      org |-> Transitioned(c.read, "archived")]
  <2>1. c # Idle /\ c.at = "target" /\ UNCHANGED <<rows, log>>
    BY <1>7 DEF ReadTarget, Idle
  <2>2. /\ c.id \in Ids /\ c.read \in OrganizationRow /\ c.into \in Ids /\ Stored(c.id)
    BY <2>1, OrgRequests DEF OrgInv, OrgUnderWay
  <2>3. Transitioned(c.read, "archived") \in OrganizationRow
    BY <2>2 DEF Transitioned, OrganizationRow, OrganizationStatus
  <2>4. step \in OrgRequest /\ step.id = c.id
    BY <2>2, <2>3 DEF OrgRequest
  <2>5. ASSUME IsValidStatusTransition(c.read.status, "archived") PROVE OrgChange(step)
    BY <2>5 DEF OrgChange, Transitioned
  <2>6. \/ /\ IsValidStatusTransition(c.read.status, "archived")
           /\ request' = [request EXCEPT ![r] = step]
        \/ request' = [request EXCEPT ![r] = Idle]
    BY <1>7 DEF ReadTarget, IsAnswered, GoesOn
  <2> HIDE DEF step
  <2>7. QED
    BY <1>2, <2>1, <2>2, <2>4, <2>5, <2>6, OrgGoesOn
<1>8. CASE StopProcess
  <2>1. request' = [q \in Requests |-> Idle] /\ UNCHANGED <<rows, log>>
    BY <1>8 DEF StopProcess
  <2>2. OrgTypes'
    BY <1>2, <2>1 DEF OrgInv, OrgTypes
  <2>3. OrgUnderWay' /\ OrgCounted'
    BY <2>1 DEF OrgInv, OrgUnderWay, OrgCounted, Stored
  <2>4. ArchivedStep
    BY <2>1 DEF OrgInv, OrgCounted, ArchivedStep
  <2>5. QED
    BY <2>2, <2>3, <2>4 DEF OrgInv
<1>9. CASE UNCHANGED aggregateVars
  <2>1. OrgInv'
    BY <1>9 DEF aggregateVars, OrgInv, OrgTypes, OrgUnderWay, OrgCounted, Stored, OrgChange,
       IsValidStatusTransition, Transitioned
  <2>2. ArchivedStep
    BY <1>9 DEF aggregateVars, OrgInv, OrgCounted, ArchivedStep
  <2>3. QED
    BY <2>1, <2>2
<1>10. QED
  BY <1>3, <1>4, <1>5, <1>6, <1>7, <1>8, <1>9, OrgWritten
     DEF OrganizationNext, ArchiveOrganization, SuspendOrganization

\* An organization that was archived or merged away stays so, and its version counts its
\* changes of status, unless one command wrote over what another had written (orgRepo.update).
THEOREM ArchivedStays == OrganizationSpec => ArchivedForGood
<1>1. OrgInv /\ [OrganizationNext]_aggregateVars => OrgInv' /\ [ArchivedStep]_aggregateVars
  BY OrgStep
<1>2. QED
  BY <1>1, OrgInitially, PTL DEF OrganizationSpec, ArchivedForGood


-----------------------------------------------------------------------------
(* Resource records *)

RecordsAssumption == LastTick \in Nat

States == UNION {StatesOf(k) : k \in Kinds}

\* What is recorded of an object says what was called on it: nothing of one that is not there;
\* dates are past, an entry in the trash has the date it got there, and a notification that was
\* sent the date it was.
RecordsInv ==
    /\ RecordsTypeOK /\ clock \in 0 .. LastTick
    /\ log = [accepted |-> log.accepted, approved |-> log.approved, left |-> log.left]
    /\ log.accepted \in [Ids -> Nat] /\ DOMAIN log.approved = Ids
    /\ \A i \in Ids : ~Stored(i) => log.accepted[i] = 0 /\ i \notin log.left
    /\ \A i \in Ids : Stored(i) =>
          /\ \A d \in Dates : rows[i].dates[d] <= clock
          /\ rows[i].state = "trashed" => Dated(i, "trashedAt")
          /\ rows[i].state = "sent" => Dated(i, "sentAt")
    /\ RecordsSound

LEMMA MovesFacts ==
    ASSUME NEW kind \in Kinds, NEW state \in StatesOf(kind)
    PROVE  /\ Moves[kind][state] \subseteq StatesOf(kind)
           /\ state \in {"deceased", "transferred", "cancelled", "completed", "purged", "approved"}
                 => Moves[kind][state] = {}
           /\ state = "pending" \/ state = "approved" => kind = "transaction"
           /\ "purged" \in Moves[kind][state] => kind = "archive_entry" /\ state = "trashed"
           /\ "trashed" \in Moves[kind][state] => kind = "archive_entry"
           /\ "sent" \in Moves[kind][state] => kind = "notification"
           /\ "read" \in Moves[kind][state] => kind = "notification" /\ state = "sent"
           /\ "approved" \in Moves[kind][state] => kind = "transaction"
<1>1. CASE kind = "member"
  <2>1. Moves[kind] = MemberMoves /\ StatesOf(kind) = {"active", "inactive", "deceased", "transferred"}
    BY <1>1 DEF Moves, StatesOf, MemberMoves
  <2>2. QED
    BY <1>1, <2>1 DEF MemberMoves
<1>2. CASE kind = "event"
  <2>1. Moves[kind] = EventMoves /\ StatesOf(kind) = {"draft", "published", "cancelled", "completed"}
    BY <1>2 DEF Moves, StatesOf, EventMoves
  <2>2. QED
    BY <1>2, <2>1 DEF EventMoves
<1>3. CASE kind = "archive_entry"
  <2>1. /\ Moves[kind] = ArchiveMoves
        /\ StatesOf(kind) = {"draft", "active", "archived", "trashed", "purged"}
    BY <1>3 DEF Moves, StatesOf, ArchiveMoves
  <2>2. QED
    BY <1>3, <2>1 DEF ArchiveMoves
<1>4. CASE kind = "notification"
  <2>1. /\ Moves[kind] = NotificationMoves
        /\ StatesOf(kind) = {"queued", "sending", "sent", "failed", "read"}
    BY <1>4 DEF Moves, StatesOf, NotificationMoves
  <2>2. Moves[kind][state] =
            {"sent", "failed", "queued"} \cup (IF state = "queued" THEN {"sending"} ELSE {})
                                         \cup (IF state = "sent" THEN {"read"} ELSE {})
    BY <2>1 DEF NotificationMoves
  <2>3. QED
    BY <1>4, <2>1, <2>2
<1>5. CASE kind = "transaction"
  <2>1. /\ Moves[kind] = TransactionMoves
        /\ StatesOf(kind) = {"draft", "pending", "approved", "rejected"}
    BY <1>5 DEF Moves, StatesOf, TransactionMoves
  <2>2. QED
    BY <1>5, <2>1 DEF TransactionMoves
<1>6. QED
  BY <1>1, <1>2, <1>3, <1>4, <1>5 DEF Kinds

LEMMA RecordStored == ASSUME NEW row \in ResourceRow PROVE row # NoRow
<1>1. "kind" \in DOMAIN row /\ "kind" \notin DOMAIN NoRow
  BY DEF ResourceRow, NoRow
<1>2. QED
  BY <1>1

LEMMA RecordsInitially == ASSUME RecordsAssumption, RecordsInit PROVE RecordsInv
BY DEF RecordsAssumption, RecordsInit, StoreInit, RecordsInv, RecordsTypeOK, RecordsSound, Stored, Dated

\* A new object has its first state and no dates.
LEMMA RecordCreated ==
    ASSUME RecordsAssumption, RecordsInv, NEW i \in Ids, ~Stored(i), NEW kind \in Kinds,
           NEW name \in RecordTexts, NEW state \in StatesOf(kind),
           state \notin {"trashed", "purged", "sent", "read", "approved"},
           PutRow(i, NewRecord(kind, state, name, Null)), UNCHANGED <<log, clock>>
    PROVE  RecordsInv' /\ FinalRecordStep
<1> DEFINE row == NewRecord(kind, state, name, Null)
<1>1. /\ row.kind = kind /\ row.state = state /\ row.version = 1
      /\ \A d \in Dates : row.dates[d] = None
  BY DEF NewRecord
<1>2. row \in ResourceRow /\ row # NoRow
  <2>1. row \in ResourceRow
    BY DEF NewRecord, ResourceRow
  <2>2. QED
    BY <2>1, RecordStored
<1>3. rows' = [rows EXCEPT ![i] = row]
  BY DEF PutRow
<1> HIDE DEF row
<1>4. /\ rows' \in [Ids -> ResourceRow \cup {NoRow}]
      /\ \A j \in Ids : rows'[j] = IF j = i THEN row ELSE rows[j]
  BY <1>2, <1>3 DEF RecordsInv, RecordsTypeOK
<1>5. \A j \in Ids : Stored(j)' <=> Stored(j) \/ j = i
  BY <1>2, <1>4 DEF Stored
<1>6. RecordsTypeOK'
  BY <1>1, <1>4, <1>5 DEF RecordsInv, RecordsTypeOK
<1>7. \A d \in Dates : None <= clock
  BY DEF RecordsInv, None, RecordsAssumption
<1>8. \A d \in {"leaveDate", "trashedAt", "sentAt"} : d \in Dates
  BY DEF Dates
<1>9. RecordsSound'
  <2> SUFFICES ASSUME NEW j \in Ids, Stored(j)'
      PROVE  /\ rows'[j].version = 1 + log.accepted[j]
             /\ rows'[j].kind = "member" => (j \in log.left <=> rows'[j].dates["leaveDate"] # None)
             /\ rows'[j].state = "purged" =>
                    /\ rows'[j].dates["trashedAt"] # None
                    /\ rows'[j].dates["trashedAt"] <= rows'[j].dates["purgeDate"]
             /\ rows'[j].state = "read" =>
                    /\ rows'[j].dates["sentAt"] # None
                    /\ rows'[j].dates["sentAt"] <= rows'[j].dates["readAt"]
             /\ rows'[j].state = "approved" => log.approved[j] = <<rows'[j].name, rows'[j].note>>
    BY DEF RecordsSound, Dated
  <2>1. CASE j = i
    BY <1>1, <1>4, <1>8, <2>1 DEF RecordsInv
  <2>2. CASE j # i
    BY <1>4, <1>5, <2>2 DEF RecordsInv, RecordsSound, Dated
  <2>3. QED
    BY <2>1, <2>2
<1>10. \A j \in Ids : Stored(j)' =>
          /\ \A d \in Dates : rows'[j].dates[d] <= clock
          /\ rows'[j].state = "trashed" => rows'[j].dates["trashedAt"] # None
          /\ rows'[j].state = "sent" => rows'[j].dates["sentAt"] # None
  BY <1>1, <1>4, <1>5, <1>7 DEF RecordsInv, Dated
<1>11. RecordsInv'
  BY <1>5, <1>6, <1>9, <1>10 DEF RecordsInv, Dated
<1>12. QED
  BY <1>4, <1>11 DEF FinalRecordStep

\* A method that was accepted and changes no state: it leaves the dates, and the fields of an
\* approved transaction.
LEMMA RecordChanged ==
    ASSUME RecordsAssumption, RecordsInv, NEW i \in Ids, Stored(i), NEW record,
           record \in ResourceRow, record.kind = rows[i].kind, record.state = rows[i].state,
           record.dates = rows[i].dates, record.version = rows[i].version,
           rows[i].state = "approved" => record.name = rows[i].name /\ record.note = rows[i].note,
           PutRow(i, [record EXCEPT !.version = @ + 1]), log' = AcceptedRecord(i), UNCHANGED clock
    PROVE  RecordsInv' /\ FinalRecordStep
<1> DEFINE row == [record EXCEPT !.version = @ + 1]
<1>1. /\ row.kind = rows[i].kind /\ row.state = rows[i].state /\ row.dates = rows[i].dates
      /\ row.version = rows[i].version + 1
      /\ row.name = record.name /\ row.note = record.note
  BY DEF ResourceRow
<1>2. row \in ResourceRow /\ row # NoRow
  <2>1. row \in ResourceRow
    BY DEF ResourceRow
  <2>2. QED
    BY <2>1, RecordStored
<1>3. rows' = [rows EXCEPT ![i] = row]
  BY DEF PutRow
<1> HIDE DEF row
<1>4. /\ rows' \in [Ids -> ResourceRow \cup {NoRow}]
      /\ \A j \in Ids : rows'[j] = IF j = i THEN row ELSE rows[j]
  BY <1>2, <1>3 DEF RecordsInv, RecordsTypeOK
<1>5. \A j \in Ids : Stored(j)' <=> Stored(j)
  BY <1>2, <1>4 DEF Stored
<1>6. /\ log' = [accepted |-> log'.accepted, approved |-> log'.approved, left |-> log'.left]
      /\ log'.accepted = [log.accepted EXCEPT ![i] = @ + 1]
      /\ log'.approved = log.approved /\ log'.left = log.left
  BY DEF AcceptedRecord, RecordsInv
<1>7. /\ log'.accepted \in [Ids -> Nat]
      /\ \A j \in Ids : log'.accepted[j] = IF j = i THEN log.accepted[j] + 1 ELSE log.accepted[j]
  BY <1>6 DEF RecordsInv
<1>8. RecordsTypeOK'
  BY <1>1, <1>4, <1>5 DEF RecordsInv, RecordsTypeOK
<1>9. RecordsSound'
  <2> SUFFICES ASSUME NEW j \in Ids, Stored(j)'
      PROVE  /\ rows'[j].version = 1 + log'.accepted[j]
             /\ rows'[j].kind = "member" => (j \in log'.left <=> rows'[j].dates["leaveDate"] # None)
             /\ rows'[j].state = "purged" =>
                    /\ rows'[j].dates["trashedAt"] # None
                    /\ rows'[j].dates["trashedAt"] <= rows'[j].dates["purgeDate"]
             /\ rows'[j].state = "read" =>
                    /\ rows'[j].dates["sentAt"] # None
                    /\ rows'[j].dates["sentAt"] <= rows'[j].dates["readAt"]
             /\ rows'[j].state = "approved" => log'.approved[j] = <<rows'[j].name, rows'[j].note>>
    BY DEF RecordsSound, Dated
  <2>1. rows[j].version = 1 + log.accepted[j] /\ log.accepted[j] \in Nat
    BY <1>5 DEF RecordsInv, RecordsSound
  <2>2. rows'[j].version = 1 + log'.accepted[j]
    BY <1>1, <1>4, <1>7, <2>1
  <2>3. QED
    BY <1>1, <1>4, <1>5, <1>6, <2>2 DEF RecordsInv, RecordsSound, Dated
<1>10. \A j \in Ids : Stored(j)' =>
          /\ \A d \in Dates : rows'[j].dates[d] <= clock
          /\ rows'[j].state = "trashed" => rows'[j].dates["trashedAt"] # None
          /\ rows'[j].state = "sent" => rows'[j].dates["sentAt"] # None
  BY <1>1, <1>4, <1>5 DEF RecordsInv, Dated
<1>11. \A j \in Ids : ~Stored(j)' => log'.accepted[j] = 0 /\ j \notin log'.left
  BY <1>5, <1>6, <1>7 DEF RecordsInv
<1>12. RecordsInv'
  BY <1>6, <1>7, <1>8, <1>9, <1>10, <1>11 DEF RecordsInv, Dated
<1>13. QED
  BY <1>1, <1>4, <1>12 DEF FinalRecordStep

\* A change of state notes its date.
LEMMA RecordMoved ==
    ASSUME RecordsAssumption, RecordsInv, NEW i \in Ids, Stored(i), NEW to,
           to \in Moves[rows[i].kind][rows[i].state], NEW record, record \in ResourceRow,
           record.kind = rows[i].kind, record.state = to, record.version = rows[i].version,
           record.name = rows[i].name, record.note = rows[i].note,
           \A d \in Dates \ {"approvedAt"} :
              record.dates[d] = IF d \in DatedBy(rows[i].kind, to) THEN clock ELSE rows[i].dates[d],
           record.dates["approvedAt"] <= clock,
           PutRow(i, [record EXCEPT !.version = @ + 1]), log' = MoveLog(i, rows[i], to), UNCHANGED clock
    PROVE  RecordsInv' /\ FinalRecordStep
<1> DEFINE row == [record EXCEPT !.version = @ + 1]
<1>1. /\ row.kind = rows[i].kind /\ row.state = to /\ row.dates = record.dates
      /\ row.version = rows[i].version + 1
      /\ row.name = rows[i].name /\ row.note = rows[i].note
  BY DEF ResourceRow
<1>2. row \in ResourceRow /\ row # NoRow
  <2>1. row \in ResourceRow
    BY DEF ResourceRow
  <2>2. QED
    BY <2>1, RecordStored
<1>3. rows' = [rows EXCEPT ![i] = row]
  BY DEF PutRow
<1> HIDE DEF row
<1>4. /\ rows' \in [Ids -> ResourceRow \cup {NoRow}]
      /\ \A j \in Ids : rows'[j] = IF j = i THEN row ELSE rows[j]
  BY <1>2, <1>3 DEF RecordsInv, RecordsTypeOK
<1>5. \A j \in Ids : Stored(j)' <=> Stored(j)
  BY <1>2, <1>4 DEF Stored
<1>6. /\ log' = [accepted |-> log'.accepted, approved |-> log'.approved, left |-> log'.left]
      /\ log'.accepted = [log.accepted EXCEPT ![i] = @ + 1]
      /\ log'.approved = [log.approved EXCEPT ![i] =
             IF to = "approved" THEN <<rows[i].name, rows[i].note>> ELSE @]
      /\ log'.left = IF rows[i].kind = "member" /\ to # "active" THEN log.left \cup {i} ELSE log.left
  BY DEF AcceptedRecord, MoveLog, RecordsInv
<1>7. /\ log'.accepted \in [Ids -> Nat] /\ DOMAIN log'.approved = Ids
      /\ \A j \in Ids : log'.accepted[j] = IF j = i THEN log.accepted[j] + 1 ELSE log.accepted[j]
      /\ \A j \in Ids : j # i => log'.approved[j] = log.approved[j]
      /\ to = "approved" => log'.approved[i] = <<rows[i].name, rows[i].note>>
      /\ \A j \in Ids : j # i => (j \in log'.left <=> j \in log.left)
  BY <1>6 DEF RecordsInv
<1>8. rows[i].kind \in Kinds /\ rows[i].state \in StatesOf(rows[i].kind)
  BY DEF RecordsInv, RecordsTypeOK, ResourceRow, Stored
<1>9. /\ to \in StatesOf(rows[i].kind)
      /\ rows[i].state \notin
             {"deceased", "transferred", "cancelled", "completed", "purged", "approved"}
      /\ to = "purged" => rows[i].kind = "archive_entry" /\ rows[i].state = "trashed"
      /\ to = "trashed" => rows[i].kind = "archive_entry"
      /\ to = "sent" => rows[i].kind = "notification"
      /\ to = "read" => rows[i].kind = "notification" /\ rows[i].state = "sent"
  BY <1>8, MovesFacts
<1>10. RecordsTypeOK'
  BY <1>1, <1>4, <1>5, <1>9 DEF RecordsInv, RecordsTypeOK
<1>11. clock \in Nat /\ clock # None /\ clock <= clock
  BY DEF RecordsInv, RecordsAssumption, None
<1>12. {"leaveDate", "trashedAt", "purgeDate", "sentAt", "readAt"} \subseteq Dates \ {"approvedAt"}
  BY DEF Dates
<1>13. /\ rows[i].kind = "member" /\ to # "active" => record.dates["leaveDate"] = clock
       /\ rows[i].kind = "member" /\ to = "active" =>
             record.dates["leaveDate"] = rows[i].dates["leaveDate"]
       /\ to = "trashed" => record.dates["trashedAt"] = clock
       /\ to = "purged" => record.dates["purgeDate"] = clock
                           /\ record.dates["trashedAt"] = rows[i].dates["trashedAt"]
       /\ to = "sent" => record.dates["sentAt"] = clock
       /\ to = "read" => record.dates["readAt"] = clock
                         /\ record.dates["sentAt"] = rows[i].dates["sentAt"]
  BY <1>9, <1>12 DEF DatedBy
<1>14. RecordsSound'
  <2> SUFFICES ASSUME NEW j \in Ids, Stored(j)'
      PROVE  /\ rows'[j].version = 1 + log'.accepted[j]
             /\ rows'[j].kind = "member" => (j \in log'.left <=> rows'[j].dates["leaveDate"] # None)
             /\ rows'[j].state = "purged" =>
                    /\ rows'[j].dates["trashedAt"] # None
                    /\ rows'[j].dates["trashedAt"] <= rows'[j].dates["purgeDate"]
             /\ rows'[j].state = "read" =>
                    /\ rows'[j].dates["sentAt"] # None
                    /\ rows'[j].dates["sentAt"] <= rows'[j].dates["readAt"]
             /\ rows'[j].state = "approved" => log'.approved[j] = <<rows'[j].name, rows'[j].note>>
    BY DEF RecordsSound, Dated
  <2>1. rows[j].version = 1 + log.accepted[j] /\ log.accepted[j] \in Nat
    BY <1>5 DEF RecordsInv, RecordsSound
  <2>2. rows'[j].version = 1 + log'.accepted[j]
    BY <1>1, <1>4, <1>7, <2>1
  <2>3. CASE j # i
    BY <1>4, <1>5, <1>7, <2>2, <2>3 DEF RecordsInv, RecordsSound, Dated
  <2>4. CASE j = i
    <3>1. rows[i].kind = "member" => (i \in log'.left <=> record.dates["leaveDate"] # None)
      BY <1>6, <1>11, <1>13 DEF RecordsInv, RecordsSound, Dated
    <3>2. to = "purged" => /\ record.dates["trashedAt"] # None
                           /\ record.dates["trashedAt"] <= record.dates["purgeDate"]
      BY <1>9, <1>12, <1>13 DEF RecordsInv, Dated
    <3>3. to = "read" => /\ record.dates["sentAt"] # None
                         /\ record.dates["sentAt"] <= record.dates["readAt"]
      BY <1>9, <1>12, <1>13 DEF RecordsInv, Dated
    <3>4. QED
      BY <1>1, <1>4, <1>7, <2>2, <2>4, <3>1, <3>2, <3>3
  <2>5. QED
    BY <2>3, <2>4
<1>15. \A j \in Ids : Stored(j)' =>
          /\ \A d \in Dates : rows'[j].dates[d] <= clock
          /\ rows'[j].state = "trashed" => rows'[j].dates["trashedAt"] # None
          /\ rows'[j].state = "sent" => rows'[j].dates["sentAt"] # None
  <2> SUFFICES ASSUME NEW j \in Ids, Stored(j)'
      PROVE /\ \A d \in Dates : rows'[j].dates[d] <= clock
            /\ rows'[j].state = "trashed" => rows'[j].dates["trashedAt"] # None
            /\ rows'[j].state = "sent" => rows'[j].dates["sentAt"] # None
    OBVIOUS
  <2>1. CASE j # i
    BY <1>4, <1>5, <2>1 DEF RecordsInv, Dated
  <2>2. \A d \in Dates : record.dates[d] <= clock
    BY <1>11 DEF RecordsInv
  <2>3. CASE j = i
    BY <1>1, <1>4, <1>11, <1>13, <2>2, <2>3
  <2>4. QED
    BY <2>1, <2>3
<1>16. \A j \in Ids : ~Stored(j)' => log'.accepted[j] = 0 /\ j \notin log'.left
  BY <1>5, <1>7 DEF RecordsInv
<1>17. RecordsInv'
  BY <1>6, <1>7, <1>10, <1>14, <1>15, <1>16 DEF RecordsInv, Dated
<1>18. QED
  BY <1>4, <1>9, <1>17 DEF FinalRecordStep

LEMMA RecordsStep ==
    ASSUME RecordsAssumption, RecordsInv, [RecordsNext]_aggregateVars
    PROVE  RecordsInv' /\ FinalRecordStep
<1> DEFINE Kept == RecordsInv' /\ FinalRecordStep
<1>1. ASSUME NEW i \in Ids, Stored(i)
      PROVE  /\ rows[i] \in ResourceRow /\ rows[i].kind \in Kinds
             /\ rows[i].state \in StatesOf(rows[i].kind)
  BY <1>1 DEF RecordsInv, RecordsTypeOK, Stored, ResourceRow
<1>2. ASSUME NEW i \in Ids, NEW r \in Requests, NEW kind \in Kinds, NEW name \in RecordTexts,
             CreateRecord(r, i, kind, name)
      PROVE  Kept
  <2>1. /\ FirstState(kind) \in StatesOf(kind)
        /\ FirstState(kind) \notin {"trashed", "purged", "sent", "read", "approved"}
    BY DEF FirstState, StatesOf, Kinds, Moves, MemberMoves, EventMoves, ArchiveMoves,
           NotificationMoves, TransactionMoves
  <2>2. QED
    BY <1>2, <2>1, RecordCreated DEF CreateRecord
<1>3. ASSUME NEW i \in Ids, NEW r \in Requests, NEW original \in Ids,
             CreateCompensation(r, i, original)
      PROVE  Kept
  <2>1. "draft" \in StatesOf("transaction") /\ "transaction" \in Kinds
    BY DEF StatesOf, Kinds, Moves, TransactionMoves
  <2>2. rows[original].name \in RecordTexts
    BY <1>1, <1>3 DEF CreateCompensation, ResourceRow
  <2>3. QED
    BY <1>3, <2>1, <2>2, RecordCreated DEF CreateCompensation
<1>4. ASSUME NEW i \in Ids, NEW r \in Requests, NEW to \in States, ChangeState(r, i, to)
      PROVE  Kept
  <2> DEFINE record == MovedRecord(rows[i], to)
  <2>1. Stored(i) /\ to \in Moves[rows[i].kind][rows[i].state]
    BY <1>4 DEF ChangeState, MayMove
  <2>2. rows[i] \in ResourceRow /\ to \in StatesOf(rows[i].kind) /\ rows[i].kind \in Kinds
    BY <1>1, <2>1, MovesFacts
  <2>3. clock \in 0 .. LastTick
    BY DEF RecordsInv
  <2>4. /\ record.kind = rows[i].kind /\ record.state = to /\ record.version = rows[i].version
        /\ record.name = rows[i].name /\ record.note = rows[i].note
        /\ record.dates = [d \in Dates |-> IF d \in DatedBy(rows[i].kind, to) THEN clock
                                           ELSE rows[i].dates[d]]
        /\ record \in ResourceRow
    BY <2>2, <2>3 DEF MovedRecord, ResourceRow
  <2>5. "approvedAt" \in Dates /\ "approvedAt" \notin DatedBy(rows[i].kind, to)
    BY DEF Dates, DatedBy
  <2>6. record.dates["approvedAt"] <= clock
    BY <2>1, <2>4, <2>5 DEF RecordsInv
  <2>7. /\ PutRow(i, [record EXCEPT !.version = @ + 1]) /\ log' = MoveLog(i, rows[i], to)
        /\ UNCHANGED clock
    BY <1>4 DEF ChangeState, Accepts
  <2> HIDE DEF record
  <2>8. QED
    BY <2>1, <2>4, <2>6, <2>7, RecordMoved
<1>5. ASSUME NEW i \in Ids, NEW r \in Requests, Approve(r, i)
      PROVE  Kept
  <2> DEFINE record == [MovedRecord(rows[i], "approved") EXCEPT !.approvedBy = "approver",
                                                          !.dates["approvedAt"] = clock]
  <2>1. Stored(i) /\ rows[i].kind = "transaction" /\ rows[i].state = "pending"
    BY <1>5 DEF Approve
  <2>2. "approved" \in Moves[rows[i].kind][rows[i].state]
    BY <2>1 DEF Moves, TransactionMoves
  <2>3. rows[i] \in ResourceRow /\ "approved" \in StatesOf(rows[i].kind) /\ rows[i].kind \in Kinds
    BY <1>1, <2>1, <2>2, MovesFacts
  <2>4. clock \in 0 .. LastTick /\ clock <= clock
    BY DEF RecordsInv, RecordsAssumption
  <2>5. /\ record.kind = rows[i].kind /\ record.state = "approved"
        /\ record.version = rows[i].version
        /\ record.name = rows[i].name /\ record.note = rows[i].note
        /\ record.dates = [[d \in Dates |-> IF d \in DatedBy(rows[i].kind, "approved") THEN clock
                                            ELSE rows[i].dates[d]] EXCEPT !["approvedAt"] = clock]
        /\ record \in ResourceRow
    <3> DEFINE moved == MovedRecord(rows[i], "approved")
               dates == [d \in Dates |-> IF d \in DatedBy(rows[i].kind, "approved") THEN clock
                                         ELSE rows[i].dates[d]]
    <3>1. /\ moved \in ResourceRow /\ moved.kind = rows[i].kind /\ moved.state = "approved"
          /\ moved.version = rows[i].version /\ moved.name = rows[i].name
          /\ moved.note = rows[i].note /\ moved.dates = dates
          /\ dates \in [Dates -> 0 .. LastTick \cup {None}]
      BY <2>3, <2>4 DEF MovedRecord, ResourceRow
    <3> HIDE DEF moved, dates
    <3>2. [dates EXCEPT !["approvedAt"] = clock] \in [Dates -> 0 .. LastTick \cup {None}]
      BY <2>4, <3>1
    <3>3. record = [moved EXCEPT !.approvedBy = "approver",
                                 !.dates = [dates EXCEPT !["approvedAt"] = clock]]
      BY <3>1 DEF moved
    <3> HIDE DEF record
    <3>4. /\ record.kind = moved.kind /\ record.state = moved.state /\ record.note = moved.note
          /\ record.version = moved.version /\ record.name = moved.name
          /\ record.dates = [dates EXCEPT !["approvedAt"] = clock] /\ record \in ResourceRow
      BY <3>1, <3>2, <3>3 DEF ResourceRow
    <3>5. QED
      BY <3>1, <3>4 DEF dates
  <2>6. /\ \A d \in Dates \ {"approvedAt"} : record.dates[d] =
               IF d \in DatedBy(rows[i].kind, "approved") THEN clock ELSE rows[i].dates[d]
        /\ record.dates["approvedAt"] = clock
    BY <2>5 DEF Dates
  <2>7. /\ PutRow(i, [record EXCEPT !.version = @ + 1]) /\ log' = MoveLog(i, rows[i], "approved")
        /\ UNCHANGED clock
    BY <1>5 DEF Approve, Accepts
  <2> HIDE DEF record
  <2>8. QED
    BY <2>1, <2>2, <2>4, <2>5, <2>6, <2>7, RecordMoved
<1>6. ASSUME NEW i \in Ids, NEW r \in Requests, NEW name \in RecordTexts \cup {Absent},
             NEW note \in RecordTexts \cup {Null, Absent}, UpdateTexts(r, i, name, note)
      PROVE  Kept
  <2> DEFINE record == Updated(rows[i], name, note)
  <2>1. Stored(i) /\ rows[i] \in ResourceRow
    BY <1>1, <1>6 DEF UpdateTexts
  <2>2. /\ record \in ResourceRow /\ record.kind = rows[i].kind /\ record.state = rows[i].state
        /\ record.dates = rows[i].dates /\ record.version = rows[i].version
    BY <2>1 DEF Updated, ResourceRow
  <2>3. rows[i].state # "approved"
    BY <1>1, <1>6, MovesFacts DEF UpdateTexts
  <2>4. PutRow(i, [record EXCEPT !.version = @ + 1]) /\ log' = AcceptedRecord(i) /\ UNCHANGED clock
    BY <1>6 DEF UpdateTexts, Accepts
  <2> HIDE DEF record
  <2>5. QED
    BY <2>1, <2>2, <2>3, <2>4, RecordChanged
<1>7. ASSUME NEW i \in Ids, NEW r \in Requests, MarkSynced(r, i)
      PROVE  Kept
  <2> DEFINE record == [rows[i] EXCEPT !.synced = TRUE]
  <2>1. Stored(i) /\ rows[i] \in ResourceRow
    BY <1>1, <1>7 DEF MarkSynced
  <2>2. /\ record \in ResourceRow /\ record.kind = rows[i].kind /\ record.state = rows[i].state
        /\ record.dates = rows[i].dates /\ record.version = rows[i].version
        /\ record.name = rows[i].name /\ record.note = rows[i].note
    BY <2>1 DEF ResourceRow
  <2>3. PutRow(i, [record EXCEPT !.version = @ + 1]) /\ log' = AcceptedRecord(i) /\ UNCHANGED clock
    BY <1>7 DEF MarkSynced, Accepts
  <2> HIDE DEF record
  <2>4. QED
    BY <2>1, <2>2, <2>3, RecordChanged
<1>8. ASSUME NEW i \in Ids, NEW r \in Requests, NEW tags \in SUBSET RecordTexts,
             ApplyTags(r, i, tags) \/ RemoveTags(r, i, tags)
      PROVE  Kept
  <2>1. Stored(i) /\ rows[i] \in ResourceRow
    BY <1>1, <1>8 DEF ApplyTags, RemoveTags
  <2>2. PICK kept \in SUBSET RecordTexts :
           Accepts(r, i, [rows[i] EXCEPT !.tags = kept]) /\ log' = AcceptedRecord(i)
    <3>1. rows[i].tags \in SUBSET RecordTexts
      BY <2>1 DEF ResourceRow
    <3>2. CASE ApplyTags(r, i, tags)
      <4>1. Accepts(r, i, [rows[i] EXCEPT !.tags = rows[i].tags \cup tags]) /\ log' = AcceptedRecord(i)
        BY <3>2 DEF ApplyTags
      <4>2. QED
        BY <3>1, <4>1
    <3>3. CASE RemoveTags(r, i, tags)
      <4>1. Accepts(r, i, [rows[i] EXCEPT !.tags = rows[i].tags \ tags]) /\ log' = AcceptedRecord(i)
        BY <3>3 DEF RemoveTags
      <4>2. QED
        BY <3>1, <4>1
    <3>4. QED
      BY <1>8, <3>2, <3>3
  <2> DEFINE record == [rows[i] EXCEPT !.tags = kept]
  <2>3. /\ record \in ResourceRow /\ record.kind = rows[i].kind /\ record.state = rows[i].state
        /\ record.dates = rows[i].dates /\ record.version = rows[i].version
        /\ record.name = rows[i].name /\ record.note = rows[i].note
    BY <2>1 DEF ResourceRow
  <2>4. PutRow(i, [record EXCEPT !.version = @ + 1]) /\ UNCHANGED clock
    BY <2>2 DEF Accepts
  <2> HIDE DEF record
  <2>5. QED
    BY <2>1, <2>2, <2>3, <2>4, RecordChanged
<1>9. ASSUME NEW i \in Ids, NEW r \in Requests, NEW reason \in RecordTexts, MarkPurge(r, i, reason)
      PROVE  Kept
  <2> DEFINE record == [rows[i] EXCEPT !.note = reason]
  <2>1. Stored(i) /\ rows[i] \in ResourceRow /\ rows[i].kind = "archive_entry"
    BY <1>1, <1>9 DEF MarkPurge
  <2>2. /\ record \in ResourceRow /\ record.kind = rows[i].kind /\ record.state = rows[i].state
        /\ record.dates = rows[i].dates /\ record.version = rows[i].version
    BY <2>1 DEF ResourceRow
  <2>3. rows[i].state # "approved"
    BY <1>1, <2>1, MovesFacts
  <2>4. PutRow(i, [record EXCEPT !.version = @ + 1]) /\ log' = AcceptedRecord(i) /\ UNCHANGED clock
    BY <1>9 DEF MarkPurge, Accepts
  <2> HIDE DEF record
  <2>5. QED
    BY <2>1, <2>2, <2>3, <2>4, RecordChanged
<1>10. CASE Tick
  <2>1. UNCHANGED <<rows, log>> /\ clock' = clock + 1 /\ clock' \in 0 .. LastTick /\ clock \in Nat
    BY <1>10 DEF Tick, RecordsInv, RecordsAssumption
  <2>2. \A j \in Ids : Stored(j)' <=> Stored(j)
    BY <2>1 DEF Stored
  <2>3. ASSUME NEW j \in Ids, Stored(j), NEW d \in Dates PROVE rows[j].dates[d] <= clock'
    <3>1. rows[j].dates[d] \in 0 .. LastTick \cup {None} /\ rows[j].dates[d] <= clock
      BY <1>1, <2>3 DEF RecordsInv, ResourceRow
    <3>2. QED
      BY <2>1, <3>1 DEF None, RecordsAssumption
  <2>4. RecordsTypeOK' /\ RecordsSound'
    BY <2>1, <2>2 DEF RecordsInv, RecordsTypeOK, RecordsSound, Dated
  <2>5. RecordsInv'
    BY <2>1, <2>2, <2>3, <2>4 DEF RecordsInv, Dated
  <2>6. QED
    BY <2>1, <2>5 DEF FinalRecordStep
<1>11. CASE UNCHANGED aggregateVars
  BY <1>11 DEF aggregateVars, RecordsInv, RecordsTypeOK, RecordsSound, Dated, Stored, FinalRecordStep
<1>12. QED
  BY <1>2, <1>3, <1>4, <1>5, <1>6, <1>7, <1>8, <1>9, <1>10, <1>11 DEF RecordsNext, States

\* The validator is a table beside the entity's, and says yes only to a scope that exists.
LEMMA ValidatorHolds == ASSUME clock \in Nat PROVE ValidatorAgrees
<1>1. ASSUME NEW date \in 0 .. LastTick, NEW type \in {"org", "group", "unit"},
             NEW x \in RecordTexts \cup {Null}, NEW y \in RecordTexts \cup {Null}, NEW z \in RecordTexts \cup {Null},
             ValidateTransaction(date, type, x, y, z) = "valid"
      PROVE  date <= clock /\ ScopeConstructed(type, x)
  <2>1. date \in Int /\ ~(date > clock) /\ ~(type = "group" /\ x = Null)
    BY <1>1 DEF ValidateTransaction
  <2>2. QED
    BY <2>1 DEF ScopeConstructed
<1>2. ASSUME NEW from \in StatesOf("transaction"), NEW to \in StatesOf("transaction")
      PROVE  ValidateTransactionTransition(from, to) <=> to \in TransactionMoves[from]
  BY DEF ValidateTransactionTransition, StatesOf, Moves, TransactionMoves
<1>3. QED
  BY <1>1, <1>2 DEF ValidatorAgrees

\* Whatever is called on the objects of the finance domain in whatever order: versions count
\* the changes, dates are in order and kept, an approved transaction keeps its fields, and the
\* validator admits what the entity does (finance/entities, ResourceValidator).
THEOREM RecordsHold ==
    ASSUME RecordsAssumption PROVE RecordsSpec => [](RecordsTypeOK /\ RecordsSound /\ ValidatorAgrees)
<1>1. RecordsInv /\ [RecordsNext]_aggregateVars => RecordsInv'
  BY RecordsStep
<1>2. RecordsInv => RecordsTypeOK /\ RecordsSound /\ ValidatorAgrees
  BY ValidatorHolds DEF RecordsInv, RecordsAssumption
<1>3. QED
  BY <1>1, <1>2, RecordsInitially, PTL DEF RecordsSpec

\* No method takes an object out of a final state (validateTransition).
THEOREM FinalRecordsStay ==
    ASSUME RecordsAssumption PROVE RecordsSpec => [][FinalRecordStep]_aggregateVars
<1>1. RecordsInv /\ [RecordsNext]_aggregateVars => RecordsInv' /\ [FinalRecordStep]_aggregateVars
  BY RecordsStep
<1>2. QED
  BY <1>1, RecordsInitially, PTL DEF RecordsSpec


-----------------------------------------------------------------------------
(* Workflow rules *)

WorkflowRulesSpec == WorkflowRulesInit /\ [][WorkflowRulesNext]_aggregateVars

StepRulesAssumption == LastTick \in Nat /\ AskedTimeouts \subseteq Nat /\ MaxEscalations \in Nat

\* A step that the router refused is stored, and was escalated as often as its rule allows.
StepRulesInv ==
    /\ rows \in [Ids -> StepRow \cup {NoRow}] /\ clock \in 0 .. LastTick
    /\ log \in [executed : SUBSET [type : StepTypes, actor : Comments, status : RuleStepStatus],
                refused : SUBSET {i \in Ids : Stored(i)}]
    /\ EscalatedInTime /\ CommentIsOfApproval /\ ExecutedWithActor

LEMMA StepRulesInitially == ASSUME StepRulesAssumption, WorkflowRulesInit PROVE StepRulesInv
BY DEF StepRulesAssumption, WorkflowRulesInit, StoreInit, StepRulesInv, EscalatedInTime,
       CommentIsOfApproval, ExecutedWithActor, Stored

\* A stored step is one of the entity, with a timeout of a day at least.
LEMMA StepRead ==
    ASSUME StepRulesAssumption, NEW row \in StepRow
    PROVE  LET step == ToDomain(row) IN
           /\ row # NoRow
           /\ step = [type |-> row.type, status |-> row.status, days |-> step.days,
                      created |-> row.created, comment |-> row.comment, reason |-> "none",
                      by |-> "none"]
           /\ step.days \in AskedTimeouts \cup {1} /\ step.days \in Nat /\ step.days >= 1
           /\ row.created \in Nat /\ row.created <= LastTick /\ row.escalated \in 0 .. MaxEscalations
           /\ step.status \in RuleStepStatus
<1>1. row # NoRow
  <2>1. "type" \in DOMAIN row /\ "type" \notin DOMAIN NoRow
    BY DEF StepRow, NoRow
  <2>2. QED
    BY <2>1
<1>2. /\ row.days \in AskedTimeouts \cup {1} /\ row.created \in 0 .. LastTick /\ row.status \in RuleStepStatus
      /\ row.escalated \in 0 .. MaxEscalations
  BY DEF StepRow
<1>3. /\ ToDomain(row).days = IF row.days = 0 THEN 1 ELSE row.days
      /\ ToDomain(row).status = row.status
  BY DEF ToDomain
<1>4. /\ ToDomain(row).days \in AskedTimeouts \cup {1} /\ ToDomain(row).days \in Nat
      /\ ToDomain(row).days >= 1
  <2>1. \A d \in AskedTimeouts \cup {1} : d \in Nat
    BY DEF StepRulesAssumption
  <2>2. row.days \in Nat
    BY <1>2, <2>1
  <2>3. QED
    BY <1>2, <1>3, <2>2
<1>5. row.created \in Nat /\ row.created <= LastTick
  BY <1>2 DEF StepRulesAssumption
<1>6. ToDomain(row) = [type |-> row.type, status |-> row.status, days |-> ToDomain(row).days,
                       created |-> row.created, comment |-> row.comment, reason |-> "none",
                       by |-> "none"]
  BY DEF ToDomain
<1>7. QED
  BY <1>1, <1>2, <1>3, <1>4, <1>5, <1>6

\* A step that is read, changed and written keeps what no update touches.
LEMMA StepWritten ==
    ASSUME StepRulesAssumption, StepRulesInv, NEW i \in Ids, Stored(i),
           NEW status \in RuleStepStatus, NEW comment \in Comments, NEW step,
           step.type = rows[i].type, step.status = status, step.days = ToDomain(rows[i]).days,
           step.comment = comment,
           comment = "some" => status = "completed",
           Written(i, step), UNCHANGED <<request, log, clock>>
    PROVE  StepRulesInv'
<1> DEFINE row == [type |-> step.type, status |-> step.status, days |-> step.days,
                   created |-> rows[i].created, comment |-> step.comment,
                   escalated |-> rows[i].escalated]
<1>1. rows[i] \in StepRow
  BY DEF StepRulesInv, Stored
<1>2. /\ row \in StepRow /\ row.escalated = rows[i].escalated /\ row.created = rows[i].created
      /\ row.status = status /\ row.comment = comment
  BY <1>1, StepRead DEF StepRow
<1>3. row # NoRow
  BY <1>2, StepRead
<1>4. rows' = [rows EXCEPT ![i] = row]
  BY DEF Written, PutRow
<1> HIDE DEF row
<1>5. \A j \in Ids : rows'[j] = IF j = i THEN row ELSE rows[j]
  BY <1>4 DEF StepRulesInv
<1>6. rows' \in [Ids -> StepRow \cup {NoRow}] /\ \A j \in Ids : Stored(j)' <=> Stored(j)
  BY <1>2, <1>3, <1>4, <1>5 DEF StepRulesInv, Stored
<1>7. EscalatedInTime'
  BY <1>2, <1>5, <1>6 DEF StepRulesInv, EscalatedInTime
<1>8. CommentIsOfApproval' /\ ExecutedWithActor'
  BY <1>2, <1>5, <1>6 DEF StepRulesInv, CommentIsOfApproval, ExecutedWithActor
<1>9. QED
  BY <1>6, <1>7, <1>8 DEF StepRulesInv

LEMMA StepRulesStep ==
    ASSUME StepRulesAssumption, StepRulesInv, [WorkflowRulesNext]_aggregateVars
    PROVE  StepRulesInv'
<1>1. ASSUME NEW i \in Ids, NEW t \in StepTypes, NEW d \in AskedTimeouts, SaveStep(i, t, d)
      PROVE  StepRulesInv'
  <2> DEFINE row == [type |-> t, status |-> "pending", days |-> d, created |-> clock,
                     comment |-> "none", escalated |-> 0]
  <2>1. row \in StepRow /\ row # NoRow
    <3>1. row \in StepRow
      BY DEF StepRow, RuleStepStatus, Comments, StepRulesInv, StepRulesAssumption
    <3>2. QED
      BY <3>1, StepRead
  <2>2. row.escalated = 0 /\ row.comment = "none" /\ ~Stored(i)
    BY <1>1 DEF SaveStep
  <2>3. rows' = [rows EXCEPT ![i] = row] /\ UNCHANGED <<log, clock>>
    BY <1>1 DEF SaveStep, PutRow
  <2> HIDE DEF row
  <2>4. /\ rows' \in [Ids -> StepRow \cup {NoRow}]
        /\ \A j \in Ids : rows'[j] = IF j = i THEN row ELSE rows[j]
    BY <2>1, <2>3 DEF StepRulesInv
  <2>5. \A j \in Ids : Stored(j)' <=> Stored(j) \/ j = i
    BY <2>1, <2>4 DEF Stored
  <2>6. i \notin log.refused
    BY <2>2 DEF StepRulesInv
  <2>7. log'.refused \in SUBSET {j \in Ids : Stored(j)'}
    BY <2>3, <2>5 DEF StepRulesInv
  <2>8. EscalatedInTime'
    BY <2>2, <2>3, <2>4, <2>5, <2>6 DEF StepRulesInv, EscalatedInTime, StepRulesAssumption
  <2>9. CommentIsOfApproval' /\ ExecutedWithActor'
    BY <2>2, <2>3, <2>4, <2>5 DEF StepRulesInv, CommentIsOfApproval, ExecutedWithActor
  <2>10. QED
    BY <2>3, <2>4, <2>7, <2>8, <2>9 DEF StepRulesInv
<1>2. ASSUME NEW i \in Ids, NEW to \in RuleStepStatus, NEW text \in Comments, UpdateStepRow(i, to, text)
      PROVE  StepRulesInv'
  <2> DEFINE step == Changed(ToDomain(rows[i]), to, text)
  <2>1. Stored(i) /\ rows[i] \in StepRow /\ ValidTransition(rows[i].status, to)
    BY <1>2 DEF UpdateStepRow, Stored, StepRulesInv
  <2>2. /\ step.type = rows[i].type /\ step.status = to /\ step.days = ToDomain(rows[i]).days
        /\ step.comment = IF to = "completed" THEN text ELSE rows[i].comment
    BY <2>1, StepRead DEF Changed, RuleStepStatus
  <2>3. rows[i].comment = "none" /\ rows[i].comment \in Comments
    BY <2>1 DEF StepRulesInv, CommentIsOfApproval, ValidTransition, StepRow, Comments
  <2>4. Written(i, step) /\ UNCHANGED <<request, log, clock>>
    BY <1>2 DEF UpdateStepRow
  <2> HIDE DEF step
  <2>5. step.comment \in Comments /\ (step.comment = "some" => to = "completed")
    BY <2>2, <2>3
  <2>6. QED
    BY <2>1, <2>2, <2>4, <2>5, StepWritten
<1>3. ASSUME NEW i \in Ids, ResetStep(i) PROVE StepRulesInv'
  <2> DEFINE step == ResetToPending(ToDomain(rows[i]))
  <2>1. Stored(i) /\ rows[i] \in StepRow
    BY <1>3 DEF ResetStep, Stored, StepRulesInv
  <2>2. /\ step.type = rows[i].type /\ step.status = "pending" /\ step.days = ToDomain(rows[i]).days
        /\ step.comment = "none"
    BY <2>1, StepRead DEF ResetToPending
  <2>3. Written(i, step) /\ UNCHANGED <<request, log, clock>>
    BY <1>3 DEF ResetStep
  <2> HIDE DEF step
  <2>4. "pending" \in RuleStepStatus /\ "none" \in Comments
    BY DEF RuleStepStatus, Comments
  <2>5. QED
    BY <2>1, <2>2, <2>3, <2>4, StepWritten
<1>4. ASSUME NEW i \in Ids, Escalate(i) PROVE StepRulesInv'
  <2>1. /\ Stored(i) /\ rows[i] \in StepRow /\ UNCHANGED clock
    BY <1>4 DEF Escalate, Stored, StepRulesInv
  <2>2. clock >= rows[i].created + 10
    <3>1. RemainingTime(ToDomain(rows[i])) <= 0
      <4> DEFINE step == ToDomain(rows[i])
      <4>1. PICK report \in Reports(step) : report.mandatory
        BY <1>4 DEF Escalate
      <4> HIDE DEF step
      <4>2. report = [remaining |-> RemainingTime(step), mandatory |-> RemainingTime(step) <= 0]
        BY DEF Reports
      <4>3. QED
        BY <4>1, <4>2 DEF step
    <3>2. QED
      BY <2>1, <3>1, StepRead DEF RemainingTime, Timeout, Elapsed, StepRulesInv, StepRulesAssumption
  <2>3. CASE MayEscalate(rows[i].escalated)
    <3> DEFINE row == [rows[i] EXCEPT !.escalated = @ + 1]
    <3>1. /\ row \in StepRow /\ row.escalated \in 0 .. MaxEscalations /\ row.created = rows[i].created
          /\ row.comment = rows[i].comment /\ row.status = rows[i].status
      <4>1. rows[i].escalated + 1 \in 0 .. MaxEscalations
        BY <2>1, <2>3, StepRead DEF MayEscalate, StepRulesAssumption
      <4>2. QED
        BY <2>1, <4>1 DEF StepRow
    <3>2. rows' = [rows EXCEPT ![i] = row] /\ UNCHANGED log
      BY <1>4, <2>3 DEF Escalate, PutRow
    <3>3. row # NoRow
      BY <3>1, StepRead
    <3>4. i \notin log.refused
      BY <2>1, <2>3 DEF StepRulesInv, EscalatedInTime, MayEscalate, StepRulesAssumption
    <3> HIDE DEF row
    <3>5. /\ rows' \in [Ids -> StepRow \cup {NoRow}]
          /\ \A j \in Ids : rows'[j] = IF j = i THEN row ELSE rows[j]
      BY <3>1, <3>2 DEF StepRulesInv
    <3>6. \A j \in Ids : Stored(j)' <=> Stored(j)
      BY <2>1, <3>3, <3>5 DEF Stored
    <3>7. EscalatedInTime'
      BY <2>1, <2>2, <3>1, <3>2, <3>4, <3>5, <3>6 DEF StepRulesInv, EscalatedInTime, StepRulesAssumption
    <3>8. CommentIsOfApproval' /\ ExecutedWithActor'
      BY <2>1, <3>1, <3>2, <3>5, <3>6 DEF StepRulesInv, CommentIsOfApproval, ExecutedWithActor
    <3>9. QED
      BY <2>1, <3>2, <3>5, <3>6, <3>7, <3>8 DEF StepRulesInv
  <2>4. CASE ~MayEscalate(rows[i].escalated)
    <3>1. log' = [log EXCEPT !.refused = @ \cup {i}] /\ UNCHANGED rows
      BY <1>4, <2>4 DEF Escalate
    <3>2. rows[i].escalated = MaxEscalations
      BY <2>1, <2>4, StepRead DEF MayEscalate, StepRulesAssumption
    <3>3. \A j \in Ids : Stored(j)' <=> Stored(j)
      BY <3>1 DEF Stored
    <3>4. /\ log'.executed = log.executed /\ log'.refused = log.refused \cup {i}
          /\ log' \in [executed : SUBSET [type : StepTypes, actor : Comments, status : RuleStepStatus],
                       refused : SUBSET {j \in Ids : Stored(j)'}]
      BY <2>1, <3>1, <3>3 DEF StepRulesInv
    <3>5. QED
      BY <2>1, <3>1, <3>2, <3>3, <3>4 DEF StepRulesInv, EscalatedInTime, CommentIsOfApproval,
         ExecutedWithActor
  <2>5. QED
    BY <2>3, <2>4
<1>5. ASSUME NEW i \in Ids, NEW actor \in Comments, Execute(i, actor) PROVE StepRulesInv'
  <2> DEFINE e == [type |-> rows[i].type, actor |-> actor, status |-> rows[i].status]
  <2>1. rows[i] \in StepRow /\ UNCHANGED <<rows, clock>>
    BY <1>5 DEF Execute, Stored, StepRulesInv
  <2> log \in [executed : SUBSET [type : StepTypes, actor : Comments, status : RuleStepStatus],
               refused : SUBSET {j \in Ids : Stored(j)}]
    BY DEF StepRulesInv
  <2>2. /\ log'.refused = log.refused
        /\ \/ log'.executed = log.executed
           \/ log'.executed = log.executed \cup {e} /\ Dispatched(ToDomain(rows[i]), actor)
        /\ log' = [executed |-> log'.executed, refused |-> log'.refused]
    <3>1. CASE Dispatched(ToDomain(rows[i]), actor)
      <4>1. log' = [log EXCEPT !.executed = @ \cup {e}]
        BY <1>5, <3>1 DEF Execute
      <4>2. QED
        BY <3>1, <4>1
    <3>2. CASE ~Dispatched(ToDomain(rows[i]), actor)
      <4>1. log' = log
        BY <1>5, <3>2 DEF Execute
      <4>2. QED
        BY <4>1
    <3>3. QED
      BY <3>1, <3>2
  <2>3. /\ e \in [type : StepTypes, actor : Comments, status : RuleStepStatus]
        /\ Dispatched(ToDomain(rows[i]), actor) =>
              e.status \in {"pending", "in_progress"} /\ (e.type = "approval" => e.actor = "some")
    BY <2>1, StepRead DEF Dispatched, IsTerminalStep, StepRow, RuleStepStatus
  <2> HIDE DEF e
  <2>4. \A j \in Ids : Stored(j)' <=> Stored(j)
    BY <2>1 DEF Stored
  <2>5. ExecutedWithActor'
    BY <2>2, <2>3 DEF StepRulesInv, ExecutedWithActor
  <2>6. EscalatedInTime' /\ CommentIsOfApproval'
    BY <2>1, <2>2, <2>4 DEF StepRulesInv, EscalatedInTime, CommentIsOfApproval
  <2>7. log' \in [executed : SUBSET [type : StepTypes, actor : Comments, status : RuleStepStatus],
                  refused : SUBSET {j \in Ids : Stored(j)'}]
    BY <2>2, <2>3, <2>4 DEF StepRulesInv
  <2>8. QED
    BY <2>1, <2>5, <2>6, <2>7 DEF StepRulesInv
<1>6. CASE Tick
  <2>1. UNCHANGED <<rows, log>> /\ clock' = clock + 1 /\ clock' \in 0 .. LastTick
    BY <1>6 DEF Tick, StepRulesInv, StepRulesAssumption
  <2>2. \A j \in Ids : Stored(j)' <=> Stored(j)
    BY <2>1 DEF Stored
  <2>3. EscalatedInTime'
    <3> SUFFICES ASSUME NEW j \in Ids, Stored(j), rows[j].escalated > 0
                 PROVE  clock' >= rows[j].created + 10
      BY <2>1, <2>2 DEF StepRulesInv, EscalatedInTime
    <3>1. rows[j] \in StepRow /\ clock >= rows[j].created + 10
      BY DEF StepRulesInv, EscalatedInTime, Stored
    <3>2. QED
      BY <2>1, <3>1, StepRead DEF StepRulesInv
  <2>4. QED
    BY <2>1, <2>2, <2>3 DEF StepRulesInv, CommentIsOfApproval, ExecutedWithActor
<1>7. CASE UNCHANGED aggregateVars
  BY <1>7 DEF aggregateVars, StepRulesInv, EscalatedInTime, CommentIsOfApproval, ExecutedWithActor,
     Stored
<1>8. QED
  BY <1>1, <1>2, <1>3, <1>4, <1>5, <1>6, <1>7 DEF WorkflowRulesNext

LEMMA StepRulesHold == ASSUME StepRulesAssumption, StepRulesInv PROVE StepRulesSound
<1>1. TimeoutsAgree
  <2> SUFFICES ASSUME NEW i \in Ids, Stored(i)
               PROVE  LET step == ToDomain(rows[i])
                      IN  /\ IsTimedOut(step) = IsEscalationMandatory(step)
                          /\ IsTimedOut(step) = StepHasTimedOut(step)
                          /\ IsTimedOut(step) => \E report \in Reports(step) : report.mandatory
    BY DEF TimeoutsAgree
  <2> DEFINE step == ToDomain(rows[i])
  <2>1. rows[i] \in StepRow /\ clock \in Nat
    BY DEF StepRulesInv, Stored
  <2>2. /\ step.days \in Nat /\ step.created \in Nat /\ step.status \in RuleStepStatus
    BY <2>1, StepRead
  <2> HIDE DEF step
  <2>3. IsTimedOut(step) = IsEscalationMandatory(step)
    BY DEF IsTimedOut, IsEscalationMandatory, HasTimedOut
  <2>4. IsTimedOut(step) = StepHasTimedOut(step)
    <3>1. ~IsTerminalStep(step) <=> step.status \in {"pending", "in_progress"}
      BY <2>2 DEF IsTerminalStep, RuleStepStatus
    <3>2. QED
      BY <3>1 DEF IsTimedOut, StepHasTimedOut
  <2>5. ASSUME IsTimedOut(step) PROVE \E report \in Reports(step) : report.mandatory
    <3>1. RemainingTime(step) \in Int /\ RemainingTime(step) <= 0 /\ Timeout(step) \in Nat
      BY <2>1, <2>2, <2>5 DEF IsTimedOut, RemainingTime, Timeout, Elapsed
    <3>2. 10 * RemainingTime(step) <= Timeout(step) /\ ~IsTerminalStep(step)
      BY <2>5, <3>1 DEF IsTimedOut
    <3>3. Reports(step) = {[remaining |-> RemainingTime(step), mandatory |-> TRUE]}
      BY <3>1, <3>2 DEF Reports
    <3>4. QED
      BY <3>3
  <2>6. QED
    BY <2>3, <2>4, <2>5 DEF step
<1>2. QED
  BY <1>1 DEF StepRulesInv, StepRulesSound

\* However a step is stored, changed, reset, escalated and executed, and however long it waits:
\* the three definitions of a timeout agree, it is escalated in time and no more often than its
\* rule allows, its approval comment is of its completion, and an executor is given it only
\* unfinished and with the actor it needs (TimeoutMonitor, EscalationRouter, StepExecutor).
THEOREM StepRulesKept == ASSUME StepRulesAssumption PROVE WorkflowRulesSpec => []StepRulesSound
<1>1. StepRulesInv /\ [WorkflowRulesNext]_aggregateVars => StepRulesInv'
  BY StepRulesStep
<1>2. QED
  BY <1>1, StepRulesInitially, StepRulesHold, PTL DEF WorkflowRulesSpec


-----------------------------------------------------------------------------
(* Delegation *)

DelegationAssumption == GrantDays \subseteq Int

DelegationRequest ==
    {Idle}
    \cup [at : {"path", "received", "create"}, from : Users, to : Users, scope : Scopes,
          days : Nat, stored : SUBSET Ids]
    \cup [at : {"update"}, id : Ids, read : GrantRow, grant : GrantRow]

DelegationLog ==
    [ended : SUBSET Ids, overtaken : SUBSET Ids, unchecked : SUBSET Ids, redelegated : SUBSET Ids,
     approvals : [Ids -> Nat]]

DelegationTypes ==
    /\ rows \in [Ids -> GrantRow \cup {NoRow}]
    /\ request \in [Requests -> DelegationRequest]
    /\ log \in DelegationLog
    /\ clock \in Nat

\* A grant that goes through a request keeps its users and its scope, comes into force only if
\* it was read in force and waiting for its approval, and does not go back to waiting.
GrantStepSound(r) ==
    LET c == request[r] IN
    c.at = "update" =>
        /\ Stored(c.id) /\ c.read.active
        /\ <<c.grant.from, c.grant.to, c.grant.scope>>
              = <<rows[c.id].from, rows[c.id].to, rows[c.id].scope>>
        /\ c.grant.status # "pending"
        /\ c.grant.active => c.grant.status = "active"
        /\ c.grant.status = "active" => c.read.status = "pending"
        /\ c.grant.revoked => ~c.grant.active

\* What a creation has checked of the grants it found: none is between the same two users, and
\* none to the one who delegates is in force in the scope, unless a change of it was overtaken.
FoundStill(c) ==
    /\ \A g \in c.stored : Stored(g)
    /\ c.at \in {"received", "create"} => c.from # c.to /\
          \A g \in c.stored : ~(rows[g].from = c.from /\ rows[g].to = c.to)
    /\ c.at = "create" =>
          \A g \in c.stored \ log.overtaken :
             rows[g].to = c.from /\ rows[g].scope = c.scope => ~rows[g].active

CreationSound(r) ==
    request[r].at \in {"path", "received", "create"} =>
        request[r].from # request[r].to /\ FoundStill(request[r])

GrantSound(g) ==
    /\ Stored(g) /\ rows[g].revoked => ~rows[g].active
    /\ ~Stored(g) => log.approvals[g] = 0 /\ g \notin log.ended
    /\ g \notin log.overtaken =>
          /\ g \in log.ended => ~rows[g].active
          /\ log.approvals[g] <= 1
          /\ Stored(g) /\ rows[g].status = "pending" => log.approvals[g] = 0

DelegationInv ==
    /\ DelegationTypes
    /\ \A r \in Requests : GrantStepSound(r) /\ CreationSound(r)
    /\ \A g \in Ids : GrantSound(g)
    /\ NotPassedOn /\ NoRepeatedGrant

LEMMA GrantStored == \A row \in GrantRow : row # NoRow
<1>1. \A row \in GrantRow : "revoked" \in DOMAIN row
  BY DEF GrantRow
<1>2. "revoked" \notin DOMAIN NoRow
  BY DEF NoRow
<1>3. QED
  BY <1>1, <1>2

LEMMA DelegationIdle == Idle \in DelegationRequest /\ Idle.at = "idle"
  BY DEF DelegationRequest, Idle

LEMMA DelegationRequests ==
    ASSUME DelegationTypes, NEW r \in Requests
    PROVE  LET c == request[r] IN
           /\ c \in DelegationRequest
           /\ c.at \in {"idle", "path", "received", "create", "update"}
           /\ c.at \in {"path", "received", "create"} =>
                 /\ c.from \in Users /\ c.to \in Users /\ c.scope \in Scopes /\ c.days \in Nat
                 /\ c.stored \in SUBSET Ids
                 /\ c = [at |-> c.at, from |-> c.from, to |-> c.to, scope |-> c.scope,
                         days |-> c.days, stored |-> c.stored]
           /\ c.at = "update" => c.id \in Ids /\ c.read \in GrantRow /\ c.grant \in GrantRow
<1>1. request[r] \in DelegationRequest
  BY DEF DelegationTypes
<1>2. QED
  BY <1>1, DelegationIdle DEF DelegationRequest

LEMMA DelegationInitially ==
    ASSUME DelegationInit PROVE DelegationInv
<1> USE DEF DelegationInit, StoreInit
<1>1. DelegationTypes
  BY DelegationIdle DEF DelegationTypes, DelegationLog
<1>2. \A r \in Requests : GrantStepSound(r) /\ CreationSound(r)
  BY DelegationIdle DEF GrantStepSound, CreationSound
<1>3. \A g \in Ids : ~Stored(g)
  BY DEF Stored
<1>4. \A g \in Ids : GrantSound(g)
  BY <1>3 DEF GrantSound
<1>5. NotPassedOn /\ NoRepeatedGrant
  BY <1>3 DEF NotPassedOn, NoRepeatedGrant
<1>6. QED
  BY <1>1, <1>2, <1>4, <1>5 DEF DelegationInv

\* A request that starts, goes on or is answered, and leaves the table alone
LEMMA DelegationGoesOn ==
    ASSUME DelegationInv, NEW r \in Requests, NEW step \in DelegationRequest,
           step.at # "update",
           step.at \in {"path", "received", "create"} => step.from # step.to /\ FoundStill(step),
           request' = [request EXCEPT ![r] = step], UNCHANGED <<rows, log, clock>>
    PROVE  DelegationInv'
<1>1. \A q \in Requests : request'[q] = IF q = r THEN step ELSE request[q]
  BY DEF DelegationInv, DelegationTypes
<1>2. DelegationTypes'
  BY DEF DelegationInv, DelegationTypes
<1>3. ASSUME NEW q \in Requests PROVE GrantStepSound(q)' /\ CreationSound(q)'
  <2>1. CASE q = r
    BY <1>1, <2>1 DEF GrantStepSound, CreationSound, FoundStill, Stored
  <2>2. CASE q # r
    BY <1>1, <2>2 DEF DelegationInv, GrantStepSound, CreationSound, FoundStill, Stored
  <2>3. QED
    BY <2>1, <2>2
<1>4. (\A g \in Ids : GrantSound(g)') /\ NotPassedOn' /\ NoRepeatedGrant'
  BY DEF DelegationInv, GrantSound, NotPassedOn, NoRepeatedGrant, Stored
<1>5. QED
  BY <1>2, <1>3, <1>4 DEF DelegationInv

\* createGrant
LEMMA GrantAsked ==
    ASSUME DelegationAssumption, DelegationInv, NEW r \in Requests, NEW from \in Users, NEW to \in Users,
           NEW scope \in Scopes, NEW days \in GrantDays, NEW permissions \in SUBSET {"known", "other"},
           CreateGrant(r, from, to, scope, days, permissions)
    PROVE  DelegationInv'
<1> DEFINE asked == MayCreate(from) /\ Validated(from, to, permissions, days)
           step == [at |-> "path", from |-> from, to |-> to, scope |-> scope, days |-> days,
                    stored |-> {}]
<1>1. /\ request' = [request EXCEPT ![r] = IF asked THEN step ELSE Idle]
      /\ UNCHANGED <<rows, log, clock>>
  BY DEF CreateGrant, Starts
<1>2. CASE asked
  <2>1. days \in Nat /\ from # to
    BY <1>2 DEF Validated, ValidDuration, DelegationAssumption
  <2>2. /\ step \in DelegationRequest /\ step.at = "path" /\ step.from = from /\ step.to = to
        /\ step.stored = {}
    BY <2>1 DEF DelegationRequest
  <2>3. request' = [request EXCEPT ![r] = step]
    BY <1>1, <1>2
  <2> HIDE DEF step
  <2>4. FoundStill(step)
    BY <2>2 DEF FoundStill
  <2>5. QED
    BY <1>1, <2>1, <2>2, <2>3, <2>4, DelegationGoesOn
<1>3. CASE ~asked
  BY <1>1, <1>3, DelegationIdle, DelegationGoesOn
<1>4. QED
  BY <1>2, <1>3

\* A path has a grant between the two themselves on it.
LEMMA PathHasTheGrant ==
    ASSUME NEW g \in Ids, Stored(g), rows[g].from \in Users
    PROVE  HasDelegationPathFromTo(rows[g].to, rows[g].from)
<1>1. \A users \in SUBSET Users :
         rows[g].to \in users /\ ClosedUpwards(users) => rows[g].from \in users
  BY DEF ClosedUpwards, GrantsTo
<1>2. QED
  BY <1>1 DEF HasDelegationPathFromTo, VisitedFrom

LEMMA PathChecked ==
    ASSUME DelegationInv, NEW r \in Requests, CheckPath(r)
    PROVE  DelegationInv'
<1> DEFINE c == request[r]
           stored == {g \in Ids : Stored(g)}
           step == [at |-> "received", from |-> c.from, to |-> c.to, scope |-> c.scope,
                    days |-> c.days, stored |-> stored]
<1>1. /\ c.at = "path" /\ UNCHANGED <<rows, log, clock>>
      /\ request' = [request EXCEPT ![r] = IF HasDelegationPathFromTo(c.to, c.from) THEN Idle
                        ELSE [c EXCEPT !.at = "received", !.stored = stored]]
  BY DEF CheckPath, GoesOn
<1>2. /\ c.from \in Users /\ c.to \in Users /\ c.scope \in Scopes /\ c.days \in Nat
      /\ c = [at |-> c.at, from |-> c.from, to |-> c.to, scope |-> c.scope,
              days |-> c.days, stored |-> c.stored]
      /\ c.from # c.to
  BY <1>1, DelegationRequests DEF DelegationInv, CreationSound
<1>3. [c EXCEPT !.at = "received", !.stored = stored] = step
  <2> DEFINE d == [at |-> "received", from |-> c.from, to |-> c.to, scope |-> c.scope,
                   days |-> c.days, stored |-> c.stored]
  <2> HIDE DEF stored
  <2>1. [c EXCEPT !.at = "received"] = d
    BY <1>2
  <2>2. [d EXCEPT !.stored = stored] = step
    OBVIOUS
  <2>3. [c EXCEPT !.at = "received", !.stored = stored] = [[c EXCEPT !.at = "received"] EXCEPT !.stored = stored]
    <3> HIDE DEF c
    <3>1. QED
      BY <1>2
  <2>4. QED
    BY <2>1, <2>2, <2>3
<1>4. CASE HasDelegationPathFromTo(c.to, c.from)
  BY <1>1, <1>4, DelegationIdle, DelegationGoesOn
<1>5. CASE ~HasDelegationPathFromTo(c.to, c.from)
  <2>1. request' = [request EXCEPT ![r] = step]
    BY <1>1, <1>3, <1>5
  <2>2. ASSUME NEW g \in stored PROVE ~(rows[g].from = c.from /\ rows[g].to = c.to)
    <3>1. g \in Ids /\ Stored(g) /\ rows[g] \in GrantRow
      BY <2>2 DEF DelegationInv, DelegationTypes, Stored
    <3>2. rows[g].from \in Users
      BY <3>1 DEF GrantRow
    <3>3. QED
      BY <1>5, <3>1, <3>2, PathHasTheGrant
  <2>3. /\ step \in DelegationRequest /\ step.at = "received" /\ step.from = c.from
        /\ step.to = c.to /\ step.stored = stored
    BY <1>2 DEF DelegationRequest
  <2>4. \A g \in stored : Stored(g)
    OBVIOUS
  <2> HIDE DEF step, c, stored
  <2>5. FoundStill(step)
    BY <1>2, <2>2, <2>3, <2>4 DEF FoundStill
  <2>6. QED
    BY <1>1, <1>2, <2>1, <2>3, <2>5, DelegationGoesOn
<1>6. QED
  BY <1>4, <1>5

LEMMA ReceivedChecked ==
    ASSUME DelegationInv, NEW r \in Requests, CheckReceived(r)
    PROVE  DelegationInv'
<1> DEFINE c == request[r]
           step == [at |-> "create", from |-> c.from, to |-> c.to, scope |-> c.scope,
                    days |-> c.days, stored |-> c.stored]
<1>1. /\ c.at = "received" /\ UNCHANGED <<rows, log, clock>>
      /\ request' = [request EXCEPT ![r] = IF HasReceivedDelegation(c.from, c.scope) THEN Idle
                        ELSE [c EXCEPT !.at = "create"]]
  BY DEF CheckReceived, GoesOn
<1>2. /\ c.from \in Users /\ c.to \in Users /\ c.scope \in Scopes /\ c.days \in Nat
      /\ c.stored \in SUBSET Ids
      /\ c = [at |-> c.at, from |-> c.from, to |-> c.to, scope |-> c.scope,
              days |-> c.days, stored |-> c.stored]
      /\ c.from # c.to /\ FoundStill(c)
  BY <1>1, DelegationRequests DEF DelegationInv, CreationSound
<1>3. [c EXCEPT !.at = "create"] = step
  BY <1>2
<1>4. CASE HasReceivedDelegation(c.from, c.scope)
  BY <1>1, <1>4, DelegationIdle, DelegationGoesOn
<1>5. CASE ~HasReceivedDelegation(c.from, c.scope)
  <2>1. request' = [request EXCEPT ![r] = step]
    BY <1>1, <1>3, <1>5
  <2>2. ASSUME NEW g \in c.stored, rows[g].to = c.from, rows[g].scope = c.scope
        PROVE  ~rows[g].active
    <3>1. g \in Ids /\ Stored(g) /\ GrantSound(g)
      BY <1>2, <2>2 DEF FoundStill, DelegationInv
    <3>2. ~(rows[g].active /\ ~rows[g].revoked)
      BY <1>5, <2>2, <3>1 DEF HasReceivedDelegation, GrantsTo
    <3>3. QED
      BY <3>1, <3>2 DEF GrantSound
  <2>3. /\ step \in DelegationRequest /\ step.at = "create" /\ step.from = c.from
        /\ step.to = c.to /\ step.stored = c.stored /\ step.scope = c.scope
    BY <1>2 DEF DelegationRequest
  <2> HIDE DEF step, c
  <2>4. FoundStill(step)
    BY <1>1, <1>2, <2>2, <2>3 DEF FoundStill
  <2>5. QED
    BY <1>1, <1>2, <2>1, <2>3, <2>4, DelegationGoesOn
<1>6. QED
  BY <1>4, <1>5

\* The grant is inserted: what was checked is what is stored, or the grant is counted as one
\* that others were created beside.
LEMMA GrantCreated ==
    ASSUME DelegationInv, NEW r \in Requests, NEW g \in Ids, NEW requiresApproval \in BOOLEAN,
           CreateEntry(r, g, requiresApproval)
    PROVE  DelegationInv'
<1> DEFINE c == request[r]
           row == NewGrant(c, requiresApproval)
           checked == c.stored = {h \in Ids : Stored(h)}
           passedOn == \E h \in GrantsTo(c.from) \ log.overtaken :
                          rows[h].scope = c.scope /\ rows[h].active
<1>1. /\ c.at = "create" /\ ~Stored(g) /\ rows' = [rows EXCEPT ![g] = row]
      /\ request' = [request EXCEPT ![r] = Idle] /\ UNCHANGED clock
      /\ log' = [log EXCEPT !.unchecked = IF checked THEN @ ELSE @ \cup {g},
                            !.redelegated = IF passedOn THEN @ \cup {g} ELSE @]
  BY DEF CreateEntry, PutRow, IsAnswered, GoesOn
<1>2. /\ c.from \in Users /\ c.to \in Users /\ c.scope \in Scopes /\ c.days \in Nat
      /\ c.stored \in SUBSET Ids /\ c.from # c.to /\ FoundStill(c)
  BY <1>1, DelegationRequests DEF DelegationInv, CreationSound
<1>3. /\ row \in GrantRow /\ row.from = c.from /\ row.to = c.to /\ ~row.revoked /\ row.active
  BY <1>2 DEF NewGrant, GrantRow, Statuses, DelegationInv, DelegationTypes
<1> HIDE DEF row, passedOn, checked
<1>4. /\ log'.ended = log.ended /\ log'.overtaken = log.overtaken /\ log'.approvals = log.approvals
      /\ log'.unchecked = (IF checked THEN log.unchecked ELSE log.unchecked \cup {g})
      /\ log'.redelegated = (IF passedOn THEN log.redelegated \cup {g} ELSE log.redelegated)
      /\ DelegationTypes'
  BY <1>1, <1>3, DelegationIdle DEF DelegationInv, DelegationTypes, DelegationLog
<1>5. /\ \A h \in Ids : rows'[h] = IF h = g THEN row ELSE rows[h]
      /\ \A q \in Requests : request'[q] = IF q = r THEN Idle ELSE request[q]
  BY <1>1 DEF DelegationInv, DelegationTypes
<1>6. ASSUME NEW q \in Requests PROVE GrantStepSound(q)' /\ CreationSound(q)'
  <2>1. CASE q = r
    BY <1>5, <2>1, DelegationIdle DEF GrantStepSound, CreationSound
  <2>2. CASE q # r
    <3>1. request'[q] = request[q] /\ GrantStepSound(q) /\ CreationSound(q)
      BY <1>5, <2>2 DEF DelegationInv
    <3>2. \A h \in Ids : Stored(h) => h # g /\ rows'[h] = rows[h]
      BY <1>1, <1>5
    <3>3. GrantStepSound(q)'
      <4>1. CASE request[q].at = "update"
        <5>1. request[q].id \in Ids /\ Stored(request[q].id)
          BY <3>1, <4>1, DelegationRequests DEF DelegationInv, GrantStepSound
        <5>2. rows'[request[q].id] = rows[request[q].id]
          BY <3>2, <5>1
        <5>3. QED
          BY <3>1, <4>1, <5>1, <5>2 DEF GrantStepSound, Stored
      <4>2. CASE request[q].at # "update"
        BY <3>1, <4>2 DEF GrantStepSound
      <4>3. QED
        BY <4>1, <4>2
    <3>4. CreationSound(q)'
      <4>1. CASE request[q].at \in {"path", "received", "create"}
        <5>1. request[q].stored \in SUBSET Ids
          BY <4>1, DelegationRequests DEF DelegationInv
        <5>2. QED
          BY <1>4, <3>1, <3>2, <4>1, <5>1 DEF CreationSound, FoundStill, Stored
      <4>2. CASE request[q].at \notin {"path", "received", "create"}
        BY <3>1, <4>2 DEF CreationSound
      <4>3. QED
        BY <4>1, <4>2
    <3>5. QED
      BY <3>3, <3>4
  <2>3. QED
    BY <2>1, <2>2
<1>7. ASSUME NEW h \in Ids PROVE GrantSound(h)'
  <2>1. CASE h = g
    <3>1. log.approvals[g] = 0 /\ g \notin log.ended
      BY <1>1 DEF DelegationInv, GrantSound
    <3>2. QED
      BY <1>3, <1>4, <1>5, <2>1, <3>1, GrantStored DEF GrantSound, Stored
  <2>2. CASE h # g
    BY <1>4, <1>5, <2>2 DEF DelegationInv, GrantSound, Stored
  <2>3. QED
    BY <2>1, <2>2
<1>8. NotPassedOn'
  <2>1. CASE checked
    <3>1. \A h \in GrantsTo(c.from) : h \in c.stored /\ rows[h].to = c.from
      BY <2>1 DEF GrantsTo, checked
    <3>2. ~passedOn
      BY <1>1, <1>2, <3>1 DEF passedOn, FoundStill
    <3>3. QED
      BY <1>4, <2>1, <3>2 DEF DelegationInv, NotPassedOn
  <2>2. CASE ~checked
    BY <1>4, <2>2 DEF DelegationInv, NotPassedOn
  <2>3. QED
    BY <2>1, <2>2
<1>9. NoRepeatedGrant'
  <2>1. ASSUME NEW h \in Ids, Stored(h), checked
        PROVE  ~(rows[h].from = c.from /\ rows[h].to = c.to)
    BY <1>1, <1>2, <2>1 DEF FoundStill, checked
  <2>2. ASSUME NEW h \in Ids, h # g, Stored(h)', g \notin log'.unchecked
        PROVE  <<rows'[h].from, rows'[h].to>> # <<rows'[g].from, rows'[g].to>>
    <3>1. Stored(h) /\ checked /\ rows'[h] = rows[h] /\ rows'[g] = row
      BY <1>4, <1>5, <2>2 DEF Stored
    <3>2. QED
      BY <1>3, <2>1, <3>1
  <2>3. ASSUME NEW h \in Ids, NEW k \in Ids, h # g, k # g, h # k, Stored(h)', Stored(k)',
               {h, k} \cap log'.unchecked = {}
        PROVE  <<rows'[h].from, rows'[h].to>> # <<rows'[k].from, rows'[k].to>>
    <3>1. Stored(h) /\ Stored(k) /\ {h, k} \cap log.unchecked = {}
      BY <1>4, <1>5, <2>3 DEF Stored
    <3>2. QED
      BY <1>5, <2>3, <3>1 DEF DelegationInv, NoRepeatedGrant
  <2>4. QED
    BY <2>2, <2>3 DEF NoRepeatedGrant
<1>10. QED
  BY <1>4, <1>6, <1>7, <1>8, <1>9 DEF DelegationInv

\* approveGrant and revokeGrant read the grant and change the copy.
LEMMA GrantRead ==
    ASSUME DelegationInv, NEW r \in Requests, NEW u \in Users, NEW g \in Ids,
           ApproveGrant(r, u, g) \/ RevokeGrant(r, u, g)
    PROVE  DelegationInv'
<1>1. PICK grant \in {Approved(rows[g]), RevokedGrant(rows[g])} :
         /\ Stored(g) /\ rows[g].active /\ UNCHANGED <<rows, log, clock>>
         /\ grant = Approved(rows[g]) => rows[g].status = "pending"
         /\ request' = [request EXCEPT ![r] = [at |-> "update", id |-> g, read |-> rows[g],
                                               grant |-> grant]]
  <2>1. CASE ApproveGrant(r, u, g)
    BY <2>1 DEF ApproveGrant, ChangeGrant, Starts, CanBeApproved
  <2>2. CASE RevokeGrant(r, u, g)
    <3>1. RevokedGrant(rows[g]) # Approved(rows[g])
      <4>1. Stored(g) /\ rows[g] \in GrantRow
        BY <2>2 DEF RevokeGrant, DelegationInv, DelegationTypes, Stored
      <4>2. RevokedGrant(rows[g]).status = "revoked" /\ Approved(rows[g]).status = "active"
        BY <4>1 DEF RevokedGrant, Approved, GrantRow
      <4>3. QED
        BY <4>2
    <3>2. QED
      BY <2>2, <3>1 DEF RevokeGrant, ChangeGrant, Starts
  <2>3. QED
    BY <2>1, <2>2
<1> DEFINE step == [at |-> "update", id |-> g, read |-> rows[g], grant |-> grant]
<1>2. rows[g] \in GrantRow /\ (rows[g].revoked => ~rows[g].active)
  BY <1>1 DEF DelegationInv, DelegationTypes, GrantSound, Stored
<1>3. /\ grant \in GrantRow /\ grant.status # "pending"
      /\ <<grant.from, grant.to, grant.scope>> = <<rows[g].from, rows[g].to, rows[g].scope>>
      /\ grant.active => grant.status = "active"
      /\ grant.status = "active" => rows[g].status = "pending"
      /\ grant.revoked => ~grant.active
  <2>1. CASE grant = Approved(rows[g])
    BY <1>1, <1>2, <2>1 DEF Approved, GrantRow, Statuses
  <2>2. CASE grant = RevokedGrant(rows[g])
    BY <1>1, <1>2, <2>2 DEF RevokedGrant, GrantRow, Statuses
  <2>3. QED
    BY <2>1, <2>2
<1>4. step \in DelegationRequest /\ step.at = "update"
  BY <1>2, <1>3 DEF DelegationRequest
<1>5. \A q \in Requests : request'[q] = IF q = r THEN step ELSE request[q]
  BY <1>1 DEF DelegationInv, DelegationTypes
<1>6. DelegationTypes'
  BY <1>1, <1>4 DEF DelegationInv, DelegationTypes
<1>7. ASSUME NEW q \in Requests PROVE GrantStepSound(q)' /\ CreationSound(q)'
  <2>1. CASE q = r
    BY <1>1, <1>3, <1>5, <2>1 DEF GrantStepSound, CreationSound, Stored
  <2>2. CASE q # r
    BY <1>1, <1>5, <2>2 DEF DelegationInv, GrantStepSound, CreationSound, FoundStill, Stored
  <2>3. QED
    BY <2>1, <2>2
<1>8. (\A h \in Ids : GrantSound(h)') /\ NotPassedOn' /\ NoRepeatedGrant'
  BY <1>1 DEF DelegationInv, GrantSound, NotPassedOn, NoRepeatedGrant, Stored
<1>9. QED
  BY <1>6, <1>7, <1>8 DEF DelegationInv

\* Rows that change and keep their users and scopes, and come into force only by a write that
\* overtakes another: what creations found stays, and what is stored stays apart.
LEMMA GrantsKept ==
    ASSUME DelegationInv, DelegationTypes', log'.unchecked = log.unchecked,
           log'.redelegated = log.redelegated, log.overtaken \subseteq log'.overtaken,
           \A g \in Ids :
              /\ Stored(g)' <=> Stored(g)
              /\ Stored(g) => /\ rows'[g].from = rows[g].from /\ rows'[g].to = rows[g].to
                              /\ rows'[g].scope = rows[g].scope
                              /\ g \in log'.overtaken \/ (rows'[g].active => rows[g].active),
           \A q \in Requests : request'[q] = request[q] \/ request'[q] = Idle
    PROVE  /\ \A q \in Requests : GrantStepSound(q)' /\ CreationSound(q)'
           /\ NotPassedOn' /\ NoRepeatedGrant'
<1>1. ASSUME NEW q \in Requests PROVE GrantStepSound(q)' /\ CreationSound(q)'
  <2>1. CASE request'[q] = Idle
    BY <2>1, DelegationIdle DEF GrantStepSound, CreationSound
  <2>2. CASE request'[q] = request[q]
    <3>1. GrantStepSound(q) /\ CreationSound(q)
      BY DEF DelegationInv
    <3>2. GrantStepSound(q)'
      <4>1. CASE request[q].at = "update"
        <5>1. request[q].id \in Ids /\ Stored(request[q].id)
          BY <3>1, <4>1, DelegationRequests DEF DelegationInv, GrantStepSound
        <5>2. /\ rows'[request[q].id] # NoRow
              /\ rows'[request[q].id].from = rows[request[q].id].from
              /\ rows'[request[q].id].to = rows[request[q].id].to
              /\ rows'[request[q].id].scope = rows[request[q].id].scope
          BY <5>1 DEF Stored
        <5>3. QED
          BY <2>2, <3>1, <4>1, <5>2 DEF GrantStepSound, Stored
      <4>2. CASE request[q].at # "update"
        BY <2>2, <4>2 DEF GrantStepSound
      <4>3. QED
        BY <4>1, <4>2
    <3>3. CASE request[q].at \in {"path", "received", "create"}
      <4>1. request[q].stored \in SUBSET Ids /\ FoundStill(request[q]) /\ request[q].from # request[q].to
        BY <3>1, <3>3, DelegationRequests DEF DelegationInv, CreationSound
      <4>2. \A g \in request[q].stored : Stored(g) /\ Stored(g)'
        BY <4>1 DEF FoundStill
      <4>3. \A g \in request[q].stored :
               /\ rows'[g].from = rows[g].from /\ rows'[g].to = rows[g].to
               /\ rows'[g].scope = rows[g].scope
               /\ g \notin log'.overtaken => g \notin log.overtaken /\ (rows'[g].active => rows[g].active)
        BY <4>1, <4>2
      <4>4. FoundStill(request[q])'
        BY <2>2, <4>1, <4>2, <4>3 DEF FoundStill
      <4>5. QED
        BY <2>2, <3>2, <4>1, <4>4 DEF CreationSound
    <3>4. CASE request[q].at \notin {"path", "received", "create"}
      BY <2>2, <3>2, <3>4 DEF CreationSound
    <3>5. QED
      BY <3>3, <3>4
  <2>3. QED
    BY <2>1, <2>2
<1>2. NotPassedOn' /\ NoRepeatedGrant'
  BY DEF DelegationInv, NotPassedOn, NoRepeatedGrant
<1>3. QED
  BY <1>1, <1>2

LEMMA GrantUpdated ==
    ASSUME DelegationInv, NEW r \in Requests, UpdateGrant(r)
    PROVE  DelegationInv'
<1> DEFINE c == request[r]
           i == c.id
<1>1. /\ c.at = "update" /\ rows' = [rows EXCEPT ![i] = c.grant]
      /\ request' = [request EXCEPT ![r] = Idle] /\ UNCHANGED clock
      /\ log' = [log EXCEPT !.ended = IF c.grant.active THEN @ ELSE @ \cup {i},
                            !.overtaken = OvertakenBy(i, c.read),
                            !.approvals[i] = IF c.grant.status = "active" THEN @ + 1 ELSE @]
  BY DEF UpdateGrant, WrittenGrant, PutRow, IsAnswered, GoesOn
<1>2. /\ i \in Ids /\ c.read \in GrantRow /\ c.grant \in GrantRow /\ GrantStepSound(r)
      /\ Stored(i) /\ rows[i] \in GrantRow /\ GrantSound(i)
  BY <1>1, DelegationRequests DEF DelegationInv, DelegationTypes, GrantStepSound, Stored
<1>3. /\ c.read.active /\ c.grant.status # "pending" /\ c.grant.from = rows[i].from
      /\ c.grant.to = rows[i].to /\ c.grant.scope = rows[i].scope
      /\ c.grant.status = "active" => c.read.status = "pending"
      /\ c.grant.revoked => ~c.grant.active
  BY <1>1, <1>2 DEF GrantStepSound
<1> DEFINE grant == c.grant
           read == c.read
<1>4. grant = c.grant /\ read = c.read
  OBVIOUS
<1> HIDE DEF c, i, grant, read
<1>5. /\ log'.ended = (IF grant.active THEN log.ended ELSE log.ended \cup {i})
      /\ log'.overtaken = OvertakenBy(i, read)
      /\ log'.unchecked = log.unchecked /\ log'.redelegated = log.redelegated
      /\ \A g \in Ids : log'.approvals[g] =
            IF g = i /\ grant.status = "active" THEN log.approvals[g] + 1 ELSE log.approvals[g]
      /\ log.overtaken \subseteq log'.overtaken
      /\ i \notin log'.overtaken => i \notin log.overtaken /\ rows[i] = read
      /\ \A g \in Ids : g # i => (g \in log'.overtaken <=> g \in log.overtaken)
      /\ log' \in DelegationLog
  <2> DEFINE ended == IF grant.active THEN log.ended ELSE log.ended \cup {i}
             overtaken == OvertakenBy(i, read)
             more == IF grant.status = "active" THEN log.approvals[i] + 1 ELSE log.approvals[i]
  <2>1. log \in DelegationLog
    BY DEF DelegationInv, DelegationTypes
  <2>2. log' = [log EXCEPT !.ended = ended, !.overtaken = overtaken, !.approvals[i] = more]
    BY <1>1, <1>4
  <2>3. more \in Nat /\ ended \in SUBSET Ids
    BY <1>2, <2>1 DEF DelegationLog
  <2>4. /\ log.overtaken \subseteq overtaken /\ overtaken \in SUBSET Ids
        /\ i \notin overtaken => i \notin log.overtaken /\ rows[i] = read
        /\ \A g \in Ids : g # i => (g \in overtaken <=> g \in log.overtaken)
    BY <1>2, <2>1 DEF DelegationLog, OvertakenBy
  <2> HIDE DEF ended, overtaken, more
  <2>5. /\ log'.ended = ended /\ log'.overtaken = overtaken
        /\ log'.unchecked = log.unchecked /\ log'.redelegated = log.redelegated
        /\ log'.approvals = [log.approvals EXCEPT ![i] = more] /\ log' \in DelegationLog
    BY <1>2, <2>1, <2>2, <2>3, <2>4 DEF DelegationLog
  <2>6. \A g \in Ids : log'.approvals[g] = IF g = i THEN more ELSE log.approvals[g]
    BY <1>2, <2>1, <2>5 DEF DelegationLog
  <2>7. QED
    BY <2>4, <2>5, <2>6 DEF ended, overtaken, more
<1>6. \A g \in Ids : rows'[g] = IF g = i THEN grant ELSE rows[g]
  BY <1>1, <1>4 DEF DelegationInv, DelegationTypes
<1>7. \A q \in Requests : request'[q] = request[q] \/ request'[q] = Idle
  BY <1>1 DEF DelegationInv, DelegationTypes
<1>8. DelegationTypes'
  BY <1>1, <1>2, <1>4, <1>5, DelegationIdle DEF DelegationInv, DelegationTypes
<1>9. \A g \in Ids :
         /\ Stored(g)' <=> Stored(g)
         /\ Stored(g) => /\ rows'[g].from = rows[g].from /\ rows'[g].to = rows[g].to
                         /\ rows'[g].scope = rows[g].scope
                         /\ g \in log'.overtaken \/ (rows'[g].active => rows[g].active)
  BY <1>2, <1>3, <1>4, <1>5, <1>6, GrantStored DEF Stored
<1>10. ASSUME NEW g \in Ids PROVE GrantSound(g)'
  <2>1. CASE g = i
    <3>1. rows'[g] = grant /\ Stored(g)'
      BY <1>6, <1>9, <1>2, <2>1
    <3>2. log.approvals[i] \in Nat
      BY <1>2 DEF DelegationInv, DelegationTypes, DelegationLog
    <3>3. ASSUME g \notin log'.overtaken
          PROVE  /\ g \in log'.ended => ~grant.active
                 /\ log'.approvals[g] <= 1
      <4>1. i \notin log.overtaken /\ rows[i] = read /\ rows[i].active
        BY <1>3, <1>4, <1>5, <2>1, <3>3
      <4>2. i \notin log.ended /\ log.approvals[i] <= 1
        BY <1>2, <4>1 DEF GrantSound
      <4>3. grant.status = "active" => log.approvals[i] = 0
        BY <1>2, <1>3, <1>4, <4>1 DEF GrantSound
      <4>4. QED
        BY <1>2, <1>5, <2>1, <3>2, <4>2, <4>3
    <3>4. QED
      BY <1>3, <1>4, <3>1, <3>3 DEF GrantSound
  <2>2. CASE g # i
    <3>1. /\ GrantSound(g) /\ rows'[g] = rows[g] /\ log'.approvals[g] = log.approvals[g]
          /\ (g \in log'.ended <=> g \in log.ended) /\ (g \in log'.overtaken <=> g \in log.overtaken)
      BY <1>5, <1>6, <2>2 DEF DelegationInv
    <3>2. QED
      BY <3>1 DEF GrantSound, Stored
  <2>3. QED
    BY <2>1, <2>2
<1>11. QED
  BY <1>5, <1>7, <1>8, <1>9, <1>10, GrantsKept DEF DelegationInv

LEMMA GrantsExpired ==
    ASSUME DelegationInv, CheckExpiration
    PROVE  DelegationInv'
<1>1. /\ log' = [log EXCEPT !.ended = @ \cup Over] /\ UNCHANGED <<request, clock>>
      /\ rows' = [g \in Ids |-> IF g \in Over
                                THEN [rows[g] EXCEPT !.active = FALSE, !.status = "expired"]
                                ELSE rows[g]]
  BY DEF CheckExpiration
<1>2. \A g \in Over : g \in Ids /\ Stored(g) /\ rows[g] \in GrantRow
  BY DEF Over, DelegationInv, DelegationTypes, Stored
<1>3. \A g \in Over : /\ rows'[g] \in GrantRow /\ ~rows'[g].active /\ rows'[g].status = "expired"
                      /\ rows'[g].from = rows[g].from /\ rows'[g].to = rows[g].to
                      /\ rows'[g].scope = rows[g].scope
  BY <1>1, <1>2 DEF GrantRow, Statuses
<1>4. \A g \in Ids \ Over : rows'[g] = rows[g]
  BY <1>1
<1>5. /\ log'.ended = log.ended \cup Over /\ log'.overtaken = log.overtaken
      /\ log'.unchecked = log.unchecked /\ log'.redelegated = log.redelegated
      /\ log'.approvals = log.approvals /\ log' \in DelegationLog
  BY <1>1, <1>2 DEF DelegationInv, DelegationTypes, DelegationLog
<1>6. DelegationTypes'
  <2>1. \A g \in Ids : rows'[g] \in GrantRow \cup {NoRow}
    BY <1>3, <1>4 DEF DelegationInv, DelegationTypes
  <2>2. rows' \in [Ids -> GrantRow \cup {NoRow}]
    BY <1>1, <2>1
  <2>3. QED
    BY <1>1, <1>5, <2>2 DEF DelegationInv, DelegationTypes
<1>7. \A g \in Ids :
         /\ Stored(g)' <=> Stored(g)
         /\ Stored(g) => /\ rows'[g].from = rows[g].from /\ rows'[g].to = rows[g].to
                         /\ rows'[g].scope = rows[g].scope
                         /\ g \in log'.overtaken \/ (rows'[g].active => rows[g].active)
  BY <1>2, <1>3, <1>4, GrantStored DEF Stored
<1>8. ASSUME NEW g \in Ids PROVE GrantSound(g)'
  <2>1. CASE g \in Over
    <3>1. GrantSound(g) /\ Stored(g) /\ Stored(g)'
      BY <1>2, <1>7, <2>1 DEF DelegationInv
    <3>2. QED
      BY <1>3, <1>5, <2>1, <3>1 DEF GrantSound
  <2>2. CASE g \notin Over
    BY <1>4, <1>5, <2>2 DEF DelegationInv, GrantSound, Stored
  <2>3. QED
    BY <2>1, <2>2
<1>9. QED
  BY <1>1, <1>5, <1>6, <1>7, <1>8, GrantsKept DEF DelegationInv

LEMMA DelegationStep ==
    ASSUME DelegationAssumption, DelegationInv, [DelegationNext]_aggregateVars
    PROVE  DelegationInv'
<1>1. CASE StopProcess \/ Tick \/ UNCHANGED aggregateVars
  <2>1. /\ UNCHANGED <<rows, log>> /\ clock' \in Nat
        /\ request' = request \/ request' = [r \in Requests |-> Idle]
    BY <1>1 DEF StopProcess, Tick, aggregateVars, DelegationInv, DelegationTypes
  <2>2. DelegationTypes' /\ \A q \in Requests : request'[q] = request[q] \/ request'[q] = Idle
    BY <2>1, DelegationIdle DEF DelegationInv, DelegationTypes
  <2>3. \A g \in Ids : GrantSound(g)' /\ (Stored(g)' <=> Stored(g))
    BY <2>1 DEF DelegationInv, GrantSound, Stored
  <2>4. QED
    BY <2>1, <2>2, <2>3, GrantsKept DEF DelegationInv
<1>2. QED
  BY <1>1, GrantAsked, PathChecked, ReceivedChecked, GrantCreated, GrantRead, GrantUpdated,
     GrantsExpired DEF DelegationNext

LEMMA DelegationHolds ==
    ASSUME DelegationInv PROVE DelegationTypeOK /\ DelegationSound
BY DEF DelegationInv, DelegationTypes, DelegationTypeOK, DelegationSound, EndedGrantsStay, GrantSound

\* However grants are created, approved, revoked and expire at the same time: a grant that ended
\* is not in force again and is approved once, nobody passes on what was delegated to them, and
\* nobody delegates to one user twice, unless two changes of a grant overlapped or it was created
\* while others were (delegation-service.ts, grant-entry.ts and the policies).
THEOREM GrantsAreSound ==
    ASSUME DelegationAssumption
    PROVE  DelegationSpec => [](DelegationTypeOK /\ DelegationSound)
<1>1. DelegationInv /\ [DelegationNext]_aggregateVars => DelegationInv'
  BY DelegationStep
<1>2. QED
  BY <1>1, DelegationInitially, DelegationHolds, PTL DEF DelegationSpec


-----------------------------------------------------------------------------
(* Vocabulary *)

VocabularyAssumption == IsFiniteSet(Requests) /\ TermValues \subseteq Ids

VocabularyRequest ==
    {Idle}
    \cup [at : {"announce", "deprecate", "announceDeprecated"}, id : Ids]
    \cup [at : {"labels"}, id : Ids, fr : Given, en : Given, read : VocabRow]

Answer(i) == [id |-> i, found |-> i \in Listed]

VocabularyLog ==
    [added : SUBSET Ids, deprecations : [Ids -> Nat], resolved : SUBSET {Answer(i) : i \in Ids}]

VocabularyTypes ==
    /\ rows \in [Ids -> VocabRow \cup {NoRow}]
    /\ request \in [Requests -> VocabularyRequest]
    /\ log \in VocabularyLog

\* The requests that are about to deprecate a value, or to announce that it is deprecated
Deprecating(i) ==
    {r \in Requests : request[r].at \in {"deprecate", "announceDeprecated"} /\ request[r].id = i}

\* A request goes on with a row that is there.
VocabularyStepSound(r) ==
    LET c == request[r] IN
    /\ c.at \in {"labels", "deprecate", "announceDeprecated"} => Stored(c.id)
    /\ c.at = "announceDeprecated" => rows[c.id].deprecated
    /\ c.at = "labels" => LabelsPass(c.fr, c.en)

\* Both labels of a row are given; and a value is announced as deprecated, now or later, for
\* each request that read it before it was.
VocabularySound ==
    /\ \A r \in Requests : VocabularyStepSound(r)
    /\ \A i \in Ids :
          /\ Stored(i) => BothGiven(rows[i].fr, rows[i].en)
          /\ log.deprecations[i] > 0 => Stored(i) /\ rows[i].deprecated
          /\ log.deprecations[i] + Cardinality(Deprecating(i)) <= Cardinality(Requests)

VocabularyInv == VocabularyTypes /\ VocabularySound

LEMMA VocabularyStored == \A row \in VocabRow : row # NoRow
<1>1. \A row \in VocabRow : "deprecated" \in DOMAIN row
  BY DEF VocabRow
<1>2. "deprecated" \notin DOMAIN NoRow
  BY DEF NoRow
<1>3. QED
  BY <1>1, <1>2

LEMMA VocabularyIdle == Idle \in VocabularyRequest /\ Idle.at = "idle"
  BY DEF VocabularyRequest, Idle

\* The requests at work on a value are some of the requests, so they can be counted.
LEMMA DeprecatingCounted ==
    ASSUME VocabularyAssumption, NEW i \in Ids
    PROVE  /\ IsFiniteSet(Deprecating(i)) /\ Cardinality(Deprecating(i)) \in Nat
           /\ Cardinality(Requests) \in Nat
           /\ Cardinality(Deprecating(i)) <= Cardinality(Requests)
<1>1. Deprecating(i) \subseteq Requests
  BY DEF Deprecating
<1>2. IsFiniteSet(Requests)
  BY DEF VocabularyAssumption
<1>3. QED
  BY <1>1, <1>2, FS_Subset, FS_CardinalityType

LEMMA VocabularyRequests ==
    ASSUME VocabularyTypes, NEW r \in Requests, request[r] # Idle
    PROVE  LET c == request[r] IN
           /\ c.id \in Ids /\ c \in VocabularyRequest
           /\ c.at \in {"announce", "deprecate", "announceDeprecated", "labels"}
           /\ c.at = "labels" => c.fr \in Given /\ c.en \in Given /\ c.read \in VocabRow
<1>1. request[r] \in VocabularyRequest
  BY DEF VocabularyTypes
<1>2. QED
  BY <1>1 DEF VocabularyRequest

LEMMA VocabularyInitially ==
    ASSUME VocabularyAssumption, VocabularyInit PROVE VocabularyInv
<1> USE DEF VocabularyInit
<1>1. VocabularyTypes
  <2>1. Seeded \in VocabRow
    BY DEF Seeded, VocabRow, Labels
  <2>2. rows \in [Ids -> VocabRow \cup {NoRow}]
    BY <2>1
  <2>3. log \in VocabularyLog
    BY DEF VocabularyLog
  <2>4. request \in [Requests -> VocabularyRequest]
    BY VocabularyIdle
  <2>5. QED
    BY <2>2, <2>3, <2>4 DEF VocabularyTypes
<1>2. \A r \in Requests : request[r] = Idle
  OBVIOUS
<1>3. \A i \in Ids : log.deprecations[i] = 0 /\ (Stored(i) => BothGiven(rows[i].fr, rows[i].en))
  BY DEF Stored, Seeded, BothGiven, Labels
<1>4. ASSUME NEW i \in Ids
      PROVE  log.deprecations[i] + Cardinality(Deprecating(i)) <= Cardinality(Requests)
  BY <1>3, DeprecatingCounted
<1>5. QED
  BY <1>1, <1>2, <1>3, <1>4, VocabularyIdle DEF VocabularyInv, VocabularySound, VocabularyStepSound

\* A request that starts or ends, and changes neither rows nor what was announced
LEMMA VocabularyGoesOn ==
    ASSUME VocabularyAssumption, VocabularyInv, NEW r \in Requests, NEW step \in VocabularyRequest,
           step.at # "announceDeprecated",
           step.at \in {"labels", "deprecate"} => Stored(step.id),
           step.at = "deprecate" => ~rows[step.id].deprecated,
           step.at = "labels" => LabelsPass(step.fr, step.en),
           request' = [request EXCEPT ![r] = step], UNCHANGED rows,
           log'.deprecations = log.deprecations,
           log' \in VocabularyLog
    PROVE  VocabularyInv'
<1>1. \A q \in Requests : request'[q] = IF q = r THEN step ELSE request[q]
  BY DEF VocabularyInv, VocabularyTypes, VocabularyLog
<1>2. VocabularyTypes'
  BY DEF VocabularyInv, VocabularyTypes, VocabularyLog
<1>3. ASSUME NEW i \in Ids
      PROVE  log.deprecations[i] + Cardinality(Deprecating(i)') <= Cardinality(Requests)
  <2>1. Cardinality(Deprecating(i)) \in Nat /\ Cardinality(Requests) \in Nat /\ log.deprecations[i] \in Nat
    BY <1>3, DeprecatingCounted DEF VocabularyInv, VocabularyTypes, VocabularyLog
  <2>2. /\ IsFiniteSet(Deprecating(i)) /\ IsFiniteSet(Requests)
        /\ Deprecating(i)' \subseteq Requests
    BY <1>3, DeprecatingCounted DEF VocabularyAssumption, Deprecating
  <2>3. CASE step.at = "deprecate" /\ step.id = i
    <3>1. log.deprecations[i] = 0
      BY <1>3, <2>1, <2>3 DEF VocabularyInv, VocabularySound, VocabularyStepSound
    <3>2. Cardinality(Deprecating(i)') <= Cardinality(Requests) /\ Cardinality(Deprecating(i)') \in Nat
      BY <2>2, FS_Subset, FS_CardinalityType
    <3>3. QED
      BY <2>1, <3>1, <3>2
  <2>4. CASE ~(step.at = "deprecate" /\ step.id = i)
    <3>1. Deprecating(i)' \subseteq Deprecating(i)
      BY <1>1, <2>4 DEF Deprecating
    <3>2. Cardinality(Deprecating(i)') <= Cardinality(Deprecating(i)) /\ Cardinality(Deprecating(i)') \in Nat
      BY <2>2, <3>1, FS_Subset, FS_CardinalityType
    <3>3. log.deprecations[i] + Cardinality(Deprecating(i)) <= Cardinality(Requests)
      BY <1>3 DEF VocabularyInv, VocabularySound, VocabularyStepSound
    <3>4. QED
      BY <2>1, <3>2, <3>3
  <2>5. QED
    BY <2>3, <2>4
<1>4. ASSUME NEW q \in Requests PROVE VocabularyStepSound(q)'
  <2>1. CASE q = r
    BY <1>1, <2>1, VocabularyIdle DEF VocabularyStepSound, Stored
  <2>2. CASE q # r
    BY <1>1, <2>2 DEF VocabularyInv, VocabularySound, VocabularyStepSound, Stored
  <2>3. QED
    BY <2>1, <2>2
<1>5. QED
  BY <1>2, <1>3, <1>4 DEF VocabularyInv, VocabularySound, VocabularyStepSound, Stored, LabelsPass

\* A row that is written: its labels stay given, and it does not stop being deprecated.
LEMMA VocabularyWritten ==
    ASSUME VocabularyAssumption, VocabularyInv, NEW r \in Requests, NEW i \in Ids, Stored(i),
           NEW row \in VocabRow, BothGiven(row.fr, row.en), rows[i].deprecated => row.deprecated,
           NEW step \in VocabularyRequest,
           \/ step = Idle
           \/ step = [at |-> "announceDeprecated", id |-> i] /\ row.deprecated
              /\ request[r] = [at |-> "deprecate", id |-> i],
           rows' = [rows EXCEPT ![i] = row], request' = [request EXCEPT ![r] = step],
           UNCHANGED log
    PROVE  VocabularyInv'
<1>1. /\ \A q \in Requests : request'[q] = IF q = r THEN step ELSE request[q]
      /\ \A j \in Ids : rows'[j] = IF j = i THEN row ELSE rows[j]
      /\ \A j \in Ids : Stored(j)' <=> Stored(j)
  BY VocabularyStored DEF VocabularyInv, VocabularyTypes, Stored
<1>2. VocabularyTypes'
  BY DEF VocabularyInv, VocabularyTypes, VocabularyLog
<1>3. ASSUME NEW j \in Ids
      PROVE  log.deprecations[j] + Cardinality(Deprecating(j)') <= Cardinality(Requests)
  <2>1. Deprecating(j)' \subseteq Deprecating(j)
    BY <1>1, VocabularyIdle DEF Deprecating
  <2>2. IsFiniteSet(Deprecating(j)) /\ Cardinality(Deprecating(j)) \in Nat /\ Cardinality(Requests) \in Nat
    BY DeprecatingCounted
  <2>3. Cardinality(Deprecating(j)') <= Cardinality(Deprecating(j)) /\ Cardinality(Deprecating(j)') \in Nat
    BY <2>1, <2>2, FS_Subset, FS_CardinalityType
  <2>4. log.deprecations[j] + Cardinality(Deprecating(j)) <= Cardinality(Requests) /\ log.deprecations[j] \in Nat
    BY DEF VocabularyInv, VocabularySound, VocabularyStepSound, VocabularyTypes, VocabularyLog
  <2>5. QED
    BY <2>2, <2>3, <2>4
<1>4. ASSUME NEW q \in Requests PROVE VocabularyStepSound(q)'
  <2>1. CASE q = r /\ step = Idle
    BY <1>1, <2>1, VocabularyIdle DEF VocabularyStepSound
  <2>2. CASE q = r /\ step = [at |-> "announceDeprecated", id |-> i] /\ row.deprecated
    <3>1. request'[q] = step /\ Stored(i)' /\ rows'[i].deprecated
      BY <1>1, <2>2
    <3>2. QED
      BY <2>2, <3>1 DEF VocabularyStepSound, Stored
  <2>3. CASE q # r /\ request[q] = Idle
    BY <1>1, <2>3, VocabularyIdle DEF VocabularyStepSound
  <2>4. CASE q # r /\ request[q] # Idle
    <3>1. request'[q] = request[q] /\ request[q].id \in Ids /\ VocabularyStepSound(q)
      BY <1>1, <2>4, VocabularyRequests DEF VocabularyInv, VocabularySound, VocabularyStepSound
    <3>2. /\ Stored(request[q].id) => rows'[request[q].id] # NoRow
          /\ rows[request[q].id].deprecated => rows'[request[q].id].deprecated
      BY <1>1, <3>1 DEF Stored
    <3>3. QED
      BY <3>1, <3>2 DEF VocabularyStepSound, Stored
  <2>5. QED
    BY <2>1, <2>2, <2>3, <2>4
<1>5. \A j \in Ids : /\ Stored(j)' => BothGiven(rows'[j].fr, rows'[j].en)
                     /\ log.deprecations[j] > 0 => Stored(j)' /\ rows'[j].deprecated
  BY <1>1 DEF VocabularyInv, VocabularySound, VocabularyStepSound
<1>6. QED
  <2>1. log' = log /\ \A j \in Ids : Deprecating(j)' = Deprecating(j)'
    OBVIOUS
  <2>2. QED
    BY <1>2, <1>3, <1>4, <1>5, <2>1 DEF VocabularyInv, VocabularySound, VocabularyStepSound, LabelsPass, BothGiven, Stored

LEMMA VocabularyAnnounced ==
    ASSUME VocabularyAssumption, VocabularyInv, NEW r \in Requests, AnnounceDeprecated(r)
    PROVE  VocabularyInv'
<1> DEFINE i == request[r].id
<1>1. /\ i \in Ids /\ request[r].at = "announceDeprecated" /\ Stored(i) /\ rows[i].deprecated
      /\ log' = [log EXCEPT !.deprecations[i] = @ + 1]
      /\ request' = [request EXCEPT ![r] = Idle] /\ UNCHANGED rows
  BY VocabularyRequests, VocabularyIdle
     DEF AnnounceDeprecated, IsAnswered, GoesOn, VocabularyInv, VocabularySound, VocabularyStepSound
<1>2. r \in Deprecating(i)
  BY <1>1 DEF Deprecating
<1> HIDE DEF i
<1>3. /\ \A q \in Requests : request'[q] = IF q = r THEN Idle ELSE request[q]
      /\ log'.deprecations = [log.deprecations EXCEPT ![i] = @ + 1]
      /\ VocabularyTypes'
  BY <1>1, VocabularyIdle DEF VocabularyInv, VocabularyTypes, VocabularyLog
<1>4. ASSUME NEW j \in Ids
      PROVE  /\ log'.deprecations[j] + Cardinality(Deprecating(j)') <= Cardinality(Requests)
             /\ log'.deprecations[j] > 0 => Stored(j) /\ rows[j].deprecated
  <2>1. /\ IsFiniteSet(Deprecating(j)) /\ Cardinality(Deprecating(j)) \in Nat
        /\ Cardinality(Requests) \in Nat /\ log.deprecations[j] \in Nat
        /\ log.deprecations[j] + Cardinality(Deprecating(j)) <= Cardinality(Requests)
        /\ log.deprecations[j] > 0 => Stored(j) /\ rows[j].deprecated
    BY <1>4, DeprecatingCounted DEF VocabularyInv, VocabularyTypes, VocabularySound, VocabularyStepSound, VocabularyLog
  <2>2. CASE j = i
    <3>1. Deprecating(j)' = Deprecating(j) \ {r}
      BY <1>3, VocabularyIdle DEF Deprecating
    <3>2. Cardinality(Deprecating(j)') = Cardinality(Deprecating(j)) - 1
      BY <1>2, <2>1, <2>2, <3>1, FS_RemoveElement
    <3>3. log'.deprecations[j] = log.deprecations[j] + 1
      BY <1>1, <1>3, <2>2 DEF VocabularyInv, VocabularyTypes, VocabularyLog
    <3>4. QED
      BY <1>1, <2>1, <2>2, <3>2, <3>3
  <2>3. CASE j # i
    <3>1. Deprecating(j)' = Deprecating(j)
      BY <1>1, <1>3, <2>3, VocabularyIdle DEF Deprecating, i
    <3>2. log'.deprecations[j] = log.deprecations[j]
      BY <1>1, <1>3, <2>3 DEF VocabularyInv, VocabularyTypes, VocabularyLog
    <3>3. QED
      BY <2>1, <3>1, <3>2
  <2>4. QED
    BY <2>2, <2>3
<1>5. QED
  BY <1>1, <1>3, <1>4, VocabularyIdle DEF VocabularyInv, VocabularySound, VocabularyStepSound, LabelsPass, BothGiven, Stored

LEMMA VocabularyStep ==
    ASSUME VocabularyAssumption, VocabularyInv, [VocabularyNext]_aggregateVars
    PROVE  VocabularyInv'
<1> USE DEF Starts, StartsAndEnds, GoesOn, IsAnswered
<1>1. ASSUME NEW r \in Requests, NEW t \in Ids \ TermValues, NEW v \in TermValues,
             NEW fr \in {"empty", "fits"}, NEW en \in {"empty", "fits"}, AddTermValue(r, t, v, fr, en)
      PROVE  VocabularyInv'
  <2> DEFINE step == IF BothGiven(fr, en) /\ Stored(t) THEN [at |-> "announce", id |-> v] ELSE Idle
  <2>1. step \in VocabularyRequest /\ step.at \in {"idle", "announce"}
    BY VocabularyIdle DEF VocabularyRequest, VocabularyAssumption
  <2>2. request' = [request EXCEPT ![r] = step] /\ UNCHANGED <<rows, log>>
    BY <1>1 DEF AddTermValue
  <2> HIDE DEF step
  <2>3. QED
    BY <2>1, <2>2, VocabularyGoesOn DEF VocabularyInv, VocabularyTypes, VocabularyLog
<1>2. ASSUME NEW r \in Requests, AnnounceAdded(r) PROVE VocabularyInv'
  <2>1. /\ request' = [request EXCEPT ![r] = Idle] /\ UNCHANGED rows
        /\ log'.deprecations = log.deprecations
        /\ log' \in VocabularyLog
    BY <1>2, VocabularyRequests, VocabularyIdle
       DEF AnnounceAdded, VocabularyInv, VocabularyTypes, VocabularyLog
  <2>2. QED
    BY <2>1, VocabularyIdle, VocabularyGoesOn
<1>3. ASSUME NEW r \in Requests, NEW i \in Ids, NEW fr \in Given, NEW en \in Given,
             UpdateLabel(r, i, fr, en)
      PROVE  VocabularyInv'
  <2> DEFINE step == IF Stored(i) /\ LabelsPass(fr, en)
                     THEN [at |-> "labels", id |-> i, fr |-> fr, en |-> en, read |-> rows[i]] ELSE Idle
  <2>1. /\ step \in VocabularyRequest /\ step.at \in {"idle", "labels"}
        /\ step.at = "labels" => Stored(step.id) /\ LabelsPass(step.fr, step.en)
    BY VocabularyIdle DEF VocabularyRequest, VocabularyInv, VocabularyTypes, Stored
  <2>2. request' = [request EXCEPT ![r] = step] /\ UNCHANGED <<rows, log>>
    BY <1>3 DEF UpdateLabel
  <2> HIDE DEF step
  <2>3. QED
    BY <2>1, <2>2, VocabularyGoesOn DEF VocabularyInv, VocabularyTypes, VocabularyLog
<1>4. ASSUME NEW r \in Requests, UpdateLabels(r) PROVE VocabularyInv'
  <2> DEFINE c == request[r]
             row == [rows[c.id] EXCEPT !.fr = IF c.fr = "absent" THEN @ ELSE c.fr,
                                       !.en = IF c.en = "absent" THEN @ ELSE c.en]
  <2>1. /\ c.at = "labels" /\ rows' = [rows EXCEPT ![c.id] = row]
        /\ request' = [request EXCEPT ![r] = Idle] /\ UNCHANGED log
    BY <1>4 DEF UpdateLabels, SetColumns, PutRow
  <2>2. /\ c.id \in Ids /\ c.fr \in Given /\ c.en \in Given /\ Stored(c.id) /\ LabelsPass(c.fr, c.en)
        /\ BothGiven(rows[c.id].fr, rows[c.id].en) /\ rows[c.id] \in VocabRow
    BY <2>1, VocabularyRequests, VocabularyIdle
       DEF VocabularyInv, VocabularySound, VocabularyStepSound, VocabularyTypes, Stored
  <2>3. /\ row \in VocabRow /\ BothGiven(row.fr, row.en) /\ row.deprecated = rows[c.id].deprecated
    BY <2>2 DEF VocabRow, Given, Labels, LabelsPass, BothGiven
  <2> HIDE DEF row, c
  <2>4. QED
    BY <2>1, <2>2, <2>3, VocabularyIdle, VocabularyWritten
<1>5. ASSUME NEW r \in Requests, NEW i \in TermValues, DeprecateTermValue(r, i) PROVE VocabularyInv'
  <2> DEFINE step == IF Stored(i) /\ CanDeprecate(rows[i]) THEN [at |-> "deprecate", id |-> i] ELSE Idle
  <2>1. /\ step \in VocabularyRequest /\ step.at \in {"idle", "deprecate"}
        /\ step.at = "deprecate" => Stored(step.id) /\ ~rows[step.id].deprecated
    BY VocabularyIdle DEF VocabularyRequest, VocabularyAssumption, CanDeprecate
  <2>2. request' = [request EXCEPT ![r] = step] /\ UNCHANGED <<rows, log>>
    BY <1>5 DEF DeprecateTermValue
  <2> HIDE DEF step
  <2>3. QED
    BY <2>1, <2>2, VocabularyGoesOn DEF VocabularyInv, VocabularyTypes, VocabularyLog
<1>6. ASSUME NEW r \in Requests, Deprecate(r) PROVE VocabularyInv'
  <2> DEFINE i == request[r].id
             row == [rows[i] EXCEPT !.deprecated = TRUE]
             step == [at |-> "announceDeprecated", id |-> i]
  <2>1. /\ request[r].at = "deprecate" /\ rows' = [rows EXCEPT ![i] = row]
        /\ request' = [request EXCEPT ![r] = step] /\ UNCHANGED log
    BY <1>6 DEF Deprecate, PutRow
  <2>2. /\ i \in Ids /\ Stored(i) /\ rows[i] \in VocabRow /\ BothGiven(rows[i].fr, rows[i].en)
    BY <2>1, VocabularyRequests, VocabularyIdle
       DEF VocabularyInv, VocabularySound, VocabularyStepSound, VocabularyTypes, Stored
  <2>3. request[r] = [at |-> "deprecate", id |-> i]
    <3>1. request[r] \in VocabularyRequest
      BY DEF VocabularyInv, VocabularyTypes, VocabularyLog
    <3>2. QED
      BY <2>1, <3>1, VocabularyIdle DEF VocabularyRequest
  <2>4. row \in VocabRow /\ row.fr = rows[i].fr /\ row.en = rows[i].en /\ row.deprecated
    BY <2>2 DEF VocabRow
  <2>5. step \in VocabularyRequest
    BY <2>2 DEF VocabularyRequest
  <2> HIDE DEF row, i
  <2>6. QED
    BY <2>1, <2>2, <2>3, <2>4, <2>5, VocabularyWritten
<1>7. ASSUME NEW r \in Requests, NEW i \in Ids \ TermValues, ResolveTerm(r, i) PROVE VocabularyInv'
  <2>1. log' = [log EXCEPT !.resolved = @ \cup {Answer(i)}]
    BY <1>7 DEF ResolveTerm, Answer
  <2>2. log.resolved \cup {Answer(i)} \subseteq {Answer(j) : j \in Ids}
    BY DEF VocabularyInv, VocabularyTypes, VocabularyLog
  <2>3. log'.deprecations = log.deprecations /\ log' \in VocabularyLog
    BY <2>1, <2>2 DEF VocabularyInv, VocabularyTypes, VocabularyLog
  <2>4. request' = [request EXCEPT ![r] = Idle] /\ UNCHANGED rows
    BY <1>7 DEF ResolveTerm
  <2>5. QED
    BY <2>3, <2>4, VocabularyIdle, VocabularyGoesOn
<1>8. CASE StopProcess
  <2>1. request' = [r \in Requests |-> Idle] /\ UNCHANGED <<rows, log>>
    BY <1>8 DEF StopProcess
  <2>2. VocabularyTypes'
    BY <2>1, VocabularyIdle DEF VocabularyInv, VocabularyTypes, VocabularyLog
  <2>3. ASSUME NEW i \in Ids
        PROVE  log.deprecations[i] + Cardinality(Deprecating(i)') <= Cardinality(Requests)
    <3>1. Deprecating(i)' = {}
      BY <2>1, VocabularyIdle DEF Deprecating
    <3>2. Cardinality(Deprecating(i)') = 0
      BY <3>1, FS_EmptySet
    <3>3. /\ log.deprecations[i] + Cardinality(Deprecating(i)) <= Cardinality(Requests)
          /\ log.deprecations[i] \in Nat /\ Cardinality(Deprecating(i)) \in Nat
          /\ Cardinality(Requests) \in Nat
      BY <2>3, DeprecatingCounted DEF VocabularyInv, VocabularySound, VocabularyStepSound, VocabularyTypes, VocabularyLog
    <3>4. QED
      BY <3>2, <3>3
  <2>4. QED
    BY <2>1, <2>2, <2>3, VocabularyIdle DEF VocabularyInv, VocabularySound, VocabularyStepSound, BothGiven, Stored
<1>9. CASE UNCHANGED aggregateVars
  BY <1>9 DEF aggregateVars, VocabularyInv, VocabularyTypes, VocabularySound, VocabularyStepSound, Deprecating, BothGiven,
     LabelsPass, Stored
<1>10. QED
  BY <1>1, <1>2, <1>3, <1>4, <1>5, <1>6, <1>7, <1>8, <1>9, VocabularyAnnounced DEF VocabularyNext

LEMMA VocabularyHolds ==
    ASSUME VocabularyAssumption, VocabularyInv PROVE VocabularyTypeOK /\ DeprecatedForGood
<1>1. VocabularyTypeOK
  BY DEF VocabularyInv, VocabularyTypes, VocabularySound, VocabularyStepSound, VocabularyTypeOK
<1>2. ASSUME NEW i \in Ids, log.deprecations[i] > 0
      PROVE  Stored(i) /\ rows[i].deprecated /\ log.deprecations[i] <= Cardinality(Requests)
  <2>1. /\ Cardinality(Deprecating(i)) \in Nat /\ Cardinality(Requests) \in Nat
        /\ log.deprecations[i] \in Nat
    BY DeprecatingCounted DEF VocabularyInv, VocabularyTypes, VocabularyLog
  <2>2. QED
    BY <1>2, <2>1 DEF VocabularyInv, VocabularySound, VocabularyStepSound
<1>3. QED
  BY <1>1, <1>2 DEF DeprecatedForGood

\* However updates of labels and deprecations of terms overlap: every row keeps both labels,
\* and a value that was announced as deprecated is so and stays so, announced at most once for
\* each request (vocab.service.ts).
THEOREM DeprecatedStays ==
    ASSUME VocabularyAssumption
    PROVE  VocabularySpec => [](VocabularyTypeOK /\ DeprecatedForGood)
<1>1. VocabularyInv /\ [VocabularyNext]_aggregateVars => VocabularyInv'
  BY VocabularyStep
<1>2. QED
  BY <1>1, VocabularyInitially, VocabularyHolds, PTL DEF VocabularySpec
=============================================================================
