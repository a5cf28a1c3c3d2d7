---------------------------- MODULE EventRecords ----------------------------
(***************************************************************************)
(* Event records (src/safe-boot/backend/src/domains/event).  A row keeps   *)
(* the state, the version and the two dates; the texts only pass or fail   *)
(* validation.  The entity made of a row always has version 1, whatever    *)
(* the row says: _toEntity calls EventRecord.create.                       *)
(***************************************************************************)
EXTENDS AggregateStore

EventState == {"draft", "published", "cancelled", "completed"}
Instants == 0 .. LastTick
EventRow == [state : EventState, version : Nat, start : Instants, end : Instants]

\* EVENT_STATE_TRANSITIONS
EventStateTransitions(s) ==
    CASE s = "draft" -> {"published", "cancelled"}
      [] s = "published" -> {"completed", "cancelled"}
      [] OTHER -> {}
FinalEvent == {s \in EventState : EventStateTransitions(s) = {}}

ValidDates(start, end) == start < end /\ start <= clock /\ end <= clock

\* Mutant: the new date is not compared with the one that stays.
ValidUpdate_NewDateOnly(e, fields) ==
    \A d \in {fields.start, fields.end} \ {None} : d <= clock

NewDates(e, fields) ==
    [start |-> IF fields.start # None THEN fields.start ELSE e.start,
     end   |-> IF fields.end # None THEN fields.end ELSE e.end]

ValidUpdate(e, fields) ==
    LET d == NewDates(e, fields) IN
    fields.start # None \/ fields.end # None => ValidDates(d.start, d.end)

ToEntity(row) == [row EXCEPT !.version = 1]
BumpVersion(e) == [e EXCEPT !.version = @ + 1]
UpdateFields(e, fields) == BumpVersion([start |-> NewDates(e, fields).start,
    end |-> NewDates(e, fields).end, state |-> e.state, version |-> e.version])

EventInit ==
    StoreInit([created |-> {}, changes |-> [i \in Ids |-> {}], overtaken |-> {},
               refused |-> {}], LastTick - 1)

-----------------------------------------------------------------------------
\* The factory validates; EventCreated is published before the row is inserted.
CreateEvent(r, i, start, end) ==
    /\ ~Stored(i) /\ i \notin log.created
    /\ ValidDates(start, end)
    /\ Starts(r, [at |-> "insert", id |-> i, entity |->
           [state |-> "draft", version |-> 1, start |-> start, end |-> end]])
    /\ log' = [log EXCEPT !.created = @ \cup {i}]
    /\ UNCHANGED <<rows, clock>>

InsertEvent(r) ==
    /\ request[r].at = "insert"
    /\ PutRow(request[r].id, request[r].entity)
    /\ IsAnswered(r)
    /\ UNCHANGED <<log, clock>>

\* update: findById, the version policy and the validation of what is changed
UpdateEvent(r, i, fields, expected) ==
    LET e == ToEntity(rows[i]) IN
    /\ Stored(i)
    /\ IF expected = e.version /\ ValidUpdate(e, fields)
         THEN /\ Starts(r, [at |-> "check", id |-> i, read |-> rows[i],
                            entity |-> UpdateFields(e, fields), expected |-> expected])
              /\ UNCHANGED log
         ELSE /\ StartsAndEnds(r)
              /\ log' = IF expected = rows[i].version /\ ValidUpdate(e, fields)
                          THEN [log EXCEPT !.refused = @ \cup {i}] ELSE log
    /\ UNCHANGED <<rows, clock>>

\* repository.update reads the row again for its version, and then writes every column.
CheckVersion(r) ==
    LET c == request[r] IN
    /\ c.at = "check"
    /\ IF Stored(c.id) /\ rows[c.id].version = c.expected
         THEN GoesOn(r, [c EXCEPT !.at = "write"]) /\ UNCHANGED log
         ELSE /\ IsAnswered(r)
              /\ UNCHANGED log
    /\ UNCHANGED <<rows, clock>>

WriteEvent(r) ==
    LET c == request[r] IN
    /\ c.at = "write"
    /\ IF Stored(c.id)
         THEN /\ PutRow(c.id, c.entity)
              /\ log' = [log EXCEPT !.overtaken = OvertakenBy(c.id, c.read)]
         ELSE UNCHANGED <<rows, log>>
    /\ IsAnswered(r)
    /\ UNCHANGED clock

\* publish, complete, and cancel, which reads the row first to know the state it leaves
PublishEvent(r, i) ==
    /\ Starts(r, [at |-> "guard", id |-> i, from |-> "draft", to |-> "published"])
    /\ UNCHANGED <<rows, log, clock>>

CompleteEvent(r, i) ==
    /\ Starts(r, [at |-> "guard", id |-> i, from |-> "published", to |-> "completed"])
    /\ UNCHANGED <<rows, log, clock>>

CancelEvent(r, i) ==
    /\ Stored(i) /\ rows[i].state \in {"draft", "published"}
    /\ Starts(r, [at |-> "guard", id |-> i, from |-> rows[i].state, to |-> "cancelled"])
    /\ UNCHANGED <<rows, log, clock>>

\* Mutant: the state to be left is not compared with the row's.
TransitionState_AnyState(r) ==
    LET c == request[r] IN
    /\ c.at = "guard"
    /\ IF Stored(c.id)
         THEN GoesOn(r, [at |-> "move", id |-> c.id, from |-> c.from, to |-> c.to, read |-> rows[c.id]])
         ELSE IsAnswered(r)
    /\ UNCHANGED <<rows, log, clock>>

\* transitionState: the guard ...
TransitionState(r) ==
    LET c == request[r] IN
    /\ c.at = "guard"
    /\ IF Stored(c.id) /\ rows[c.id].state = c.from
         THEN GoesOn(r, [at |-> "move", id |-> c.id, from |-> c.from, to |-> c.to, read |-> rows[c.id]])
         ELSE IsAnswered(r)
    /\ UNCHANGED <<rows, log, clock>>

\* ... and the write, of the state alone: the version stays what it was.
MoveEvent(r) ==
    LET c == request[r] IN
    /\ c.at = "move"
    /\ IF Stored(c.id)
         THEN /\ PutRow(c.id, [rows[c.id] EXCEPT !.state = c.to])
              /\ log' = [log EXCEPT !.overtaken =
                     IF rows[c.id].state # c.read.state THEN @ \cup {c.id} ELSE @]
              /\ GoesOn(r, [at |-> "announce", id |-> c.id, from |-> c.from, to |-> c.to])
         ELSE IsAnswered(r) /\ UNCHANGED <<rows, log>>
    /\ UNCHANGED clock

AnnounceChange(r) ==
    LET c == request[r] IN
    /\ c.at = "announce"
    /\ log' = [log EXCEPT !.changes[c.id] = @ \cup {<<c.from, c.to>>}]
    /\ IsAnswered(r)
    /\ UNCHANGED <<rows, clock>>

\* The repository catches the error of a row that is gone: delete then answers false.
DeleteEvent(r, i) ==
    /\ Stored(i)
    /\ Starts(r, [at |-> "delete", id |-> i])
    /\ UNCHANGED <<rows, log, clock>>

RemoveEvent(r) ==
    /\ request[r].at = "delete"
    /\ PutRow(request[r].id, NoRow)
    /\ IsAnswered(r)
    /\ UNCHANGED <<log, clock>>

Fields == {[start |-> None, end |-> None]}
          \cup {[start |-> d, end |-> None] : d \in Instants}
          \cup {[start |-> None, end |-> d] : d \in Instants}

EventNext ==
    \/ \E r \in Requests :
          \/ \E i \in Ids :
                \/ \E start, end \in Instants : CreateEvent(r, i, start, end)
                \/ \E fields \in Fields, v \in 1 .. 2 : UpdateEvent(r, i, fields, v)
                \/ PublishEvent(r, i)
                \/ CompleteEvent(r, i)
                \/ CancelEvent(r, i)
                \/ DeleteEvent(r, i)
          \/ InsertEvent(r) \/ CheckVersion(r) \/ WriteEvent(r)
          \/ TransitionState(r) \/ MoveEvent(r) \/ AnnounceChange(r)
          \/ RemoveEvent(r)
    \/ StopProcess
    \/ Tick

EventSpec == EventInit /\ [][EventNext]_aggregateVars

-----------------------------------------------------------------------------
EventTypeOK ==
    /\ rows \in [Ids -> EventRow \cup {NoRow}]
    /\ log.created \subseteq Ids /\ log.overtaken \subseteq Ids
    /\ log.changes \in [Ids -> SUBSET (EventState \X EventState)]

\* However partial updates overlap, the end stays after the start and no date is in the
\* future (the CHECK of the events table; validateDates sees only one request's copy).
EventDatesSound ==
    \A i \in Ids : Stored(i) => ValidDates(rows[i].start, rows[i].end)

\* Unless a write overtook another request's, what is announced of an event is one run
\* of the state machine: at most one outcome, and the row still has it.
OneOutcomeAnnounced ==
    \A i \in Ids \ log.overtaken :
        LET outcomes == {c \in log.changes[i] : c[2] \in FinalEvent} IN
        /\ Cardinality(outcomes) <= 1
        /\ Stored(i) => \A c \in outcomes : rows[i].state = c[2]

\* A cancelled or completed event changes its state only by a write that overtakes
\* another request's (transitionState checks before it writes, update writes the copy).
FinalEventStep ==
    \A i \in Ids : Stored(i) /\ Stored(i)' /\ rows[i].state \in FinalEvent
        /\ rows'[i].state # rows[i].state => i \in log.overtaken'
FinalEventsStay == [][FinalEventStep]_aggregateVars

\* "Optimistic concurrency via version column" (prisma-event.repository.ts): a valid
\* update that names the version the row has is not refused.
CurrentVersionAccepted == log.refused = {}
=============================================================================
