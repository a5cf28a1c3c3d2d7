--------------------------- MODULE ResourceRecords ---------------------------
(***************************************************************************)
(* The entities of the finance domain (src/safe-boot/backend/src/domains/  *)
(* finance/entities): members, events, archive entries, notifications and  *)
(* transactions as objects whose methods a caller may call in any order,   *)
(* with the services that validate and create them.  Their ports, but for  *)
(* transactions, are not wired (NotWiredInMvpError), so nothing here waits *)
(* and a call is one step; what a wired table does is in Finance.          *)
(*                                                                         *)
(* Of the columns that an update names there are two kinds: a `name`       *)
(* (first name, title, amount ...), which an absent or empty value leaves  *)
(* alone, and a `note` (email, location, description ...), which null      *)
(* clears.                                                                 *)
(***************************************************************************)
EXTENDS AggregateStore

CONSTANT RecordTexts     \* values of a name or of a note, and tags

Null   == "null"
Absent == "undefined"
Kinds  == {"member", "event", "archive_entry", "notification", "transaction"}

\* MEMBER_STATE_TRANSITIONS
MemberMoves == [active |-> {"inactive", "deceased", "transferred"}, inactive |-> {"active"},
                deceased |-> {}, transferred |-> {}]

\* EVENT_STATE_TRANSITIONS
EventMoves == [draft |-> {"published", "cancelled"}, published |-> {"completed", "cancelled"},
               cancelled |-> {}, completed |-> {}]

\* ARCHIVE_STATE_TRANSITIONS
ArchiveMoves == [draft |-> {"active"}, active |-> {"archived"},
                 archived |-> {"trashed", "active"}, trashed |-> {"active", "purged"},
                 purged |-> {}]

\* NotificationDeliveryStatus: markSent, markFailed and markRetry ask for no status.
NotificationMoves ==
    [s \in {"queued", "sending", "sent", "failed", "read"} |->
        {"sent", "failed", "queued"} \cup (IF s = "queued" THEN {"sending"} ELSE {})
                                     \cup (IF s = "sent" THEN {"read"} ELSE {})]

\* validateStateTransition of TransactionRecord
TransactionMoves == [draft |-> {"pending"}, pending |-> {"approved", "rejected"},
                     approved |-> {}, rejected |-> {"draft"}]

Moves == [member |-> MemberMoves, event |-> EventMoves, archive_entry |-> ArchiveMoves,
          notification |-> NotificationMoves, transaction |-> TransactionMoves]

StatesOf(kind) == DOMAIN Moves[kind]

\* The date that changeState, markSent, markFailed and markRead note with a state.  No method
\* takes one back.
DatedBy(kind, state) ==
    CASE kind = "member" /\ state # "active" -> {"leaveDate"}
      [] kind = "archive_entry" /\ state = "trashed" -> {"trashedAt"}
      [] kind = "archive_entry" /\ state = "purged" -> {"purgeDate"}
      [] kind = "notification" /\ state = "sent" -> {"sentAt"}
      [] kind = "notification" /\ state = "failed" -> {"failedAt"}
      [] kind = "notification" /\ state = "read" -> {"readAt"}
      [] OTHER -> {}

Dates == {"leaveDate", "trashedAt", "purgeDate", "sentAt", "failedAt", "readAt", "approvedAt"}

ResourceRow ==
    [kind : Kinds, state : UNION {StatesOf(k) : k \in Kinds}, version : Nat,
     dates : [Dates -> 0 .. LastTick \cup {None}], name : RecordTexts, note : RecordTexts \cup {Null},
     tags : SUBSET RecordTexts, synced : BOOLEAN, approvedBy : {Null, "approver"}]

\* log: changes that were accepted, the fields each transaction was approved with, and the
\* members that left
RecordsInit ==
    StoreInit([accepted |-> [i \in Ids |-> 0], approved |-> [i \in Ids |-> <<>>],
               left |-> {}], 0)

-----------------------------------------------------------------------------
(* ResourceValidator, ScopePolicy *)

\* validateTransaction: the first check that fails
ValidateTransaction(date, scopeType, target, createdBy, category) ==
    IF date > clock THEN "DATE_FUTURE"
    ELSE IF scopeType \notin {"org", "group"} THEN "ScopePolicy"
    ELSE IF scopeType = "group" /\ target = Null THEN "ScopePolicy"
    ELSE IF createdBy = Null THEN "MISSING_CREATED_BY"
    ELSE IF category = Null THEN "MISSING_CATEGORY"
    ELSE "valid"

\* validateTransactionTransition has a table of its own.
ValidateTransactionTransition(from, to) ==
    \/ from = "draft" /\ to = "pending"
    \/ from = "pending" /\ to \in {"approved", "rejected"}
    \/ from = "rejected" /\ to = "draft"

\* The constructor of ResourceScope throws for a group without an id.
ScopeConstructed(scopeType, target) == ~(scopeType = "group" /\ target = Null)

-----------------------------------------------------------------------------
(* ResourceFactory and the entities *)

\* The state is the creator's to choose.
NewRecord(kind, state, name, note) ==
    [kind |-> kind, state |-> state, version |-> 1, dates |-> [d \in Dates |-> None],
     name |-> name, note |-> note, tags |-> {}, synced |-> FALSE, approvedBy |-> Null]

FirstState(kind) ==
    CASE kind = "member" -> "active" [] kind = "notification" -> "queued" [] OTHER -> "draft"

CreateRecord(r, i, kind, name) ==
    /\ ~Stored(i)
    /\ PutRow(i, NewRecord(kind, FirstState(kind), name, Null))
    /\ StartsAndEnds(r)
    /\ UNCHANGED <<log, clock>>

\* createCompensation copies the original; the link to it is left to the caller.
CreateCompensation(r, i, original) ==
    /\ ~Stored(i) /\ Stored(original) /\ rows[original].kind = "transaction"
    /\ PutRow(i, NewRecord("transaction", "draft", rows[original].name, Null))
    /\ StartsAndEnds(r)
    /\ UNCHANGED <<log, clock>>

\* A method that was accepted: bumpVersion counts the version up.
Accepts(r, i, record) ==
    /\ PutRow(i, [record EXCEPT !.version = @ + 1])
    /\ StartsAndEnds(r)
    /\ UNCHANGED clock

AcceptedRecord(i) == [log EXCEPT !.accepted[i] = @ + 1]

\* Mutant: a state of any kind may follow any other.
MayMove_Any(record, to) == TRUE

\* validateTransition
MayMove(record, to) == to \in Moves[record.kind][record.state]

MovedRecord(record, to) ==
    [record EXCEPT !.state = to,
        !.dates = [d \in Dates |-> IF d \in DatedBy(record.kind, to) THEN clock ELSE @[d]]]

MoveLog(i, record, to) ==
    [AcceptedRecord(i) EXCEPT
        !.approved[i] = IF to = "approved" THEN <<record.name, record.note>> ELSE @,
        !.left = IF record.kind = "member" /\ to # "active" THEN @ \cup {i} ELSE @]

\* changeState; markSending, markSent, markFailed, markRead and markRetry; reject
ChangeState(r, i, to) ==
    /\ Stored(i) /\ MayMove(rows[i], to)
    /\ Accepts(r, i, MovedRecord(rows[i], to))
    /\ log' = MoveLog(i, rows[i], to)

\* approve notes who and when, and changes the state.
Approve(r, i) ==
    /\ Stored(i) /\ rows[i].kind = "transaction" /\ rows[i].state = "pending"
    /\ Accepts(r, i, [MovedRecord(rows[i], "approved") EXCEPT !.approvedBy = "approver",
                                                         !.dates["approvedAt"] = clock])
    /\ log' = MoveLog(i, rows[i], "approved")

\* updateProfile, updateFields: only those of a transaction look at the state.
Updated(record, name, note) ==
    [record EXCEPT !.name = IF name = Absent THEN @ ELSE name,
                   !.note = IF note = Absent THEN @ ELSE note]

UpdateTexts(r, i, name, note) ==
    /\ Stored(i) /\ rows[i].kind \in {"member", "event", "transaction"}
    /\ ~(rows[i].kind = "transaction" /\ rows[i].state = "approved")
    /\ Accepts(r, i, Updated(rows[i], name, note))
    /\ log' = AcceptedRecord(i)

MarkSynced(r, i) ==
    /\ Stored(i) /\ rows[i].kind \in {"member", "event", "transaction"}
    /\ Accepts(r, i, [rows[i] EXCEPT !.synced = TRUE])
    /\ log' = AcceptedRecord(i)

\* applyTags keeps each tag once; removeTags; markPurge notes a reason (the note of an entry).
ApplyTags(r, i, tags) ==
    /\ Stored(i) /\ rows[i].kind = "archive_entry"
    /\ Accepts(r, i, [rows[i] EXCEPT !.tags = @ \cup tags])
    /\ log' = AcceptedRecord(i)

RemoveTags(r, i, tags) ==
    /\ Stored(i) /\ rows[i].kind = "archive_entry"
    /\ Accepts(r, i, [rows[i] EXCEPT !.tags = @ \ tags])
    /\ log' = AcceptedRecord(i)

MarkPurge(r, i, reason) ==
    /\ Stored(i) /\ rows[i].kind = "archive_entry"
    /\ Accepts(r, i, [rows[i] EXCEPT !.note = reason])
    /\ log' = AcceptedRecord(i)

RecordsNext ==
    \/ \E r \in Requests, i \in Ids :
          \/ \E kind \in Kinds, name \in RecordTexts : CreateRecord(r, i, kind, name)
          \/ \E original \in Ids : CreateCompensation(r, i, original)
          \/ \E to \in UNION {StatesOf(k) : k \in Kinds} : ChangeState(r, i, to)
          \/ Approve(r, i) \/ MarkSynced(r, i)
          \/ \E name \in RecordTexts \cup {Absent}, note \in RecordTexts \cup {Null, Absent} :
                UpdateTexts(r, i, name, note)
          \/ \E tags \in SUBSET RecordTexts : ApplyTags(r, i, tags) \/ RemoveTags(r, i, tags)
          \/ \E reason \in RecordTexts : MarkPurge(r, i, reason)
    \/ Tick

RecordsSpec == RecordsInit /\ [][RecordsNext]_aggregateVars

-----------------------------------------------------------------------------
RecordsTypeOK ==
    /\ rows \in [Ids -> ResourceRow \cup {NoRow}]
    /\ \A i \in Ids : Stored(i) => rows[i].state \in StatesOf(rows[i].kind)

Dated(i, date) == rows[i].dates[date] # None

\* INV-010, INV-001: whatever is called in whatever order, a version counts the changes, a
\* member who ever left has a leave date, also after coming back, an entry is purged after it
\* was trashed, a notification is read after it was sent, and an approved transaction has the
\* fields it was approved with (updateFields, changeState, markRead).
RecordsSound ==
    \A i \in {j \in Ids : Stored(j)} :
        /\ rows[i].version = 1 + log.accepted[i]
        /\ rows[i].kind = "member" => (i \in log.left <=> Dated(i, "leaveDate"))
        /\ rows[i].state = "purged" =>
              Dated(i, "trashedAt") /\ rows[i].dates["trashedAt"] <= rows[i].dates["purgeDate"]
        /\ rows[i].state = "read" =>
              Dated(i, "sentAt") /\ rows[i].dates["sentAt"] <= rows[i].dates["readAt"]
        /\ rows[i].state = "approved" => log.approved[i] = <<rows[i].name, rows[i].note>>

\* A transaction that ResourceValidator accepts has a scope that can be constructed, and its
\* table of transitions is the entity's.
ValidatorAgrees ==
    /\ \A date \in 0 .. LastTick, type \in {"org", "group", "unit"}, x, y, z \in RecordTexts \cup {Null} :
          ValidateTransaction(date, type, x, y, z) = "valid" => date <= clock /\ ScopeConstructed(type, x)
    /\ \A from, to \in StatesOf("transaction") :
          ValidateTransactionTransition(from, to) <=> to \in TransactionMoves[from]

\* A member who died or was transferred, an event that was cancelled or completed, a purged
\* entry and an approved transaction keep their state.
FinalRecordStep ==
    \A i \in Ids : Stored(i) /\ rows[i].state \in
            {"deceased", "transferred", "cancelled", "completed", "purged", "approved"}
        => rows'[i].state = rows[i].state
=============================================================================
