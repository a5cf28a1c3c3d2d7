------------------------------ MODULE Finance ------------------------------
(***************************************************************************)
(* Transactions (src/safe-boot/backend/src/domains/finance and the Prisma  *)
(* adapter).  Commands read the row to check it, and the adapter then      *)
(* updates single columns by id: a write never puts back a column it was   *)
(* not asked to change, and it counts the version up in the table.  The    *)
(* adapter declares its client itself; the table is taken to have the      *)
(* columns the adapter writes.                                             *)
(***************************************************************************)
EXTENDS AggregateStore, FiniteSetsExt

CONSTANT Amounts    \* amounts in cents

TransactionState == {"draft", "pending", "approved", "rejected"}
TransactionType == {"income", "expense"}
TransactionRow == [state : TransactionState, amount : Amounts, type : TransactionType,
                   date : 0 .. LastTick, compensates : Ids \cup {None},
                   deleted : BOOLEAN, version : Nat]

\* TRANSACTION_STATE_TRANSITIONS: what the documents allow, and no command consults
CanTransitionFrom(s) ==
    CASE s = "draft" -> {"pending"}
      [] s = "pending" -> {"approved", "rejected"}
      [] s = "rejected" -> {"draft"}
      [] OTHER -> {}

\* Mutant: nothing is immutable.
Mutable_Always(e) == TRUE

\* ImmutabilityPolicy.assertMutable
Mutable(e) == e.state # "approved"

\* mapUpdateInput: the columns the caller named
UpdateInput == {[amount |-> a, date |-> d] : a \in Amounts \cup {None}, d \in {None, LastTick}}
MapUpdateInput(row, input) ==
    [row EXCEPT !.amount = IF input.amount # None THEN input.amount ELSE @,
                !.date = IF input.date # None THEN input.date ELSE @]

\* Mutant: the version written is the one after the version read.
Touched_FromRead(row, read) == [row EXCEPT !.version = read.version + 1]

\* version: { increment: 1 }
Touched(row, read) == [row EXCEPT !.version = @ + 1]

FinanceInit ==
    StoreInit([announced |-> [i \in Ids |-> 0], granted |-> {}, compensated |-> {},
               overtaken |-> {}], 0)

-----------------------------------------------------------------------------
NewTransaction(amount, type, original) ==
    [state |-> "draft", amount |-> amount, type |-> type, date |-> clock,
     compensates |-> original, deleted |-> FALSE, version |-> 1]

\* createTransaction hands the body of the request to the table as it is.
CreateTransaction(r, i, amount, type, original) ==
    /\ ~Stored(i)
    /\ PutRow(i, NewTransaction(amount, type, original))
    /\ StartsAndEnds(r)
    /\ UNCHANGED <<log, clock>>

\* findById, for a command that goes on to `task`
Reads(r, i, task) ==
    /\ Stored(i)
    /\ Starts(r, [at |-> "write", id |-> i, read |-> rows[i], task |-> task])
    /\ UNCHANGED <<rows, log, clock>>

UpdateTransaction(r, i, input, expected) ==
    /\ Stored(i) /\ expected = rows[i].version /\ Mutable(rows[i])
    /\ Reads(r, i, [does |-> "update", input |-> input])

DeleteTransaction(r, i) ==
    /\ Stored(i) /\ Mutable(rows[i])
    /\ Reads(r, i, [does |-> "delete"])

RequestApproval(r, i) == Reads(r, i, [does |-> "move", to |-> "pending"])
ApproveTransaction(r, i) == Reads(r, i, [does |-> "move", to |-> "approved"])
RejectTransaction(r, i) == Reads(r, i, [does |-> "move", to |-> "rejected"])

\* Both states come from the caller; transitionState ignores the first.
TransitionTransaction(r, i, to) == Reads(r, i, [does |-> "move", to |-> to])

\* Mutant: the state of the original is not looked at.
CompensateTransaction_AnyState(r, i, new) ==
    /\ Stored(i) /\ ~Stored(new)
    /\ Reads(r, i, [does |-> "compensate", new |-> new])

CompensateTransaction(r, i, new) ==
    /\ Stored(i) /\ rows[i].state = "approved" /\ ~Stored(new)
    /\ Reads(r, i, [does |-> "compensate", new |-> new])

\* The adapter's update by id; ResourceUpdated has the version after the one read.
UpdateRow(r) ==
    LET c == request[r] IN
    /\ c.at = "write" /\ c.task.does = "update"
    /\ PutRow(c.id, Touched(MapUpdateInput(rows[c.id], c.task.input), c.read))
    /\ log' = [log EXCEPT !.overtaken = OvertakenBy(c.id, c.read)]
    /\ GoesOn(r, [at |-> "announce", id |-> c.id, version |-> c.read.version + 1])
    /\ UNCHANGED clock

AnnounceUpdate(r) ==
    LET c == request[r] IN
    /\ c.at = "announce"
    /\ log' = [log EXCEPT !.announced[c.id] = Max({@, c.version})]
    /\ IsAnswered(r)
    /\ UNCHANGED <<rows, clock>>

\* transitionState, approve, reject: whatever state the row is in
MoveRow(r) ==
    LET c == request[r] IN
    /\ c.at = "write" /\ c.task.does = "move"
    /\ PutRow(c.id, Touched([rows[c.id] EXCEPT !.state = c.task.to], c.read))
    /\ log' = IF c.task.to = "approved" THEN [log EXCEPT !.granted = @ \cup {c.id}] ELSE log
    /\ IsAnswered(r)
    /\ UNCHANGED clock

\* delete only sets a flag, which no query asks for.
DeleteRow(r) ==
    LET c == request[r] IN
    /\ c.at = "write" /\ c.task.does = "delete"
    /\ PutRow(c.id, Touched([rows[c.id] EXCEPT !.deleted = TRUE], c.read))
    /\ log' = [log EXCEPT !.overtaken = OvertakenBy(c.id, c.read)]
    /\ IsAnswered(r)
    /\ UNCHANGED clock

InsertCompensation(r, amount, type) ==
    LET c == request[r] IN
    /\ c.at = "write" /\ c.task.does = "compensate" /\ ~Stored(c.task.new)
    /\ PutRow(c.task.new, NewTransaction(amount, type, c.id))
    /\ log' = [log EXCEPT !.compensated = @ \cup {<<c.id, c.task.new>>}]
    /\ IsAnswered(r)
    /\ UNCHANGED clock

FinanceNext ==
    \/ \E r \in Requests, i \in Ids :
          \/ \E a \in Amounts, t \in TransactionType, o \in (Ids \ {i}) \cup {None} :
                CreateTransaction(r, i, a, t, o)
          \/ \E input \in UpdateInput, v \in 1 .. MaxCommands : UpdateTransaction(r, i, input, v)
          \/ DeleteTransaction(r, i)
          \/ RequestApproval(r, i) \/ ApproveTransaction(r, i) \/ RejectTransaction(r, i)
          \/ \E to \in TransactionState : TransitionTransaction(r, i, to)
          \/ \E new \in Ids : CompensateTransaction(r, i, new)
    \/ \E r \in Requests :
          \/ UpdateRow(r) \/ AnnounceUpdate(r) \/ MoveRow(r) \/ DeleteRow(r)
          \/ \E a \in Amounts, t \in TransactionType : InsertCompensation(r, a, t)
    \/ StopProcess
    \/ Tick

FinanceSpec == FinanceInit /\ [][FinanceNext]_aggregateVars

-----------------------------------------------------------------------------
\* findByOrgAndPage with the state 'approved'; a dateTo replaces the dateFrom before it.
FindApproved(from, to) ==
    {i \in Ids : /\ Stored(i) /\ rows[i].state = "approved"
                 /\ IF to # None THEN rows[i].date <= to ELSE rows[i].date >= from}

\* getBalance
Net(ts) ==
    MapThenSumSet(LAMBDA i : IF rows[i].type = "income" THEN rows[i].amount
                                                        ELSE -rows[i].amount, ts)

FinanceTypeOK ==
    /\ rows \in [Ids -> TransactionRow \cup {NoRow}]
    /\ log.announced \in [Ids -> Nat]
    /\ log.overtaken \subseteq Ids /\ log.granted \subseteq Ids

\* INV-001: while a transaction is approved its amount and date change only through an
\* update that had read it before (updateTransaction checks its copy, the adapter does
\* not check again).
ApprovedAmountStep ==
    \A i \in Ids : Stored(i) /\ rows[i].state = "approved"
        /\ <<rows'[i].amount, rows'[i].date>> # <<rows[i].amount, rows[i].date>>
           => i \in log.overtaken'
ApprovedAmountStands == [][ApprovedAmountStep]_aggregateVars

\* However updates overlap, no subscriber hears of a version the row has not reached
\* (INV-010), and a compensation is only made for a transaction that had been approved.
VersionsAndCompensationsSound ==
    /\ \A i \in Ids : Stored(i) => log.announced[i] <= rows[i].version
    /\ \A p \in log.compensated : p[1] \in log.granted /\ rows[p[2]].compensates = p[1]

\* "La machine a etats est validee par le port (transitionState), pas ici."
\* (application-service.ts): a change of state is one the machine has.
TransitionsAllowed ==
    [][\A i \in Ids : Stored(i) /\ rows'[i].state # rows[i].state
           => rows'[i].state \in CanTransitionFrom(rows[i].state)]_aggregateVars

\* "Filtres periode" (application-service.ts): the balance of a period counts what lies in it.
BalanceOfPeriod ==
    \A from, to \in 0 .. LastTick :
        Net(FindApproved(from, to)) = Net(FindApproved(from, to) \cap
                                          {i \in Ids : Stored(i) /\ rows[i].date >= from})
=============================================================================
