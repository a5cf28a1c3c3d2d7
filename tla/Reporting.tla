----------------------------- MODULE Reporting -----------------------------
(***************************************************************************)
(* Financial reports: ReportingService of                                  *)
(* domains/reporting/application/reporting.service.ts with BalanceCalcu-   *)
(* lator, BalanceTotals and PeriodType.  Days are numbered from the start  *)
(* of a year whose months have DaysPerMonth days.  The rows of Reports are *)
(* report_snapshots, the others transactions, which other parts of the     *)
(* system write.  The repository names the queries; its client is given at *)
(* the composition root and is modelled from those queries.                *)
(***************************************************************************)
EXTENDS AggregateStore, FiniteSetsExt

CONSTANTS
    Reports,       \* \subseteq Ids
    Days,          \* days of transactions, and the dates a report is asked for
    DaysPerMonth,
    Categories

Transactions == Ids \ Reports
Types == {"income", "expense", "transfer"}

TransactionRow == [day : Days, type : Types, category : Categories, est_synchronise : BOOLEAN]

Totals == [income : Nat, expense : Nat]
SnapshotRow ==
    [start : Nat, end : Days, total : Totals, net : Int, count : Nat,
     breakdown : [Categories -> Totals], signed : BOOLEAN]

\* log: for each report the transactions it was made of, and the month it was asked for
ReportingInit == StoreInit([read |-> [q \in Reports |-> {}], month |-> [q \in Reports |-> {}]], 0)

-----------------------------------------------------------------------------
(* PeriodType.computeDateRange: from the start of the period to the given day *)

\* Mutant: the number of the quarter is taken for a month.
PeriodStart_Index(type, day) ==
    LET year == 12 * DaysPerMonth
    IN  CASE type = "month" -> (day \div DaysPerMonth) * DaysPerMonth
          [] type = "quarter" ->
                (day \div year) * year + ((day % year) \div (3 * DaysPerMonth)) * DaysPerMonth
          [] type = "year" -> (day \div year) * year

PeriodStart(type, day) ==
    LET length == CASE type = "month" -> 1 [] type = "quarter" -> 3 [] type = "year" -> 12
    IN  (day \div (DaysPerMonth * length)) * (DaysPerMonth * length)

-----------------------------------------------------------------------------
(* BalanceCalculator and the breakdown by category; every amount is 1 *)

OfType(txns, type) == {t \in txns : rows[t].type = type}

Counted(txns) ==
    [income |-> Cardinality(OfType(txns, "income")), expense |-> Cardinality(OfType(txns, "expense"))]

\* Mutant: what is no income is taken for an expense.
BreakdownOf_Otherwise(txns) ==
    [c \in Categories |->
        LET own == {t \in txns : rows[t].category = c}
        IN  [income |-> Counted(own).income, expense |-> Cardinality(own) - Counted(own).income]]

BreakdownOf(txns) ==
    [c \in Categories |-> Counted({t \in txns : rows[t].category = c})]

-----------------------------------------------------------------------------
(* generateMonthlyReport *)

FindApproved(start, end) ==
    {t \in Transactions : Stored(t) /\ rows[t].est_synchronise /\ rows[t].day \in start .. end}

GenerateMonthlyReport(r, day) ==
    LET start == PeriodStart("month", day)
        txns == FindApproved(start, day)
    IN  /\ Starts(r, [at |-> "create", start |-> start, end |-> day, txns |-> txns,
                      total |-> Counted(txns), breakdown |-> BreakdownOf(txns),
                      month |-> FindApproved(start, start + DaysPerMonth - 1)])
        /\ UNCHANGED <<rows, log, clock>>

CreateSnapshot(r, q) ==
    LET c == request[r] IN
    /\ c.at = "create" /\ ~Stored(q)
    /\ PutRow(q, [start |-> c.start, end |-> c.end, total |-> c.total,
                  net |-> c.total.income - c.total.expense, count |-> Cardinality(c.txns),
                  breakdown |-> c.breakdown, signed |-> FALSE])
    /\ log' = [log EXCEPT !.read[q] = c.txns, !.month[q] = c.month]
    /\ IsAnswered(r)
    /\ UNCHANGED clock

\* exportReport: the signature is of what was read.
ExportReport(r, q) ==
    /\ Stored(q)
    /\ Starts(r, [at |-> "sign", report |-> q])
    /\ UNCHANGED <<rows, log, clock>>

SetSignature(r) ==
    /\ request[r].at = "sign"
    /\ rows' = [rows EXCEPT ![request[r].report].signed = TRUE]
    /\ IsAnswered(r)
    /\ UNCHANGED <<log, clock>>

\* getReport: a record whose net result is not the difference is refused.
CanBeRetrieved(q) == rows[q].net = rows[q].total.income - rows[q].total.expense

-----------------------------------------------------------------------------
(* The transactions, written by others *)

RecordTransaction(t, txn) ==
    /\ commands < MaxCommands /\ commands' = commands + 1
    /\ ~Stored(t)
    /\ PutRow(t, txn)
    /\ UNCHANGED <<request, log, clock>>

Synchronise(t) ==
    /\ Stored(t) /\ ~rows[t].est_synchronise
    /\ rows' = [rows EXCEPT ![t].est_synchronise = TRUE]
    /\ UNCHANGED <<request, log, clock, commands>>

ReportingNext ==
    \/ \E r \in Requests :
          \/ \E day \in Days : GenerateMonthlyReport(r, day)
          \/ \E q \in Reports : CreateSnapshot(r, q) \/ ExportReport(r, q)
          \/ SetSignature(r)
    \/ \E t \in Transactions : (\E txn \in TransactionRow : RecordTransaction(t, txn)) \/ Synchronise(t)
    \/ StopProcess

-----------------------------------------------------------------------------
ReportingTypeOK ==
    /\ \A t \in Transactions : rows[t] \in TransactionRow \cup {NoRow}
    /\ \A q \in Reports : rows[q] \in SnapshotRow \cup {NoRow}

CategorySum(q, field) == FoldSet(LAMBDA c, n : n + rows[q].breakdown[c][field], 0, Categories)

\* The two ways a report counts its transactions agree: the totals are the sums of the
\* categories, no transaction counts twice, and the report that was stored can be
\* retrieved (generateMonthlyReport, BalanceCalculator, toDomain).
BreakdownAddsUp ==
    \A q \in Reports : Stored(q) =>
        /\ CategorySum(q, "income") = rows[q].total.income
        /\ CategorySum(q, "expense") = rows[q].total.expense
        /\ CanBeRetrieved(q)
        /\ rows[q].count >= rows[q].total.income + rows[q].total.expense
        /\ \A t \in log.read[q] : rows[t].est_synchronise /\ rows[t].day \in rows[q].start .. rows[q].end

\* A month lies in its quarter, a quarter in its year, and each period is also the period
\* of its first day (PeriodType).  No variable counts here: one state is enough.
PeriodsNest ==
    commands = 0 =>
    \A day \in Days \cup {d * DaysPerMonth : d \in 0 .. 23} :
        LET start(type) == PeriodStart(type, day)
        IN  /\ start("year") <= start("quarter") /\ start("quarter") <= start("month")
            /\ start("month") <= day
            /\ \A type \in {"month", "quarter", "year"} : PeriodStart(type, start(type)) = start(type)

ReportsSound == BreakdownAddsUp /\ PeriodsNest

\* "BR-RPT-002: Monthly report covers 1st to last day of month."
MonthIsCovered == \A q \in Reports : Stored(q) => log.read[q] = log.month[q]
=============================================================================
