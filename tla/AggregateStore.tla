--------------------------- MODULE AggregateStore ---------------------------
(***************************************************************************)
(* What the aggregates of the backend (src/safe-boot/backend/src/domains)  *)
(* have in common: a table, and requests that work on it.  A command of an *)
(* application service reads a row, checks and changes the entity made of  *)
(* it, writes the row back and publishes events.  Every await is a point   *)
(* at which another request runs, or the process stops.                    *)
(*                                                                         *)
(* request[r] is what request r waits for, with the data it holds: a       *)
(* record whose field `at` names the next step.                            *)
(***************************************************************************)
EXTENDS Integers, FiniteSets, Sequences

CONSTANTS
    Ids,         \* rows of the table
    Requests,    \* requests that may be under way together
    LastTick,    \* bound: instants
    MaxCommands  \* bound: commands and process stops

VARIABLES
    rows,     \* the table: a row for each id, or NoRow
    request,  \* what each request is doing
    log,      \* history: what was published, and which rows were overtaken
    clock,
    commands

aggregateVars == <<rows, request, log, clock, commands>>

NoRow == [state |-> "none"]
None == -1
Idle == [at |-> "idle"]

Stored(i) == rows[i] # NoRow

\* A request starts a command, goes on to its next step, or is answered.
Starts(r, step) ==
    /\ request[r] = Idle /\ commands < MaxCommands
    /\ commands' = commands + 1
    /\ request' = [request EXCEPT ![r] = step]

GoesOn(r, step) ==
    /\ request' = [request EXCEPT ![r] = step]
    /\ UNCHANGED commands

IsAnswered(r) == GoesOn(r, Idle)

\* A command that is answered at its first step, without having waited
StartsAndEnds(r) == Starts(r, Idle)

PutRow(i, row) == rows' = [rows EXCEPT ![i] = row]

\* History: ids whose row a request overwrote although it was not the row it had read
OvertakenBy(i, read) == IF rows[i] # read THEN log.overtaken \cup {i} ELSE log.overtaken

StopProcess ==
    /\ commands < MaxCommands /\ commands' = commands + 1
    /\ \E r \in Requests : request[r] # Idle
    /\ request' = [r \in Requests |-> Idle]
    /\ UNCHANGED <<rows, log, clock>>

Tick ==
    /\ clock < LastTick /\ clock' = clock + 1
    /\ UNCHANGED <<rows, request, log, commands>>

\* An empty table and nothing under way, at instant `start`
StoreInit(history, start) ==
    /\ rows = [i \in Ids |-> NoRow]
    /\ request = [r \in Requests |-> Idle]
    /\ log = history
    /\ clock = start
    /\ commands = 0
=============================================================================
