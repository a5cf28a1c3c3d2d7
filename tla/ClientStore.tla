----------------------------- MODULE ClientStore -----------------------------
(***************************************************************************)
(* What the parts of the client runtime (src/shared) have in common: state *)
(* in memory, state in stores that outlive the app, a world outside        *)
(* (server, network, feature modules), and calls of asynchronous methods.  *)
(*                                                                         *)
(* call[c] is what call c waits for, with the data it holds: a record      *)
(* whose field `at` names the next step.  Between two steps of one call    *)
(* any other may run.                                                      *)
(***************************************************************************)
EXTENDS Integers, FiniteSets, Sequences

CONSTANTS
    Calls,    \* calls that may be under way together
    MaxCalls  \* bound: calls begun, restarts included

VARIABLES
    memory,   \* what the app holds
    disk,     \* what the stores hold
    outside,  \* what the app does not decide
    call,     \* what each call is doing
    log,      \* history
    calls

clientVars == <<memory, disk, outside, call, log, calls>>

None == -1

\* The entries of one map over those of another
Over(upper, lower) ==
    [x \in DOMAIN upper \cup DOMAIN lower |-> IF x \in DOMAIN upper THEN upper[x] ELSE lower[x]]

Idle == [at |-> "idle"]

Quiet == \A c \in Calls : call[c] = Idle
OnlyCall(c) == \A d \in Calls \ {c} : call[d] = Idle

\* A call is made, goes on to its next step, or returns.
Begins(c, step) ==
    /\ call[c] = Idle /\ calls < MaxCalls
    /\ calls' = calls + 1
    /\ call' = [call EXCEPT ![c] = step]

GoesOn(c, step) ==
    /\ call' = [call EXCEPT ![c] = step]
    /\ UNCHANGED calls

Returns(c) == GoesOn(c, Idle)

\* A call that returns without having waited
BeginsAndReturns(c) == Begins(c, Idle)

\* A synchronous call, of no caller in particular
Called == calls < MaxCalls /\ calls' = calls + 1 /\ UNCHANGED call

ClientInit(inMemory, onDisk, world, history) ==
    /\ memory = inMemory /\ disk = onDisk /\ outside = world
    /\ call = [c \in Calls |-> Idle]
    /\ log = history
    /\ calls = 0
=============================================================================
