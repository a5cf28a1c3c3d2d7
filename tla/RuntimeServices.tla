--------------------------- MODULE RuntimeServices ---------------------------
(***************************************************************************)
(* Services every request may pass through (src/safe-boot/backend/src/core *)
(* /runtime and middleware): IdempotencyManager, RetryPolicyService and    *)
(* RateLimiterMiddleware.  What they know is kept in memory and is gone    *)
(* when the process stops.                                                 *)
(*                                                                         *)
(* rows[k] is the idempotency entry of key k, and rows[Address] the rate   *)
(* limiter's entry of one address.  The operation of a key is run under    *)
(* the retry policy; an attempt of it may fail after it had its effect.    *)
(***************************************************************************)
EXTENDS AggregateStore, FiniteSetsExt

CONSTANTS
    Address,      \* \in Ids: the row of the rate limiter
    TTL,          \* ttlMs
    MaxRetries,   \* maxRetries
    MaxAttempts,  \* maxAttempts of the rate limiter
    Window        \* windowMs

IdempotencyKeys == Ids \ {Address}
Instants == 0 .. LastTick

EntryRow == [expiresAt : Nat, result : Nat]
LimitRow == [count : Nat, lastAttempt : Instants]

\* log: the effects each key's operation had, the keys for which a repetition has a
\* reason, and the attempts of the address by instant: made, and let through
ServicesInit ==
    StoreInit([effects |-> [k \in IdempotencyKeys |-> 0], excused |-> {},
               made |-> [t \in Instants |-> 0], admitted |-> [t \in Instants |-> 0]], 0)

-----------------------------------------------------------------------------
(* IdempotencyManager, around RetryPolicyService *)

Cached(k) == Stored(k) /\ rows[k].expiresAt > clock

Executing(k) == {r \in Requests : request[r] # Idle /\ request[r].key = k}

AnswerDuplicate(r, k) ==
    /\ Cached(k)
    /\ StartsAndEnds(r)
    /\ UNCHANGED <<rows, log, clock>>

\* Nothing tells that another request with the key is under way.
Execute(r, k) ==
    /\ ~Cached(k)
    /\ Starts(r, [at |-> "operation", key |-> k, attempt |-> 0])
    /\ log' = IF Executing(k) # {} \/ Stored(k) THEN [log EXCEPT !.excused = @ \cup {k}] ELSE log
    /\ UNCHANGED <<rows, clock>>

HasEffect(k) == [log EXCEPT !.effects[k] = @ + 1]

OperationDone(r) ==
    LET c == request[r] IN
    /\ c.at = "operation"
    /\ log' = HasEffect(c.key)
    /\ GoesOn(r, [c EXCEPT !.at = "set"])
    /\ UNCHANGED <<rows, clock>>

\* Mutant: the last retry is not counted.
AttemptFails_OneMore(r, retryable, afterEffect) ==
    LET c == request[r] IN
    /\ c.at = "operation"
    /\ IF c.attempt > MaxRetries \/ ~retryable THEN IsAnswered(r)
       ELSE GoesOn(r, [c EXCEPT !.attempt = @ + 1])
    /\ log' = IF afterEffect THEN HasEffect(c.key) ELSE log
    /\ UNCHANGED <<rows, clock>>

\* RetryPolicyService.execute: the operation is tried again after a pause, unless it
\* refused (a DomainError) or has used up its retries.
AttemptFails(r, retryable, afterEffect) ==
    LET c == request[r] IN
    /\ c.at = "operation"
    /\ IF c.attempt >= MaxRetries \/ ~retryable THEN IsAnswered(r)
       ELSE GoesOn(r, [c EXCEPT !.attempt = @ + 1])
    /\ log' = IF afterEffect THEN [HasEffect(c.key) EXCEPT !.excused = @ \cup {c.key}] ELSE log
    /\ UNCHANGED <<rows, clock>>

\* Mutant: the result is given and not kept.
SetResult_Given(r) ==
    /\ request[r].at = "set"
    /\ IsAnswered(r)
    /\ UNCHANGED <<rows, log, clock>>

SetResult(r) ==
    LET c == request[r] IN
    /\ c.at = "set"
    /\ PutRow(c.key, [expiresAt |-> clock + TTL, result |-> log.effects[c.key]])
    /\ IsAnswered(r)
    /\ UNCHANGED <<log, clock>>

\* sweep, by the health check; isDuplicate drops an expired entry in the same way.
Sweep ==
    LET expired == {k \in IdempotencyKeys : Stored(k) /\ rows[k].expiresAt <= clock} IN
    /\ expired # {}
    /\ rows' = [k \in Ids |-> IF k \in expired THEN NoRow ELSE rows[k]]
    /\ log' = [log EXCEPT !.excused = @ \cup expired]
    /\ UNCHANGED <<request, clock, commands>>

-----------------------------------------------------------------------------
(* RateLimiterMiddleware *)

WindowPassed == clock - rows[Address].lastAttempt > Window

\* Mutant: after a window the count starts again at nothing.
Counted_FromZero ==
    [count |-> IF ~Stored(Address) \/ WindowPassed THEN 0 ELSE rows[Address].count + 1,
     lastAttempt |-> clock]

\* The entry after an attempt; also an attempt that is refused is the last one.
Counted ==
    [count |-> IF ~Stored(Address) \/ WindowPassed THEN 1 ELSE rows[Address].count + 1,
     lastAttempt |-> clock]

Attempt(r) ==
    /\ PutRow(Address, Counted)
    /\ log' = [log EXCEPT !.made[clock] = @ + 1,
                          !.admitted[clock] = IF Counted.count > MaxAttempts THEN @ ELSE @ + 1]
    /\ StartsAndEnds(r)
    /\ UNCHANGED clock

Cleanup ==
    /\ Stored(Address) /\ clock - rows[Address].lastAttempt > Window * 2
    /\ PutRow(Address, NoRow)
    /\ UNCHANGED <<request, log, clock, commands>>

-----------------------------------------------------------------------------
\* The process stops: what was kept in memory is gone.  The attempts are counted anew.
StopServices ==
    /\ commands < MaxCommands /\ commands' = commands + 1
    /\ \E i \in Ids : Stored(i) \/ \E r \in Requests : request[r] # Idle
    /\ rows' = [i \in Ids |-> NoRow]
    /\ request' = [r \in Requests |-> Idle]
    /\ log' = [log EXCEPT !.excused = IdempotencyKeys,
                          !.made = [t \in Instants |-> 0], !.admitted = [t \in Instants |-> 0]]
    /\ UNCHANGED clock

ServicesNext ==
    \/ \E r \in Requests, k \in IdempotencyKeys : AnswerDuplicate(r, k) \/ Execute(r, k)
    \/ \E r \in Requests :
          \/ OperationDone(r) \/ SetResult(r) \/ Attempt(r)
          \/ \E retryable, afterEffect \in BOOLEAN : AttemptFails(r, retryable, afterEffect)
    \/ Sweep \/ Cleanup \/ StopServices \/ Tick

-----------------------------------------------------------------------------
ServicesTypeOK ==
    /\ \A k \in IdempotencyKeys : rows[k] \in EntryRow \cup {NoRow}
    /\ rows[Address] \in LimitRow \cup {NoRow}
    /\ \A r \in Requests :
          request[r] # Idle => request[r].attempt \in 0 .. MaxRetries

\* The operation of a key has its effect once, unless requests with the key overlapped, an
\* attempt failed after its effect, or the entry was outlived or lost (IdempotencyManager).
RepeatedForCause ==
    \A k \in IdempotencyKeys \ log.excused : log.effects[k] <= 1

\* "Résultat [...] retourné tel quel pour une clé déjà traitée": requests with one key have
\* one effect as long as its entry lives.
DuplicatesAreDetected ==
    \A k \in IdempotencyKeys : Cached(k) => log.effects[k] <= rows[k].result

Within(count, t) == FoldSet(LAMBDA u, n : n + count[u], 0,
                            {u \in Instants : u \in t - Window .. t})

\* Whatever the pauses between them, no more attempts are let through in a window than
\* the limit says (use in rate-limiter.middleware.ts), as long as the process runs.
RateIsLimited == \A t \in Instants : Within(log.admitted, t) <= MaxAttempts

\* "Limit: 5 attempts per minute per IP address": one is refused only above the limit.
RefusedOnlyAboveLimit ==
    [][log'.made[clock] > log.made[clock] /\ log'.admitted = log.admitted
          => Within(log'.made, clock) > MaxAttempts]_aggregateVars
=============================================================================
