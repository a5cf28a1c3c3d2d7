------------------------------ MODULE Sessions ------------------------------
(***************************************************************************)
(* Login sessions of one account: AuthService of                           *)
(* domains/auth/application/auth.service.ts and the session operations of  *)
(* domains/user/application/identity-service.ts, which work on the same    *)
(* tables.  The adapters behind their ports hold the statements they will  *)
(* run and no client yet; the tables are modelled from the ports and those *)
(* statements.                                                             *)
(*                                                                         *)
(* rows[Account] is the credential, every other row a session.             *)
(***************************************************************************)
EXTENDS AggregateStore

CONSTANTS
    Account,      \* \in Ids: the credential
    MaxSessions,  \* maxConcurrentSessions
    LockAfter,    \* failed attempts that lock the account
    SessionTTL    \* seven days

SessionIds == Ids \ {Account}
Services == {"auth", "identity"}

CredentialRow == [failedAttempts : Nat, isLocked : BOOLEAN]
SessionRow == [isActive : BOOLEAN, expiresAt : Nat]

\* log: wrong passwords tried since the last right one, whether a session was created on a
\* count that no longer held, the successors of each session, the sessions that two
\* requests refreshed together, and whether a login was refused without a live session
SessionsInit ==
    /\ StoreInit([guesses |-> 0, uncounted |-> FALSE, refusedIdle |-> FALSE, together |-> {},
                  successors |-> [s \in SessionIds |-> 0]], 0)

Active == {s \in SessionIds : Stored(s) /\ rows[s].isActive}
Used == {s \in SessionIds : Stored(s)}
IsActiveSession(s) == s \in Active /\ rows[s].expiresAt > clock

Credential ==
    IF Stored(Account) THEN rows[Account] ELSE [failedAttempts |-> 0, isLocked |-> FALSE]

-----------------------------------------------------------------------------
(* login *)

IsLocked(service) ==
    /\ Credential.isLocked
    /\ service = "identity" => Credential.failedAttempts >= LockAfter

\* The credential is read; the password is compared while other requests run.
Login(r, service, right) ==
    /\ Starts(r, IF IsLocked(service) THEN Idle
                 ELSE [at |-> "verify", service |-> service, right |-> right])
    /\ UNCHANGED <<rows, log, clock>>

\* Mutant: the account is locked by one failure more.
RecordFailedAttempt_Later ==
    [failedAttempts |-> Credential.failedAttempts + 1,
     isLocked |-> Credential.failedAttempts >= LockAfter]

RecordFailedAttempt ==
    [failedAttempts |-> Credential.failedAttempts + 1,
     isLocked |-> Credential.failedAttempts + 1 >= LockAfter]

\* AuthService goes on to count the sessions, IdentityService creates one uncounted.
VerifyPassword(r) ==
    LET c == request[r] IN
    /\ c.at = "verify"
    /\ IF c.right
       THEN /\ PutRow(Account, [failedAttempts |-> 0, isLocked |-> FALSE])
            /\ log' = [log EXCEPT !.guesses = 0]
            /\ GoesOn(r, IF c.service = "auth" THEN [at |-> "count"]
                         ELSE [at |-> "create", counted |-> None, refreshed |-> {}])
       ELSE /\ PutRow(Account, RecordFailedAttempt)
            /\ log' = [log EXCEPT !.guesses = @ + 1]
            /\ IsAnswered(r)
    /\ UNCHANGED clock

\* Mutant: the limit is reached by one session more.
CanCreateSession_OneMore(count) == count <= MaxSessions

CanCreateSession(count) == count < MaxSessions

\* countActiveByUserId counts the sessions that are not revoked, expired ones included.
CountSessions(r) ==
    /\ request[r].at = "count"
    /\ IF CanCreateSession(Cardinality(Active))
       THEN /\ GoesOn(r, [at |-> "create", counted |-> Cardinality(Used), refreshed |-> {}])
            /\ UNCHANGED log
       ELSE /\ IsAnswered(r)
            /\ log' = [log EXCEPT !.refusedIdle = @ \/ \A s \in Active : ~IsActiveSession(s)]
    /\ UNCHANGED <<rows, clock>>

CreateSession(r, s) ==
    LET c == request[r] IN
    /\ c.at = "create" /\ ~Stored(s)
    /\ PutRow(s, [isActive |-> TRUE, expiresAt |-> clock + SessionTTL])
    /\ log' = [log EXCEPT
          !.uncounted = @ \/ c.counted # Cardinality(Used),
          !.successors = [p \in SessionIds |-> IF p \in c.refreshed THEN @[p] + 1 ELSE @[p]]]
    /\ IsAnswered(r)
    /\ UNCHANGED clock

-----------------------------------------------------------------------------
(* refreshAccessToken: the session of the token is replaced by a new one *)

Refreshing(s) == {r \in Requests : request[r].at \in {"check", "revoke"} /\ request[r].old = s}

Refresh(r, s) ==
    /\ Stored(s)
    /\ Starts(r, IF rows[s].isActive THEN [at |-> "check", old |-> s] ELSE Idle)
    /\ log' = IF rows[s].isActive /\ Refreshing(s) # {}
              THEN [log EXCEPT !.together = @ \cup {s}] ELSE log
    /\ UNCHANGED <<rows, clock>>

CheckSession(r) ==
    LET c == request[r] IN
    /\ c.at = "check"
    /\ GoesOn(r, IF IsActiveSession(c.old) THEN [c EXCEPT !.at = "revoke"] ELSE Idle)
    /\ UNCHANGED <<rows, log, clock>>

RevokedRows(sessions) ==
    [i \in Ids |-> IF i \in sessions THEN [rows[i] EXCEPT !.isActive = FALSE] ELSE rows[i]]

\* Mutant: the old session is left as it is.
RevokeOld_Not(r) ==
    LET c == request[r] IN
    /\ c.at = "revoke"
    /\ GoesOn(r, [at |-> "create", counted |-> Cardinality(Used), refreshed |-> {c.old}])
    /\ UNCHANGED <<rows, log, clock>>

\* revokeById does not tell that the session was revoked before.
RevokeOld(r) ==
    LET c == request[r] IN
    /\ c.at = "revoke"
    /\ rows' = RevokedRows({c.old})
    /\ GoesOn(r, [at |-> "create", refreshed |-> {c.old},
                  counted |-> IF c.old \in Active THEN Cardinality(Used) ELSE None])
    /\ UNCHANGED <<log, clock>>

-----------------------------------------------------------------------------
(* logout, revokeSession *)

LogoutSession(r, s) ==
    /\ Stored(s)
    /\ rows' = RevokedRows({s})
    /\ StartsAndEnds(r)
    /\ UNCHANGED <<log, clock>>

\* IdentityService.logout without a session
LogoutUser(r) ==
    /\ Active # {}
    /\ rows' = RevokedRows(Active)
    /\ StartsAndEnds(r)
    /\ UNCHANGED <<log, clock>>

SessionsNext ==
    \/ \E r \in Requests :
          \/ \E service \in Services, right \in BOOLEAN : Login(r, service, right)
          \/ VerifyPassword(r) \/ CountSessions(r) \/ CheckSession(r) \/ RevokeOld(r)
          \/ \E s \in SessionIds : CreateSession(r, s) \/ Refresh(r, s) \/ LogoutSession(r, s)
          \/ LogoutUser(r)
    \/ StopProcess \/ Tick

-----------------------------------------------------------------------------
SessionsTypeOK ==
    /\ rows[Account] \in CredentialRow \cup {NoRow}
    /\ \A s \in SessionIds : rows[s] \in SessionRow \cup {NoRow}

\* An account has no more sessions that are not revoked than the policy allows, unless one
\* was created without a count, or after another request changed what was counted
\* (AuthService.login and refreshAccessToken).
SessionsAreLimited == ~log.uncounted => Cardinality(Active) <= MaxSessions

\* A session is refreshed once, unless two requests refresh it together
\* (refreshAccessToken).
RefreshedOnce == \A s \in SessionIds \ log.together : log.successors[s] <= 1

\* However the logins overlap, an account is locked before more wrong passwords are tried
\* than the limit and the logins under way allow.
GuessesAreBounded == log.guesses < LockAfter + Cardinality(Requests)

SessionsSound == SessionsAreLimited /\ RefreshedOnce /\ GuessesAreBounded

\* "Rotates the refresh token (old becomes consumed)."
RotatedOnce == \A s \in SessionIds : log.successors[s] <= 1

\* "Session lifecycle active/expired/revoked": a session that expired is none of the
\* concurrent sessions that refuse a login.
RefusedForLiveSessions == ~log.refusedIdle
=============================================================================
