----------------------------- MODULE AuthTokens -----------------------------
(***************************************************************************)
(* The tokens and codes of src/safe-boot/backend/src/domains/auth: what    *)
(* login and refreshAccessToken issue, TokenValidator and JwtPolicy, and   *)
(* the secrets of MfaService.  Module Sessions has the sessions themselves *)
(* and the locking of accounts.                                            *)
(*                                                                         *)
(* Ids are sessions and secrets.  Nothing of a token or a secret is        *)
(* stored: a row is what the client was given.                             *)
(***************************************************************************)
EXTENDS AggregateStore

CONSTANTS
    AccessTtl, MaxAccessTtl,   \* accessTtlMs and its maximum in JwtPolicy
    RefreshTtl, MaxRefreshTtl  \* refreshTtlMs and its maximum

Roles == {"admin", "staff"}

Secret == [kind : {"secret"}, code : Ids, state : {"provisioning", "enabled", "disabled"}]

Pair == [kind : {"pair"}, role : Roles, user : Roles, issued : 0..LastTick,
         access : Int, refresh : Int]

\* log: how validations ended, and whether codes were taken
AuthTokensInit == StoreInit([validated |-> {}, verified |-> {}], 0)

Free(i) == ~Stored(i)
IsPair(i) == Stored(i) /\ rows[i].kind = "pair"
IsSecret(i) == Stored(i) /\ rows[i].kind = "secret"

-----------------------------------------------------------------------------
(* TokenValidator.createTokenPair: both lifetimes begin now *)

\* Mutant: the access token gets the lifetime of the refresh token.
AccessEnd_Refresh == clock + RefreshTtl

AccessEnd == clock + AccessTtl

RefreshEnd == clock + RefreshTtl

NewPair(role, user) ==
    [kind |-> "pair", role |-> role, user |-> user, issued |-> clock,
     access |-> AccessEnd, refresh |-> RefreshEnd]

\* The policy is made before anything is issued.
PolicyHolds == AccessTtl <= MaxAccessTtl /\ RefreshTtl <= MaxRefreshTtl

\* login of a user with a role
IssueTokenPair(i, role) ==
    /\ commands < MaxCommands /\ commands' = commands + 1
    /\ PolicyHolds /\ Free(i)
    /\ PutRow(i, NewPair(role, role))
    /\ UNCHANGED <<request, log, clock>>

\* refreshAccessToken: the new pair does not know the role of the user.
IssueTokenPairForUser(i, old) ==
    /\ commands < MaxCommands /\ commands' = commands + 1
    /\ Free(i) /\ IsPair(old)
    /\ PutRow(i, NewPair("staff", rows[old].user))
    /\ UNCHANGED <<request, log, clock>>

\* isExpired, then what is left against the policy.  consumedAt is never set.
TtlPasses(left, maximum) == left > 0 /\ left <= maximum
Expired(end) == end <= clock
AccessPasses(pair) == ~Expired(pair.access) /\ TtlPasses(pair.access - clock, MaxAccessTtl)
RefreshPasses(pair) == ~Expired(pair.refresh) /\ TtlPasses(pair.refresh - clock, MaxRefreshTtl)

Validate(i) ==
    /\ commands < MaxCommands /\ commands' = commands + 1
    /\ IsPair(i)
    /\ log' = [log EXCEPT !.validated = @ \cup
                 {[age |-> clock - rows[i].issued, kind |-> "access", passed |-> AccessPasses(rows[i])],
                  [age |-> clock - rows[i].issued, kind |-> "refresh", passed |-> RefreshPasses(rows[i])]}]
    /\ UNCHANGED <<rows, request, clock>>

-----------------------------------------------------------------------------
(* MfaService *)

\* The code is the end of the secret.
NewSecret(i) == [kind |-> "secret", code |-> i, state |-> "provisioning"]

\* enableMfaRequest: a secret of its own
GenerateSecret(i) ==
    /\ commands < MaxCommands /\ commands' = commands + 1
    /\ Free(i)
    /\ PutRow(i, NewSecret(i))
    /\ UNCHANGED <<request, log, clock>>

\* Mutant: any code of six characters is taken.
VerifyCode_Any(secret, code) == TRUE

VerifyCode(secret, code) == code = secret.code

\* enableMfaConfirm.  A secret that was deactivated still verifies its code.
VerifyProvisioningCode(i, code) ==
    /\ commands < MaxCommands /\ commands' = commands + 1
    /\ IsSecret(i)
    /\ IF VerifyCode(rows[i], code)
       THEN /\ PutRow(i, [rows[i] EXCEPT !.state = "enabled"])
            /\ log' = [log EXCEPT !.verified = @ \cup {[secret |-> i, code |-> code]}]
       ELSE UNCHANGED <<rows, log>>
    /\ UNCHANGED <<request, clock>>

Deactivated(secret) == [secret EXCEPT !.state = "disabled"]

\* MfaService.disableMfa; AuthService.disableMfa does not call it and does nothing.
DisableMfa(i) ==
    /\ commands < MaxCommands /\ commands' = commands + 1
    /\ IsSecret(i)
    /\ PutRow(i, Deactivated(rows[i]))
    /\ UNCHANGED <<request, log, clock>>

-----------------------------------------------------------------------------

AuthTokensNext ==
    \/ \E i \in Ids :
         \/ \E role \in Roles : IssueTokenPair(i, role)
         \/ \E old \in Ids : IssueTokenPairForUser(i, old)
         \/ Validate(i)
         \/ GenerateSecret(i)
         \/ \E code \in Ids : VerifyProvisioningCode(i, code)
         \/ DisableMfa(i)
    \/ Tick

-----------------------------------------------------------------------------

\* Every access token is the policy's lifetime at most.
AuthTokensTypeOK == \A i \in Ids :
    /\ rows[i] \in Pair \cup Secret \cup {NoRow}
    /\ IsPair(i) => rows[i].access - rows[i].issued <= MaxAccessTtl
                    /\ rows[i].refresh - rows[i].issued <= MaxRefreshTtl

\* A token is taken from when it was issued until the instant it expires, not included: the two
\* checks of the validator, one of the end and one of what is left, do not exclude each other.
TakenWhileValid == \A v \in log.validated :
    v.passed = (v.age < IF v.kind = "access" THEN AccessTtl ELSE RefreshTtl)

\* A secret is confirmed with its own code only, whatever other secrets were generated since.
ConfirmedByOwnCode == \A v \in log.verified : v.code = v.secret

TokensSound == TakenWhileValid /\ ConfirmedByOwnCode

\* Not kept (auth.service.ts, _issueTokenPairForUser): the refreshed tokens of an administrator
\* say staff.
RoleIsKept == \A i \in Ids : IsPair(i) => rows[i].role = rows[i].user
=============================================================================
