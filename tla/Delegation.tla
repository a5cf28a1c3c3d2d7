----------------------------- MODULE Delegation -----------------------------
(***************************************************************************)
(* Grants by which a user delegates permissions to another:                *)
(* DelegationService of domains/delegation/application                     *)
(* /delegation-service.ts with GrantEntry, GrantValidator and its          *)
(* policies.  The repository's client is given to it and modelled from the *)
(* repository's queries; the schema has no table for grants, so that the   *)
(* several names the repository gives a column are taken for one.          *)
(***************************************************************************)
EXTENDS AggregateStore

CONSTANTS
    Users,
    Admins,       \* \subseteq Users
    Superadmins,  \* \subseteq Users
    Scopes,
    GrantDays,    \* durations asked for
    MaxGrantDays  \* MAX_DAYS

Statuses == {"pending", "approved", "active", "expired", "revoked"}

GrantRow ==
    [from : Users, to : Users, scope : Scopes, status : Statuses, active : BOOLEAN,
     expiresAt : Nat, revoked : BOOLEAN]

\* log: grants that ended, grants whose row was overtaken, grants created after another
\* request changed what was checked, approvals announced
DelegationInit ==
    StoreInit([ended |-> {}, overtaken |-> {}, unchecked |-> {}, redelegated |-> {},
               approvals |-> [g \in Ids |-> 0]], 0)

GrantsTo(u) == {g \in Ids : Stored(g) /\ rows[g].to = u}

-----------------------------------------------------------------------------
(* AuthorizationAdapter.canPerformAction; a user who is no admin is a pastor *)

MayCreate(u) == u \in Users

MayChange(u, g) == u \in Admins \cup Superadmins \/ (Stored(g) /\ rows[g].from = u)

-----------------------------------------------------------------------------
(* The policies of GrantValidator *)

ValidDuration(days) == days > 0 /\ days <= MaxGrantDays

NoSuperadmin(from, to) == {from, to} \cap Superadmins = {}

\* hasDelegationPathFromTo visits a user, those who delegated to them, and so on until the
\* queue is empty: the least set that has the user and is closed under who delegated.  Its
\* queries, one for each user, are taken as one step.
ClosedUpwards(users) == \A u \in users : \A g \in GrantsTo(u) : rows[g].from \in users

VisitedFrom(user) ==
    {u \in Users : \A users \in SUBSET Users : user \in users /\ ClosedUpwards(users) => u \in users}

\* Mutant: grants that ended are passed over.
HasDelegationPathFromTo_Active(delegatee, delegator) ==
    \E g \in GrantsTo(delegatee) : rows[g].active /\ rows[g].from = delegator

HasDelegationPathFromTo(delegatee, delegator) == delegator \in VisitedFrom(delegatee)

\* Mutant: a grant that waits for its approval is none yet.
HasReceivedDelegation_Approved(u, scope) ==
    \E g \in GrantsTo(u) : rows[g].scope = scope /\ rows[g].status \in {"approved", "active"}

\* NonTransitivePolicy: also a grant that waits for its approval is active.
HasReceivedDelegation(u, scope) ==
    \E g \in GrantsTo(u) : rows[g].scope = scope /\ rows[g].active /\ ~rows[g].revoked

-----------------------------------------------------------------------------
(* createGrant *)

\* CapabilityManifest: the permissions asked for, by whether each is in it
KnownPermissions(permissions) == permissions \subseteq {"known"}

Validated(from, to, permissions, days) ==
    KnownPermissions(permissions) /\ ValidDuration(days) /\ NoSuperadmin(from, to) /\ from # to

CreateGrant(r, from, to, scope, days, permissions) ==
    /\ Starts(r, IF MayCreate(from) /\ Validated(from, to, permissions, days)
                 THEN [at |-> "path", from |-> from, to |-> to, scope |-> scope, days |-> days,
                       stored |-> {}]
                 ELSE Idle)
    /\ UNCHANGED <<rows, log, clock>>

\* NeverRepeatPolicy
CheckPath(r) ==
    LET c == request[r] IN
    /\ c.at = "path"
    /\ GoesOn(r, IF HasDelegationPathFromTo(c.to, c.from) THEN Idle
                 ELSE [c EXCEPT !.at = "received", !.stored = {g \in Ids : Stored(g)}])
    /\ UNCHANGED <<rows, log, clock>>

CheckReceived(r) ==
    LET c == request[r] IN
    /\ c.at = "received"
    /\ GoesOn(r, IF HasReceivedDelegation(c.from, c.scope) THEN Idle ELSE [c EXCEPT !.at = "create"])
    /\ UNCHANGED <<rows, log, clock>>

NewGrant(c, requiresApproval) ==
    [from |-> c.from, to |-> c.to, scope |-> c.scope, active |-> TRUE,
     status |-> IF requiresApproval THEN "pending" ELSE "approved",
     expiresAt |-> clock + c.days, revoked |-> FALSE]

CreateEntry(r, g, requiresApproval) ==
    LET c == request[r] IN
    /\ c.at = "create" /\ ~Stored(g)
    /\ PutRow(g, NewGrant(c, requiresApproval))
    /\ log' = [log EXCEPT
          !.unchecked = IF c.stored = {h \in Ids : Stored(h)} THEN @ ELSE @ \cup {g},
          !.redelegated =
             IF \E h \in GrantsTo(c.from) \ log.overtaken :
                   rows[h].scope = c.scope /\ rows[h].active
             THEN @ \cup {g} ELSE @]
    /\ IsAnswered(r)
    /\ UNCHANGED clock

-----------------------------------------------------------------------------
(* approveGrant, revokeGrant: the grant is read, changed and written as a whole *)

\* Mutant: a grant that is not approved yet can be, whatever ended it.
CanBeApproved_Ended(grant) == grant.status \notin {"approved", "active"}

CanBeApproved(grant) == grant.status = "pending" /\ grant.active

Approved(grant) == [grant EXCEPT !.status = "active", !.active = TRUE]

RevokedGrant(grant) == [grant EXCEPT !.status = "revoked", !.active = FALSE, !.revoked = TRUE]

ChangeGrant(r, u, g, allowed, grant) ==
    /\ MayChange(u, g) /\ Stored(g) /\ allowed
    /\ Starts(r, [at |-> "update", id |-> g, read |-> rows[g], grant |-> grant])
    /\ UNCHANGED <<rows, log, clock>>

ApproveGrant(r, u, g) ==
    Stored(g) /\ ChangeGrant(r, u, g, CanBeApproved(rows[g]), Approved(rows[g]))

RevokeGrant(r, u, g) ==
    Stored(g) /\ ChangeGrant(r, u, g, rows[g].active, RevokedGrant(rows[g]))

WrittenGrant(c) == PutRow(c.id, c.grant)

UpdateGrant(r) ==
    LET c == request[r] IN
    /\ c.at = "update"
    /\ WrittenGrant(c)
    /\ log' = [log EXCEPT
          !.ended = IF c.grant.active THEN @ ELSE @ \cup {c.id},
          !.overtaken = OvertakenBy(c.id, c.read),
          !.approvals[c.id] = IF c.grant.status = "active" THEN @ + 1 ELSE @]
    /\ IsAnswered(r)
    /\ UNCHANGED clock

Over == {g \in Ids : Stored(g) /\ rows[g].active /\ rows[g].expiresAt <= clock}

\* The daily job: one statement ends every grant whose time is over.
CheckExpiration ==
    /\ Over # {}
    /\ rows' = [g \in Ids |->
                  IF g \in Over THEN [rows[g] EXCEPT !.active = FALSE, !.status = "expired"]
                  ELSE rows[g]]
    /\ log' = [log EXCEPT !.ended = @ \cup Over]
    /\ UNCHANGED <<request, clock, commands>>

DelegationNext ==
    \/ \E r \in Requests :
          \/ /\ commands < MaxCommands
             /\ \/ \E from, to \in Users, scope \in Scopes, days \in GrantDays,
                      permissions \in SUBSET {"known", "other"} :
                      CreateGrant(r, from, to, scope, days, permissions)
                \/ \E u \in Users, g \in Ids : ApproveGrant(r, u, g) \/ RevokeGrant(r, u, g)
          \/ CheckPath(r) \/ CheckReceived(r) \/ UpdateGrant(r)
          \/ \E g \in Ids, requiresApproval \in BOOLEAN : CreateEntry(r, g, requiresApproval)
    \/ CheckExpiration \/ StopProcess \/ Tick

DelegationSpec == DelegationInit /\ [][DelegationNext]_aggregateVars

-----------------------------------------------------------------------------
DelegationTypeOK == \A g \in Ids : rows[g] \in GrantRow \cup {NoRow}

\* A grant that was revoked or has expired is not in force again, and it is approved once,
\* unless two changes of it overlapped (GrantEntry.approve, checkExpiration).
EndedGrantsStay ==
    \A g \in Ids \ log.overtaken :
        /\ g \in log.ended => ~rows[g].active
        /\ log.approvals[g] <= 1

\* BR-DEL-007: nobody passes on what was delegated to them in a scope, unless the two grants
\* were created together or changes of the first overlapped (NonTransitivePolicy).
NotPassedOn == log.redelegated \subseteq log.unchecked

\* Nobody delegates to one user twice, however the first grant ended, and a chain of grants
\* is not shortened, unless grants are created together (hasDelegationPathFromTo).
NoRepeatedGrant ==
    \A g, h \in Ids :
        g # h /\ Stored(g) /\ Stored(h) /\ {g, h} \cap log.unchecked = {} =>
            <<rows[g].from, rows[g].to>> # <<rows[h].from, rows[h].to>>

DelegationSound == EndedGrantsStay /\ NotPassedOn /\ NoRepeatedGrant

\* "a user cannot delegate to someone who has previously delegated to them, creating a
\* circular delegation pattern"
NotCircular ==
    \A g, h \in Ids :
        Stored(g) /\ Stored(h) /\ {g, h} \cap log.unchecked = {} =>
            <<rows[g].from, rows[g].to>> # <<rows[h].to, rows[h].from>>
=============================================================================
