------------------------------- MODULE Invite -------------------------------
(***************************************************************************)
(* Invitations (src/safe-boot/backend/src/domains/invite).  A command of   *)
(* InviteService reads the row, checks and changes the entity, writes the  *)
(* whole row back and then emits the entity's events; requests overlap at  *)
(* every await.                                                            *)
(*                                                                         *)
(* A token is represented by the instant it was generated at: generate-    *)
(* Token hashes 'temp', the organization and the time, so two invitations  *)
(* of one organization and one millisecond have the same token.  Names,    *)
(* addresses, roles and scopes only pass or fail validation: `wellFormed`. *)
(***************************************************************************)
EXTENDS AggregateStore

CONSTANTS
    AskedDays,  \* validityDays that callers ask for
    MaxDays     \* MAX_VALIDITY_DAYS

Final == {"accepted", "rejected", "expired", "revoked"}
InviteStatus == {"created", "sent", "pending"} \cup Final
Invitation == [status : InviteStatus, expiresAt : Nat, token : Nat \cup {None},
               usageCount : 0 .. 1, acceptedAt : Nat \cup {None}]

\* The constructor of InviteToken refuses a deadline in the past, and every read of a
\* row with a token goes through it: an overdue invitation cannot be read any more.
Loadable(i) ==
    /\ Stored(i)
    /\ rows[i].token # None => rows[i].expiresAt >= clock

\* fromPersistence makes a fresh InviteToken, with no use counted.
FromPersistence(i) == [rows[i] EXCEPT !.usageCount = 0]

\* InviteValidator.validateCreationParams; the six checks of texts are one flag
CreationParamsValid(days, wellFormed) == wellFormed /\ days \in 1 .. MaxDays

TokenExpired(e) == clock > e.expiresAt
RemainingUsage(e) == 1 - e.usageCount

\* UsageLimitPolicy.validateTokenForUsage
TokenUsable(e, token) ==
    /\ e.token # None /\ e.token = token
    /\ ~TokenExpired(e)
    /\ RemainingUsage(e) > 0

\* InviteValidator.canBeRejected, canBeRevoked; NeverDeletePolicy
\* Mutant: accepted invitations can be rejected.
CanBeRejected_Accepted(e) == e.status \in {"sent", "pending", "accepted"}

CanBeRejected(e) == e.status \in {"sent", "pending"}
CanBeRevoked(e) == e.status \notin Final
IsFinalStatus(e) == e.status \in Final

\* The entity's transitions
Accepted(e) == [status |-> "accepted", expiresAt |-> e.expiresAt, token |-> e.token,
                usageCount |-> e.usageCount + 1, acceptedAt |-> clock]
Rejected(e) == [e EXCEPT !.status = "rejected"]
Revoked(e)  == [e EXCEPT !.status = "revoked", !.token = None]
Expired(e)  == [e EXCEPT !.status = "expired", !.token = None]
Sent(e)     == [e EXCEPT !.status = "sent"]

\* log: how many MembershipCreatedFromInvite events each invitation has led to, and the
\* sent invitations their inviter failed to revoke
InviteInit == StoreInit([joined |-> [i \in Ids |-> 0], overtaken |-> {}, refused |-> {}], 0)

-----------------------------------------------------------------------------
InsertInvite(i, entity) == PutRow(i, entity)

\* create writes a row nobody else knows yet; the events it emits concern no member.
CreateInvite(r, i, days, wellFormed) ==
    /\ ~Stored(i) /\ CreationParamsValid(days, wellFormed)
    /\ InsertInvite(i, [status |-> "created", expiresAt |-> clock + days, token |-> clock,
                        usageCount |-> 0, acceptedAt |-> None])
    /\ StartsAndEnds(r)
    /\ UNCHANGED <<log, clock>>

\* findById found the invitation
Found(i) == Loadable(i)

\* The request goes on to update() with the changed entity.
Holds(r, i, entity) ==
    /\ Starts(r, [at |-> "update", id |-> i, read |-> rows[i], entity |-> entity])
    /\ UNCHANGED <<rows, clock>>

SendInvite(r, i) ==
    /\ Found(i) /\ rows[i].status = "created"
    /\ Holds(r, i, Sent(FromPersistence(i)))
    /\ UNCHANGED log

\* Mutant: the status is not looked at.
AcceptInvite_AnyStatus(r, i, token) ==
    LET e == FromPersistence(i) IN
    /\ Found(i)
    /\ TokenUsable(e, token)
    /\ Holds(r, i, Accepted(e))
    /\ UNCHANGED log

\* expireIfPastDue after the update leaves an accepted invitation alone.
AcceptInvite(r, i, token) ==
    LET e == FromPersistence(i) IN
    /\ Found(i) /\ e.status \in {"sent", "pending"}
    /\ TokenUsable(e, token)
    /\ Holds(r, i, Accepted(e))
    /\ UNCHANGED log

RejectInvite(r, i) ==
    /\ Found(i) /\ CanBeRejected(rows[i])
    /\ Holds(r, i, Rejected(FromPersistence(i)))
    /\ UNCHANGED log

\* By the inviter.  ensureValidFinalStatus is asked about the status before the change.
RevokeInvite(r, i) ==
    LET e == FromPersistence(i) IN
    /\ Found(i) /\ CanBeRevoked(e)
    /\ IF IsFinalStatus(e)
         THEN Holds(r, i, Revoked(e)) /\ UNCHANGED log
         ELSE /\ log' = [log EXCEPT !.refused = @ \cup {i}]
              /\ StartsAndEnds(r)
              /\ UNCHANGED <<rows, clock>>

\* Nothing compares the deadline with the time.
ExpireInvite(r, i) ==
    /\ Found(i) /\ rows[i].status \notin {"accepted", "rejected"}
    /\ Holds(r, i, Expired(FromPersistence(i)))
    /\ UNCHANGED log

\* repository.update: by id, whatever the row is by now
UpdateInvite(r) ==
    LET c == request[r] IN
    /\ c.at = "update"
    /\ PutRow(c.id, c.entity)
    /\ log' = [log EXCEPT !.overtaken = OvertakenBy(c.id, c.read)]
    /\ GoesOn(r, [c EXCEPT !.at = "emit"])
    /\ UNCHANGED clock

EmitInviteEvents(r) ==
    LET c == request[r] IN
    /\ c.at = "emit"
    /\ log' = IF c.entity.status = "accepted" THEN [log EXCEPT !.joined[c.id] = @ + 1] ELSE log
    /\ IsAnswered(r)
    /\ UNCHANGED <<rows, clock>>

InviteNext ==
    \/ \E r \in Requests, i \in Ids :
          \/ \E days \in AskedDays, ok \in BOOLEAN : CreateInvite(r, i, days, ok)
          \/ SendInvite(r, i)
          \/ \E token \in 0 .. LastTick : AcceptInvite(r, i, token)
          \/ RejectInvite(r, i)
          \/ RevokeInvite(r, i)
          \/ ExpireInvite(r, i)
    \/ \E r \in Requests : UpdateInvite(r) \/ EmitInviteEvents(r)
    \/ StopProcess
    \/ Tick

InviteSpec == InviteInit /\ [][InviteNext]_aggregateVars

-----------------------------------------------------------------------------
InviteTypeOK ==
    /\ rows \in [Ids -> Invitation \cup {NoRow}]
    /\ \A r \in Requests : request[r] = Idle \/ request[r].entity \in Invitation
    /\ log.joined \in [Ids -> 0 .. MaxCommands]

\* Unless a request overwrote what another had written meanwhile, an invitation makes at
\* most one member, it makes none without being accepted, and the acceptance was in time
\* (BR-INV-001, BR-INV-002; accept in invite-service.ts).
JoinedOnceInTime ==
    \A i \in Ids \ log.overtaken :
        /\ log.joined[i] <= 1
        /\ log.joined[i] = 1 => /\ rows[i].status = "accepted"
                            /\ rows[i].acceptedAt <= rows[i].expiresAt

\* A status out of which isValidStatusTransition leads nowhere is left only by a write
\* that overtakes another request's (update in prisma-invite.repository.ts, by id alone).
FinalInviteStep ==
    \A i \in Ids :
        Stored(i) /\ rows[i].status \in Final /\ rows'[i].status # rows[i].status
           => i \in log'.overtaken
FinalInvitesStay == [][FinalInviteStep]_aggregateVars

\* checkExpiredInvitations: the invitations findActiveByOrg can read and whose deadline
\* is past; with one that it cannot read the whole query throws.
Overdue(i) == clock > rows[i].expiresAt
ActiveInvites == {i \in Ids : Stored(i) /\ rows[i].status \in {"sent", "pending"}}
CheckExpiredInvitations ==
    IF \A i \in ActiveInvites : Loadable(i)
      THEN {i \in ActiveInvites : Overdue(i)} ELSE {}

\* BR-INV-001, "Automatic expiration": the query for overdue invitations finds them.
OverdueIsReported ==
    \A i \in ActiveInvites : Overdue(i) => i \in CheckExpiredInvitations

\* The comment of the entity has "sent -> pending -> revoked" and NeverDeletePolicy
\* refers to revoke(): an inviter who revokes an open invitation is not refused.
InviterCanRevoke == log.refused = {}
=============================================================================
