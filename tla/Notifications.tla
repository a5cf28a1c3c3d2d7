---------------------------- MODULE Notifications ----------------------------
(***************************************************************************)
(* Notifications of one user (src/safe-boot/backend/src/domains/           *)
(* notification): the messages, and the user's preferences, a row of their *)
(* own that is read whole and written whole.  The repository is the port:  *)
(* its adapter is not written yet.                                         *)
(***************************************************************************)
EXTENDS AggregateStore

CONSTANT Preference   \* in Ids: the id of the preference row

Messages == Ids \ {Preference}
ChannelType == {"in_app", "email"}   \* push and sms are optional like email
Status == {"queued", "sending", "sent", "failed", "read"}
Limits == {0, 1, 1001}

MessageRow == [channel : ChannelType, status : Status]
PreferenceRow == [channels : SUBSET ChannelType, limit : Limits, quiet : BOOLEAN]

\* The fields an updatePreferences command names
Namings == [channels : SUBSET ChannelType] \cup [limit : Limits]
           \cup [channels : SUBSET ChannelType, limit : Limits]

DefaultPreference == [channels |-> {"in_app"}, limit |-> 1, quiet |-> FALSE]

\* RateLimitConfig
LimitValid(limit) == limit \in 1 .. 1000

\* NotificationPreference.fromPersistence throws for a limit that was stored unchecked.
Readable(row) == row = NoRow \/ LimitValid(row.limit)
FromPersistence(row) == IF row = NoRow THEN DefaultPreference ELSE row

\* resolveChannels filters the channels of the preference.
ResolveChannels(pref) == {c \in pref.channels : c = "in_app" \/ c \in pref.channels}

\* Mutant: whatever is not sent or failed yet can be sent.
CanSend_NotFinal(status) == status \notin {"sent", "failed", "read"}

CanSend(status) == status = "queued"

\* NotificationMessage.fromPersistence reads canal, severite and corps_fr, and the port's
\* record has channel, severity and body_fr.
ChannelRead(row) == "undefined"

\* The ports of the router's map that are available
Available == ChannelType

(* QuietHoursPolicy, on minutes of a day; a preference read from the table has mode active *)
Minutes == 0 .. 4
ModeRead(row) == "active"

\* Mutant: a window that goes over midnight is compared like any other.
InQuietHours_NoWrap(start, end, now) == now >= start /\ now < end

InQuietHours(start, end, now) ==
    IF start <= end THEN now >= start /\ now < end ELSE now >= start \/ now < end

IsWithinAllowedWindow(critical, mode, start, end, now) ==
    critical \/ mode # "quiet_hours" \/ ~InQuietHours(start, end, now)

\* RateLimitEnforcer.enforce counts nothing.
Enforce(pref) == TRUE

NotificationInit ==
    StoreInit([asked |-> DefaultPreference, overtaken |-> {}, tries |-> [i \in Messages |-> 0],
               suppressed |-> {}, undelivered |-> {}], 0)

-----------------------------------------------------------------------------
\* queueNotification reads the preference, and then saves.
QueueNotification(r, i, channel) ==
    LET pref == rows[Preference] IN
    /\ ~Stored(i)
    /\ IF Readable(pref) /\ channel \in ResolveChannels(FromPersistence(pref))
         THEN Starts(r, [at |-> "save", id |-> i, channel |-> channel]) /\ UNCHANGED log
         ELSE /\ StartsAndEnds(r)
              /\ log' = IF Readable(pref) THEN [log EXCEPT !.suppressed = @ \cup {channel}] ELSE log
    /\ UNCHANGED <<rows, clock>>

SaveNotification(r) ==
    LET c == request[r] IN
    /\ c.at = "save"
    /\ IF Stored(c.id) THEN UNCHANGED rows
         ELSE PutRow(c.id, [channel |-> c.channel, status |-> "queued"])
    /\ IsAnswered(r) /\ UNCHANGED <<log, clock>>

\* sendNotification: the row, and the preference, which has to be readable
SendNotification(r, i) ==
    /\ Stored(i)
    /\ IF CanSend(rows[i].status) /\ Readable(rows[Preference]) /\ Enforce(rows[Preference])
         THEN Starts(r, [at |-> "sending", id |-> i, read |-> rows[i]]) ELSE StartsAndEnds(r)
    /\ UNCHANGED <<rows, log, clock>>

MarkSending(r) ==
    LET c == request[r] IN
    /\ c.at = "sending"
    /\ PutRow(c.id, [rows[c.id] EXCEPT !.status = "sending"])
    /\ log' = [log EXCEPT !.overtaken = OvertakenBy(c.id, c.read)]
    /\ GoesOn(r, [at |-> "deliver", id |-> c.id])
    /\ UNCHANGED clock

\* The router's deliver: the quiet hours, then the port of the message's channel
Deliver(r) ==
    LET c == request[r]
        allowed == \A start, end, now \in Minutes :
                      IsWithinAllowedWindow(FALSE, ModeRead(rows[Preference]), start, end, now)
        success == allowed /\ ChannelRead(rows[c.id]) \in Available IN
    /\ c.at = "deliver"
    /\ log' = [log EXCEPT !.tries[c.id] = @ + 1,
                          !.undelivered = IF success THEN @ ELSE @ \cup {rows[c.id].channel}]
    /\ GoesOn(r, [at |-> "outcome", id |-> c.id, status |-> IF success THEN "sent" ELSE "failed"])
    /\ UNCHANGED <<rows, clock>>

UpdateStatus(r) ==
    LET c == request[r] IN
    /\ c.at = "outcome"
    /\ PutRow(c.id, [rows[c.id] EXCEPT !.status = c.status])
    /\ IsAnswered(r) /\ UNCHANGED <<log, clock>>

\* markAsRead
MarkAsRead(r, i) ==
    /\ Stored(i)
    /\ IF rows[i].status = "sent" THEN Starts(r, [at |-> "outcome", id |-> i, status |-> "read"])
                                  ELSE StartsAndEnds(r)
    /\ UNCHANGED <<rows, log, clock>>

\* A command on the preference: what it names replaces what it has read.
ChangesPreference(r, named) ==
    /\ Starts(r, [at |-> "upsert", named |-> named, read |-> rows[Preference]])
    /\ UNCHANGED <<rows, log, clock>>

UpdatePreferences(r, named) == named \in Namings /\ ChangesPreference(r, named)

SetRateLimit(r, limit) ==
    /\ LimitValid(limit)
    /\ ChangesPreference(r, [limit |-> limit])

\* suppressUntil is for users that have a preference.
SuppressUntil(r) ==
    /\ Stored(Preference)
    /\ ChangesPreference(r, [quiet |-> TRUE])

Named(pref, named) == [f \in DOMAIN pref |-> IF f \in DOMAIN named THEN named[f] ELSE pref[f]]

\* Mutant: what is not named goes back to the default.
Updated_OnDefault(read, named) == Named(DefaultPreference, named)

Updated(read, named) == Named(FromPersistence(read), named)

UpsertPreference(r) ==
    LET c == request[r] IN
    /\ c.at = "upsert"
    /\ PutRow(Preference, Updated(c.read, c.named))
    /\ log' = [log EXCEPT !.asked = Named(@, c.named), !.overtaken = OvertakenBy(Preference, c.read)]
    /\ IsAnswered(r) /\ UNCHANGED clock

NotificationNext ==
    \/ \E r \in Requests :
          \/ \E i \in Messages :
                \/ \E channel \in ChannelType : QueueNotification(r, i, channel)
                \/ SendNotification(r, i) \/ MarkAsRead(r, i)
          \/ \E named \in Namings : UpdatePreferences(r, named)
          \/ \E limit \in Limits : SetRateLimit(r, limit)
          \/ SuppressUntil(r)
          \/ SaveNotification(r) \/ MarkSending(r) \/ Deliver(r) \/ UpdateStatus(r)
          \/ UpsertPreference(r)
    \/ StopProcess

NotificationSpec == NotificationInit /\ [][NotificationNext]_aggregateVars

-----------------------------------------------------------------------------
NotificationTypeOK ==
    /\ \A i \in Messages : rows[i] \in MessageRow \cup {NoRow}
    /\ rows[Preference] \in PreferenceRow \cup {NoRow}

\* A message is handed to the router twice only if two sends had both read it 'queued'
\* (sendNotification checks, awaits and then marks it); crashes never repeat one.
HandedOverOnce ==
    \A i \in Messages : log.tries[i] <= 1 \/ i \in log.overtaken

\* No setting is lost: what a command named last is in the preference until another names
\* it, unless one wrote over what it had not read (the record is written whole).
SettingsKept ==
    Stored(Preference) /\ Preference \notin log.overtaken => rows[Preference] = log.asked

\* The quiet hours of a preference are one interval of the day that begins at the start, ends
\* before the end, and may go over midnight: without an end they are empty, a critical message
\* is never held back, and no mode but 'quiet_hours' holds any back (BR-NOT-005).  No variable
\* counts here: one state is enough.
QuietHoursAreOneInterval ==
    commands = 0 =>
    \A start, end, now \in Minutes :
       LET from(minute) == (minute - start) % Cardinality(Minutes)
           quiet == from(now) < from(end) IN
       /\ IsWithinAllowedWindow(FALSE, "quiet_hours", start, end, now) = ~quiet
       /\ IsWithinAllowedWindow(TRUE, "quiet_hours", start, end, now)
       /\ IsWithinAllowedWindow(FALSE, "active", start, end, now)

NotificationsSound == HandedOverOnce /\ SettingsKept /\ QuietHoursAreOneInterval

\* "Should never happen for in_app per BR-NOT-003." (in-app-channel.adapter.ts): no
\* delivery of an in-app message fails.
InAppDelivered == "in_app" \notin log.undelivered

\* "In-app is always allowed per BR-NOT-003 (offline first, never suppressed)."
\* (channel-preference-policy.ts): no in-app message is refused for its channel.
InAppNeverSuppressed == "in_app" \notin log.suppressed
=============================================================================
