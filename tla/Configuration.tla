---------------------------- MODULE Configuration ----------------------------
(***************************************************************************)
(* Settings of an organization: ConfigurationService of                    *)
(* domains/configuration/application/configuration.service.ts with         *)
(* SettingResolver, SettingValidator and FormatValidationPolicy.  The      *)
(* repository writes one setting at a time; its client is given at the     *)
(* composition root and is modelled from the repository's queries: an      *)
(* update of a row that does not exist fails.                              *)
(*                                                                         *)
(* Ids are keys of settings.  A value is the default of its key, a valid   *)
(* one that is falsy or not, or one that the checks of the key refuse.     *)
(***************************************************************************)
EXTENDS AggregateStore

CONSTANTS
    FormatKeys,  \* \subseteq Ids: keys FormatValidationPolicy checks
    TypedKeys    \* \subseteq Ids: keys ConfigSettingValue.validate checks, FormatKeys among them

Values == {"default", "falsy", "given", "malformed"}

\* Formats are those of strings that are not empty.
ValuesOf(key) == IF key \in FormatKeys THEN Values \ {"falsy"} ELSE Values

SettingRow == [value : Values]

\* log: keys a single update wrote, whether a write overlapped each request, and the answer
\* of each getAllSettings that no write overlapped, next to the table it should show
ConfigurationInit ==
    StoreInit([singly |-> {}, mixed |-> {}, answer |-> <<>>, table |-> <<>>], 0)

-----------------------------------------------------------------------------
(* The checks *)

\* FormatValidationPolicy.validate, then ConfigSettingValue.create, which knows every key
\* and does not look at the value.
FormatValid(key, value) == key \in FormatKeys => value # "malformed"

\* Mutant: the batch is checked as a single update is.
TypeValid_Format(key, value) == FormatValid(key, value)

\* ConfigSettingValue.validate
TypeValid(key, value) == key \in TypedKeys => value # "malformed"

-----------------------------------------------------------------------------
(* updateSetting, bulkUpdateSettings, resetToDefaults *)

\* Requests under way that read or write settings one by one see a mixture from now on.
Mixed(r) == [log EXCEPT !.mixed = @ \cup {s \in Requests \ {r} : request[s] # Idle}]

UpdateSetting(r, key, value) ==
    /\ IF FormatValid(key, value) /\ Stored(key)
       THEN /\ PutRow(key, [value |-> value])
            /\ log' = [Mixed(r) EXCEPT !.singly = @ \cup {key}]
       ELSE UNCHANGED <<rows, log>>
    /\ StartsAndEnds(r)
    /\ UNCHANGED clock

BulkUpdateSettings(r, updates) ==
    /\ Starts(r, IF \A key \in DOMAIN updates : TypeValid(key, updates[key])
                 THEN [at |-> "update", todo |-> DOMAIN updates, values |-> updates]
                 ELSE Idle)
    /\ UNCHANGED <<rows, log, clock>>

ResetToDefaults(r) ==
    /\ Starts(r, [at |-> "update", todo |-> Ids, values |-> [key \in Ids |-> "default"]])
    /\ UNCHANGED <<rows, log, clock>>

\* updateAll: one update after the other; the first that fails ends it.
UpdateNext(r, key) ==
    LET c == request[r] IN
    /\ c.at = "update" /\ key \in c.todo
    /\ IF Stored(key)
       THEN /\ PutRow(key, [value |-> c.values[key]])
            /\ log' = [Mixed(r) EXCEPT !.singly = @ \ {key}]
            /\ GoesOn(r, IF c.todo = {key} THEN Idle ELSE [c EXCEPT !.todo = @ \ {key}])
       ELSE IsAnswered(r) /\ UNCHANGED <<rows, log>>
    /\ UNCHANGED clock

-----------------------------------------------------------------------------
(* getSetting, getAllSettings *)

\* Mutant: a stored value that is falsy is taken for none.
Resolve_Truthy(key) ==
    IF Stored(key) /\ rows[key].value # "falsy" THEN rows[key].value ELSE "default"

Resolve(key) == IF Stored(key) THEN rows[key].value ELSE "default"

GetAllSettings(r) ==
    /\ Starts(r, [at |-> "read", todo |-> Ids, result |-> <<>>])
    /\ log' = [log EXCEPT !.mixed = @ \ {r}]
    /\ UNCHANGED <<rows, clock>>

ReadNext(r, key) ==
    LET c == request[r]
        result == [k \in DOMAIN c.result \cup {key} |->
                      IF k = key THEN Resolve(key) ELSE c.result[k]]
    IN  /\ c.at = "read" /\ key \in c.todo
        /\ GoesOn(r, IF c.todo = {key} THEN Idle
                     ELSE [c EXCEPT !.todo = @ \ {key}, !.result = result])
        /\ log' = IF c.todo = {key} /\ r \notin log.mixed
                  THEN [log EXCEPT !.answer = result, !.table = rows] ELSE log
        /\ UNCHANGED <<rows, clock>>

-----------------------------------------------------------------------------
\* A setting's row, created by whoever sets the organization up
CreateSetting(key) ==
    /\ commands < MaxCommands /\ commands' = commands + 1
    /\ ~Stored(key)
    /\ PutRow(key, [value |-> "default"])
    /\ log' = [log EXCEPT !.mixed = Requests]
    /\ UNCHANGED <<request, clock>>

ConfigurationNext ==
    \/ \E r \in Requests :
          \/ /\ commands < MaxCommands
             /\ \/ \E key \in Ids : \E value \in ValuesOf(key) : UpdateSetting(r, key, value)
                \/ \E keys \in (SUBSET Ids) \ {{}} : \E updates \in [keys -> Values \ {"default"}] :
                      /\ \A key \in keys : updates[key] \in ValuesOf(key)
                      /\ BulkUpdateSettings(r, updates)
                \/ ResetToDefaults(r) \/ GetAllSettings(r)
          \/ \E key \in Ids : UpdateNext(r, key) \/ ReadNext(r, key)
    \/ \E key \in Ids : CreateSetting(key)
    \/ StopProcess

-----------------------------------------------------------------------------
ConfigurationTypeOK == \A key \in Ids : rows[key] \in SettingRow \cup {NoRow}

\* A bulk update stores no value its key refuses, whatever it overlaps
\* (bulkUpdateSettings, SettingValidator.validateBatch).
BulkIsValidated ==
    \A key \in TypedKeys \ log.singly : Stored(key) => rows[key].value # "malformed"

\* getAllSettings, when no write comes between, answers what is stored for every key and
\* the default for the others, also for false and zero (SettingResolver.resolveAll).
AnswerIsMerged ==
    \A key \in DOMAIN log.answer :
        log.answer[key] = IF log.table[key] = NoRow THEN "default" ELSE log.table[key].value

ConfigurationSound == BulkIsValidated /\ AnswerIsMerged

\* "Validate typed value", for a single update as for a batch.
StoredIsTyped ==
    \A key \in Ids : Stored(key) => TypeValid(key, rows[key].value)
=============================================================================
