----------------------------- MODULE ClientConfig -----------------------------
(***************************************************************************)
(* How the client comes by its configuration.  A text becomes data:        *)
(* validateConfig (src/shared/json-validation.ts) parses and validates it, *)
(* after repairs if it does not parse (json-preprocess.ts), with compiled  *)
(* validators cached by key (ajv-validator.ts); robustParseJSON and        *)
(* ManifestEngine.compileFromJson are two more ways in.  And two versions  *)
(* of a manifest become one: ManifestConflictResolver (offline-runtime/    *)
(* conflict-resolver.ts).                                                  *)
(*                                                                         *)
(* A text is a sequence of lexemes: "quote" and "single" are the two kinds *)
(* of quote, "a" any other character of a string; a fence is text before   *)
(* and after the braces like any other.  The data is an object, known by   *)
(* its members: the strings between commas.                                *)
(***************************************************************************)
EXTENDS ClientStore, SequencesExt, FiniteSetsExt

CONSTANTS
    Keys,        \* schema keys
    Schemas,     \* a schema is the largest number of members it admits
    MaxLength,   \* bound: lexemes of a text
    Permissions  \* what a manifest may require

Lexemes == {"{", "}", ",", "single", "quote", "//", "newline", "a"}
NotData == <<"not JSON">>

\* JSON.parse, of what is modelled of JSON: the state of the parser after each lexeme
Parser(text) ==
    FoldLeft(LAMBDA p, x :
        CASE p.at = "string" ->
                 IF x = "quote" THEN [p EXCEPT !.at = "member"]
                 ELSE IF x = "newline" THEN [p EXCEPT !.at = "error"]
                 ELSE [p EXCEPT !.data[Len(p.data)] = Append(@, x)]
          [] x = "newline" -> p
          [] p.at = "start" /\ x = "{" -> [p EXCEPT !.at = "open"]
          [] p.at \in {"open", "comma"} /\ x = "quote" ->
                 [at |-> "string", data |-> Append(p.data, <<>>)]
          [] p.at = "member" /\ x = "," -> [p EXCEPT !.at = "comma"]
          [] p.at \in {"open", "member"} /\ x = "}" -> [p EXCEPT !.at = "done"]
          [] OTHER -> [p EXCEPT !.at = "error"],
        [at |-> "start", data |-> <<>>], text)

Parse(text) == LET p == Parser(text) IN IF p.at = "done" THEN p.data ELSE NotData

-----------------------------------------------------------------------------
(* preprocessAIRawJSON *)

At(text, x) == {i \in DOMAIN text : text[i] = x}

Keep(text, places) ==
    LET order == SetToSortSeq(places, <) IN [k \in DOMAIN order |-> text[order[k]]]

\* A text without any brace is nothing after the second step.
CutToBraces(text) ==
    LET first == IF At(text, "{") = {} THEN 1 ELSE Min(At(text, "{"))
        body == SubSeq(text, first, Len(text)) IN
    IF At(body, "}") = {} THEN <<>> ELSE SubSeq(body, 1, Max(At(body, "}")))

NextSolid(text, i) ==
    LET later == {j \in DOMAIN text : j > i /\ text[j] # "newline"} IN
    IF later = {} THEN "none" ELSE text[Min(later)]

FixTrailingCommas(text) ==
    Keep(text, {i \in DOMAIN text : ~(text[i] = "," /\ NextSolid(text, i) = "}")})

\* convertSingleQuotes: the quotes inside the other ones stay what they are.
ConvertSingleQuotes(text) ==
    LET step(s, x) ==
            [open |-> IF x \notin {"single", "quote"} THEN s.open
                      ELSE IF s.open = "none" THEN x ELSE IF s.open = x THEN "none" ELSE s.open,
             out |-> Append(s.out, IF x = "single" /\ s.open \in {"none", "single"} THEN "quote" ELSE x)]
    IN FoldLeft(step, [open |-> "none", out |-> <<>>], text).out

RemoveComments(text) ==
    Keep(text, {i \in DOMAIN text :
                   ~\E j \in At(text, "//") :
                       j <= i /\ \A k \in j .. i : text[k] # "newline"})

PreprocessAIRawJSON(text) ==
    RemoveComments(ConvertSingleQuotes(FixTrailingCommas(CutToBraces(text))))

-----------------------------------------------------------------------------
\* memory: the schema of each key's compiled validator; outside: a text that is loaded;
\* log: the last answer, with the key and the schema that were asked for
ParsingInit ==
    \E n \in 0 .. MaxLength : \E text \in [1 .. n -> Lexemes] :
        ClientInit([k \in Keys |-> None], {}, [text |-> text], [result |-> "none"])

\* compileValidator: the schema counts only the first time.
Compiled(validators, key, schema) ==
    IF validators[key] # None THEN validators ELSE [validators EXCEPT ![key] = schema]

Admits(schema, data) == Len(data) <= schema

\* validateConfig: what parses and fails the schema is not repaired.  The validator of
\* repaired data has a key of its own.
\* Mutant: repaired data is validated under the key of direct data.
Attempt_Both(text, key) ==
    LET direct == Parse(text)  repaired == Parse(PreprocessAIRawJSON(text)) IN
    IF direct # NotData THEN [key |-> key.direct, data |-> direct, tier |-> "direct"]
    ELSE [key |-> key.direct, data |-> repaired, tier |-> "preprocessed"]

Attempt(text, key) ==
    LET direct == Parse(text)  repaired == Parse(PreprocessAIRawJSON(text)) IN
    IF direct # NotData THEN [key |-> key.direct, data |-> direct, tier |-> "direct"]
    ELSE [key |-> key.preprocessed, data |-> repaired, tier |-> "preprocessed"]

KeyPairs == {[direct |-> k, preprocessed |-> p] : k, p \in Keys}

ValidateConfig(key, schema) ==
    LET a == Attempt(outside.text, key)
        validators == IF a.data = NotData THEN memory ELSE Compiled(memory, a.key, schema) IN
    /\ key.direct # key.preprocessed
    /\ Called
    /\ memory' = validators
    /\ log' = IF a.data = NotData THEN [result |-> "all-failed"]
              ELSE IF ~Admits(validators[a.key], a.data) THEN [result |-> "schema-failed"]
              ELSE [result |-> "success", tier |-> a.tier, data |-> a.data,
                    key |-> key, schema |-> schema]
    /\ UNCHANGED <<disk, outside>>

\* compileFromJson: no repairs
CompileFromJson(key, schema) ==
    LET data == Parse(outside.text)
        validators == IF data = NotData THEN memory ELSE Compiled(memory, key.direct, schema) IN
    /\ Called
    /\ memory' = validators
    /\ log' = IF data = NotData \/ ~Admits(validators[key.direct], data)
                THEN [result |-> "ManifestValidationError"]
                ELSE [result |-> "success", tier |-> "direct", data |-> data,
                      key |-> key, schema |-> schema]
    /\ UNCHANGED <<disk, outside>>

ParsingNext ==
    \E key \in KeyPairs, schema \in Schemas :
        ValidateConfig(key, schema) \/ CompileFromJson(key, schema)

-----------------------------------------------------------------------------
\* Data that is returned passed the validator of the key it was asked for, and data of
\* the direct tier is what the text says: a text that parses is never repaired
\* (validateConfig in json-validation.ts).
ReturnedIsValidated ==
    log.result = "success" =>
        LET k == IF log.tier = "direct" THEN log.key.direct ELSE log.key.preprocessed IN
        /\ memory[k] # None /\ Admits(memory[k], log.data)
        /\ (log.tier = "direct") = (Parse(outside.text) # NotData)
        /\ log.tier = "direct" => log.data = Parse(outside.text)

\* "Validate a raw JSON string against a JSON Schema": the one the caller gave
GivenSchemaHolds == log.result = "success" => Admits(log.schema, log.data)

\* "Applying this twice produces the same result as once."
RepairedOnce ==
    LET once == PreprocessAIRawJSON(outside.text) IN PreprocessAIRawJSON(once) = once

-----------------------------------------------------------------------------
(* ManifestConflictResolver: the client's manifest and the server's start  *)
(* out the same, both are edited, then they are compared and merged.  A    *)
(* manifest is seen as five fields, one for each way the resolver treats a *)
(* path: a translation of a label, which may be absent; a toggle; a        *)
(* version; any path the resolver does not know; and one list of required  *)
(* permissions.  Values are 1, 2; the delta of jsondiffpatch is modelled   *)
(* by what it holds: [new] for what the client has in addition, [old, 0,   *)
(* 0] for what it has not, [old, new] for a change, and for a list of      *)
(* strings an addition at each new index and a key like "_1" that no       *)
(* element has for each removal or move.                                   *)

Scalars == {"label", "enabled", "version", "other"}
AbsentValue == 0
Zero == 9          \* the number 0 of a deletion's delta, written as if it were a value
UndefinedValue == 8
Values(f) == IF f = "label" THEN {AbsentValue, 1, 2} ELSE {1, 2}

Edited == Over([f \in Scalars |-> 1], [permissions |-> <<CHOOSE p \in Permissions : TRUE>>])
Unmerged == [outcome |-> "none"]

MergeInit == ClientInit([client |-> Edited], {}, [server |-> Edited], Unmerged)

\* STRATEGY_MAP, by the first name of the map the path contains
StrategyForPath(f) ==
    CASE f \in {"enabled", "label", "permissions"} -> "merge"
      [] f = "version" -> "server-wins"
      [] OTHER -> "manual-review"

\* _walkDiff of the delta of a scalar: an addition looks like a value of the server.
\* Mutant: the two sides are swapped.
Difference_Swapped(s, c) == [server |-> c, client |-> s]

Difference(s, c) ==
    IF s = AbsentValue THEN [server |-> c, client |-> UndefinedValue]
    ELSE IF c = AbsentValue THEN [server |-> s, client |-> Zero]
    ELSE [server |-> s, client |-> c]

\* Indices of the client's list whose element the server's list does not have
AddedAt(s, c) == {j \in DOMAIN c : c[j] \notin Range(s)}

Differing(server, client) == {f \in DOMAIN server : server[f] # client[f]}

\* _recommendStrategy
Recommended(fields) ==
    IF \E f \in fields : StrategyForPath(f) = "manual-review" THEN "manual-review"
    ELSE IF \E f \in fields : StrategyForPath(f) = "merge" THEN "merge"
    ELSE "server-wins"

\* _applyAtPath: undefined is nothing in JSON
Applied(value) == IF value = UndefinedValue THEN AbsentValue ELSE value

\* Of each addition the server's element at that index is overwritten with undefined.
MergedList(s, c) ==
    LET last == Max({Len(s)} \cup AddedAt(s, c)) IN
    [j \in 1 .. last |-> IF j \in AddedAt(s, c) \/ j > Len(s) THEN "undefined" ELSE s[j]]

\* merge, when no field is for manual review
\* Mutant: server-wins fields are taken from the client as well.
MergedField_ClientWins(f, s, c) ==
    IF s[f] = c[f] THEN s[f]
    ELSE IF f = "permissions" THEN MergedList(s[f], c[f])
    ELSE Applied(Difference(s[f], c[f]).client)

MergedField(f, s, c) ==
    IF s[f] = c[f] \/ StrategyForPath(f) = "server-wins" THEN s[f]
    ELSE IF f = "permissions" THEN MergedList(s[f], c[f])
    ELSE Applied(Difference(s[f], c[f]).client)

Merged(s, c) == [f \in DOMAIN s |-> MergedField(f, s, c)]

-----------------------------------------------------------------------------
\* The edited copies of a manifest
EditsOf(m) ==
    (UNION {{[m EXCEPT ![f] = v] : v \in Values(f)} : f \in Scalars})
        \cup {[m EXCEPT !.permissions = Append(@, p)] : p \in Permissions \ Range(m.permissions)}
        \cup {[m EXCEPT !.permissions = Remove(@, p)] : p \in Range(m.permissions)}

ClientEdits ==
    /\ log = Unmerged /\ Called
    /\ \E m \in EditsOf(memory.client) : memory' = [memory EXCEPT !.client = m]
    /\ UNCHANGED <<disk, outside, log>>

ServerIsEdited ==
    /\ log = Unmerged /\ Called
    /\ \E m \in EditsOf(outside.server) : outside' = [outside EXCEPT !.server = m]
    /\ UNCHANGED <<memory, disk, log>>

\* compare, then merge of the conflict
CompareAndMerge ==
    LET s == outside.server  c == memory.client IN
    /\ log = Unmerged
    /\ log' = IF s = c THEN [outcome |-> "no conflict"]
              ELSE IF Recommended(Differing(s, c)) = "manual-review" THEN [outcome |-> "review"]
              ELSE [outcome |-> "merged", manifest |-> Merged(s, c)]
    /\ UNCHANGED <<memory, disk, outside, call, calls>>

MergeNext == ClientEdits \/ ServerIsEdited \/ CompareAndMerge

-----------------------------------------------------------------------------
\* A merge takes what only the server decides from the server, and each toggle or label
\* that both sides have as the client has it (merge in conflict-resolver.ts).
MergeTakesSides ==
    log.outcome = "merged" =>
        LET s == outside.server  c == memory.client  m == log.manifest IN
        /\ m.version = s.version /\ m.other = s.other
        /\ m.enabled = c.enabled
        /\ s.label # AbsentValue /\ c.label # AbsentValue => m.label = c.label

\* "permission sets merge via union"
PermissionsAreUnited ==
    log.outcome = "merged" =>
        Range(log.manifest.permissions)
            = Range(outside.server.permissions) \cup Range(memory.client.permissions)

\* "vocab labels are org-specific": a translation the client added is in the merge.
AdditionsAreKept ==
    log.outcome = "merged" /\ memory.client.label # AbsentValue
        => log.manifest.label = memory.client.label
=============================================================================
