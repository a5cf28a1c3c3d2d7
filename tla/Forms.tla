------------------------------- MODULE Forms ---------------------------------
(***************************************************************************)
(* Form definitions (src/safe-boot/backend/src/domains/form).  A           *)
(* definition, its sections and its fields are three writes; @@unique of   *)
(* the forms table is the key within the organization, whatever the        *)
(* version.                                                                *)
(***************************************************************************)
EXTENDS AggregateStore

CONSTANT Keys   \* cle_formulaire

\* FormVersion, <<major, minor>>: those that a creation tells apart
Versions == {<<1, 0>>, <<1, 1>>, <<2, 0>>}

FormRow == [key : Keys, version : Versions, published : BOOLEAN,
            sections : BOOLEAN, fields : BOOLEAN]

\* FormVersion.compareTo
IsLessThan(v, w) == v[1] < w[1] \/ (v[1] = w[1] /\ v[2] < w[2])

\* The version a definition may be created with (BR-FRM-004)
FirstVersion(v) == IsLessThan(v, <<2, 0>>) /\ v[1] = 1

FindByKeyAndVersion(key, version) ==
    {i \in Ids : Stored(i) /\ rows[i].key = key /\ rows[i].version = version}

FormInit == StoreInit([created |-> {}, submitted |-> {}, rendered |-> {}], 0)

-----------------------------------------------------------------------------
\* handleCreateForm
CreateForm(r, i, key, version) ==
    /\ ~Stored(i)
    /\ IF FindByKeyAndVersion(key, version) = {} /\ FirstVersion(version)
         THEN Starts(r, [at |-> "definition", id |-> i, key |-> key, version |-> version])
         ELSE StartsAndEnds(r)
    /\ UNCHANGED <<rows, log, clock>>

\* The constraint of the table answers two requests that looked before either had saved.
SaveDefinition(r) ==
    LET c == request[r]
        row == [key |-> c.key, version |-> c.version, published |-> FALSE,
                sections |-> FALSE, fields |-> FALSE] IN
    /\ c.at = "definition"
    /\ IF Stored(c.id) \/ \E i \in Ids : Stored(i) /\ rows[i].key = c.key
         THEN IsAnswered(r) /\ UNCHANGED rows
         ELSE PutRow(c.id, row) /\ GoesOn(r, [c EXCEPT !.at = "sections"])
    /\ UNCHANGED <<log, clock>>

\* Mutant: the event follows the sections.
SaveSections_EventNext(r) ==
    LET c == request[r] IN
    /\ c.at = "sections"
    /\ PutRow(c.id, [rows[c.id] EXCEPT !.sections = TRUE])
    /\ GoesOn(r, [c EXCEPT !.at = "created"])
    /\ UNCHANGED <<log, clock>>

SaveSections(r) ==
    LET c == request[r] IN
    /\ c.at = "sections"
    /\ PutRow(c.id, [rows[c.id] EXCEPT !.sections = TRUE])
    /\ GoesOn(r, [c EXCEPT !.at = "fields"])
    /\ UNCHANGED <<log, clock>>

SaveFields(r) ==
    LET c == request[r] IN
    /\ c.at = "fields"
    /\ PutRow(c.id, [rows[c.id] EXCEPT !.fields = TRUE])
    /\ GoesOn(r, [c EXCEPT !.at = "created"])
    /\ UNCHANGED <<log, clock>>

FormDefinitionCreated(r) ==
    /\ request[r].at = "created"
    /\ log' = [log EXCEPT !.created = @ \cup {request[r].id}]
    /\ IsAnswered(r) /\ UNCHANGED <<rows, clock>>

\* handlePublishForm: any definition that is stored, complete or not, published or not
PublishForm(r, i) ==
    /\ Stored(i)
    /\ Starts(r, [at |-> "publish", id |-> i])
    /\ UNCHANGED <<rows, log, clock>>

\* updateDefinition writes the definition's columns; sections and fields are other tables.
UpdateDefinition(r) ==
    LET c == request[r] IN
    /\ c.at = "publish"
    /\ PutRow(c.id, [rows[c.id] EXCEPT !.published = TRUE])
    /\ IsAnswered(r) /\ UNCHANGED <<log, clock>>

\* handleSubmitForm: the validator is given no fields, and refuses nothing.
SubmitForm(r, i) ==
    /\ Stored(i)
    /\ Starts(r, [at |-> "submit", id |-> i, published |-> rows[i].published])
    /\ UNCHANGED <<rows, log, clock>>

FormSubmitted(r) ==
    LET c == request[r] IN
    /\ c.at = "submit"
    /\ log' = [log EXCEPT !.submitted = @ \cup {[id |-> c.id, published |-> c.published]}]
    /\ IsAnswered(r) /\ UNCHANGED <<rows, clock>>

\* FormRenderer: the fields of a section are those of the repository, which it does not have
\* (_getFieldsInSection); a section that was read is a row and has no getLabel.
FieldsInSection(i) == {}
Render(i) == IF rows[i].sections THEN "throws"
             ELSE IF FieldsInSection(i) = {} THEN "empty" ELSE "fields"

\* handleRenderForm
RenderForm(r, i) ==
    /\ Stored(i)
    /\ StartsAndEnds(r)
    /\ log' = [log EXCEPT !.rendered = @ \cup {[fields |-> rows[i].fields, as |-> Render(i)]}]
    /\ UNCHANGED <<rows, clock>>

FormNext ==
    \/ \E r \in Requests :
          \/ \E i \in Ids :
                \/ \E key \in Keys, version \in Versions : CreateForm(r, i, key, version)
                \/ PublishForm(r, i) \/ SubmitForm(r, i) \/ RenderForm(r, i)
          \/ SaveDefinition(r) \/ SaveSections(r) \/ SaveFields(r) \/ FormDefinitionCreated(r)
          \/ UpdateDefinition(r) \/ FormSubmitted(r)
    \/ StopProcess

FormSpec == FormInit /\ [][FormNext]_aggregateVars

-----------------------------------------------------------------------------
FormTypeOK ==
    /\ rows \in [Ids -> FormRow \cup {NoRow}]
    /\ log.created \subseteq Ids

\* However creations and crashes interleave, an organization has one definition of a key,
\* of major version 1, fields only hang on sections, and one that was announced is
\* complete (handleCreateForm makes three writes and then publishes the event).
FormsSound ==
    \A i \in Ids : Stored(i) =>
        /\ rows[i].version[1] = 1
        /\ rows[i].fields => rows[i].sections
        /\ i \in log.created => rows[i].fields
        /\ \A j \in Ids \ {i} : Stored(j) => rows[j].key # rows[i].key

\* "Publish a form definition, making it available for submissions."
\* (form.service.ts, handlePublishForm): no form is submitted before.
SubmittedOncePublished == \A s \in log.submitted : s.published

\* "Render the entire form definition into a component tree schema." (form-renderer.service.ts,
\* render): no rendering of a definition with fields throws or comes back empty.
RenderedWithFields == \A x \in log.rendered : x.fields => x.as = "fields"

-----------------------------------------------------------------------------
(***************************************************************************)
(* The three validations of a form field (src/safe-boot/backend/src/       *)
(* domains/form): the server's, the field entity's, and the one a client   *)
(* is expected to make.  INV-008 asks that client and server agree.        *)
(*                                                                         *)
(* A value is what the validations can tell of it: its JavaScript type,    *)
(* the length of String(value), Number(value), whether the field's pattern *)
(* matches and a date can be made of it, and its items that are no strings.*)
(***************************************************************************)
NaN == -2
FieldTypes == {"text", "textarea", "number", "date", "select", "multiselect",
               "file_upload", "signature"}

Value(type, length, number, matches, date, others) ==
    [type |-> type, length |-> length, number |-> number, matches |-> matches,
     date |-> date, others |-> others]

EmptyValue == Value("undefined", 0, NaN, FALSE, FALSE, 0)   \* or null, or ''
TextValues == {Value("string", n, NaN, ok, FALSE, 0) : n \in 1 .. 3, ok \in BOOLEAN}
NumeralValues == {Value("string", 1, n, ok, TRUE, 0) : n \in 1 .. 3, ok \in BOOLEAN}
                 \cup {Value("number", 1, n, FALSE, TRUE, 0) : n \in 1 .. 3}
ArrayValues == {Value("array", 0, 0, FALSE, FALSE, 0), Value("array", 1, NaN, FALSE, FALSE, 0),
                Value("array", 1, 2, FALSE, TRUE, 1)}
Values == {EmptyValue} \cup TextValues \cup NumeralValues \cup ArrayValues

\* validateFieldDef: a select or a multiselect names its vocabulary (BR-FRM-001).
FieldDefs ==
    {f \in [type : FieldTypes, required : BOOLEAN, pattern : BOOLEAN, min : {None, 2},
            max : {None, 2}, default : {"string", "object"}, vocabulary : BOOLEAN] :
        f.type \in {"select", "multiselect"} => f.vocabulary}

Count(conditions) == Cardinality({n \in DOMAIN conditions : conditions[n]})

\* The outcome of a validation: the number of errors, and typeof the sanitized value
Outcome(errors, type) == [errors |-> errors, type |-> type]

TypeOf(v) == IF v.type = "array" THEN "object" ELSE v.type

EmptyOutcome(f) == Outcome(IF f.required THEN 1 ELSE 0, f.default)

OutsideBounds(f, n) == Count(<<f.min # None /\ n < f.min, f.max # None /\ n > f.max>>)

TextOutcome(f, v) ==
    Outcome(Count(<<f.pattern /\ ~v.matches>>) + OutsideBounds(f, v.length), "string")

\* Mutant: a number that equals the limit is refused.
NumberOutcome_Strict(f, v) ==
    IF v.number = NaN THEN Outcome(1, "object")
    ELSE Outcome(Count(<<f.min # None /\ v.number <= f.min, f.max # None /\ v.number >= f.max>>),
                 "number")

\* FormValidator._validateField
NumberOutcome(f, v) ==
    IF v.number = NaN THEN Outcome(1, "object") ELSE Outcome(OutsideBounds(f, v.number), "number")

SelectOutcome(f, v) == Outcome(Count(<<v.length = 0, f.vocabulary /\ v.length = 0>>), "string")

MultiselectOutcome(f, v) ==
    IF v.type # "array" THEN Outcome(1, "object") ELSE Outcome(v.others, "object")

ServerValidates(f, v) ==
    IF v = EmptyValue THEN EmptyOutcome(f)
    ELSE CASE f.type \in {"text", "textarea"} -> TextOutcome(f, v)
           [] f.type = "number" -> NumberOutcome(f, v)
           [] f.type = "date" -> Outcome(Count(<<~v.date>>), "string")
           [] f.type = "select" -> SelectOutcome(f, v)
           [] f.type = "multiselect" -> MultiselectOutcome(f, v)
           [] OTHER -> Outcome(0, TypeOf(v))

\* FormField.validateFieldValue: no vocabulary, and null for a required value that is missing
EntityValidates(f, v) ==
    IF v = EmptyValue THEN (IF f.required THEN Outcome(1, "object") ELSE Outcome(0, f.default))
    ELSE CASE f.type \in {"text", "textarea"} -> TextOutcome(f, v)
           [] f.type = "number" /\ v.number = NaN -> Outcome(1, "object")
           [] f.type = "number" /\ v.number # NaN -> Outcome(OutsideBounds(f, v.number), "number")
           [] f.type = "date" -> Outcome(Count(<<~v.date>>), "string")
           [] f.type = "select" -> Outcome(Count(<<v.length = 0>>), "string")
           [] f.type = "multiselect" -> MultiselectOutcome(f, v)
           [] OTHER -> Outcome(0, TypeOf(v))

\* ClientServerValidationMatchPolicy.computeExpectedResult
ClientValidates(f, v) ==
    IF v = EmptyValue THEN EmptyOutcome(f)
    ELSE CASE f.type \in {"text", "textarea"} -> TextOutcome(f, v)
           [] f.type = "number" /\ v.number = NaN -> Outcome(1, "object")
           [] f.type = "number" /\ v.number # NaN -> Outcome(OutsideBounds(f, v.number), "number")
           [] f.type = "date" -> Outcome(Count(<<~v.date>>), TypeOf(v))
           [] f.type = "select" -> IF v.length = 0 THEN Outcome(1, "object") ELSE Outcome(0, "string")
           [] f.type = "multiselect" -> Outcome(Count(<<v.type # "array">>), "object")
           [] OTHER -> Outcome(0, TypeOf(v))

\* assertMatch
Matches(client, server) ==
    /\ (client.errors = 0) = (server.errors = 0)
    /\ client.errors = server.errors
    /\ client.type = server.type

-----------------------------------------------------------------------------
FieldInit == StoreInit([field |-> {}], 0)

\* validateSingleField of a value that a client has validated
ValidateField(r, f, v) ==
    /\ StartsAndEnds(r)
    /\ log' = [field |-> f, value |-> v, server |-> ServerValidates(f, v),
               entity |-> EntityValidates(f, v), client |-> ClientValidates(f, v)]
    /\ UNCHANGED <<rows, clock>>

FieldNext ==
    /\ commands < MaxCommands
    /\ \E r \in Requests, f \in FieldDefs, v \in Values : ValidateField(r, f, v)

FieldSpec == FieldInit /\ [][FieldNext]_aggregateVars

-----------------------------------------------------------------------------
Validated == commands > 0

\* Values that a control of the form can hand over: strings, and lists of strings in a
\* multiselect.  For these the three validations agree on every field (INV-008), except
\* that the entity forgets the default of a required field.
ValidationsMatch ==
    Validated /\ log.value.type # "number" /\ (log.value.type = "array" => log.field.type = "multiselect")
              /\ log.value.others = 0
        => /\ Matches(log.client, log.server)
           /\ log.entity.errors = log.server.errors
           /\ log.entity.type # log.server.type => log.value = EmptyValue

\* "INV-008 violation: Client and server validation mismatch"
\* (client-server-validation-match.policy.ts): there is none.
NoMismatch == Validated => Matches(log.client, log.server)
=============================================================================
