--------------------------- MODULE ManifestEngines ---------------------------
(***************************************************************************)
(* What the compiled manifest decides on the client: who may do what       *)
(* (src/shared/capability/capability-engine.ts), which transitions a       *)
(* declared workflow allows (workflow/workflow-engine.ts), under which     *)
(* label a term is shown (vocabulary/vocabulary-engine.ts), and what a     *)
(* field of a generated form takes (forms/forms-engine.ts).                *)
(*                                                                         *)
(* memory is the manifest: permissions of the roles it declares, a feature *)
(* with its toggle and required permissions, a workflow (type and          *)
(* transitions of each of its nodes) and the labels of a term by locale.   *)
(* The schema (manifest/org-manifest.schema.json) refuses a transition to  *)
(* nowhere no more than it asks for a start.                               *)
(***************************************************************************)
EXTENDS ClientStore, SequencesExt, FiniteSetsExt

CONSTANTS
    Roles, Grants,  \* role names, permissions other than the wildcard
    LastNode,       \* bound: nodes 1 .. LastNode + 1, the last one never declared
    Options,        \* keys of the vocabulary a field takes its options from
    LastNumber      \* bound: numbers and lengths 0 .. LastNumber

Nodes == 1 .. LastNode
Targets == 1 .. LastNode + 1
Wildcard == "*"
Unknown == [known |-> FALSE]

-----------------------------------------------------------------------------
(* CapabilityEngine *)

DeclaredRoles == {r \in Roles : memory.roles[r] # Unknown}

EffectivePermissions(r) ==
    IF r \notin DeclaredRoles THEN {}
    ELSE IF Wildcard \in memory.roles[r].grants THEN {Wildcard}
    ELSE memory.roles[r].grants

\* Mutant: the wildcard is a permission like any other.
RoleCan_Literal(r, p) == p \in EffectivePermissions(r)

RoleCan(r, p) == {Wildcard, p} \cap EffectivePermissions(r) # {}

\* can and unionPermissions throw for an unknown role; but the union of roles up to one
\* with a wildcard is answered before the rest is looked at.
Can(roles, p) ==
    IF ~(Range(roles) \subseteq DeclaredRoles) THEN "throws"
    ELSE IF \E r \in Range(roles) : RoleCan(r, p) THEN "yes" ELSE "no"

UnionPermissions(roles) ==
    LET all == {i \in DOMAIN roles : Wildcard \in EffectivePermissions(roles[i])}
        looked == IF all = {} THEN Range(roles) ELSE Range(SubSeq(roles, 1, Min(all))) IN
    IF ~(looked \subseteq DeclaredRoles) THEN {"throws"}
    ELSE IF all # {} THEN {Wildcard}
    ELSE UNION {EffectivePermissions(r) : r \in looked}

CheckFeatureAccess(roles) ==
    LET missing == {p \in memory.feature.required : Can(roles, p) # "yes"} IN
    IF ~memory.feature.enabled THEN "disabled"
    ELSE IF \E p \in missing : Can(roles, p) = "throws" THEN "throws"
    ELSE IF missing # {} THEN "missing-permission" ELSE "enabled"

-----------------------------------------------------------------------------
(* WorkflowEngine *)

Node(n) == memory.nodes[n]
Starts == {n \in Nodes : Node(n).type = "start"}
IsEndState(n) == Node(n).type = "end" /\ Node(n).to = {}
StartState == Min(Starts)

CanTransition(from, to) == to \in Node(from).to

\* Mutant: the target of a transition is not looked up.
ValidateDefinition_AnyTarget ==
    /\ Cardinality(Starts) = 1
    /\ \A n \in Nodes : Node(n).type = "end" => Node(n).to = {}

ValidateDefinition ==
    /\ Cardinality(Starts) = 1
    /\ \A n \in Nodes : /\ Node(n).to \subseteq Nodes
                        /\ Node(n).type = "end" => Node(n).to = {}

\* What is seen after another look at the transitions of all that was
Onward(seen) == seen \cup UNION {Node(n).to : n \in seen \cap Nodes}

\* pathExists: what its breadth-first search has seen when the queue is empty.  One
\* round takes everything that is queued.
\* Mutant: the queue is left after the first round.
SeenFrom_OneRound(from) == Onward({from})

SeenFrom(from) ==
    LET Round[k \in 0 .. LastNode + 1] == IF k = 0 THEN {from} ELSE Onward(Round[k - 1])
    IN Round[LastNode + 1]

PathExists(from, to) == to \in SeenFrom(from)

-----------------------------------------------------------------------------
(* VocabularyEngine: labels are 0 (missing), 1 (empty) or a text *)

Locales == {"fr", "en"}
DefaultLocale == "fr"
Key == 9
HasText(label) == label > 1

\* Mutant: the label of the wanted locale, if it is there at all.
ResolveLabel_Present(locale) ==
    IF memory.label[locale] # 0 THEN memory.label[locale] ELSE memory.label[DefaultLocale]

ResolveLabel(locale) ==
    IF HasText(memory.label[locale]) THEN memory.label[locale]
    ELSE IF HasText(memory.label[DefaultLocale]) THEN memory.label[DefaultLocale]
    ELSE IF \E l \in Locales : HasText(memory.label[l])
      THEN memory.label[CHOOSE l \in Locales : HasText(memory.label[l])]
    ELSE Key

-----------------------------------------------------------------------------
NodeDefs == [type : {"start", "task", "end"}, to : SUBSET Targets]
RoleDefs == {Unknown} \cup [known : {TRUE}, grants : SUBSET (Grants \cup {Wildcard})]
PlainNodes == [n \in Nodes |-> [type |-> IF n = 1 THEN "start" ELSE "task", to |-> {n + 1}]]
PlainRoles == [r \in Roles |-> Unknown]
PlainFeature == [enabled |-> TRUE, required |-> {}]
PlainLabel == [l \in Locales |-> 2]

\* One part of the manifest varies at a time; outside is where a walk through the
\* workflow stands, log the nodes it has been to.
CompiledTo(nodes, roles, feature, label) ==
    ClientInit([nodes |-> nodes, roles |-> roles, feature |-> feature, label |-> label],
               {}, [at |-> 0], {})

EnginesInit ==
    \/ \E nodes \in [Nodes -> NodeDefs] : CompiledTo(nodes, PlainRoles, PlainFeature, PlainLabel)
    \/ \E roles \in [Roles -> RoleDefs], feature \in [enabled : BOOLEAN, required : SUBSET Grants] :
          CompiledTo(PlainNodes, roles, feature, PlainLabel)
    \/ \E label \in [Locales -> 0 .. 3] : CompiledTo(PlainNodes, PlainRoles, PlainFeature, label)

StartFlow ==
    /\ outside.at = 0 /\ Starts # {} /\ Called
    /\ outside' = [at |-> StartState]
    /\ log' = {StartState}
    /\ UNCHANGED <<memory, disk>>

\* transition: an undeclared state throws, and the flow stays where it is.
TakeTransition(to) ==
    /\ outside.at \in Nodes /\ CanTransition(outside.at, to) /\ Called
    /\ outside' = [at |-> to]
    /\ log' = log \cup {to}
    /\ UNCHANGED <<memory, disk>>

EnginesNext == StartFlow \/ \E to \in Targets : TakeTransition(to)

-----------------------------------------------------------------------------
RoleLists == UNION {[1 .. n -> Roles] : n \in 0 .. 2}

\* The two ways to ask agree: whoever can do something has it, or everything, in the
\* union of permissions, unless a role is unknown; and a feature is available exactly to
\* those who can do everything it requires (can, unionPermissions, checkFeatureAccess).
CapabilitiesAgree ==
    outside.at = 0 =>
        \A roles \in RoleLists :
            /\ Range(roles) \subseteq DeclaredRoles =>
                  \A p \in Grants :
                      Can(roles, p) = "yes" <=> {p, Wildcard} \cap UnionPermissions(roles) # {}
            /\ CheckFeatureAccess(roles) = "enabled" <=>
                  /\ memory.feature.enabled
                  /\ \A p \in memory.feature.required : Can(roles, p) = "yes"

\* A flow that follows allowed transitions from the start of a definition that passed
\* validation is always in a declared state, ends only in a state that says so or has no
\* way on, and pathExists finds every state it comes to (workflow-engine.ts).
FlowStaysDeclared ==
    /\ ValidateDefinition => outside.at \in {0} \cup Nodes
    /\ log # {} => \A n \in log : PathExists(StartState, n)
    /\ ValidateDefinition /\ outside.at # 0 =>
          (Node(outside.at).type = "end" => IsEndState(outside.at))

\* A label is never empty: some locale's text if there is one, the key of the term
\* otherwise ("never undefined", lookup in vocabulary-engine.ts).
LabelHasText ==
    \A l \in Locales : HasText(ResolveLabel(l))
                       /\ ((\E k \in Locales : HasText(memory.label[k])) => ResolveLabel(l) # Key)
-----------------------------------------------------------------------------
(* A field of a generated form: what its component lets the user enter     *)
(* (forms/react/form-renderer.tsx) and what FormModel makes of it.  Here   *)
(* outside is the field of the manifest, memory the value of the form, log *)
(* the last value that was submitted.  A text is known by its length, the  *)
(* number it reads as (NaN if none), and whether it is a date and matches  *)
(* the field's pattern.                                                    *)

NaN == -2
Undefined == [is |-> "undefined"]
Boolean(b) == [is |-> "boolean", value |-> b]
Number(n) == [is |-> "number", value |-> n]
List(s) == [is |-> "list", value |-> s]
Text(len, n, fits) == [is |-> "text", length |-> len, reads |-> n, fits |-> fits]
EmptyText == Text(0, NaN, FALSE)
Texts == {EmptyText} \cup {Text(len, n, fits) : len \in 1 .. LastNumber + 1,
                           n \in {NaN} \cup 0 .. LastNumber, fits \in BOOLEAN}

FieldTypes == {"text", "number", "date", "select", "multiselect", "boolean"}
Fields == [type : FieldTypes, required : BOOLEAN, min : {None, 1}, max : {None, 0, 1},
           pattern : BOOLEAN]

Field == outside.field

IsEmpty(v) == v \in {Undefined, EmptyText} \/ (v.is = "list" /\ v.value = <<>>)

DefaultValue ==
    CASE Field.type = "boolean" -> Boolean(FALSE)
      [] Field.type = "number" -> Number(IF Field.min # None THEN Field.min ELSE 0)
      [] Field.type = "multiselect" -> List(<<>>)
      [] OTHER -> EmptyText

\* Mutant: a number is taken for what it reads as, without a look at NaN.
Coerce_NaN(v) ==
    CASE Field.type = "number" ->
            IF IsEmpty(v) THEN Undefined
            ELSE IF v.is = "number" THEN v ELSE Number(v.reads)
      [] Field.type = "boolean" -> Boolean(v = Boolean(TRUE))
      [] Field.type = "multiselect" -> IF v.is = "list" THEN v ELSE List(<<>>)
      [] OTHER -> IF v.is = "text" THEN v ELSE EmptyText

Coerce(v) ==
    CASE Field.type = "number" ->
            IF IsEmpty(v) THEN Undefined
            ELSE IF v.is = "number" THEN v
            ELSE IF v.reads = NaN THEN Undefined ELSE Number(v.reads)
      [] Field.type = "boolean" -> Boolean(v = Boolean(TRUE))
      [] Field.type = "multiselect" -> IF v.is = "list" THEN v ELSE List(<<>>)
      [] OTHER -> IF v.is = "text" THEN v ELSE EmptyText

\* validateField: empty is judged after the coercion
ValidateField(v) ==
    LET c == Coerce(v) IN
    IF IsEmpty(c) THEN IF Field.required THEN "required" ELSE "none"
    ELSE CASE Field.type = "number" ->
                 IF Field.min # None /\ c.value < Field.min THEN "min"
                 ELSE IF Field.max # None /\ c.value > Field.max THEN "max" ELSE "none"
           [] Field.type = "date" -> IF c.fits THEN "none" ELSE "date"
           [] Field.type = "text" ->
                 IF Field.max # None /\ c.length > Field.max THEN "max"
                 ELSE IF Field.pattern /\ ~c.fits THEN "pattern" ELSE "none"
           [] OTHER -> "none"

\* normalize: a value that is undefined is left out.
Normalize(v) == IF v = Undefined THEN Undefined ELSE Coerce(v)

-----------------------------------------------------------------------------
FormInit ==
    \E f \in Fields :
        /\ ClientInit(Undefined, {}, [field |-> f], Undefined)
        /\ f.max = None \/ f.type \in {"text", "number"}
        /\ f.min = None \/ f.type = "number"
        /\ f.pattern => f.type = "text"

Takes(v) == Called /\ memory' = v /\ UNCHANGED <<disk, outside, log>>

DefaultValues == memory = Undefined /\ Takes(DefaultValue)

\* TextField, NumberField, DateField; the text component cuts at the maximal length.
EnterText(text) ==
    /\ Field.type \in {"text", "number", "date"}
    /\ Field.type = "text" /\ Field.max # None => text.length <= Field.max
    /\ Takes(text)

\* SelectField: an option's key is a text that no check looks into.
SelectOption == Field.type = "select" /\ Takes(Text(1, NaN, TRUE))

\* MultiSelectField; filter leaves the other elements in their order.
Filtered(list, key) ==
    LET others == {i \in DOMAIN list : list[i] # key}
        places == {at \in [1 .. Cardinality(others) -> others] :
                      \A j, k \in DOMAIN at : j < k => at[j] < at[k]} IN
    {[k \in DOMAIN at |-> list[at[k]]] : at \in places}

\* Mutant: an option that is already chosen is added again.
Chosen_Added(current, key) == {Append(current, key)}

Chosen(current, key) ==
    IF Contains(current, key) THEN Filtered(current, key) ELSE {Append(current, key)}

ToggleOption(key) ==
    /\ Field.type = "multiselect"
    /\ \E chosen \in Chosen(Coerce(memory).value, key) : Takes(List(chosen))

Switch(on) == Field.type = "boolean" /\ Takes(Boolean(on))

Submit ==
    /\ ValidateField(memory) = "none"
    /\ Called
    /\ log' = Normalize(memory)
    /\ UNCHANGED <<memory, disk, outside>>

FormNext ==
    \/ DefaultValues
    \/ calls < MaxCalls /\ \E text \in Texts : EnterText(text)
    \/ SelectOption
    \/ \E key \in Options : ToggleOption(key)
    \/ \E on \in BOOLEAN : Switch(on)
    \/ Submit

-----------------------------------------------------------------------------
\* What is submitted stands on its own: whoever validates or coerces the normalized value
\* again gets the same answer and the same value, a number is one and within its bounds,
\* and no option is chosen twice (validate, normalize in forms-engine.ts).
SubmittedIsSound ==
    log # Undefined =>
        /\ ValidateField(log) = "none" /\ Coerce(log) = log
        /\ Field.required => ~IsEmpty(log)
        /\ log.is = "number" => /\ log.value # NaN
                                /\ Field.min # None => log.value >= Field.min
                                /\ Field.max # None => log.value <= Field.max
        /\ log.is = "list" => IsInjective(log.value)

\* DEFAULT_MESSAGES.number, "Valeur numerique requise": a text that is no number is not
\* taken for an answer.
NumbersAreRequired ==
    Field.type = "number" /\ memory.is = "text" /\ memory # EmptyText /\ memory.reads = NaN
        => ValidateField(memory) # "none"
=============================================================================
