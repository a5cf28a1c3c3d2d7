----------------------------- MODULE Vocabulary -----------------------------
(***************************************************************************)
(* The vocabulary of an organization: VocabApplicationService of           *)
(* src/safe-boot/backend/src/domains/vocab with TermResolver,              *)
(* NamespaceBrowser and DeprecationManager.  The repositories are bodies   *)
(* without a client; they are modelled by what ports/vocab.port.ts and the *)
(* service ask of them: findById, an update of the named columns, a mark.  *)
(* NamespaceBrowser is what it is: it finds nothing.                       *)
(*                                                                         *)
(* Ids are terms and values.  No operation adds a term, and addTermValue   *)
(* saves nothing, so the rows are those the database was set up with.      *)
(***************************************************************************)
EXTENDS AggregateStore

CONSTANT
    TermValues  \* \subseteq Ids: term values; the other ids are terms

\* A label that is empty, one that LabelPair takes, and one that is too long for it
Labels == {"empty", "fits", "long"}
Given == Labels \cup {"absent"}

VocabRow == [fr : Labels, en : Labels, deprecated : BOOLEAN]

Seeded == [fr |-> "fits", en |-> "fits", deprecated |-> FALSE]

\* log: values that were announced as added or deprecated, values that were overwritten by an
\* update that had read them otherwise, answers of resolveTerm
VocabularyInit ==
    /\ rows \in [Ids -> {NoRow, Seeded}]
    /\ request = [r \in Requests |-> Idle]
    /\ log = [added |-> {}, deprecations |-> [i \in Ids |-> 0], resolved |-> {}]
    /\ clock = 0 /\ commands = 0

-----------------------------------------------------------------------------
(* addTermValue *)

\* TranslationMinimumPolicy.validateValueLabels
BothGiven(fr, en) == {fr, en} \subseteq Labels \ {"empty"}

AddTermValue(r, term, value, fr, en) ==
    /\ Starts(r, IF BothGiven(fr, en) /\ Stored(term) THEN [at |-> "announce", id |-> value] ELSE Idle)
    /\ UNCHANGED <<rows, log, clock>>

\* save is given undefined and stores nothing.
AnnounceAdded(r) ==
    /\ request[r].at = "announce"
    /\ log' = [log EXCEPT !.added = @ \cup {request[r].id}]
    /\ IsAnswered(r)
    /\ UNCHANGED <<rows, clock>>

-----------------------------------------------------------------------------
(* updateTermLabel, updateTermValueLabel *)

\* Mutant: the second label is not looked at.
LabelsPass_French(fr, en) == fr # "empty"

\* Neither the length is looked at, nor whether the row is deprecated.
LabelsPass(fr, en) == fr # "empty" /\ en # "empty"

UpdateLabel(r, i, fr, en) ==
    /\ Starts(r, IF Stored(i) /\ LabelsPass(fr, en)
                 THEN [at |-> "labels", id |-> i, fr |-> fr, en |-> en, read |-> rows[i]] ELSE Idle)
    /\ UNCHANGED <<rows, log, clock>>

\* Mutant: the row is written as it was read.
SetColumns_Row(i, q) ==
    PutRow(i, [q.read EXCEPT !.fr = IF q.fr = "absent" THEN @ ELSE q.fr,
                             !.en = IF q.en = "absent" THEN @ ELSE q.en])

\* updateLabels sets the columns that are given, whatever the version.
SetColumns(i, q) ==
    PutRow(i, [rows[i] EXCEPT !.fr = IF q.fr = "absent" THEN @ ELSE q.fr,
                              !.en = IF q.en = "absent" THEN @ ELSE q.en])

UpdateLabels(r) ==
    /\ request[r].at = "labels"
    /\ SetColumns(request[r].id, request[r])
    /\ IsAnswered(r)
    /\ UNCHANGED <<log, clock>>

-----------------------------------------------------------------------------
(* deprecateTermValue *)

\* Mutant: a deprecated value may be deprecated.
CanDeprecate_Always(row) == TRUE

CanDeprecate(row) == ~row.deprecated

DeprecateTermValue(r, i) ==
    /\ i \in TermValues
    /\ Starts(r, IF Stored(i) /\ CanDeprecate(rows[i])
                 THEN [at |-> "deprecate", id |-> i] ELSE Idle)
    /\ UNCHANGED <<rows, log, clock>>

Deprecate(r) ==
    /\ request[r].at = "deprecate"
    /\ PutRow(request[r].id, [rows[request[r].id] EXCEPT !.deprecated = TRUE])
    /\ GoesOn(r, [at |-> "announceDeprecated", id |-> request[r].id])
    /\ UNCHANGED <<log, clock>>

AnnounceDeprecated(r) ==
    /\ request[r].at = "announceDeprecated"
    /\ log' = [log EXCEPT !.deprecations[request[r].id] = @ + 1]
    /\ IsAnswered(r)
    /\ UNCHANGED <<rows, clock>>

-----------------------------------------------------------------------------
(* resolveTerm, getTermTranslation *)

\* NamespaceBrowser.listTerms
Listed == {}

ResolveTerm(r, i) ==
    /\ log' = [log EXCEPT !.resolved = @ \cup {[id |-> i, found |-> i \in Listed]}]
    /\ StartsAndEnds(r)
    /\ UNCHANGED <<rows, clock>>

-----------------------------------------------------------------------------

VocabularyNext ==
    \/ \E r \in Requests :
         \/ /\ commands < MaxCommands
            /\ \/ \E t \in Ids \ TermValues, v \in TermValues, fr, en \in {"empty", "fits"} :
                    AddTermValue(r, t, v, fr, en)
               \/ \E i \in Ids, fr, en \in Given : UpdateLabel(r, i, fr, en)
         \/ \E i \in TermValues : DeprecateTermValue(r, i)
         \/ \E i \in Ids \ TermValues : ResolveTerm(r, i)
         \/ AnnounceAdded(r) \/ UpdateLabels(r) \/ Deprecate(r) \/ AnnounceDeprecated(r)
    \/ StopProcess

VocabularySpec == VocabularyInit /\ [][VocabularyNext]_aggregateVars

-----------------------------------------------------------------------------

\* Every row has both labels (BR-VOC-002), whichever updates overlap.
VocabularyTypeOK ==
    \A i \in Ids : rows[i] \in VocabRow \cup {NoRow}
                   /\ (Stored(i) => BothGiven(rows[i].fr, rows[i].en))

\* A value that was announced as deprecated is so and stays so (BR-VOC-001), whatever label
\* updates had read it before; and it is announced once for each request that had read it
\* while it was not deprecated: one that begins later is refused.
DeprecatedForGood == \A i \in Ids : log.deprecations[i] > 0 =>
    /\ Stored(i) /\ rows[i].deprecated
    /\ log.deprecations[i] <= Cardinality(Requests)

\* Not kept (vocab.service.ts, addTermValue: "Publishes TermValueAdded event"): what is announced
\* was not stored.
AddedIsStored == \A i \in log.added : Stored(i)

\* Not kept: two requests announce one deprecation.
DeprecatedOnce == \A i \in Ids : log.deprecations[i] <= 1

\* Not kept: labels are stored that LabelPair refuses to read.
LabelsAreReadable == \A i \in Ids : Stored(i) => rows[i].fr = "fits" /\ rows[i].en = "fits"

\* Not kept (vocab.service.ts, resolveTerm): a stored term is not found.
StoredIsResolved == \A a \in log.resolved : Stored(a.id) => a.found
=============================================================================
