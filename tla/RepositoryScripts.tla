-------------------------- MODULE RepositoryScripts --------------------------
(***************************************************************************)
(* The scripts of the repository (scripts/): four gates that read the tree *)
(* of sources and answer with an exit code and a report, and the publisher *)
(* that turns docs/ into the pages of the wiki.                            *)
(*                                                                         *)
(* A source is its path below src/, a sequence of names; Named says which  *)
(* patterns its last name and its directories match.  What the patterns of *)
(* the gates find in its lines is a set of facts.  A run of a gate takes   *)
(* the tree as it is: nothing changes the checkout of a job.  A run of the *)
(* publisher is three steps, since the wiki is a repository of its own.    *)
(***************************************************************************)
EXTENDS ClientStore, SequencesExt, FiniteSetsExt

CONSTANTS
    Files, Named,      \* paths, and what their names match
    Tests,             \* tests below tests/unit/, without .test.ts
    Forbidden,         \* facts that the valid forbidden patterns of audit-rules.json find
    Mandatory,         \* facts that its mandatory patterns ask for
    Rules,             \* its rules, with the files their scope and exception match
    LastDoc,           \* documents 1 .. LastDoc, in the order of their paths
    Index, PageOf,     \* the document INDEX.md or None; flat page name of each document
    BareName, Links,   \* last name of each document; the links it has
    Attachments        \* files of the wiki that are no pages

Gates == {"architecture", "traceability", "blockers", "preAudit"}
Facts == {"infraImport", "bareClass", "implementsNothing", "hexColour", "untimedEvent",
          "tsIgnore", "any", "console", "metadata"}
NoReport == [says |-> "nothing", at |-> None]

\* outside: the facts of each file that is there, the files that cannot be read, the entries
\* of the traceability matrix, the tests; edits counts the changes to all that.
\* disk: the reports; log: how the last run of each gate ended, and after how many edits.
GatesInit ==
    ClientInit({}, [g \in Gates |-> NoReport],
               [facts |-> [f \in Files |-> {"metadata"}], there |-> Files, unreadable |-> {},
                matrix |-> "valid", entries |-> {}, rules |-> TRUE, tests |-> {}, edits |-> 0],
               [g \in Gates |-> [exit |-> None, at |-> None]])

Has(f, fact) == fact \in outside.facts[f]
Sources == {f \in outside.there : "prisma" \notin Named[f]}
Vendored(f) == Range(f) \cap {"node_modules", "dist"} # {}
InSafeBoot(f) == f[1] = "safe-boot"

-----------------------------------------------------------------------------
(* architecture-validate.mjs.  Its files are all sources, vendored ones    *)
(* included, and one that cannot be read ends the script.                  *)

\* The prefix is compared with a path that starts below src/.
CheckReverseDependencies ==
    {f \in Sources : IsPrefix(<<"src", "core">>, f) /\ Has(f, "infraImport")}

CheckNestDecorators ==
    {f \in Sources : Named[f] \cap {".types.ts", ".d.ts"} = {} /\ "nest" \in Named[f]
                     /\ Has(f, "bareClass")}

CheckDependencyInversion ==
    {f \in Sources : "service" \in Named[f] /\ ".types.ts" \notin Named[f]
                     /\ Has(f, "implementsNothing")}

CheckHardcodedColors == {f \in Sources : Has(f, "hexColour")}

\* The name a test has left has no extension: only a directory can be there.
CheckTestSourcePairing == {t \in outside.tests : ~\E f \in Sources : IsStrictPrefix(t, f)}

CheckDomainEventPattern == {f \in Sources : Has(f, "untimedEvent")}

Violations ==
    [ReverseDependency |-> CheckReverseDependencies, NestDecorators |-> CheckNestDecorators,
     DependencyInversion |-> CheckDependencyInversion, HardcodedColors |-> CheckHardcodedColors,
     TestSourcePairing |-> CheckTestSourcePairing, DomainEventPattern |-> CheckDomainEventPattern]

ArchitectureStatus == IF \A c \in DOMAIN Violations : Violations[c] = {} THEN "PASS" ELSE "FAIL"

-----------------------------------------------------------------------------
(* traceability-verify.mjs                                                 *)

\* An entry of the matrix names a file and is the value of a key, an element of a list
\* under one of five keys at the top, or an element of any list further down; it is
\* written from the root of the repository or not.
Entries == [file : Files, at : {"value", "listed", "nested"}, fromRoot : BOOLEAN]

MatrixFiles == {e.file : e \in {x \in outside.entries : x.at # "nested" /\ x.fromRoot}}

AllSourceFiles == {f \in Sources : ~Vendored(f)}

\* In hundredths of a per cent, rounded.  Mutant: rounded up.
Percentage_Up(covered, total) == IF total = 0 THEN 0 ELSE (10000 * covered + total - 1) \div total

Percentage(covered, total) ==
    IF total = 0 THEN 0 ELSE (20000 * covered + total) \div (2 * total)

Coverage == Percentage(Cardinality(AllSourceFiles \cap MatrixFiles), Cardinality(AllSourceFiles))

TraceabilityStatus == IF outside.matrix = "valid" /\ Coverage >= 10000 THEN "PASS" ELSE "FAIL"

-----------------------------------------------------------------------------
(* detect-blockers.mjs                                                     *)

PatternSeverity(fact) ==
    CASE fact \in {"tsIgnore", "any"} -> "ERROR"
      [] fact = "console" -> "WARNING"
      [] OTHER -> "none"

ScannedForBlockers ==
    {f \in AllSourceFiles : InSafeBoot(f) \/ ~\E s \in outside.there : InSafeBoot(s)}

Blockers(severity) ==
    {f \in ScannedForBlockers : \E x \in outside.facts[f] : PatternSeverity(x) = severity}

\* Grouping by file and line drops nothing.  The text says WARNING where the data is CLEAN.
BlockersStatus ==
    [md |-> IF Blockers("ERROR") # {} THEN "BLOCKED"
            ELSE IF Blockers("WARNING") # {} THEN "WARNING" ELSE "CLEAN",
     json |-> IF Blockers("ERROR") # {} THEN "BLOCKED" ELSE "CLEAN"]

-----------------------------------------------------------------------------
(* pre-audit.mjs                                                           *)

Violation(id, f, severity) == [rule |-> id, file |-> f, severity |-> severity]

\* Test files are not exempt: what is computed for them is not used.
CheckForbiddenPatterns(f) ==
    {Violation("FORBIDDEN-PATTERN", f, "CRITICAL") : x \in Forbidden \cap outside.facts[f]}

CheckMandatoryPatterns(f) ==
    {Violation("MANDATORY-PATTERN", f, "MINOR") :
        x \in IF Named[f] \cap {".d.ts", "types"} = {} THEN Mandatory \ outside.facts[f] ELSE {}}

\* A pattern that is none of the facts is invalid, or a check stands in its place.
CheckSpecificRules(f) ==
    {Violation(r.id, f, IF r.pattern \in Facts THEN r.severity ELSE "INFO") :
        r \in {x \in Rules : /\ f \in x.scope \ x.exception
                             /\ x.pattern \in Facts => Has(f, x.pattern)}}

CheckMetadataHeaders(f) ==
    IF Has(f, "metadata") THEN {} ELSE {Violation("LIP-AUDIT-015", f, "MAJOR")}

CheckPrismaModels(f) ==
    IF "prisma" \in Named[f] THEN {Violation("LIP-AUDIT-009", f, "INFO")} ELSE {}

DiscoveredFiles == {f \in outside.there : InSafeBoot(f)}

\* A file that cannot be read is left out.
AllViolations ==
    UNION {CheckForbiddenPatterns(f) \cup CheckMandatoryPatterns(f) \cup CheckSpecificRules(f)
               \cup CheckMetadataHeaders(f) \cup CheckPrismaModels(f) :
           f \in DiscoveredFiles \ outside.unreadable}

PreAuditPassed == \A v \in AllViolations : v.severity \notin {"CRITICAL", "BLOCKING", "MAJOR"}

-----------------------------------------------------------------------------
\* A run ends with an exit code, and with a report unless it died before.
Ends(g, exit) ==
    /\ Called
    /\ log' = [log EXCEPT ![g] = [exit |-> exit, at |-> outside.edits]]
    /\ UNCHANGED <<memory, outside>>

Reports(g, status) == disk' = [disk EXCEPT ![g] = [says |-> status, at |-> outside.edits]]

ValidateArchitecture ==
    \/ /\ Sources \cap outside.unreadable = {}
       /\ Reports("architecture", ArchitectureStatus)
       /\ Ends("architecture", IF ArchitectureStatus = "PASS" THEN 0 ELSE 1)
    \/ /\ Sources \cap outside.unreadable # {}
       /\ Ends("architecture", 1) /\ UNCHANGED disk

VerifyTraceability ==
    /\ Reports("traceability", TraceabilityStatus)
    /\ Ends("traceability", IF outside.matrix = "valid" /\ Coverage >= 10000 THEN 0 ELSE 1)

DetectBlockers ==
    \/ /\ ScannedForBlockers \cap outside.unreadable = {}
       /\ Reports("blockers", BlockersStatus)
       /\ Ends("blockers", IF Blockers("ERROR") = {} THEN 0 ELSE 1)
    \/ /\ ScannedForBlockers \cap outside.unreadable # {}
       /\ Ends("blockers", 1) /\ UNCHANGED disk

\* writeFileSync is not imported: the call throws, and a warning says the report could not
\* be written.
RunAudit ==
    /\ Ends("preAudit", IF ~outside.rules THEN 2 ELSE IF PreAuditPassed THEN 0 ELSE 1)
    /\ UNCHANGED disk

\* A developer changes something.
Toggle(x, S) == IF x \in S THEN S \ {x} ELSE S \cup {x}

Edits(new) ==
    /\ Called
    /\ outside' = [new EXCEPT !.edits = @ + 1]
    /\ UNCHANGED <<memory, disk, log>>

EditTree ==
    \/ \E f \in outside.there, x \in Facts : Edits([outside EXCEPT !.facts[f] = Toggle(x, @)])
    \/ \E f \in Files : Edits([outside EXCEPT !.there = Toggle(f, @)])
    \/ \E f \in outside.there : Edits([outside EXCEPT !.unreadable = Toggle(f, @)])
    \/ \E t \in Tests : Edits([outside EXCEPT !.tests = Toggle(t, @)])
    \/ Edits([outside EXCEPT !.rules = ~@])

EditMatrix ==
    \/ \E e \in Entries : Edits([outside EXCEPT !.entries = Toggle(e, @)])
    \/ \E m \in {"valid", "missing"} \ {outside.matrix} : Edits([outside EXCEPT !.matrix = m])
    \* the Architect Reader writes the matrix anew, naming every source
    \/ \E at \in {"value", "listed", "nested"} :
          Edits([outside EXCEPT !.matrix = "valid",
                                !.entries = {[file |-> f, at |-> at, fromRoot |-> TRUE] :
                                             f \in Sources}])

GatesNext ==
    EditTree \/ EditMatrix \/ ValidateArchitecture \/ VerifyTraceability \/ DetectBlockers \/ RunAudit

-----------------------------------------------------------------------------
(* The gates agree with the tree they looked at.                           *)

GatesTypeOK ==
    /\ outside.there \subseteq Files /\ outside.unreadable \subseteq Files
    /\ outside.facts \in [Files -> SUBSET Facts]
    /\ \A g \in Gates : /\ log[g].exit \in {None, 0, 1, 2}
                        /\ disk[g].at \in None .. log[g].at

SaysPassed(g) ==
    CASE g = "blockers" -> disk[g].says.json = "CLEAN"
      [] OTHER -> disk[g].says = "PASS"

\* A gate that let the tree pass, and no later change, means that nothing of its concern is
\* wrong with it: its report is of this run and says so (the pre-audit never has one), every
\* file it is about could be read (the pre-audit leaves out what cannot), and then no file is
\* uncovered or blocked.  A report that says PASS after a run that failed is of an earlier
\* run: this one died (architecture-validate.mjs, detect-blockers.mjs, traceability-verify.mjs).
VerdictsSound ==
    \A g \in Gates : log[g].at = outside.edits =>
        /\ log[g].exit = 0 /\ g # "preAudit" => SaysPassed(g) /\ disk[g].at = outside.edits
        /\ log[g].exit = 1 /\ g # "preAudit" /\ disk[g].at # None /\ SaysPassed(g) =>
              outside.unreadable # {}
        /\ log[g].exit = 0 /\ g = "architecture" =>
              Sources \cap outside.unreadable = {} /\ \A c \in DOMAIN Violations : Violations[c] = {}
        /\ log[g].exit = 0 /\ g = "traceability" =>
              {} # AllSourceFiles /\ AllSourceFiles \subseteq MatrixFiles
        /\ log[g].exit = 0 /\ g = "blockers" => ScannedForBlockers \cap outside.unreadable = {}

\* Two gates that look for the same thing agree on it: what the pre-audit forbids and
\* detect-blockers calls an error passes neither, in a file of safe-boot that is readable
\* and not vendored (checkForbiddenPatterns in pre-audit.mjs, PATTERNS in detect-blockers.mjs).
GatesAgree ==
    log["preAudit"].exit = 0 /\ log["preAudit"].at = outside.edits /\ outside.unreadable = {} =>
        \A f \in Blockers("ERROR") : InSafeBoot(f) =>
            \E x \in outside.facts[f] : PatternSeverity(x) = "ERROR" /\ x \notin Forbidden

-----------------------------------------------------------------------------
(* export-wiki.mjs.  outside: docs says of each document whether it is     *)
(* there and how often it was edited; head counts the commits of the wiki, *)
(* pages is what is in its last one.  disk is the folder of --out.  log is *)
(* how the last run that went for the wiki ended.                          *)

Docs == 1 .. LastDoc
Nowhere == 0
ByHand == [doc |-> Nowhere]

WikiInit ==
    ClientInit({}, <<>>,
               [docs |-> [d \in Docs |-> [there |-> TRUE, edition |-> 1]], head |-> 0,
                pages |-> [p \in Attachments \cup {"Home"} |-> ByHand]],
               [exit |-> None, outputs |-> <<>>, head |-> None])

There(docs) == {d \in Docs : docs[d].there}

\* pageByName: the first document in order whose last name or page name it is
ByName(name, docs) ==
    LET named == {d \in There(docs) : name \in {BareName[d], PageOf[d]}} IN
    IF named = {} THEN "none" ELSE PageOf[Min(named)]

\* A link names the documents its path may mean, in the order in which they are tried, and
\* a last name.  An external one names neither.  The lines of a fence have no links.
Meant(link, docs) ==
    LET found == {i \in DOMAIN link.candidates : link.candidates[i] \in There(docs)} IN
    IF found = {} THEN None ELSE link.candidates[Min(found)]

ResolveTarget(link, docs) ==
    IF Meant(link, docs) # None THEN PageOf[Meant(link, docs)] ELSE ByName(link.name, docs)

Converted(d, docs) ==
    [doc |-> d, edition |-> docs[d].edition,
     links |-> [l \in Links[d] |-> ResolveTarget(l, docs)]]

BuildSidebar(docs) == [doc |-> Nowhere, entries |-> {PageOf[d] : d \in There(docs) \ {Index}}]

\* Of two documents with one page name the later one is written.
DocPages(docs) ==
    [p \in {PageOf[d] : d \in There(docs)} |->
        Converted(Max({d \in There(docs) : PageOf[d] = p}), docs)]

Outputs(docs) ==
    LET pages == DocPages(docs)
        home == IF Index \in There(docs) THEN [Home |-> pages[PageOf[Index]]] ELSE <<>> IN
    Over([_Sidebar |-> BuildSidebar(docs)], Over(home, pages))

\* Mutant: pages that are not generated any more stay.
WritePages_Unpruned(pages, outputs) == Over(outputs, pages)

WritePages(pages, outputs) ==
    Over(outputs, [p \in DOMAIN pages \cap Attachments |-> pages[p]])

\* --out leaves what is in the folder.
Preview ==
    /\ There(outside.docs) # {} /\ Called
    /\ disk' = Over(Outputs(outside.docs), disk)
    /\ UNCHANGED <<memory, outside, log>>

\* What is built is kept until the wiki is cloned: `seen` is the wiki's commit by then.
Build(c) ==
    /\ There(outside.docs) # {}
    /\ Begins(c, [at |-> "built", outputs |-> Outputs(outside.docs), seen |-> outside.head])
    /\ UNCHANGED <<memory, disk, outside, log>>

\* A run that went for the wiki ends, leaving it at the commit it then has.
Exits(c, code, head) ==
    /\ Returns(c)
    /\ log' = [exit |-> code, outputs |-> call[c].outputs, head |-> head]

\* Clone, write the pages, and commit if that makes a difference
Clone(c) ==
    LET written == WritePages(outside.pages, call[c].outputs) IN
    /\ call[c].at = "built"
    /\ IF written = outside.pages THEN Exits(c, 0, outside.head)
       ELSE /\ GoesOn(c, [at |-> "committed", outputs |-> call[c].outputs, seen |-> call[c].seen,
                          base |-> outside.head, pages |-> written])
            /\ UNCHANGED log
    /\ UNCHANGED <<memory, disk, outside>>

\* The wiki takes a commit only on top of its last one.
Push(c) ==
    /\ call[c].at = "committed" /\ outside.head = call[c].base
    /\ outside' = [outside EXCEPT !.head = @ + 1, !.pages = call[c].pages]
    /\ \E code \in {0, 1} : Exits(c, code, outside.head + 1)   \* 1: the answer is lost
    /\ UNCHANGED <<memory, disk>>

\* The clone or the push fails, or the push is rejected.
Fails(c) ==
    /\ call[c].at \in {"built", "committed"}
    /\ Exits(c, 1, outside.head)
    /\ UNCHANGED <<memory, disk, outside>>

ChangesOutside(new) == Called /\ outside' = new /\ UNCHANGED <<memory, disk, log>>

\* A document is written, written anew or removed.
EditDocs ==
    \E d \in Docs, there \in BOOLEAN :
        /\ there \/ outside.docs[d].there
        /\ ChangesOutside([outside EXCEPT
              !.docs[d] = [there |-> there, edition |-> outside.docs[d].edition + 1]])

EditWiki ==
    \E p \in DOMAIN outside.pages :
        ChangesOutside([outside EXCEPT !.head = @ + 1, !.pages[p] = ByHand])

WikiNext ==
    \/ EditDocs \/ EditWiki \/ Preview
    \/ \E c \in Calls : Build(c) \/ Clone(c) \/ Push(c) \/ Fails(c)

-----------------------------------------------------------------------------
\* Every document can be read under its page or shares the page with another one, every
\* link that was rewritten leads to a page there is, and to the document its path names
\* unless that one shares its page (toPageName, resolveTarget in export-wiki.mjs).
PagesComplete ==
    LET docs == outside.docs  pages == Outputs(docs)
        Alone(d) == PageOf[d] # "Home" /\ \A e \in There(docs) \ {d} : PageOf[e] # PageOf[d] IN
    There(docs) # {} =>
        \A d \in There(docs) : Alone(d) =>
            /\ pages[PageOf[d]].doc = d
            /\ \A l \in Links[d] :
                  LET page == pages[PageOf[d]].links[l] IN
                  /\ page # "none" => page \in DOMAIN pages
                  /\ Meant(l, docs) # None /\ Alone(Meant(l, docs)) =>
                        pages[page].doc = Meant(l, docs)

\* After a run that succeeded the wiki is what was built, down to the last page, until
\* somebody edits it; attachments stay (writePages with prune).
PublishedIsBuilt ==
    log.exit = 0 /\ log.head = outside.head =>
        /\ \A p \in DOMAIN log.outputs : outside.pages[p] = log.outputs[p]
        /\ DOMAIN outside.pages \ DOMAIN log.outputs = Attachments

\* A page never goes back to an older edition of its document, unless another run or an
\* editor changed the wiki between the build and the clone of the run that pushed: what was
\* built before is pushed on top (steps 1 and 2 of export-wiki.mjs; publish-wiki.yml lets one
\* run of the workflow at a time).
WikiForwardStep ==
    \A p \in DOMAIN outside.pages \cap DOMAIN outside'.pages :
        LET old == outside.pages[p]  new == outside'.pages[p] IN
        old.doc = new.doc /\ old.doc # Nowhere /\ new.edition < old.edition =>
            \E c \in Calls : call[c].at = "committed" /\ call[c].seen # call[c].base
=============================================================================
