--------------------------- MODULE Organizations -----------------------------
(***************************************************************************)
(* Organizations and their status (src/safe-boot/backend/src/domains/      *)
(* organization).  A command reads the entity, changes it and writes every *)
(* column of it back; the version is counted up in the entity, and never   *)
(* compared with the table's.                                              *)
(***************************************************************************)
EXTENDS AggregateStore

OrganizationStatus == {"active", "suspended", "archived"}
OrganizationRow == [status : OrganizationStatus, version : Nat]

\* Mutant: an archived organization can be suspended.
IsValidStatusTransition_Back(from, to) ==
    from # to /\ to # "active"

\* isValidStatusTransition
IsValidStatusTransition(from, to) ==
    \/ from = "active" /\ to \in {"suspended", "archived"}
    \/ from = "suspended" /\ to = "archived"

\* transitionToStatus
Transitioned(org, to) == [status |-> to, version |-> org.version + 1]

OrganizationInit ==
    StoreInit([overtaken |-> {}, bumps |-> [i \in Ids |-> 0], merged |-> {}], 0)

-----------------------------------------------------------------------------
CreateOrganization(r, i) ==
    /\ ~Stored(i)
    /\ PutRow(i, [status |-> "active", version |-> 1])
    /\ StartsAndEnds(r)
    /\ UNCHANGED <<log, clock>>

\* handleUpdateSettings looks at the settings and writes the entity back as it was.
UpdateSettings(r, i, colourValid) ==
    /\ Stored(i)
    /\ IF rows[i].status = "active" /\ colourValid
         THEN Starts(r, [at |-> "update", id |-> i, read |-> rows[i], org |-> rows[i], into |-> None])
         ELSE StartsAndEnds(r)
    /\ UNCHANGED <<rows, log, clock>>

Changes(r, i, to, into) ==
    /\ Stored(i)
    /\ IF IsValidStatusTransition(rows[i].status, to)
         THEN Starts(r, [at |-> "update", id |-> i, read |-> rows[i],
                         org |-> Transitioned(rows[i], to), into |-> into])
         ELSE StartsAndEnds(r)
    /\ UNCHANGED <<rows, log, clock>>

ArchiveOrganization(r, i) == Changes(r, i, "archived", None)
SuspendOrganization(r, i) == Changes(r, i, "suspended", None)

\* handleMergeOrganizations, for a superadmin: the target has to exist, no more.
MergeOrganizations(r, source, target) ==
    /\ Stored(source) /\ Stored(target)
    /\ Starts(r, [at |-> "target", id |-> source, read |-> rows[source], into |-> target])
    /\ UNCHANGED <<rows, log, clock>>

\* The target is read after the source, and the source then changes.
ReadTarget(r) ==
    LET c == request[r] IN
    /\ c.at = "target"
    /\ IF IsValidStatusTransition(c.read.status, "archived")
         THEN GoesOn(r, [at |-> "update", id |-> c.id, read |-> c.read, into |-> c.into,
                         org |-> Transitioned(c.read, "archived")])
         ELSE IsAnswered(r)
    /\ UNCHANGED <<rows, log, clock>>

UpdateOrganization(r) ==
    LET c == request[r] IN
    /\ c.at = "update"
    /\ PutRow(c.id, c.org)
    /\ log' = [overtaken |-> OvertakenBy(c.id, c.read),
               bumps |-> IF c.org # c.read THEN [log.bumps EXCEPT ![c.id] = @ + 1] ELSE log.bumps,
               merged |-> IF c.into # None THEN log.merged \cup {c.id} ELSE log.merged]
    /\ IsAnswered(r) /\ UNCHANGED clock

OrganizationNext ==
    \/ \E r \in Requests :
          \/ \E i \in Ids :
                \/ CreateOrganization(r, i)
                \/ \E colourValid \in BOOLEAN : UpdateSettings(r, i, colourValid)
                \/ ArchiveOrganization(r, i) \/ SuspendOrganization(r, i)
                \/ \E target \in Ids : MergeOrganizations(r, i, target)
          \/ ReadTarget(r) \/ UpdateOrganization(r)
    \/ StopProcess

OrganizationSpec == OrganizationInit /\ [][OrganizationNext]_aggregateVars

-----------------------------------------------------------------------------
OrganizationTypeOK ==
    /\ rows \in [Ids -> OrganizationRow \cup {NoRow}]
    /\ log.overtaken \subseteq Ids /\ log.merged \subseteq Ids

\* CC-ORG-003: an organization that was archived, or merged away, is never active or
\* suspended again and its version counts its changes of status, unless one command wrote
\* over what another had written after it read (orgRepo.update).
ArchivedStep ==
    \A i \in Ids \ log.overtaken' : Stored(i) =>
        /\ rows[i].status = "archived" => rows'[i].status = "archived"
        /\ i \in log.merged => rows'[i].status = "archived"
        /\ rows'[i].version = 1 + log.bumps'[i]
ArchivedForGood == [][ArchivedStep]_aggregateVars

\* "Save timestamp bump via version increment" (organization.service.ts): a command that
\* writes an organization counts its version up.
WritesAreCounted ==
    [][\A r \in Requests : request[r].at = "update" /\ UpdateOrganization(r)
           => rows'[request[r].id].version > request[r].read.version]_aggregateVars

-----------------------------------------------------------------------------
(***************************************************************************)
(* The units of one organization (src/safe-boot/backend/src/domains/       *)
(* organization): a tree kept as parents, with the depth and the path of   *)
(* names stored beside them.  A name is the id of its unit (they are       *)
(* unique), and the organization at the head of every path is left out.    *)
(***************************************************************************)
CONSTANT MaxDepth   \* OrgUnit.MAX_DEPTH

Root == "root"      \* parentId null

UnitRow == [parent : Ids \cup {Root}, depth : Nat, path : Seq(Ids)]

\* findAllInOrg, as the parent of each unit
AllUnits == {u \in Ids : Stored(u)}
Parents == [u \in AllUnits |-> rows[u].parent]

\* The units met going up from u, u included.
WayUp(parents, u) ==
    LET up[n \in Nat] ==
          IF n = 0 THEN u
          ELSE IF up[n-1] \in DOMAIN parents THEN parents[up[n-1]] ELSE Root
    IN  {up[n] : n \in 0 .. Cardinality(Ids)} \ {Root}

IsDescendantOrSelf(ancestor, u, parents) == ancestor \in WayUp(parents, u)

\* computeDepth counts one more than the units on the way up, and throws on a cycle.
ComputeDepth(u, parents) == Cardinality(WayUp(parents, u)) + 1

\* Kahn's algorithm: a unit is processed after its parent.
Processed(parents) ==
    LET done[n \in Nat] ==
          IF n = 0 THEN {u \in DOMAIN parents : parents[u] = Root}
          ELSE done[n-1] \cup {u \in DOMAIN parents : parents[u] \in done[n-1]}
    IN  done[Cardinality(Ids)]

NoCycles(parents) == Processed(parents) = DOMAIN parents

\* Mutant: the current edges are validated, without the proposed one.
HierarchyValid_OldEdges(u, parent, parents) ==
    /\ parent # u
    /\ parent # Root => ~IsDescendantOrSelf(parent, u, parents)
    /\ NoCycles(parents)
    /\ ComputeDepth(u, parents) <= MaxDepth

\* HierarchyPolicy.validate: the depth is the one the unit has before the move.
HierarchyValid(u, parent, parents) ==
    /\ parent # u
    /\ parent # Root => ~IsDescendantOrSelf(parent, u, parents)
    /\ NoCycles([parents EXCEPT ![u] = parent])
    /\ ComputeDepth(u, parents) <= MaxDepth

IsChildDepthValid(depth) == depth + 1 <= MaxDepth

\* Mutant: a path of any length.
PathValid_AnyLength(path) == TRUE

\* The constructor of OrgUnitHierarchy; the organization is a segment too.
PathValid(path) == Len(path) + 1 <= MaxDepth

UnitInit == StoreInit([overtaken |-> FALSE], 0)

-----------------------------------------------------------------------------
\* handleCreateOrgUnit reads the parent for its depth ...
CreateOrgUnit(r, u, parent) ==
    /\ ~Stored(u)
    /\ IF parent = Root
         THEN Starts(r, [at |-> "save", id |-> u,
                         row |-> [parent |-> Root, depth |-> 1, path |-> <<>>]])
         ELSE IF Stored(parent) /\ IsChildDepthValid(rows[parent].depth)
                THEN Starts(r, [at |-> "path", id |-> u, parent |-> parent, read |-> rows[parent]])
                ELSE StartsAndEnds(r)
    /\ UNCHANGED <<rows, log, clock>>

\* ... and again for its path.
ReadPath(r) ==
    LET c == request[r]
        path == Append(rows[c.parent].path, c.id) IN
    /\ c.at = "path"
    /\ IF PathValid(path)
         THEN GoesOn(r, [at |-> "save", id |-> c.id,
                  row |-> [parent |-> c.parent, depth |-> c.read.depth + 1, path |-> path]])
         ELSE IsAnswered(r)
    /\ log' = [overtaken |-> log.overtaken \/ rows[c.parent] # c.read]
    /\ UNCHANGED <<rows, clock>>

\* @@unique([org_id, nom])
SaveUnit(r) ==
    LET c == request[r] IN
    /\ c.at = "save"
    /\ IF Stored(c.id) THEN UNCHANGED rows ELSE PutRow(c.id, c.row)
    /\ IsAnswered(r) /\ UNCHANGED <<log, clock>>

\* handleUpdateOrgUnitParent, and handleTransferChildOrg, which calls it: the unit ...
UpdateOrgUnitParent(r, u, parent) ==
    /\ Stored(u)
    /\ Starts(r, [at |-> "units", id |-> u, parent |-> parent])
    /\ UNCHANGED <<rows, log, clock>>

\* ... all units, and what is computed of them.  The units below keep depth and path.
ValidateMove(r) ==
    LET c == request[r]
        path == IF c.parent = Root THEN <<>> ELSE Append(rows[c.parent].path, c.id)
        depth == IF c.parent = Root THEN 1 ELSE rows[c.parent].depth + 1 IN
    /\ c.at = "units"
    /\ IF /\ c.parent = Root \/ Stored(c.parent)
          /\ HierarchyValid(c.id, c.parent, Parents) /\ PathValid(path)
         THEN GoesOn(r, [at |-> "update", id |-> c.id, read |-> rows,
                         row |-> [parent |-> c.parent, depth |-> depth, path |-> path]])
         ELSE IsAnswered(r)
    /\ UNCHANGED <<rows, log, clock>>

UpdateUnit(r) ==
    LET c == request[r] IN
    /\ c.at = "update"
    /\ PutRow(c.id, c.row)
    /\ log' = [overtaken |-> log.overtaken \/ rows # c.read]
    /\ IsAnswered(r) /\ UNCHANGED clock

UnitNext ==
    \/ \E r \in Requests :
          \/ \E u \in Ids, parent \in Ids \cup {Root} :
                CreateOrgUnit(r, u, parent) \/ UpdateOrgUnitParent(r, u, parent)
          \/ ReadPath(r) \/ SaveUnit(r) \/ ValidateMove(r) \/ UpdateUnit(r)
    \/ StopProcess

UnitSpec == UnitInit /\ [][UnitNext]_aggregateVars

-----------------------------------------------------------------------------
\* findDescendants: LIKE 'path/%'
FindDescendants(u) ==
    {d \in AllUnits : LET p == rows[u].path  q == rows[d].path IN
        Len(q) > Len(p) /\ SubSeq(q, 1, Len(p)) = p}

UnitTypeOK == rows \in [Ids -> UnitRow \cup {NoRow}] /\ log.overtaken \in BOOLEAN

\* REL-001: the units form a tree until a move is written over rows it had not read
\* (handleUpdateOrgUnitParent validates a snapshot).
UnitsAcyclic == ~log.overtaken => NoCycles(Parents)

\* REL-002: no stored path is too long; a stored depth is that of its path, and so within
\* the limit too, unless a move came between the two reads of a parent (the depth of a
\* moved unit is not validated).
DepthsAndPathsBounded ==
    \A u \in AllUnits :
        /\ Len(rows[u].path) < MaxDepth
        /\ ~log.overtaken => rows[u].depth = Len(rows[u].path) + 1

\* "Enforces max depth of 5 levels per BR-ORG-002 / REL-002"
\* (org-hierarchy-resolver.service.ts): the way up from a unit has at most as many.
HierarchyWithinDepth ==
    ~log.overtaken => \A u \in AllUnits : Cardinality(WayUp(Parents, u)) <= MaxDepth
=============================================================================
