---------------------------- MODULE OrgHierarchy -----------------------------
(***************************************************************************)
(* The hierarchy of organization units (src/safe-boot/backend/src/domains/ *)
(* member).  Each unit has one link row, with its parent and the depth     *)
(* written when the row was made; updateParent writes the parent only.     *)
(* The cycle check walks up from the unit that is moved.                   *)
(***************************************************************************)
EXTENDS AggregateStore

CONSTANT MaxDepth   \* MAX_DEPTH

Parents == Ids \cup {None}
LinkRow == [state : {"linked"}, parent : Parents, depth : Nat]

\* listByOrg: the parent of every unit
Links == [u \in Ids |-> rows[u].parent]

Children(links, u) == {v \in Ids : links[v] = u}

\* CycleDetector._wouldReach: up from `unit`, no unit twice
WouldReach(links, unit, target) ==
    LET reaches[u \in Parents, visited \in SUBSET Ids] ==
            u = target \/ (u # None /\ u \notin visited /\ reaches[links[u], visited \cup {u}])
    IN reaches[unit, {}]

\* Mutant: a unit may become its own parent.
WouldCreateCycle_NotSelf(links, child, parent) ==
    parent # None /\ child # parent /\ WouldReach(links, child, parent)

\* A missing parent is asked about as the empty string, which is no unit.
WouldCreateCycle(links, child, parent) ==
    parent # None /\ WouldReach(links, child, parent)

\* CycleDetector.validateDag: Kahn's algorithm on the edges from child to parent, where
\* all units without a parent point to one more node.
InDegrees(links) == [n \in Ids \cup {None} |-> Cardinality(Children(links, n))]

\* Mutant: the degrees are not counted down.
Processed_QueueOnly(links, degrees, first) == first

Processed(links, degrees, first) ==
    LET processed[degree \in [Parents -> Int], queue \in SUBSET Parents] ==
            IF queue = {} THEN {}
            ELSE LET n == CHOOSE x \in queue : TRUE
                     up == IF n = None THEN {} ELSE {links[n]}
                     left == [m \in Parents |-> IF m \in up THEN degree[m] - 1 ELSE degree[m]]
                 IN {n} \cup processed[left, (queue \ {n}) \cup {m \in up : left[m] = 0}]
    IN processed[degrees, first]

ValidateDag(links) ==
    LET degree == InDegrees(links)
        nodes == {n \in DOMAIN degree : n # None \/ degree[None] > 0}
    IN Processed(links, degree, {n \in nodes : degree[n] = 0}) = nodes

\* DescendantEnumerator.enumerate.  As a unit has one parent, the units seen on the way
\* down are all that matters of the set of visited units.
Descend(links, root, deepest) ==
    LET below[u \in Ids, visited \in SUBSET Ids, depth \in Nat] ==
            IF depth > deepest \/ u \in visited THEN {}
            ELSE Children(links, u)
                 \cup UNION {below[v, visited \cup {u}, depth + 1] : v \in Children(links, u)}
    IN below[root, {}, 0]

\* Mutant: one level less.
Enumerate_OneLess(links, root) == Descend(links, root, MaxDepth - 1)

Enumerate(links, root) == Descend(links, root, MaxDepth)

\* MaxDepthPolicy.computeChildDepth of the depth the parent's row has
DepthAllowed(parent) ==
    parent # None => rows[parent].depth + 1 <= MaxDepth

\* Whoever makes the rows (nothing in the repository does) makes a forest of allowed
\* depth.
Forests == {links \in [Ids -> Parents] :
              \A u, v \in Ids : links[u] = v => ~WouldReach(links, v, u)}

Depths(links) ==
    LET depth[u \in Ids] == IF links[u] = None THEN 1 ELSE 1 + depth[links[u]] IN depth

HierarchyInit ==
    /\ \E links \in {f \in Forests : \A u \in Ids : Depths(f)[u] <= MaxDepth} :
          rows = [u \in Ids |-> [state |-> "linked", parent |-> links[u],
                                 depth |-> Depths(links)[u]]]
    /\ request = [r \in Requests |-> Idle]
    /\ log = [refused |-> {}]
    /\ clock = 0 /\ commands = 0

-----------------------------------------------------------------------------
\* changeOrgUnitParent: the links are read and checked, then the depth, then it writes.
ChangeOrgUnitParent(r, child, parent) ==
    /\ ~WouldCreateCycle(Links, child, parent)
    /\ Starts(r, [at |-> "depth", child |-> child, parent |-> parent])
    /\ UNCHANGED <<rows, log, clock>>

CheckDepth(r) ==
    LET c == request[r] IN
    /\ c.at = "depth"
    /\ IF DepthAllowed(c.parent) THEN GoesOn(r, [c EXCEPT !.at = "write"]) ELSE IsAnswered(r)
    /\ UNCHANGED <<rows, log, clock>>

\* transferChildOrg moves the unit next to another one.  The links it checks were read
\* before the sibling's parent was.
TransferChildOrg(r, child, sibling) ==
    /\ Starts(r, [at |-> "sibling", child |-> child, sibling |-> sibling, links |-> Links])
    /\ UNCHANGED <<rows, log, clock>>

FindSiblingsParent(r) ==
    LET c == request[r]
        parent == rows[c.sibling].parent IN
    /\ c.at = "sibling"
    /\ IF WouldCreateCycle(c.links, c.child, parent)
         THEN IsAnswered(r)
         ELSE GoesOn(r, [at |-> "transfer", child |-> c.child, parent |-> parent])
    /\ UNCHANGED <<rows, log, clock>>

\* mergeChildOrg puts the source below the target; the memberships stay where they are.
MergeChildOrg(r, source, target) ==
    /\ ~WouldCreateCycle(Links, source, target)
    /\ Starts(r, [at |-> "write", child |-> source, parent |-> target])
    /\ UNCHANGED <<rows, log, clock>>

Reparented(u, parent) == [rows[u] EXCEPT !.parent = parent]

UpdateParent(r) ==
    LET c == request[r] IN
    /\ c.at = "write"
    /\ PutRow(c.child, Reparented(c.child, c.parent))
    /\ IsAnswered(r)
    /\ UNCHANGED <<log, clock>>

\* A transfer writes first ...
TransferParent(r) ==
    LET c == request[r] IN
    /\ c.at = "transfer"
    /\ PutRow(c.child, Reparented(c.child, c.parent))
    /\ GoesOn(r, [c EXCEPT !.at = "recalculate"])
    /\ UNCHANGED <<log, clock>>

\* ... and looks at the depth afterwards.
RecalculateDepth(r) ==
    LET c == request[r] IN
    /\ c.at = "recalculate"
    /\ log' = IF DepthAllowed(c.parent) THEN log
              ELSE [log EXCEPT !.refused = @ \cup {<<c.child, c.parent>>}]
    /\ IsAnswered(r)
    /\ UNCHANGED <<rows, clock>>

HierarchyNext ==
    \/ \E r \in Requests, u \in Ids :
          \/ \E p \in Parents : ChangeOrgUnitParent(r, u, p)
          \/ \E v \in Ids : TransferChildOrg(r, u, v) \/ MergeChildOrg(r, u, v)
    \/ \E r \in Requests :
          CheckDepth(r) \/ FindSiblingsParent(r) \/ UpdateParent(r)
          \/ TransferParent(r) \/ RecalculateDepth(r)
    \/ StopProcess

HierarchySpec == HierarchyInit /\ [][HierarchyNext]_aggregateVars

-----------------------------------------------------------------------------
HierarchyTypeOK ==
    /\ rows \in [Ids -> LinkRow]
    /\ log.refused \subseteq Ids \X Parents

\* The reference: the units that some number of steps up leads to, and the units at most
\* k steps below one
Above ==
    LET n == Cardinality(Ids)
        up[k \in 1 .. n] == IF k = 1 THEN Links
                            ELSE [u \in Ids |-> IF up[k - 1][u] = None THEN None
                                                ELSE Links[up[k - 1][u]]]
    IN [u \in Ids |-> {up[k][u] : k \in 1 .. n} \ {None}]

Below(root, k) ==
    LET level[n \in 1 .. k] == IF n = 1 THEN Children(Links, root)
                               ELSE level[n - 1] \cup {u \in Ids : Links[u] \in level[n - 1]}
    IN level[k]

\* On every hierarchy the commands can make, those with a cycle included, the walk up
\* finds exactly the units above, and Kahn's count tells whether there is a cycle
\* (_wouldReach and validateDag in cycle-detector.service.ts).
CycleChecksAgree ==
    LET above == Above IN
    /\ \A u, p \in Ids : WouldCreateCycle(Links, u, p) <=> u = p \/ p \in above[u]
    /\ ValidateDag(Links) <=> \A u \in Ids : u \notin above[u]

\* On the same hierarchies enumerate finds every unit below, past a cycle too and down to
\* one level more than MAX_DEPTH (_dfs in descendant-enumerator.service.ts).
DescendantsComplete ==
    \A root \in Ids : Enumerate(Links, root) = Below(root, MaxDepth + 1)

\* BR-REL-001: the hierarchy has no cycle.
HierarchyIsAcyclic == LET above == Above IN \A u \in Ids : u \notin above[u]

\* "The domain layer must validate depth before persisting" (max-depth-policy.ts): a
\* transfer that is refused for its depth has not moved the unit.
RefusedTransferMovesNothing == log.refused = {}

-----------------------------------------------------------------------------
(***************************************************************************)
(* The group memberships of one member (src/safe-boot/backend/src/domains/ *)
(* member): a row for each group the member ever joined.  A departure only *)
(* sets the date, and the row stays; @@unique([membre_id, groupe_id]) of   *)
(* the schema refuses a second row.                                        *)
(***************************************************************************)
CONSTANT MaxMemberships   \* MAX_CONCURRENT_MEMBERSHIPS

MembershipRow == [state : {"active", "left"}]
IsActive(g) == rows[g] = [state |-> "active"]

\* findByMemberId: all rows, departed or not
FindByMember == {g \in Ids : Stored(g)}

\* Mutant: one more.
CanJoin_OneMore(count) == count <= MaxMemberships

\* MultiMembershipPolicy.assertCanJoin
CanJoin(count) == count < MaxMemberships

Exists(g) == Stored(g)

MembershipInit == StoreInit([joined |-> {}, left |-> {}], 0)

-----------------------------------------------------------------------------
\* addMemberToGroup counts, looks for the row, inserts it, and tells.
AddMemberToGroup(r, g) ==
    /\ IF CanJoin(Cardinality(FindByMember))
         THEN Starts(r, [at |-> "exists", group |-> g]) ELSE StartsAndEnds(r)
    /\ UNCHANGED <<rows, log, clock>>

CheckExists(r) ==
    LET c == request[r] IN
    /\ c.at = "exists"
    /\ IF Exists(c.group) THEN IsAnswered(r) ELSE GoesOn(r, [c EXCEPT !.at = "insert"])
    /\ UNCHANGED <<rows, log, clock>>

\* The unique constraint counts every row, departed or not.
CreateMembership(r) ==
    LET c == request[r] IN
    /\ c.at = "insert"
    /\ IF Stored(c.group)
         THEN IsAnswered(r) /\ UNCHANGED rows
         ELSE PutRow(c.group, [state |-> "active"]) /\ GoesOn(r, [c EXCEPT !.at = "joined"])
    /\ UNCHANGED <<log, clock>>

EmitJoined(r) ==
    LET c == request[r] IN
    /\ c.at = "joined"
    /\ log' = [log EXCEPT !.joined = @ \cup {c.group}]
    /\ IsAnswered(r) /\ UNCHANGED <<rows, clock>>

RemoveMemberFromGroup(r, g) ==
    /\ IsActive(g)
    /\ Starts(r, [at |-> "leave", group |-> g])
    /\ UNCHANGED <<rows, log, clock>>

Leave(r) ==
    LET c == request[r] IN
    /\ c.at = "leave"
    /\ PutRow(c.group, [state |-> "left"])
    /\ GoesOn(r, [c EXCEPT !.at = "left"])
    /\ UNCHANGED <<log, clock>>

EmitLeft(r) ==
    LET c == request[r] IN
    /\ c.at = "left"
    /\ log' = [log EXCEPT !.left = @ \cup {c.group}]
    /\ IsAnswered(r) /\ UNCHANGED <<rows, clock>>

MembershipNext ==
    \/ \E r \in Requests :
          \/ \E g \in Ids : AddMemberToGroup(r, g) \/ RemoveMemberFromGroup(r, g)
          \/ CheckExists(r) \/ CreateMembership(r) \/ EmitJoined(r)
          \/ Leave(r) \/ EmitLeft(r)
    \/ StopProcess

MembershipSpec == MembershipInit /\ [][MembershipNext]_aggregateVars

-----------------------------------------------------------------------------
MembershipTypeOK ==
    /\ rows \in [Ids -> MembershipRow \cup {NoRow}]
    /\ log.joined \subseteq Ids /\ log.left \subseteq Ids

\* Joins that overlap exceed the limit by at most one each, and a member who is said to
\* have left a group is out of it for good (the count, the check and the insert of
\* addMemberToGroup are three awaits).
MembershipsSound ==
    /\ Cardinality(FindByMember) <= MaxMemberships + Cardinality(Requests) - 1
    /\ \A g \in log.left : rows[g].state = "left"
    /\ \A g \in log.joined : Stored(g)
=============================================================================
