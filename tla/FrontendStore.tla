--------------------------- MODULE FrontendStore ---------------------------
(***************************************************************************)
(* The Redux store of the front end                                        *)
(* (src/safe-boot/frontend/src/domains/{organization,user,finance,sync}):  *)
(* four APIs of queries and mutations, four slices that follow the actions *)
(* of all of them, and the hooks that read the cache.  The cache itself is *)
(* RTK Query's, modelled from its defaults: one request at a time for a    *)
(* query, an invalidation that waits until no request is under way, a      *)
(* failed refetch that keeps the data, and a query that is not asked again *)
(* because it is cached rejected by its condition.                         *)
(***************************************************************************)
EXTENDS ClientStore

CONSTANT Endpoints  \* bound: the queries and mutations components use

Tag(type, id) == <<type, id>>

-----------------------------------------------------------------------------
(* What a query provides and a mutation invalidates, for one organization, *)
(* one item of each kind and one user                                      *)

OrganizationProvides ==
    [getOrganizationProfile |-> {Tag("Organization", "org")},
     listOrganizationUnits |-> {Tag("OrgUnit", "org")},
     getOrgHierarchy |-> {Tag("Organization", "org")},
     listOrganizations |-> {Tag("Organization", "LIST")},
     getOrgByStatus |-> {Tag("Organization", "STATUS_LIST")}]

OrganizationInvalidates ==
    [createOrganization |-> {Tag("Organization", "LIST")},
     updateOrganizationSettings |-> {Tag("Organization", "org")},
     createOrgUnit |-> {Tag("OrgUnit", "org")},
     updateOrgUnitParent |-> {Tag("OrgUnit", "org"), Tag("Organization", "org")},
     transferOrgUnit |-> {Tag("Organization", "LIST"), Tag("OrgUnit", "ALL")},
     archiveOrganization |-> {Tag("Organization", "org")},
     suspendOrganization |-> {Tag("Organization", "org")},
     mergeOrganizations |-> {Tag("Organization", "LIST"), Tag("OrgUnit", "ALL")}]

UserProvides ==
    [getMe |-> {Tag("User", "CURRENT")}, checkPermission |-> {},
     getUserProfile |-> {Tag("User", "user")}, listUsers |-> {Tag("User", "LIST")}]

UserInvalidates ==
    [login |-> {Tag("User", "CURRENT")}, refreshSession |-> {},
     logout |-> {Tag("Session", "ALL")}, createUser |-> {Tag("User", "LIST")},
     updateUserProfile |-> {Tag("User", "user")}, changeUserRole |-> {Tag("User", "user")},
     resetPassword |-> {}, revokeSession |-> {Tag("Session", "ALL")},
     assignPermissionGrant |-> {Tag("User", "user")}]

FinanceProvides ==
    [getTransactions |-> {Tag("Transaction", "LIST")},
     getTransactionById |-> {Tag("Transaction", "item")},
     getTransactionsByState |-> {Tag("Transaction", "STATE_LIST")},
     searchTransactions |-> {}, getCategoryById |-> {Tag("Category", "LIST")},
     listCategories |-> {Tag("Category", "LIST")}, generateReport |-> {Tag("Report", "LIST")},
     getBalanceSummary |-> {Tag("Report", "BALANCE")}, exportTransactionList |-> {}]

\* Mutant: a new transaction invalidates itself only.
FinanceInvalidates_Item ==
    [createTransaction |-> {Tag("Transaction", "item")},
     updateTransaction |-> {Tag("Transaction", "item")},
     transitionTransactionState |-> {Tag("Transaction", "item")},
     compensateTransaction |-> {Tag("Transaction", "LIST")},
     deleteTransaction |-> {Tag("Transaction", "LIST")},
     generateFinancialReport |-> {Tag("Report", "LIST")}]

FinanceInvalidates ==
    [createTransaction |-> {Tag("Transaction", "LIST")},
     updateTransaction |-> {Tag("Transaction", "item")},
     transitionTransactionState |-> {Tag("Transaction", "item")},
     compensateTransaction |-> {Tag("Transaction", "LIST")},
     deleteTransaction |-> {Tag("Transaction", "LIST")},
     generateFinancialReport |-> {Tag("Report", "LIST")}]

SyncProvides ==
    [getPendingOperations |-> {Tag("Sync", "PENDING")},
     getSyncStatusTracker |-> {Tag("Sync", "TRACKER")},
     getConflictStrategies |-> {Tag("Sync", "STRATEGIES")}, getConnectionState |-> {}]

SyncInvalidates ==
    [pushPendingOps |-> {Tag("Sync", "PENDING"), Tag("Sync", "TRACKER")},
     pullDelta |-> {Tag("Sync", "resource:item")}, resolveConflict |-> {Tag("Sync", "PENDING")},
     markOperationConfirmed |-> {Tag("Sync", "PENDING")}, scheduleRetry |-> {},
     clearSyncStatus |-> {Tag("Sync", "PENDING"), Tag("Sync", "TRACKER")}]

\* The four APIs are of one store: no two have an endpoint of one name.
Provides ==
    Over(Over(OrganizationProvides, UserProvides), Over(FinanceProvides, SyncProvides))
Invalidates ==
    Over(Over(OrganizationInvalidates, UserInvalidates), Over(FinanceInvalidates, SyncInvalidates))

Queries == DOMAIN Provides \cap Endpoints
Mutations == DOMAIN Invalidates \cap Endpoints

\* The server: the queries whose answer a mutation changes
Affects(m) ==
    Queries \cap
    CASE m \in DOMAIN FinanceInvalidates -> DOMAIN FinanceProvides
      [] m \in DOMAIN OrganizationInvalidates -> DOMAIN OrganizationProvides
      [] m \in DOMAIN SyncInvalidates -> {"getPendingOperations", "getSyncStatusTracker"}
      [] OTHER -> DOMAIN UserProvides

-----------------------------------------------------------------------------
(* The slices: each follows every action that ends in /pending, /fulfilled *)
(* or /rejected, of whichever API                                          *)

Slices == {"organization", "auth", "finance", "sync"}

\* Mutant: the type of a request's actions names its endpoint.
RequestType_Endpoint(endpoint) == endpoint

RequestType(endpoint) == IF endpoint \in Queries THEN "executeQuery" ELSE "executeMutation"

\* The organization slice leaves out the types that include "create".
EndsLoading(slice, type) ==
    slice # "organization"
    \/ type \notin {"createOrganization", "createOrgUnit", "createUser", "createTransaction"}

OnPending(slices) ==
    [s \in Slices |-> [loading |-> TRUE, error |-> s = "organization" /\ slices[s].error]]

OnFulfilled(slices, endpoint) ==
    [s \in Slices |-> [slices[s] EXCEPT !.loading = @ /\ ~EndsLoading(s, RequestType(endpoint))]]

OnRejected == [s \in Slices |-> [loading |-> FALSE, error |-> TRUE]]

-----------------------------------------------------------------------------
(* The cache *)

NotAsked == [status |-> "none", data |-> None, seen |-> None, tagged |-> FALSE]

UnderWay(m) ==
    \/ \E q \in Queries : m.cache[q].status \in {"asking", "answering"}
    \/ m.mutations # 0

\* Tags that wait are acted on as soon as nothing is under way: what nobody uses is removed,
\* what is used is asked again.
Settled(m) ==
    LET hit == {q \in Queries : m.cache[q].tagged /\ Provides[q] \cap m.tags # {}}
        again == hit \cap m.used
    IN  IF UnderWay(m) THEN m
        ELSE [m EXCEPT
                !.tags = {},
                !.cache = [q \in Queries |->
                             IF q \in again THEN [m.cache[q] EXCEPT !.status = "asking"]
                             ELSE IF q \in hit THEN NotAsked ELSE m.cache[q]],
                !.slices = IF again # {} THEN OnPending(m.slices) ELSE @]

FrontendInit ==
    ClientInit([slices |-> [s \in Slices |-> [loading |-> FALSE, error |-> FALSE]],
                cache |-> [q \in Queries |-> NotAsked], used |-> {}, tags |-> {}, mutations |-> 0],
               {}, [q \in Queries |-> 0],
               [promised |-> [q \in Queries |-> 0], failed |-> FALSE, signedOut |-> FALSE])

\* A component that uses a query is mounted.
UseQuery(q) ==
    LET entry == memory.cache[q]
        cached == entry.status \in {"asking", "answering"} \/ entry.data # None
    IN  /\ Called
        /\ memory' = [memory EXCEPT
              !.used = @ \cup {q},
              !.slices = IF cached THEN OnRejected ELSE OnPending(@),
              !.cache[q].status = IF cached THEN @ ELSE "asking"]
        /\ UNCHANGED <<disk, outside, log>>

\* The last component that used it is unmounted; later the entry goes.
Unuse(q) ==
    /\ q \in memory.used /\ Called
    /\ memory' = [memory EXCEPT !.used = @ \ {q}]
    /\ UNCHANGED <<disk, outside, log>>

Unkept(q) ==
    /\ q \notin memory.used /\ memory.cache[q].status \in {"fulfilled", "rejected"}
    /\ memory' = [memory EXCEPT !.cache[q] = NotAsked]
    /\ UNCHANGED <<disk, outside, call, log, calls>>

\* The server reads what it answers.
Answers(q) ==
    /\ memory.cache[q].status = "asking"
    /\ memory' = [memory EXCEPT !.cache[q].status = "answering", !.cache[q].seen = outside[q]]
    /\ UNCHANGED <<disk, outside, call, log, calls>>

QueryFulfilled(q) ==
    LET entry == memory.cache[q] IN
    /\ entry.status = "answering"
    /\ memory' = Settled([memory EXCEPT
          !.cache[q] = [status |-> "fulfilled", data |-> entry.seen, seen |-> None, tagged |-> TRUE],
          !.slices = OnFulfilled(@, q)])
    /\ UNCHANGED <<disk, outside, call, log, calls>>

\* baseQuery: an answer that is not ok is an error with a value, a request that fails throws.
QueryRejected(q, ok) ==
    LET entry == memory.cache[q] IN
    /\ entry.status = "answering"
    /\ memory' = Settled([memory EXCEPT
          !.cache[q] = [entry EXCEPT !.status = "rejected", !.seen = None, !.tagged = @ \/ ok],
          !.slices = OnRejected])
    /\ log' = [log EXCEPT !.failed = TRUE]
    /\ UNCHANGED <<disk, outside, call, calls>>

Mutate(c, m) ==
    /\ Begins(c, [at |-> "changing", mutation |-> m])
    /\ memory' = [memory EXCEPT !.mutations = @ + 1, !.slices = OnPending(@)]
    /\ UNCHANGED <<disk, outside, log>>

Changes(c) ==
    /\ call[c].at = "changing"
    /\ outside' = [q \in Queries |-> outside[q] + IF q \in Affects(call[c].mutation) THEN 1 ELSE 0]
    /\ GoesOn(c, [call[c] EXCEPT !.at = "changed"])
    /\ UNCHANGED <<memory, disk, log>>

\* What each API's mutations are to be seen in, whatever its tags are
SeenIn(m) ==
    Queries \cap
    CASE m \in {"createTransaction", "compensateTransaction", "deleteTransaction"} -> {"getTransactions"}
      [] m \in {"updateTransaction", "transitionTransactionState"} -> {"getTransactionById"}
      [] m = "login" -> {"getMe"}
      [] m = "createOrgUnit" -> {"listOrganizationUnits"}
      [] m \in {"archiveOrganization", "suspendOrganization"} -> {"getOrganizationProfile", "getOrgHierarchy"}
      [] m \in {"pushPendingOps", "clearSyncStatus"} -> {"getPendingOperations", "getSyncStatusTracker"}
      [] OTHER -> {}

MutationFulfilled(c) ==
    LET m == call[c].mutation IN
    /\ call[c].at = "changed"
    /\ memory' = Settled([memory EXCEPT
          !.mutations = @ - 1, !.tags = @ \cup Invalidates[m], !.slices = OnFulfilled(@, m)])
    /\ log' = [log EXCEPT
          !.promised = [q \in Queries |-> IF q \in SeenIn(m) THEN outside[q] ELSE @[q]],
          !.signedOut = m = "logout"]
    /\ Returns(c)
    /\ UNCHANGED <<disk, outside>>

\* Also an answer that is not ok invalidates; one that is lost does not.
MutationRejected(c, ok) ==
    /\ call[c].at = IF ok THEN "changing" ELSE "changed"
    /\ memory' = Settled([memory EXCEPT
          !.mutations = @ - 1, !.slices = OnRejected,
          !.tags = @ \cup IF ok THEN Invalidates[call[c].mutation] ELSE {}])
    /\ log' = [log EXCEPT !.failed = TRUE]
    /\ Returns(c)
    /\ UNCHANGED <<disk, outside>>

FrontendNext ==
    \/ \E q \in Queries :
          \/ UseQuery(q) \/ Unuse(q) \/ Unkept(q) \/ Answers(q) \/ QueryFulfilled(q)
          \/ \E ok \in BOOLEAN : QueryRejected(q, ok)
    \/ \E c \in Calls :
          \/ \E m \in Mutations : Mutate(c, m)
          \/ Changes(c) \/ MutationFulfilled(c)
          \/ \E ok \in BOOLEAN : MutationRejected(c, ok)

-----------------------------------------------------------------------------
(* What the hooks give their components *)

Shown(q) == memory.cache[q].data

UseAuth == [isAuthenticated |-> Shown("getMe") # None]

\* The connection is "online" until an answer says otherwise, isOnline needs an answer; the
\* operations are taken from the `items` of an answer that is a list itself.
UseSync ==
    [connectionState |-> IF Shown("getConnectionState") = None THEN "online" ELSE "answered",
     isOnline |-> Shown("getConnectionState") # None,
     pendingOperations |-> {}]

-----------------------------------------------------------------------------
FrontendTypeOK ==
    /\ memory.used \subseteq Queries
    /\ \A q \in Queries :
          memory.cache[q].status \in {"none", "asking", "answering", "fulfilled", "rejected"}

\* When no request is under way no slice shows one, whichever requests overlapped and
\* however they ended (the matchers of the four slices).
LoadingEnds == UnderWay(memory) \/ \A s \in Slices : ~memory.slices[s].loading

\* A list that is shown, and was not refused when it was last asked for, has the mutations
\* that were answered, however requests overlapped (providesTags, invalidatesTags).
ShownHasMutations ==
    UnderWay(memory) \/
    \A q \in memory.used :
        memory.cache[q].status = "fulfilled" => Shown(q) >= log.promised[q]

FrontendSound == LoadingEnds /\ ShownHasMutations

\* Not kept: one answer ends the loading of all (the matchers of the four slices).
LoadingShown == UnderWay(memory) => \A s \in Slices : memory.slices[s].loading
\* Not kept: a query that is cached is rejected by its condition.
ErrorIsFailure == (\E s \in Slices : memory.slices[s].error) => log.failed
\* Not kept: logout invalidates a tag that no query provides.
SignedOutIsShown == log.signedOut /\ ~UnderWay(memory) => ~UseAuth.isAuthenticated
\* Not kept: no mutation invalidates the balance.
BalanceIsShown ==
    UnderWay(memory) \/ log.failed \/ "getBalanceSummary" \notin memory.used
    \/ Shown("getBalanceSummary") = outside["getBalanceSummary"]

\* Not kept before the first answer and while there is none, as when the device is offline.
ConnectionIsKnown == UseSync.connectionState = "online" => UseSync.isOnline
=============================================================================
