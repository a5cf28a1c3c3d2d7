---------------------------- MODULE ManifestCache ----------------------------
(***************************************************************************)
(* OfflineRuntimeCache (src/shared/offline-runtime/cache.ts) for one       *)
(* organization, over the stores of runtime/runtime-bootstrap.ts, and, at  *)
(* the end, the version stack beside it (version-stack.ts).                *)
(*                                                                         *)
(*   memory   L1: manifests by version, each with whether it is younger    *)
(*            than five minutes                                            *)
(*   disk     L2, with room for one manifest; L3, a file for each version; *)
(*            and the manifests whose file is still being written          *)
(*   outside  the manifest the server would answer with                    *)
(*                                                                         *)
(* A manifest is its version and the number of the deployment it came      *)
(* with; deployedAt differs for each deployment.                           *)
(***************************************************************************)
EXTENDS ClientStore, FiniteSetsExt

CONSTANTS
    MaxVersion,     \* bound: versions
    MaxDeployments, \* bound: deployments of the server
    LastVersion,    \* bound: versions of the stack
    MaxStored       \* versions the stack has room for

Versions == 1 .. MaxVersion
Manifest == [version : Versions, deployment : 1 .. MaxDeployments]
NoManifest == [version |-> 0, deployment |-> 0]
NoEntry == [data |-> NoManifest, fresh |-> FALSE]
NoDisk == [l2 |-> NoManifest, l3 |-> [v \in Versions |-> NoManifest], saving |-> {}]

CacheInit ==
    \E first \in Versions :
        ClientInit([v \in Versions |-> NoEntry],
                   NoDisk,
                   [version |-> first, deployment |-> 1],
                   [refreshed |-> NoManifest, invalidated |-> {}, upset |-> {}])

\* L1Cache.get: the entry of the version, or the highest version of all; then its age.
\* Mutant: the oldest entry.
L1Get_Lowest(version) ==
    LET cached == {v \in Versions : memory[v] # NoEntry /\ version \in {v, None}}
        hit == memory[CHOOSE v \in cached : \A w \in cached : v <= w] IN
    IF cached # {} /\ hit.fresh THEN hit.data ELSE NoManifest

L1Get(version) ==
    LET cached == {v \in Versions : memory[v] # NoEntry /\ version \in {v, None}}
        hit == memory[CHOOSE v \in cached : \A w \in cached : w <= v] IN
    IF cached # {} /\ hit.fresh THEN hit.data ELSE NoManifest

L1Set(m) == memory' = [memory EXCEPT ![m.version] = [data |-> m, fresh |-> TRUE]]

L1Invalidate(version) ==
    memory' = [v \in Versions |-> IF version \in {v, None} THEN NoEntry ELSE memory[v]]

\* The stores; MemoryL2Store keeps one manifest and deletes it whatever version is asked.
\* Mutant: L2 keeps what it has.
L2SetManifest_IfNewer(m) ==
    disk' = [disk EXCEPT !.l2 = IF m.version > @.version THEN m ELSE @]

L2SetManifest(m) == disk' = [disk EXCEPT !.l2 = m]
L2DeleteManifest == disk' = [disk EXCEPT !.l2 = NoManifest]

\* Mutant: the file is left to the next save.
L3DeleteFile_Not(version) == UNCHANGED disk

L3DeleteFile(version) == disk' = [disk EXCEPT !.l3[version] = NoManifest]

-----------------------------------------------------------------------------
(* getManifest, alone or as the first part of refreshFromServer *)

\* A call of anyone ends what the history says of the last refresh and invalidation;
\* so does a deployment.
Forgetting(upset) == log' = [refreshed |-> NoManifest, invalidated |-> {},
                              upset |-> log.upset \cup upset]
Forget == Forgetting({})

\* For the history: the number of a call that begins while no other is under way, and
\* whether none has begun since.
Since(c) == IF OnlyCall(c) THEN calls + 1 ELSE None
Undisturbed(c) == call[c].since = calls

\* What happens with the manifest found (or not): the caller has it, or the refresh goes on.
Found(c, m) ==
    IF call[c].refreshing
      THEN GoesOn(c, [at |-> "fetch", local |-> m, since |-> call[c].since])
      ELSE Returns(c)

GetManifest(c, version, refreshing) ==
    LET hit == L1Get(version) IN
    /\ refreshing => version = None
    /\ Begins(c, IF hit = NoManifest
                   THEN [at |-> "l2", version |-> version, found |-> disk.l2,
                         refreshing |-> refreshing, since |-> Since(c)]
                   ELSE IF refreshing THEN [at |-> "fetch", local |-> hit, since |-> Since(c)]
                   ELSE Idle)
    /\ Forget
    /\ UNCHANGED <<memory, disk, outside>>

\* The next tier is asked.
Asks(r, at, version, found) ==
    [at |-> at, version |-> version, found |-> found, refreshing |-> r.refreshing,
     since |-> r.since]

\* L2 has answered: cached under its own version, not the one asked for.
L2Answered(c) ==
    LET r == call[c] IN
    /\ r.at = "l2"
    /\ IF r.found # NoManifest
         THEN L1Set(r.found) /\ Found(c, r.found)
         ELSE /\ GoesOn(c, IF r.version = None
                             THEN Asks(r, "list", disk.l2.version, NoManifest)
                             ELSE Asks(r, "l3", r.version, disk.l3[r.version]))
              /\ UNCHANGED memory
    /\ UNCHANGED <<disk, outside, log>>

\* L2 has listed its versions: only one that came in meanwhile.
VersionsListed(c) ==
    LET r == call[c] IN
    /\ r.at = "list"
    /\ IF r.version = 0
         THEN Found(c, NoManifest)
         ELSE GoesOn(c, Asks(r, "l3", r.version, disk.l3[r.version]))
    /\ UNCHANGED <<memory, disk, outside, log>>

L3Answered(c) ==
    LET r == call[c] IN
    /\ r.at = "l3"
    /\ IF r.found # NoManifest THEN L1Set(r.found) ELSE UNCHANGED memory
    /\ Found(c, r.found)
    /\ UNCHANGED <<disk, outside, log>>

-----------------------------------------------------------------------------
(* setManifest, by the app or as the second part of refreshFromServer *)

Set(m) == L1Set(m) /\ L2SetManifest(m)

\* For the history: it replaces a later deployment, or the server has gone back a version.
Backwards(m) ==
    IF m.version < disk.l2.version \/ m.deployment < disk.l2.deployment
      THEN {"went back"} ELSE {}

SetManifest(c, m) ==
    /\ Begins(c, [at |-> "set", data |-> m, since |-> None])
    /\ Set(m)
    /\ Forgetting(Backwards(m))
    /\ UNCHANGED outside

\* The file is written without anyone waiting for it.
L2Written(c) ==
    LET r == call[c] IN
    /\ r.at = "set"
    /\ disk' = [disk EXCEPT !.saving = @ \cup {r.data}]
    /\ log' = IF Undisturbed(c) /\ r.data = outside THEN [log EXCEPT !.refreshed = r.data] ELSE log
    /\ Returns(c)
    /\ UNCHANGED <<memory, outside>>

\* persistManifest of the runtime goes past the cache: L2, then the file.
PersistManifest(c, m) ==
    /\ Begins(c, [at |-> "persist", data |-> m])
    /\ L2SetManifest(m)
    /\ Forgetting(Backwards(m))
    /\ UNCHANGED <<memory, outside>>

ManifestPersisted(c) ==
    /\ call[c].at = "persist"
    /\ disk' = [disk EXCEPT !.l3[call[c].data.version] = call[c].data]
    /\ Returns(c)
    /\ UNCHANGED <<memory, outside, log>>

FileSaved(m) ==
    /\ m \in disk.saving
    /\ disk' = [disk EXCEPT !.saving = @ \ {m}, !.l3[m.version] = m]
    /\ UNCHANGED <<memory, outside, call, log, calls>>

FileLost(m) ==
    /\ m \in disk.saving
    /\ disk' = [disk EXCEPT !.saving = @ \ {m}]
    /\ UNCHANGED <<memory, outside, call, log, calls>>

\* fetchFn: the server's answer, which then is on its way.
Fetch(c) ==
    LET r == call[c] IN
    /\ r.at = "fetch"
    /\ GoesOn(c, [at |-> "fetched", local |-> r.local, server |-> outside, since |-> r.since])
    /\ UNCHANGED <<memory, disk, outside, log>>

\* Mutant: the versions alone decide.
Changed_Version(local, server) == local.version # server.version

Changed(local, server) == local # server

Fetched(c) ==
    LET r == call[c] IN
    /\ r.at = "fetched"
    /\ IF Changed(r.local, r.server)
         THEN /\ Set(r.server)
              /\ GoesOn(c, [at |-> "set", data |-> r.server, since |-> r.since])
              /\ log' = [log EXCEPT !.upset = @ \cup Backwards(r.server)]
         ELSE /\ log' = IF Undisturbed(c) /\ r.server = outside
                          THEN [log EXCEPT !.refreshed = r.server] ELSE log
              /\ Returns(c)
              /\ UNCHANGED <<memory, disk>>
    /\ UNCHANGED outside

-----------------------------------------------------------------------------
\* Without a version, L1 alone is emptied.
Invalidate(c, version) ==
    /\ L1Invalidate(version)
    /\ IF version = None
         THEN BeginsAndReturns(c) /\ UNCHANGED disk /\ Forget
         ELSE /\ L2DeleteManifest
              /\ Begins(c, [at |-> "l2Deleted", version |-> version,
                              since |-> IF disk.saving = {} THEN Since(c) ELSE None])
              /\ Forgetting(IF disk.l2 = NoManifest THEN {} ELSE {"L2 emptied"})
    /\ UNCHANGED outside

\* Whether or not the file can be deleted, the call ends well.
L2Deleted(c, deleted) ==
    LET r == call[c] IN
    /\ r.at = "l2Deleted"
    /\ IF deleted THEN L3DeleteFile(r.version) ELSE UNCHANGED disk
    /\ log' = IF Undisturbed(c)
                THEN [log EXCEPT !.invalidated = {[version |-> r.version, deleted |-> deleted]}]
                ELSE log
    /\ Returns(c)
    /\ UNCHANGED <<memory, outside>>

FiveMinutesPass ==
    /\ \E v \in Versions : memory[v].fresh
    /\ memory' = [v \in Versions |-> [memory[v] EXCEPT !.fresh = FALSE]]
    /\ UNCHANGED <<disk, outside, call, log, calls>>

ServerDeploys(version) ==
    /\ outside.deployment < MaxDeployments
    /\ outside' = [version |-> version, deployment |-> outside.deployment + 1]
    /\ Forget
    /\ UNCHANGED <<memory, disk, call, calls>>

\* The app starts again; files being written may be lost.
StartsAgain ==
    /\ calls < MaxCalls /\ calls' = calls + 1
    /\ memory' = [v \in Versions |-> NoEntry]
    /\ call' = [c \in Calls |-> Idle]
    /\ UNCHANGED outside

\* ... with the stores the app gave to createLuminaRuntime.
RestartApp ==
    /\ StartsAgain
    /\ disk' = [disk EXCEPT !.saving = {}]
    /\ UNCHANGED log

\* ... with new stores in memory, as when it gave none: the cache begins anew.
RestartInMemory ==
    /\ StartsAgain
    /\ disk' = NoDisk
    /\ log' = [refreshed |-> NoManifest, invalidated |-> log.invalidated, upset |-> {}]

CacheNext ==
    \/ \E c \in Calls :
          \/ \E version \in Versions \cup {None}, refreshing \in BOOLEAN :
                GetManifest(c, version, refreshing)
          \/ L2Answered(c) \/ VersionsListed(c) \/ L3Answered(c)
          \/ SetManifest(c, outside)
          \/ PersistManifest(c, outside) \/ ManifestPersisted(c)
          \/ L2Written(c) \/ Fetch(c) \/ Fetched(c)
          \/ \E version \in Versions \cup {None} : Invalidate(c, version)
          \/ \E deleted \in BOOLEAN : L2Deleted(c, deleted)
    \/ \E m \in disk.saving : FileSaved(m) \/ FileLost(m)
    \/ FiveMinutesPass
    \/ \E version \in Versions : ServerDeploys(version)
    \/ RestartApp \/ RestartInMemory

CacheSpec == CacheInit /\ [][CacheNext]_clientVars

-----------------------------------------------------------------------------
\* Every tier holds a manifest under its own version.
CacheTypeOK ==
    /\ \A v \in Versions :
          /\ memory[v] = NoEntry \/ memory[v].data.version = v
          /\ disk.l3[v] = NoManifest \/ disk.l3[v].version = v
    /\ disk.l2 \in Manifest \cup {NoManifest} /\ disk.saving \subseteq Manifest
    /\ outside \in Manifest

\* What getManifest without a version answers when nothing is under way
Read == IF L1Get(None) # NoManifest THEN L1Get(None) ELSE disk.l2

\* After a refresh that no other call overlapped, whatever has expired since and whether
\* or not the app was restarted with its stores, getManifest answers with what the server deployed last,
\* if no call wrote an older deployment or version over a later one before, and no
\* invalidation emptied L2 (refreshFromServer in cache.ts).
RefreshedIsRead == log.upset = {} /\ log.refreshed # NoManifest => Read = log.refreshed

\* The same whatever happened before: "apply server delta, replace cache atomically".
CacheIsReplaced == log.refreshed # NoManifest => Read = log.refreshed

\* A version invalidated while no other call and no write of a file was under way is in
\* neither L1 nor L2, nor in L3 unless its file could not be deleted, and stays away until
\* a call brings it back (invalidate in cache.ts).
InvalidatedIsGone ==
    \A i \in log.invalidated :
        /\ memory[i.version] = NoEntry /\ disk.l2.version # i.version
        /\ i.deleted => disk.l3[i.version] = NoManifest
-----------------------------------------------------------------------------
(* VersionStack: the last manifests of an organization, kept for rollback. *)
(* The store is given by the app: here disk is the set of the versions it  *)
(* holds.  append saves, reads the store again and deletes what is too     *)
(* much, one version after the other.                                      *)

StackVersions == 1 .. LastVersion

\* log: the versions ever put in, those taken out by hand since, and whether a call was
\* cut short.
StackInit == ClientInit({}, {}, {}, [appended |-> {}, removed |-> {}, failed |-> FALSE])

Append_(c, version) ==
    /\ Begins(c, [at |-> "listed", version |-> version, listed |-> disk])
    /\ UNCHANGED <<memory, disk, outside, log>>

Listed(c) ==
    LET r == call[c] IN
    /\ r.at = "listed"
    /\ IF r.version \in r.listed
         THEN Returns(c) /\ UNCHANGED <<disk, log>>
         ELSE /\ disk' = disk \cup {r.version}
              /\ GoesOn(c, [at |-> "saved"])
              /\ log' = [log EXCEPT !.appended = @ \cup {r.version}, !.removed = @ \ {r.version}]
    /\ UNCHANGED <<memory, outside>>

\* The versions of `all` there is no room for
\* Mutant: one more is kept.
Excess_OneMore(all) == {v \in all : Cardinality({w \in all : w > v}) > MaxStored}

\* Mutant: the newest are deleted.
Excess_Newest(all) == {v \in all : Cardinality({w \in all : w < v}) >= MaxStored}

Excess(all) == {v \in all : Cardinality({w \in all : w > v}) >= MaxStored}

\* _prune, from its read of the store; then it deletes the oldest first.
Pruning(c, excess) ==
    IF excess = {} THEN Returns(c) ELSE GoesOn(c, [at |-> "pruning", excess |-> excess])

Saved(c) ==
    /\ call[c].at = "saved"
    /\ Pruning(c, Excess(disk))
    /\ UNCHANGED <<memory, disk, outside, log>>

Prune(c) ==
    LET oldest == Min(call[c].excess) IN
    /\ call[c].at = "pruning"
    /\ disk' = disk \ {oldest}
    /\ Pruning(c, call[c].excess \ {oldest})
    /\ UNCHANGED <<memory, outside, log>>

Remove_(c, version) ==
    /\ BeginsAndReturns(c)
    /\ disk' = disk \ {version}
    /\ log' = [log EXCEPT !.removed = @ \cup {version}]
    /\ UNCHANGED <<memory, outside>>

\* A deletion of the store fails, or the app ends: the rest is not pruned.
StackCallFails ==
    /\ ~Quiet
    /\ call' = [c \in Calls |-> Idle]
    /\ log' = [log EXCEPT !.failed = TRUE]
    /\ UNCHANGED <<memory, disk, outside, calls>>

StackNext ==
    \/ \E c \in Calls :
          \/ \E v \in StackVersions : Append_(c, v) \/ Remove_(c, v)
          \/ Listed(c) \/ Saved(c) \/ Prune(c)
    \/ StackCallFails

-----------------------------------------------------------------------------
StackTypeOK == disk \subseteq StackVersions /\ log.appended \subseteq StackVersions

\* Between calls at most MaxStored versions are kept, however the calls overlapped, if
\* none was cut short (append and _prune in version-stack.ts).
AtMostStored == Quiet /\ ~log.failed => Cardinality(disk) <= MaxStored

\* Whatever overlaps or fails, a version that was appended and not removed by hand is
\* missing only if MaxStored newer ones were appended: rollback has the newest ones.
MissingForNewer ==
    \A v \in log.appended \ log.removed :
        v \notin disk => Cardinality({w \in log.appended : w > v}) >= MaxStored
=============================================================================
