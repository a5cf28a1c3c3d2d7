------------------------------- MODULE HotSwap -------------------------------
(***************************************************************************)
(* HotSwapEngine (src/shared/feature-hot-swap/engine.ts) and the runtime   *)
(* that boots and disposes of it (runtime/runtime-bootstrap.ts).  Every    *)
(* method runs to its end; what can go wrong is what the feature modules   *)
(* do: `bad` is the set of those that fail in a call, each at one place.   *)
(*                                                                         *)
(* memory.feature[f] is the engine's runtime state of feature f; its       *)
(* unmountHandle is the number of the mount it undoes.  memory.live[f] is  *)
(* the set of the mounts of f that are really there.                       *)
(*                                                                         *)
(* Features are numbered in the order of the manifest.  A feature in       *)
(* Successors is the next version of the one before and has its toggleKey. *)
(***************************************************************************)
EXTENDS ClientStore, FiniteSetsExt

CONSTANTS
    LastFeature, \* bound: features
    Successors   \* among 2 .. LastFeature

Features == 1 .. LastFeature
ToggleKey(f) == IF f \in Successors THEN f - 1 ELSE f
Places == {"validate", "mount", "handle", "unmount"}
Unmounted == [mounted |-> FALSE, active |-> FALSE, handle |-> None]
NoSnapshot == [mounted |-> FALSE, active |-> FALSE, handle |-> -2]

\* What a manifest says of each feature
FeatureManifest == [Features -> {"absent", "off", "on"}]
Absent == [f \in Features |-> "absent"]

\* A new engine; nothing was mounted yet.
NewEngine == [feature |-> [f \in Features |-> Unmounted],
              previous |-> [f \in Features |-> NoSnapshot],
              registered |-> {},
              manifest |-> Absent,
              live |-> [f \in Features |-> {}],
              mounts |-> [f \in Features |-> 0]]

\* log: features whose flags a rollback or a failed unmount may have parted from what is
\* mounted; whether the last call applied a manifest without any failure; whether the
\* engine is disposed of.
SwapInit ==
    ClientInit(NewEngine, {}, {}, [parted |-> {}, applied |-> FALSE, disposed |-> TRUE])

-----------------------------------------------------------------------------
(* The engine's methods, on its state e *)

SavePreviousState(e, f) == [e EXCEPT !.previous[f] = e.feature[f]]

Rollback(e, f) ==
    IF e.previous[f] = NoSnapshot \/ f \notin e.registered THEN e
    ELSE [e EXCEPT !.feature[f] = e.previous[f]]

Mount(e, f) ==
    [e EXCEPT !.mounts[f] = @ + 1,
              !.live[f] = @ \cup {e.mounts[f] + 1},
              !.feature[f] = [mounted |-> TRUE, active |-> TRUE, handle |-> e.mounts[f] + 1]]

Activate(e, f, bad) ==
    LET saved == SavePreviousState(e, f) IN
    IF f \notin e.registered \/ <<f, "validate">> \in bad THEN e
    ELSE IF e.feature[f].mounted THEN saved
    ELSE IF <<f, "mount">> \in bad THEN Rollback(saved, f)
    ELSE Mount(saved, f)

Activated(e, f, bad) ==
    /\ f \in e.registered /\ <<f, "validate">> \notin bad
    /\ e.feature[f].mounted \/ <<f, "mount">> \notin bad

\* module.unmount tears down everything its mounts set up, the handle its own mount.
\* Mutant: the handle is called again the next time.
RunHandle_Kept(e, f) == [e EXCEPT !.live[f] = @ \ {e.feature[f].handle}]

RunHandle(e, f) ==
    [e EXCEPT !.live[f] = @ \ {e.feature[f].handle}, !.feature[f].handle = None]

Deactivate(e, f, bad) ==
    LET saved == SavePreviousState(e, f)
        undone == IF e.feature[f].handle = None THEN saved ELSE RunHandle(saved, f) IN
    IF f \notin e.registered THEN e
    ELSE IF <<f, "handle">> \in bad /\ e.feature[f].handle # None THEN saved
    ELSE IF <<f, "unmount">> \in bad THEN undone
    ELSE [undone EXCEPT !.live[f] = {}, !.feature[f].mounted = FALSE, !.feature[f].active = FALSE]

Deactivated(e, f, bad) ==
    /\ f \in e.registered
    /\ e.feature[f].handle # None => <<f, "handle">> \notin bad
    /\ <<f, "unmount">> \notin bad

\* A method called for each feature: it reads and writes what belongs to that feature only,
\* so that neither the order of the calls nor what the others did matters; `after` is the
\* engine after each of the calls.
Together(e, after) ==
    [e EXCEPT !.feature = [f \in Features |-> after[f].feature[f]],
              !.previous = [f \in Features |-> after[f].previous[f]],
              !.live = [f \in Features |-> after[f].live[f]],
              !.mounts = [f \in Features |-> after[f].mounts[f]]]

FullRollback(e) ==
    [Together(e, [f \in Features |-> Rollback(e, f)]) EXCEPT
        !.previous = [f \in Features |-> NoSnapshot]]

ActivateAll(e, features, bad) ==
    Together(e, [f \in Features |-> IF f \in features THEN Activate(e, f, bad) ELSE e])

DeactivateAll(e, features, bad) ==
    Together(e, [f \in Features |-> IF f \in features THEN Deactivate(e, f, bad) ELSE e])

\* detectToggleChanges compares entries of the same toggle key, the last one of each.
EntryOf(manifest, key) ==
    LET entries == {f \in Features : ToggleKey(f) = key /\ manifest[f] # "absent"} IN
    IF entries = {} THEN None ELSE Max(entries)
KeysOf(manifest) == {key \in Features : EntryOf(manifest, key) # None}

Added(old, new) == {EntryOf(new, key) : key \in KeysOf(new) \ KeysOf(old)}
Removed(old, new) == {EntryOf(old, key) : key \in KeysOf(old) \ KeysOf(new)}

\* Mutant: only what was switched on.
Toggled_On(old, new) ==
    {EntryOf(new, key) : key \in {k \in KeysOf(old) \cap KeysOf(new) :
        old[EntryOf(old, k)] = "off" /\ new[EntryOf(new, k)] = "on"}}

Toggled(old, new) ==
    {EntryOf(new, key) : key \in {k \in KeysOf(old) \cap KeysOf(new) :
        old[EntryOf(old, k)] # new[EntryOf(new, k)]}}

\* applyManifestUpdate.  A removed feature is not found in the new manifest and stays; a
\* feature switched on is not activated, and one that is added is, switched on or not.
Apply(e, new, bad) ==
    LET old == e.manifest
        off == {f \in Removed(old, new) \cup Toggled(old, new) : new[f] = "off"} IN
    [ActivateAll(DeactivateAll(e, off, bad), Added(old, new), bad) EXCEPT !.manifest = new]

-----------------------------------------------------------------------------
\* The history follows every call: a feature whose handle or unmount failed, or which a
\* rollback gave other flags, is parted until it is deactivated without a failure.
FlagsFit(e, f) ==
    /\ e.feature[f].mounted = (e.live[f] # {})
    /\ e.feature[f].handle # None => e.live[f] = {e.feature[f].handle}

Becomes(e, parted, applied) ==
    /\ Called
    /\ memory' = e
    /\ log' = [log EXCEPT !.parted = {f \in @ \cup parted : ~FlagsFit(e, f)},
                          !.applied = applied]
    /\ UNCHANGED <<disk, outside>>

Failing(bad) == {f \in Features : \E p \in {"handle", "unmount"} : <<f, p>> \in bad}

\* createLuminaRuntime: a new engine; what an old one left mounted is still there.
BootRuntime(manifest, modules, bad) ==
    LET boot == [memory EXCEPT !.feature = NewEngine.feature, !.previous = NewEngine.previous,
                               !.registered = modules, !.manifest = manifest] IN
    /\ log.disposed
    /\ Called
    /\ memory' = ActivateAll(boot, {f \in modules : manifest[f] = "on"}, bad)
    /\ log' = [parted |-> {f \in Features : memory.live[f] # {}}, applied |-> FALSE,
               disposed |-> FALSE]
    /\ UNCHANGED <<disk, outside>>

\* dispose of the runtime
DisposeRuntime ==
    /\ ~log.disposed
    /\ Called
    /\ memory' = FullRollback(memory)
    /\ log' = [log EXCEPT !.disposed = TRUE, !.applied = FALSE, !.parted = Features]
    /\ UNCHANGED <<disk, outside>>

RegisterModule(f) ==
    /\ f \notin memory.registered
    /\ Becomes([memory EXCEPT !.registered = @ \cup {f}], {}, FALSE)

ActivateFeature(f, bad) == Becomes(Activate(memory, f, bad), {}, FALSE)
DeactivateFeature(f, bad) == Becomes(Deactivate(memory, f, bad), Failing(bad), FALSE)
RollbackFeature(f) == Becomes(Rollback(memory, f), {f}, FALSE)

HotSwap(from, new, bad) ==
    LET known == [memory EXCEPT !.registered = @ \cup {new}]
        gone == Deactivate(known, from, bad) IN
    Becomes(IF Deactivated(known, from, bad) THEN Activate(gone, new, bad) ELSE gone,
            Failing(bad), FALSE)

ActivateAllFromManifest(bad) ==
    Becomes(ActivateAll(memory, {f \in Features : memory.manifest[f] = "on"}, bad), {}, FALSE)

\* The engine's snapshot is there from the boot on: the first manifest is never only loaded.
ApplyManifestUpdate(new, bad) ==
    Becomes(Apply(memory, new, bad), Failing(bad), bad = {} /\ log.parted = {})

SwapNext ==
    \/ calls < MaxCalls /\ \E bad \in {{}} \cup {{b} : b \in Features \X Places} :
          \/ \E manifest \in FeatureManifest, modules \in SUBSET Features :
                BootRuntime(manifest, modules, bad)
          \/ /\ ~log.disposed
             /\ \/ \E f \in Features : ActivateFeature(f, bad) \/ DeactivateFeature(f, bad)
                \/ \E from, new \in Features : HotSwap(from, new, bad)
                \/ ActivateAllFromManifest(bad)
                \/ \E manifest \in FeatureManifest : ApplyManifestUpdate(manifest, bad)
    \/ \E f \in Features : ~log.disposed /\ (RegisterModule(f) \/ RollbackFeature(f))
    \/ DisposeRuntime

-----------------------------------------------------------------------------
SwapTypeOK ==
    /\ memory.registered \subseteq Features /\ memory.manifest \in FeatureManifest
    /\ \A f \in Features : memory.live[f] \subseteq 1 .. memory.mounts[f]

\* As long as no rollback was asked for and no module failed to unmount, a feature is
\* mounted exactly when its flags say so, once, and its handle undoes that mount: also
\* after activations that crashed and were rolled back ("If activateFeature crashes ->
\* previous state is restored instantly").
FlagsAreTrue == \A f \in Features \ log.parted : FlagsFit(memory, f)

\* After an update that went well, a feature that has a toggle key of its own, was on in
\* the manifest before and is off in the new one is not mounted (applyManifestUpdate).
SwitchedOffStep ==
    \A f \in Features :
        /\ log'.applied /\ \A g \in Features : ToggleKey(g) = ToggleKey(f) => g = f
        /\ memory.manifest[f] = "on" /\ memory'.manifest[f] = "off"
        => memory'.live[f] = {}
SwitchedOffIsUnmounted == [][SwitchedOffStep]_clientVars

\* applyManifestUpdate: "Deactivate removed/toggled-off features first", "Activate newly
\* enabled features".  After an update that went well, the registered features the
\* manifest has switched on, and no others, are mounted.
ManifestIsApplied ==
    log.applied => \A f \in memory.registered :
                       (memory.live[f] # {}) = (memory.manifest[f] = "on")

\* dispose: "Clean up subscriptions and listeners."
DisposedIsUnmounted == log.disposed => \A f \in Features : memory.live[f] = {}

\* "If deactivateFeature crashes -> fallback module stays mounted"
FallbackStaysMounted ==
    [][\A f \in Features :
          memory.feature[f].mounted /\ memory'.feature[f].mounted /\ memory.live[f] # {}
             => memory'.live[f] # {}]_clientVars
=============================================================================
