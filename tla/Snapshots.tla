----------------------------- MODULE Snapshots -----------------------------
(***************************************************************************)
(* How a table handle is loaded, moved along the log and taken back in     *)
(* time, and the cache of active files its snapshot carries.  Meanwhile    *)
(* other processes commit, write checkpoints and clean up the log.  The    *)
(* cache is computed from an older cache where there is one, survives      *)
(* serialization, and is used only by the snapshot it was computed for.    *)
(*                                                                         *)
(* log[v] holds the active files and the metadata of version v; versions   *)
(* count from 1.  A snapshot is [version, checkpoint, eager, skip, cache]; *)
(* a cache is [version, checkpoint, metadata, policy, files].              *)
(***************************************************************************)
EXTENDS Integers, Sequences, FiniteSets, FiniteSetsExt

CONSTANTS
    Clocks,      \* sequences of commit times, one per version
    Times,       \* the times a reader asks for
    MaxVersion,  \* bound: versions of the table
    MaxSteps,    \* bound: steps of the handle
    NONE

VARIABLES
    log,          \* the versions of the table
    times,        \* last_modified of the commit files, once written
    first,        \* the lowest version whose commit file is kept
    checkpoints,  \* versions with a checkpoint
    hint,         \* the version in _last_checkpoint, or NONE
    handle,       \* DeltaTable.state, or NONE
    wire,         \* a serialized snapshot, or NONE
    readset,      \* the last conflict read set
    asked,        \* what the handle was last told to load
    steps         \* steps of the handle so far

nvars == <<log, times, first, checkpoints, hint, handle, wire, readset, asked, steps>>

Latest == Len(log)

-----------------------------------------------------------------------------
(* The kernel: which log segment backs a version, and what replaying it    *)
(* gives.                                                                  *)

Backing(v) == {c \in checkpoints : c <= v}
CheckpointFor(v) == IF Backing(v) = {} THEN NONE ELSE Max(Backing(v))
CommitsFrom(v, w) == \A i \in v..w : i >= first
SegmentReadable(c, v) ==
    IF c = NONE THEN CommitsFrom(1, v) ELSE c \in checkpoints /\ CommitsFrom(c + 1, v)
Loadable(v) == v \in 1..Latest /\ SegmentReadable(CheckpointFor(v), v)

Adds(v) == log[v].files \ log[v - 1].files
Removes(v) == log[v - 1].files \ log[v].files
ReplayFrom(files, e, v) ==
    LET after[i \in e..v] == IF i = e THEN files ELSE (after[i - 1] \ Removes(i)) \cup Adds(i)
    IN  after[v]

-----------------------------------------------------------------------------
(* The cache.                                                              *)

Policy(s) == IF s.skip THEN "without_stats" ELSE "preserve_raw"
Satisfies_mutant(policy, stats) == TRUE
Satisfies(policy, stats) == stats = "none" \/ policy = "preserve_raw"

IsCacheFor(c, s) ==
    /\ c.policy = Policy(s)
    /\ c.version = s.version
    /\ c.checkpoint = s.checkpoint
    /\ c.metadata = log[s.version].metadata

MaterializedFiles(s) == IF s.cache # NONE /\ IsCacheFor(s.cache, s) THEN s.cache ELSE NONE

(* MaterializedFiles::full                                                 *)
Full(s, fs) ==
    [version |-> s.version, checkpoint |-> s.checkpoint, metadata |-> log[s.version].metadata,
     policy |-> Policy(s), files |-> fs]

(* full_table_seed and scan_metadata_from: the files of an older cache,    *)
(* and the commits since; a checkpoint after the seed makes it useless.    *)
SeedVersion_mutant(seed, s) == s.version
SeedVersion(seed, s) == seed.version
FilesFrom(s, seed) ==
    IF seed # NONE /\ (s.checkpoint = NONE \/ s.checkpoint <= seed.version)
    THEN IF CommitsFrom(seed.version + 1, s.version)
         THEN {ReplayFrom(seed.files, SeedVersion(seed, s), s.version)} ELSE {}
    ELSE IF SegmentReadable(s.checkpoint, s.version) THEN {log[s.version].files} ELSE {}

(* materialize_files_with_engine: the snapshots it can return; none when a *)
(* log file it needs is gone.                                              *)
Materialize(s, seed) ==
    IF seed = NONE /\ MaterializedFiles(s) # NONE THEN {s}
    ELSE {[s EXCEPT !.cache = Full(s, fs)] : fs \in FilesFrom(s, seed)}

Ensure(s) == IF s.eager THEN Materialize(s, NONE) ELSE {s}

(* Snapshot::try_new and EagerSnapshot::try_new.                           *)
TryNew(v, eager, skip) ==
    IF ~Loadable(v) THEN {}
    ELSE Ensure([version |-> v, checkpoint |-> CheckpointFor(v), eager |-> eager, skip |-> skip, cache |-> NONE])

(* refresh_same_version_checkpoint_if_needed                               *)
RefreshSameVersion_mutant(s) == {s}
RefreshSameVersion(s) ==
    IF s.checkpoint = s.version \/ hint # s.version THEN {s}
    ELSE IF ~Loadable(s.version) THEN {}
    ELSE LET new == [s EXCEPT !.checkpoint = CheckpointFor(s.version), !.cache = NONE]
         IN  IF MaterializedFiles(s) = NONE THEN {new} ELSE Materialize(new, MaterializedFiles(s))

(* Snapshot::update_with_catalog_state.  A version that the log does not   *)
(* have fails in the kernel.                                               *)
UpdateTo(s, target) ==
    IF target # NONE /\ target < s.version THEN {}
    ELSE LET v == IF target = NONE THEN Latest ELSE target
             segment == LET c == CheckpointFor(v)
                        IN  IF c = NONE \/ (s.checkpoint # NONE /\ c < s.checkpoint) THEN s.checkpoint ELSE c
             new == [s EXCEPT !.version = v, !.checkpoint = segment, !.cache = NONE]
         IN  IF v = s.version THEN RefreshSameVersion(s)
             ELSE IF v > Latest \/ ~CommitsFrom((IF segment = NONE \/ segment < s.version THEN s.version ELSE segment) + 1, v) THEN {}
             ELSE IF MaterializedFiles(s) = NONE THEN {new} ELSE Materialize(new, MaterializedFiles(s))

-----------------------------------------------------------------------------
(* The other processes.                                                    *)

Init ==
    /\ log = <<[files |-> {1}, metadata |-> 1]>>
    /\ times \in Clocks
    /\ first = 1
    /\ checkpoints = {}
    /\ hint = NONE
    /\ handle = NONE
    /\ wire = NONE
    /\ readset = NONE
    /\ asked = NONE
    /\ steps = 0

Commit ==
    /\ Latest < MaxVersion
    /\ LET n == Latest + 1 IN
       \E c \in {[log[Latest] EXCEPT !.files = @ \cup {n}], [files |-> {n}, metadata |-> n]} :
            log' = Append(log, c)
    /\ UNCHANGED <<times, first, checkpoints, hint, handle, wire, readset, asked, steps>>

(* A checkpoint of the latest version; its hint is written after it.       *)
Checkpoint ==
    /\ checkpoints' = checkpoints \cup {Latest}
    /\ hint' \in {hint, Latest}
    /\ <<checkpoints', hint'>> # <<checkpoints, hint>>
    /\ UNCHANGED <<log, times, first, handle, wire, readset, asked, steps>>

(* Log cleanup deletes commits up to a checkpoint.                         *)
Cleanup ==
    /\ \E c \in checkpoints : c > first /\ first' = c
    /\ UNCHANGED <<log, times, checkpoints, hint, handle, wire, readset, asked, steps>>

-----------------------------------------------------------------------------
(* The handle.  h' \in the outcomes of a call; no outcome is a failure.    *)

Step == steps < MaxSteps /\ steps' = steps + 1
Becomes(outcomes, otherwise) ==
    IF outcomes = {} THEN handle' = otherwise ELSE handle' \in outcomes

(* DeltaTableBuilder::load, load_version.                                  *)
Open ==
    /\ Step
    /\ handle = NONE
    /\ \E v \in {NONE} \cup 1..Latest, eager \in BOOLEAN, skip \in BOOLEAN :
        Becomes(TryNew(IF v = NONE THEN Latest ELSE v, eager, skip), NONE)
    /\ asked' = NONE
    /\ UNCHANGED <<log, times, first, checkpoints, hint, wire>>
    /\ readset' = NONE

(* DeltaTable::update_incremental                                          *)
UpdateIncremental(target) ==
    /\ Step
    /\ handle # NONE
    /\ Becomes(UpdateTo(handle, target), handle)
    /\ asked' = [kind |-> "update", target |-> target, from |-> handle.version,
                 adopted |-> UpdateTo(handle, target) # {} /\ hint = handle'.version]
    /\ UNCHANGED <<log, times, first, checkpoints, hint, wire>>
    /\ readset' = NONE

(* DeltaTable::load_version: a newer state is dropped first.               *)
LoadVersion(v) ==
    IF handle.version > v THEN TryNew(v, handle.eager, handle.skip) ELSE UpdateTo(handle, v)
LoadFailed(v) == IF handle.version > v THEN NONE ELSE handle

LoadOlder ==
    /\ Step
    /\ handle # NONE
    /\ \E v \in 1..Latest : Becomes(LoadVersion(v), LoadFailed(v))
    /\ asked' = NONE
    /\ UNCHANGED <<log, times, first, checkpoints, hint, wire>>
    /\ readset' = NONE

(* DeltaTable::load_with_datetime: a binary search over the commit files   *)
(* from the lowest listed one to the latest.                               *)
Search_mutant(t) ==
    LET search[lo \in 1..(MaxVersion + 1), hi \in 0..MaxVersion, v \in 0..MaxVersion] ==
            IF lo > hi THEN v
            ELSE LET pivot == (lo + hi) \div 2
                 IN  IF times[pivot] = t THEN pivot
                     ELSE IF times[pivot] < t THEN search[pivot + 1, hi, pivot]
                     ELSE search[lo, pivot - 1, pivot]
    IN  search[first, Latest, first]
Search(t) ==
    LET search[lo \in 1..(MaxVersion + 1), hi \in 0..MaxVersion, v \in 0..MaxVersion] ==
            IF lo > hi THEN v
            ELSE LET pivot == (lo + hi) \div 2
                 IN  IF times[pivot] = t THEN pivot
                     ELSE IF times[pivot] < t THEN search[pivot + 1, hi, pivot]
                     ELSE search[lo, pivot - 1, pivot - 1]
    IN  search[first, Latest, first]

LoadWithDatetime ==
    /\ Step
    /\ handle # NONE
    /\ \E t \in Times :
        LET v == IF Search(t) < first THEN first ELSE Search(t) IN
        /\ Becomes(LoadVersion(v), LoadFailed(v))
        /\ asked' = IF LoadVersion(v) = {} THEN NONE
                    ELSE [kind |-> "time", target |-> t, lowest |-> first, latest |-> Latest]
    /\ UNCHANGED <<log, times, first, checkpoints, hint, wire>>
    /\ readset' = NONE

(* EagerSnapshot::with_files                                               *)
WithFiles ==
    /\ Step
    /\ handle # NONE
    /\ Becomes(IF MaterializedFiles(handle) # NONE /\ handle.eager THEN {handle}
               ELSE Ensure([handle EXCEPT !.eager = TRUE]), handle)
    /\ asked' = NONE
    /\ UNCHANGED <<log, times, first, checkpoints, hint, wire>>
    /\ readset' = NONE

(* Serialization: the current form carries the identity and the policy of  *)
(* the cache; releases before wrote the cache without them, or, for an     *)
(* eager snapshot, as a payload of its own that is empty without files.    *)
Serialize ==
    /\ Step
    /\ handle # NONE
    /\ \E form \in {"current", "pre_identity", "legacy_eager"} :
        wire' = [snapshot |-> [handle EXCEPT !.cache = NONE], form |-> form,
                 cache |-> MaterializedFiles(handle),
                 payload |-> IF MaterializedFiles(handle) = NONE THEN {} ELSE MaterializedFiles(handle).files]
    /\ UNCHANGED <<log, times, first, checkpoints, hint, handle>>
    /\ readset' = NONE
    /\ asked' = NONE

(* into_materialized and materialized_files_from_legacy_eager_payload.     *)
WireCache(w) ==
    CASE w.form = "legacy_eager" ->
            IF w.payload = {} /\ ~w.snapshot.eager THEN NONE ELSE Full(w.snapshot, w.payload)
      [] w.cache = NONE -> NONE
      [] w.form = "current" -> IF IsCacheFor(w.cache, w.snapshot) THEN w.cache ELSE NONE
      [] w.form = "pre_identity" -> Full(w.snapshot, w.cache.files)

Deserialize ==
    /\ Step
    /\ wire # NONE
    /\ LET s == [wire.snapshot EXCEPT !.cache = WireCache(wire)]
       IN  handle' = IF s.eager /\ MaterializedFiles(s) = NONE THEN handle ELSE s
    /\ asked' = NONE
    /\ UNCHANGED <<log, times, first, checkpoints, hint, wire>>
    /\ readset' = NONE

(* conflict_read_set: the cache when it has stats, else a replay with them.*)
ConflictReadSet ==
    /\ Step
    /\ handle # NONE
    /\ LET c == MaterializedFiles(handle) IN
       readset' = IF c # NONE /\ Satisfies(c.policy, "parsed")
                  THEN [version |-> handle.version, files |-> c.files, stats |-> c.policy = "preserve_raw"]
                  ELSE IF SegmentReadable(handle.checkpoint, handle.version)
                       THEN [version |-> handle.version, files |-> log[handle.version].files, stats |-> TRUE]
                       ELSE NONE
    /\ UNCHANGED <<log, times, first, checkpoints, hint, handle, wire>>
    /\ asked' = NONE

Next ==
    \/ Commit \/ Checkpoint \/ Cleanup
    \/ Open \/ LoadOlder \/ LoadWithDatetime \/ WithFiles \/ Serialize \/ Deserialize \/ ConflictReadSet
    \/ \E target \in {NONE} \cup 1..Latest : UpdateIncremental(target)

-----------------------------------------------------------------------------
(* Whatever sequence of updates, reloads, checkpoint adoptions and round   *)
(* trips through serialization led to it, the cache a snapshot uses holds  *)
(* exactly the active files of its version.                                *)
CacheCurrent ==
    handle # NONE /\ MaterializedFiles(handle) # NONE
        => MaterializedFiles(handle).files = log[handle.version].files

(* A conflict check reads all active files of its version with their       *)
(* statistics, also on a handle that was opened without statistics.        *)
ReadSetComplete ==
    readset # NONE => readset.files = log[readset.version].files /\ readset.stats

(* An update never takes a handle back, and one that finds a checkpoint    *)
(* announced for its version is independent of the commits before it, so a *)
(* later cleanup up to that checkpoint cannot break it.                    *)
UpdateAdoptsCheckpoint ==
    asked # NONE /\ asked.kind = "update" /\ handle # NONE =>
        /\ handle.version >= asked.from
        /\ asked.adopted => SegmentReadable(handle.checkpoint, handle.version)

(* Time travel loads a version that existed at the time asked for, or the  *)
(* lowest one, and no version with a later time up to the one asked for    *)
(* was there.                                                              *)
TravelledTo ==
    asked # NONE /\ asked.kind = "time" /\ handle # NONE =>
        /\ times[handle.version] <= asked.target \/ handle.version = asked.lowest
        /\ \A v \in asked.lowest..asked.latest :
              times[v] <= asked.target => times[v] <= times[handle.version]

=============================================================================
