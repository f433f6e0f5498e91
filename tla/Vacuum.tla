------------------------------- MODULE Vacuum -------------------------------
(***************************************************************************)
(* The data files of a table: the writers that create and remove them, and *)
(* the operations that compare the log with the storage: VACUUM (which     *)
(* deletes), RESTORE (which brings removed files back) and FSCK (which     *)
(* removes what is missing).  An active file is a path with a deletion     *)
(* vector or NONE; the log keeps every remove action with its time.        *)
(* A commit is one step, as CommitProtocol shows it to be: appends and     *)
(* vacuum commits pass the conflict check, a remove needs its file active. *)
(***************************************************************************)
EXTENDS Integers, Sequences, FiniteSets, FiniteSetsExt

CONSTANTS
    Ops,          \* the operations, each run once
    KindOf,       \* what each of them does: a member of Kinds
    Paths,        \* data files
    Vectors,      \* deletion vector files, written by another engine
    First,        \* the path that version 0 holds
    Full,         \* VacuumMode::Full
    Above,        \* data files that lie above the leaf directories of the partitions
    Retention,    \* the retention of this vacuum
    MinRetention, \* the retention the table is configured with
    MaxDuration,  \* how long a writer takes from its first file to its commit
    Keep,         \* keep_versions
    MaxTime,      \* bound on the clock
    NONE

Kinds == {"append", "rewrite", "mask", "vacuum", "restore", "fsck"}

VARIABLES
    disk,  \* the modification time of every data and vector file, or NONE
    log,   \* for each version: its active files, all removes so far, its time
    clock,
    op     \* the local state of every operation

vars == <<disk, log, clock, op>>

Latest == Len(log) - 1
At(v) == log[v + 1]
PathsOf(adds) == {a[1] : a \in adds}
Active == At(Latest).adds

Init ==
    /\ disk = [f \in Paths \cup Vectors |-> IF f = First THEN 0 ELSE NONE]
    /\ log = <<[adds |-> {<<First, NONE>>}, removes |-> {}, time |-> 0]>>
    /\ clock = 0
    /\ op = [o \in Ops |-> [pc |-> "begin", base |-> 0, start |-> 0, file |-> NONE,
                            adds |-> {}, rem |-> {}, doomed |-> {}, to |-> NONE]]

Is(o, k, l) == KindOf[o] = k /\ op[o].pc = l
Set(o, s) == op' = [op EXCEPT ![o] = s]
Goto(o, l) == Set(o, [op[o] EXCEPT !.pc = l])
Unwritten(fs) == {f \in fs : disk[f] = NONE /\ \A p \in Ops : op[p].file # f}

\* The version that adding adds and removing rem at time t makes of the
\* latest: a remove takes effect on the add with its path and its vector.
Commit(adds, rem, t) ==
    log' = Append(log, [adds    |-> (Active \ rem) \cup adds,
                        removes |-> At(Latest).removes \cup {<<r[1], t>> : r \in rem},
                        time    |-> clock])

-----------------------------------------------------------------------------
(* Writers *)

\* A writer puts a file: new data, the data of a file it will replace, or the
\* deletion vector of one.  Its remove actions carry the present time.
WriteFile(o) ==
    /\ op[o].pc = "begin" /\ KindOf[o] \in {"append", "rewrite", "mask"}
    /\ \E f \in Unwritten(IF KindOf[o] = "mask" THEN Vectors ELSE Paths) :
         /\ disk' = [disk EXCEPT ![f] = clock]
         /\ \/ /\ KindOf[o] = "append"
               /\ Set(o, [op[o] EXCEPT !.pc = "commit", !.start = clock, !.file = f,
                                       !.adds = {<<f, NONE>>}])
            \/ \E a \in Active :
                 /\ KindOf[o] \in {"rewrite", "mask"}
                 /\ KindOf[o] = "mask" => a[2] = NONE
                 /\ Set(o, [op[o] EXCEPT !.pc = "commit", !.start = clock, !.file = f, !.rem = {a},
                                         !.adds = {IF KindOf[o] = "mask" THEN <<a[1], f>> ELSE <<f, NONE>>}])
    /\ UNCHANGED <<log, clock>>

\* The commit, or the conflict when another operation removed the file.
CommitWrite(o) ==
    /\ op[o].pc = "commit" /\ KindOf[o] \in {"append", "rewrite", "mask"}
    /\ IF op[o].rem \subseteq Active THEN Commit(op[o].adds, op[o].rem, op[o].start)
                                     ELSE UNCHANGED log
    /\ Goto(o, "done")
    /\ UNCHANGED <<disk, clock>>

-----------------------------------------------------------------------------
(* VacuumBuilder *)

\* InvalidVacuumRetentionPeriod
retention_refused(enforce) == enforce /\ Retention < MinRetention

\* The snapshot is the one the handle holds, of whatever version, and the
\* present time is read after it.  A retention below that of the table is refused
\* where it is enforced, as is a version to keep that does not exist.
BeginVacuum(o) ==
    /\ Is(o, "vacuum", "begin")
    /\ \E enforce \in BOOLEAN, held \in 0 .. Latest :
         IF retention_refused(enforce) \/ \E v \in Keep : v > Latest THEN Goto(o, "done")
         ELSE Set(o, [op[o] EXCEPT !.pc = "plan", !.base = held, !.start = clock])
    /\ UNCHANGED <<disk, log, clock>>

\* As keep_files, with the versions to keep ignored.
keep_files_mutant == {}

\* The paths of the versions to keep.
keep_files == PathsOf(UNION {At(v).adds : v \in Keep})

\* As ok_to_delete, for the files a tombstone names whatever else does.
ok_to_delete_mutant(f, v) == f \notin keep_files

\* Neither active in the snapshot nor a file of a version to keep.
ok_to_delete(f, v) == f \notin PathsOf(At(v).adds) /\ f \notin keep_files

\* As is_tombstone_expired, however recent the tombstone is.
is_tombstone_expired_mutant(t, cutoff) == TRUE

is_tombstone_expired(t, cutoff) == t[2] < cutoff

\* Every remove action of the log, also of a file that was added again.
get_stale_files(v, cutoff) ==
    {t[1] : t \in {r \in At(v).removes : is_tombstone_expired(r, cutoff)}}

\* The paths of all remove actions, and of the expired ones.
collect_full_mode_tombstones(v, cutoff) ==
    [all |-> {t[1] : t \in At(v).removes}, expired |-> get_stale_files(v, cutoff)]

\* A stored file no action names is an orphan once it is old enough.
consider_orphan_for_deletion(f, v, now) ==
    LET tombstones == collect_full_mode_tombstones(v, now - Retention) IN
    /\ f \notin tombstones.expired /\ ok_to_delete(f, v)
    /\ f \notin tombstones.all
    /\ now - disk[f] >= Retention

Stored == {f \in Paths \cup Vectors : disk[f] # NONE}

\* The orphans that the walk to the leaf directories meets on its way, and
\* those in the listings of the leaf directories.
expand_partition_prefixes(v, now) ==
    {f \in Stored \cap Above : consider_orphan_for_deletion(f, v, now)}
list_orphans_under_prefix(v, now) ==
    {f \in Stored \ Above : consider_orphan_for_deletion(f, v, now)}

\* Only a full vacuum lists the storage, after it read the snapshot.
Orphans(v, now) ==
    IF Full THEN expand_partition_prefixes(v, now) \cup list_orphans_under_prefix(v, now) ELSE {}

\* The files to delete.
create_vacuum_plan(v, now) ==
    {f \in get_stale_files(v, now - Retention) : ok_to_delete(f, v)} \cup Orphans(v, now)

\* A dry run ends with the plan, and so does a vacuum whose listing fails.
PlanVacuum(o) ==
    LET doomed == create_vacuum_plan(op[o].base, op[o].start) IN
    /\ Is(o, "vacuum", "plan")
    /\ \E goes_on \in BOOLEAN :
         Set(o, [op[o] EXCEPT !.doomed = doomed,
                              !.pc = IF goes_on /\ doomed # {} THEN "start" ELSE "done"])
    /\ UNCHANGED <<disk, log, clock>>

\* VACUUM START is committed, rebased over whatever was committed meanwhile.
VacuumStart(o) ==
    /\ Is(o, "vacuum", "start") /\ Commit({}, {}, clock)
    /\ Goto(o, "delete")
    /\ UNCHANGED <<disk, clock>>

\* delete_stream; a file that is gone already is no error.
DeleteFile(o) ==
    /\ Is(o, "vacuum", "delete")
    /\ \E f \in op[o].doomed :
         /\ disk' = [disk EXCEPT ![f] = NONE]
         /\ Set(o, [op[o] EXCEPT !.doomed = @ \ {f}])
    /\ UNCHANGED <<log, clock>>

\* Any other error of a deletion ends the vacuum without VACUUM END.
DeleteFails(o) ==
    /\ Is(o, "vacuum", "delete") /\ op[o].doomed # {}
    /\ Goto(o, "done")
    /\ UNCHANGED <<disk, log, clock>>

VacuumEnd(o) ==
    /\ Is(o, "vacuum", "delete") /\ op[o].doomed = {}
    /\ Commit({}, {}, clock)
    /\ Goto(o, "done")
    /\ UNCHANGED <<disk, clock>>

-----------------------------------------------------------------------------
(* RestoreBuilder *)

\* As RestoreActions, leaving the files that were added since.
RestoreActions_mutant(old, now) == [add |-> {a \in old : a[1] \notin PathsOf(now)}, remove |-> {}]

\* The actions that lead back from the files now to the files old: paths are
\* compared, not deletion vectors.
RestoreActions(old, now) ==
    [add |-> {a \in old : a[1] \notin PathsOf(now)},
     remove |-> {a \in now : a[1] \notin PathsOf(old)}]

\* The version to restore is loaded and compared with the snapshot the handle
\* holds, which has to be a later one.
BeginRestore(o) ==
    /\ Is(o, "restore", "begin")
    /\ \E held \in 1 .. Latest : \E v \in 0 .. held - 1 :
         LET acts == RestoreActions(At(v).adds, At(held).adds) IN
         Set(o, [op[o] EXCEPT !.pc = "check", !.base = held, !.start = clock, !.to = v,
                              !.adds = acts.add, !.rem = acts.remove])
    /\ UNCHANGED <<disk, log, clock>>

\* check_files_available
CheckFiles(o) ==
    /\ Is(o, "restore", "check")
    /\ Goto(o, IF \A a \in op[o].adds : disk[a[1]] # NONE THEN "commit" ELSE "done")
    /\ UNCHANGED <<disk, log, clock>>

\* The commit has no retries: any version in between makes it fail.
CommitRestore(o) ==
    /\ Is(o, "restore", "commit")
    /\ IF Latest = op[o].base
         THEN Commit(op[o].adds, op[o].rem, op[o].start) /\ Goto(o, "restored")
         ELSE UNCHANGED log /\ Goto(o, "done")
    /\ UNCHANGED <<disk, clock>>

-----------------------------------------------------------------------------
(* FileSystemCheckBuilder *)

BeginFsck(o) ==
    /\ Is(o, "fsck", "begin")
    /\ \E held \in 0 .. Latest : Set(o, [op[o] EXCEPT !.pc = "list", !.base = held, !.start = clock])
    /\ UNCHANGED <<disk, log, clock>>

\* The active files of the snapshot whose data file the listing lacks.
create_fsck_plan(o) ==
    LET missing == {a \in At(op[o].base).adds : disk[a[1]] = NONE} IN
    /\ Is(o, "fsck", "list")
    /\ Set(o, [op[o] EXCEPT !.rem = missing, !.pc = IF missing = {} THEN "done" ELSE "commit"])
    /\ UNCHANGED <<disk, log, clock>>

\* As FsckRemoves, for the first file only.
FsckRemoves_mutant(o) == {<<r[1], NONE>> : r \in {CHOOSE a \in op[o].rem : TRUE}}

\* Each is removed without naming its deletion vector.
FsckRemoves(o) == {<<r[1], NONE>> : r \in op[o].rem}

\* The commit, or the conflict when one of the files was removed meanwhile.
CommitFsck(o) ==
    /\ Is(o, "fsck", "commit")
    /\ IF op[o].rem \subseteq Active
         THEN Commit({}, FsckRemoves(o), op[o].start) /\ Goto(o, "repaired")
         ELSE UNCHANGED log /\ Goto(o, "done")
    /\ UNCHANGED <<disk, clock>>

\* Something outside the program deletes an active data file; only for fsck.
LoseFile ==
    /\ \E o \in Ops : Is(o, "fsck", "begin")
    /\ \E f \in PathsOf(Active) : disk[f] # NONE /\ disk' = [disk EXCEPT ![f] = NONE]
    /\ UNCHANGED <<log, clock, op>>

-----------------------------------------------------------------------------
\* Writers commit within MaxDuration.
Tick ==
    /\ clock < MaxTime
    /\ \A o \in Ops : op[o].pc = "commit" => clock < op[o].start + MaxDuration
    /\ clock' = clock + 1
    /\ UNCHANGED <<disk, log, op>>

Step(o) ==
    \/ WriteFile(o) \/ CommitWrite(o)
    \/ BeginVacuum(o) \/ PlanVacuum(o) \/ VacuumStart(o) \/ DeleteFile(o) \/ DeleteFails(o)
    \/ VacuumEnd(o)
    \/ BeginRestore(o) \/ CheckFiles(o) \/ CommitRestore(o)
    \/ BeginFsck(o) \/ create_fsck_plan(o) \/ CommitFsck(o)

Next == (\E o \in Ops : Step(o)) \/ LoseFile \/ Tick

Spec == Init /\ [][Next]_vars

-----------------------------------------------------------------------------
(* Properties *)

Exists(a) == disk[a[1]] # NONE /\ (a[2] # NONE => disk[a[2]] # NONE)

\* A full vacuum takes the files of the versions after its own for orphans.  Its
\* snapshot is too old when one of these versions was committed so long before
\* the plan that its files may have reached the age of orphans.
TooOld(o) ==
    /\ Full /\ KindOf[o] = "vacuum"
    /\ \E v \in op[o].base + 1 .. Latest : At(v).time <= op[o].start - Retention + MaxDuration

\* No vacuum deletes a data file or a deletion vector of the latest version,
\* whatever is committed between its plan and its deletions, and whatever version
\* its handle holds, unless a full vacuum has a snapshot that is too old.
ActiveFilesExist == (\A o \in Ops : ~TooOld(o)) => \A a \in Active : Exists(a)

\* Every version committed within the retention, less the time that may pass
\* between a remove action and its commit, can be read: its files exist, with
\* the same exception.
RetainedVersionsReadable ==
    (\A o \in Ops : ~TooOld(o)) =>
        \A v \in 0 .. Latest :
            At(v).time >= clock - Retention + MaxDuration => \A a \in At(v).adds : Exists(a)

\* The files of the versions given to with_keep_versions survive every
\* vacuum, also one with no retention at all.
KeptVersionsReadable == \A v \in Keep : v <= Latest => \A a \in At(v).adds : Exists(a)

\* The version a restore commits has exactly the active files, with their
\* deletion vectors, of the version it restores.
RestoresExactly ==
    \A o \in Ops : op'[o].pc = "restored" /\ op[o].pc # "restored" =>
        Active' = At(op[o].to).adds

\* No file that fsck found missing is active in the version it commits.
RemovesMissing ==
    \A o \in Ops : op'[o].pc = "repaired" /\ op[o].pc # "repaired" =>
        op[o].rem \cap Active' = {}
=============================================================================
