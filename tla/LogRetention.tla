---------------------------- MODULE LogRetention ----------------------------
(***************************************************************************)
(* The life of the files of _delta_log: commits, the checkpoints that the  *)
(* post-commit hook and the maintenance functions write, and the expired   *)
(* log files that cleanup_expired_logs_for deletes while other writers and *)
(* readers still use the log.  A file is known by its kind and version and *)
(* carries the time of its last modification.                              *)
(* Transactions are appends: the conflict check always passes.             *)
(***************************************************************************)
EXTENDS Integers, FiniteSets, FiniteSetsExt

CONSTANTS
    Ops,         \* the processes that commit and maintain the table
    Interval,    \* delta.checkpointInterval
    Retention,   \* delta.logRetentionDuration
    Prompt,      \* whether a commit is written within Retention of the
                 \* listing that chose its version
    MultiPart,   \* whether another engine writes checkpoints of two parts
    MaxVersion,  \* bound: the last version that is committed
    MaxTime,     \* bound on the clock
    MaxFaults,   \* bound: failed deletions and stops in one behaviour
    NONE

Versions == 0 .. MaxVersion
Files == {"json", "checkpoint", "part1", "part2"} \X Versions

VARIABLES
    log,        \* the modification time of every file, NONE when absent
    hint,       \* the version in _last_checkpoint, or NONE
    committed,  \* history: when each version was first committed, or NONE
    clock,
    op,         \* the local state of every process
    faults

vars == <<log, hint, committed, clock, op, faults>>

idle == [pc |-> "idle", base |-> 0, version |-> 0, listed |-> 0,
         doomed |-> {}, hook |-> FALSE, lost |-> NONE]

Init ==
    /\ log = [f \in Files |-> IF f = <<"json", 0>> THEN 0 ELSE NONE]
    /\ hint = NONE
    /\ committed = [v \in Versions |-> IF v = 0 THEN 0 ELSE NONE]
    /\ clock = 0
    /\ op = [o \in Ops |-> idle]
    /\ faults = 0

Present(k, v) == log[<<k, v>>] # NONE
Commits(a, b) == \A v \in a .. b : Present("json", v)
IsCheckpoint(c) == Present("checkpoint", c) \/ (Present("part1", c) /\ Present("part2", c))
Latest == Max({v \in Versions : committed[v] # NONE})
Expired(v) == committed[v] < clock - Retention

\* Snapshot::builder_for(..).at_version(v): the listing starts at the hint
\* when it is not newer than v, and must find a checkpoint from there on;
\* the newest complete checkpoint and the commits after it give the state.
Readable(v) ==
    LET from == IF hint # NONE /\ hint <= v THEN hint ELSE 0
        found == {c \in from .. v : IsCheckpoint(c)}
    IN IF found = {} THEN from = 0 /\ Commits(0, v) ELSE Commits(Max(found) + 1, v)

\* Snapshot::builder_from(b).at_version(v): the commits after b, or a newer
\* checkpoint and the commits after that.
Updatable(b, v) ==
    \/ Commits(b + 1, v)
    \/ \E c \in b + 1 .. v : IsCheckpoint(c) /\ Commits(c + 1, v)

Set(o, s) == op' = [op EXCEPT ![o] = s]
Goto(o, l) == Set(o, [op[o] EXCEPT !.pc = l])
\* The process returns an error because the files of version v are gone.
Lose(o, v) == Set(o, [op[o] EXCEPT !.pc = "lost", !.lost = v])

-----------------------------------------------------------------------------
(* Commit and post-commit hook *)

\* A writer loads the latest version.
Begin(o) ==
    /\ op[o].pc = "idle" /\ Latest < MaxVersion /\ Readable(Latest)
    /\ Set(o, [idle EXCEPT !.pc = "list", !.base = Latest, !.hook = TRUE])
    /\ UNCHANGED <<log, hint, committed, clock, faults>>

\* get_latest_version lists the commits from the snapshot's own version on;
\* that version must be there, and no later one may be missing.
get_latest_version(o) ==
    LET b == op[o].base IN
    /\ op[o].pc = "list"
    /\ IF Commits(b, Latest)
         THEN Set(o, [op[o] EXCEPT !.pc = IF Latest > b THEN "check" ELSE "write",
                                   !.version = Latest + 1, !.listed = clock])
         ELSE Lose(o, b)
    /\ UNCHANGED <<log, hint, committed, clock, faults>>

\* Every winning commit is read, then the snapshot moves to the last of them.
CheckWinners(o) ==
    LET b == op[o].base
        latest == op[o].version - 1
    IN
    /\ op[o].pc = "check"
    /\ IF Commits(b + 1, latest) /\ Updatable(b, latest)
         THEN Set(o, [op[o] EXCEPT !.pc = "write", !.base = latest])
         ELSE Lose(o, b)
    /\ UNCHANGED <<log, hint, committed, clock, faults>>

\* write_commit_entry puts the commit if its file is absent; otherwise the
\* loop goes round (the retry budget is left out: retrying is the rich case).
write_commit_entry(o) ==
    LET v == op[o].version IN
    /\ op[o].pc = "write"
    /\ IF v \notin Versions
         THEN Set(o, idle) /\ UNCHANGED <<log, committed>>
         ELSE IF Present("json", v)
         THEN Goto(o, "list") /\ UNCHANGED <<log, committed>>
         ELSE /\ log' = [log EXCEPT ![<<"json", v>>] = clock]
              /\ committed' = [committed EXCEPT ![v] = IF @ = NONE THEN clock ELSE @]
              /\ Goto(o, "hook")
    /\ UNCHANGED <<hint, clock, faults>>

\* run_post_commit_hook first moves the snapshot to the committed version.
run_post_commit_hook(o) ==
    LET v == op[o].version IN
    /\ op[o].pc = "hook"
    /\ IF Updatable(op[o].base, v)
         THEN Set(o, [op[o] EXCEPT !.pc = IF (v + 1) % Interval = 0 THEN "checkpoint" ELSE "cleanup",
                                   !.base = v])
         ELSE Lose(o, v)
    /\ UNCHANGED <<log, hint, committed, clock, faults>>

\* create_checkpoint_from_table_url_and_cleanup: any version that can be
\* loaded gets a checkpoint, and the log is cleaned up to that version.
Maintain(o) ==
    /\ op[o].pc = "idle"
    /\ \E v \in Versions : /\ committed[v] # NONE /\ Readable(v)
                           /\ Set(o, [idle EXCEPT !.pc = "checkpoint", !.base = v, !.version = v])
    /\ UNCHANGED <<log, hint, committed, clock, faults>>

\* create_checkpoint_for loads the version afresh and writes its checkpoint;
\* writing one that exists may or may not renew its modification time.
create_checkpoint_for(o) ==
    LET v == op[o].version
        f == <<"checkpoint", v>>
    IN
    /\ op[o].pc = "checkpoint"
    /\ IF Readable(v)
         THEN /\ log' \in {[log EXCEPT ![f] = t] : t \in {clock, log[f]} \ {NONE}}
              /\ Goto(o, "hint")
         ELSE Lose(o, v) /\ UNCHANGED log
    /\ UNCHANGED <<hint, committed, clock, faults>>

\* The checkpoint is announced in _last_checkpoint, after it was written.
WriteHint(o) ==
    /\ op[o].pc = "hint"
    /\ hint' = op[o].version
    /\ Goto(o, IF op[o].version > 0 \/ op[o].hook THEN "cleanup" ELSE "idle")
    /\ UNCHANGED <<log, committed, clock, faults>>

-----------------------------------------------------------------------------
(* cleanup_expired_logs_for *)

\* DELTA_LOG_REGEX matches commits and checkpoints of one file,
\* CHECKPOINT_REGEX every file of every checkpoint.
LogFiles == {f \in Files : log[f] # NONE /\ f[1] \in {"json", "checkpoint"}}
CheckpointVersions == {f[2] : f \in {g \in Files : log[g] # NONE /\ g[1] # "json"}}

\* As keep_version, without the step that keeps what is inside the retention.
keep_version_mutant(until, cutoff) == until

\* Steps 1 and 2: the lowest version with a file inside the retention period.
keep_version(until, cutoff) ==
    Min({until} \cup {f[2] : f \in {g \in LogFiles : log[g] >= cutoff}})

\* Steps 3 and 4: the files below the newest checkpoint that is not newer
\* than keep_version, if they are as old as the cutoff.
expired_files(until, cutoff) ==
    LET safe == {c \in CheckpointVersions : c <= keep_version(until, cutoff)}
    IN IF safe = {} THEN {} ELSE {f \in LogFiles : f[2] < Max(safe) /\ log[f] <= cutoff}

\* As cleanup_expired_logs_for, for a cutoff that is the present time.
cleanup_expired_logs_for_mutant(o) ==
    /\ op[o].pc = "cleanup"
    /\ LET doomed == expired_files(op[o].version, clock)
       IN Set(o, [op[o] EXCEPT !.doomed = doomed, !.pc = IF doomed = {} THEN "idle" ELSE "delete"])
    /\ UNCHANGED <<log, hint, committed, clock, faults>>

\* The log is listed once; nothing is deleted when there is nothing to delete.
cleanup_expired_logs_for(o) ==
    /\ op[o].pc = "cleanup"
    /\ LET doomed == expired_files(op[o].version, clock - Retention)
       IN Set(o, [op[o] EXCEPT !.doomed = doomed, !.pc = IF doomed = {} THEN "idle" ELSE "delete"])
    /\ UNCHANGED <<log, hint, committed, clock, faults>>

\* delete_stream deletes the files one after the other, in any order; some
\* stores accept to delete a file that another cleanup has deleted.
DeleteExpired(o) ==
    /\ op[o].pc = "delete"
    /\ \E f \in op[o].doomed :
         /\ log' = [log EXCEPT ![f] = NONE]
         /\ Set(o, [op[o] EXCEPT !.doomed = @ \ {f},
                                 !.pc = IF op[o].doomed # {f} THEN "delete"
                                        ELSE IF op[o].hook THEN "reload" ELSE "idle"])
    /\ UNCHANGED <<hint, committed, clock, faults>>

\* Other stores answer NotFound, and the error ends the cleanup.
DeleteMissing(o) ==
    /\ op[o].pc = "delete" /\ \E f \in op[o].doomed : log[f] = NONE
    /\ Set(o, idle)
    /\ UNCHANGED <<log, hint, committed, clock, faults>>

\* After a cleanup that deleted files the hook loads the version afresh.
Reload(o) ==
    /\ op[o].pc = "reload"
    /\ IF Readable(op[o].version) THEN Set(o, idle) ELSE Lose(o, op[o].version)
    /\ UNCHANGED <<log, hint, committed, clock, faults>>

\* A process stops, or a deletion fails and the error ends the cleanup.
Fails(o) ==
    /\ faults < MaxFaults /\ op[o].pc \in {"hook", "checkpoint", "hint", "cleanup", "delete", "reload"}
    /\ faults' = faults + 1
    /\ Set(o, idle)
    /\ UNCHANGED <<log, hint, committed, clock>>

\* Another engine writes one part of a checkpoint of a version it can read
\* (nothing looks at the modification time of a part: it is left out).
WritePart(k, v) ==
    /\ MultiPart /\ committed[v] # NONE /\ Readable(v) /\ ~Present(k, v)
    /\ log' = [log EXCEPT ![<<k, v>>] = 0]
    /\ UNCHANGED <<hint, committed, clock, op, faults>>

\* Time passes.
Tick ==
    /\ clock < MaxTime
    /\ Prompt => \A o \in Ops : op[o].pc \in {"check", "write"} => clock + 1 < op[o].listed + Retention
    /\ clock' = clock + 1
    /\ UNCHANGED <<log, hint, committed, op, faults>>

Step(o) ==
    \/ Begin(o) \/ get_latest_version(o) \/ CheckWinners(o) \/ write_commit_entry(o)
    \/ run_post_commit_hook(o) \/ Maintain(o) \/ create_checkpoint_for(o) \/ WriteHint(o)
    \/ cleanup_expired_logs_for(o) \/ DeleteExpired(o) \/ DeleteMissing(o)
    \/ Reload(o) \/ Fails(o)

Next ==
    \/ \E o \in Ops : Step(o)
    \/ \E k \in {"part1", "part2"}, v \in Versions : WritePart(k, v)
    \/ Tick

Spec == Init /\ [][Next]_vars

-----------------------------------------------------------------------------
(* Properties *)

\* In every state of every cleanup, finished, under way, cut short or racing
\* with another, the latest version and every version committed inside the
\* retention period can be loaded from what is left of the log, also by a
\* reader who follows _last_checkpoint.
RetainedReadable ==
    \A v \in Versions : (committed[v] # NONE /\ ~Expired(v)) \/ v = Latest => Readable(v)

\* The same beside an engine that writes checkpoints in parts, whenever every
\* such checkpoint has all its parts: a half-written checkpoint is all that a
\* cleanup, which takes its first part for a checkpoint, depends on.
CompletePartsReadable ==
    (\A v \in Versions : Present("part1", v) <=> Present("part2", v)) => RetainedReadable

\* An operation fails for want of log files (its snapshot's commit, a winning
\* commit, or the version it has just committed and now checkpoints or
\* reloads) only if the version it works on is older than the retention.
LosesOnlyExpired ==
    \A o \in Ops : op[o].pc = "lost" => Expired(op[o].lost)

\* The commit file of a version is the one that was committed first: no deletion
\* lets put-if-absent create an entry for a version that was taken.
VersionWrittenOnce ==
    \A v \in Versions : Present("json", v) => log[<<"json", v>>] = committed[v]
=============================================================================
