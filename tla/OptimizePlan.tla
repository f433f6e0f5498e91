--------------------------- MODULE OptimizePlan ---------------------------
(***************************************************************************)
(* OPTIMIZE: the bins it plans, the tasks that rewrite them and the        *)
(* commits it makes while they finish.  A file is [id, part, size, rows,   *)
(* dv]; `files` lists the active files newest first, as the snapshot does. *)
(* A task may fail; tasks already spawned then run on, and what they write *)
(* is never committed.                                                     *)
(***************************************************************************)
EXTENDS Integers, Sequences, FiniteSets, SequencesExt, FiniteSetsExt

CONSTANTS
    Layouts,        \* the tables to optimize
    TargetSize,     \* target file size
    MaxConcurrent,  \* max_concurrent_tasks
    MaxFailures,    \* bound: failing tasks and commits
    NONE

VARIABLES
    kind,      \* "compact" or "zorder"
    interval,  \* whether a min_commit_interval is set
    start,     \* the active files the operation read
    files,     \* the active files of the table
    plan,      \* the bins to rewrite, NONE before planning
    stats,     \* metrics of the plan
    tasks,     \* state of each bin's task
    actions,   \* results recorded and not committed yet
    buffered,  \* metrics recorded since the last commit
    total,     \* metrics of the whole operation
    commits,   \* metrics written to the log, one per commit
    failures,
    result     \* NONE, "ok" or "error"

ovars == <<kind, interval, start, files, plan, stats, tasks, actions, buffered, total, commits, failures, result>>

Live(f) == f.rows \ f.dv
Sizes(fs) == FoldLeft(LAMBDA n, f : n + f.size, 0, fs)
Ids(fs) == {f.id : f \in ToSet(fs)}

-----------------------------------------------------------------------------
(* Planning.                                                               *)

(* One file of the scan: ordinals count all files of the partition, files  *)
(* above the target size are skipped.                                      *)
Ordinal(fs, i) == Cardinality({j \in 1..i - 1 : fs[j].part = fs[i].part})
Candidates(fs, p) ==
    LET at == SelectSeq([i \in DOMAIN fs |-> i],
                        LAMBDA i : fs[i].part = p /\ fs[i].size <= TargetSize)
    IN  [k \in DOMAIN at |-> [file |-> fs[at[k]], ordinal |-> Ordinal(fs, at[k])]]

(* plan_compaction_bins_in_stable_order: a bin grows while the next file   *)
(* is its neighbour and fits.                                              *)
Fits_mutant(bin, c) == Sizes(bin.files) + c.file.size <= TargetSize
Fits(bin, c) ==
    /\ c.ordinal = bin.last + 1
    /\ Sizes(bin.files) + c.file.size <= TargetSize

PlanBins(candidates) ==
    FoldLeft(LAMBDA bins, c :
        IF bins # <<>> /\ Fits(Last(bins), c)
        THEN Append(Front(bins), [Last(bins) EXCEPT !.files = Append(@, c.file), !.last = c.ordinal])
        ELSE Append(bins, [files |-> <<c.file>>, first |-> c.ordinal, last |-> c.ordinal]),
        <<>>, candidates)

Partitions(fs) == {f.part : f \in ToSet(fs)}

(* max_bin_span_files, from the bins planned and those kept.               *)
Span(all, kept) == IF kept = <<>> THEN 0 ELSE Max({b.last - b.first + 1 : b \in ToSet(all)})

(* build_compaction_plan: bins of a single file are dropped.               *)
build_compaction_plan(fs) ==
    LET all == FlattenSeq(SetToSeq({PlanBins(Candidates(fs, p)) : p \in Partitions(fs)}))
        kept == SelectSeq(all, LAMBDA b : Len(b.files) > 1)
        large == Cardinality({i \in DOMAIN fs : fs[i].size > TargetSize})
    IN  [bins |-> [i \in DOMAIN kept |-> kept[i].files],
         stats |-> [considered |-> Len(fs), skipped |-> large + Len(all) - Len(kept),
                    span |-> Span(all, kept)]]

(* build_zorder_plan: all files of a partition in one bin.                 *)
build_zorder_plan(fs) ==
    LET bins == SetToSeq({SelectSeq(fs, LAMBDA f : f.part = p) : p \in Partitions(fs)})
    IN  [bins |-> bins,
         stats |-> [considered |-> Len(fs), skipped |-> 0,
                    span |-> IF bins = <<>> THEN 0 ELSE Max({Len(b) : b \in ToSet(bins)})]]

NoMetrics == [added |-> 0, removed |-> 0]
Plus(m, n) == [added |-> m.added + n.added, removed |-> m.removed + n.removed]

Init ==
    /\ kind \in {"compact", "zorder"}
    /\ interval \in BOOLEAN
    /\ start \in Layouts
    /\ files = start
    /\ plan = NONE /\ stats = NONE
    /\ tasks = <<>> /\ actions = <<>> /\ commits = <<>>
    /\ buffered = NoMetrics /\ total = NoMetrics
    /\ failures = 0 /\ result = NONE

create_merge_plan ==
    /\ plan = NONE
    /\ LET p == IF kind = "compact" THEN build_compaction_plan(files) ELSE build_zorder_plan(files)
       IN  /\ plan' = p.bins
           /\ stats' = p.stats
           /\ tasks' = [i \in DOMAIN p.bins |-> "waiting"]
    /\ UNCHANGED <<kind, interval, start, files, actions, buffered, total, commits, failures, result>>

-----------------------------------------------------------------------------
(* Tasks.  The stream spawns a task when it is polled, holds at most       *)
(* MaxConcurrent of them, and yields them in order of the bins (compact)   *)
(* or as they finish (z-order).                                            *)

InFlight == {i \in DOMAIN tasks : tasks[i] \in {"running", "done", "failed"}}

Spawn(i) ==
    /\ result = NONE
    /\ tasks[i] = "waiting"
    /\ \A j \in 1..i - 1 : tasks[j] # "waiting"
    /\ Cardinality(InFlight) < MaxConcurrent
    /\ tasks' = [tasks EXCEPT ![i] = "running"]
    /\ UNCHANGED <<kind, interval, start, files, plan, stats, actions, buffered, total, commits, failures, result>>

(* The end of rewrite_files, or its failure.                               *)
Finish(i) ==
    /\ tasks[i] = "running"
    /\ \/ tasks' = [tasks EXCEPT ![i] = "done"] /\ UNCHANGED failures
       \/ /\ failures < MaxFailures
          /\ tasks' = [tasks EXCEPT ![i] = "failed"]
          /\ failures' = failures + 1
    /\ UNCHANGED <<kind, interval, start, files, plan, stats, actions, buffered, total, commits, result>>

(* rewrite_files: removes of the bin's files, and one file with the rows   *)
(* the scan reads, deletion vectors applied.  Compaction ignores the       *)
(* target size; a z-ordered bin is cut in files of at most that size, a    *)
(* row counting for one unit of it.                                        *)
RowsRead_mutant(bin) == UNION {f.rows : f \in ToSet(bin)}
RowsRead(bin) == UNION {Live(f) : f \in ToSet(bin)}
Cut(rows, ignore_target_size) ==
    LET s == SetToSeq(rows)
        n == IF ignore_target_size THEN Len(s) ELSE TargetSize
    IN  IF s = <<>> THEN <<>>
        ELSE [k \in 1..((Len(s) + n - 1) \div n) |->
                ToSet(SubSeq(s, (k - 1) * n + 1, IF k * n < Len(s) THEN k * n ELSE Len(s)))]
rewrite_files(i) ==
    LET bin == plan[i]
        new == Cut(RowsRead(bin), kind = "compact")
    IN  [removes |-> Ids(bin),
         adds |-> [k \in DOMAIN new |->
                    [id |-> <<i, k>>, part |-> bin[1].part, size |-> Cardinality(new[k]),
                     rows |-> new[k], dv |-> {}]]]

-----------------------------------------------------------------------------
(* The loop of MergePlan::execute: one result of the stream, then a commit *)
(* when the interval has passed or the stream has ended.                   *)

Yields(i) ==
    /\ tasks[i] \in {"done", "failed"}
    /\ kind = "compact" => \A j \in 1..i - 1 : tasks[j] = "taken"

Apply(fs, acts) ==
    LET gone == UNION {a.removes : a \in ToSet(acts)}
    IN  FlattenSeq([k \in DOMAIN acts |-> acts[k].adds]) \o SelectSeq(fs, LAMBDA f : f.id \notin gone)

(* The buffered metrics start over with each commit.                       *)
CommitMetrics_mutant(m) == [log |-> m, left |-> m]
CommitMetrics(m) == [log |-> m, left |-> NoMetrics]

CommitOrFail(acts, m, done) ==
    \/ /\ files' = Apply(files, acts)
       /\ actions' = <<>>
       /\ commits' = Append(commits, CommitMetrics(m).log)
       /\ buffered' = CommitMetrics(m).left
       /\ result' = done
       /\ UNCHANGED failures
    \/ /\ failures < MaxFailures
       /\ failures' = failures + 1
       /\ result' = "error"
       /\ actions' = <<>>
       /\ buffered' = m
       /\ UNCHANGED <<files, commits>>

Record(i) ==
    /\ result = NONE
    /\ Yields(i)
    /\ tasks[i] = "done"
    /\ tasks' = [tasks EXCEPT ![i] = "taken"]
    /\ LET r == rewrite_files(i)
           m == [added |-> Len(r.adds), removed |-> Cardinality(r.removes)]
           acts == Append(actions, r)
       IN  /\ total' = Plus(total, m)
           /\ \/ /\ actions' = acts
                 /\ buffered' = Plus(buffered, m)
                 /\ UNCHANGED <<files, commits, failures, result>>
              \/ interval /\ CommitOrFail(acts, Plus(buffered, m), NONE)
    /\ UNCHANGED <<kind, interval, start, plan, stats>>

Fail(i) ==
    /\ result = NONE
    /\ Yields(i)
    /\ tasks[i] = "failed"
    /\ tasks' = [tasks EXCEPT ![i] = "taken"]
    /\ result' = "error"
    /\ UNCHANGED <<kind, interval, start, files, plan, stats, actions, buffered, total, commits, failures>>

End ==
    /\ result = NONE
    /\ plan # NONE
    /\ \A i \in DOMAIN tasks : tasks[i] = "taken"
    /\ IF actions = <<>>
       THEN result' = "ok" /\ UNCHANGED <<files, actions, buffered, commits, failures>>
       ELSE CommitOrFail(actions, buffered, "ok")
    /\ UNCHANGED <<kind, interval, start, plan, stats, tasks, total>>

Next == create_merge_plan \/ End \/ \E i \in DOMAIN tasks : Spawn(i) \/ Finish(i) \/ Record(i) \/ Fail(i)

-----------------------------------------------------------------------------
Contents(fs) == FoldLeft(LAMBDA n, f : n + Cardinality(Live(f)), 0, fs)

(* Whatever commits OPTIMIZE makes on its way, and wherever it fails, each *)
(* live row of the table stays in exactly one active file.                 *)
EveryRowOnce ==
    /\ UNION {Live(f) : f \in ToSet(files)} = UNION {Live(f) : f \in ToSet(start)}
    /\ Contents(files) = Contents(start)

(* The files OPTIMIZE reports removed and skipped are those it considered, *)
(* and the metrics in the log add up to the ones it returns.               *)
MetricsAddUp ==
    result = "ok" =>
        /\ FoldLeft(Plus, NoMetrics, commits) = total
        /\ total.removed + stats.skipped = stats.considered

(* Compaction merges only neighbours: between two files of a bin lies no   *)
(* file of the partition that stays, and no bin exceeds the target size.   *)
BinsAreNeighbours ==
    plan # NONE /\ kind = "compact" =>
        \A i \in DOMAIN plan :
            LET part == SelectSeq(start, LAMBDA f : f.part = plan[i][1].part)
            IN  /\ Sizes(plan[i]) <= TargetSize
                /\ \E k \in 0..(Len(part) - Len(plan[i])) :
                    SubSeq(part, k + 1, k + Len(plan[i])) = plan[i]

=============================================================================
