----------------------------- MODULE ChangeFeed -----------------------------
(***************************************************************************)
(* Reading the change data feed (operations/load_cdf.rs and                *)
(* delta_datafusion/cdf): which versions are read, which of their actions  *)
(* stand for changes, and which rows of a file each of them selects.       *)
(*                                                                         *)
(* The log is written by any engine: some write change data files, some    *)
(* mark rows in deletion vectors.  A file has two rows, which are in one   *)
(* row group or in two.  Rows are identified by their values.              *)
(***************************************************************************)
EXTENDS Integers, Sequences, SequencesExt, FiniteSets, FiniteSetsExt

CONSTANTS
    MaxVersion,  \* bound on the versions written after version 0
    Times,       \* commit timestamps; the clocks of writers differ
    Partitions,  \* readable partition values; NONE is one that is not
    VectorDrops, \* may a file leave or enter the table with a deletion vector?
    NONE

VARIABLES
    commits, \* the log from version 0
    files,   \* the files that were written: values of their rows, row groups, partition
    live,    \* the active files with their deletion vectors
    feed     \* the answer to the last query

vars == <<commits, files, live, feed>>

Version == Len(commits) - 1
At(v) == commits[v + 1]
NextFile == Len(files) + 1
NextValue == 2 * Len(files)

\* The rows of a set of files with deletion vectors.
RowsOf(fs) == UNION {{files[a.f].rows[i] : i \in {1, 2} \ a.dv} : a \in fs}

-----------------------------------------------------------------------------
(* Writers *)

Commit(c, written, table) ==
    /\ Version < MaxVersion /\ feed.status = "none"
    /\ \E t \in Times : commits' = Append(commits, [c EXCEPT !.ts = t, !.old = RowsOf(live)])
    /\ files' = files \o written
    /\ live' = table
    /\ UNCHANGED feed

NoChange == [ts |-> 0, add |-> {}, remove |-> {}, cdc |-> {}, data_change |-> TRUE, enabled |-> "unset", old |-> {}]

Init ==
    /\ commits = <<[NoChange EXCEPT !.enabled = "true"]>>
    /\ files = << >> /\ live = {}
    /\ feed = [status |-> "none"]

Append_ ==
    \E groups \in {1, 2}, p \in Partitions \cup {NONE} :
        LET a == [f |-> NextFile, dv |-> {}] IN
        Commit([NoChange EXCEPT !.add = {a}],
               <<[rows |-> <<NextValue + 1, NextValue + 2>>, groups |-> groups, partition |-> p]>>,
               live \cup {a})

\* Rows are marked deleted, or a version in which they were not is restored.
MarkRows(a, dv) ==
    Commit([NoChange EXCEPT !.remove = {a}, !.add = {[a EXCEPT !.dv = dv]}], << >>,
           (live \ {a}) \cup {[a EXCEPT !.dv = dv]})

Drop(a) ==
    /\ VectorDrops \/ a.dv = {}
    /\ Commit([NoChange EXCEPT !.remove = {a}], << >>, live \ {a})

RestoreFile(a) ==
    /\ VectorDrops \/ a.dv = {}
    /\ \A b \in live : b.f # a.f
    /\ RowsOf({a}) \cap RowsOf(live) = {}
    /\ Commit([NoChange EXCEPT !.add = {a}], << >>, live \cup {a})

\* A rewrite updates one row and writes what changed as change data.
Rewrite(a, i) ==
    LET old == files[a.f]
        b == [f |-> NextFile, dv |-> {}]
        new == [old EXCEPT !.rows[i] = NextValue + 1]
    IN  /\ a.dv = {}
        /\ Commit([NoChange EXCEPT !.remove = {a}, !.add = {b},
                     !.cdc = {[type |-> "update_preimage", row |-> old.rows[i], partition |-> old.partition],
                              [type |-> "update_postimage", row |-> NextValue + 1, partition |-> old.partition]}],
                  <<new>>, (live \ {a}) \cup {b})

\* OPTIMIZE changes no data.
Compact(a) ==
    LET b == [f |-> NextFile, dv |-> {}] IN
    /\ a.dv = {}
    /\ Commit([NoChange EXCEPT !.remove = {a}, !.add = {b}, !.data_change = FALSE],
              <<files[a.f]>>, (live \ {a}) \cup {b})

\* The table property is set or unset.
SetEnabled(e) == Commit([NoChange EXCEPT !.enabled = e], << >>, live)

-----------------------------------------------------------------------------
(* Which versions *)

timestamp_in_range(c, ts) == ts <= c.ts

\* The latest version is not looked at; 0 stands for nothing found.
calculate_earliest_version(ts) ==
    LET vs == {v \in 0 .. Version - 1 : timestamp_in_range(At(v), ts)} IN
    IF vs = {} THEN 0 ELSE Min(vs)

\* As Skipped, comparing with the start of the range only.
Skipped_mutant(q, c) == q.start_ts # NONE /\ c.ts < q.start_ts

Skipped(q, c) ==
    \/ q.start_ts # NONE /\ c.ts < q.start_ts
    \/ q.end_ts # NONE /\ c.ts > q.end_ts

Failed(status) == [status |-> status, query |-> NONE, read |-> {}, wrapped |-> {}, changes |-> {}]
Empty(q) == [status |-> "ok", query |-> q, read |-> {}, wrapped |-> {}, changes |-> {}]
OutOfRange(q, error) == {IF q.allow_out_of_range THEN Empty(q) ELSE Failed(error)}

-----------------------------------------------------------------------------
(* Which rows *)

Change(type, v, a, i) == [type |-> type, version |-> v, row |-> files[a.f].rows[i], partition |-> files[a.f].partition]

\* row_group_access subtracts the start of the row group from every marked row, and
\* the last marked row from its end: a marked row outside of the group underflows.
\* A build with overflow checks panics; any other wraps, and the lengths still add
\* up to that of the group, so that the plan is taken: what it selects is then up
\* to the Parquet reader.
Underflows(a, marked) == files[a.f].groups > 1 /\ marked # {}

\* create_file_scan_plan: a deletion vector selects the rows it marks.
create_file_scan_plan(a) == IF a.dv = {} THEN {1, 2} ELSE a.dv

\* As resolve_dv_pair, with the two vectors exchanged.
resolve_dv_pair_mutant(add_dv, rm_dv) == [deletes |-> rm_dv \ add_dv, inserts |-> add_dv \ rm_dv]

resolve_dv_pair(add_dv, rm_dv) == [deletes |-> add_dv \ rm_dv, inserts |-> rm_dv \ add_dv]

Paths(actions) == {a.f : a \in actions}
Pairs(c) == {<<a, r>> \in c.add \X c.remove : a.f = r.f}
Unpaired(actions, others) == {a \in actions : a.f \notin Paths(others)}

\* prune_specs_by_partition: only unpaired files and change data are pruned, and
\* files whose partition value cannot be read are kept.
Kept(q, p) == q.filter = NONE \/ p = NONE \/ p = q.filter

\* The scans of a version without change data files: of its added and its removed
\* files and, of a file that is both, of the rows in which its two vectors differ.
Scans(q, v) ==
    LET c == At(v)
        plain(type, actions) == {[type |-> type, file |-> a, marked |-> a.dv, rows |-> create_file_scan_plan(a)]
                                   : a \in {b \in actions : Kept(q, files[b.f].partition)}}
        marked(type, a, dv) == [type |-> type, file |-> a, marked |-> dv, rows |-> dv]
    IN  IF c.cdc # {} \/ ~c.data_change THEN {}
        ELSE plain("insert", Unpaired(c.add, c.remove)) \cup plain("delete", Unpaired(c.remove, c.add))
             \cup UNION {LET s == resolve_dv_pair(p[1].dv, p[2].dv) IN
                         {marked("delete", p[1], s.deletes), marked("insert", p[1], s.inserts)} : p \in Pairs(c)}

Wraps(s) == Underflows(s.file, s.marked)
Wrapped(q, v) == {s \in Scans(q, v) : Wraps(s)}

\* The changes of a version: its change data files if there are any, otherwise what
\* the scans select.
VersionChanges(q, v) ==
    {[type |-> x.type, version |-> v, row |-> x.row, partition |-> x.partition]
       : x \in {y \in At(v).cdc : Kept(q, y.partition)}}
    \cup UNION {{Change(s.type, v, s.file, i) : i \in s.rows} : s \in Scans(q, v) \ Wrapped(q, v)}

\* The changes that a scan with a wrapped plan may yield.
WrappedChanges(q, v) == UNION {{Change(s.type, v, s.file, i) : i \in {1, 2}} : s \in Wrapped(q, v)}

\* The feed has to be on in the first version if that says so, and never off.
NotRecorded(v, start) ==
    \/ At(v).enabled = "false"
    \/ v = start /\ At(v).enabled = "absent"

\* build_with_metrics: the rows that FilterExec lets through; `wrapped` is history.
Answer(q, start, end) ==
    LET vs == {v \in start .. end : ~Skipped(q, At(v))} IN
    IF \E v \in vs : NotRecorded(v, start) THEN {Failed("not recorded")}
    ELSE {[status |-> "ok", query |-> q, read |-> vs, wrapped |-> {v \in vs : Wrapped(q, v) # {}},
           changes |-> {x \in UNION {VersionChanges(q, v) : v \in vs} \cup w
                          : q.filter = NONE \/ x.partition = q.filter}]
            : w \in SUBSET UNION {WrappedChanges(q, v) : v \in vs}}
         \cup {Failed("overflow") : v \in {u \in vs : Wrapped(q, u) # {}}}

determine_files_to_read(q) ==
    LET start == IF q.start # NONE THEN q.start ELSE calculate_earliest_version(q.start_ts)
        end == IF q.end = NONE THEN Version ELSE Min({q.end, Version})
    IN  CASE start > Version -> OutOfRange(q, "invalid version")
          [] start <= Version /\ end < start -> OutOfRange(q, "invalid range")
          [] start <= Version /\ end >= start
             /\ q.start_ts # NONE /\ q.start_ts > At(Version).ts -> OutOfRange(q, "timestamp")
          [] OTHER -> Answer(q, start, end)

Queries ==
    {q \in [start : {NONE} \cup 0 .. MaxVersion + 1, end : {NONE, 1}, start_ts : {NONE} \cup Times,
            end_ts : {NONE} \cup Times, filter : {NONE} \cup Partitions, allow_out_of_range : BOOLEAN] :
        /\ (q.start = NONE) # (q.start_ts = NONE)
        /\ q.end_ts # NONE => ~q.allow_out_of_range /\ q.start \in {NONE, 1}
        /\ q.filter # NONE => q.end_ts = NONE /\ q.end = NONE /\ q.start = 1}

\* scan_cdf is asked when the writers are done.
Read ==
    /\ feed.status = "none" /\ Version = MaxVersion
    /\ \E q \in Queries : feed' \in determine_files_to_read(q)
    /\ UNCHANGED <<commits, files, live>>

Done == feed.status # "none" /\ UNCHANGED vars

Next ==
    \/ Append_
    \/ \E a \in live :
          \/ \E dv \in SUBSET {1, 2} \ {a.dv} : MarkRows(a, dv)
          \/ Drop(a) \/ Compact(a)
          \/ \E i \in {1, 2} : Rewrite(a, i)
    \/ \E n \in DOMAIN files, dv \in SUBSET {1, 2} : RestoreFile([f |-> n, dv |-> dv])
    \/ \E e \in {"false", "absent"} : SetEnabled(e)
    \/ Read
    \/ Done

Spec == Init /\ [][Next]_vars

-----------------------------------------------------------------------------
\* The rows before and after a version.
Before(v) == At(v).old
After(v) == IF v = Version THEN RowsOf(live) ELSE At(v + 1).old
Removed(v) == {x.row : x \in {y \in feed.changes : y.version = v /\ y.type \in {"delete", "update_preimage"}}}
Inserted(v) == {x.row : x \in {y \in feed.changes : y.version = v /\ y.type \in {"insert", "update_postimage"}}}

PartitionOf(row) == (CHOOSE f \in Range(files) : row \in Range(f.rows)).partition
Asked(rows) == {r \in rows : feed.query.filter = NONE \/ PartitionOf(r) = feed.query.filter}

\* In every version it covers, the feed names exactly the rows that the version
\* adds to the table and those it takes away, whether the writer left change data
\* files, rewrote files or changed deletion vectors, and a filter on the partition
\* that also skips files changes nothing else.  A version in which a file of several
\* row groups is read through a deletion vector is excepted: the plan wraps there.
FeedIsDifference ==
    feed.status = "ok" =>
        \A v \in feed.read \ feed.wrapped : /\ Removed(v) = Asked(Before(v) \ After(v))
                             /\ Inserted(v) = Asked(After(v) \ Before(v))

\* A query by time covers the versions whose timestamps are in the range and no
\* other, although timestamps need not increase with the versions, and all of the
\* changes are from these versions.
TimeRangeExact ==
    feed.status = "ok" /\ feed.query.start_ts # NONE /\ feed.query.end = NONE
    /\ feed.query.start_ts <= At(Version).ts =>
        /\ feed.read = {v \in 0 .. Version : feed.query.start_ts <= At(v).ts
                            /\ (feed.query.end_ts # NONE => At(v).ts <= feed.query.end_ts)}
        /\ {x.version : x \in feed.changes} \subseteq feed.read
=============================================================================
