---------------------------- MODULE DataSkipping ----------------------------
(***************************************************************************)
(* File statistics, from the Parquet row groups of a written file to the   *)
(* decision to skip the file: writer/stats.rs computes the statistics of   *)
(* an Add action, kernel/snapshot/iterators/scan_row.rs and                *)
(* stats_projection.rs materialise them for a scan, log_data.rs and        *)
(* iterators.rs hand them to the query engine.                             *)
(*                                                                         *)
(* One data column and one partition column stand for a table's; a value   *)
(* is an integer or NULL.  Ratio is the number of units (microseconds)     *)
(* the coarser unit (milliseconds) holds.                                  *)
(***************************************************************************)
EXTENDS Integers, Sequences, FiniteSets, SequencesExt

CONSTANTS
  NULL,       \* a null value, and a statistic that is not there
  Values,     \* the values of a row
  Ratio,      \* units of the fine timestamp precision in one of the coarse
  Types,      \* types of the data column considered
  Files,      \* the files: records [groups, part] of the row groups, a sequence of
              \* sequences of values, and the partition value
  Layouts     \* records [fields, limit]: the top-level fields of the file before
              \* the data column, and dataSkippingNumIndexedCols (-1: all)

VARIABLES
  phase,    \* "write", "log", "done"
  ty,       \* type of the data column
  origin,   \* the writer of the file: "self", or "other" for an engine that
            \* truncates timestamps in its statistics
  layout,   \* the layout of the table
  file,     \* the file
  stats,    \* the statistics in the log: [min, max, nulls, rows] or NULL
  raw,      \* whether their JSON form is there
  parsed,   \* the parsed form a checkpoint holds: "absent", "full", or "narrow"
            \* without the data column
  pred,     \* the predicate of the scan: [on, op, v]
  keep      \* the two decisions: [pruned, viewed]

svars == <<phase, ty, origin, layout, file, stats, raw, parsed, pred, keep>>

Rows == FlattenSeq(file.groups)

part == file.part

NonNull(g) == {g[i] : i \in DOMAIN g} \ {NULL}

Least(S) == CHOOSE x \in S : \A y \in S : x <= y
Greatest(S) == CHOOSE x \in S : \A y \in S : y <= x

-----------------------------------------------------------------------------
(* writer/stats.rs                                                         *)

\* As Indexed, with partition columns counted against the budget.
Indexed_mutant ==
  /\ ty # "binary"
  /\ layout.limit = -1 \/ Len(layout.fields) < layout.limit

\* The leaf of the data column is indexed: it is not binary and its top-level
\* field is among the first so many fields that are no partition columns.
Indexed ==
  /\ ty # "binary"
  /\ \/ layout.limit = -1
     \/ Len(SelectSeq(layout.fields, LAMBDA f : f # "partition")) < layout.limit

\* StatsScalar::try_from_stats: the logical value of a row group statistic.
\* Nanoseconds before the epoch cannot be converted.
TryFromStats(x) == IF ty = "nanos" /\ x # NULL /\ x < 0 THEN NULL ELSE x

\* AggregatedStats::from the statistics of a row group, which has no bounds
\* when all of its values are null.
GroupStats(g) ==
  LET vs == NonNull(g)
  IN [min |-> IF vs = {} THEN NULL ELSE TryFromStats(Least(vs)),
      max |-> IF vs = {} THEN NULL ELSE TryFromStats(Greatest(vs)),
      nulls |-> Cardinality({i \in DOMAIN g : g[i] = NULL})]

\* As AddAssign, keeping the first row group's null count only.
AddAssign_mutant(l, r) ==
  [min |-> IF l.min = NULL THEN r.min ELSE IF r.min = NULL THEN l.min ELSE Least({l.min, r.min}),
   max |-> IF l.max = NULL THEN r.max ELSE IF r.max = NULL THEN l.max ELSE Greatest({l.max, r.max}),
   nulls |-> l.nulls]

\* AddAssign: a bound one of the two does not have is taken from the other.
AddAssign(l, r) ==
  [min |-> IF l.min = NULL THEN r.min ELSE IF r.min = NULL THEN l.min ELSE Least({l.min, r.min}),
   max |-> IF l.max = NULL THEN r.max ELSE IF r.max = NULL THEN l.max ELSE Greatest({l.max, r.max}),
   nulls |-> l.nulls + r.nulls]

\* The data column over all row groups (apply_min_max_for_column).
ColumnStats ==
  FoldLeft(LAMBDA acc, g : AddAssign(acc, GroupStats(g)),
           GroupStats(Head(file.groups)), Tail(file.groups))

\* stats_from_metadata: the statistics of the whole file.
FileStats ==
  LET none == [min |-> NULL, max |-> NULL, nulls |-> NULL]
      col == IF Indexed THEN ColumnStats ELSE none
  IN [min |-> col.min, max |-> col.max, nulls |-> col.nulls, rows |-> Len(Rows)]

\* An engine that writes timestamp statistics in the coarse unit.
Truncate(x) == IF x = NULL THEN NULL ELSE (x \div Ratio) * Ratio

-----------------------------------------------------------------------------
(* The scan side.                                                          *)

\* StatsProjection::for_scan_inputs with filter_stats_schema: the row count is
\* always kept, the column's statistics when the predicate refers to it, and
\* bounds only for types whose bounds the scan parses.
Project(st) ==
  LET wanted == pred.on = "data"
      bounds == wanted /\ ty \notin {"boolean", "binary"}
  IN [min |-> IF bounds THEN st.min ELSE NULL, max |-> IF bounds THEN st.max ELSE NULL,
      nulls |-> IF wanted THEN st.nulls ELSE NULL, rows |-> st.rows]

\* materialize_stats_array: parsed statistics are used when they have all the
\* fields of the projection, the raw ones are parsed with the projected schema
\* otherwise; without either the file has no statistics.
Materialize(st) ==
  IF st # NULL /\ (raw \/ parsed = "full" \/ (parsed = "narrow" /\ pred.on = "partition"))
  THEN Project(st)
  ELSE [min |-> NULL, max |-> NULL, nulls |-> NULL, rows |-> NULL]

\* As CeilDatetime, leaving a bound on a coarse boundary as it is.
CeilDatetime_mutant(x) == x

\* ceil_datetime: a bound on a boundary of the coarse unit may have been
\* truncated there.
CeilDatetime(x) == IF x % Ratio = 0 THEN ((x \div Ratio) + 1) * Ratio ELSE x

\* LogicalFileView::max_values, which the scan hands to the query engine.
ViewMax(st) ==
  IF st.max # NULL /\ ty = "timestamp" THEN CeilDatetime(st.max) ELSE st.max

\* The query engine's use of the statistics it is given: a file is skipped
\* only when they leave no room for a matching row.
CanSkip(min, max, nulls, rows) ==
  \/ pred.op \in {"eq", "lt", "gt", "notnull"} /\ nulls # NULL /\ rows # NULL /\ nulls = rows
  \/ pred.op = "isnull" /\ nulls # NULL /\ nulls = 0
  \/ pred.op \in {"eq", "gt"} /\ max # NULL /\ (IF pred.op = "eq" THEN max < pred.v ELSE max <= pred.v)
  \/ pred.op \in {"eq", "lt"} /\ min # NULL /\ (IF pred.op = "eq" THEN pred.v < min ELSE pred.v <= min)

\* PruningStatistics::contained of a partition column: whether the file's
\* partition value is among those sought.  The null partition of a string
\* column holds none of them; that of a binary column is kept.
Contained(vs) ==
  IF ty = "binary" THEN part = NULL \/ part \in vs ELSE part # NULL /\ part \in vs

\* files_matching_predicate: PruningStatistics of the log data.  A partition
\* column's bounds are its value, without bounds for binary values; its null
\* counts are not known, since the row counts are looked up under an add
\* column these batches do not have.
Pruned(st) ==
  IF pred.on = "partition"
  THEN \/ pred.op = "eq" /\ ~Contained({pred.v})
       \/ ty # "binary" /\ pred.op # "eq" /\ CanSkip(part, part, NULL, NULL)
  ELSE CanSkip(st.min, st.max, st.nulls, NULL)

\* extract_file_statistics: the statistics of the scan's file view.
Viewed(st) ==
  IF pred.on = "partition" THEN FALSE ELSE CanSkip(st.min, ViewMax(st), st.nulls, st.rows)

-----------------------------------------------------------------------------
Init ==
  /\ phase = "write"
  /\ ty \in Types
  /\ origin \in {"self", "other"}
  /\ layout \in Layouts
  /\ file \in Files
  /\ stats = NULL /\ raw = TRUE /\ parsed = "absent"
  /\ pred = NULL /\ keep = NULL

\* The file is written and its Add action logged: by this writer, by an
\* engine that truncates timestamps, or by one that collects no statistics.
LogAdd ==
  /\ phase = "write"
  /\ \/ origin = "self" /\ stats' = FileStats
     \/ origin = "other"
        /\ \/ stats' = NULL
           \/ ty = "timestamp"
              /\ stats' = [FileStats EXCEPT !.min = Truncate(@), !.max = Truncate(@)]
  /\ phase' = "log"
  /\ UNCHANGED <<ty, origin, layout, file, raw, parsed, pred, keep>>

\* A checkpoint keeps the statistics as JSON, in parsed form, or both.
Checkpoint ==
  /\ phase = "log" /\ parsed = "absent" /\ stats # NULL
  /\ parsed' \in {"full", "narrow"}
  /\ raw' \in BOOLEAN
  /\ UNCHANGED <<phase, ty, origin, layout, file, stats, pred, keep>>

\* A scan materialises the statistics its predicate needs and decides.
Scan ==
  /\ phase = "log"
  /\ pred' \in [on : {"data", "partition"}, op : {"eq", "lt", "gt", "isnull", "notnull"}, v : Values]
  /\ UNCHANGED <<ty, origin, layout, file, stats, raw, parsed>>
  /\ keep' = [pruned |-> ~Pruned(Materialize(stats))', viewed |-> ~Viewed(Materialize(stats))']
  /\ phase' = "done"

Done == phase = "done" /\ UNCHANGED svars

Next == LogAdd \/ Checkpoint \/ Scan \/ Done

Spec == Init /\ [][Next]_svars

-----------------------------------------------------------------------------
Matches(x) ==
  CASE pred.op = "eq" -> x # NULL /\ x = pred.v
    [] pred.op = "lt" -> x # NULL /\ x < pred.v
    [] pred.op = "gt" -> x # NULL /\ x > pred.v
    [] pred.op = "isnull" -> x = NULL
    [] pred.op = "notnull" -> x # NULL

HasMatch ==
  IF pred.on = "partition" THEN Matches(part)
  ELSE \E i \in DOMAIN Rows : Matches(Rows[i])

\* No file with a row that satisfies the predicate is left out of the files
\* the log data prunes, whatever row groups the file has, whether they hold
\* nulls only, and whichever columns are indexed.  Not claimed for bounds
\* another engine has truncated, and for nanoseconds before the epoch.
NoMatchPruned ==
  (phase = "done" /\ HasMatch /\ ty # "nanos" /\ ~(ty = "timestamp" /\ origin = "other"))
    => keep.pruned

\* The statistics a scan hands to the query engine leave every file with a
\* matching row in, also when another engine has truncated its timestamps.
NoMatchSkipped == (phase = "done" /\ HasMatch /\ ty # "nanos") => keep.viewed

\* The logged counts are exact: rows are the rows of all row groups, nulls
\* the nulls among them, and a column within the budget of indexed columns
\* has them however many partition columns come before it.
CountsExact ==
  (phase # "write" /\ origin = "self") =>
    /\ stats.rows = Len(Rows)
    /\ (ty # "binary"
        /\ (layout.limit = -1 \/ Cardinality({i \in DOMAIN layout.fields : layout.fields[i] # "partition"}) < layout.limit))
         => stats.nulls = Cardinality({i \in DOMAIN Rows : Rows[i] = NULL})
=============================================================================
