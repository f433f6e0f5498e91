---------------------------- MODULE ScanPushdown ----------------------------
(***************************************************************************)
(* What DataFusion's physical optimizer does to a planned table scan: it    *)
(* offers filters (of a FilterExec, or dynamic ones of operators further    *)
(* up) and the projection above it to DeltaScanExec, in any order.  Filters *)
(* move into the parquet source, the projection narrows structs to the      *)
(* fields it reads; then the plan runs, and what parquet reads is masked by *)
(* deletion vectors and completed with the columns that only the log knows. *)
(*                                                                         *)
(* A schema is a set of leaf paths; "p" is the partition column, "file" the *)
(* file id, both made above the parquet read.  A filter keeps the rows      *)
(* whose value at the path "on" is in "ok".                                 *)
(***************************************************************************)
EXTENDS Integers, Sequences, FiniteSets, SequencesExt, Functions

CONSTANTS
  Schema,     \* the leaf paths of the data columns
  FileLists,  \* the lists of files a scan may find: [p, rows, deleted, has]
  Queries,    \* [projection, filters, dynamic]
  NULL, NONE

VARIABLES
  files,      \* the files of the scan
  query,      \* the query
  mapped,     \* whether column mapping is enabled
  index,      \* whether a row index is retained
  read,       \* parquet_read_schema
  eval,       \* the schema of the per-file transforms
  pushed,     \* the predicate of the parquet source
  above,      \* the filters of the FilterExec between scan and projection
  partstats,  \* partition_stats
  out         \* NONE, or whether the plan ran and the rows it returned

spvars == <<files, query, mapped, index, read, eval, pushed, above, partstats, out>>

Materialized == {<<"p">>, <<"file">>}

\* Files with deletion vectors are found in tables that have the feature enabled.
HasVectors == \E f \in ToSet(files) : f.deleted # {}

-----------------------------------------------------------------------------
(* The physical plan as the provider makes it.                             *)

Columns(paths) == {p[1] : p \in paths}
kernel_projection(q) == Columns(q.projection \cup {f.on : f \in q.filters})

\* Mutant: a NULL partition value adds no NULLs.
update_partition_stats_mutant(stat, f) ==
  IF stat = NONE THEN [nulls |-> 0, values |-> {f.p}]
  ELSE [nulls |-> stat.nulls, values |-> IF NULL \in stat.values THEN stat.values
                                         ELSE stat.values \cup {f.p}]

\* Null count and bounds of the partition column, one file at a time.  The bounds of
\* a set with NULL are absent.
update_partition_stats(stat, f) ==
  LET nulls == IF f.p = NULL THEN Len(f.rows) ELSE 0
  IN IF stat = NONE THEN [nulls |-> nulls, values |-> {f.p}]
     ELSE [nulls |-> stat.nulls + nulls, values |-> stat.values \cup {f.p}]

\* Filters the provider itself gives to parquet; they are evaluated above as well.
get_read_plan(q) == IF HasVectors THEN {} ELSE {f \in q.filters : f.on \notin Materialized}

\* Filters on the partition column alone are decided by the log replay.
Above(q) == {f \in q.filters : f.on # <<"p">>}
Survivors(list, q) ==
  SelectSeq(list, LAMBDA f : \A g \in q.filters : g.on = <<"p">> => f.p \in g.ok)

get_data_scan_plan(list, q) ==
  /\ files = Survivors(list, q)
  /\ read = {l \in Schema : l[1] \in kernel_projection(q)} /\ eval = read
  /\ above = Above(q) /\ pushed = get_read_plan(q)
  /\ partstats = FoldLeft(update_partition_stats, NONE, files)

Init ==
  /\ mapped \in BOOLEAN /\ index \in BOOLEAN
  /\ query \in Queries
  /\ \E list \in FileLists : get_data_scan_plan(list, query)
  /\ out = NONE

-----------------------------------------------------------------------------
(* Filter pushdown.                                                        *)

\* Mutant: only the file id is known to be made above the parquet read.
references_delta_materialized_column_mutant(f) == f.on = <<"file">>

references_delta_materialized_column(f) == f.on \in Materialized

\* The parquet source may take a filter over, or use it for pruning only.
gather_filters_for_pushdown(f) ==
  /\ out = NONE /\ f \in (above \cup query.dynamic) \ pushed
  /\ ~mapped
  /\ ~references_delta_materialized_column(f)
  /\ pushed' = pushed \cup {f}
  /\ above' \in {above, above \ {f}}
  /\ UNCHANGED <<files, query, mapped, index, read, eval, partstats, out>>

-----------------------------------------------------------------------------
(* Projection pushdown.                                                    *)

Under(schema, path) == {l \in schema : IsPrefix(path, l)}

\* The reads of a projection; NONE when all are of whole columns.
access_of(exprs) ==
  IF \E c \in Columns(exprs) : <<c>> \notin exprs THEN exprs ELSE NONE

Whole(access, path) == path \in access

\* The leaves kept of the field at path: all when it is read whole, is no struct, or
\* has none of the fields that are read.
RECURSIVE narrow_arrow_field(_, _, _)
narrow_arrow_field(schema, path, access) ==
  LET all == Under(schema, path)
      kept == {l[Len(path) + 1] : l \in {m \in all \ {path} :
                \E r \in access : IsPrefix(SubSeq(m, 1, Len(path) + 1), r)}}
  IN IF Whole(access, path) \/ kept = {} THEN all
     ELSE UNION {narrow_arrow_field(schema, Append(path, c), access) : c \in kept}

narrow_arrow_schema(schema, access) ==
  UNION {narrow_arrow_field(schema, <<c>>, access) : c \in Columns(schema)}

\* The schemas of the transforms are narrowed in the same way.
narrow_kernel_schema(schema, access) == narrow_arrow_schema(schema, access)

MaterializedAboveRead(access) ==
  \E c \in Columns(access) : <<c>> \notin access /\ c \notin Columns(read)

narrowed(access) ==
  /\ read' = narrow_arrow_schema(read, access) /\ read' # read
  /\ eval' = narrow_kernel_schema(eval, access)

\* Offered when the projection is directly above the scan.
try_swapping_with_projection ==
  LET access == access_of(query.projection)
  IN /\ out = NONE /\ above = {}
     /\ ~mapped /\ ~index
     /\ access # NONE /\ ~MaterializedAboveRead(access)
     /\ narrowed(access)
     /\ UNCHANGED <<files, query, mapped, index, pushed, above, partstats, out>>

-----------------------------------------------------------------------------
(* Execution.                                                              *)

\* A leaf of a row of a file; a field that the file does not have is NULL.
Leaf(f, row, l) == IF l \in f.has THEN row[l] ELSE NULL

\* The parquet source drops the rows that its predicate does not keep; the columns
\* that are made above it are unknown to it, and read as NULL.
ParquetKeeps(f, row) ==
  \A g \in pushed : (IF g.on \in Materialized THEN NULL ELSE Leaf(f, row, g.on)) \in g.ok

Delivered(f) == SelectSeq([r \in DOMAIN f.rows |-> r], LAMBDA r : ParquetKeeps(f, f.rows[r]))

\* Masks are applied to the rows as they come.
Masked(f) ==
  LET rows == Delivered(f)
  IN {rows[i] : i \in {k \in DOMAIN rows : k \notin f.deleted}}

Value(n, r, path) ==
  IF path = <<"p">> THEN files[n].p ELSE IF path = <<"file">> THEN n
  ELSE Leaf(files[n], files[n].rows[r], path)

\* What a projected path holds, with the leaves that a schema has of it.
Projected(n, r, path, schema) ==
  [l \in Under(schema \cup Materialized, path) |-> Value(n, r, l)]

\* finalize_transformed_batch: the columns of the result, completed and adapted.
finalize_transformed_batch(n, r) ==
  [path \in query.projection |-> Projected(n, r, path, read \cap eval)]

\* The fields of a pushed predicate have to be in the read schema.
Readable == \A g \in pushed : g.on \in read \cup Materialized

execute ==
  /\ out = NONE
  /\ out' = [ok |-> Readable,
             rows |-> UNION {{[file |-> n, row |-> r, values |-> finalize_transformed_batch(n, r)] :
                r \in {s \in Masked(files[n]) :
                         \A g \in above \cup query.dynamic : Value(n, s, g.on) \in g.ok}} :
                n \in DOMAIN files}]
  /\ UNCHANGED <<files, query, mapped, index, read, eval, pushed, above, partstats>>

\* map_statistics: the statistics claimed for the partition column.
map_statistics == IF partstats = NONE THEN NONE
                  ELSE [nulls |-> partstats.nulls,
                        bounds |-> IF NULL \in partstats.values THEN NONE ELSE partstats.values]

Next ==
  \/ \E f \in above \cup query.dynamic : gather_filters_for_pushdown(f)
  \/ try_swapping_with_projection
  \/ execute

-----------------------------------------------------------------------------
Live(n) == {r \in DOMAIN files[n].rows : r \notin files[n].deleted}

Expected ==
  UNION {{[file |-> n, row |-> r,
           values |-> [path \in query.projection |-> Projected(n, r, path, Schema)]] :
            r \in {s \in Live(n) :
                     \A g \in query.filters \cup query.dynamic : Value(n, s, g.on) \in g.ok}} :
          n \in DOMAIN files}

\* Whatever the optimizer pushed and in whatever order, the plan returns the rows, and
\* of each the values with all the fields, that the query asks for.
ResultExact == out # NONE => (out.ok => out.rows = Expected)

\* As long as nothing below drops rows, null count and bounds that the scan reports as
\* exact for the partition column are those of the rows it returns.
PartitionStatsExact ==
  (map_statistics # NONE /\ pushed = {} /\ ~HasVectors) =>
    LET all == UNION {{<<n, r>> : r \in DOMAIN files[n].rows} : n \in DOMAIN files}
    IN /\ map_statistics.nulls = Cardinality({x \in all : files[x[1]].p = NULL})
       /\ map_statistics.bounds # NONE =>
            map_statistics.bounds = {files[x[1]].p : x \in all}

-----------------------------------------------------------------------------
(* What the code or its documentation says and the code does not deliver.  *)

=============================================================================
