----------------------------- MODULE DeltaScan -----------------------------
(***************************************************************************)
(* A table scan of the DataFusion provider: the query is planned against   *)
(* the files of one snapshot (DeltaScan, KernelScanPlan), the files that   *)
(* survive are read by DataFusion's parquet source in one or several       *)
(* streams, and DeltaScanExec removes the rows that deletion vectors mark. *)
(* A keep mask is held once per file, in a map that all streams of the     *)
(* plan share, and is consumed from the front as batches of the file       *)
(* arrive; a query that needs no data column is answered from the row      *)
(* counts of the log instead (DeltaScanMetaExec).                          *)
(*                                                                         *)
(* A row is its file and its position.  Column "p" is the partition        *)
(* column, "x" a data column and "file" the synthetic file id.             *)
(***************************************************************************)
EXTENDS Integers, Sequences, FiniteSets, SequencesExt

CONSTANTS
  Rows,           \* Rows[f]: the number of rows of file f; files are 1..Len(Rows)
  Partition,      \* Partition[f]: the partition value of file f
  Queries,        \* the queries that may be asked
  BatchRows,      \* the most rows of one parquet batch
  GroupFiles,     \* the most files of one file group (65536 in the code)
  MaxExecutions,  \* how often one physical plan is executed
  Splits,         \* whether DataFusion splits a file between partitions
  Disables,       \* whether the table property may be off while vectors remain
  NONE

VARIABLES
  deleted,   \* deleted[f]: the rows marked by the deletion vector of f
  counted,   \* the files whose statistics carry numRecords
  enabled,   \* whether the deletion vector feature is enabled on the table
  query,     \* the query being answered
  phase,     \* "idle", "planned", "reading", "done", "failed"
  files,     \* the files of the plan; a file's id is its place here
  masks,     \* selection_vectors: what is left of each file's keep mask
  parts,     \* per stream, the rows the parquet source has still to deliver
  ordinals,  \* row_index_by_file
  out,       \* the rows delivered, with their row index
  answer,    \* the answer of a query that reads no data
  runs       \* how often the plan has been executed

scanVars == <<deleted, counted, enabled, query, phase, files, masks, parts,
              ordinals, out, answer, runs>>

Files == 1..Len(Rows)

HasVector(f) == deleted[f] # {}

Holds(c, f, r) == CASE c = "p" -> Partition[f] = 1
                    [] c = "x" -> r % 2 = 1
                    [] c = "file" -> f = 1

Matches(filter, f, r) == filter = NONE \/ \E c \in filter.refs : Holds(c, f, r)

(***************************************************************************)
(* Planning: where a filter is evaluated.                                  *)
(***************************************************************************)
\* Parquet drops rows before the masks are applied, so it may not filter when
\* files can have masks.
parquet_pushdown_enabled == ~enabled

supports_filters_pushdown(filter) ==
  CASE "file" \in filter.refs -> "Unsupported"
    [] filter.convertible /\ filter.refs = {"p"} -> "Exact"
    [] ~filter.convertible /\ "p" \in filter.refs -> "Unsupported"
    [] OTHER -> "Inexact"

\* The filters DataFusion hands to the scan, and the ones it evaluates again above it.
Pushed(q) == q.filter # NONE /\ supports_filters_pushdown(q.filter) # "Unsupported"
Above(q) == q.filter # NONE /\ supports_filters_pushdown(q.filter) # "Exact"

kernel_predicate(q) == Pushed(q) /\ q.filter.convertible

parquet_predicate(q) ==
  Pushed(q) /\ q.filter.refs = {"x"} /\ parquet_pushdown_enabled

\* The columns the kernel scan reads: the requested ones, and those only the filters name.
kernel_projection(q) ==
  q.columns \cup (IF q.filter = NONE THEN {} ELSE q.filter.refs \ {"file"})

is_metadata_only(q) == "x" \notin kernel_projection(q)

\* Data skipping in delta_kernel: a partition predicate is decided, any other
\* may skip a file none of whose rows satisfies it.
Skippable(q, f) == kernel_predicate(q) /\ \A r \in 1..Rows[f] : ~Matches(q.filter, f, r)
MustSkip(q, f) == Skippable(q, f) /\ q.filter.refs = {"p"}

\* The files a file selection asks for that the snapshot does not have.
missing_file_ids(q) == IF q.selection = NONE THEN {} ELSE q.selection \ Files

resolve_file_selection(q) ==
  IF q.selection = NONE THEN Files ELSE q.selection \cap Files

validate_missing(q) == q.ignore_missing \/ missing_file_ids(q) = {}

\* A keep mask as delta_kernel returns it: it ends at the last deleted row.
KeepMask(f) ==
  LET last == CHOOSE r \in deleted[f] : \A s \in deleted[f] : s <= r
  IN IF HasVector(f) THEN [r \in 1..last |-> r \notin deleted[f]] ELSE <<>>

(***************************************************************************)
(* The physical plan.                                                      *)
(***************************************************************************)
RowsOf(f) == [r \in 1..Rows[f] |-> [file |-> f, row |-> r]]

\* What the parquet source delivers of a sequence of rows.
Delivered(q, rows) ==
  LET kept == IF parquet_predicate(q)
              THEN SelectSeq(rows, LAMBDA x : Matches(q.filter, x.file, x.row))
              ELSE rows
  IN IF q.limit = NONE THEN kept ELSE SubSeq(kept, 1, q.limit)

partitioned_files_to_file_groups(list) ==
  [g \in 1..((Len(list) + GroupFiles - 1) \div GroupFiles) |->
     SubSeq(list, (g - 1) * GroupFiles + 1, g * GroupFiles)]

Concat(list, Part(_)) == FlattenSeq([i \in DOMAIN list |-> Part(list[i])])

\* The second range of a file that DataFusion has split in two.
Half(f, second) ==
  LET cut == Rows[f] \div 2
  IN IF second THEN SubSeq(RowsOf(f), cut + 1, Rows[f]) ELSE SubSeq(RowsOf(f), 1, cut)

\* The streams of the read plan; a retained row index keeps files whole.
repartitioned(q, list) ==
  IF Splits /\ ~q.index
  THEN <<Concat(list, LAMBDA f : Half(f, FALSE)), Concat(list, LAMBDA f : Half(f, TRUE))>>
  ELSE LET groups == partitioned_files_to_file_groups(list)
       IN IF q.index THEN <<Concat(list, RowsOf)>>
          ELSE [g \in DOMAIN groups |-> Concat(groups[g], RowsOf)]

get_read_plan(q, list) ==
  LET streams == repartitioned(q, list)
  IN [p \in DOMAIN streams |-> Delivered(q, streams[p])]

(***************************************************************************)
(* Counting rows without reading them.                                     *)
(***************************************************************************)
effective_row_count_mutant(f) == Rows[f]

effective_row_count(f) ==
  LET mask == KeepMask(f)
  IN Cardinality({r \in DOMAIN mask : mask[r]}) + (Rows[f] - Len(mask))

RECURSIVE exact_num_rows(_)
exact_num_rows(list) ==
  IF list = <<>> THEN 0 ELSE effective_row_count(Head(list)) + exact_num_rows(Tail(list))

(***************************************************************************)
(* The full masks that the deletion_vectors call hands out.                *)
(***************************************************************************)
normalize_dv_keep_mask_for_api_mutant(f) == KeepMask(f)

normalize_dv_keep_mask_for_api(f) ==
  KeepMask(f) \o [i \in 1..(Rows[f] - Len(KeepMask(f))) |-> TRUE]

-----------------------------------------------------------------------------
Init ==
  /\ deleted \in {d \in [Files -> SUBSET UNION {1..Rows[f] : f \in Files}] :
                   \A f \in Files : d[f] \subseteq 1..Rows[f]}
  /\ counted \in {Files, Files \ {1}}
  /\ enabled \in BOOLEAN
  /\ Disables \/ enabled \/ \A f \in Files : ~HasVector(f)
  /\ query = NONE /\ phase = "idle" /\ files = <<>> /\ parts = <<>>
  /\ masks = [f \in Files |-> <<>>] /\ ordinals = [f \in Files |-> 0]
  /\ out = {} /\ answer = NONE /\ runs = 0

Fail(q) ==
  /\ query' = q /\ phase' = "failed"
  /\ UNCHANGED <<deleted, counted, enabled, files, masks, parts, ordinals, out,
                 answer, runs>>

Answer(q, list, value) ==
  /\ query' = q /\ phase' = "done" /\ files' = list /\ answer' = value
  /\ UNCHANGED <<deleted, counted, enabled, masks, parts, ordinals, out, runs>>

\* The files the replay of the scan metadata yields, in some order.
ReplayedFiles(q) ==
  {SetToSeq(s) : s \in {t \in SUBSET resolve_file_selection(q) :
     \A f \in resolve_file_selection(q) :
       IF f \in t THEN ~MustSkip(q, f) ELSE Skippable(q, f)}}

execution_plan(q) ==
  /\ phase = "idle" /\ q.kind = "rows"
  /\ IF ~validate_missing(q) THEN Fail(q)
     ELSE \E list \in ReplayedFiles(q) :
       IF is_metadata_only(q) /\ ~q.index /\ ToSet(list) \subseteq counted
       THEN Answer(q, list, exact_num_rows(list))
       ELSE /\ query' = q /\ phase' = "planned" /\ files' = list
            /\ masks' = [f \in Files |-> IF f \in ToSet(list) THEN KeepMask(f) ELSE <<>>]
            /\ UNCHANGED <<deleted, counted, enabled, parts, ordinals, out, answer, runs>>

deletion_vectors(q) ==
  LET vectors == {f \in resolve_file_selection(q) : HasVector(f)}
  IN /\ phase = "idle" /\ q.kind = "vectors"
     /\ IF ~validate_missing(q) \/ ~(vectors \subseteq counted) THEN Fail(q)
        ELSE Answer(q, SetToSeq(vectors),
                    [f \in vectors |-> normalize_dv_keep_mask_for_api(f)])

execute ==
  /\ phase = "planned" \/ (phase = "done" /\ answer = NONE)
  /\ runs < MaxExecutions
  /\ phase' = "reading" /\ runs' = runs + 1
  /\ parts' = get_read_plan(query, files)
  /\ ordinals' = [f \in Files |-> 0] /\ out' = {}
  /\ UNCHANGED <<deleted, counted, enabled, query, files, masks, answer>>

(***************************************************************************)
(* One batch.  DeltaScanStream cuts it into runs of one file; the runs of  *)
(* one file within a batch consume its mask one after the other.           *)
(***************************************************************************)
consume_dv_mask_mutant(mask, n) ==
  [selection |-> [i \in 1..n |-> i > Len(mask) \/ mask[i]],
   rest |-> IF Len(mask) > n THEN mask ELSE <<>>]

consume_dv_mask(mask, n) ==
  [selection |-> [i \in 1..n |-> i > Len(mask) \/ mask[i]],
   rest |-> SubSeq(mask, n + 1, Len(mask))]

FileRun(batch, f) == SelectSeq(batch, LAMBDA x : x.file = f)

batch_project_single_file(batch, f) ==
  LET rows == FileRun(batch, f)
      keep == consume_dv_mask(masks[f], Len(rows)).selection
  IN {[file |-> f, row |-> rows[i].row,
       index |-> ordinals[f] + Cardinality({j \in 1..i : keep[j]})] :
        i \in {k \in DOMAIN rows : keep[k]}}

append_row_index_mutant(batch, f) == Len(FileRun(batch, f))

append_row_index(batch, f) == Cardinality(batch_project_single_file(batch, f))

batch_project(p, n) ==
  LET batch == SubSeq(parts[p], 1, n)
  IN /\ parts' = [parts EXCEPT ![p] = SubSeq(@, n + 1, Len(@))]
     /\ masks' = [f \in Files |->
          consume_dv_mask(masks[f], Len(FileRun(batch, f))).rest]
     /\ ordinals' = [f \in Files |-> ordinals[f] + append_row_index(batch, f)]
     /\ out' = out \cup UNION {batch_project_single_file(batch, f) : f \in Files}

poll_next(p) ==
  /\ phase = "reading" /\ p \in DOMAIN parts
  /\ \E n \in 1..BatchRows : n <= Len(parts[p]) /\ batch_project(p, n)
  /\ UNCHANGED <<deleted, counted, enabled, query, phase, files, answer, runs>>

Finish ==
  /\ phase = "reading" /\ \A p \in DOMAIN parts : parts[p] = <<>>
  /\ phase' = "done"
  /\ UNCHANGED <<deleted, counted, enabled, query, files, masks, parts, ordinals,
                 out, answer, runs>>

Stopped ==
  /\ phase = "failed" \/ (phase = "done" /\ (answer # NONE \/ runs = MaxExecutions))
  /\ UNCHANGED scanVars

Next ==
  \/ \E q \in Queries : execution_plan(q) \/ deletion_vectors(q)
  \/ execute
  \/ \E p \in DOMAIN parts : poll_next(p)
  \/ Finish
  \/ Stopped

Spec == Init /\ [][Next]_scanVars /\ WF_scanVars(Next /\ phase # "idle")

-----------------------------------------------------------------------------
\* The rows a query is about: alive, of a file it selects, satisfying its filter.
Expected(q) ==
  UNION {{[file |-> f, row |-> r] :
            r \in {s \in 1..Rows[f] \ deleted[f] : Matches(q.filter, f, s)}} :
         f \in resolve_file_selection(q)}

Result ==
  {x \in {[file |-> o.file, row |-> o.row] : o \in out} :
     Above(query) => Matches(query.filter, x.file, x.row)}

Least(a, b) == IF a < b THEN a ELSE b

\* A finished scan returns exactly the live rows that satisfy the filter, however
\* its streams interleave, wherever batches are cut and wherever the filter is
\* evaluated (kernel, parquet or above); with a limit, and no deletion vectors, it
\* returns at least that many when there are.
ScanExact ==
  (phase = "done" /\ query.kind = "rows" /\ answer = NONE) =>
    /\ Result \subseteq Expected(query)
    /\ query.limit = NONE => Result = Expected(query)
    /\ (query.limit # NONE /\ \A f \in Files : ~HasVector(f)) =>
         Cardinality(Result) >= Least(query.limit, Cardinality(Expected(query)))

\* A count answered from the log alone equals the number of rows a scan returns,
\* although the counts of the log include the rows that deletion vectors mark.
CountExact ==
  (phase = "done" /\ query.kind = "rows" /\ answer # NONE) =>
    answer = Cardinality(Expected(query))

\* The row index numbers the surviving rows of every file 1, 2, 3... in file order,
\* across batches: two rows of a file never share a number.
RowIndexContiguous ==
  (phase = "done" /\ query.kind = "rows" /\ answer = NONE /\ query.index) =>
    \A f \in Files :
      LET mine == {o \in out : o.file = f}
      IN /\ {o.index : o \in mine} = 1..Cardinality(mine)
         /\ \A a, b \in mine : a.row < b.row => a.index < b.index

\* The masks handed to a caller have one entry per row of the file and are false
\* exactly at the deleted rows.
VectorsComplete ==
  (phase = "done" /\ query.kind = "vectors") =>
    \A f \in DOMAIN answer :
      /\ Len(answer[f]) = Rows[f]
      /\ \A r \in 1..Rows[f] : answer[f][r] <=> r \notin deleted[f]
=============================================================================
