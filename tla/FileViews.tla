----------------------------- MODULE FileViews -----------------------------
(***************************************************************************)
(* What this library makes of the rows that log replay returns: the views  *)
(* of active files, the Add and Remove actions built back from them, and   *)
(* the add_actions table.  Between two readings the table is changed by    *)
(* this library and by other engines, which percent-encode paths their own *)
(* way, write deletion vectors, and write checkpoints with the statistics  *)
(* as JSON or as a struct.                                                 *)
(*                                                                         *)
(* A path is [file, char, level]: the kind of character the name holds     *)
(* ("plain": none that anyone encodes, "colon": one that serde_path leaves *)
(* alone, "space": one that it encodes) and how many times it is encoded   *)
(* (level 2 of a colon is "%253A").  Statistics are functions from the     *)
(* names of statistics to values.                                          *)
(***************************************************************************)
EXTENDS Integers, Sequences, FiniteSets, SequencesExt

CONSTANTS
    Written,       \* paths of the objects that this library writes
    Foreign,       \* pairs of an object's path and the path another engine logs
    StatsOf,       \* the true statistics of each file
    ValuesOf,      \* the partition value logged for each file: "missing", "null" or a text
    StatFields,    \* the names of the statistics, in the order of the schema
    Predicates,    \* the columns that the predicates of a reader touch
    Vectors,       \* ids of deletion vectors: <<file of vectors, offset>>
    Target,        \* COALESCE_TARGET_BATCH_SIZE
    MaxVersion,    \* bound: commits
    NONE

VARIABLES
    log,       \* the commits: sequences of actions
    contents,  \* ghost: the files of the table after each commit
    struct,    \* commits covered by a checkpoint with struct statistics only
    snap,      \* the cached files of the handle's snapshot, or NONE
    answer     \* the last reading

fvvars == <<log, contents, struct, snap, answer>>

-----------------------------------------------------------------------------
(* serde_path.                                                             *)

encode_path(p) ==
    IF p.char = "plain" \/ (p.char = "colon" /\ p.level = 0)
      THEN p ELSE [p EXCEPT !.level = @ + 1]
decode_path(p) == IF p.level = 0 THEN p ELSE [p EXCEPT !.level = @ - 1]

Canonical(p) == encode_path(decode_path(p)) = p

-----------------------------------------------------------------------------
(* The kernel's log replay: newest first, one action per file and vector.  *)

Key(action) == <<action.path, action.vector>>
LiveAt(v) ==
    {a \in UNION {ToSet(log[i]) : i \in 1..v} :
        /\ a.kind = "add"
        /\ \E i \in 1..v : /\ a \in ToSet(log[i])
                           /\ \A j \in (i + 1)..v :
                                 \A b \in ToSet(log[j]) : Key(b) # Key(a)}
CommitOf(a, v) == CHOOSE i \in 1..v : a \in ToSet(log[i]) /\ \A j \in (i + 1)..v : a \notin ToSet(log[j])

(* A row keeps its statistics as JSON, or as a struct in a checkpoint.     *)
RawStats(a, v) == IF CommitOf(a, v) <= struct THEN NONE ELSE a.stats
StructStats(a, v) == IF CommitOf(a, v) <= struct THEN a.stats ELSE NONE

-----------------------------------------------------------------------------
(* Statistics: what a reading asks for and what a row then carries.        *)

Requested(projection) ==
    SelectSeq(StatFields, LAMBDA f : \/ projection = "full"
                                     \/ f = "numRecords"
                                     \/ projection \in Predicates /\ f = projection)

file_stats_materialization(predicate, skip, full) ==
    IF skip THEN [source |-> "none", projection |-> "none"]
    ELSE [source |-> "parsed_with_json_fallback",
          projection |-> IF full THEN "full" ELSE IF predicate = NONE THEN "num_records" ELSE predicate]

with_kernel_stats_output(m) ==
    IF m.source = "none" THEN "none"
    ELSE IF m.projection = "num_records" THEN "json_only" ELSE "all_struct"

(* The kernel's row for an active file; all_struct parses the JSON of the  *)
(* rows that have no struct.                                               *)
AllNull == [f \in ToSet(StatFields) |-> NONE]
parse_json(stats, fields) ==
    [f \in fields |-> IF stats = NONE \/ f \notin DOMAIN stats THEN NONE ELSE stats[f]]
ScanRow(a, v, options) ==
    [path |-> a.path, vector |-> a.vector, values |-> a.values,
     stats |-> IF options = "none" THEN NONE ELSE RawStats(a, v),
     parsed |-> IF options # "all_struct" THEN NONE
                ELSE parse_json(IF StructStats(a, v) # NONE THEN StructStats(a, v) ELSE RawStats(a, v),
                                ToSet(StatFields))]

project_struct_array_mutant(parsed, fields) ==
    [f \in ToSet(fields) |-> parsed[StatFields[CHOOSE i \in 1..Len(fields) : fields[i] = f]]]
project_struct_array(parsed, fields) == [f \in ToSet(fields) |-> parsed[f]]

materialize_stats_array(row, m) ==
    LET fields == Requested(m.projection)
    IN  IF m.source = "none" THEN NONE
        ELSE IF row.parsed # NONE THEN project_struct_array(row.parsed, fields)
        ELSE parse_json(row.stats, ToSet(fields))

(* A partition value is parsed by the type of its column and put into an   *)
(* array of that type; a key that the map lacks reads as NULL.             *)
parse_scalar(text) == [type |-> "partition column", value |-> text]
primitive_partition_values_to_array(scalar) ==
    IF scalar.type = "null" THEN NONE ELSE scalar.value
parse_partitions(values) ==
    primitive_partition_values_to_array(
        IF values \in {"missing", "null"} THEN [type |-> "null"] ELSE parse_scalar(values))
ScanRowOut(row, m) ==
    [row EXCEPT !.parsed = materialize_stats_array(row, m)]
        @@ [partition |-> parse_partitions(row.values)]

(* Rows of the cache go through the kernel again, without stats_parsed.    *)
scan_row_in_eval(row, options) ==
    [path |-> row.path, vector |-> row.vector, values |-> row.values,
     stats |-> IF options = "none" THEN NONE ELSE row.stats,
     parsed |-> IF options = "all_struct" THEN parse_json(row.stats, ToSet(StatFields)) ELSE NONE]

(* The cached batches serve a reading without a predicate, and seed any    *)
(* other one at the version of the handle.                                 *)
Satisfies(mode, stats) == stats = "none" \/ mode = "preserve_raw"
Cached == ToSet(FlattenSeq(snap.batches))
cached_parsed_batches_for(v, stats) ==
    snap # NONE /\ snap.version = v /\ Satisfies(snap.mode, stats)
files_with_engine(v, m) ==
    {ScanRowOut(ScanRow(a, v, with_kernel_stats_output(m)), m) : a \in LiveAt(v)}
files_from(m) ==
    {ScanRowOut(scan_row_in_eval(r, with_kernel_stats_output(m)), m) : r \in Cached}

files_with_stats_policy(v, predicate, stats) ==
    LET m == file_stats_materialization(predicate, stats = "none", stats = "parsed")
    IN  IF ~cached_parsed_batches_for(v, stats) THEN files_with_engine(v, m)
        ELSE IF predicate = NONE THEN Cached ELSE files_from(m)

(* Snapshot::files keeps to the handle's own skip_stats.                   *)
files(v, predicate) ==
    LET skip == snap # NONE /\ snap.mode = "without_stats"
        m == file_stats_materialization(predicate, skip, FALSE)
    IN  IF cached_parsed_batches_for(v, "none") /\ predicate = NONE THEN Cached
        ELSE IF cached_parsed_batches_for(v, "none") /\ ~skip THEN files_from(m)
        ELSE files_with_engine(v, m)

-----------------------------------------------------------------------------
(* LogicalFileView.                                                        *)

ViewPath_mutant(row) == row.path
ViewPath(row) == decode_path(row.path)
object_store_path(row) == ViewPath(row)

ToJson(stats) == [f \in {g \in DOMAIN stats : stats[g] # NONE} |-> stats[f]]
ViewStats(row) ==
    IF row.stats # NONE THEN row.stats
    ELSE IF row.parsed # NONE THEN ToJson(row.parsed) ELSE NONE
partition_values_map(row) == row.values
descriptor_mutant(dv) == <<dv[1], 0>>
descriptor(dv) == <<dv[1], dv[2]>>
deletion_vector(row) == IF row.vector = NONE THEN NONE ELSE descriptor(row.vector)

to_add(row) ==
    [kind |-> "add", path |-> ViewPath(row), vector |-> deletion_vector(row),
     values |-> partition_values_map(row), stats |-> ViewStats(row)]
remove_action(row) ==
    [kind |-> "remove", path |-> ViewPath(row), vector |-> deletion_vector(row),
     values |-> partition_values_map(row), stats |-> NONE]

Serialized(action) == [action EXCEPT !.path = encode_path(@)]

-----------------------------------------------------------------------------
(* Commits.                                                                *)

Version == Len(log)
File(path) == path.file
Used == UNION {{File(a.path) : a \in ToSet(log[i])} : i \in 1..Version}
Entry(path, vector, values) ==
    [object |-> path, vector |-> vector, values |-> parse_partitions(values)]

Commit(actions, after) ==
    /\ Version < MaxVersion
    /\ log' = Append(log, actions)
    /\ contents' = Append(contents, after)
    /\ UNCHANGED <<struct, snap>>
    /\ answer' = NONE

Now == contents[Version]
AddByUs(object) ==
    /\ File(object) \notin Used
    /\ Commit(<<Serialized([kind |-> "add", path |-> object, vector |-> NONE, values |-> ValuesOf[File(object)],
                            stats |-> StatsOf[File(object)]])>>,
              Now \cup {Entry(object, NONE, ValuesOf[File(object)])})

AddByOther(object, logged, vector) ==
    /\ File(object) \notin Used
    /\ Commit(<<[kind |-> "add", path |-> logged, vector |-> vector, values |-> ValuesOf[File(object)],
                 stats |-> StatsOf[File(object)]]>>,
              Now \cup {Entry(object, vector, ValuesOf[File(object)])})

(* Another engine deletes rows of a file: it swaps the deletion vector.    *)
VectorByOther(a, vector) ==
    /\ a.vector # vector
    /\ Commit(<<[a EXCEPT !.kind = "remove", !.stats = NONE], [a EXCEPT !.vector = vector]>>,
              (Now \ {Entry(decode_path(a.path), a.vector, a.values)})
                 \cup {Entry(decode_path(a.path), vector, a.values)})

Checkpoint ==
    /\ struct < Version
    /\ struct' = Version
    /\ answer' = NONE
    /\ UNCHANGED <<log, contents, snap>>

(* DELETE of whole files: the views come from the snapshot at the latest   *)
(* version; a stale one meets a conflict and is not modelled here.         *)
Delete(rows) ==
    /\ rows # {}
    /\ Commit(SetToSeq({Serialized(remove_action(r)) : r \in rows}),
              {e \in Now : \A r \in rows :
                  ~ (e.object = decode_path(r.path) /\ e.vector = r.vector)})

(* RESTORE compares the files by their decoded paths.                      *)
Restore(v) ==
    LET then == files_with_stats_policy(v, NONE, "none")
        now == files_with_stats_policy(Version, NONE, "none")
        adds == {r \in then : \A s \in now : ViewPath(s) # ViewPath(r)}
        removes == {r \in now : \A s \in then : ViewPath(s) # ViewPath(r)}
        kept == {e \in Now : \A r \in removes : e.object # decode_path(r.path)}
    IN  /\ v \in 1..(Version - 1)
        /\ adds \cup removes # {}
        /\ Commit(SetToSeq({Serialized(to_add(r)) : r \in adds}
                             \cup {Serialized(remove_action(r)) : r \in removes}),
                  kept \cup {e \in contents[v] : \E r \in adds : e.object = decode_path(r.path)})

-----------------------------------------------------------------------------
(* Readings.                                                               *)

(* The snapshot caches one batch per commit, newest first.                 *)
Load(skip) ==
    LET m == file_stats_materialization(NONE, skip, FALSE)
        options == with_kernel_stats_output(m)
        Batch(i) == SetToSeq({ScanRowOut(ScanRow(a, Version, options), m) :
                                 a \in {b \in LiveAt(Version) : CommitOf(b, Version) = i}})
    IN  /\ snap' = [version |-> Version, mode |-> IF skip THEN "without_stats" ELSE "preserve_raw",
                    batches |-> Reverse([i \in 1..Version |-> Batch(i)])]
        /\ answer' = NONE
        /\ UNCHANGED <<log, contents, struct>>

Read(rows) ==
    /\ answer' = [about |-> "views", version |-> Version, rows |-> rows]
    /\ UNCHANGED <<log, contents, struct, snap>>
active_adds(predicate, stats) == Read(files_with_stats_policy(Version, predicate, stats))
file_views(predicate) == Read(files(Version, predicate))

(* add_actions: the coalescer fills batches of Target rows and hands over  *)
(* the rest at the end.                                                    *)
Filled(batch, buffered) ==
    LET all == buffered \o batch
    IN  <<SubSeq(all, 1, (Len(all) \div Target) * Target),
          SubSeq(all, (Len(all) \div Target) * Target + 1, Len(all))>>
coalesce_batches_mutant(batches) ==
    FoldLeft(LAMBDA acc, b : <<acc[1] \o Filled(b, acc[2])[1], Filled(b, acc[2])[2]>>,
             <<<<>>, <<>>>>, batches)[1]
coalesce_batches(batches) ==
    LET done == FoldLeft(LAMBDA acc, b : <<acc[1] \o Filled(b, acc[2])[1], Filled(b, acc[2])[2]>>,
                         <<<<>>, <<>>>>, batches)
    IN  done[1] \o done[2]

add_missing_stats_parsed(row) == IF row.parsed = NONE THEN AllNull ELSE row.parsed
AddActionRow(row) ==
    [path |-> row.path, partition |-> row.partition, stats |-> add_missing_stats_parsed(row)]
PartitionRow(row) == [path |-> row.path, partition |-> row.partition]
AddActions(partitionsOnly) ==
    /\ snap # NONE
    /\ answer' = [about |-> "table", version |-> snap.version,
                  rows |-> coalesce_batches([i \in DOMAIN snap.batches |->
                              [j \in DOMAIN snap.batches[i] |->
                                 IF partitionsOnly THEN PartitionRow(snap.batches[i][j])
                                 ELSE AddActionRow(snap.batches[i][j])]])]
    /\ UNCHANGED <<log, contents, struct, snap>>

-----------------------------------------------------------------------------
Init ==
    /\ log = <<<<>>>>
    /\ contents = <<{}>>
    /\ struct = 0
    /\ snap = NONE
    /\ answer = NONE

Next ==
    \/ \E object \in Written : AddByUs(object)
    \/ \E pair \in Foreign, vector \in Vectors \cup {NONE} :
          AddByOther(pair[1], pair[2], vector)
    \/ \E a \in LiveAt(Version), vector \in Vectors : VectorByOther(a, vector)
    \/ Checkpoint
    \/ \E rows \in SUBSET files_with_stats_policy(Version, NONE, "none") : Delete(rows)
    \/ \E v \in 1..Version : Restore(v)
    \/ \E skip \in BOOLEAN : Load(skip)
    \/ \E predicate \in Predicates \cup {NONE}, stats \in {"none", "raw_json", "parsed"} :
          active_adds(predicate, stats)
    \/ \E predicate \in Predicates \cup {NONE} : file_views(predicate)
    \/ \E partitionsOnly \in BOOLEAN : AddActions(partitionsOnly)

Spec == Init /\ [][Next]_fvvars

-----------------------------------------------------------------------------
(* Properties.                                                             *)

(* The files that replay returns are those the table holds after the       *)
(* commits so far: the Remove that remove_action builds cancels exactly    *)
(* the Add it came from, vector included, and the Add that to_add builds   *)
(* names the same object again.                                            *)
RemovesCancel ==
    {Entry(object_store_path(r), r.vector, r.values) :
        r \in files_with_stats_policy(Version, NONE, "none")} = Now

(* The same for logs whose paths are encoded the way serde_path does it.   *)
LiveAsCommitted == (\A pair \in Foreign : Canonical(pair[2])) => RemovesCancel

(* The path of a view is the object that was written, whoever logged it.   *)
ViewsNameTheirObject ==
    answer # NONE /\ answer.about = "views" =>
        \A r \in answer.rows : \E e \in contents[answer.version] : e.object = object_store_path(r)

(* A view and an Add action built from it never claim a statistic that the *)
(* file does not have, whichever cache, checkpoint or projection it went   *)
(* through.                                                                *)
StatsSound ==
    /\ answer # NONE /\ answer.about = "views" =>
          \A r \in answer.rows :
              /\ ViewStats(r) # NONE =>
                    \A f \in DOMAIN ViewStats(r) : ViewStats(r)[f] = StatsOf[File(r.path)][f]
              /\ r.parsed # NONE =>
                    \A f \in DOMAIN r.parsed : r.parsed[f] \in {NONE, StatsOf[File(r.path)][f]}
    /\ \A i \in 1..Version : \A a \in ToSet(log[i]) :
          a.stats # NONE => \A f \in DOMAIN a.stats : a.stats[f] = StatsOf[File(a.path)][f]

(* add_actions lists every file of the snapshot's version once, with the   *)
(* partition it belongs to.                                                *)
AddActionsComplete ==
    answer # NONE /\ answer.about = "table" =>
        /\ Len(answer.rows) = Cardinality(LiveAt(answer.version))
        /\ {<<r.path, r.partition>> : r \in ToSet(answer.rows)} =
              {<<a.path, parse_partitions(a.values)>> : a \in LiveAt(answer.version)}
=============================================================================
