--------------------------- MODULE ColumnMapping ----------------------------
(***************************************************************************)
(* Column mapping: data files, partition values and file statistics name    *)
(* columns physically, queries name them logically.  Other engines switch   *)
(* column mapping on, rename, drop and add columns; this library writes     *)
(* files (ColumnMappingState, ColumnMappingExec), records their statistics  *)
(* and finds them again when a later query refers to a logical column       *)
(* (stats_schema, StatsProjection).                                         *)
(*                                                                         *)
(* A column of the schema is [name, phys, id, col, kind, sub]: logical and  *)
(* physical name, field id, and col, which identifies the column for its    *)
(* whole life.  sub lists the fields of a "struct" and the element of a     *)
(* "list".  A node of a batch or of a file is [name, id, kind, sub, val];   *)
(* the value of a column is its col, so that it shows whose value is read.  *)
(***************************************************************************)
EXTENDS Integers, Sequences, FiniteSets, SequencesExt

CONSTANTS
  Schemas,      \* the schemas a table may be created with, without mapping
  Uuids,        \* Uuids[n]: the physical name made for column n
  NewNames,     \* logical names for added and renamed columns
  StaleIds,     \* field ids that the batches of a caller may carry
  Listings,     \* dataSkippingStatsColumns: NONE or a set of logical paths
  IndexedCols,  \* dataSkippingNumIndexedCols
  MaxChanges,   \* how often other engines change the schema
  MaxFiles,     \* the most files
  NONE

VARIABLES
  mode,       \* delta.columnMapping.mode
  schema,     \* the logical schema
  partition,  \* the col of the partition column
  cols,       \* delta.columnMapping.maxColumnId
  listed,     \* dataSkippingStatsColumns
  files,      \* the data files
  changes     \* how often the schema was changed

cmvars == <<mode, schema, partition, cols, listed, files, changes>>

Field(fields, name) == SelectSeq(fields, LAMBDA f : f.name = name)[1]
HasField(fields, name) == \E f \in ToSet(fields) : f.name = name

physical_name(f) == IF mode = "none" THEN f.name ELSE f.phys

-----------------------------------------------------------------------------
(* Writing: batches are renamed, only names and ids change.                *)

RECURSIVE physical_fields(_, _)

\* Mutant: the ids that batches bring along are kept.
metadata_without_field_id_mutant(node) == node.id

metadata_without_field_id(node) == NONE

rebuild_element(node, element) ==
  [node EXCEPT !.id = metadata_without_field_id(node),
               !.sub = physical_fields(@, element.sub)]

\* Mutant: the fields of structs keep their logical names.
physical_data_type_mutant(node, field) == node.sub

physical_data_type(node, field) ==
  CASE field.kind = "struct" -> physical_fields(node.sub, field.sub)
    [] field.kind = "list" -> <<rebuild_element(node.sub[1], field.sub[1])>>
    [] OTHER -> node.sub

physical_field(node, field) ==
  [node EXCEPT !.name = physical_name(field),
               !.id = IF field.id # NONE THEN field.id ELSE metadata_without_field_id(node),
               !.sub = physical_data_type(node, field)]

physical_fields(nodes, fields) ==
  [i \in DOMAIN nodes |->
     IF HasField(fields, nodes[i].name)
     THEN physical_field(nodes[i], Field(fields, nodes[i].name)) ELSE nodes[i]]

\* The batch of a caller, cast to the table's schema; field ids may be left on it.
RECURSIVE Batch(_, _)
Batch(fields, stale) ==
  [i \in DOMAIN fields |->
     [name |-> fields[i].name, id |-> stale, kind |-> fields[i].kind,
      sub |-> Batch(fields[i].sub, stale), val |-> fields[i].col]]

ChangeType == [name |-> "_change_type", id |-> NONE, kind |-> "leaf", sub |-> <<>>, val |-> 0]

\* The batches keep their arrays; only names and metadata change.
apply_column_mapping(nodes) == physical_fields(nodes, schema)

\* ColumnMappingExec, which wraps the plan of a write; without column mapping the plan
\* is left as it is.
ColumnMappingExec(nodes) == IF mode = "none" THEN nodes ELSE apply_column_mapping(nodes)

\* The sink of INSERT INTO transforms the batches of its stream.
transform_batch(nodes) == IF mode = "none" THEN nodes ELSE apply_column_mapping(nodes)

Partition == SelectSeq(schema, LAMBDA f : f.col = partition)[1]

physical_partition_columns == physical_name(Partition)

-----------------------------------------------------------------------------
(* Statistics.                                                             *)

\* The physical path of a logical one, or NONE.
RECURSIVE physical_column_name(_, _)
physical_column_name(fields, path) ==
  IF ~HasField(fields, Head(path)) THEN NONE
  ELSE LET f == Field(fields, Head(path))
           rest == physical_column_name(f.sub, Tail(path))
       IN IF Len(path) = 1 THEN <<physical_name(f)>>
          ELSE IF f.kind # "struct" \/ rest = NONE THEN NONE
          ELSE <<physical_name(f)>> \o rest

stats_table_properties ==
  IF mode = "none" \/ listed = NONE THEN listed
  ELSE {physical_column_name(schema, p) : p \in listed} \ {NONE}

\* The leaf columns of a file, as the parquet metadata lists them.
RECURSIVE Leaves(_, _, _)
Leaves(nodes, path, repeated) ==
  FlattenSeq([i \in DOMAIN nodes |->
    LET at == Append(path, nodes[i].name)
    IN IF nodes[i].kind = "leaf"
       THEN <<[path |-> at, val |-> nodes[i].val, repeated |-> repeated]>>
       ELSE Leaves(nodes[i].sub, at, repeated \/ nodes[i].kind = "list")])

\* The columns that stats_from_metadata records: those whose last name is listed,
\* or those of the first top-level columns; never the partition column, and none
\* of a repeated column.
Recorded(leaves, key) ==
  LET tops == SelectSeq([i \in DOMAIN leaves |-> leaves[i].path[1]], LAMBDA n : n # key)
      First(name) == CHOOSE i \in DOMAIN tops :
                       tops[i] = name /\ \A j \in 1..(i - 1) : tops[j] # name
      Slot(name) == Cardinality({tops[j] : j \in 1..First(name)})
      wanted == stats_table_properties
  IN {l \in ToSet(leaves) :
        /\ l.path[1] # key /\ ~l.repeated
        /\ IF wanted # NONE THEN <<Last(l.path)>> \in wanted
           ELSE Slot(l.path[1]) <= IndexedCols}

\* A data file from the nodes of a plan or of a stream.
Put(nodes) ==
  /\ Cardinality(files) < MaxFiles
  /\ LET key == physical_partition_columns
     IN files' = files \cup
          {[n |-> Cardinality(files) + 1, mapped |-> mode # "none",
            data |-> SelectSeq(nodes, LAMBDA d : d.name # key),
            values |-> [k \in {key} |-> partition],
            stats |-> Recorded(Leaves(nodes, <<>>, FALSE), key)]}
  /\ UNCHANGED <<mode, schema, partition, cols, listed, changes>>

\* A write operation; with a change feed the batches also hold _change_type.
Write(stale, cdc) ==
  Put(ColumnMappingExec(Batch(schema, stale) \o IF cdc THEN <<ChangeType>> ELSE <<>>))

\* DeltaDataSink::write_all.
Insert(stale) == Put(transform_batch(Batch(schema, stale)))

should_include_column(path, names) == \E n \in names : IsPrefix(path, n) \/ IsPrefix(n, path)

stats_source_schema == SelectSeq(schema, LAMBDA f : f.col # partition)

\* BaseStatsTransform walks the fields with what it has added and the path it is at.
\* When no field of a struct is included its name stays on the path.
RECURSIVE BaseStatsTransform(_, _)
BaseStatsTransform(fields, walk) ==
  LET names == stats_table_properties
      Visit(w, f) ==
        LET at == Append(w.path, physical_name(f))
            inner == BaseStatsTransform(f.sub, [w EXCEPT !.path = at])
        IN IF names = NONE /\ w.added >= IndexedCols THEN w
           ELSE IF f.kind = "struct"
             THEN IF inner.added = w.added THEN inner ELSE [inner EXCEPT !.path = Front(@)]
           ELSE IF names # NONE /\ ~should_include_column(at, names) THEN w
           ELSE [w EXCEPT !.added = @ + 1,
                          !.out = IF f.kind = "leaf" THEN @ \cup {at} ELSE @]
  IN FoldLeft(Visit, walk, fields)

stats_schema ==
  BaseStatsTransform(stats_source_schema, [path |-> <<>>, added |-> 0, out |-> {}]).out

\* Mutant: the column of a predicate is looked up under its logical name.
physicalize_column_path_mutant(path) == path

physicalize_column_path(path) == physical_column_name(schema, path)

\* What a predicate on a logical column learns from the statistics of a file.
StatsFor(f, path) ==
  LET physical == physicalize_column_path(path)
  IN IF physical \notin stats_schema THEN {}
     ELSE {s.val : s \in {t \in f.stats : t.path = physical}}

-----------------------------------------------------------------------------
(* Reading: the kernel resolves each logical column in each file.          *)

\* The value of the field of one logical schema in one list of nodes.
ByName(nodes, f) == {n \in ToSet(nodes) : n.name = physical_name(f)}

-----------------------------------------------------------------------------
(* Schema changes, by other engines; this library refuses them.            *)

Changing == changes < MaxChanges /\ changes' = changes + 1

RECURSIVE Mapped(_)
Mapped(fields) ==
  [i \in DOMAIN fields |->
     [fields[i] EXCEPT !.phys = fields[i].name,
                       !.id = IF fields[i].name = "element" THEN NONE ELSE fields[i].col,
                       !.sub = Mapped(@)]]

Upgrade ==
  /\ mode = "none" /\ Changing
  /\ mode' = "name" /\ schema' = Mapped(schema)
  /\ UNCHANGED <<partition, cols, listed, files>>

Rename(i, name) ==
  /\ mode # "none" /\ Changing /\ ~HasField(schema, name)
  /\ schema' = [schema EXCEPT ![i].name = name]
  /\ listed' = IF listed = NONE THEN NONE
               ELSE {IF p = <<schema[i].name>> THEN <<name>> ELSE p : p \in listed}
  /\ UNCHANGED <<mode, partition, cols, files>>

RenameNested(i, j, name) ==
  /\ mode # "none" /\ Changing /\ schema[i].kind = "struct"
  /\ ~HasField(schema[i].sub, name)
  /\ schema' = [schema EXCEPT ![i].sub[j].name = name]
  /\ UNCHANGED <<mode, partition, cols, listed, files>>

DropColumn(i) ==
  /\ mode # "none" /\ Changing /\ schema[i].col # partition /\ Len(schema) > 2
  /\ schema' = RemoveAt(schema, i)
  /\ listed' = IF listed = NONE THEN NONE ELSE listed \ {<<schema[i].name>>}
  /\ UNCHANGED <<mode, partition, cols, files>>

AddColumn(name) ==
  /\ Changing /\ ~HasField(schema, name)
  /\ cols' = cols + 1
  /\ schema' = Append(schema,
       [name |-> name, phys |-> IF mode = "none" THEN name ELSE Uuids[cols'],
        id |-> IF mode = "none" THEN NONE ELSE cols',
        col |-> cols', kind |-> "leaf", sub |-> <<>>])
  /\ UNCHANGED <<mode, partition, listed, files>>

RECURSIVE Created(_)
Created(fields) ==
  [i \in DOMAIN fields |->
     [fields[i] EXCEPT !.phys = Uuids[fields[i].col],
                       !.id = IF fields[i].name = "element" THEN NONE ELSE fields[i].col,
                       !.sub = Created(@)]]

Init ==
  /\ \E s \in Schemas :
       /\ mode \in {"none", "name", "id"}
       /\ schema = IF mode = "none" THEN s.fields ELSE Created(s.fields)
       /\ partition = s.partition /\ cols = s.cols
  /\ listed \in Listings
  /\ files = {} /\ changes = 0

Next ==
  \/ \E stale \in StaleIds : Insert(stale) \/ \E cdc \in BOOLEAN : Write(stale, cdc)
  \/ Upgrade
  \/ \E i \in DOMAIN schema :
       \/ DropColumn(i)
       \/ \E name \in NewNames : Rename(i, name)
       \/ \E j \in DOMAIN schema[i].sub, name \in NewNames : RenameNested(i, j, name)
  \/ \E name \in NewNames : AddColumn(name)

-----------------------------------------------------------------------------
\* The nodes of a file that the fields of the schema resolve to are theirs.
RECURSIVE Own(_, _)
Own(nodes, fields) ==
  \A f \in ToSet(fields) :
    /\ \A n \in ByName(nodes, f) :
         /\ n.val = f.col
         /\ CASE f.kind = "struct" -> Own(n.sub, f.sub)
              [] f.kind = "list" -> Own(n.sub[1].sub, f.sub[1].sub)
              [] OTHER -> TRUE
    /\ (\E n \in ToSet(nodes) : n.val = f.col) => ByName(nodes, f) # {}

\* Whatever was renamed, dropped and added since a file was written, each column of
\* the current schema reads from it the values that were written for that column, at
\* any depth and also as partition value, and a re-used name shows no old values.
ReadsOwnValues ==
  \A f \in files :
    /\ Own(f.data, stats_source_schema)
    /\ \A k \in DOMAIN f.values : k = physical_name(Partition) /\ f.values[k] = partition

\* No data file holds a field id that is not the id of the column stored there, even
\* when the batches of the caller carried ids: an engine that reads by id finds the
\* same values.
RECURSIVE IdsOwn(_)
IdsOwn(nodes) ==
  \A n \in ToSet(nodes) : (n.id # NONE => n.id = n.val) /\ IdsOwn(n.sub)

IdsNameTheirColumn == \A f \in files : f.mapped => IdsOwn(f.data)

\* Statistics found for a logical column are those recorded for that column, although
\* its name may be the physical name of another one.
StatsOfTheirColumn ==
  \A f \in files : \A c \in ToSet(stats_source_schema) :
    /\ c.kind = "leaf" => StatsFor(f, <<c.name>>) \subseteq {c.col}
    /\ c.kind = "struct" => \A d \in ToSet(c.sub) :
         StatsFor(f, <<c.name, d.name>>) \subseteq {d.col}

-----------------------------------------------------------------------------
(* What the code or its documentation says and the code does not deliver.  *)

=============================================================================
