----------------------------- MODULE WritePlan -----------------------------
(***************************************************************************)
(* What a write turns its source into: generated columns, casts, schema    *)
(* evolution, the validation of every row, the rewrite of the files an     *)
(* overwrite matches and the change rows of the commit; with ADD           *)
(* CONSTRAINT and ADD COLUMN, which change what later writes must satisfy. *)
(*                                                                         *)
(* A schema maps columns to [type, nullable]; the generated column "g" is  *)
(* x + 1.  A value of type "str" is a number too, except for Word, which   *)
(* no cast to "int" accepts.  A file is [id, rows]; a row maps the columns *)
(* it was written with to values.                                          *)
(***************************************************************************)
EXTENDS Integers, FiniteSets, FiniteSetsExt

CONSTANTS
    NULL,
    NONE,
    Word,
    Tables,     \* initial tables
    Sources,    \* sources of writes: [schema, rows]
    Writes,     \* the ways to write: [mode, schema_mode, predicate, parts, safe]
    Columns,    \* columns ADD COLUMN may add: [name, nullable]
    MaxOps      \* bound: operations on the table

VARIABLES
    table,    \* [schema, gen, parts, constraints, cdf, append, files], NONE: no table
    before,   \* the table before the last operation
    last,     \* the last operation
    mixed,    \* whether an overwrite of some files replaced the schema of all
    added,    \* columns the table got after it was created
    ops

wpvars == <<table, before, last, mixed, added, ops>>

Cols(schema) == DOMAIN schema
Get(r, c) == IF c \in DOMAIN r THEN r[c] ELSE NULL
RowsOf(files) == UNION {f.rows : f \in files}
As(schema, r) == [c \in Cols(schema) |-> Get(r, c)]

(* Predicates and constraints, with the truth values "T", "F" and "U".     *)
Eval(term, r) ==
    LET v == Get(r, IF term = "id=1" THEN "id" ELSE "x")
    IN  IF v = NULL THEN "U" ELSE IF v = 1 THEN "T" ELSE "F"

Generated(r) == IF Get(r, "x") = NULL THEN NULL ELSE Get(r, "x") + 1

-----------------------------------------------------------------------------
(* Preconditions.  The result is an error or NONE.                         *)

check_preconditions(t, w) ==
    IF w.schema_mode = "overwrite" /\ w.mode # "overwrite" THEN "error"
    ELSE IF t = NONE THEN NONE
    ELSE IF w.mode = "overwrite" /\ t.append THEN "error"
    ELSE IF w.mode = "error_if_exists" THEN "error"
    ELSE NONE

can_overwrite_partition_columns(w) ==
    w.mode = "overwrite" /\ w.schema_mode = "overwrite" /\ w.predicate = NONE

get_partition_columns(t, w) ==
    IF t = NONE THEN IF w.parts = NONE THEN {} ELSE w.parts
    ELSE IF w.parts = NONE \/ w.parts = t.parts THEN t.parts
    ELSE IF can_overwrite_partition_columns(w) THEN w.parts
    ELSE NONE

-----------------------------------------------------------------------------
(* The source as the table takes it.                                       *)

(* with_generated_columns: a missing generated column is computed, or NULL *)
(* when the source has not the column it is computed from.                 *)
with_generated_columns(t, s) ==
    IF t = NONE \/ ~t.gen \/ "g" \in Cols(s.schema) THEN s
    ELSE [schema |-> [c \in Cols(s.schema) \cup {"g"} |->
                        IF c = "g" THEN [type |-> "int", nullable |-> TRUE] ELSE s.schema[c]],
          rows |-> {[c \in Cols(s.schema) \cup {"g"} |-> IF c = "g" THEN Generated(r) ELSE r[c]] : r \in s.rows}]

(* try_cast_schema: the same number of columns, each known.                *)
try_cast_schema(from, to) ==
    Cardinality(Cols(from)) = Cardinality(Cols(to)) /\ Cols(from) \subseteq Cols(to)

(* merge_arrow_field: types that differ merge into that of the table, and  *)
(* so does nullability.                                                    *)
merge_arrow_field(left, right) == left

(* merge_arrow_schema: the table's columns, then, when asked to, the new   *)
(* ones of the batch.                                                      *)
merge_arrow_schema_mutant(schema, batch, preserve) ==
    [c \in Cols(schema) \cup Cols(batch) |-> IF c \in Cols(batch) THEN batch[c] ELSE schema[c]]
merge_arrow_schema(schema, batch, preserve) ==
    [c \in Cols(schema) \cup (IF preserve THEN Cols(batch) ELSE {}) |->
        IF c \notin Cols(schema) THEN batch[c]
        ELSE IF c \in Cols(batch) THEN merge_arrow_field(schema[c], batch[c]) ELSE schema[c]]

(* merge_delta_struct: a column of both has one type, and may be NULL when *)
(* either may; else the schemas cannot be merged.                          *)
merge_delta_type(left, right) == IF left = right THEN left ELSE NONE
merge_delta_struct(left, right) ==
    IF \E c \in Cols(left) \cap Cols(right) : merge_delta_type(left[c].type, right[c].type) = NONE THEN NONE
    ELSE [c \in Cols(left) \cup Cols(right) |->
            IF c \notin Cols(right) THEN left[c]
            ELSE IF c \notin Cols(left) THEN right[c]
            ELSE [left[c] EXCEPT !.nullable = @ \/ right[c].nullable]]

Uncastable(v, from, to) == from = "str" /\ to = "int" /\ v = Word
Cast(v, from, to) == IF Uncastable(v, from, to) THEN NULL ELSE v

(* The projection to the new schema; missing columns are NULL.             *)
Evolve(s, schema) ==
    {[c \in Cols(schema) |->
        IF c \in Cols(s.schema) THEN Cast(r[c], s.schema[c].type, schema[c].type) ELSE NULL] : r \in s.rows}
CastFails(s, schema) ==
    \E r \in s.rows, c \in Cols(s.schema) \cap Cols(schema) : Uncastable(r[c], s.schema[c].type, schema[c].type)

(* The schema the insert plan has; NONE when the source does not fit.      *)
InsertSchema(t, s, w) ==
    IF t = NONE \/ (w.mode = "overwrite" /\ w.schema_mode = "overwrite") THEN s.schema
    ELSE IF try_cast_schema(s.schema, t.schema) THEN merge_arrow_schema(t.schema, s.schema, FALSE)
    ELSE IF w.schema_mode = "merge" THEN merge_arrow_schema(t.schema, s.schema, TRUE)
    ELSE NONE

(* Where the insert plan's columns may be NULL: in what the source has, as *)
(* the source says, else always.                                           *)
PlanNullable(s, c) == c \notin Cols(s.schema) \/ s.schema[c].nullable

(* schema_delta_for_prepared_source                                        *)
schema_delta_for_prepared_source(t, s, w, insert, parts) ==
    LET drift == ~try_cast_schema(s.schema, t.schema)
    IN  IF w.schema_mode = "merge" /\ drift THEN [t EXCEPT !.schema = insert]
        ELSE IF w.schema_mode = "overwrite" /\ w.mode = "overwrite" /\ (insert # t.schema \/ parts # t.parts)
        THEN [t EXCEPT !.schema = insert, !.parts = parts, !.gen = FALSE]
        ELSE t

-----------------------------------------------------------------------------
(* Validation, from the configuration of the table before the write.       *)

(* collect_non_nullable_fields, non_nullable_scalar_check_expr             *)
NotNullChecks(t, s) == {c \in Cols(t.schema) : ~t.schema[c].nullable /\ PlanNullable(s, c)}

(* Checks on columns the plan has not cannot be planned.                   *)
Plannable(t, s, insert) ==
    /\ NotNullChecks(t, s) \subseteq Cols(insert)
    /\ \A k \in t.constraints : (IF k = "id=1" THEN "id" ELSE "x") \in Cols(insert)
    /\ t.gen => {"g", "x"} \subseteq Cols(insert)

(* DataValidationStream: a row passes when the conjunction is true.        *)
Valid_mutant(t, s, r) ==
    /\ \A c \in NotNullChecks(t, s) : r[c] # NULL
    /\ \A k \in t.constraints : Eval(k, r) # "F"
    /\ t.gen => r["g"] = Generated(r)
Valid(t, s, r) ==
    /\ \A c \in NotNullChecks(t, s) : r[c] # NULL
    /\ \A k \in t.constraints : Eval(k, r) = "T"
    /\ t.gen => r["g"] = Generated(r)

-----------------------------------------------------------------------------
(* plan_overwrite_rewrite                                                  *)

Matched(t, p) == {f \in t.files : \E r \in f.rows : Eval(p, As(t.schema, r)) = "T"}
PartitionOnly(parts, p) == p = "id=1" /\ "id" \in parts

Rescued_mutant(t, p) == {r \in RowsOf(Matched(t, p)) : Eval(p, As(t.schema, r)) = "F"}
Rescued(t, p) == {r \in RowsOf(Matched(t, p)) : Eval(p, As(t.schema, r)) # "T"}

CdcRows_mutant(t, p) == IF t.cdf THEN RowsOf(Matched(t, p)) ELSE {}
CdcRows(t, p) ==
    IF t.cdf THEN {r \in RowsOf(Matched(t, p)) : Eval(p, As(t.schema, r)) = "T"} ELSE {}

plan_overwrite_rewrite(t, w, parts) ==
    IF t = NONE \/ w.mode # "overwrite" THEN [kind |-> "passthrough", matched |-> {}, rescued |-> {}, cdc |-> {}]
    ELSE IF w.predicate = NONE THEN [kind |-> "full_table", matched |-> t.files, rescued |-> {}, cdc |-> {}]
    ELSE IF Matched(t, w.predicate) = {} THEN [kind |-> "no_match", matched |-> {}, rescued |-> {}, cdc |-> {}]
    ELSE IF PartitionOnly(parts, w.predicate)
    THEN [kind |-> "partition_only", matched |-> Matched(t, w.predicate), rescued |-> {}, cdc |-> {}]
    ELSE [kind |-> "data_rescue", matched |-> Matched(t, w.predicate), rescued |-> Rescued(t, w.predicate),
          cdc |-> CdcRows(t, w.predicate)]

(* Rows go to one file for each partition.                                 *)
Files(rows, parts) ==
    IF parts = {} THEN IF rows = {} THEN {} ELSE {[id |-> ops, rows |-> rows]}
    ELSE {[id |-> ops, rows |-> {r \in rows : Get(r, "id") = v}] : v \in {Get(r, "id") : r \in rows}}

(* CreateBuilder::into_table_and_actions, for a table that is not there.   *)
Created(s, parts) ==
    [schema |-> s.schema, gen |-> FALSE, parts |-> parts, constraints |-> {},
     cdf |-> FALSE, append |-> FALSE, files |-> {}]

-----------------------------------------------------------------------------
Init ==
    /\ table \in Tables
    /\ before = table
    /\ last = NONE
    /\ mixed = FALSE
    /\ added = {}
    /\ ops = 0

Refuse(op) ==
    /\ last' = [op EXCEPT !.done = FALSE]
    /\ before' = table
    /\ ops' = ops + 1
    /\ UNCHANGED <<table, mixed, added>>

Accept(op, new) ==
    /\ table' = new
    /\ before' = table
    /\ last' = op
    /\ added' = IF table = NONE THEN {} ELSE added \cup (Cols(new.schema) \ Cols(table.schema))
    /\ ops' = ops + 1

Op(kind, w, inserted, changes) ==
    [kind |-> kind, write |-> w, inserted |-> inserted, changes |-> changes, done |-> TRUE]

(* prepare_write after the schema: the partition columns and the columns   *)
(* of the predicate are there, and every value can be cast.                *)
Prepared(s, w, insert, parts) ==
    /\ parts \subseteq Cols(insert)
    /\ w.predicate # NONE => (IF w.predicate = "id=1" THEN "id" ELSE "x") \in Cols(insert)
    /\ CastFails(s, insert) => w.safe

Write(w, source) ==
    LET s == with_generated_columns(table, source)
        parts == get_partition_columns(table, w)
        insert == InsertSchema(table, s, w)
        plan == plan_overwrite_rewrite(table, w, parts)
        rows == Evolve(s, insert)
        kept == {As(insert, r) : r \in plan.rescued}
        gone == {As(insert, r) : r \in plan.cdc}
        base == IF table = NONE THEN Created(s, parts) ELSE table
    IN  IF \/ check_preconditions(table, w) # NONE
           \/ parts = NONE
           \/ insert = NONE
           \/ ~Prepared(s, w, insert, parts)
           \/ table # NONE /\ ~Plannable(table, s, insert)
           \/ table # NONE /\ \E r \in rows \cup kept \cup gone : ~Valid(table, s, r)
           \/ w.predicate # NONE /\ \E r \in rows : Eval(w.predicate, r) # "T"
        THEN Refuse(Op("write", w, {}, {}))
        ELSE /\ Accept(Op("write", w, rows,
                        IF plan.kind = "data_rescue" /\ table.cdf
                        THEN {[type |-> "insert", row |-> r] : r \in rows}
                                \cup {[type |-> "delete", row |-> r] : r \in gone}
                        ELSE {}),
                    LET t == IF table = NONE THEN base
                             ELSE schema_delta_for_prepared_source(table, s, w, insert, parts)
                    IN  [t EXCEPT !.files = (base.files \ plan.matched) \cup Files(rows \cup kept, parts)])
             /\ mixed' = (mixed \/ (w.schema_mode = "overwrite" /\ w.predicate # NONE))

(* ConstraintBuilder::into_future: the rows of the table are validated     *)
(* before the constraint is added.                                         *)
AddConstraint(k) ==
    /\ table # NONE
    /\ k \notin table.constraints
    /\ IF \A r \in RowsOf(table.files) : Eval(k, As(table.schema, r)) = "T"
       THEN /\ Accept(Op("constraint", NONE, {}, {}), [table EXCEPT !.constraints = @ \cup {k}])
            /\ UNCHANGED mixed
       ELSE Refuse(Op("constraint", NONE, {}, {}))

(* plan_add_column_actions: a column that is there already is merged.      *)
AddColumn(c) ==
    LET schema == merge_delta_struct(table.schema, [n \in {c.name} |-> [type |-> "int", nullable |-> c.nullable]])
    IN  /\ table # NONE
        /\ IF schema = NONE THEN Refuse(Op("column", NONE, {}, {}))
           ELSE Accept(Op("column", NONE, {}, {}), [table EXCEPT !.schema = schema]) /\ UNCHANGED mixed

Next ==
    /\ ops < MaxOps
    /\ \/ \E w \in Writes, s \in Sources : Write(w, s)
       \/ \E k \in {"id=1", "x=1"} : AddConstraint(k)
       \/ \E c \in Columns : AddColumn(c)

-----------------------------------------------------------------------------
(* Every row of the table satisfies what the table declares: constraints,  *)
(* generated columns and, but for columns that came later, NOT NULL,       *)
(* whatever sequence of writes and alterations led to it.                  *)
TableValid ==
    table # NONE /\ ~mixed =>
        \A r \in RowsOf(table.files) :
            /\ \A k \in table.constraints : Eval(k, As(table.schema, r)) = "T"
            /\ table.gen => Get(r, "g") = Generated(r)
            /\ \A c \in Cols(table.schema) \ added : ~table.schema[c].nullable => Get(r, c) # NULL

Contents(t, schema) == IF t = NONE THEN {} ELSE {As(schema, r) : r \in RowsOf(t.files)}

(* A write that succeeds leaves exactly its rows and the old ones it does  *)
(* not replace; replaceWhere replaces the rows its predicate is true for,  *)
(* and keeps those for which it is unknown.                                *)
WriteExact ==
    last # NONE /\ last.kind = "write" /\ last.done /\ ~mixed =>
        LET w == last.write
            kept == {r \in Contents(before, table.schema) :
                        \/ w.mode # "overwrite"
                        \/ w.predicate # NONE /\ Eval(w.predicate, r) # "T"}
        IN  Contents(table, table.schema) = kept \cup {As(table.schema, r) : r \in last.inserted}

(* A column of the table keeps its type and nullability, and stays, unless *)
(* the write overwrites the schema; without a schema mode no column comes. *)
SchemaKept ==
    last # NONE /\ last.kind = "write" /\ last.done /\ before # NONE /\ last.write.schema_mode # "overwrite" =>
        /\ \A c \in Cols(before.schema) : c \in Cols(table.schema) /\ table.schema[c] = before.schema[c]
        /\ last.write.schema_mode = NONE => table.schema = before.schema

(* The change rows of a rewrite, or else the files it adds and removes,    *)
(* turn the table before it into the table after it (of rows that differ). *)
Distinct(files) == \A f, g \in files : f # g => f.rows \cap g.rows = {}
FeedReplays ==
    (/\ last # NONE /\ last.kind = "write" /\ last.done /\ before # NONE /\ ~mixed
     /\ before.cdf /\ Distinct(before.files) /\ Distinct(table.files)) =>
        LET of(k) == {As(table.schema, c.row) : c \in {d \in last.changes : d.type = k}}
            gone == IF last.changes # {} THEN of("delete")
                    ELSE {As(table.schema, r) : r \in RowsOf(before.files \ table.files)}
            new == IF last.changes # {} THEN of("insert")
                   ELSE {As(table.schema, r) : r \in RowsOf(table.files \ before.files)}
        IN  Contents(table, table.schema) = (Contents(before, table.schema) \ gone) \cup new

-----------------------------------------------------------------------------
(* What the code or its documentation says and the code does not deliver.  *)

=============================================================================
