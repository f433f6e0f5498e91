---------------------------- MODULE RowRewrite ----------------------------
(***************************************************************************)
(* DELETE and UPDATE on rows: which files a predicate selects, which rows  *)
(* are rewritten, what the change feed of the commit says and what the     *)
(* metrics count.  A predicate is a conjunction of terms with three truth  *)
(* values; "U" is SQL's unknown.  A row is [id, x, part], a file the rows  *)
(* written to it, the ids its deletion vector covers and its numRecords.   *)
(* The conflict check and the commit are those of the commit loop; here a  *)
(* single writer commits.                                                  *)
(***************************************************************************)
EXTENDS Integers, Sequences, FiniteSets, FiniteSetsExt

CONSTANTS
    NULL,
    Tables,       \* initial tables: functions from file numbers to files
    Predicates,   \* sets of terms; NONE is the absence of a predicate
    Convertible,  \* terms that translate to a kernel predicate
    Updates,      \* what UPDATE assigns: [column, value]
    NONE,
    MaxOps        \* bound: operations on the table

VARIABLES
    table,    \* the active files
    cdf,      \* whether the table writes change data
    append,   \* delta.appendOnly
    before,   \* the live rows before the last operation
    last,     \* the last operation: kind, predicate, update, metrics, change rows, removed and added files
    ops       \* operations so far

rvars == <<table, cdf, append, before, last, ops>>

Live(f) == {r \in f.rows : r.id \notin f.dv}
Rows(t) == UNION {Live(t[f]) : f \in DOMAIN t}

-----------------------------------------------------------------------------
(* Predicates.                                                             *)

Eval(term, r) ==
    CASE term = "x=1"       -> IF r.x = NULL THEN "U" ELSE IF r.x = 1 THEN "T" ELSE "F"
      [] term = "x<>1"      -> IF r.x = NULL THEN "U" ELSE IF r.x = 1 THEN "F" ELSE "T"
      [] term = "x is null" -> IF r.x = NULL THEN "T" ELSE "F"
      [] term = "part=a"    -> IF r.part = NULL THEN "U" ELSE IF r.part = "a" THEN "T" ELSE "F"
      [] term = "part<>a"   -> IF r.part = NULL THEN "U" ELSE IF r.part = "a" THEN "F" ELSE "T"

Holds(p, r) ==
    IF \E t \in p : Eval(t, r) = "F" THEN "F"
    ELSE IF \E t \in p : Eval(t, r) = "U" THEN "U" ELSE "T"

(* FindFilesExprProperties                                                 *)
PartitionOnly(p) == p \subseteq {"part=a", "part<>a"}

PartitionValue(f) == (CHOOSE r \in f.rows : TRUE).part
PartitionHolds(p, f) == Holds(p, [id |-> 0, x |-> NULL, part |-> PartitionValue(f)])

(* The kernel keeps a file when the partition predicate is true for it;    *)
(* so does DataFusion on the table of add actions, for terms the kernel    *)
(* has no form of.                                                         *)
MatchedByKernel(t, p) == {f \in DOMAIN t : PartitionHolds(p, t[f]) = "T"}
find_file_paths_by_partition_predicate_datafusion(t, p) ==
    {f \in DOMAIN t : PartitionHolds(p, t[f]) = "T"}

(* collect_matching_files scans for files with a row for which the         *)
(* predicate is true; scan_files_where_matches reads them as a whole.      *)
collect_matching_files(t, p) == {f \in DOMAIN t : \E r \in Live(t[f]) : Holds(p, r) = "T"}

(* The removes of the matched files are found by replaying the log with    *)
(* the terms the kernel has a form of.                                     *)
Removes(t, p, matched) ==
    {f \in matched : PartitionHolds(p \cap Convertible \cap {"part=a", "part<>a"}, t[f]) = "T"}

-----------------------------------------------------------------------------
(* DELETE.                                                                 *)

(* derive_live_row_count, collect_full_file_deletes                        *)
derive_live_row_count_mutant(f) == f.records
derive_live_row_count(f) == IF f.records = NONE THEN NONE ELSE f.records - Cardinality(f.dv)
collect_full_file_deletes(t, fs) ==
    [removed |-> fs, rescued |-> {}, changes |-> {},
     metrics |-> [deleted |-> IF \E f \in fs : derive_live_row_count(t[f]) = NONE THEN NONE
                              ELSE MapThenSumSet(LAMBDA f : derive_live_row_count(t[f]), fs),
                  copied |-> 0]]

Rescued_mutant(p, read) == {r \in read : Holds(p, r) = "F"}
Rescued(p, read) == {r \in read : Holds(p, r) # "T"}

(* should_write_cdc: the change rows of a rewrite.                         *)
DeleteChanges(p, read) == {[type |-> "delete", row |-> r] : r \in {s \in read : Holds(p, s) = "T"}}

ExecuteDelete(t, p) ==
    IF p = NONE THEN collect_full_file_deletes(t, DOMAIN t)
    ELSE IF PartitionOnly(p)
    THEN collect_full_file_deletes(t,
            IF p \subseteq Convertible THEN MatchedByKernel(t, p)
            ELSE find_file_paths_by_partition_predicate_datafusion(t, p))
    ELSE LET matched == collect_matching_files(t, p)
             read == UNION {Live(t[f]) : f \in matched}
             rescued == Rescued(p, read)
         IN  [removed |-> Removes(t, p, matched), rescued |-> rescued,
              changes |-> IF cdf THEN DeleteChanges(p, read) ELSE {},
              metrics |-> [deleted |-> Cardinality(read) - Cardinality(rescued),
                           copied |-> Cardinality(rescued)]]

-----------------------------------------------------------------------------
(* UPDATE.                                                                 *)

Assign(r, u) == IF u.column = "x" THEN [r EXCEPT !.x = u.value] ELSE [r EXCEPT !.part = u.value]

(* The marker column is true where the predicate is, else null.            *)
Marked_mutant(p, r) == Holds(p, r) # "F"
Marked(p, r) == Holds(p, r) = "T"
Project(p, u, read) == {IF Marked(p, r) THEN Assign(r, u) ELSE r : r \in read}

(* CDCTracker::collect: what the scan had and the plan has not, and the    *)
(* other way round.                                                        *)
CDCTracker_mutant(pre, post) ==
    {[type |-> "update_preimage", row |-> r] : r \in pre \ post}
        \cup {[type |-> "update_postimage", row |-> r] : r \in post}
CDCTracker(pre, post) ==
    {[type |-> "update_preimage", row |-> r] : r \in pre \ post}
        \cup {[type |-> "update_postimage", row |-> r] : r \in post \ pre}

ExecuteUpdate(t, p, u) ==
    LET matched == collect_matching_files(t, p)
        read == UNION {Live(t[f]) : f \in matched}
        post == Project(p, u, read)
        updated == Cardinality({r \in read : Marked(p, r)})
    IN  [removed |-> Removes(t, p, matched), rescued |-> post,
         changes |-> IF cdf THEN CDCTracker(read, post) ELSE {},
         metrics |-> [deleted |-> updated, copied |-> Cardinality(read) - updated]]

-----------------------------------------------------------------------------
(* The writer puts the rows of each partition into a file of its own.      *)
WritePlan(t, rows) ==
    LET parts == {r.part : r \in rows}
        base == IF DOMAIN t = {} THEN 0 ELSE Max(DOMAIN t)
        name == CHOOSE n \in [parts -> (base + 1)..(base + Cardinality(parts))] :
                    \A a, b \in parts : a # b => n[a] # n[b]
    IN  [f \in {name[q] : q \in parts} |->
            LET q == CHOOSE q \in parts : name[q] = f
                rs == {r \in rows : r.part = q}
            IN  [rows |-> rs, dv |-> {}, records |-> Cardinality(rs)]]

Commit(kind, p, u, result) ==
    LET kept == DOMAIN table \ result.removed
        added == WritePlan(table, result.rescued)
    IN  /\ table' = [f \in kept \cup DOMAIN added |-> IF f \in kept THEN table[f] ELSE added[f]]
        /\ before' = Rows(table)
        /\ last' = [kind |-> kind, predicate |-> p, update |-> u, metrics |-> result.metrics,
                    changes |-> result.changes, removed |-> result.removed,
                    lost |-> UNION {Live(table[f]) : f \in result.removed},
                    committed |-> result.removed # {} \/ DOMAIN added # {}]
        /\ ops' = ops + 1
        /\ UNCHANGED <<cdf, append>>

Init ==
    /\ table \in Tables
    /\ cdf \in BOOLEAN
    /\ append \in BOOLEAN
    /\ before = Rows(table)
    /\ last = NONE
    /\ ops = 0

(* DeleteBuilder::into_future; check_append_only refuses the operation.    *)
Delete ==
    /\ ops < MaxOps
    /\ ~append
    /\ \E p \in Predicates : Commit("delete", p, NONE, ExecuteDelete(table, p))

(* UpdateBuilder::into_future; no predicate means all rows.                *)
Update ==
    /\ ops < MaxOps
    /\ ~append
    /\ \E p \in Predicates, u \in Updates :
        Commit("update", IF p = NONE THEN {} ELSE p, u, ExecuteUpdate(table, IF p = NONE THEN {} ELSE p, u))

Next == Delete \/ Update

-----------------------------------------------------------------------------
Matches(r) == last.predicate = NONE \/ Holds(last.predicate, r) = "T"

(* A DELETE removes the rows for which its predicate is true and keeps the *)
(* others, unknown included, whichever way the files were found.           *)
DeleteExact ==
    last # NONE /\ last.kind = "delete" => Rows(table) = {r \in before : ~Matches(r)}

(* An UPDATE changes exactly the rows for which its predicate is true.     *)
UpdateExact ==
    last # NONE /\ last.kind = "update" =>
        Rows(table) = {IF Matches(r) THEN Assign(r, last.update) ELSE r : r \in before}

(* The change feed of the commit turns the table before it into the table  *)
(* after it: its change rows where it has some, else the rows of the files *)
(* it removed.                                                             *)
FeedReplays ==
    last # NONE /\ last.committed /\ cdf =>
        LET of(types) == {c.row : c \in {d \in last.changes : d.type \in types}}
            gone == IF last.changes = {} /\ last.kind = "delete" THEN last.lost
                    ELSE of({"delete", "update_preimage"})
            new == of({"update_postimage"})
        IN  /\ gone \subseteq before
            /\ new \cap before = {}
            /\ Rows(table) = (before \ gone) \cup new

(* The number of deleted rows a DELETE reports, when it reports one, is    *)
(* the number of rows that went, deletion vectors taken into account.      *)
MetricsExact ==
    last # NONE /\ last.kind = "delete" /\ last.metrics.deleted # NONE =>
        last.metrics.deleted = Cardinality(before) - Cardinality(Rows(table))

=============================================================================
