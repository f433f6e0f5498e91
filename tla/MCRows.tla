------------------------------- MODULE MCRows -------------------------------
(***************************************************************************)
(* Small instances of the modules about the rows that reach a caller or a  *)
(* file: MERGE and its early filter, DELETE and UPDATE, writes, the change *)
(* data feed, scans with skipping and pushdown, column mapping, the texts  *)
(* of predicates and partition values, OPTIMIZE, and the operations that   *)
(* delete data files or bring them back. about says which of them a        *)
(* behaviour shows; the variables of the others stay NONE.                 *)
(***************************************************************************)
EXTENDS Integers, Sequences, FiniteSets, SequencesExt, TLC

CONSTANTS
    t1, t2, t3,          \* target rows
    f1, f2, f3, d1,      \* data files, a deletion vector
    o1, o2, o3, o4,      \* operations on data files, each of its own kind
    s1, s2,              \* source rows
    p1,                  \* a partition value
    NULL, ERROR, NONE

VARIABLES
    about,
    predicate, source, streaming, filter, stmt, on, holds, input, stream, buffer, open,
    match, out, survivors, result, commits, files, query, phase, table, before, last, ops,
    ty, origin, stats, disk, log, clock, op,  \* shared
    live, feed,  \* ChangeFeed
    deleted, counted, enabled, masks, parts, ordinals, answer, runs,  \* DeltaScan
    cdf, append,  \* RowRewrite
    mixed, added,  \* WritePlan
    layout, file, raw, parsed, pred, keep,  \* DataSkipping
    mapped, index, read, eval, pushed, above, partstats,  \* ScanPushdown
    mode, schema, partition, cols, listed, changes,  \* ColumnMapping
    rows, check, delete,  \* PredicateText
    manifests, current,  \* PartitionValues
    kind, interval, start, plan, tasks, actions, buffered, total, failures  \* OptimizePlan

feed_vars == <<live, feed>>
scan_vars == <<deleted, counted, enabled, masks, parts, ordinals, answer, runs>>
rewrite_vars == <<cdf, append>>
write_vars == <<mixed, added>>
skip_vars == <<layout, file, raw, parsed, pred, keep>>
pushdown_vars == <<mapped, index, read, eval, pushed, above, partstats>>
mapping_vars == <<mode, schema, partition, cols, listed, changes>>
text_vars == <<rows, check, delete>>
partition_vars == <<manifests, current>>
optimize_vars == <<kind, interval, start, plan, tasks, actions, buffered, total, failures>>

vars == <<about, predicate, source, streaming, filter, stmt, on, holds, input, stream,
          buffer, open, match, out, survivors, result, commits, files, query, phase, table,
          before, last, ops, ty, origin, stats, disk, log, clock, op, feed_vars, scan_vars,
          rewrite_vars, write_vars, skip_vars, pushdown_vars, mapping_vars, text_vars,
          partition_vars, optimize_vars>>

-----------------------------------------------------------------------------
(* MERGE of two source rows into three target rows of two files.           *)

Clause(o, conditional) == [op |-> o, conditional |-> conditional]
Statement(m, n, o) == [matched |-> m, not_matched |-> n, not_matched_by_source |-> o, target_filter |-> NONE]

Merges == INSTANCE Merge WITH
    Target <- {t1, t2, t3}, FileOf <- t1 :> f1 @@ t2 :> f1 @@ t3 :> f2,
    Source <- {s1, s2}, Conditional <- {s1, t1},
    Statements <-
      {Statement(<<Clause("update", FALSE)>>, <<Clause("insert", FALSE)>>, << >>),
       Statement(<<Clause("delete", TRUE), Clause("update", FALSE)>>, <<Clause("insert", TRUE)>>, << >>),
       Statement(<<Clause("delete", FALSE)>>, << >>, <<Clause("update", TRUE), Clause("delete", FALSE)>>),
       Statement(<<Clause("update", TRUE), Clause("delete", FALSE)>>, << >>, << >>),
       Statement(<< >>, <<Clause("insert", FALSE)>>, <<Clause("delete", TRUE)>>)},
    Predicates <- {<<"eq", <<"target", "p">>, <<"source", "y">>>>}, SourceRows <- {{}}, Values <- {}, Streaming <- {FALSE}

-----------------------------------------------------------------------------
(* Merge predicates over a partition column p and a column x of the target *)
(* and two columns of the source, up to three terms deep.                  *)

P == <<"target", "p">>
X == <<"target", "x">>
Y == <<"source", "y">>
Z == <<"source", "z">>
One == <<"lit", 1>>
Lists == ({"in", "not in"} \X {X} \X {<<Y, One>>, <<<<"fn", Y>>, One>>})
Comparisons ==
    ({"eq", "lt"} \X {P, X, Y} \X {P, X, Y, One, <<"fn", Y>>, <<"fn", X>>})
    \cup ({"eq"} \X {<<"fn", X>>} \X {Y, One})
    \cup Lists \cup {<<"in", X, <<One, <<"lit", 2>>>>>>, <<"in", X, <<P, One>>>>, <<"in", Y, <<One, X>>>>}
Few == {<<"eq", P, Y>>, <<"eq", X, Z>>, <<"lt", Y, P>>, <<"lt", X, Y>>, <<"eq", <<"fn", X>>, Y>>}

EarlyFilter == INSTANCE Merge WITH
    Predicates <- Comparisons \cup ({"and", "or"} \X Few \X (Few \cup Lists))
                  \cup ({"and", "or"} \X ({"and", "or"} \X Few \X Few) \X Few),
    SourceRows <- {r \in SUBSET [y : {0, 2}, z : {2, NULL}] : Cardinality(r) <= 2},
    Values <- {0, 1, 2, NULL}, Streaming <- BOOLEAN,
    Target <- {}, FileOf <- << >>, Source <- {}, Conditional <- {}, 
    Statements <- {Statement(<< >>, << >>, << >>), Statement(<< >>, << >>, <<Clause("delete", FALSE)>>),
                   [Statement(<< >>, << >>, << >>) EXCEPT !.target_filter = <<"eq", P, One>>]}

-----------------------------------------------------------------------------
(* Change data feeds of up to three versions.                              *)

Feeds == INSTANCE ChangeFeed WITH
    MaxVersion <- 3, Times <- {1, 2}, Partitions <- {p1}, VectorDrops <- FALSE

-----------------------------------------------------------------------------
(* Scans of a file of three rows and one of two, in different partitions;  *)
(* row 3 of the file selections names a file that is not there.            *)

Refs(refs, convertible) == [refs |-> refs, convertible |-> convertible]
AllRows == [kind |-> "rows", columns |-> {"x"}, filter |-> NONE, limit |-> NONE,
            index |-> FALSE, selection |-> NONE, ignore_missing |-> FALSE]

Scans == INSTANCE DeltaScan WITH
    Rows <- <<3, 2>>, Partition <- <<1, 2>>, BatchRows <- 2, GroupFiles <- 1,
    MaxExecutions <- 1, Splits <- FALSE, Disables <- FALSE,
    Queries <-
      {AllRows,
       [AllRows EXCEPT !.filter = Refs({"x"}, TRUE)],
       [AllRows EXCEPT !.filter = Refs({"p", "x"}, TRUE)],
       [AllRows EXCEPT !.filter = Refs({"p"}, TRUE)],
       [AllRows EXCEPT !.filter = Refs({"p", "x"}, FALSE)],
       [AllRows EXCEPT !.filter = Refs({"file"}, FALSE), !.selection = {1, 3}, !.ignore_missing = TRUE],
       [AllRows EXCEPT !.selection = {1, 3}],
       [AllRows EXCEPT !.limit = 2],
       [AllRows EXCEPT !.index = TRUE],
       [AllRows EXCEPT !.columns = {"p"}, !.filter = Refs({"p"}, TRUE)],
       [AllRows EXCEPT !.columns = {}],
       [AllRows EXCEPT !.kind = "vectors", !.selection = {1}]}

-----------------------------------------------------------------------------
(* One DELETE or UPDATE of three rows in two files, with and without a     *)
(* deletion vector and a row count, by predicates with three-valued logic. *)

RowFile(rs, d, n) == [rows |-> rs, dv |-> d, records |-> n]
XRow(i, v, p) == [id |-> i, x |-> v, part |-> p]
Xs == {NULL, 1, 2}
Parts == {NULL, "a", "b"}

Rewrites == INSTANCE RowRewrite WITH
    Tables <-
      {<<RowFile({XRow(1, v1, q1), XRow(2, v2, q1)}, d, IF n THEN 2 ELSE NONE), RowFile({XRow(3, v3, q2)}, {}, 1)>> :
          v1 \in Xs, v2 \in Xs, v3 \in Xs, q1 \in Parts, q2 \in Parts, d \in {{}, {1}}, n \in BOOLEAN},
    Predicates <- {NONE, {"x=1"}, {"x<>1"}, {"x is null"}, {"part=a"}, {"part<>a"}, {"part=a", "x=1"}, {"part<>a", "x<>1"}},
    Convertible <- {"part=a", "x=1"},
    Updates <- {[column |-> "x", value |-> 2], [column |-> "x", value |-> NULL], [column |-> "part", value |-> "b"]},
    MaxOps <- 1

-----------------------------------------------------------------------------
(* Two writes or schema changes in a row: tables with a NOT NULL column, a *)
(* generated column, partitions or append-only; sources with other         *)
(* columns, types and nulls; every mode.                                   *)

IntCol(n) == [type |-> "int", nullable |-> n]
Plain == [c \in {"id", "x"} |-> IntCol(c # "id")]
Generated == [c \in {"id", "x", "g"} |-> IntCol(c # "id")]
R2(i, v) == [c \in {"id", "x"} |-> IF c = "id" THEN i ELSE v]
R3(i, v, w) == [c \in {"id", "x", "g"} |-> IF c = "id" THEN i ELSE IF c = "x" THEN v ELSE w]
IdFile(i, rs) == [id |-> i, rows |-> rs]
Table(s, g, p, c, fs) ==
    [schema |-> s, gen |-> g, parts |-> p, constraints |-> {}, cdf |-> c, append |-> FALSE, files |-> fs]
Src(s, rs) == [schema |-> s, rows |-> rs]

Writing == INSTANCE WritePlan WITH
    Word <- 9,
    Tables <-
      {NONE,
       Table(Plain, FALSE, {}, TRUE, {IdFile(7, {R2(1, 1), R2(2, NULL), R2(3, 2)})}),
       Table(Plain, FALSE, {"id"}, TRUE, {IdFile(7, {R2(1, 1), R2(1, NULL)}), IdFile(8, {R2(2, 1)})}),
       Table(Generated, TRUE, {}, FALSE, {IdFile(7, {R3(1, 1, 2)}), IdFile(8, {R3(2, NULL, NULL)})}),
       [Table(Plain, FALSE, {}, FALSE, {IdFile(7, {R2(1, 1)})}) EXCEPT !.append = TRUE]},
    Sources <-
      {Src(Plain, {R2(1, 1)}), Src(Plain, {R2(1, 2), R2(2, 1)}),
       Src([Plain EXCEPT !["id"].nullable = TRUE], {R2(NULL, 1)}),
       Src([Plain EXCEPT !["x"] = [type |-> "str", nullable |-> TRUE]], {R2(1, 9)}),
       Src([c \in {"id"} |-> IntCol(FALSE)], {[c \in {"id"} |-> 1]}),
       Src([c \in {"x"} |-> IntCol(TRUE)], {[c \in {"x"} |-> 1]}),
       Src([c \in {"id", "x", "y"} |-> IntCol(c = "x")], {[c \in {"id", "x", "y"} |-> 1]}),
       Src(Generated, {R3(1, 1, 2)}), Src(Generated, {R3(1, 1, 1)})},
    Writes <-
      {w \in [mode : {"append", "overwrite", "error_if_exists", "ignore"},
              schema_mode : {NONE, "merge", "overwrite"}, predicate : {NONE, "id=1", "x=1"},
              parts : {NONE, {}, {"id"}}, safe : BOOLEAN] :
        /\ w.safe => w.predicate = NONE /\ w.mode = "append"
        /\ w.predicate # NONE => w.mode = "overwrite" /\ w.parts = NONE
        /\ w.parts # NONE => w.mode \in {"overwrite", "append"} /\ ~w.safe /\ w.schema_mode # "merge"
        /\ w.mode \in {"error_if_exists", "ignore"} => w.schema_mode = NONE},
    Columns <- {[name |-> "y", nullable |-> TRUE], [name |-> "y", nullable |-> FALSE]},
    MaxOps <- 2

-----------------------------------------------------------------------------
(* Files of one or two row groups written with truncated timestamps,       *)
(* indexed or not, and every comparison with a literal.                    *)

Skipping == INSTANCE DataSkipping WITH
    Values <- -1..1, Ratio <- 2, Types <- {"int", "timestamp", "nanos", "binary"},
    Files <- {[groups |-> << <<v>> >>, part |-> p] : v \in {0, NULL}, p \in {-1, 1, NULL}}
             \cup {[groups |-> << <<v, w>>, <<x>> >>, part |-> NULL] : v \in {0, NULL}, w \in {-1, 1}, x \in {0, 1, NULL}},
    Layouts <- {[fields |-> <<"partition">>, limit |-> 1], [fields |-> <<"x", "x">>, limit |-> 2],
                [fields |-> <<"x">>, limit |-> -1]}

-----------------------------------------------------------------------------
(* Scans of nested columns that were narrowed to the fields in use, over   *)
(* files that lack some of them, with filters pushed at planning and at    *)
(* run time. Predicates that are pushed into the files read only fields    *)
(* that the projection keeps, and no file has a deletion vector.           *)

Id == <<"id">>
A == <<"s", "a">>
C == <<"s", "t", "c">>
D == <<"s", "t", "d">>
NestedRow(i, v, w, x) == (Id :> i) @@ (A :> v) @@ (C :> w) @@ (D :> x)
NestedFile(p, rs, has) == [p |-> p, rows |-> rs, deleted |-> {}, has |-> has]
Complete == NestedFile(1, <<NestedRow(1, 1, 1, 1), NestedRow(2, 2, 2, 2), NestedRow(3, 1, 2, 1)>>, {Id, A, C, D})
LacksC == NestedFile(2, <<NestedRow(1, 2, 1, 1), NestedRow(2, 1, 1, 2)>>, {Id, A, D})
LacksId == NestedFile(NULL, <<NestedRow(3, 1, 1, 1)>>, {A, C, D})
G(field, ok) == [on |-> field, ok |-> ok]
Fits(p, fs) == \A f \in fs : \E r \in p : IsPrefix(r, f.on)

Pushdown == INSTANCE ScanPushdown WITH
    Schema <- {Id, A, C, D},
    FileLists <- {<<Complete, LacksC>>, <<LacksC, LacksId>>, <<LacksId, Complete, LacksId>>},
    Queries <-
      {q \in [projection : {{Id, A}, {<<"s">>, A}, {<<"s", "t">>, C}, {C, <<"p">>}, {<<"s", "x">>, <<"file">>},
                            {Id, <<"p">>, <<"file">>}},
              filters : {{}, {G(Id, {1, 2})}, {G(A, {1})}, {G(<<"p">>, {1})}, {G(Id, {1, 3}), G(<<"file">>, {1})}},
              dynamic : {{}, {G(C, {1})}, {G(<<"p">>, {1, 2})}, {G(Id, {2, 3})}}] :
          Fits(q.projection, q.dynamic) /\ Fits(q.projection, {f \in q.filters : Len(f.on) > 1})}

-----------------------------------------------------------------------------
(* Nested schemas whose columns are mapped, renamed, dropped and added     *)
(* again between the writes of files, with the statistics of the first     *)
(* two, or of listed, columns.                                             *)

Col(name, col, k, sub) == [name |-> name, phys |-> name, id |-> NONE, col |-> col, kind |-> k, sub |-> sub]
Leaf(name, col) == Col(name, col, "leaf", << >>)

Mapping == INSTANCE ColumnMapping WITH
    Schemas <-
      {[fields |-> <<Leaf("a", 1), Col("s", 2, "struct", <<Leaf("a", 3), Leaf("c", 4)>>), Leaf("b", 5), Leaf("p", 6)>>,
        partition |-> 6, cols |-> 6],
       [fields |-> <<Col("l", 1, "list", <<Col("element", 2, "struct", <<Leaf("a", 3)>>)>>), Leaf("a", 4), Leaf("p", 5)>>,
        partition |-> 5, cols |-> 5]},
    Uuids <- <<"u1", "u2", "u3", "u4", "u5", "u6", "u7", "u8", "u9">>,
    NewNames <- {"a", "d"}, StaleIds <- {NONE, 3},
    Listings <- {NONE, {<<"a">>}, {<<"b">>, <<"s", "a">>}},
    IndexedCols <- 2, MaxChanges <- 3, MaxFiles <- 1

-----------------------------------------------------------------------------
(* CHECK constraints and DELETE predicates over two integer columns, as    *)
(* they go through their text forms.                                       *)

Value(c) == <<"col", c>>
Lit(v) == <<"lit", "int", 2 * v>>
Bin(f, l, r) == <<"bin", f, l, r>>
XSmall == Bin("<=", Value("x"), Lit(1))
PBig == Bin(">", Value("p"), Lit(0))
Null == <<"lit", "int", NULL>>
Sum == Bin("+", Value("x"), Value("p"))

Texts == INSTANCE PredicateText WITH
    Scale <- 2, Types <- [c \in {"p", "x"} |-> "int"], Partitions <- {"p"},
    Rows <- {[p |-> NULL, x |-> 0], [p |-> 2, x |-> NULL], [p |-> 0, x |-> 2], [p |-> 2, x |-> 4],
             [p |-> 0, x |-> 0], [p |-> 4, x |-> 2], [p |-> NULL, x |-> NULL]},
    Checks <- {Bin("AND", Bin("OR", <<"null", Value("x"), FALSE>>, XSmall), <<"not", <<"null", Value("p"), FALSE>>>>),
               <<"not", Bin("AND", PBig, Bin(">", Value("x"), Lit(0)))>>},
    Conditions <-
      {Bin("OR", XSmall, PBig), <<"not", Bin("AND", XSmall, PBig)>>,
       Bin("AND", Bin("OR", XSmall, PBig), <<"null", Value("x"), TRUE>>),
       Bin("<>", Value("p"), Lit(1)), <<"in", Value("p"), <<Lit(0), Lit(1)>>, TRUE>>,
       <<"in", Value("x"), <<Lit(0), Null>>, FALSE>>,
       <<"in", Sum, <<Lit(0), Lit(1)>>, TRUE>>, <<"in", Sum, <<Lit(1), Null>>, TRUE>>,
       <<"between", Value("x"), Lit(1), Lit(2), FALSE>>, <<"between", Value("x"), Lit(1), Lit(1), TRUE>>,
       Bin("<", Bin("-", Bin("+", Value("x"), Lit(1)), Value("p")), Lit(2)), <<"null", Value("p"), FALSE>>},
    MaxRows <- 2

-----------------------------------------------------------------------------
(* Partition values of three types, written, converted from directory      *)
(* names, filtered and listed in manifests.                                *)

Filter(f, ts) == <<f, ts, f \in {"in", "not in"}>>

Partitioning == INSTANCE PartitionValues WITH
    Domains <- [string |-> {NULL, <<"a">>, <<"a", "/", "b">>, << >>, <<"null partition">>},
                integer |-> {NULL, -1, 0, 1}, decimal |-> {NULL, -10, 0, 5, 12}],
    Scale <- 10, Contents <- {<<NULL>>, <<1, NULL, 2>>},
    Filters <-
      [string |-> {<< <<Filter("=", {<< >>})>> >>, << <<Filter("!=", {<<"a">>})>>, <<Filter("=", {<<"a">>})>> >>, << >>,
                   << <<Filter("in", {<<"a">>, << >>}), Filter("!=", {<< >>})>> >>},
       integer |-> {<< <<Filter("<", {<<"1">>}), Filter("!=", {<<"-1">>})>> >>,
                    << <<Filter(">=", {<<"0">>})>>, <<Filter("=", {<< >>})>> >>, << <<Filter("not in", {<<"0">>})>> >>,
                    << <<Filter("<=", {<<"0">>}), Filter(">", {<<"-1">>})>> >>, << <<<<"in", {<<"0">>}, FALSE>>>> >>,
                    << <<Filter("like", {<<"0">>})>> >>},
       decimal |-> {<< <<Filter("<", {<<"1", ".", "2">>})>>, << >> >>, << <<Filter(">=", {<<"0", ".", "5">>})>> >>}],
    MaxFiles <- 2

-----------------------------------------------------------------------------
(* OPTIMIZE of up to four files of two partitions, two bins at a time,     *)
(* with one failure.                                                       *)

Sized(i, p, n, d) == [id |-> <<0, i>>, part |-> p, size |-> n, rows |-> {<<i, k>> : k \in 1..2}, dv |-> d]

Optimizing == INSTANCE OptimizePlan WITH
    Layouts <- {<< >>, <<Sized(1, "a", 2, {})>>} \cup
      {<<Sized(1, "a", n1, {}), Sized(2, p, n2, d), Sized(3, "a", n3, {}), Sized(4, "a", 1, {<<4, 1>>, <<4, 2>>})>> :
          n1 \in {1, 2}, n2 \in {1, 3, 4}, n3 \in {1, 2}, p \in {"a", "b"}, d \in {{}, {<<2, 1>>}}},
    TargetSize <- 3, MaxConcurrent <- 2, MaxFailures <- 1

-----------------------------------------------------------------------------
(* VACUUM beside an append and two rewrites; VACUUM in lite mode without   *)
(* any retention beside deletion vectors; RESTORE beside VACUUM; FSCK.     *)

Vacuums == INSTANCE Vacuum WITH
    Ops <- {o1, o2, o3, o4}, Paths <- {f1, f2, f3}, Vectors <- {}, First <- f1,
    KindOf <- o1 :> "append" @@ o2 :> "rewrite" @@ o3 :> "rewrite" @@ o4 :> "vacuum",
    Full <- TRUE, Above <- {f3}, Retention <- 2, MinRetention <- 2, MaxDuration <- 1, Keep <- {}, MaxTime <- 4

VacuumsLite == INSTANCE Vacuum WITH
    Ops <- {o1, o2, o3, o4}, Paths <- {f1, f2, f3}, Vectors <- {d1}, First <- f1,
    KindOf <- o1 :> "mask" @@ o2 :> "rewrite" @@ o3 :> "append" @@ o4 :> "vacuum",
    Full <- FALSE, Above <- {f3}, Retention <- 0, MinRetention <- 2, MaxDuration <- 2, Keep <- {1}, MaxTime <- 2

Restored == INSTANCE Vacuum WITH
    Ops <- {o1, o2, o3, o4}, Paths <- {f1, f2, f3}, Vectors <- {}, First <- f1,
    KindOf <- o1 :> "rewrite" @@ o2 :> "rewrite" @@ o3 :> "restore" @@ o4 :> "vacuum",
    Full <- FALSE, Above <- {f3}, Retention <- 1, MinRetention <- 1, MaxDuration <- 1, Keep <- {}, MaxTime <- 2

Checked == INSTANCE Vacuum WITH
    Ops <- {o1, o2, o3}, Paths <- {f1, f2, f3}, Vectors <- {}, First <- f1,
    KindOf <- o1 :> "append" @@ o2 :> "rewrite" @@ o3 :> "fsck",
    Full <- FALSE, Above <- {f3}, Retention <- 2, MinRetention <- 2, MaxDuration <- 1, Keep <- {}, MaxTime <- 2

-----------------------------------------------------------------------------
No_feed == live = NONE /\ feed = NONE
No_scan == deleted = NONE /\ counted = NONE /\ enabled = NONE /\ masks = NONE /\
    parts = NONE /\ ordinals = NONE /\ answer = NONE /\ runs = NONE
No_rewrite == cdf = NONE /\ append = NONE
No_write == mixed = NONE /\ added = NONE
No_skip == layout = NONE /\ file = NONE /\ raw = NONE /\ parsed = NONE /\ pred = NONE /\
    keep = NONE
No_pushdown == mapped = NONE /\ index = NONE /\ read = NONE /\ eval = NONE /\
    pushed = NONE /\ above = NONE /\ partstats = NONE
No_mapping == mode = NONE /\ schema = NONE /\ partition = NONE /\ cols = NONE /\
    listed = NONE /\ changes = NONE
No_text == rows = NONE /\ check = NONE /\ delete = NONE
No_partition == manifests = NONE /\ current = NONE
No_optimize == kind = NONE /\ interval = NONE /\ start = NONE /\ plan = NONE /\
    tasks = NONE /\ actions = NONE /\ buffered = NONE /\ total = NONE /\ failures = NONE

Subjects == {"merge", "filter", "feed", "scan", "rewrite", "write", "skip", "pushdown",
    "mapping", "text", "partition", "optimize", "full", "lite", "restored", "checked"}

Init ==
    /\ about \in Subjects
    /\ about = "merge" => Merges!Init
    /\ about = "filter" => EarlyFilter!Init
    /\ IF about = "feed" THEN Feeds!Init ELSE No_feed
    /\ IF about = "scan" THEN Scans!Init ELSE No_scan
    /\ IF about = "rewrite" THEN Rewrites!Init ELSE No_rewrite
    /\ IF about = "write" THEN Writing!Init ELSE No_write
    /\ IF about = "skip" THEN Skipping!Init ELSE No_skip
    /\ IF about = "pushdown" THEN Pushdown!Init ELSE No_pushdown
    /\ IF about = "mapping" THEN Mapping!Init ELSE No_mapping
    /\ IF about = "text" THEN Texts!Init ELSE No_text
    /\ IF about = "partition" THEN Partitioning!Init ELSE No_partition
    /\ IF about = "optimize" THEN Optimizing!Init ELSE No_optimize
    /\ about = "full" => Vacuums!Init
    /\ about = "lite" => VacuumsLite!Init
    /\ about = "restored" => Restored!Init
    /\ about = "checked" => Checked!Init
    /\ about \notin {"merge", "filter"} => predicate = NONE /\ source = NONE /\ streaming = NONE /\ filter = NONE /\ stmt = NONE /\ on = NONE /\ holds = NONE /\ input = NONE /\ stream = NONE /\ buffer = NONE /\ open = NONE /\ match = NONE /\ survivors = NONE
    /\ about \notin {"merge", "filter", "scan", "pushdown"} => out = NONE
    /\ about \notin {"merge", "filter", "optimize"} => result = NONE
    /\ about \notin {"feed", "optimize"} => commits = NONE
    /\ about \notin {"feed", "scan", "pushdown", "mapping", "partition", "optimize"} => files = NONE
    /\ about \notin {"scan", "pushdown", "partition"} => query = NONE
    /\ about \notin {"scan", "skip"} => phase = NONE
    /\ about \notin {"rewrite", "write"} => table = NONE /\ before = NONE /\ ops = NONE
    /\ about \notin {"rewrite", "write", "text"} => last = NONE
    /\ about \notin {"skip", "partition"} => ty = NONE /\ origin = NONE
    /\ about \notin {"skip", "optimize"} => stats = NONE
    /\ about \notin {"full", "lite", "restored", "checked"} => disk = NONE /\ log = NONE /\ clock = NONE /\ op = NONE

Next ==
    /\ UNCHANGED about
    /\ about = "merge" => Merges!Next
    /\ about = "filter" => EarlyFilter!Next
    /\ IF about = "feed" THEN Feeds!Next ELSE UNCHANGED feed_vars
    /\ IF about = "scan" THEN Scans!Next ELSE UNCHANGED scan_vars
    /\ IF about = "rewrite" THEN Rewrites!Next ELSE UNCHANGED rewrite_vars
    /\ IF about = "write" THEN Writing!Next ELSE UNCHANGED write_vars
    /\ IF about = "skip" THEN Skipping!Next ELSE UNCHANGED skip_vars
    /\ IF about = "pushdown" THEN Pushdown!Next ELSE UNCHANGED pushdown_vars
    /\ IF about = "mapping" THEN Mapping!Next ELSE UNCHANGED mapping_vars
    /\ IF about = "text" THEN Texts!Next ELSE UNCHANGED text_vars
    /\ IF about = "partition" THEN Partitioning!Next ELSE UNCHANGED partition_vars
    /\ IF about = "optimize" THEN Optimizing!Next ELSE UNCHANGED optimize_vars
    /\ about = "full" => Vacuums!Next
    /\ about = "lite" => VacuumsLite!Next
    /\ about = "restored" => Restored!Next
    /\ about = "checked" => Checked!Next
    /\ about \notin {"merge", "filter"} => UNCHANGED <<predicate, source, streaming, filter, stmt, on, holds, input, stream, buffer, open, match, survivors>>
    /\ about \notin {"merge", "filter", "scan", "pushdown"} => UNCHANGED out
    /\ about \notin {"merge", "filter", "optimize"} => UNCHANGED result
    /\ about \notin {"feed", "optimize"} => UNCHANGED commits
    /\ about \notin {"feed", "scan", "pushdown", "mapping", "partition", "optimize"} => UNCHANGED files
    /\ about \notin {"scan", "pushdown", "partition"} => UNCHANGED query
    /\ about \notin {"scan", "skip"} => UNCHANGED phase
    /\ about \notin {"rewrite", "write"} => UNCHANGED <<table, before, ops>>
    /\ about \notin {"rewrite", "write", "text"} => UNCHANGED last
    /\ about \notin {"skip", "partition"} => UNCHANGED <<ty, origin>>
    /\ about \notin {"skip", "optimize"} => UNCHANGED stats
    /\ about \notin {"full", "lite", "restored", "checked"} => UNCHANGED <<disk, log, clock, op>>

Spec == Init /\ [][Next]_vars

-----------------------------------------------------------------------------
\* Merge: a MERGE that succeeds has exactly the effect of its first applicable
\* clause on every row, rewrites exactly the files with a changed row and
\* fails exactly when two source rows change one target row; and unless an IN
\* list of its predicate loses an item, no row that matches is filtered out
\* early.
MergeExact ==
    /\ about = "merge" => /\ Merges!MergeIsExact
                          /\ Merges!FailsIffUnclear
                          /\ Merges!OnlyChangedFilesRewritten
                          /\ Merges!ReportsExact
    /\ about = "filter" => /\ EarlyFilter!FilterKeepsMatches
                           /\ EarlyFilter!FilterPrunesPartitions

\* ChangeFeed: the changes of every version in the range asked for are the
\* difference of its two tables.
FeedIsDifference ==
    about = "feed" => /\ Feeds!FeedIsDifference
                      /\ Feeds!TimeRangeExact

\* DeltaScan: a scan returns exactly the live rows that satisfy the filter,
\* numbered without gaps, a count from the log is their number, and the
\* deletion vectors handed out are complete.
ScanExact ==
    about = "scan" => /\ Scans!ScanExact
                      /\ Scans!CountExact
                      /\ Scans!RowIndexContiguous
                      /\ Scans!VectorsComplete

\* RowRewrite: a DELETE or an UPDATE touches exactly the rows for which its
\* predicate is true, not those for which it is unknown, and the changes and
\* counts it records are those it made.
RewriteExact ==
    about = "rewrite" => /\ Rewrites!DeleteExact
                         /\ Rewrites!UpdateExact
                         /\ Rewrites!FeedReplays
                         /\ Rewrites!MetricsExact

\* WritePlan: a write leaves the rows its mode and predicate say, under the
\* schema its schema mode allows, the changes it records replay it, and every
\* row of the table stays valid whatever sequence of writes and alterations
\* led to it.
WriteExact ==
    about = "write" => /\ Writing!TableValid
                       /\ Writing!WriteExact
                       /\ Writing!SchemaKept
                       /\ Writing!FeedReplays

\* DataSkipping, ScanPushdown: no file with a row that satisfies the predicate
\* is skipped by logged or handed-out statistics, which are exact where they
\* say so, and a scan with pushed filters returns exactly the rows that
\* satisfy all of them.
SkippingExact ==
    /\ about = "skip" => /\ Skipping!NoMatchPruned
                         /\ Skipping!NoMatchSkipped
                         /\ Skipping!CountsExact
    /\ about = "pushdown" => /\ Pushdown!ResultExact
                             /\ Pushdown!PartitionStatsExact

\* ColumnMapping: a column reads back the values and finds the statistics
\* written for it, and no other column's, whatever was renamed, dropped or
\* added under its old name since.
ReadsOwnValues ==
    about = "mapping" => /\ Mapping!ReadsOwnValues
                         /\ Mapping!IdsNameTheirColumn
                         /\ Mapping!StatsOfTheirColumn

\* PredicateText: a constraint or a DELETE predicate means after its trips
\* through text and through the form of the kernel what it meant when it was
\* stated (with integer literals and left-nested differences).
PredicatesKeepMeaning ==
    about = "text" => /\ Texts!ConstraintHolds
                      /\ Texts!DeleteSerial
                      /\ Texts!KernelFormAgrees

\* PartitionValues: a partition value reads back as it was written or
\* converted (but for the ones README names), the expression of a file holds
\* for its rows, manifests list every file under its partition, and a filter
\* selects exactly the files whose value satisfies it.
PartitionsFaithful ==
    [][about = "partition" => /\ (Partitioning!ReadBack)'
                              /\ (Partitioning!FragmentHolds)'
                              /\ (Partitioning!ManifestsComplete)'
                              /\ Partitioning!SelectsExactly]_vars

\* OptimizePlan: after every commit of an OPTIMIZE each row that was live is
\* in exactly one file, bins join neighbours of one partition up to the target
\* size, and the metrics add up.
OptimizeExact ==
    about = "optimize" => /\ Optimizing!EveryRowOnce
                          /\ Optimizing!MetricsAddUp
                          /\ Optimizing!BinsAreNeighbours

\* Vacuum: unless a full vacuum plans from a snapshot that is too old, no file
\* of the latest version is deleted whatever is committed between plan and
\* deletion, nor one of a version committed within the retention, less the
\* time between a remove action and its commit; nor, in any case, one of a
\* version that is to be kept.
VacuumSparesNeeded ==
    /\ about = "full" => /\ Vacuums!ActiveFilesExist
                         /\ Vacuums!RetainedVersionsReadable
    /\ about = "lite" => /\ VacuumsLite!ActiveFilesExist
                         /\ VacuumsLite!KeptVersionsReadable

\* Vacuum: RESTORE leaves exactly the files of the version it restores
\* although writers and a vacuum run beside it, and FSCK leaves no file active
\* that it found missing.
RepairsAreExact ==
    [][/\ about = "restored" => Restored!RestoresExactly
       /\ about = "checked" => Checked!RemovesMissing]_vars
=============================================================================
