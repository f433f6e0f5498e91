----------------------------- MODULE MCFindings -----------------------------
(***************************************************************************)
(* Instances in which the code does not do what its documentation, a       *)
(* comment or a test says: one subject for each run that shows such a      *)
(* disagreement.                                                           *)
(***************************************************************************)
EXTENDS Integers, Sequences, TLC

CONSTANTS
    Subject,             \* which of them a run is about
    o1, o2, o3, o4,      \* operations on data files
    f1, f2, f3, d1,      \* data files, a deletion vector
    p1,                  \* a table provider
    NULL, NONE

VARIABLES
    about,
    log, last,  \* shared
    disk, clock, op,  \* Vacuum
    handle, provider, seen,  \* TableProvider
    rows, check, delete,  \* PredicateText
    contents, struct, snap, answer  \* FileViews

vectors_vars == <<disk, clock, op>>
insert_vars == <<handle, provider, seen>>
text_vars == <<rows, check, delete>>
paths_vars == <<contents, struct, snap, answer>>

vars == <<about, log, last, vectors_vars, insert_vars, text_vars, paths_vars>>

-----------------------------------------------------------------------------
(* VACUUM beside an engine that writes deletion vectors.                   *)

Vacuums == INSTANCE Vacuum WITH
    Ops <- {o1, o2, o3, o4}, Paths <- {f1, f2, f3}, Vectors <- {d1}, First <- f1,
    KindOf <- o1 :> "mask" @@ o2 :> "rewrite" @@ o3 :> "append" @@ o4 :> "vacuum",
    Full <- TRUE, Above <- {f3}, Retention <- 2, MinRetention <- 2, MaxDuration <- 1, Keep <- {}, MaxTime <- 4

-----------------------------------------------------------------------------
(* A table that gets a CHECK constraint, and a provider that INSERTs rows  *)
(* which do and do not satisfy it.                                         *)

Inserting == INSTANCE TableProvider WITH
    Tables <- {"t"}, Shared <- {"t"}, Root <- [t |-> <<"/", "t">>], Names <- <<"f1", "f2", "f3", "f4">>,
    Providers <- {p1},
    Requests <- {[snapshot |-> "t", store |-> "t", version |-> NONE, user |-> NONE, selection |-> NONE,
                  column |-> NONE, resolve |-> FALSE]},
    Inserts <- {{"ok"}, {"bad"}}, Changes <- {"check"}, MaxVersion <- [t |-> 4]

-----------------------------------------------------------------------------
(* CHECK constraints whose text does not say what the constraint says: a   *)
(* comparison of a decimal column with a decimal literal, and a difference *)
(* whose right side is a difference.                                       *)

Value(c) == <<"col", c>>
Lit(v) == <<"lit", "int", v * 2>>
Bin(f, l, r) == <<"bin", f, l, r>>

Texts == INSTANCE PredicateText WITH
    Scale <- 2, Types <- [c \in {"p", "x"} |-> IF c = "p" THEN "int" ELSE "dec"], Partitions <- {"p"},
    Rows <- {[p |-> 0, x |-> 0], [p |-> 0, x |-> 2], [p |-> 2, x |-> 4]},
    Checks <- {Bin("<", Value("x"), Lit(1)),
               Bin("<", Bin("-", Value("p"), Bin("-", Value("p"), Lit(1))), Lit(1))},
    Conditions <- {}, MaxRows <- 2

-----------------------------------------------------------------------------
(* Files that another engine logged under paths it encodes otherwise than  *)
(* serde_path does: a space as it is, a colon escaped.                     *)

Path(f, c, l) == [file |-> f, char |-> c, level |-> l]

Views == INSTANCE FileViews WITH
    Written <- {Path("a", "colon", 1)},
    Foreign <- {<<Path("c", "space", 0), Path("c", "space", 0)>>, <<Path("d", "colon", 0), Path("d", "colon", 1)>>},
    StatsOf <- [f \in {"a", "c", "d"} |-> [numRecords |-> 3, x |-> 1]],
    ValuesOf <- [f \in {"a", "c", "d"} |-> "v"],
    StatFields <- <<"numRecords", "x">>, Predicates <- {"x"}, Vectors <- {}, Target <- 2, MaxVersion <- 3

-----------------------------------------------------------------------------
No_vectors == disk = NONE /\ clock = NONE /\ op = NONE
No_insert == handle = NONE /\ provider = NONE /\ seen = NONE
No_text == rows = NONE /\ check = NONE /\ delete = NONE
No_paths == contents = NONE /\ struct = NONE /\ snap = NONE /\ answer = NONE

Init ==
    /\ about = Subject
    /\ IF about = "vectors" THEN Vacuums!Init ELSE No_vectors
    /\ IF about = "insert" THEN Inserting!Init ELSE No_insert
    /\ IF about = "text" THEN Texts!Init ELSE No_text
    /\ IF about = "paths" THEN Views!Init ELSE No_paths
    /\ about \notin {"vectors", "insert", "paths"} => log = NONE
    /\ about \notin {"insert", "text"} => last = NONE

Next ==
    /\ UNCHANGED about
    /\ IF about = "vectors" THEN Vacuums!Next ELSE UNCHANGED vectors_vars
    /\ IF about = "insert" THEN Inserting!Next ELSE UNCHANGED insert_vars
    /\ IF about = "text" THEN Texts!Next ELSE UNCHANGED text_vars
    /\ IF about = "paths" THEN Views!Next ELSE UNCHANGED paths_vars
    /\ about \notin {"vectors", "insert", "paths"} => UNCHANGED log
    /\ about \notin {"insert", "text"} => UNCHANGED last

Spec == Init /\ [][Next]_vars

-----------------------------------------------------------------------------
\* VACUUM documents that it removes files that are no longer referenced: no
\* file of the latest version, a deletion vector included, is deleted.
VectorsSurviveVacuum ==
    about = "vectors" => Vacuums!ActiveFilesExist

\* The rows of an INSERT through a provider satisfy the CHECK constraints of
\* the table they are committed to.
InsertedRowsChecked ==
    about = "insert" => Inserting!InsertedRowsChecked

\* Every row satisfies a CHECK constraint as it was stated, whatever literals
\* and differences it is made of.
StatedConstraintHolds ==
    about = "text" => Texts!ConstraintHolds

\* A remove action cancels the add action of the same file, whoever logged the
\* two.
RemovesCancel ==
    about = "paths" => Views!RemovesCancel
=============================================================================
