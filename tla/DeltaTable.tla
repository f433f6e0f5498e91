----------------------------- MODULE DeltaTable -----------------------------
(***************************************************************************)
(* The data the commit protocol talks about: data files, the actions of a  *)
(* commit, the transaction log as a map from versions to commits, the      *)
(* table state a version of the log stands for, and the check of a commit  *)
(* against the commits that won before it.                                 *)
(*                                                                         *)
(* The log is what the object store holds under _delta_log: a commit is    *)
(* present at a version or it is not.  Nothing here assumes that versions  *)
(* are contiguous; that is a property of the commit protocol.              *)
(***************************************************************************)
EXTENDS Naturals

CONSTANTS
    Txns,          \* operation invocations, each one run of an operation builder
    Seed,          \* the writer of the first version of a seeded table
    Keys,          \* values of the column that predicates and constraints speak of
    AppIds,        \* application ids of Txn actions
    Domains,       \* domains of DomainMetadata actions
    NONE,          \* Option::None
    IsolationLevel \* the delta.isolationLevel property of the table

ASSUME SeedAssumption == Seed \notin Txns
ASSUME IsolationLevelAssumption ==
    IsolationLevel \in {"Serializable", "WriteSerializable", "SnapshotIsolation"}

Writers == Txns \cup {Seed}

\* A row is named by the operation that wrote it and its key.
Row == Writers \X Keys

\* Add: a data file gets a UUID name when it is written, here its writer and the
\* number of the commit of that writer (only OPTIMIZE commits more than once).
File == [by : Writers, no : Nat, rows : SUBSET Row]

NewRows(t, ks) == {<<t, k>> : k \in ks}

NewFile(t, n, rows) == [by |-> t, no |-> n, rows |-> rows]

\* Metadata, reduced to its identity, the two table properties that gate writes,
\* delta.appendOnly and delta.constraints (the keys that rows may have), and
\* whether the schema has a column whose type needs a table feature.
Metadata == [by : Writers, append_only : BOOLEAN, allowed : SUBSET Keys, ntz : BOOLEAN]

Feature == {"appendOnly", "domainMetadata", "checkConstraints", "timestampNtz"}

\* Protocol; the features are in force from writer version 7 on.
Protocol == [reader : 1 .. 3, writer : 1 .. 7, features : SUBSET Feature]

\* A predicate is the set of keys that satisfy it.
Predicate == (SUBSET Keys) \cup {NONE}

\* DeltaOperation, with the save modes of CREATE TABLE and the two shapes of MERGE
\* told apart; "none" before an invocation has planned anything.
OperationKind ==
    {"none", "append", "overwrite", "delete", "update", "merge", "merge_insert", "optimize",
     "filesystem_check", "restore", "set_tbl_properties", "add_column", "update_field_metadata",
     "drop_column_not_null", "update_table_metadata", "drop_constraint", "add_constraint",
     "add_feature", "create", "create_strict", "create_ignore", "create_or_replace", "write_new"}

\* DeltaOperation together with the actions it commits.
Commit ==
    [id : Writers, kind : OperationKind, pred : Predicate, src : SUBSET Keys,
     read : Nat \cup {NONE}, target : Nat \cup {NONE},
     adds : SUBSET File, removes : SUBSET File, data_change : BOOLEAN,
     metadata : Metadata \cup {NONE}, protocol : Protocol \cup {NONE},
     app : AppIds \cup {NONE}, domain : Domains \cup {NONE}, blind : BOOLEAN]

ASSUME NoneAssumption == NONE \notin Nat \cup Metadata \cup Protocol
ASSUME NoPredicateAssumption == \A ks \in SUBSET Keys : ks # NONE

-----------------------------------------------------------------------------
(* The transaction log.                                                    *)

EmptyLog == [v \in {} |-> NONE]

Put(l, v, c) == [u \in DOMAIN l \cup {v} |-> IF u = v THEN c ELSE l[u]]

IsLatest(l, v) == v \in DOMAIN l /\ \A u \in DOMAIN l : u <= v

\* The active files of a version: the last action about the file is an Add.
LogFiles(l) == UNION {l[v].adds : v \in DOMAIN l}

AddedAndKept(l, v, w, f) ==
    /\ w <= v
    /\ f \in l[w].adds
    /\ \A u \in DOMAIN l : w < u /\ u <= v => f \notin l[u].removes

Active(l, v) == {f \in LogFiles(l) : \E w \in DOMAIN l : AddedAndKept(l, v, w, f)}

\* The version whose Metadata (Protocol) action is in force at v.
MetadataVersion(l, v) ==
    CHOOSE w \in DOMAIN l :
        /\ w <= v /\ l[w].metadata # NONE
        /\ \A u \in DOMAIN l : u <= v /\ l[u].metadata # NONE => u <= w

MetadataAt(l, v) == l[MetadataVersion(l, v)].metadata

ProtocolVersion(l, v) ==
    CHOOSE w \in DOMAIN l :
        /\ w <= v /\ l[w].protocol # NONE
        /\ \A u \in DOMAIN l : u <= v /\ l[u].protocol # NONE => u <= w

ProtocolAt(l, v) == l[ProtocolVersion(l, v)].protocol

\* What a reader of version v sees.
Content(l, v) == UNION {f.rows : f \in Active(l, v)}

\* The rows that satisfy a predicate, and the files that hold one.  (The code
\* prunes files by statistics and may take more files than these into a check;
\* the fewer it takes, the fewer conflicts it sees.)
MatchingRows(rows, pred) ==
    IF pred = NONE THEN rows ELSE {x \in rows : x[2] \in pred}

Matching(files, pred) ==
    IF pred = NONE THEN files ELSE {f \in files : MatchingRows(f.rows, pred) # {}}

-----------------------------------------------------------------------------
(* kernel/transaction/conflict_checker.rs: may a transaction c that was    *)
(* prepared against version r of the log l be committed after a commit w   *)
(* that won a later version?  Each check is named after its method and is  *)
(* TRUE when the method returns an error.                                  *)

(* DeltaOperation: what the operation declares it read.                    *)

read_predicate(c) ==
    IF c.kind \in {"append", "overwrite", "delete", "update", "merge", "merge_insert"}
    THEN c.pred ELSE NONE

\* Mutant: OPTIMIZE is taken for a reader of the whole table.
read_whole_table_mutant(c) == c.kind \in {"merge", "merge_insert", "optimize"} /\ c.pred = NONE

read_whole_table(c) == c.kind \in {"merge", "merge_insert"} /\ c.pred = NONE

changes_data(c) ==
    c.kind \notin {"optimize", "set_tbl_properties", "add_constraint", "drop_constraint",
                   "add_feature", "add_column", "update_field_metadata",
                   "update_table_metadata", "drop_column_not_null"}

\* Every commit carries a CommitInfo action (CommitData::new), which is an action
\* that is no data-changing Add or Remove: the level is never lowered.
has_non_file_actions(w) == TRUE

can_downgrade_to_snapshot_isolation(w, c, level) ==
    /\ ~has_non_file_actions(w)
    /\ \/ level = "Serializable" /\ ~w.data_change
       \/ level = "WriteSerializable" /\ ~w.data_change /\ ~changes_data(c)

isolation_level(w, c) ==
    IF can_downgrade_to_snapshot_isolation(w, c, IsolationLevel)
    THEN "SnapshotIsolation" ELSE IsolationLevel

-----------------------------------------------------------------------------
(* The checks, in the order check_conflicts makes them.                    *)

\* The file a transaction read, by the snapshot it is checked against.
read_files(l, r, c) == Matching(Active(l, r), read_predicate(c))

\* The writer versions are compared in this direction in the code.
ProtocolChanged(l, r, c, w) ==
    /\ w.protocol # NONE
    /\ \/ ProtocolAt(l, r).reader < w.protocol.reader
       \/ w.protocol.writer < ProtocolAt(l, r).writer
       \/ c.protocol # NONE

\* Mutant: only a change of metadata that also changes the protocol conflicts.
MetadataChanged_mutant(w) == w.metadata # NONE /\ w.protocol # NONE

MetadataChanged(w) == w.metadata # NONE

ConcurrentDomainMetadata(c, w) == w.domain # NONE /\ w.domain = c.domain

added_files_to_check(c, w) ==
    CASE isolation_level(w, c) = "SnapshotIsolation" -> {}
      [] isolation_level(w, c) = "WriteSerializable" /\ c.metadata = NONE ->
            IF w.blind THEN {} ELSE w.adds
      [] OTHER -> w.adds

\* Mutant: a MERGE that joined the full table is not checked.
ConcurrentAppend_mutant(c, w) ==
    /\ read_predicate(c) # NONE
    /\ Matching(added_files_to_check(c, w), read_predicate(c)) # {}

ConcurrentAppend(c, w) ==
    IF read_whole_table(c) THEN added_files_to_check(c, w) # {}
    ELSE /\ read_predicate(c) # NONE
         /\ Matching(added_files_to_check(c, w), read_predicate(c)) # {}

ConcurrentDeleteRead(l, r, c, w) ==
    /\ w.data_change
    /\ \/ w.removes \cap read_files(l, r, c) # {}
       \/ w.removes # {} /\ read_whole_table(c)

\* Mutant: removals without data change are exempt here too.
ConcurrentDeleteDelete_mutant(c, w) == w.data_change /\ c.removes \cap w.removes # {}

ConcurrentDeleteDelete(c, w) == c.removes \cap w.removes # {}

\* Mutant: an application id only conflicts between commits that remove files.
ConcurrentTransaction_mutant(c, w) == w.app # NONE /\ w.app = c.app /\ w.removes # {}

ConcurrentTransaction(c, w) == w.app # NONE /\ w.app = c.app

\* Mutant: the check for metadata updates is missing.
check_conflicts_mutant(l, r, c, w) ==
    \/ ProtocolChanged(l, r, c, w)
    \/ ConcurrentDomainMetadata(c, w)
    \/ ConcurrentAppend(c, w)
    \/ ConcurrentDeleteRead(l, r, c, w)
    \/ ConcurrentDeleteDelete(c, w)
    \/ ConcurrentTransaction(c, w)

check_conflicts(l, r, c, w) ==
    \/ ProtocolChanged(l, r, c, w)
    \/ MetadataChanged(w)
    \/ ConcurrentDomainMetadata(c, w)
    \/ ConcurrentAppend(c, w)
    \/ ConcurrentDeleteRead(l, r, c, w)
    \/ ConcurrentDeleteDelete(c, w)
    \/ ConcurrentTransaction(c, w)
=============================================================================
