---------------------------- MODULE SerialTable -----------------------------
(***************************************************************************)
(* What isolation level Serializable promises: the operations take effect  *)
(* one at a time, in the order of the versions, and each one sees exactly  *)
(* what the version before it holds.  There are no files, snapshots or     *)
(* retries here: a version is an operation and the rows it leaves.         *)
(***************************************************************************)
EXTENDS Naturals

CONSTANTS Writers, OperationKind, Keys, NONE

VARIABLE history    \* version -> operation and rows

Operation ==
    [kind : OperationKind, by : Writers, pred : (SUBSET Keys) \cup {NONE}, src : SUBSET Keys,
     target : Nat \cup {NONE}]

New(t, ks) == {<<t, k>> : k \in ks}
KeysOf(rows) == {x[2] : x \in rows}
Match(rows, p) == IF p = NONE THEN rows ELSE {x \in rows : x[2] \in p}

\* The rows operation op leaves when it runs alone on a table that holds rows.
Effect(op, rows) ==
    CASE op.kind = "append" -> rows \cup New(op.by, op.src)
      [] op.kind = "overwrite" -> (rows \ Match(rows, op.pred)) \cup New(op.by, op.src)
      [] op.kind = "delete" -> rows \ Match(rows, op.pred)
      [] op.kind = "update" ->
            (rows \ Match(rows, op.pred)) \cup New(op.by, KeysOf(Match(rows, op.pred)))
      [] op.kind = "merge" -> (rows \ Match(rows, op.src)) \cup New(op.by, op.src)
      [] op.kind = "merge_insert" -> rows \cup New(op.by, op.src \ KeysOf(rows))
      [] op.kind \in {"create", "create_or_replace", "write_new"} -> New(op.by, op.src)
      [] op.kind = "restore" -> history[op.target].rows
      [] OTHER -> rows    \* OPTIMIZE and changes of the metadata

NextVersion ==
    IF DOMAIN history = {} THEN 0
    ELSE 1 + CHOOSE v \in DOMAIN history : \A u \in DOMAIN history : u <= v

Init == DOMAIN history \subseteq {0}

\* One operation is appended to the history, which is never rewritten.
Next ==
    LET n == NextVersion
        before == IF n = 0 THEN {} ELSE history[n - 1].rows
    IN  /\ DOMAIN history' = DOMAIN history \cup {n}
        /\ \A v \in DOMAIN history : history'[v] = history[v]
        /\ history'[n].op \in Operation
        /\ history'[n].rows = Effect(history'[n].op, before)

Spec == Init /\ [][Next]_history
=============================================================================
