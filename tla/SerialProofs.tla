---------------------------- MODULE SerialProofs ----------------------------
(***************************************************************************)
(* What the table is like after any number of racing commits.  RowProofs   *)
(* says what every commit does to the version it was planned on, and       *)
(* CommitProofs what may lie between that version and the one it becomes;  *)
(* together they give the effect of every commit on the version right      *)
(* before it, and with that the serial history of the table.               *)
(***************************************************************************)
EXTENDS RowProofs

\* A step gets up to a minute of each prover unless it names its own.
USE ZenonT(60), SMTT(60)

-----------------------------------------------------------------------------
(* What the invariants say about the table.                                *)

\* Replaying one version: its files are the ones it adds and those it keeps.
LEMMA ActiveStep ==
    ASSUME NEW l, WellFormed(l), NEW v \in DOMAIN l, v > 0
    PROVE  Active(l, v) = (Active(l, v - 1) \ l[v].removes) \cup l[v].adds
<1>1. v \in Nat /\ v - 1 \in Nat /\ DOMAIN l \subseteq Nat
  BY SMTT(60) DEF WellFormed
<1>2. ASSUME NEW f \in Active(l, v)
      PROVE  f \in (Active(l, v - 1) \ l[v].removes) \cup l[v].adds
  <2>1. PICK w \in DOMAIN l : AddedAndKept(l, v, w, f)
    BY DEF Active
  <2>2. CASE w = v
    BY <2>1, <2>2 DEF AddedAndKept
  <2>3. CASE w # v
    <3>1. w < v /\ w <= v - 1
      BY SMTT(60), <1>1, <2>1, <2>3 DEF AddedAndKept
    <3>2. AddedAndKept(l, v - 1, w, f)
      BY SMTT(60), <1>1, <2>1, <3>1 DEF AddedAndKept
    <3>3. f \notin l[v].removes
      BY SMTT(60), <1>1, <2>1, <3>1 DEF AddedAndKept
    <3> QED  BY <3>2, <3>3 DEF Active
  <2> QED  BY <2>2, <2>3
<1>3. ASSUME NEW f \in Active(l, v - 1), f \notin l[v].removes
      PROVE  f \in Active(l, v)
  <2>1. \A u \in DOMAIN l : v - 1 < u /\ u <= v => f \notin l[u].removes
    BY SMTT(60), <1>1, <1>3
  <2> QED  BY SMTT(60), <1>1, <2>1, ActiveKept
<1>4. ASSUME NEW f \in l[v].adds
      PROVE  f \in Active(l, v)
  <2>1. AddedAndKept(l, v, v, f) /\ f \in LogFiles(l)
    BY SMTT(60), <1>1 DEF AddedAndKept, LogFiles
  <2> QED  BY <2>1 DEF Active
<1> QED  BY <1>2, <1>3, <1>4

LEMMA RestoredFiles ==
    ASSUME NEW l, WellFormed(l), NEW v \in DOMAIN l, l[v].kind = "restore", l[v].read = v - 1,
           CommitRows(l, l[v])
    PROVE  /\ v > 0 /\ l[v].target \in DOMAIN l /\ l[v].target < v - 1
           /\ Active(l, v) = Active(l, l[v].target)
<1>1. /\ v - 1 \in DOMAIN l /\ l[v].target \in DOMAIN l /\ l[v].target < v - 1
      /\ l[v].adds = Active(l, l[v].target) \ Active(l, v - 1)
      /\ l[v].removes = Active(l, v - 1) \ Active(l, l[v].target)
  BY DEF CommitRows, Sourced
<1>2. v > 0
  BY SMTT(60), <1>1 DEF WellFormed
<1>3. Active(l, v) = (Active(l, v - 1) \ l[v].removes) \cup l[v].adds
  BY <1>2, ActiveStep
<1> QED  BY <1>1, <1>2, <1>3

\* RESTORE, which has no retries: its version follows the snapshot it compared with, and
\* holds exactly the files of the version it restores.
THEOREM RestoreIsExact == Spec => []RestoreExact
<1>1. IInv /\ RowInv => RestoreExact
  BY RestoredFiles DEF IInv, RowInv, RestoreExact
<1> QED  BY <1>1, RowInvariant, PTL

\* What a commit returns: success is in the log exactly once, and after a conflict, used-up
\* attempts or a rejection nothing of the invocation is in the log.
THEOREM OutcomesAreHonest == Spec => []OutcomeHonest
<1>1. ASSUME IInv, RowInv, NEW t \in Txns, result[t] = "committed"
      PROVE  \E v \in DOMAIN log : log[v].id = t /\ log[v] = tx[t]
  BY SMTT(60), <1>1 DEF RowInv, Owned, OwnedAt
<1>2. ASSUME IInv, RowInv, NEW u \in DOMAIN log, NEW v \in DOMAIN log, log[u] = log[v], u < v
      PROVE  FALSE
  <2>1. log[v].read # NONE /\ u <= log[v].read
    BY <1>2 DEF RowInv, OwnCommits
  <2>2. CheckedBelow(log, log[u], u) /\ log[u] \in Commit /\ u \in Nat
    BY <1>2 DEF IInv, LogOK, WellFormed
  <2>3. log[u].read \in Nat /\ log[u].read < u
    BY <1>2, <2>1, <2>2 DEF CheckedBelow, Commit
  <2> QED  BY SMTT(60), <1>2, <2>1, <2>2, <2>3
<1>3. ASSUME IInv, RowInv, NEW u \in DOMAIN log, NEW v \in DOMAIN log, log[u] = log[v]
      PROVE  u = v
  <2>1. u \in Nat /\ v \in Nat
    BY <1>3 DEF IInv, WellFormed
  <2> QED  BY SMTT(60), <1>2, <1>3, <2>1
<1>4. ASSUME IInv, RowInv, NEW t \in Txns, result[t] \notin {"committed", "error"}, made[t] = 0,
             NEW u \in DOMAIN log, log[u].id = t
      PROVE  FALSE
  BY SMTT(60), <1>4 DEF RowInv, Owned, OwnedAt
<1>5. IInv /\ RowInv => OutcomeHonest
  BY <1>1, <1>3, <1>4 DEF OutcomeHonest
<1> QED  BY <1>5, RowInvariant, PTL

\* DataValidationExec checks rows against the snapshot; since no Metadata action may win in
\* between, they satisfy the constraints in force at the version they are committed to.
THEOREM ConstraintsHold == Spec => []WritesRespectConstraints
<1>1. ASSUME IInv, RowInv, NEW v \in DOMAIN log, v > 0, log[v].metadata = NONE,
             NEW f \in log[v].adds, NEW x \in f.rows, x[1] = log[v].id
      PROVE  x[2] \in MetadataAt(log, v - 1).allowed
  <2> DEFINE c == log[v]
  <2>1. /\ WellFormed(log) /\ v \in Nat /\ v - 1 \in Nat /\ c \in Commit
        /\ CheckedBelow(log, c, v) /\ CommitRows(log, c)
    BY SMTT(60), <1>1 DEF IInv, LogOK, WellFormed, RowInv
  <2>2. c.read # NONE /\ c.kind # "restore"
    BY <1>1, <2>1 DEF CommitRows, Sourced
  <2>3. c.read \in DOMAIN log /\ x[2] \in MetadataAt(log, c.read).allowed
    BY <1>1, <2>1, <2>2 DEF CommitRows, Sourced
  <2>4. c.read \in Nat /\ c.read <= v - 1
    BY SMTT(60), <2>1, <2>2 DEF CheckedBelow, Commit
  <2>5. v - 1 \in DOMAIN log
    BY SMTT(60), <2>1, <1>1 DEF WellFormed
  <2>6. \A u \in DOMAIN log : c.read < u /\ u <= v - 1 => log[u].metadata = NONE
    BY SMTT(60), <2>1, <2>2 DEF CheckedBelow, Passed, Compatible, MetadataChanged, WellFormed
  <2> HIDE DEF c
  <2>7. MetadataAt(log, v - 1) = MetadataAt(log, c.read)
    BY <2>1, <2>3, <2>4, <2>5, <2>6, MetadataUnchanged
  <2> QED  BY <2>3, <2>7
<1>2. IInv /\ RowInv => WritesRespectConstraints
  BY <1>1 DEF WritesRespectConstraints
<1> QED  BY <1>2, RowInvariant, PTL

\* ProtocolChecker::can_commit looks at the first snapshot only.  That is enough for
\* delta.appendOnly as long as ADD FEATURE, which changes the protocol and no metadata,
\* does not run; with it, check_protocol_compatibility lets the protocol rise unseen.
THEOREM AppendOnlyTables ==
    ASSUME "add_feature" \notin Kinds
    PROVE  Spec => []AppendOnlyRespected
<1>1. ASSUME IInv, RowInv, NEW v \in DOMAIN log, v > 0, append_only_enabled(log, v - 1),
             log[v].data_change, log[v].removes # {}
      PROVE  log[v].kind \in {"restore", "filesystem_check"}
  <2> DEFINE c == log[v]
  <2>1. /\ WellFormed(log) /\ v \in Nat /\ v - 1 \in Nat /\ c \in Commit
        /\ Planned(log, c) /\ CheckedBelow(log, c, v) /\ CommitRows(log, c)
    BY SMTT(60), <1>1 DEF IInv, LogOK, WellFormed, RowInv
  <2>2. c.read # NONE /\ c.read \in DOMAIN log
    BY <1>1, <2>1 DEF Planned
  <2>3. c.read \in Nat /\ c.read <= v - 1
    BY SMTT(60), <2>1, <2>2 DEF CheckedBelow, Commit
  <2>4. v - 1 \in DOMAIN log
    BY SMTT(60), <2>1, <1>1 DEF WellFormed
  <2>5. \A u \in DOMAIN log : c.read < u /\ u <= v - 1 => log[u].metadata = NONE
    BY SMTT(60), <2>1, <2>2 DEF CheckedBelow, Passed, Compatible, MetadataChanged, WellFormed
  <2>6. \A u \in DOMAIN log : c.read < u /\ u <= v - 1 => log[u].protocol = NONE
    BY <1>1, <2>5 DEF RowInv, CommitRows, ProtocolOnly
  <2> HIDE DEF c
  <2>7. MetadataAt(log, v - 1) = MetadataAt(log, c.read)
    BY <2>1, <2>2, <2>3, <2>4, <2>5, MetadataUnchanged
  <2>8. ProtocolAt(log, v - 1) = ProtocolAt(log, c.read)
    BY <2>1, <2>2, <2>3, <2>4, <2>6, ProtocolUnchanged
  <2>9. append_only_enabled(log, c.read)
    BY <1>1, <2>7, <2>8 DEF append_only_enabled
  <2>10. Permitted(log, c.read, c)
    BY <2>1 DEF CommitRows
  <2>11. c.data_change /\ c.removes # {}
    BY <1>1 DEF c
  <2>12. c.kind \in {"restore", "filesystem_check"}
    BY <2>2, <2>9, <2>10, <2>11 DEF Permitted
  <2> QED  BY <2>12 DEF c
<1>2. IInv /\ RowInv => AppendOnlyRespected
  BY <1>1 DEF AppendOnlyRespected
<1> QED  BY <1>2, RowInvariant, PTL

-----------------------------------------------------------------------------
(* Rows are in one file at a time.                                         *)

\* The log only changes by a version that an invocation writes behind all others.
LEMMA StepAppends ==
    ASSUME IInv, RowInv, [Next]_vars
    PROVE  \/ log' = log
           \/ \E t \in Txns, v \in Nat :
                 /\ v \notin DOMAIN log /\ log' = Put(log, v, tx[t])
                 /\ pc[t] \in {"create", "write"} /\ (v = 0 \/ v - 1 \in DOMAIN log)
<1>1. ASSUME NEW t \in Txns, log' # log, WriteInitial(t)
      PROVE  pc[t] = "create" /\ 0 \notin DOMAIN log /\ log' = Put(log, 0, tx[t])
  BY <1>1 DEF WriteInitial
<1>2. ASSUME NEW t \in Txns, pc[t] = "write"
      PROVE  snap[t] \in Nat /\ snap[t] + 1 \in Nat /\ (snap[t] + 1) - 1 \in DOMAIN log
  <2>1. snap[t] \in Nat /\ LoopOK(t)
    BY <1>2 DEF IInv, TypeOK, FlightOK
  <2> QED  BY SMTT(60), <2>1 DEF LoopOK
<1>3. ASSUME NEW t \in Txns, log' # log, WriteCommit(t)
      PROVE  pc[t] = "write" /\ snap[t] + 1 \notin DOMAIN log /\ log' = Put(log, snap[t] + 1, tx[t])
  BY <1>3 DEF WriteCommit
<1>4. ASSUME NEW t \in Txns, log' # log, WriteFails(t)
      PROVE  \/ pc[t] = "create" /\ 0 \notin DOMAIN log /\ log' = Put(log, 0, tx[t])
             \/ pc[t] = "write" /\ snap[t] + 1 \notin DOMAIN log /\ log' = Put(log, snap[t] + 1, tx[t])
  BY <1>4 DEF WriteFails
<1>5. ASSUME NEW t \in Txns, log' # log
      PROVE  /\ ~(Begin(t) \/ BeginOptimize(t) \/ BeginCreate(t) \/ BeginCreateExisting(t))
             /\ ~(Reload(t) \/ List(t) \/ CheckWinner(t) \/ ReadFails(t))
  BY <1>5 DEF Begin, BeginOptimize, BeginCreate, BeginCreateExisting, Reload, List, CheckWinner, ReadFails
<1>6. ASSUME log' # log
      PROVE  \E t \in Txns : WriteInitial(t) \/ WriteCommit(t) \/ WriteFails(t)
  BY <1>5, <1>6 DEF Next, Step, Quiescent, vars
<1>7. ASSUME log' # log
      PROVE  \E t \in Txns :
                \/ pc[t] = "create" /\ 0 \notin DOMAIN log /\ log' = Put(log, 0, tx[t])
                \/ pc[t] = "write" /\ snap[t] + 1 \notin DOMAIN log /\ log' = Put(log, snap[t] + 1, tx[t])
  BY <1>1, <1>3, <1>4, <1>6, <1>7
<1> QED  BY <1>2, <1>7

\* No two files of version v hold the same row.
Disjoint(l, v) == \A f, g \in Active(l, v) : f # g => f.rows \cap g.rows = {}

\* A version keeps the rows of the table disjoint, when it removes files that are active
\* and writes rows that are not there yet.
LEMMA DisjointStep ==
    ASSUME NEW l, WellFormed(l), NEW v \in DOMAIN l, v > 0, l[v].kind # "restore",
           CommitRows(l, l[v]), l[v].removes \subseteq Active(l, v - 1), Disjoint(l, v - 1),
           \A g \in Active(l, v - 1) : \A x \in g.rows : l[v].kind # "optimize" => x[1] # l[v].id
    PROVE  Disjoint(l, v)
<1> DEFINE A == Active(l, v - 1)
           c == l[v]
<1>1. Active(l, v) = (A \ c.removes) \cup c.adds
  BY ActiveStep
<1>2. /\ \A f, g \in c.adds : f = g
      /\ \A f \in c.adds : \A x \in f.rows : (x[1] = c.id /\ c.kind # "optimize") \/ \E h \in c.removes : x \in h.rows
  BY DEF CommitRows, Sourced
<1> HIDE DEF c
<1>3. ASSUME NEW f \in c.adds, NEW g \in A \ c.removes, NEW x \in f.rows, x \in g.rows
      PROVE  FALSE
  <2>1. ~(x[1] = c.id /\ c.kind # "optimize")
    BY <1>3 DEF c
  <2>2. PICK h \in c.removes : x \in h.rows
    BY <1>2, <1>3, <2>1
  <2>3. h \in A /\ h # g
    BY <2>2 DEF c
  <2> QED  BY <1>3, <2>2, <2>3 DEF Disjoint
<1> SUFFICES ASSUME NEW f \in Active(l, v), NEW g \in Active(l, v), f # g
             PROVE  f.rows \cap g.rows = {}
  BY DEF Disjoint
<1>4. CASE f \in c.adds /\ g \in c.adds
  BY <1>2, <1>4
<1>5. CASE f \in A \ c.removes /\ g \in A \ c.removes
  BY <1>5 DEF Disjoint
<1>6. CASE f \in c.adds /\ g \in A \ c.removes
  BY <1>3, <1>6
<1>7. CASE g \in c.adds /\ f \in A \ c.removes
  BY <1>3, <1>7
<1> QED  BY <1>1, <1>4, <1>5, <1>6, <1>7

\* The first version of a log has at most one file.
LEMMA DisjointFirst ==
    ASSUME NEW l, WellFormed(l), 0 \in DOMAIN l, CommitRows(l, l[0]), l[0].kind # "restore"
    PROVE  Disjoint(l, 0)
<1>1. \A f, g \in l[0].adds : f = g
  BY DEF CommitRows, Sourced
<1>2. Active(l, 0) \subseteq l[0].adds
  BY SMTT(60) DEF Active, AddedAndKept, WellFormed
<1> QED  BY <1>1, <1>2 DEF Disjoint

LEMMA DisjointInit == Init /\ IInv /\ RowInv => NoDuplicateRows
<1> SUFFICES ASSUME Init, IInv, RowInv PROVE NoDuplicateRows
  OBVIOUS
<1>1. DOMAIN log \subseteq {0}
  BY SMTT(60) DEF Init, SeedLogs, EmptyLog, Put
<1>2. ASSUME 0 \in DOMAIN log
      PROVE  Disjoint(log, 0)
  <2>1. log[0].kind = "restore" => log[0].read = 0 - 1
    BY <1>2 DEF RowInv
  <2>2. WellFormed(log) /\ CommitRows(log, log[0])
    BY <1>2 DEF RowInv, IInv
  <2>3. log[0].kind # "restore"
    BY SMTT(60), <1>2, <2>1, <2>2, RestoredFiles
  <2> QED  BY <1>2, <2>2, <2>3, DisjointFirst
<1> QED  BY <1>1, <1>2 DEF NoDuplicateRows, Disjoint

LEMMA DisjointNext ==
    ASSUME ~CommitInterval, IInv, RowInv, NoDuplicateRows, [Next]_vars, IInv', RowInv'
    PROVE  NoDuplicateRows'
<1>1. CASE log' = log
  BY <1>1 DEF NoDuplicateRows
<1>2. CASE log' # log
  <2>1. PICK t \in Txns, v \in Nat :
          /\ v \notin DOMAIN log /\ log' = Put(log, v, tx[t])
          /\ pc[t] \in {"create", "write"} /\ (v = 0 \/ v - 1 \in DOMAIN log)
    BY <1>2, StepAppends
  <2> DEFINE k == log'
  <2>2. /\ WellFormed(log) /\ WellFormed(k) /\ \A u \in DOMAIN k : CommitRows(k, k[u])
        /\ \A u \in DOMAIN k : Planned(k, k[u]) /\ CheckedBelow(k, k[u], u)
        /\ \A u \in DOMAIN k : k[u].kind = "restore" => k[u].read = u - 1
    BY DEF IInv, RowInv, LogOK
  <2>3. DOMAIN k = DOMAIN log \cup {v} /\ k[v] = tx[t]
    BY <2>1 DEF Put
  <2>4. \A u \in DOMAIN log : u \in Nat /\ u < v
    BY <2>1, <2>2, AboveAll
  <2>5. \A u \in DOMAIN log : Active(k, u) = Active(log, u)
    BY SMTT(60), <2>1, <2>2, <2>4, ActiveOfOlder DEF WellFormed
  <2>6. \A u \in DOMAIN log : Disjoint(log, u)
    BY DEF NoDuplicateRows, Disjoint
  <2>7. tx[t].id = t /\ \A u \in DOMAIN log : log[u].id = t => log[u].kind = "optimize"
    BY SMTT(60), <2>1 DEF RowInv, Owned, OwnedAt
  <2> HIDE DEF k
  <2>8. \A u \in DOMAIN log : Disjoint(k, u)
    BY <2>5, <2>6 DEF Disjoint
  <2>9. Disjoint(k, v)
    <3>1. CASE k[v].kind = "restore"
      <4>1. /\ v > 0 /\ k[v].target \in DOMAIN k /\ k[v].target < v - 1
            /\ Active(k, v) = Active(k, k[v].target)
        BY <2>2, <2>3, <3>1, RestoredFiles
      <4>2. k[v].target \in DOMAIN log
        BY SMTT(60), <2>1, <2>3, <4>1
      <4> QED  BY <2>8, <4>1, <4>2 DEF Disjoint
    <3>2. CASE v = 0 /\ k[v].kind # "restore"
      BY <2>2, <2>3, <3>2, DisjointFirst
    <3>3. CASE v # 0 /\ k[v].kind # "restore"
      <4>1. v > 0 /\ v - 1 \in DOMAIN log
        BY SMTT(60), <2>1, <3>3
      <4>2. k[v].removes \subseteq Active(k, v - 1)
        BY <2>2, <2>3, <4>1, LiveRemoves
      <4>3. \A g \in Active(log, v - 1) : \A x \in g.rows : x[1] # t
        BY SMTT(60), <2>7 DEF Active, LogFiles, RowInv, RowsKnown
      <4>4. \A g \in Active(k, v - 1) : \A x \in g.rows : x[1] # k[v].id
        BY <2>3, <2>5, <2>7, <4>1, <4>3
      <4> QED  BY <2>2, <2>3, <2>8, <3>3, <4>1, <4>2, <4>4, DisjointStep
    <3> QED  BY <3>1, <3>2, <3>3
  <2>10. \A u \in DOMAIN k : Disjoint(k, u)
    BY <2>3, <2>8, <2>9
  <2> QED  BY <2>10 DEF k, NoDuplicateRows, Disjoint
<1> QED  BY <1>1, <1>2

\* check_for_deleted_files_against_current_txn_deleted_files and the rewrites themselves:
\* however OPTIMIZE, DELETE, UPDATE, MERGE and RESTORE race, a row is in one file only.
THEOREM RowsAreNotDuplicated ==
    ASSUME ~CommitInterval
    PROVE  Spec => []NoDuplicateRows
<1>1. Init => NoDuplicateRows
  BY InitIInv, InitRows, DisjointInit
<1>2. IInv /\ RowInv /\ NoDuplicateRows /\ [Next]_vars => NoDuplicateRows'
  BY NextIInv, NextRows, DisjointNext
<1> QED  BY <1>1, <1>2, RowInvariant, PTL DEF Spec

-----------------------------------------------------------------------------
(* One version on top of the one before it.                                *)

\* What the invariants say about a version v of a log l that was planned on r.
CommittedOn(l, v, r) ==
    /\ WellFormed(l) /\ v \in DOMAIN l /\ v > 0 /\ r \in DOMAIN l /\ r < v /\ l[v].read = r
    /\ Planned(l, l[v]) /\ CheckedBelow(l, l[v], v)
    /\ \A u \in DOMAIN l : CommitRows(l, l[u])

\* A non-empty set of naturals has a smallest element.
LEMMA SmallestElement ==
    ASSUME NEW U, U \subseteq Nat, U # {}
    PROVE  \E m \in U : \A u \in U : m <= u
<1>1. PICK x \in U : \A y \in U : ~ (<<y, x>> \in OpToRel(<, Nat))
  BY WFMin, NatLessThanWellFounded
<1>2. \A y \in U : ~ (y < x)
  BY <1>1 DEF OpToRel
<1> QED  BY SMTT(60), <1>2

\* The rows a version leaves.
LEMMA ContentStep ==
    ASSUME NEW l, WellFormed(l), NEW v \in DOMAIN l, v > 0
    PROVE  Content(l, v) = RowsOf(Active(l, v - 1) \ l[v].removes) \cup RowsOf(l[v].adds)
BY SMTT(60), ActiveStep DEF Content, RowsOf

\* check_for_added_files_that_should_have_been_read_by_current_txn: no version that a commit
\* did not read adds a file with a row its filter accepts, unless that version is a blind
\* append and the level is lower than Serializable.
LEMMA NoNewMatch ==
    ASSUME IsolationLevel # "SnapshotIsolation", NEW l, NEW v, NEW r, CommittedOn(l, v, r),
           l[v].kind \in {"overwrite", "delete", "update", "merge", "merge_insert"},
           Filter(l[v]) # NONE,
           NEW w \in DOMAIN l, r < w, w < v, IsolationLevel = "Serializable" \/ ~l[w].blind,
           NEW f \in l[w].adds
    PROVE  MatchingRows(f.rows, Filter(l[v])) = {}
<1> DEFINE c == l[v]
<1>1. ~ConcurrentAppend(c, l[w])
  BY NoneAssumption DEF CommittedOn, WellFormed, CheckedBelow, Passed, Compatible
<1>2. added_files_to_check(c, l[w]) = l[w].adds
  BY IsolationLevelAssumption
     DEF added_files_to_check, isolation_level, can_downgrade_to_snapshot_isolation, has_non_file_actions
<1>3. Exact(l, c.id, c.read, c)
  BY DEF CommittedOn, CommitRows
<1> HIDE DEF c
<1>4. CASE read_whole_table(c)
  BY <1>1, <1>2, <1>4 DEF ConcurrentAppend
<1>5. CASE ~read_whole_table(c)
  <2>1. read_predicate(c) = c.pred /\ c.pred = Filter(c) /\ Filter(c) # NONE
    BY <1>3, <1>5 DEF read_predicate, read_whole_table, Filter, Exact, c
  <2>2. Matching(l[w].adds, Filter(c)) = {}
    BY <1>1, <1>2, <1>5, <2>1 DEF ConcurrentAppend
  <2>3. MatchingRows(f.rows, Filter(c)) = {}
    BY <2>1, <2>2 DEF Matching
  <2> QED  BY <2>3 DEF c
<1> QED  BY <1>4, <1>5

\* The operations that are serializable say what they look for.
LEMMA FilterGiven ==
    ASSUME Kinds \subseteq SerialKinds, NEW l, NEW v, NEW r, CommittedOn(l, v, r), l[v].id # Seed,
           l[v].kind \in RewriteKinds \cup {"merge_insert"}
    PROVE  Filter(l[v]) # NONE
<1>1. l[v] \in Commit /\ Declared(l[v])
  BY DEF CommittedOn, WellFormed, CommitRows
<1>2. l[v].src # NONE
  BY <1>1, NoPredicateAssumption DEF Commit
<1> QED  BY <1>1, <1>2 DEF Declared, Filter, RewriteKinds

\* The blind appends that won after the snapshot of version v, and the rows they wrote.
Late(l, v) == {u \in DOMAIN l : l[u].blind /\ l[v].read < u /\ u < v}

LateRows(l, v) == UNION {f.rows : f \in UNION {l[u].adds : u \in Late(l, v)}}

\* A file the filter accepts when the commit lands was in its snapshot, or is a late append.
LEMMA MatchesWereRead ==
    ASSUME IsolationLevel # "SnapshotIsolation", NEW l, NEW v, NEW r, CommittedOn(l, v, r),
           l[v].kind \in {"overwrite", "delete", "update", "merge", "merge_insert"},
           Filter(l[v]) # NONE,
           NEW f \in Active(l, v - 1), MatchingRows(f.rows, Filter(l[v])) # {}
    PROVE  \/ f \in Active(l, r)
           \/ IsolationLevel # "Serializable" /\ \E w \in Late(l, v) : f \in l[w].adds
<1>1. PICK w \in DOMAIN l : AddedAndKept(l, v - 1, w, f)
  BY DEF Active
<1>2. v \in Nat /\ r \in Nat /\ w \in Nat /\ r < v /\ w <= v - 1 /\ f \in l[w].adds /\ l[v].read = r
  BY <1>1 DEF CommittedOn, WellFormed, AddedAndKept
<1>3. CASE w <= r
  <2>1. AddedAndKept(l, r, w, f)
    BY SMTT(60), <1>1, <1>2, <1>3 DEF AddedAndKept, CommittedOn, WellFormed
  <2> QED  BY <1>1, <2>1 DEF Active
<1>4. CASE ~(w <= r)
  <2>1. r < w /\ w < v
    BY SMTT(60), <1>2, <1>4
  <2>2. ~(IsolationLevel = "Serializable" \/ ~l[w].blind)
    BY <1>2, <2>1, NoNewMatch
  <2> QED  BY <1>2, <2>1, <2>2 DEF Late
<1> QED  BY <1>3, <1>4

\* check_for_deleted_files_against_current_txn_read_files: what a MERGE that only inserts
\* matched in its snapshot is still there when it lands.  (An OPTIMIZE, which is no blind
\* append, may not have moved the rows either: the file it adds would have matched.)
LEMMA ReadFilesStay ==
    ASSUME IsolationLevel # "SnapshotIsolation", NEW l, NEW v, NEW r, CommittedOn(l, v, r),
           IsolationLevel = "Serializable" \/ \A u \in DOMAIN l : Marked(l[u]),
           l[v].kind = "merge_insert", Filter(l[v]) # NONE,
           NEW f \in Active(l, r), NEW x \in f.rows, x[2] \in Filter(l[v])
    PROVE  f \in Active(l, v - 1)
<1> DEFINE c == l[v]
           q == Filter(c)
           S == {w \in DOMAIN l : r < w /\ w < v /\ f \in l[w].removes}
<1>1. DOMAIN l \subseteq Nat /\ v \in Nat /\ r \in Nat /\ r <= v - 1 /\ v - 1 \in Nat
  BY SMTT(60) DEF CommittedOn, WellFormed
<1>2. ASSUME S # {}
      PROVE  FALSE
  <2>1. PICK w \in S : \A s \in S : w <= s
    <3>1. S \subseteq Nat
      BY <1>1
    <3> HIDE DEF S
    <3> QED  BY <1>2, <3>1, SmallestElement
  <2>2. w \in DOMAIN l /\ w \in Nat /\ r < w /\ w < v /\ f \in l[w].removes
    BY <1>1, <2>1
  <2>3. Passed(l, c, w)
    BY <1>1, <2>2, NoneAssumption DEF CommittedOn, CheckedBelow
  <2>4. PICK s \in DOMAIN l : r <= s /\ s < w /\ ~ConcurrentDeleteRead(l, s, c, l[w])
    BY <1>1, <2>3, NoneAssumption DEF Passed, CommittedOn
  <2>5. f \in Active(l, s)
    <3>1. s \in Nat /\ \A u \in DOMAIN l : r < u /\ u <= s => f \notin l[u].removes
      BY SMTT(60), <1>1, <2>1, <2>2, <2>4
    <3> QED  BY <1>1, <2>4, <3>1, ActiveKept
  <2>6. c.kind = "merge_insert" /\ q = c.src /\ q # NONE /\ c.pred \in {q, NONE}
    BY DEF Filter, CommittedOn, CommitRows, Exact
  <2>7. f \in Matching(Active(l, s), q)
    BY <2>5, <2>6 DEF Matching, MatchingRows
  <2> HIDE DEF c, q, S
  <2>8. ~l[w].data_change
    <3>1. CASE c.pred = NONE
      BY <2>2, <2>4, <2>6, <3>1 DEF ConcurrentDeleteRead, read_whole_table
    <3>2. CASE c.pred = q
      BY <2>2, <2>4, <2>6, <2>7, <3>2 DEF ConcurrentDeleteRead, read_files, read_predicate
    <3> QED  BY <2>6, <3>1, <3>2
  <2>9. l[w].kind = "optimize" /\ RowsOf(l[w].adds) = RowsOf(l[w].removes)
    BY <2>2, <2>8 DEF CommittedOn, CommitRows, Exact
  <2>10. PICK g \in l[w].adds : x \in g.rows
    BY SMTT(60), <2>2, <2>9 DEF RowsOf
  <2>11. MatchingRows(g.rows, q) # {}
    BY <2>6, <2>10 DEF MatchingRows, q, c
  <2>12. IsolationLevel = "Serializable" \/ ~l[w].blind
    BY <2>2, <2>9 DEF Marked
  <2> QED  BY <2>2, <2>10, <2>11, <2>12, NoNewMatch DEF q, c
<1>3. \A u \in DOMAIN l : r < u /\ u <= v - 1 => f \notin l[u].removes
  BY SMTT(60), <1>1, <1>2
<1> QED  BY <1>1, <1>3, ActiveKept

-----------------------------------------------------------------------------
(* The effect of a version on the rows it has read.                        *)

\* N are rows that the commit at v did not read: they were not in its snapshot r, and all
\* other rows it looks for are in files of its snapshot.
Apart(l, v, r, N) ==
    /\ l[v].kind \in RewriteKinds \cup {"merge_insert"} =>
          \A f \in Active(l, v - 1) :
              MatchingRows(f.rows, Filter(l[v])) # {} => f \in Active(l, r) \/ f.rows \subseteq N
    /\ \A f \in Active(l, r) : f.rows \cap N = {}
    /\ l[v].kind = "merge_insert" =>
          \A f \in Active(l, r) : MatchingRows(f.rows, Filter(l[v])) # {} => f \in Active(l, v - 1)
    /\ l[v].kind = "restore" => N = {}

Unread(l, v, N) == Content(l, v - 1) \cap N

Rest(l, v, N) == Content(l, v - 1) \ Unread(l, v, N)

\* Rewriting the matching files of B changes the rows of A but for N as it would on B.
RewritesApart(A, B, N, q) ==
    LET gone == Matching(B, q)
        rest == RowsOf(A) \ (RowsOf(A) \cap N)
    IN  /\ RowsOf(A \ gone) \cup (RowsOf(gone) \ MatchingRows(RowsOf(gone), q))
              = (RowsOf(A) \cap N) \cup (rest \ MatchingRows(rest, q))
        /\ MatchingRows(rest, q) = MatchingRows(RowsOf(B), q)

LEMMA RowsApart ==
    ASSUME NEW A, NEW B, NEW N, NEW q, q # NONE, Matching(B, q) \subseteq A,
           \A f \in A : MatchingRows(f.rows, q) # {} => f \in B \/ f.rows \subseteq N,
           \A f \in B : f.rows \cap N = {}
    PROVE  RewritesApart(A, B, N, q)
<1> DEFINE gone == Matching(B, q)
           rest == RowsOf(A) \ (RowsOf(A) \cap N)
<1>1. \A S : MatchingRows(S, q) = {x \in S : x[2] \in q}
  BY DEF MatchingRows
<1>2. gone \subseteq B /\ gone \subseteq A /\ \A f \in B \ gone : \A x \in f.rows : x[2] \notin q
  BY <1>1 DEF Matching
<1>3. \A f \in A : (\E x \in f.rows : x[2] \in q) => f \in B \/ f.rows \subseteq N
  BY <1>1
<1> HIDE DEF gone
<1>4. \A x : x \in RowsOf(A \ gone) <=> \E f \in A : f \notin gone /\ x \in f.rows
  BY DEF RowsOf
<1>5. \A x : /\ x \in RowsOf(gone) <=> \E f \in gone : x \in f.rows
             /\ x \in RowsOf(A) <=> \E f \in A : x \in f.rows
             /\ x \in RowsOf(B) <=> \E f \in B : x \in f.rows
  BY DEF RowsOf
<1>6. ASSUME NEW x
      PROVE  x \in RowsOf(A \ gone) \/ (x \in RowsOf(gone) /\ x[2] \notin q)
                <=> x \in RowsOf(A) /\ (x \in N \/ x[2] \notin q)
  BY <1>2, <1>3, <1>4, <1>5
<1>7. ASSUME NEW x
      PROVE  x \in rest /\ x[2] \in q <=> x \in RowsOf(B) /\ x[2] \in q
  BY <1>2, <1>3, <1>5
<1>8. MatchingRows(rest, q) = MatchingRows(RowsOf(B), q)
  <2> HIDE DEF rest
  <2> QED  BY <1>1, <1>7
<1>9. RowsOf(A \ gone) \cup (RowsOf(gone) \ MatchingRows(RowsOf(gone), q))
         = (RowsOf(A) \cap N) \cup (rest \ MatchingRows(rest, q))
  BY <1>1, <1>6
<1> QED  BY <1>8, <1>9 DEF gone, RewritesApart

\* DELETE, UPDATE, MERGE and replaceWhere act on the rows of the version before theirs.
LEMMA RewriteEffect ==
    ASSUME ~CommitInterval, NEW l, NEW v, NEW r, CommittedOn(l, v, r), NEW N, Apart(l, v, r, N),
           l[v].kind \in RewriteKinds, Filter(l[v]) # NONE
    PROVE  LET rest == Rest(l, v, N)
               q == Filter(l[v])
           IN  /\ Content(l, v) = Unread(l, v, N) \cup (rest \ MatchingRows(rest, q))
                                      \cup Inserted(l, l[v].id, r, l[v])
               /\ MatchingRows(rest, q) = MatchingRows(Content(l, r), q)
<1> DEFINE A == Active(l, v - 1)
           B == Active(l, r)
           q == Filter(l[v])
           gone == Matching(B, q)
           new == Inserted(l, l[v].id, r, l[v])
<1>1. l[v].removes = gone /\ gone \subseteq A
  BY LiveRemoves DEF CommittedOn, CommitRows, Exact
<1>2. Content(l, v) = RowsOf(A \ gone) \cup (RowsOf(gone) \ MatchingRows(RowsOf(gone), q)) \cup new
  <2>1. Content(l, v) = RowsOf(A \ l[v].removes) \cup RowsOf(l[v].adds)
    BY ContentStep DEF CommittedOn
  <2>2. RowsOf(l[v].adds) = (RowsOf(l[v].removes) \ MatchingRows(RowsOf(l[v].removes), q)) \cup new
    BY DEF CommittedOn, CommitRows, Exact
  <2> QED  BY <1>1, <2>1, <2>2
<1>3. Content(l, v - 1) = RowsOf(A) /\ Content(l, r) = RowsOf(B)
  BY DEF Content, RowsOf
<1>4. Unread(l, v, N) = RowsOf(A) \cap N /\ Rest(l, v, N) = RowsOf(A) \ (RowsOf(A) \cap N)
  BY <1>3 DEF Unread, Rest
<1>5. /\ \A f \in A : MatchingRows(f.rows, q) # {} => f \in B \/ f.rows \subseteq N
      /\ \A f \in B : f.rows \cap N = {}
      /\ q # NONE
  BY DEF Apart
<1> HIDE DEF A, B, q, new
<1>6. LET rest == RowsOf(A) \ (RowsOf(A) \cap N)
      IN  /\ RowsOf(A \ gone) \cup (RowsOf(gone) \ MatchingRows(RowsOf(gone), q))
                = (RowsOf(A) \cap N) \cup (rest \ MatchingRows(rest, q))
          /\ MatchingRows(rest, q) = MatchingRows(RowsOf(B), q)
  <2>1. RewritesApart(A, B, N, q)
    BY <1>1, <1>5, RowsApart
  <2> QED  BY <2>1 DEF RewritesApart
<1> HIDE DEF gone
<1>7. Content(l, v) = Unread(l, v, N) \cup (Rest(l, v, N) \ MatchingRows(Rest(l, v, N), q)) \cup new
  BY <1>2, <1>4, <1>6
<1>8. MatchingRows(Rest(l, v, N), q) = MatchingRows(Content(l, r), q)
  BY <1>3, <1>4, <1>6
<1> QED  BY <1>7, <1>8 DEF q, new

LEMMA MergeInsertEffect ==
    ASSUME NEW l, NEW v, NEW r, CommittedOn(l, v, r), NEW N, Apart(l, v, r, N), l[v].kind = "merge_insert"
    PROVE  Content(l, v) = Unread(l, v, N) \cup Rest(l, v, N)
                               \cup NewRows(l[v].id, {k \in l[v].src : \A x \in Rest(l, v, N) : x[2] # k})
<1> DEFINE c == l[v]
           rest == Rest(l, v, N)
<1>1. /\ c \in Commit /\ Filter(c) = c.src /\ c.removes = {}
      /\ RowsOf(c.adds) = NewRows(c.id, unmatched(l, r, c.src))
  <2>1. "merge_insert" \notin RewriteKinds \cup CreateKinds
    BY DEF RewriteKinds, CreateKinds
  <2>2. c \in Commit /\ Exact(l, c.id, r, c) /\ c.kind = "merge_insert"
    BY DEF CommittedOn, WellFormed, CommitRows
  <2> HIDE DEF c
  <2> QED  BY <2>1, <2>2 DEF Exact, Filter, Inserted
<1>2. c.src # NONE
  BY <1>1, NoPredicateAssumption DEF Commit
<1>3. ASSUME NEW x \in rest, x[2] \in c.src
      PROVE  \E y \in Content(l, r) : y[2] = x[2]
  <2>1. PICK f \in Active(l, v - 1) : x \in f.rows /\ x \notin N
    BY <1>3 DEF Rest, Unread, Content
  <2>2. MatchingRows(f.rows, Filter(c)) # {}
    BY <1>1, <1>2, <1>3, <2>1 DEF MatchingRows
  <2>3. f \in Active(l, r)
    BY <2>1, <2>2 DEF Apart
  <2> QED  BY <2>1, <2>3 DEF Content
<1>4. ASSUME NEW x \in Content(l, r), x[2] \in c.src
      PROVE  \E y \in rest : y[2] = x[2]
  <2>1. PICK f \in Active(l, r) : x \in f.rows
    BY DEF Content
  <2>2. MatchingRows(f.rows, Filter(c)) # {}
    BY <1>1, <1>2, <1>4, <2>1 DEF MatchingRows
  <2>3. f \in Active(l, v - 1) /\ x \notin N
    BY <2>1, <2>2 DEF Apart
  <2>4. x \in rest
    BY <2>1, <2>3 DEF Rest, Unread, Content
  <2> QED  BY <2>4
<1>5. unmatched(l, r, c.src) = {k \in c.src : \A x \in rest : x[2] # k}
  <2> HIDE DEF c, rest
  <2> QED  BY <1>3, <1>4 DEF unmatched
<1>6. Content(l, v) = RowsOf(Active(l, v - 1) \ c.removes) \cup RowsOf(c.adds)
  BY ContentStep DEF CommittedOn
<1>7. RowsOf(Active(l, v - 1) \ c.removes) = Content(l, v - 1)
  BY <1>1 DEF RowsOf, Content
<1>8. Content(l, v - 1) = Unread(l, v, N) \cup rest
  BY DEF Unread, Rest
<1> HIDE DEF rest, c
<1>9. Content(l, v) = Unread(l, v, N) \cup rest \cup NewRows(c.id, {k \in c.src : \A x \in rest : x[2] # k})
  BY <1>1, <1>5, <1>6, <1>7, <1>8
<1> QED  BY <1>9 DEF rest, c

\* OPTIMIZE moves rows, an append adds its own, and the rest leaves the rows alone.
LEMMA OtherEffect ==
    ASSUME ~CommitInterval, NEW l, NEW v, NEW r, CommittedOn(l, v, r),
           l[v].kind \notin RewriteKinds \cup CreateKinds
                               \cup {"merge_insert", "restore", "filesystem_check"}
    PROVE  Content(l, v) = IF l[v].kind = "append" THEN Content(l, v - 1) \cup NewRows(l[v].id, l[v].src)
                           ELSE Content(l, v - 1)
<1> DEFINE c == l[v]
           A == Active(l, v - 1)
<1>1. Content(l, v) = RowsOf(A \ c.removes) \cup RowsOf(c.adds) /\ Content(l, v - 1) = RowsOf(A)
  BY ContentStep DEF CommittedOn, RowsOf, Content
<1>2. Exact(l, c.id, r, c) /\ c.removes \subseteq A
  BY LiveRemoves DEF CommittedOn, CommitRows
<1> HIDE DEF A
<1>3. CASE c.kind = "optimize"
  <2>1. RowsOf(c.adds) = RowsOf(c.removes)
    BY <1>2, <1>3 DEF Exact
  <2>2. RowsOf(A \ c.removes) \cup RowsOf(c.removes) = RowsOf(A)
    BY <1>2 DEF RowsOf
  <2> QED  BY <1>1, <1>3, <2>1, <2>2
<1>4. CASE c.kind # "optimize"
  <2>1. c.removes = {} /\ RowsOf(c.adds) = Inserted(l, c.id, r, c)
    BY <1>2, <1>4 DEF Exact
  <2>2. Inserted(l, c.id, r, c) = IF c.kind = "append" THEN NewRows(c.id, c.src) ELSE {}
    BY DEF Inserted, RewriteKinds
  <2>3. RowsOf(A \ c.removes) = RowsOf(A)
    BY <2>1 DEF RowsOf
  <2> QED  BY <1>1, <2>1, <2>2, <2>3
<1> QED  BY <1>3, <1>4
-----------------------------------------------------------------------------
(* Every step of the protocol is a step of the serial table.               *)

\* The history after a version is appended: the earlier entries stay.
LEMMA HistoryGrows ==
    ASSUME IInv, NEW v \in Nat, v \notin DOMAIN log, NEW c, log' = Put(log, v, c)
    PROVE  /\ DOMAIN History = DOMAIN log /\ DOMAIN History' = DOMAIN log \cup {v}
           /\ \A u \in DOMAIN log : History'[u] = History[u]
           /\ \A u \in DOMAIN log : History[u].rows = Content(log, u) /\ Content(log', u) = Content(log, u)
           /\ History'[v].op = [kind |-> c.kind, by |-> c.id, pred |-> c.pred, src |-> c.src, target |-> c.target]
           /\ History'[v].rows = Content(log', v)
<1>1. DOMAIN log' = DOMAIN log \cup {v} /\ log'[v] = c /\ \A u \in DOMAIN log : log'[u] = log[u]
  BY DEF Put
<1>2. ASSUME NEW u \in DOMAIN log
      PROVE  Content(log', u) = Content(log, u)
  <2>1. WellFormed(log)
    BY DEF IInv
  <2>2. u \in Nat /\ u < v
    BY <2>1, AboveAll
  <2>3. Active(log', u) = Active(log, u)
    BY SMTT(60), <2>1, <2>2, ActiveOfOlder DEF WellFormed
  <2> QED  BY <2>3 DEF Content
<1> QED  BY <1>1, <1>2 DEF History

\* The next version of the history is the one that is written.
LEMMA NextVersionIs ==
    ASSUME IInv, NEW v \in Nat, v \notin DOMAIN log, v # 0, v - 1 \in DOMAIN log, DOMAIN History = DOMAIN log
    PROVE  Serial!NextVersion = v
<1>1. WellFormed(log)
  BY DEF IInv
<1>2. \A u \in DOMAIN log : u \in Nat /\ u <= v - 1
  BY SMTT(60), <1>1, AboveAll
<1> DEFINE m == CHOOSE w \in DOMAIN log : \A u \in DOMAIN log : u <= w
<1>3. m \in DOMAIN log /\ \A u \in DOMAIN log : u <= m
  BY <1>2
<1>4. m = v - 1
  <2> HIDE DEF m
  <2> QED  BY SMTT(60), <1>2, <1>3
<1>5. Serial!NextVersion = 1 + m
  BY DEF Serial!NextVersion
<1> HIDE DEF m
<1> QED  BY SMTT(60), <1>4, <1>5

\* The operations of the two modules mean the same.
LEMMA SameRows ==
    ASSUME NEW l, NEW u, NEW t, NEW ks, NEW rows, NEW q
    PROVE  /\ NewRows(t, ks) = Serial!New(t, ks)
           /\ MatchingRows(rows, q) = Serial!Match(rows, q)
           /\ unmatched(l, u, ks) = ks \ Serial!KeysOf(Content(l, u))
           /\ {<<t, x[2]>> : x \in rows} = Serial!New(t, Serial!KeysOf(rows))
<1>1. unmatched(l, u, ks) = ks \ Serial!KeysOf(Content(l, u))
  BY DEF unmatched, Serial!KeysOf
<1>2. {<<t, x[2]>> : x \in rows} = Serial!New(t, Serial!KeysOf(rows))
  BY DEF Serial!New, Serial!KeysOf
<1> QED  BY <1>1, <1>2 DEF NewRows, MatchingRows, Serial!New, Serial!Match

\* A version leaves the rows it did not read, and those that its operation leaves when it
\* runs alone on the other rows of the version before.
LEMMA SerialEffect ==
    ASSUME ~CommitInterval, Kinds \subseteq SerialKinds,
           NEW l, NEW v, NEW r, CommittedOn(l, v, r), l[v].id # Seed, NEW N, Apart(l, v, r, N),
           l[v].kind = "restore" => l[v].read = v - 1 /\ History[l[v].target].rows = Content(l, l[v].target),
           NEW op, op = [kind |-> l[v].kind, by |-> l[v].id, pred |-> l[v].pred,
                         src |-> l[v].src, target |-> l[v].target]
    PROVE  Content(l, v) = Unread(l, v, N) \cup Serial!Effect(op, Rest(l, v, N))
<1> DEFINE c == l[v]
           rest == Rest(l, v, N)
           old == Unread(l, v, N)
<1>1. /\ op.kind = c.kind /\ op.by = c.id /\ op.pred = c.pred /\ op.src = c.src /\ op.target = c.target
  OBVIOUS
<1>2. c \in Commit /\ CommitRows(l, c)
  BY DEF CommittedOn, WellFormed
<1>3. /\ c.kind \notin CreateKinds \cup {"filesystem_check"}
      /\ c.kind \in {"overwrite", "delete", "update"} => c.pred # NONE
  BY <1>2 DEF CommitRows, Declared
<1>4. c.src # NONE
  BY <1>2, NoPredicateAssumption DEF Commit
<1>5. c.kind \in RewriteKinds => Filter(c) # NONE
  BY <1>3, <1>4 DEF Filter, RewriteKinds
<1>6. Content(l, v - 1) = old \cup rest
  BY DEF Unread, Rest
<1> HIDE DEF c, rest, old
<1>7. CASE c.kind \in {"overwrite", "delete", "update", "merge"}
  <2> DEFINE q == Filter(c)
             new == Inserted(l, c.id, r, c)
  <2>1. /\ Content(l, v) = old \cup (rest \ MatchingRows(rest, q)) \cup new
        /\ MatchingRows(rest, q) = MatchingRows(Content(l, r), q)
    BY <1>5, <1>7, RewriteEffect DEF RewriteKinds, c, rest, old
  <2>2. MatchingRows(rest, q) = Serial!Match(rest, q)
    BY SameRows
  <2>3. CASE c.kind \in {"overwrite", "merge"}
    <3>1. new = Serial!New(c.id, c.src)
      BY <2>3, SameRows DEF Inserted
    <3>2. q = IF c.kind = "merge" THEN c.src ELSE c.pred
      BY <2>3 DEF Filter
    <3> HIDE DEF q, new
    <3>3. Serial!Effect(op, rest) = (rest \ Serial!Match(rest, q)) \cup new
      BY <1>1, <2>3, <3>1, <3>2 DEF Serial!Effect
    <3> QED  BY <2>1, <2>2, <3>3 DEF rest, old
  <2>4. CASE c.kind = "delete"
    <3>1. new = {} /\ q = c.pred
      BY <2>4 DEF Inserted, Filter
    <3> HIDE DEF q, new
    <3>2. Serial!Effect(op, rest) = rest \ Serial!Match(rest, q)
      BY <1>1, <2>4, <3>1 DEF Serial!Effect
    <3> QED  BY <2>1, <2>2, <3>1, <3>2 DEF rest, old
  <2>5. CASE c.kind = "update"
    <3>1. q = c.pred
      BY <2>5 DEF Filter
    <3>2. new = {<<c.id, x[2]>> : x \in MatchingRows(rest, q)}
      BY <2>1, <2>5, <3>1 DEF Inserted
    <3>3. new = Serial!New(c.id, Serial!KeysOf(Serial!Match(rest, q)))
      BY <2>2, <3>2, SameRows
    <3> HIDE DEF q, new
    <3>4. Serial!Effect(op, rest) = (rest \ Serial!Match(rest, q)) \cup new
      BY <1>1, <2>5, <3>1, <3>3 DEF Serial!Effect
    <3> QED  BY <2>1, <2>2, <3>4 DEF rest, old
  <2> QED  BY <1>7, <2>3, <2>4, <2>5
<1>8. CASE c.kind = "merge_insert"
  <2> DEFINE ks == {k \in c.src : \A x \in rest : x[2] # k}
  <2>1. Content(l, v) = old \cup rest \cup NewRows(c.id, ks)
    BY SMTT(60), <1>8, MergeInsertEffect DEF c, rest, old
  <2>2. ks = c.src \ Serial!KeysOf(rest)
    BY DEF Serial!KeysOf
  <2> HIDE DEF ks
  <2>3. NewRows(c.id, ks) = Serial!New(c.id, c.src \ Serial!KeysOf(rest))
    BY <2>2 DEF NewRows, Serial!New
  <2>4. Serial!Effect(op, rest) = rest \cup NewRows(c.id, ks)
    BY <1>1, <1>8, <2>3 DEF Serial!Effect
  <2> QED  BY <2>1, <2>4 DEF rest, old
<1>9. CASE c.kind = "restore"
  <2>1. Active(l, v) = Active(l, c.target)
    BY <1>2, <1>9, RestoredFiles DEF CommittedOn, c
  <2>2. Content(l, v) = Content(l, c.target)
    BY <2>1 DEF Content
  <2>3. History[c.target].rows = Content(l, c.target) /\ old = {}
    BY <1>9 DEF c, Apart, old, Unread
  <2>4. Serial!Effect(op, rest) = History[c.target].rows
    BY <1>1, <1>9 DEF Serial!Effect
  <2> QED  BY <2>2, <2>3, <2>4 DEF rest, old
<1>10. CASE c.kind \notin {"overwrite", "delete", "update", "merge", "merge_insert", "restore"}
  <2>1. c.kind \notin RewriteKinds \cup CreateKinds \cup {"merge_insert", "restore", "filesystem_check"}
    BY <1>3, <1>10 DEF RewriteKinds
  <2>2. Content(l, v) = IF c.kind = "append" THEN old \cup rest \cup NewRows(c.id, c.src) ELSE old \cup rest
    BY <1>6, <2>1, OtherEffect DEF c
  <2>3. NewRows(c.id, c.src) = Serial!New(c.id, c.src)
    BY SameRows
  <2>4. c.kind \notin {"create", "create_or_replace", "write_new"}
    BY <2>1 DEF CreateKinds
  <2>5. Serial!Effect(op, rest) = IF c.kind = "append" THEN rest \cup NewRows(c.id, c.src) ELSE rest
    BY <1>1, <1>10, <2>3, <2>4 DEF Serial!Effect
  <2> QED  BY <2>2, <2>5 DEF rest, old
<1> QED  BY <1>7, <1>8, <1>9, <1>10

\* At level Serializable there is nothing that a commit did not read.
LEMMA SerializableApart ==
    ASSUME IsolationLevel = "Serializable", Kinds \subseteq SerialKinds,
           NEW l, NEW v, NEW r, CommittedOn(l, v, r), l[v].id # Seed
    PROVE  Apart(l, v, r, {})
<1>1. l[v].kind \in RewriteKinds \cup {"merge_insert"} => Filter(l[v]) # NONE
  BY FilterGiven
<1>2. ASSUME l[v].kind \in RewriteKinds \cup {"merge_insert"}, NEW f \in Active(l, v - 1),
             MatchingRows(f.rows, Filter(l[v])) # {}
      PROVE  f \in Active(l, r)
  BY <1>1, <1>2, MatchesWereRead DEF RewriteKinds
<1>3. ASSUME l[v].kind = "merge_insert", NEW f \in Active(l, r), MatchingRows(f.rows, Filter(l[v])) # {}
      PROVE  f \in Active(l, v - 1)
  <2>1. PICK x \in f.rows : x[2] \in Filter(l[v])
    BY <1>1, <1>3 DEF MatchingRows
  <2> QED  BY <1>1, <1>3, <2>1, ReadFilesStay
<1> QED  BY <1>2, <1>3 DEF Apart

LEMMA SerialInit == Init => Serial!Init
BY SMTT(60) DEF Init, SeedLogs, EmptyLog, Put, History, Serial!Init

LEMMA SerialNext ==
    ASSUME ~CommitInterval, IsolationLevel = "Serializable", Kinds \subseteq SerialKinds,
           IInv, RowInv, [Next]_vars, IInv', RowInv'
    PROVE  [Serial!Next]_History
<1>1. CASE log' = log
  <2>1. History' = History
    BY <1>1 DEF History
  <2> QED  BY <2>1
<1>2. CASE log' # log
  <2>1. PICK t \in Txns, v \in Nat :
          /\ v \notin DOMAIN log /\ log' = Put(log, v, tx[t])
          /\ pc[t] \in {"create", "write"} /\ (v = 0 \/ v - 1 \in DOMAIN log)
    BY <1>2, StepAppends
  <2> DEFINE l == log'
             c == tx[t]
             r == c.read
             op == [kind |-> c.kind, by |-> c.id, pred |-> c.pred, src |-> c.src, target |-> c.target]
  <2>2. DOMAIN l = DOMAIN log \cup {v} /\ l[v] = c
    BY <2>1 DEF Put
  <2>3. /\ WellFormed(l) /\ Planned(l, c) /\ CheckedBelow(l, c, v)
        /\ \A u \in DOMAIN l : CommitRows(l, l[u])
        /\ c.kind = "restore" => r = v - 1
    BY <2>2 DEF IInv, LogOK, RowInv
  <2>4. c \in Commit /\ c.id = t /\ c.id # Seed
    <3>1. c \in Commit
      BY DEF IInv, TypeOK
    <3>2. Owned(t)
      BY DEF RowInv
    <3>3. c.id = t
      BY <3>2 DEF Owned, OwnedAt
    <3> QED  BY <3>1, <3>3, SeedAssumption
  <2>5. r # NONE
    BY <2>2, <2>3, <2>4 DEF CommitRows, Declared
  <2>6. r \in DOMAIN l /\ r \in Nat /\ r < v /\ v # 0 /\ v > 0 /\ v - 1 \in DOMAIN log
    <3>1. r \in DOMAIN l /\ r \in Nat /\ r < v
      BY <2>3, <2>4, <2>5 DEF Planned, CheckedBelow, Commit
    <3> QED  BY SMTT(60), <2>1, <3>1
  <2>7. CommittedOn(l, v, r)
    BY <2>2, <2>3, <2>6 DEF CommittedOn
  <2>8. /\ DOMAIN History = DOMAIN log /\ DOMAIN History' = DOMAIN log \cup {v}
        /\ \A u \in DOMAIN log : History'[u] = History[u]
        /\ \A u \in DOMAIN log : History[u].rows = Content(log, u) /\ Content(l, u) = Content(log, u)
        /\ History'[v].op = op
        /\ History'[v].rows = Content(l, v)
    BY <2>1, HistoryGrows
  <2>9. c.kind = "restore" => History[c.target].rows = Content(l, c.target)
    <3> SUFFICES ASSUME c.kind = "restore"
                 PROVE  c.target \in DOMAIN log
      BY <2>8
    <3>1. l[v].kind = "restore" /\ l[v].read = v - 1 /\ CommitRows(l, l[v]) /\ v \in DOMAIN l
      BY <2>2, <2>3
    <3> HIDE DEF l, c
    <3>2. l[v].target \in DOMAIN l /\ l[v].target < v - 1
      BY <2>3, <3>1, RestoredFiles
    <3> QED  BY SMTT(60), <2>1, <2>2, <3>2
  <2> HIDE DEF l, c
  <2>10. Content(l, v) = Serial!Effect(op, Content(l, v - 1))
    <3>1. Apart(l, v, r, {})
      BY <2>2, <2>4, <2>7, SerializableApart
    <3>2. Content(l, v) = Unread(l, v, {}) \cup Serial!Effect(op, Rest(l, v, {}))
      BY <2>2, <2>3, <2>4, <2>7, <2>9, <3>1, SerialEffect
    <3>3. Unread(l, v, {}) = {} /\ Rest(l, v, {}) = Content(l, v - 1)
      BY DEF Unread, Rest
    <3> QED  BY <3>2, <3>3
  <2>11. op \in Serial!Operation
    BY <2>4 DEF Serial!Operation, Commit, Predicate
  <2>12. Serial!NextVersion = v
    BY <2>1, <2>6, <2>8, NextVersionIs
  <2>13. History[v - 1].rows = Content(l, v - 1)
    BY <2>6, <2>8
  <2>14. Serial!Next
    <3>1. Serial!Effect(History'[v].op, History[v - 1].rows) = History'[v].rows
      BY <2>8, <2>10, <2>13
    <3> QED  BY <2>6, <2>8, <2>11, <2>12, <3>1 DEF Serial!Next
  <2> QED  BY <2>14
<1> QED  BY <1>1, <1>2

\* IsolationLevel::Serializable, for the operations that tell the conflict checker what they
\* read: whatever the number of writers and retries, the log is a serial execution in the
\* order of its versions.  Left out are the operations that declare no read: the overwrite and
\* the DELETE of a whole table, FSCK and the creates, and OPTIMIZE in several commits, whose
\* later commits carry files that were planned on an older snapshot.
THEOREM SerializableHistory ==
    ASSUME ~CommitInterval, IsolationLevel = "Serializable", Kinds \subseteq SerialKinds
    PROVE  Spec => SerialHistory
<1>1. Init => Serial!Init
  BY SerialInit
<1>2. IInv /\ RowInv /\ [Next]_vars => [Serial!Next]_History
  BY NextIInv, NextRows, SerialNext
<1> QED  BY <1>1, <1>2, RowInvariant, PTL DEF Spec, SerialHistory, Serial!Spec

-----------------------------------------------------------------------------
(* WriteSerializable: serial but for the blind appends.                    *)

\* Every row stems from a version at or below the one that added its file, and but for
\* OPTIMIZE an invocation writes one version.
Traced(l) ==
    /\ \A v \in DOMAIN l : Marked(l[v]) /\ (v > 0 => l[v].id # Seed)
    /\ \A u, v \in DOMAIN l : l[u].id = l[v].id /\ l[u].kind # "optimize" => u = v
    /\ \A v \in DOMAIN l : \A f \in l[v].adds : \A x \in f.rows :
          \E u \in DOMAIN l : u <= v /\ l[u].id = x[1] /\ l[u].kind # "optimize"

LEMMA TracedInit == Init /\ RowInv => MarkInv /\ Traced(log)
<1> SUFFICES ASSUME Init, RowInv PROVE MarkInv /\ Traced(log)
  OBVIOUS
<1>1. MarkInv
  BY DEF Init, MarkInv
<1>2. CASE log = EmptyLog
  <2>1. DOMAIN log = {}
    BY <1>2 DEF EmptyLog
  <2> QED  BY <1>1, <2>1 DEF Traced
<1>3. CASE log # EmptyLog
  <2>1. PICK p \in SeedProtocols, ks \in SeedKeys : log = Put(EmptyLog, 0, SeedCommit(p, ks))
    BY <1>3 DEF Init, SeedLogs
  <2>2. Unmarked(SeedCommit(p, ks))
    BY BaseUnmarked DEF SeedCommit, Unmarked
  <2>3. DOMAIN log = {0} /\ Marked(log[0])
    BY <2>1, <2>2 DEF Put, EmptyLog, Marked, Unmarked
  <2>4. 0 <= 0 /\ ~(0 > 0)
    BY SMTT(60)
  <2>5. RowsKnown(log)
    BY DEF RowInv
  <2> QED  BY <1>1, <2>3, <2>4, <2>5 DEF Traced, RowsKnown
<1> QED  BY <1>1, <1>2, <1>3

LEMMA TracedNext ==
    ASSUME IInv, RowInv, MarkInv, Traced(log), [Next]_vars
    PROVE  Traced(log')
<1>1. CASE log' = log
  BY <1>1
<1>2. CASE log' # log
  <2>1. PICK t \in Txns, v \in Nat :
          /\ v \notin DOMAIN log /\ log' = Put(log, v, tx[t])
          /\ pc[t] \in {"create", "write"} /\ (v = 0 \/ v - 1 \in DOMAIN log)
    BY <1>2, StepAppends
  <2> DEFINE l == log'
             c == tx[t]
  <2>2. DOMAIN l = DOMAIN log \cup {v} /\ l[v] = c /\ \A u \in DOMAIN log : l[u] = log[u]
    BY <2>1 DEF Put
  <2>3. \A u \in DOMAIN log : u \in Nat /\ u < v
    BY <2>1, AboveAll DEF IInv
  <2>4. /\ c.id = t /\ CommitRows(log, c) /\ t # Seed /\ Marked(c)
        /\ \A u \in DOMAIN log : log[u].id = t => log[u].kind = "optimize" /\ c.kind = "optimize"
    BY SMTT(60), <2>1, SeedAssumption DEF RowInv, Owned, OwnedAt, MarkInv
  <2>5. ASSUME NEW f \in LogFiles(log), NEW x \in f.rows
        PROVE  \E u \in DOMAIN log : u <= v /\ log[u].id = x[1] /\ log[u].kind # "optimize"
    <3>1. PICK w \in DOMAIN log : f \in log[w].adds
      BY DEF LogFiles
    <3>2. PICK u \in DOMAIN log : u <= w /\ log[u].id = x[1] /\ log[u].kind # "optimize"
      BY <3>1 DEF Traced
    <3> QED  BY SMTT(60), <2>3, <3>1, <3>2
  <2>6. ASSUME NEW f \in c.adds, NEW x \in f.rows
        PROVE  \E u \in DOMAIN l : u <= v /\ l[u].id = x[1] /\ l[u].kind # "optimize"
    <3>1. \/ x[1] = t /\ c.kind # "optimize"
          \/ \E g \in LogFiles(log) : x \in g.rows
      BY <2>4, <2>6 DEF CommitRows, Sourced, Active
    <3> HIDE DEF l, c
    <3> QED  BY SMTT(60), <2>2, <2>4, <2>5, <3>1
  <2> HIDE DEF l, c
  <2>7. \A u \in DOMAIN l : Marked(l[u]) /\ (u > 0 => l[u].id # Seed)
    BY <2>2, <2>4 DEF Traced
  <2>8. \A u, w \in DOMAIN l : l[u].id = l[w].id /\ l[u].kind # "optimize" => u = w
    BY <2>2, <2>4 DEF Traced
  <2>9. \A w \in DOMAIN l : \A f \in l[w].adds : \A x \in f.rows :
          \E u \in DOMAIN l : u <= w /\ l[u].id = x[1] /\ l[u].kind # "optimize"
    BY SMTT(60), <2>2, <2>6 DEF Traced
  <2> QED  BY <2>7, <2>8, <2>9 DEF Traced, l
<1> QED  BY <1>1, <1>2

\* The rows of a blind append are in no version before it.
LEMMA LateRowsNew ==
    ASSUME NEW l, NEW v, NEW r, CommittedOn(l, v, r), Traced(l), NEW f \in Active(l, r)
    PROVE  f.rows \cap LateRows(l, v) = {}
<1> SUFFICES ASSUME NEW x \in f.rows, x \in LateRows(l, v) PROVE FALSE
  OBVIOUS
<1>1. PICK u \in Late(l, v) : \E g \in l[u].adds : x \in g.rows
  BY DEF LateRows
<1>2. u \in DOMAIN l /\ l[u].blind /\ r < u /\ l[u].kind = "append" /\ CommitRows(l, l[u])
  BY <1>1 DEF Late, CommittedOn, Traced, Marked
<1>3. x[1] = l[u].id
  <2>1. RowsOf(l[u].adds) = NewRows(l[u].id, l[u].src)
    BY <1>2 DEF CommitRows, Exact, Inserted, RewriteKinds, CreateKinds
  <2> QED  BY SMTT(60), <1>1, <2>1 DEF RowsOf, NewRows
<1>4. PICK w \in DOMAIN l : w <= r /\ f \in l[w].adds
  BY DEF Active, AddedAndKept
<1>5. PICK s \in DOMAIN l : s <= w /\ l[s].id = x[1] /\ l[s].kind # "optimize"
  BY <1>4 DEF Traced
<1>6. s = u
  BY <1>2, <1>3, <1>5 DEF Traced
<1>7. s \in Nat /\ w \in Nat /\ r \in Nat
  BY <1>4, <1>5 DEF CommittedOn, WellFormed
<1> QED  BY SMTT(60), <1>2, <1>4, <1>5, <1>6, <1>7

LEMMA BlindApart ==
    ASSUME IsolationLevel # "SnapshotIsolation", Kinds \subseteq SerialKinds,
           NEW l, NEW v, NEW r, CommittedOn(l, v, r), Traced(l),
           l[v].kind = "restore" => r = v - 1
    PROVE  Apart(l, v, r, LateRows(l, v))
<1>0. l[v].id # Seed /\ v \in DOMAIN l /\ v > 0
  BY DEF CommittedOn, Traced
<1>1. l[v].kind \in RewriteKinds \cup {"merge_insert"} => Filter(l[v]) # NONE
  BY <1>0, FilterGiven
<1>2. ASSUME l[v].kind \in RewriteKinds \cup {"merge_insert"}, NEW f \in Active(l, v - 1),
             MatchingRows(f.rows, Filter(l[v])) # {}
      PROVE  f \in Active(l, r) \/ f.rows \subseteq LateRows(l, v)
  <2>1. f \in Active(l, r) \/ \E w \in Late(l, v) : f \in l[w].adds
    BY <1>1, <1>2, MatchesWereRead DEF RewriteKinds
  <2> QED  BY <2>1 DEF LateRows
<1>3. ASSUME l[v].kind = "merge_insert", NEW f \in Active(l, r), MatchingRows(f.rows, Filter(l[v])) # {}
      PROVE  f \in Active(l, v - 1)
  <2>1. PICK x \in f.rows : x[2] \in Filter(l[v])
    BY <1>1, <1>3 DEF MatchingRows
  <2>2. \A u \in DOMAIN l : Marked(l[u])
    BY DEF Traced
  <2> QED  BY <1>1, <1>3, <2>1, <2>2, ReadFilesStay
<1>4. ASSUME l[v].kind = "restore"
      PROVE  LateRows(l, v) = {}
  <2>1. Late(l, v) = {}
    BY SMTT(60), <1>4 DEF Late, CommittedOn, WellFormed
  <2> QED  BY <2>1 DEF LateRows
<1> QED  BY <1>2, <1>3, <1>4, LateRowsNew DEF Apart

LEMMA SerialApart ==
    ASSUME ~CommitInterval, IsolationLevel # "SnapshotIsolation", Kinds \subseteq SerialKinds,
           IInv, RowInv, Traced(log)
    PROVE  SerialButForBlindAppends
<1> SUFFICES ASSUME NEW v \in DOMAIN log, v > 0
             PROVE  Content(log, v) = Unread(log, v, LateRows(log, v))
                        \cup Serial!Effect(History[v].op, Rest(log, v, LateRows(log, v)))
  BY DEF SerialButForBlindAppends, Unread, Rest, LateRows, Late
<1> DEFINE c == log[v]
           r == c.read
           op == [kind |-> c.kind, by |-> c.id, pred |-> c.pred, src |-> c.src, target |-> c.target]
<1>1. /\ WellFormed(log) /\ c \in Commit /\ c.id # Seed /\ v \in Nat
      /\ Planned(log, c) /\ CheckedBelow(log, c, v)
      /\ \A u \in DOMAIN log : CommitRows(log, log[u])
      /\ c.kind = "restore" => r = v - 1
  BY DEF IInv, LogOK, WellFormed, RowInv, Traced
<1>2. r # NONE
  BY <1>1 DEF CommitRows, Declared
<1>3. r \in DOMAIN log /\ r \in Nat /\ r < v
  BY <1>1, <1>2 DEF Planned, CheckedBelow, Commit
<1>4. CommittedOn(log, v, r)
  BY <1>1, <1>3 DEF CommittedOn
<1>5. Apart(log, v, r, LateRows(log, v))
  BY <1>1, <1>4, BlindApart
<1>6. c.kind = "restore" => c.read = v - 1 /\ History[c.target].rows = Content(log, c.target)
  <2> SUFFICES ASSUME c.kind = "restore"
               PROVE  c.read = v - 1 /\ c.target \in DOMAIN log
    BY DEF History
  <2> QED  BY <1>1, RestoredFiles
<1>7. History[v].op = op
  BY DEF History
<1> HIDE DEF op
<1>8. Content(log, v) = Unread(log, v, LateRows(log, v)) \cup Serial!Effect(op, Rest(log, v, LateRows(log, v)))
  BY SMTT(60), <1>1, <1>4, <1>5, <1>6, SerialEffect DEF op
<1> QED  BY <1>7, <1>8

\* IsolationLevel::WriteSerializable, for the operations that tell the conflict checker what
\* they read: whatever the number of writers and retries, a version leaves the rows of the
\* blind appends that won since its snapshot alone, and does to all other rows of the version
\* before it what its operation does when it runs on them alone.
THEOREM BlindAppendsApart ==
    ASSUME ~CommitInterval, IsolationLevel # "SnapshotIsolation", Kinds \subseteq SerialKinds
    PROVE  Spec => []SerialButForBlindAppends
<1>1. Init /\ RowInv => MarkInv /\ Traced(log)
  BY TracedInit
<1>2. IInv /\ RowInv /\ MarkInv /\ Traced(log) /\ [Next]_vars => MarkInv' /\ Traced(log)'
  BY NextMark, TracedNext
<1>3. IInv /\ RowInv /\ Traced(log) => SerialButForBlindAppends
  BY SerialApart
<1> QED  BY <1>1, <1>2, <1>3, RowInvariant, PTL DEF Spec
=============================================================================
