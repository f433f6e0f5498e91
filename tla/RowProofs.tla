------------------------------ MODULE RowProofs ------------------------------
(***************************************************************************)
(* What CommitProtocol does to the rows of a table, for any number of      *)
(* writers, operations and versions.  The invariant relates every commit,  *)
(* in the log or in flight, to the snapshot it was planned on: which rows  *)
(* it takes out, which it puts in, and whose they are.                     *)
(***************************************************************************)
EXTENDS CommitProofs

\* A step gets up to a minute of each prover unless it names its own.
USE ZenonT(60), SMTT(60)

-----------------------------------------------------------------------------
(* What a commit does to the rows of the table, and whose commit it is.    *)

CommitRows(l, c) ==
    /\ Sourced(l, c.id, c.read, c) /\ Exact(l, c.id, c.read, c)
    /\ c.id # Seed => Declared(c)
    /\ ProtocolOnly(c) /\ Permitted(l, c.read, c)
    /\ c.removes \subseteq LogFiles(l)
    /\ \A g \in c.removes : \A x \in g.rows : x[1] # c.id
    /\ c.read = NONE => c.metadata # NONE /\ c.kind \in CreateKinds

\* Every row in the log was written by an invocation that is in the log.
RowsKnown(l) ==
    \A v \in DOMAIN l : \A f \in l[v].adds : \A x \in f.rows :
        \E u \in DOMAIN l : l[u].id = x[1] /\ l[u].kind # "optimize"

\* An invocation commits again only on a snapshot that holds its earlier commits.
OwnCommits(l) ==
    \A u, v \in DOMAIN l : u < v /\ l[u].id = l[v].id => l[v].read # NONE /\ u <= l[v].read

\* What an invocation t that is at p with result res has in the log l and in flight: its
\* commit c, planned and checked up to sn, the bins b it has still to commit, m commits made.
OwnedAt(l, t, p, c, sn, b, m, res) ==
    /\ c.id = t
    /\ b \subseteq LogFiles(l)
    /\ p = "idle" => b = {}
    /\ b # {} => c.kind = "optimize" /\ p \in {"list", "check", "write", "done"}
    /\ p \in {"create", "reload", "list", "check", "write"} => CommitRows(l, c)
    /\ res # "none" => p = "done"
    /\ res = "committed" => \E v \in DOMAIN l : l[v] = c
    /\ \A u \in DOMAIN l : l[u].id = t =>
          IF p = "done" THEN m > 0 \/ res \in {"committed", "error"}
          ELSE /\ m > 0 /\ l[u].kind = "optimize" /\ c.kind = "optimize"
               /\ p \in {"list", "check", "write"} /\ c.read # NONE /\ u <= c.read
    /\ p \in {"list", "check", "write"} /\ c.kind = "restore" => sn = c.read /\ p # "check"

Owned(t) == OwnedAt(log, t, pc[t], tx[t], snap[t], bins[t], made[t], result[t])

RowInv ==
    /\ \A v \in DOMAIN log : CommitRows(log, log[v])
    /\ \A v \in DOMAIN log : log[v].kind = "restore" => log[v].read = v - 1
    /\ RowsKnown(log) /\ OwnCommits(log)
    /\ \A t \in Txns : Owned(t)

LEMMA SeedRows ==
    ASSUME NEW p \in Protocol, NEW ks \in SUBSET Keys
    PROVE  CreateRows(Seed, SeedCommit(p, ks))
<1> DEFINE add == NonEmptyFile(NewFile(Seed, 0, NewRows(Seed, ks)))
           m == [by |-> Seed, append_only |-> FALSE, allowed |-> Keys, ntz |-> FALSE]
<1>1. (\A f, g \in add : f = g) /\ \A f \in add : \A x \in f.rows : x[1] = Seed
  BY SMTT(60) DEF NonEmptyFile, NewFile, NewRows
<1>2. SeedCommit(p, ks).metadata # NONE
  BY SeedCommitOK DEF CreateOK
<1> HIDE DEF add, m
<1>3. SeedCommit(p, ks) = [Base(Seed, "write_new", NONE) EXCEPT !.src = ks, !.protocol = p,
                              !.metadata = m, !.adds = add]
  BY DEF SeedCommit, m, add
<1>4. /\ SeedCommit(p, ks).kind = "write_new" /\ SeedCommit(p, ks).adds = add
      /\ SeedCommit(p, ks).removes = {} /\ SeedCommit(p, ks).data_change = TRUE
  BY <1>3 DEF Base
<1> QED  BY <1>1, <1>2, <1>4 DEF CreateRows, CreateKinds

-----------------------------------------------------------------------------
(* Every step keeps the invariant on rows.                                 *)

\* A version that a log without gaps does not have is above all it has.
LEMMA AboveAll ==
    ASSUME NEW l, WellFormed(l), NEW v \in Nat, v \notin DOMAIN l, NEW w \in DOMAIN l
    PROVE  w \in Nat /\ w < v
<1>1. w \in Nat /\ 0 .. w \subseteq DOMAIN l
  BY DEF WellFormed
<1> QED  BY SMTT(60), <1>1

\* Appending a version loses nothing of what is known about a commit.
LEMMA PutRows ==
    ASSUME NEW l, WellFormed(l), NEW v \in Nat, v \notin DOMAIN l, NEW c \in Commit,
           v = 0 \/ v - 1 \in DOMAIN l, v = 0 => c.metadata # NONE /\ c.protocol # NONE,
           NEW d \in Commit, Planned(l, d), CommitRows(l, d)
    PROVE  CommitRows(Put(l, v, c), d)
<1> DEFINE k == Put(l, v, c)
<1>1. DOMAIN k = DOMAIN l \cup {v} /\ \A w \in DOMAIN l : w \in Nat /\ w < v /\ k[w] = l[w]
  <2>1. DOMAIN k = DOMAIN l \cup {v} /\ \A w \in DOMAIN l : k[w] = l[w]
    BY DEF Put
  <2> HIDE DEF k
  <2> QED  BY <2>1, AboveAll
<1>2. LogFiles(l) \subseteq LogFiles(k)
  <2> HIDE DEF k
  <2> QED  BY <1>1 DEF LogFiles
<1>3. \A r \in DOMAIN l : Active(k, r) = Active(l, r)
  BY SMTT(60), <1>1, ActiveOfOlder DEF WellFormed
<1>4. \A r \in DOMAIN l : MetadataAt(k, r) = MetadataAt(l, r) /\ ProtocolAt(k, r) = ProtocolAt(l, r)
  BY SMTT(60), <1>1, MetadataOfOlder, ProtocolOfOlder
<1>5. d.read # NONE => d.read \in DOMAIN l
  BY DEF Planned
<1> HIDE DEF k
<1>6. CASE d.read = NONE
  <2>1. d.metadata # NONE /\ d.kind \in CreateKinds
    BY <1>6 DEF CommitRows
  <2>2. d.kind \notin RewriteKinds \cup {"restore", "optimize", "merge", "merge_insert", "filesystem_check"}
    BY <2>1 DEF CreateKinds, RewriteKinds
  <2>3. Sourced(k, d.id, d.read, d)
    BY <2>1, <2>2 DEF CommitRows, Sourced
  <2>4. Exact(k, d.id, d.read, d)
    BY <2>1, <2>2 DEF CommitRows, Exact
  <2>5. CommitRows(k, d)
    BY <1>2, <1>6, <2>3, <2>4 DEF CommitRows, Permitted
  <2> QED  BY <2>5 DEF k
<1>7. CASE d.read # NONE
  <2>1. d.read \in DOMAIN l
    BY <1>5, <1>7
  <2>2. Permitted(k, d.read, d)
    BY <1>4, <2>1 DEF CommitRows, Permitted, append_only_enabled
  <2>3. Sourced(k, d.id, d.read, d)
    <3>1. CASE d.kind = "restore"
      <4>1. Sourced(l, d.id, d.read, d)
        BY DEF CommitRows
      <4>2. /\ d.metadata # NONE /\ d.target \in DOMAIN l /\ d.target < d.read
            /\ d.adds = Active(l, d.target) \ Active(l, d.read)
            /\ d.removes = Active(l, d.read) \ Active(l, d.target)
        BY <3>1, <4>1 DEF Sourced
      <4> QED  BY <1>1, <1>3, <2>1, <3>1, <4>2 DEF Sourced
    <3>2. CASE d.kind # "restore"
      BY <1>1, <1>4, <2>1, <3>2 DEF CommitRows, Sourced
    <3> QED  BY <3>1, <3>2
  <2>4. Exact(k, d.id, d.read, d)
    <3>1. Active(k, d.read) = Active(l, d.read)
      BY <1>3, <2>1
    <3>2. Content(k, d.read) = Content(l, d.read)
      BY <3>1 DEF Content
    <3>3. Inserted(k, d.id, d.read, d) = Inserted(l, d.id, d.read, d)
      BY <3>2 DEF Inserted, unmatched
    <3> QED  BY <3>1, <3>3 DEF CommitRows, Exact
  <2>5. CommitRows(k, d)
    BY <1>2, <1>7, <2>2, <2>3, <2>4 DEF CommitRows
  <2> QED  BY <2>5 DEF k
<1> QED  BY <1>6, <1>7

\* A step of t that leaves the log and the other invocations alone.
LEMMA LocalRows ==
    ASSUME IInv, RowInv, NEW t \in Txns, UNCHANGED log, Owned(t)',
           \A x \in Txns \ {t} : /\ pc'[x] = pc[x] /\ tx'[x] = tx[x] /\ snap'[x] = snap[x]
                                 /\ bins'[x] = bins[x] /\ made'[x] = made[x] /\ result'[x] = result[x]
    PROVE  RowInv'
<1>1. ASSUME NEW x \in Txns \ {t}
      PROVE  Owned(x)'
  <2>1. Owned(x)
    BY DEF RowInv
  <2> QED  BY <2>1 DEF Owned
<1> QED  BY <1>1 DEF RowInv

\* What t owns is not disturbed by the commits of others.
LEMMA OwnedGrows ==
    ASSUME NEW t, Owned(t),
           pc[t] \in {"create", "reload", "list", "check", "write"} => CommitRows(log', tx[t]),
           bins[t] \subseteq LogFiles(log'),
           \A u \in DOMAIN log' : log'[u].id = t => u \in DOMAIN log /\ log[u].id = t /\ log'[u] = log[u],
           (\E u \in DOMAIN log : log[u] = tx[t]) => \E u \in DOMAIN log' : log'[u] = tx[t],
           pc'[t] = pc[t] /\ tx'[t] = tx[t] /\ snap'[t] = snap[t],
           bins'[t] = bins[t] /\ made'[t] = made[t] /\ result'[t] = result[t]
    PROVE  Owned(t)'
<1>1. OwnedAt(log', t, pc[t], tx[t], snap[t], bins[t], made[t], result[t])
  BY DEF Owned, OwnedAt
<1> QED  BY <1>1 DEF Owned

\* What t has in flight, as the log reads it once t has written it as version v.
LEMMA WrittenRows ==
    ASSUME IInv, RowInv, NEW t \in Txns, pc[t] \in {"create", "write"},
           NEW v \in Nat, v \notin DOMAIN log, v = IF pc[t] = "create" THEN 0 ELSE snap[t] + 1,
           log' = Put(log, v, tx[t]), Owned(t)',
           \A x \in Txns \ {t} : /\ pc'[x] = pc[x] /\ tx'[x] = tx[x] /\ snap'[x] = snap[x]
                                 /\ bins'[x] = bins[x] /\ made'[x] = made[x] /\ result'[x] = result[x]
    PROVE  RowInv'
<1> DEFINE c == tx[t]
<1>1. /\ WellFormed(log) /\ LogOK /\ c \in Commit /\ c.id = t /\ CommitRows(log, c) /\ Owned(t)
      /\ FlightOK(t) /\ snap[t] \in Nat
  BY SMTT(60) DEF IInv, TypeOK, RowInv, Owned, OwnedAt
<1>2. /\ v = 0 \/ v - 1 \in DOMAIN log
      /\ v = 0 => c.metadata # NONE /\ c.protocol # NONE
      /\ Planned(log, c)
      /\ c.kind = "restore" => c.read = v - 1
  <2>1. CASE pc[t] = "create"
    <3>1. c.read = NONE /\ c.kind # "restore" /\ v = 0 /\ CreateOK(t, c)
      BY <1>1, <2>1 DEF FlightOK, CreateOK, CommitRows, CreateKinds
    <3> QED  BY <3>1 DEF CreateOK, Planned
  <2>2. CASE pc[t] = "write"
    <3>1. LoopOK(t) /\ v = snap[t] + 1 /\ v - 1 = snap[t] /\ v # 0
      BY SMTT(60), <1>1, <2>2 DEF FlightOK
    <3> QED  BY <1>1, <2>2, <3>1 DEF LoopOK, Owned, OwnedAt
  <2> QED  BY <2>1, <2>2
<1>3. /\ DOMAIN log' = DOMAIN log \cup {v} /\ log'[v] = c
      /\ \A w \in DOMAIN log : w \in Nat /\ w < v /\ log'[w] = log[w]
  <2>1. DOMAIN log' = DOMAIN log \cup {v} /\ log'[v] = c /\ \A w \in DOMAIN log : log'[w] = log[w]
    BY DEF Put
  <2> QED  BY <1>1, <2>1, AboveAll
<1>4. \A d \in Commit : Planned(log, d) /\ CommitRows(log, d) => CommitRows(log', d)
  BY <1>1, <1>2, PutRows
<1>5. LogFiles(log) \subseteq LogFiles(log')
  BY SMTT(60), <1>3 DEF LogFiles
<1> HIDE DEF c
<1>6. ASSUME NEW u \in DOMAIN log'
      PROVE  CommitRows(log', log'[u]) /\ (log'[u].kind = "restore" => log'[u].read = u - 1)
  <2>1. CASE u = v
    BY <1>1, <1>2, <1>3, <1>4, <2>1
  <2>2. CASE u \in DOMAIN log
    <3>1. log[u] \in Commit /\ Planned(log, log[u]) /\ CommitRows(log, log[u])
      BY <1>1, <2>2 DEF WellFormed, LogOK, RowInv
    <3> QED  BY SMTT(60), <1>3, <1>4, <2>2, <3>1 DEF RowInv
  <2> QED  BY <1>3, <2>1, <2>2
<1>7. \A f \in LogFiles(log) : \A x \in f.rows : \E u \in DOMAIN log : log[u].id = x[1] /\ log[u].kind # "optimize"
  BY SMTT(60) DEF RowInv, RowsKnown, LogFiles
<1>8. RowsKnown(log')
  <2> SUFFICES ASSUME NEW u \in DOMAIN log', NEW f \in log'[u].adds, NEW x \in f.rows
               PROVE  \E w \in DOMAIN log' : log'[w].id = x[1] /\ log'[w].kind # "optimize"
    BY DEF RowsKnown
  <2>1. ASSUME NEW g \in LogFiles(log), x \in g.rows
        PROVE  \E w \in DOMAIN log' : log'[w].id = x[1] /\ log'[w].kind # "optimize"
    BY SMTT(60), <1>3, <1>7, <2>1
  <2>2. CASE u \in DOMAIN log
    <3>1. f \in LogFiles(log)
      BY SMTT(60), <1>3, <2>2 DEF LogFiles
    <3> QED  BY <2>1, <3>1
  <2>3. CASE u = v /\ c.kind = "restore"
    <3>1. f \in LogFiles(log)
      BY <1>1, <1>3, <2>3 DEF CommitRows, Sourced, Active
    <3> QED  BY <2>1, <3>1
  <2>4. CASE u = v /\ c.kind # "restore"
    <3>1. (x[1] = t /\ c.kind # "optimize") \/ \E g \in c.removes : x \in g.rows
      BY <1>1, <1>3, <2>4 DEF CommitRows, Sourced
    <3>2. c.removes \subseteq LogFiles(log)
      BY <1>1 DEF CommitRows
    <3> QED  BY SMTT(60), <1>1, <1>3, <2>1, <3>1, <3>2
  <2> QED  BY <1>3, <2>2, <2>3, <2>4
<1>9. OwnCommits(log')
  <2> SUFFICES ASSUME NEW u \in DOMAIN log', NEW w \in DOMAIN log', u < w, log'[u].id = log'[w].id
               PROVE  log'[w].read # NONE /\ u <= log'[w].read
    BY SMTT(60) DEF OwnCommits
  <2>1. u \in DOMAIN log
    BY SMTT(60), <1>3
  <2>2. CASE w \in DOMAIN log
    BY SMTT(60), <1>3, <2>1, <2>2 DEF RowInv, OwnCommits
  <2>3. CASE w = v
    BY SMTT(60), <1>1, <1>3, <2>1, <2>3 DEF Owned, OwnedAt, c
  <2> QED  BY <1>3, <2>2, <2>3
<1>10. ASSUME NEW x \in Txns \ {t}
       PROVE  Owned(x)'
  <2>1. Owned(x) /\ FlightOK(x) /\ tx[x] \in Commit
    BY DEF RowInv, IInv, TypeOK
  <2>2. pc[x] \in {"create", "reload", "list", "check", "write"} => Planned(log, tx[x])
    BY <2>1 DEF FlightOK, LoopOK, CreateOK, Planned
  <2>3. pc[x] \in {"create", "reload", "list", "check", "write"} => CommitRows(log', tx[x])
    BY <1>4, <2>1, <2>2 DEF Owned, OwnedAt
  <2>4. \A u \in DOMAIN log' : log'[u].id = x => u \in DOMAIN log /\ log[u].id = x /\ log'[u] = log[u]
    BY SMTT(60), <1>1, <1>3
  <2>5. (\E u \in DOMAIN log : log[u] = tx[x]) => \E u \in DOMAIN log' : log'[u] = tx[x]
    BY <1>3
  <2>6. bins[x] \subseteq LogFiles(log')
    BY <1>5, <2>1 DEF Owned, OwnedAt
  <2>7. /\ pc'[x] = pc[x] /\ tx'[x] = tx[x] /\ snap'[x] = snap[x]
        /\ bins'[x] = bins[x] /\ made'[x] = made[x] /\ result'[x] = result[x]
    OBVIOUS
  <2> QED  BY <2>1, <2>3, <2>4, <2>5, <2>6, <2>7, OwnedGrows
<1> QED  BY <1>6, <1>8, <1>9, <1>10 DEF RowInv

-----------------------------------------------------------------------------
(* The actions.                                                            *)

\* An invocation that has planned nothing has no version in the log.
LEMMA NotYet ==
    ASSUME RowInv, NEW t \in Txns, pc[t] \in {"idle", "create", "reload"}
    PROVE  bins[t] = {} /\ result[t] = "none" /\ \A u \in DOMAIN log : log[u].id # t
<1>1. Owned(t)
  BY DEF RowInv
<1> QED  BY <1>1 DEF Owned, OwnedAt

LEMMA PrepareRows ==
    ASSUME IInv, RowInv, NEW t \in Txns, pc[t] = "idle", NEW r \in DOMAIN log, NEW c,
           PlanOK(log, t, r, c), PlanRows(log, t, r, c), Prepare(t, r, c),
           UNCHANGED <<log, made>>, bins' = [bins EXCEPT ![t] = bins'[t]],
           bins'[t] = {} \/ (bins'[t] \subseteq LogFiles(log) /\ c.kind = "optimize")
    PROVE  RowInv'
<1>1. /\ tx' = [tx EXCEPT ![t] = c] /\ snap' = [snap EXCEPT ![t] = r]
      /\ \/ pc' = [pc EXCEPT ![t] = "done"] /\ \E x \in {"rejected", "noop"} : result' = [result EXCEPT ![t] = x]
         \/ pc' = [pc EXCEPT ![t] = "list"] /\ result' = result /\ can_commit(log, r, c)
  BY DEF Prepare, Return, Goto
<1>2. TypeOK /\ WellFormed(log) /\ r \in Nat
  BY DEF IInv, WellFormed
<1>3. /\ tx'[t] = c /\ snap'[t] = r
      /\ \/ pc'[t] = "done" /\ result'[t] \in {"rejected", "noop"}
         \/ pc'[t] = "list" /\ result'[t] = result[t] /\ can_commit(log, r, c)
  BY <1>1, <1>2 DEF TypeOK
<1>4. result[t] = "none" /\ \A u \in DOMAIN log : log[u].id # t
  BY NotYet
<1>5. c.id = t /\ c.read = r /\ c.removes \subseteq LogFiles(log) /\ r # NONE
  BY <1>2, NoneAssumption DEF PlanOK, Active
<1>6. pc'[t] = "list" => CommitRows(log, c)
  <2>1. can_commit(log, r, c) => Permitted(log, r, c)
    BY DEF can_commit, Permitted
  <2>2. \A g \in c.removes : \A x \in g.rows : x[1] # c.id
    BY SMTT(60), <1>4, <1>5 DEF RowInv, RowsKnown, LogFiles
  <2> QED  BY <1>3, <1>5, <2>1, <2>2 DEF CommitRows, PlanRows
<1>7. Owned(t)'
  BY <1>3, <1>4, <1>5, <1>6 DEF Owned, OwnedAt
<1>8. \A x \in Txns \ {t} : /\ pc'[x] = pc[x] /\ tx'[x] = tx[x] /\ snap'[x] = snap[x]
                            /\ bins'[x] = bins[x] /\ made'[x] = made[x] /\ result'[x] = result[x]
  BY SMTT(60), <1>1, <1>2 DEF TypeOK
<1> QED  BY <1>7, <1>8, LocalRows

LEMMA BeginRows ==
    ASSUME IInv, RowInv, NEW t \in Txns, Begin(t)
    PROVE  RowInv'
<1>1. PICK r \in DOMAIN log, k \in Kinds \ CreateKinds :
        \E e \in Plans(log, t, r, k), o \in CommitProperties : Prepare(t, r, with_commit_properties(e, o))
  BY DEF Begin
<1>2. PICK c : Prepare(t, r, c) /\ PlanOK(log, t, r, c) /\ PlanRows(log, t, r, c)
  <2>1. PICK e \in Plans(log, t, r, k), o \in CommitProperties : Prepare(t, r, with_commit_properties(e, o))
    BY <1>1
  <2>2. PlanOK(log, t, r, e) /\ PlanRows(log, t, r, e)
    BY PlansOK, PlansRows DEF IInv, Writers
  <2>3. LET c == with_commit_properties(e, o) IN PlanOK(log, t, r, c) /\ PlanRows(log, t, r, c)
    BY <2>2, PropertiesType, PropertiesPlan
  <2> QED  BY <2>1, <2>3
<1>4. pc[t] = "idle" /\ UNCHANGED <<log, made, bins>>
  BY DEF Begin
<1>5. bins'[t] = {} /\ bins' = [bins EXCEPT ![t] = bins'[t]]
  BY <1>4, NotYet DEF IInv, TypeOK
<1> QED  BY <1>2, <1>4, <1>5, PrepareRows

LEMMA BeginOptimizeRows ==
    ASSUME IInv, RowInv, NEW t \in Txns, BeginOptimize(t)
    PROVE  RowInv'
<1>1. PICK r \in DOMAIN log, o \in CommitProperties : \E b1, b2 \in SUBSET Active(log, r) :
        /\ Prepare(t, r, with_commit_properties(rewrite_files(t, r, 0, b1), o))
        /\ bins' = [bins EXCEPT ![t] = b2]
  BY DEF BeginOptimize
<1>2. PICK b1, b2 \in SUBSET Active(log, r) :
        /\ Prepare(t, r, with_commit_properties(rewrite_files(t, r, 0, b1), o))
        /\ bins' = [bins EXCEPT ![t] = b2]
  BY <1>1
<1> DEFINE e == rewrite_files(t, r, 0, b1)
           c == with_commit_properties(e, o)
<1>3. r \in Nat /\ b1 \in SUBSET File /\ t \in Writers
  BY ActiveFiles DEF IInv, WellFormed, Writers
<1>4. PlanOK(log, t, r, e)
  BY SMTT(60), <1>3, RewriteFilesOK DEF PlanOK
<1>5. PlanOK(log, t, r, c) /\ PlanRows(log, t, r, c) /\ c.kind = "optimize"
  <2>1. PlanRows(log, t, r, e) /\ e.kind = "optimize"
    BY <1>3, RewriteFilesRows
  <2> HIDE DEF e
  <2>2. PlanOK(log, t, r, c) /\ PlanRows(log, t, r, c)
    BY <1>4, <2>1, PropertiesType, PropertiesPlan
  <2>3. c.kind = e.kind
    BY <1>4, PropertiesType, PropertiesKeep DEF PlanOK
  <2> QED  BY <2>1, <2>2, <2>3
<1>6. bins'[t] = b2 /\ bins'[t] \subseteq LogFiles(log)
  BY <1>2 DEF IInv, TypeOK, Active
<1>7. pc[t] = "idle" /\ UNCHANGED <<log, made>>
  BY DEF BeginOptimize
<1> HIDE DEF c
<1> QED  BY <1>2, <1>5, <1>6, <1>7, PrepareRows DEF c

\* A commit that creates the table reads and removes nothing.
LEMMA CreatedRows ==
    ASSUME NEW l, NEW t, NEW c, CreateOK(t, c), CreateRows(t, c), t # Seed => Declared(c)
    PROVE  CommitRows(l, c)
<1>1. /\ c.kind \in CreateKinds /\ c.metadata # NONE /\ c.removes = {} /\ c.data_change = TRUE
      /\ c.id = t /\ c.read = NONE
  BY DEF CreateRows, CreateOK
<1>2. c.kind \notin RewriteKinds \cup {"restore", "optimize", "merge", "merge_insert", "filesystem_check"}
  BY <1>1 DEF CreateKinds, RewriteKinds
<1>3. Sourced(l, c.id, c.read, c)
  BY <1>1, <1>2 DEF CreateRows, Sourced
<1>4. Exact(l, c.id, c.read, c)
  BY <1>1, <1>2 DEF Exact
<1> QED  BY <1>1, <1>3, <1>4 DEF CommitRows, ProtocolOnly, Permitted

LEMMA BeginCreateRows ==
    ASSUME IInv, RowInv, NEW t \in Txns, BeginCreate(t)
    PROVE  RowInv'
<1>1. PICK k \in Kinds \cap CreateKinds : \E e \in create(t, k), o \in CommitProperties :
        tx' = [tx EXCEPT ![t] = with_commit_properties(e, o)]
  BY DEF BeginCreate
<1>2. PICK c : tx' = [tx EXCEPT ![t] = c] /\ CreateOK(t, c) /\ CreateRows(t, c)
  <2>1. PICK e \in create(t, k), o \in CommitProperties : tx' = [tx EXCEPT ![t] = with_commit_properties(e, o)]
    BY <1>1
  <2>2. CreateOK(t, e) /\ CreateRows(t, e)
    BY CreatesOK, CreatesRows DEF Writers
  <2>3. LET c == with_commit_properties(e, o) IN CreateOK(t, c) /\ CreateRows(t, c)
    BY <2>2, PropertiesType, PropertiesCreate
  <2> QED  BY <2>1, <2>3
<1>3. /\ tx'[t] = c /\ pc'[t] = "create" /\ bins'[t] = {} /\ result'[t] = "none" /\ UNCHANGED log
      /\ \A u \in DOMAIN log : log[u].id # t
  BY <1>2, NotYet DEF BeginCreate, Goto, IInv, TypeOK
<1>4. CommitRows(log, c)
  <2>1. ~(Kinds \subseteq SerialKinds)
    BY <1>1 DEF SerialKinds, PlanKinds, CreateKinds
  <2> QED  BY <1>2, <2>1, CreatedRows DEF Declared, CreateOK
<1>5. Owned(t)'
  BY <1>2, <1>3, <1>4 DEF Owned, OwnedAt, CreateOK
<1> QED  BY <1>2, <1>5, LocalRows DEF BeginCreate, Goto, IInv, TypeOK

LEMMA BeginCreateExistingRows ==
    ASSUME IInv, RowInv, NEW t \in Txns, BeginCreateExisting(t)
    PROVE  RowInv'
<1>1. pc[t] = "idle" /\ UNCHANGED <<log, bins, made>>
  BY DEF BeginCreateExisting
<1>2. bins[t] = {} /\ result[t] = "none" /\ (\A u \in DOMAIN log : log[u].id # t) /\ Owned(t)
  BY <1>1, NotYet DEF RowInv
<1>3. ASSUME NEW k \in CreateKinds, tx' = [tx EXCEPT ![t].kind = k], NEW r \in {"exists", "noop"},
             Return(t, r), UNCHANGED snap
      PROVE  RowInv'
  <2>1. tx'[t].id = t
    <3>1. tx[t] \in Commit /\ tx'[t] = [tx[t] EXCEPT !.kind = k]
      BY <1>3 DEF IInv, TypeOK
    <3> QED  BY <1>2, <3>1 DEF Commit, Owned, OwnedAt
  <2>2. pc'[t] = "done" /\ result'[t] = r
    BY <1>3 DEF Return, Goto, IInv, TypeOK
  <2>3. Owned(t)'
    BY <1>1, <1>2, <2>1, <2>2 DEF Owned, OwnedAt
  <2> QED  BY <1>1, <1>3, <2>3, LocalRows DEF Return, Goto, IInv, TypeOK
<1>4. ASSUME NEW r \in DOMAIN log, NEW e \in replace_table(log, t, r), NEW o \in CommitProperties,
             Prepare(t, r, with_commit_properties(e, o)), "create_or_replace" \in Kinds
      PROVE  RowInv'
  <2> DEFINE c == with_commit_properties(e, o)
  <2>1. PlanOK(log, t, r, c) /\ PlanRows(log, t, r, c)
    <3>1. PlanOK(log, t, r, e) /\ PlanRows(log, t, r, e)
      BY <1>4, ReplaceTableOK, ReplaceTableRows DEF IInv, Writers
    <3> QED  BY <3>1, PropertiesType, PropertiesPlan
  <2>2. bins'[t] = {} /\ bins' = [bins EXCEPT ![t] = bins'[t]]
    BY <1>1, <1>2 DEF IInv, TypeOK
  <2> QED  BY <1>1, <1>4, <2>1, <2>2, PrepareRows
<1> QED  BY <1>3, <1>4 DEF BeginCreateExisting, CreateKinds

\* Leaving the loop, or staying in it, with the same commit.
LEMMA SameCommit ==
    ASSUME IInv, RowInv, NEW t \in Txns, pc[t] \in {"create", "reload", "list", "check", "write"},
           UNCHANGED <<log, tx, bins, made>>,
           \/ /\ pc'[t] \in {"list", "check", "write"} /\ result'[t] = result[t] /\ pc[t] # "create"
              /\ tx[t].kind = "restore" => snap'[t] = tx[t].read /\ pc'[t] # "check"
           \/ pc'[t] = "reload" /\ result'[t] = result[t] /\ pc[t] = "create"
           \/ pc'[t] = "done" /\ result'[t] \notin {"committed"}
    PROVE  Owned(t)'
<1>1. Owned(t)
  BY DEF RowInv
<1>2. pc[t] \in {"create", "reload"} => bins[t] = {} /\ \A u \in DOMAIN log : log[u].id # t
  BY NotYet
<1>3. result[t] = "none"
  BY <1>1 DEF Owned, OwnedAt
<1> QED  BY <1>1, <1>2, <1>3 DEF Owned, OwnedAt

LEMMA ReloadRows ==
    ASSUME IInv, RowInv, NEW t \in Txns, Reload(t)
    PROVE  RowInv'
<1>1. pc[t] = "reload" /\ UNCHANGED <<log, tx, bins, made>>
  BY DEF Reload
<1>2. tx[t].kind # "restore"
  <2>1. CreateOK(t, tx[t]) /\ CommitRows(log, tx[t])
    BY <1>1 DEF IInv, FlightOK, RowInv, Owned, OwnedAt
  <2> QED  BY <2>1 DEF CreateOK, CommitRows, CreateKinds
<1>3. \/ pc'[t] = "list" /\ result'[t] = result[t]
      \/ pc'[t] = "done" /\ result'[t] = "max_attempts"
  BY SMTT(60) DEF Reload, Retry, Return, Goto, IInv, TypeOK
<1>4. Owned(t)'
  BY <1>1, <1>2, <1>3, SameCommit
<1> QED  BY SMTT(60), <1>4, LocalRows DEF Reload, Retry, Return, Goto, IInv, TypeOK

LEMMA ListRows ==
    ASSUME IInv, RowInv, NEW t \in Txns, List(t)
    PROVE  RowInv'
<1>1. pc[t] = "list" /\ UNCHANGED <<log, tx, snap, bins, made>>
  BY DEF List
<1>2. tx[t].kind = "restore" => max_retries(t) = 0 /\ snap[t] = tx[t].read
  BY <1>1 DEF max_retries, RowInv, Owned, OwnedAt
<1>3. \/ pc'[t] = "write" /\ result'[t] = result[t]
      \/ pc'[t] = "done" /\ result'[t] = "max_attempts"
      \/ pc'[t] = "check" /\ result'[t] = result[t] /\ max_retries(t) # 0
  BY SMTT(60) DEF List, Return, Goto, IInv, TypeOK
<1>4. Owned(t)'
  BY <1>1, <1>2, <1>3, SameCommit
<1>5. \A x \in Txns \ {t} : pc'[x] = pc[x] /\ result'[x] = result[x]
  BY SMTT(60) DEF List, Return, Goto, IInv, TypeOK
<1> QED  BY <1>1, <1>4, <1>5, LocalRows

LEMMA CheckWinnerRows ==
    ASSUME IInv, RowInv, NEW t \in Txns, CheckWinner(t)
    PROVE  RowInv'
<1>1. pc[t] = "check" /\ UNCHANGED <<log, tx, bins, made>>
  BY DEF CheckWinner
<1>2. tx[t].kind # "restore"
  BY <1>1 DEF RowInv, Owned, OwnedAt
<1>3. \/ pc'[t] \in {"check", "write"} /\ result'[t] = result[t]
      \/ pc'[t] = "done" /\ result'[t] = "conflict"
  BY <1>1 DEF CheckWinner, Return, Goto, IInv, TypeOK
<1>4. Owned(t)'
  BY <1>1, <1>2, <1>3, SameCommit
<1>5. \A x \in Txns \ {t} : pc'[x] = pc[x] /\ result'[x] = result[x] /\ snap'[x] = snap[x]
  BY SMTT(60) DEF CheckWinner, Return, Goto, IInv, TypeOK
<1> QED  BY <1>1, <1>4, <1>5, LocalRows

LEMMA WriteInitialRows ==
    ASSUME IInv, RowInv, NEW t \in Txns, WriteInitial(t)
    PROVE  RowInv'
<1>1. pc[t] = "create" /\ UNCHANGED <<tx, snap, bins, made>>
  BY DEF WriteInitial
<1>2. \A x \in Txns \ {t} : pc'[x] = pc[x] /\ result'[x] = result[x]
  BY DEF WriteInitial, Return, Goto, IInv, TypeOK
<1>3. CASE 0 \notin DOMAIN log
  <2>1. log' = Put(log, 0, tx[t]) /\ pc'[t] = "done" /\ result'[t] = "committed"
    BY <1>3 DEF WriteInitial, Return, Goto, IInv, TypeOK
  <2>2. bins[t] = {} /\ Owned(t)
    BY <1>1, NotYet DEF RowInv
  <2>3. 0 \in DOMAIN log' /\ log'[0] = tx[t]
    BY <2>1 DEF Put
  <2>4. Owned(t)'
    BY <1>1, <2>1, <2>2, <2>3 DEF Owned, OwnedAt
  <2> QED  BY <1>1, <1>2, <1>3, <2>1, <2>4, WrittenRows
<1>4. CASE 0 \in DOMAIN log
  <2>1. /\ UNCHANGED log
        /\ \/ pc'[t] = "done" /\ result'[t] = "exists"
           \/ pc'[t] = "reload" /\ result'[t] = result[t]
    BY <1>4 DEF WriteInitial, Return, Goto, IInv, TypeOK
  <2>2. Owned(t)'
    BY <1>1, <2>1, SameCommit
  <2> QED  BY <1>1, <1>2, <2>1, <2>2, LocalRows
<1> QED  BY <1>3, <1>4

LEMMA WriteCommitRows ==
    ASSUME IInv, RowInv, NEW t \in Txns, WriteCommit(t)
    PROVE  RowInv'
<1> DEFINE v == snap[t] + 1
<1>1. /\ pc[t] = "write" /\ Owned(t) /\ snap[t] \in Nat /\ v \in Nat /\ made[t] \in Nat /\ t \in Writers
      /\ bins[t] \in SUBSET File
  BY SMTT(60) DEF WriteCommit, RowInv, IInv, TypeOK, Writers
<1>2. CASE v \in DOMAIN log
  <2>1. Retry(t, attempt[t] + 1) /\ UNCHANGED <<log, tx, snap, bins, made>>
    BY <1>2 DEF WriteCommit
  <2>2. \/ pc'[t] = "list" /\ result'[t] = result[t]
        \/ pc'[t] = "done" /\ result'[t] = "max_attempts"
    BY <2>1 DEF Retry, Return, Goto, IInv, TypeOK
  <2>3. tx[t].kind = "restore" => snap'[t] = tx[t].read
    BY <1>1, <2>1 DEF Owned, OwnedAt
  <2>4. Owned(t)'
    BY <1>1, <2>1, <2>2, <2>3, SameCommit
  <2>5. \A x \in Txns \ {t} : pc'[x] = pc[x] /\ result'[x] = result[x]
    BY <2>1 DEF Retry, Return, Goto, IInv, TypeOK
  <2> QED  BY <2>1, <2>4, <2>5, LocalRows
<1>3. CASE v \notin DOMAIN log
  <2>1. log' = Put(log, v, tx[t]) /\ Committed(t, v)
    BY <1>3 DEF WriteCommit
  <2>2. /\ DOMAIN log' = DOMAIN log \cup {v} /\ log'[v] = tx[t]
        /\ \A u \in DOMAIN log : log'[u] = log[u] /\ u < v /\ u \in Nat
    <3>1. DOMAIN log' = DOMAIN log \cup {v} /\ log'[v] = tx[t] /\ \A u \in DOMAIN log : log'[u] = log[u]
      <4> HIDE DEF v
      <4> QED  BY <1>3, <2>1 DEF Put
    <3>2. WellFormed(log)
      BY DEF IInv
    <3> HIDE DEF v
    <3> QED  BY <1>1, <1>3, <3>1, <3>2, AboveAll
  <2>3. LogFiles(log) \subseteq LogFiles(log')
    <3> HIDE DEF v
    <3> QED  BY <2>2 DEF LogFiles
  <2>4. \A x \in Txns \ {t} : /\ pc'[x] = pc[x] /\ tx'[x] = tx[x] /\ snap'[x] = snap[x]
                              /\ bins'[x] = bins[x] /\ made'[x] = made[x] /\ result'[x] = result[x]
    BY SMTT(60), <2>1 DEF Committed, Return, Goto, IInv, TypeOK
  <2>5. made'[t] = made[t] + 1 /\ made'[t] > 0
    BY SMTT(60), <1>1, <2>1 DEF Committed, IInv, TypeOK
  <2>6. CASE bins[t] = {}
    <3>1. pc'[t] = "done" /\ result'[t] = "committed" /\ UNCHANGED <<tx, snap, bins>>
      BY SMTT(60), <2>1, <2>6 DEF Committed, Return, Goto, IInv, TypeOK
    <3> HIDE DEF v
    <3>2. Owned(t)'
      BY <1>1, <2>2, <2>5, <2>6, <3>1 DEF Owned, OwnedAt
    <3> QED  BY <1>1, <1>3, <2>1, <2>4, <3>2, WrittenRows DEF v
  <2>7. CASE bins[t] # {}
    <3> DEFINE e == rewrite_files(t, v, made[t] + 1, bins[t])
               c == with_commit_properties(e, tx[t])
    <3>1. /\ pc'[t] = "list" /\ result'[t] = result[t] /\ bins'[t] = {} /\ tx'[t] = c
      BY SMTT(60), <2>1, <2>5, <2>7 DEF Committed, Goto, IInv, TypeOK
    <3>0. made[t] + 1 \in Nat /\ IsCommitProperties(tx[t])
      BY SMTT(60), <1>1 DEF IInv, TypeOK, Commit, IsCommitProperties
    <3>9. e \in Commit /\ e.id = t /\ e.read = v /\ e.removes = bins[t]
      <4> HIDE DEF v
      <4> QED  BY SMTT(60), <1>1, <3>0, RewriteFilesOK
    <3>2. c \in Commit /\ c.id = t /\ c.read = v /\ c.removes = bins[t]
      <4> HIDE DEF v, e
      <4> QED  BY <3>0, <3>9, PropertiesKeep
    <3>3. PlanRows(log', t, v, c) /\ Permitted(log', v, c) /\ c.kind = "optimize"
      <4> HIDE DEF v
      <4>1. PlanRows(log', t, v, e) /\ Permitted(log', v, e) /\ e.kind = "optimize"
        BY <1>1, <3>0, RewriteFilesRows
      <4> HIDE DEF e
      <4> QED  BY <3>0, <3>9, <4>1, PropertiesRows
    <3>4. bins[t] \subseteq LogFiles(log) /\ tx[t].kind = "optimize" /\ result[t] = "none"
      BY <1>1, <2>7 DEF Owned, OwnedAt
    <3>5. v # NONE
      BY <1>1, NoneAssumption
    <3> HIDE DEF v, e, c
    <3>6. CommitRows(log', c)
      <4>1. \A u \in DOMAIN log : log[u].id = t => log[u].kind = "optimize"
        BY <1>1 DEF Owned, OwnedAt
      <4>2. \A f \in LogFiles(log) : \A x \in f.rows : x[1] # t
        BY <4>1 DEF RowInv, RowsKnown, LogFiles
      <4>3. \A g \in c.removes : \A x \in g.rows : x[1] # c.id
        BY <3>2, <3>4, <4>2
      <4> QED  BY <2>3, <3>2, <3>3, <3>4, <3>5, <4>3 DEF CommitRows, PlanRows
    <3>7. \A u \in DOMAIN log' : log'[u].id = t => log'[u].kind = "optimize" /\ u <= v
      <4>1. \A u \in DOMAIN log : log[u].id = t => log[u].kind = "optimize"
        BY <1>1 DEF Owned, OwnedAt
      <4> SUFFICES ASSUME NEW u \in DOMAIN log', log'[u].id = t
                   PROVE  log'[u].kind = "optimize" /\ u <= v
        OBVIOUS
      <4>2. CASE u \in DOMAIN log
        BY SMTT(60), <1>1, <2>2, <4>1, <4>2
      <4>3. CASE u = v
        BY SMTT(60), <1>1, <2>2, <3>4, <4>3
      <4> QED  BY <2>2, <4>2, <4>3
    <3>8. Owned(t)'
      BY <2>5, <3>1, <3>2, <3>3, <3>4, <3>5, <3>6, <3>7 DEF Owned, OwnedAt
    <3> QED  BY <1>1, <1>3, <2>1, <2>4, <3>8, WrittenRows DEF v
  <2> QED  BY <2>6, <2>7
<1> QED  BY <1>2, <1>3

LEMMA WriteFailsRows ==
    ASSUME IInv, RowInv, NEW t \in Txns, WriteFails(t)
    PROVE  RowInv'
<1> DEFINE v == IF pc[t] = "create" THEN 0 ELSE snap[t] + 1
<1>1. /\ pc[t] \in {"create", "write"} /\ pc'[t] = "done" /\ result'[t] = "error"
      /\ UNCHANGED <<tx, snap, bins, made>> /\ v \in Nat /\ Owned(t)
  <2>1. /\ pc[t] \in {"create", "write"} /\ pc'[t] = "done" /\ result'[t] = "error"
        /\ UNCHANGED <<tx, snap, bins, made>>
    BY DEF WriteFails, Return, Goto, IInv, TypeOK
  <2>2. v \in Nat
    BY SMTT(60) DEF IInv, TypeOK
  <2>3. Owned(t)
    BY DEF RowInv
  <2> QED  BY <2>1, <2>2, <2>3
<1>2. \A x \in Txns \ {t} : pc'[x] = pc[x] /\ result'[x] = result[x]
  BY DEF WriteFails, Return, Goto, IInv, TypeOK
<1>3. CASE UNCHANGED log
  <2>1. Owned(t)'
    BY <1>1, <1>3, SameCommit
  <2> QED  BY <1>1, <1>2, <1>3, <2>1, LocalRows
<1>4. CASE v \notin DOMAIN log /\ log' = Put(log, v, tx[t])
  <2> HIDE DEF v
  <2>1. LogFiles(log) \subseteq LogFiles(log')
    <3>1. DOMAIN log' = DOMAIN log \cup {v} /\ \A u \in DOMAIN log : log'[u] = log[u]
      BY <1>4 DEF Put
    <3> QED  BY <3>1 DEF LogFiles
  <2>2. Owned(t)'
    BY <1>1, <2>1 DEF Owned, OwnedAt
  <2> QED  BY <1>1, <1>2, <1>4, <2>2, WrittenRows DEF v
<1> QED  BY <1>3, <1>4 DEF WriteFails

LEMMA ReadFailsRows ==
    ASSUME IInv, RowInv, NEW t \in Txns, ReadFails(t)
    PROVE  RowInv'
<1>1. /\ pc[t] \in {"reload", "list", "check"} /\ pc'[t] = "done" /\ result'[t] = "error"
      /\ UNCHANGED <<log, tx, snap, bins, made>>
  BY DEF ReadFails, Return, Goto, IInv, TypeOK
<1>2. Owned(t)'
  BY <1>1, SameCommit
<1>3. \A x \in Txns \ {t} : pc'[x] = pc[x] /\ result'[x] = result[x]
  BY DEF ReadFails, Return, Goto, IInv, TypeOK
<1> QED  BY <1>1, <1>2, <1>3, LocalRows

LEMMA InitRows == Init => RowInv
<1> SUFFICES ASSUME Init PROVE RowInv
  OBVIOUS
<1>1. \A t \in Txns : tx[t].id = t /\ pc[t] = "idle" /\ bins[t] = {} /\ result[t] = "none"
  BY DEF Init, Base
<1>2. CASE log = EmptyLog
  BY <1>1, <1>2 DEF EmptyLog, RowInv, RowsKnown, OwnCommits, Owned, OwnedAt
<1>3. CASE log # EmptyLog
  <2>1. PICK p \in SeedProtocols, ks \in SeedKeys : log = Put(EmptyLog, 0, SeedCommit(p, ks))
    BY <1>3 DEF Init, SeedLogs
  <2>2. CreateOK(Seed, SeedCommit(p, ks)) /\ CreateRows(Seed, SeedCommit(p, ks))
    BY SeedCommitOK, SeedRows, SeedProtocolsAssumption, SeedKeysAssumption
  <2>3. DOMAIN log = {0} /\ CreateOK(Seed, log[0]) /\ CreateRows(Seed, log[0])
    BY <2>1, <2>2 DEF Put, EmptyLog
  <2>4. CommitRows(log, log[0]) /\ log[0].kind # "restore"
    BY <2>3, CreatedRows DEF CreateRows, CreateKinds
  <2>5. RowsKnown(log) /\ OwnCommits(log)
    BY SMTT(60), <2>3 DEF RowsKnown, OwnCommits, CreateOK, CreateRows, CreateKinds
  <2>6. ASSUME NEW t \in Txns
        PROVE  Owned(t)
    <3>1. \A u \in DOMAIN log : log[u].id \notin Txns
      BY <2>3, SeedAssumption DEF CreateOK
    <3>2. /\ tx[t].id = t /\ pc[t] = "idle" /\ bins[t] = {} /\ result[t] = "none"
          /\ \A u \in DOMAIN log : log[u].id # t
      BY SMTT(60), <1>1, <3>1
    <3> QED  BY <3>2 DEF Owned, OwnedAt
  <2> QED  BY <2>3, <2>4, <2>5, <2>6 DEF RowInv
<1> QED  BY <1>2, <1>3

LEMMA NextRows == IInv /\ RowInv /\ [Next]_vars => RowInv'
<1> SUFFICES ASSUME IInv, RowInv, [Next]_vars PROVE RowInv'
  OBVIOUS
<1>1. ASSUME NEW t \in Txns, Begin(t) \/ BeginOptimize(t) \/ BeginCreate(t) \/ BeginCreateExisting(t)
      PROVE  RowInv'
  BY <1>1, BeginRows, BeginOptimizeRows, BeginCreateRows, BeginCreateExistingRows
<1>2. ASSUME NEW t \in Txns, Step(t)
      PROVE  RowInv'
  BY <1>2, WriteInitialRows, ReloadRows, ListRows, CheckWinnerRows, WriteCommitRows DEF Step
<1>3. ASSUME NEW t \in Txns, WriteFails(t) \/ ReadFails(t)
      PROVE  RowInv'
  BY <1>3, WriteFailsRows, ReadFailsRows
<1>4. ASSUME UNCHANGED vars
      PROVE  RowInv'
  <2>1. \A t \in Txns : Owned(t)'
    BY <1>4 DEF vars, RowInv, Owned
  <2> QED  BY <1>4, <2>1 DEF vars, RowInv
<1> QED  BY <1>1, <1>2, <1>3, <1>4 DEF Next, Quiescent

\* What the operations mean to do to the rows of their snapshot is what their commits do,
\* in the log and in flight, through every retry, replacement and further commit of OPTIMIZE.
THEOREM RowInvariant == Spec => [](IInv /\ RowInv)
BY InitIInv, NextIInv, InitRows, NextRows, PTL DEF Spec

-----------------------------------------------------------------------------
(* Commits in flight are marked as blind appends only if they are appends. *)

MarkInv ==
    \A t \in Txns : pc[t] \in {"create", "reload", "list", "check", "write"} => Marked(tx[t])

\* The other invocations keep their commits.
LEMMA LocalMark ==
    ASSUME MarkInv, NEW t \in Txns, \A x \in Txns \ {t} : pc'[x] = pc[x] /\ tx'[x] = tx[x],
           pc'[t] = "done" \/ Marked(tx'[t])
    PROVE  MarkInv'
BY DEF MarkInv

LEMMA PrepareMark ==
    ASSUME IInv, MarkInv, NEW t \in Txns, NEW r, NEW c, Marked(c), Prepare(t, r, c)
    PROVE  MarkInv'
<1>1. tx'[t] = c /\ \A x \in Txns \ {t} : pc'[x] = pc[x] /\ tx'[x] = tx[x]
  BY DEF Prepare, Return, Goto, IInv, TypeOK
<1> QED  BY <1>1, LocalMark

LEMMA WriteCommitMark ==
    ASSUME IInv, MarkInv, NEW t \in Txns, WriteCommit(t)
    PROVE  MarkInv'
<1>1. pc[t] = "write" /\ Marked(tx[t])
  BY DEF WriteCommit, MarkInv
<1>2. CASE snap[t] + 1 \notin DOMAIN log
  <2>1. Committed(t, snap[t] + 1)
    BY <1>2 DEF WriteCommit
  <2>2. \/ tx' = tx /\ pc' = [pc EXCEPT ![t] = "done"]
        \/ /\ tx' = [tx EXCEPT ![t] =
                       with_commit_properties(rewrite_files(t, snap[t] + 1, made'[t], bins[t]), tx[t])]
           /\ pc' = [pc EXCEPT ![t] = "list"]
    BY <2>1 DEF Committed, Return, Goto
  <2>3. Marked(with_commit_properties(rewrite_files(t, snap[t] + 1, made'[t], bins[t]), tx[t]))
    <3>1. Unmarked(with_commit_properties(rewrite_files(t, snap[t] + 1, made'[t], bins[t]), tx[t]))
      BY RewriteFilesUnmarked, PropertiesUnmarked
    <3> QED  BY <3>1 DEF Marked, Unmarked
  <2> QED  BY SMTT(60), <1>1, <2>2, <2>3, LocalMark DEF IInv, TypeOK
<1>3. CASE snap[t] + 1 \in DOMAIN log
  <2>1. tx' = tx /\ \A x \in Txns \ {t} : pc'[x] = pc[x]
    BY <1>3 DEF WriteCommit, Retry, Return, Goto, IInv, TypeOK
  <2> QED  BY <1>1, <2>1, LocalMark
<1> QED  BY <1>2, <1>3

LEMMA NextMark ==
    ASSUME Kinds \subseteq SerialKinds, IInv, MarkInv, [Next]_vars
    PROVE  MarkInv'
<1>1. Kinds \cap CreateKinds = {}
  BY DEF SerialKinds, PlanKinds, CreateKinds
<1>2. ASSUME NEW t \in Txns, Begin(t)
      PROVE  MarkInv'
  <2>1. PICK r \in DOMAIN log, k \in Kinds \ CreateKinds :
          \E c \in Plans(log, t, r, k), o \in CommitProperties : Prepare(t, r, with_commit_properties(c, o))
    BY <1>2 DEF Begin
  <2>2. PICK c \in Plans(log, t, r, k), o \in CommitProperties : Prepare(t, r, with_commit_properties(c, o))
    BY <2>1
  <2>3. Marked(with_commit_properties(c, o))
    <3>1. Marked(c) /\ PlanOK(log, t, r, c)
      BY <2>2, PlansMarked, PlansOK DEF IInv, Writers
    <3> QED  BY <3>1, PropertiesType, PropertiesPlan
  <2> QED  BY <2>2, <2>3, PrepareMark
<1>3. ASSUME NEW t \in Txns, BeginOptimize(t)
      PROVE  MarkInv'
  <2>1. \E r, b, o : Prepare(t, r, with_commit_properties(rewrite_files(t, r, 0, b), o))
    BY <1>3 DEF BeginOptimize
  <2>2. \A r, b, o : Marked(with_commit_properties(rewrite_files(t, r, 0, b), o))
    <3>1. \A r, b, o : Unmarked(with_commit_properties(rewrite_files(t, r, 0, b), o))
      BY RewriteFilesUnmarked, PropertiesUnmarked
    <3> QED  BY <3>1 DEF Marked, Unmarked
  <2> QED  BY <2>1, <2>2, PrepareMark
<1>4. ASSUME NEW t \in Txns
      PROVE  ~BeginCreate(t) /\ ~BeginCreateExisting(t)
  BY <1>1 DEF BeginCreate, BeginCreateExisting, CreateKinds
<1>5. ASSUME NEW t \in Txns, WriteInitial(t) \/ Reload(t) \/ List(t) \/ CheckWinner(t) \/ WriteFails(t) \/ ReadFails(t)
      PROVE  MarkInv'
  <2>1. pc[t] \in {"create", "reload", "list", "check", "write"} /\ tx' = tx
    BY <1>5 DEF WriteInitial, Reload, List, CheckWinner, WriteFails, ReadFails
  <2>2. \A x \in Txns \ {t} : pc'[x] = pc[x]
    BY <1>5 DEF WriteInitial, Reload, List, CheckWinner, WriteFails, ReadFails, Retry, Return, Goto, IInv, TypeOK
  <2>3. Marked(tx'[t])
    BY <2>1 DEF MarkInv
  <2> QED  BY <2>1, <2>2, <2>3, LocalMark
<1>6. ASSUME UNCHANGED vars
      PROVE  MarkInv'
  BY <1>6 DEF vars, MarkInv
<1> QED  BY <1>2, <1>3, <1>4, <1>5, <1>6, WriteCommitMark DEF Next, Step, Quiescent
==============================================================================
