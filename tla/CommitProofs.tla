---------------------------- MODULE CommitProofs ----------------------------
(***************************************************************************)
(* CommitProtocol keeps its promises for any number of writers, operations *)
(* and versions.  The inductive invariant says which part of the log a     *)
(* commit in flight has been checked against: everything between the       *)
(* version its planner read and the version it is about to write.          *)
(***************************************************************************)
EXTENDS CommitProtocol, PlanProofs

\* A step gets up to a minute of each prover unless it names its own.
USE ZenonT(60), SMTT(60)

-----------------------------------------------------------------------------
(* The inductive invariant and the theorems.                               *)

\* What check_conflicts guarantees about c and a winning commit w that passed.
Compatible(c, w) ==
    /\ ~MetadataChanged(w)
    /\ ~ConcurrentDomainMetadata(c, w)
    /\ ~ConcurrentAppend(c, w)
    /\ ~ConcurrentDeleteDelete(c, w)
    /\ ~ConcurrentTransaction(c, w)

\* The planner of c read a version of the log, or there was no table yet.
Planned(l, c) ==
    IF c.read = NONE THEN c.removes = {}
    ELSE c.read \in DOMAIN l /\ (~CommitInterval => c.removes \subseteq Active(l, c.read))

\* c has passed the check against version u, with the files of a snapshot s that holds
\* what its planner read.
Passed(l, c, u) ==
    /\ Compatible(c, l[u])
    /\ c.read # NONE => \E s \in DOMAIN l : c.read <= s /\ s < u /\ ~ConcurrentDeleteRead(l, s, c, l[u])

\* c has passed the check against every version below n that its planner did not read.
CheckedBelow(l, c, n) ==
    c.read # NONE =>
        /\ c.read < n
        /\ \A u \in DOMAIN l : c.read < u /\ u < n => Passed(l, c, u)

LogOK == \A v \in DOMAIN log : Planned(log, log[v]) /\ CheckedBelow(log, log[v], v)

\* In the retry loop, snap[t] is the version up to which tx[t] is checked.
LoopOK(t) ==
    /\ snap[t] \in DOMAIN log
    /\ Planned(log, tx[t])
    /\ CheckedBelow(log, tx[t], snap[t] + 1)

\* The conflict checker is done with the versions between snap[t] and winner[t].
WinnersOK(t) ==
    /\ latest[t] \in DOMAIN log /\ snap[t] < winner[t] /\ winner[t] <= latest[t]
    /\ \A u \in DOMAIN log : snap[t] < u /\ u < winner[t] => Passed(log, tx[t], u)

FlightOK(t) ==
    /\ pc[t] \in {"create", "reload"} => CreateOK(t, tx[t])
    /\ pc[t] \in {"list", "check", "write"} => LoopOK(t)
    /\ pc[t] = "check" => WinnersOK(t)
    /\ ~CommitInterval => bins[t] = {}

IInv ==
    /\ TypeOK
    /\ WellFormed(log)
    /\ LogOK
    /\ \A t \in Txns : FlightOK(t)

-----------------------------------------------------------------------------
(* Appending a version to the log.                                         *)

\* Put-if-absent on a log without gaps only ever adds a version above all others,
\* so nothing that was established about the older ones is lost.
LEMMA PutKeeps ==
    ASSUME NEW l, WellFormed(l), NEW v \in Nat, v \notin DOMAIN l, NEW c \in Commit,
           v = 0 \/ v - 1 \in DOMAIN l, v = 0 => c.metadata # NONE /\ c.protocol # NONE
    PROVE  LET k == Put(l, v, c) IN
           /\ DOMAIN k = DOMAIN l \cup {v} /\ k[v] = c
           /\ \A w \in DOMAIN l : w \in Nat /\ w < v /\ k[w] = l[w]
           /\ WellFormed(k)
           /\ \A d \in Commit : Planned(l, d) => Planned(k, d)
           /\ \A d \in Commit : \A u \in DOMAIN l : Passed(l, d, u) => Passed(k, d, u)
           /\ \A d \in Commit : \A n \in Nat : n <= v /\ CheckedBelow(l, d, n) => CheckedBelow(k, d, n)
<1> DEFINE k == Put(l, v, c)
<1>1. DOMAIN k = DOMAIN l \cup {v} /\ k[v] = c /\ \A w \in DOMAIN l : k[w] = l[w]
  BY DEF Put
<1>2. ASSUME NEW w \in DOMAIN l
      PROVE  w \in Nat /\ w < v
  <2>1. w \in Nat /\ 0 .. w \subseteq DOMAIN l
    BY DEF WellFormed
  <2> QED  BY SMTT(60), <2>1
<1>3. \A d \in Commit : Planned(l, d) => Planned(k, d)
  <2> SUFFICES ASSUME NEW d \in Commit, Planned(l, d), d.read # NONE
               PROVE  Planned(k, d)
    BY DEF Planned
  <2>1. d.read \in DOMAIN l /\ (~CommitInterval => d.removes \subseteq Active(l, d.read))
    BY DEF Planned
  <2>2. d.read \in Nat /\ d.read < v
    BY <2>1, <1>2
  <2>3. Active(k, d.read) = Active(l, d.read)
    BY SMTT(60), <2>2, ActiveOfOlder DEF WellFormed
  <2> HIDE DEF k
  <2> QED  BY <1>1, <2>1, <2>3 DEF Planned
<1>4. \A d \in Commit : \A u \in DOMAIN l : Passed(l, d, u) => Passed(k, d, u)
  <2>1. \A s \in DOMAIN l : Active(k, s) = Active(l, s)
    BY SMTT(60), <1>2, ActiveOfOlder DEF WellFormed
  <2> HIDE DEF k
  <2>2. \A d, w : \A s \in DOMAIN l : ConcurrentDeleteRead(k, s, d, w) <=> ConcurrentDeleteRead(l, s, d, w)
    BY <2>1 DEF ConcurrentDeleteRead, read_files
  <2> QED  BY <1>1, <2>2 DEF Passed
<1> HIDE DEF k
<1>7. \A d \in Commit : \A n \in Nat : n <= v /\ CheckedBelow(l, d, n) => CheckedBelow(k, d, n)
  BY SMTT(60), <1>1, <1>2, <1>4 DEF CheckedBelow
<1>5. WellFormed(k)
  <2>1. DOMAIN k \subseteq Nat /\ \A u \in DOMAIN k : k[u] \in Commit
    BY <1>1, <1>2 DEF WellFormed
  <2>2. 0 .. v \subseteq DOMAIN k
    <3>1. v # 0 => 0 .. (v - 1) \subseteq DOMAIN l
      BY DEF WellFormed
    <3> QED  BY SMTT(60), <1>1, <3>1
  <2>3. \A u \in DOMAIN k : 0 .. u \subseteq DOMAIN k
    BY <1>1, <2>2 DEF WellFormed
  <2>4. k[0].metadata # NONE /\ k[0].protocol # NONE
    <3>1. CASE v = 0
      BY <3>1, <1>1
    <3>2. CASE v # 0
      <4>1. 0 \in DOMAIN l
        BY SMTT(60), <3>2 DEF WellFormed
      <4> QED  BY <3>2, <4>1, <1>1 DEF WellFormed
    <3> QED  BY <3>1, <3>2
  <2> QED  BY <2>1, <2>3, <2>4 DEF WellFormed
<1> QED  BY <1>1, <1>2, <1>3, <1>4, <1>5, <1>7 DEF k

\* What one writer has established survives the commit of another one.
LEMMA OthersKeep ==
    ASSUME IInv, NEW v \in Nat, v \notin DOMAIN log, NEW c \in Commit,
           v = 0 \/ v - 1 \in DOMAIN log, v = 0 => c.metadata # NONE /\ c.protocol # NONE,
           log' = Put(log, v, c),
           NEW t \in Txns, pc'[t] = pc[t] \/ pc'[t] = "done", tx'[t] = tx[t], snap'[t] = snap[t],
           latest'[t] = latest[t], winner'[t] = winner[t], bins'[t] = bins[t]
    PROVE  FlightOK(t)'
<1>1. FlightOK(t) /\ tx[t] \in Commit /\ snap[t] \in Nat /\ WellFormed(log)
  BY DEF IInv, TypeOK
<1>2. /\ DOMAIN log' = DOMAIN log \cup {v} /\ \A w \in DOMAIN log : w \in Nat /\ w < v /\ log'[w] = log[w]
      /\ Planned(log, tx[t]) => Planned(log', tx[t])
      /\ \A u \in DOMAIN log : Passed(log, tx[t], u) => Passed(log', tx[t], u)
      /\ \A n \in Nat : n <= v /\ CheckedBelow(log, tx[t], n) => CheckedBelow(log', tx[t], n)
  BY SMTT(60), <1>1, PutKeeps
<1>3. LoopOK(t) => LoopOK(t)'
  BY SMTT(60), <1>1, <1>2 DEF LoopOK
<1>4. WinnersOK(t) => WinnersOK(t)'
  BY SMTT(60), <1>1, <1>2 DEF WinnersOK, IInv, TypeOK
<1> QED  BY <1>1, <1>3, <1>4 DEF FlightOK

\* A commit that was checked up to the version below v may be written as v.
LEMMA LogKeeps ==
    ASSUME IInv, NEW v \in Nat, v \notin DOMAIN log, NEW c \in Commit,
           v = 0 \/ v - 1 \in DOMAIN log, v = 0 => c.metadata # NONE /\ c.protocol # NONE,
           log' = Put(log, v, c), Planned(log, c), CheckedBelow(log, c, v)
    PROVE  WellFormed(log') /\ LogOK'
<1>1. WellFormed(log) /\ LogOK
  BY DEF IInv
<1> DEFINE k == Put(log, v, c)
<1>2. /\ DOMAIN k = DOMAIN log \cup {v} /\ k[v] = c
      /\ \A w \in DOMAIN log : w \in Nat /\ w < v /\ k[w] = log[w]
      /\ WellFormed(k)
      /\ \A d \in Commit : Planned(log, d) => Planned(k, d)
      /\ \A d \in Commit : \A u \in DOMAIN log : Passed(log, d, u) => Passed(k, d, u)
      /\ \A d \in Commit : \A n \in Nat : n <= v /\ CheckedBelow(log, d, n) => CheckedBelow(k, d, n)
  BY <1>1, PutKeeps
<1> HIDE DEF k
<1>3. \A w \in DOMAIN log : log[w] \in Commit
  BY <1>1 DEF WellFormed
<1>4. log' = k
  BY DEF k
<1> QED  BY SMTT(60), <1>1, <1>2, <1>3, <1>4 DEF LogOK

-----------------------------------------------------------------------------
(* The initial states.                                                     *)

LEMMA SeedCommitOK ==
    ASSUME NEW p \in Protocol, NEW ks \in SUBSET Keys
    PROVE  CreateOK(Seed, SeedCommit(p, ks))
<1> DEFINE m == [by |-> Seed, append_only |-> FALSE, allowed |-> Keys, ntz |-> FALSE]
           add == NonEmptyFile(NewFile(Seed, 0, NewRows(Seed, ks)))
           b == Base(Seed, "write_new", NONE)
<1>1. Seed \in Writers
  BY DEF Writers
<1>2. m \in Metadata /\ add \in SUBSET File
  BY <1>1, NewRowsType, NewFileType DEF Metadata
<1>3. m # NONE /\ p # NONE
  <2> HIDE DEF m
  <2> QED  BY <1>2, NoneAssumption
<1>4. b \in Commit
  BY <1>1, BaseOK DEF PlanOK, OperationKind
<1>5. SeedCommit(p, ks) = [b EXCEPT !.src = ks, !.protocol = p, !.metadata = m, !.adds = add]
  BY DEF SeedCommit
<1>6. b.id = Seed /\ b.read = NONE /\ b.removes = {}
  BY DEF Base
<1> HIDE DEF m, add, b
<1> QED  BY <1>2, <1>3, <1>4, <1>5, <1>6 DEF CreateOK, Commit

LEMMA SeedLogsOK ==
    ASSUME NEW l \in SeedLogs
    PROVE  /\ WellFormed(l)
           /\ \A v \in DOMAIN l : Planned(l, l[v]) /\ CheckedBelow(l, l[v], v)
<1>1. CASE l = EmptyLog
  BY <1>1 DEF EmptyLog, WellFormed
<1>2. CASE l # EmptyLog
  <2>1. PICK p \in SeedProtocols, ks \in SeedKeys : l = Put(EmptyLog, 0, SeedCommit(p, ks))
    BY <1>2 DEF SeedLogs
  <2>2. CreateOK(Seed, SeedCommit(p, ks))
    BY SeedCommitOK, SeedProtocolsAssumption, SeedKeysAssumption
  <2>3. DOMAIN l = {0} /\ CreateOK(Seed, l[0])
    BY <2>1, <2>2 DEF Put, EmptyLog
  <2> QED  BY SMTT(60), <2>3 DEF CreateOK, WellFormed, Planned, CheckedBelow
<1> QED  BY <1>1, <1>2

LEMMA InitIInv == Init => IInv
<1> SUFFICES ASSUME Init PROVE IInv
  OBVIOUS
<1>1. WellFormed(log) /\ LogOK
  BY SeedLogsOK DEF Init, LogOK
<1>2. tx \in [Txns -> Commit]
  BY BaseOK DEF Init, PlanOK, OperationKind, Writers
<1>3. TypeOK
  BY SMTT(60), <1>1, <1>2 DEF Init, TypeOK, WellFormed
<1>4. \A t \in Txns : FlightOK(t)
  BY DEF Init, FlightOK
<1> QED  BY <1>1, <1>3, <1>4 DEF IInv

-----------------------------------------------------------------------------
(* Invoking an operation.                                                  *)

\* A planned commit enters the retry loop checked up to the snapshot it read.
LEMMA PrepareKeeps ==
    ASSUME IInv, NEW t \in Txns, NEW r \in DOMAIN log, NEW c, PlanOK(log, t, r, c),
           Prepare(t, r, c), UNCHANGED <<log, latest, winner, attempt, made>>,
           bins' \in [Txns -> SUBSET File],
           \A x \in Txns : bins'[x] = bins[x] \/ CommitInterval
    PROVE  IInv'
<1>1. /\ tx' = [tx EXCEPT ![t] = c] /\ snap' = [snap EXCEPT ![t] = r]
      /\ \/ pc' = [pc EXCEPT ![t] = "done"] /\ result' \in {[result EXCEPT ![t] = x] : x \in {"rejected", "noop"}}
         \/ pc' = [pc EXCEPT ![t] = "list"] /\ result' = result
  BY DEF Prepare, Return, Goto
<1>2. TypeOK /\ WellFormed(log) /\ LogOK /\ \A x \in Txns : FlightOK(x)
  BY DEF IInv
<1>3. c \in Commit /\ r \in Nat
  BY <1>2 DEF PlanOK, WellFormed
<1>4. TypeOK'
  BY SMTT(60), <1>1, <1>2, <1>3 DEF TypeOK
<1>5. WellFormed(log') /\ LogOK'
  BY <1>2 DEF LogOK
<1>6. ASSUME NEW x \in Txns
      PROVE  FlightOK(x)'
  <2>1. CASE x # t
    BY <2>1, <1>1, <1>2 DEF FlightOK, LoopOK, WinnersOK, TypeOK
  <2>2. CASE x = t
    <3>1. Planned(log, c) /\ CheckedBelow(log, c, r + 1)
      BY SMTT(60), <1>2, <1>3, NoneAssumption DEF PlanOK, Planned, CheckedBelow, WellFormed
    <3>2. pc'[t] \in {"done", "list"} /\ tx'[t] = c /\ snap'[t] = r
      BY <1>1, <1>2 DEF TypeOK
    <3>3. LoopOK(t)'
      BY <3>1, <3>2 DEF LoopOK
    <3> QED  BY <2>2, <3>2, <3>3, <1>2 DEF FlightOK
  <2> QED  BY <2>1, <2>2
<1> QED  BY <1>4, <1>5, <1>6 DEF IInv

LEMMA BeginKeeps ==
    ASSUME IInv, NEW t \in Txns, Begin(t)
    PROVE  IInv'
<1>1. PICK r \in DOMAIN log, k \in Kinds \ CreateKinds :
        \E c \in Plans(log, t, r, k), o \in CommitProperties : Prepare(t, r, with_commit_properties(c, o))
  BY DEF Begin
<1>2. PICK c \in Plans(log, t, r, k), o \in CommitProperties : Prepare(t, r, with_commit_properties(c, o))
  BY <1>1
<1>3. PlanOK(log, t, r, with_commit_properties(c, o))
  <2>1. PlanOK(log, t, r, c)
    BY PlansOK DEF IInv, Writers
  <2>2. IsCommitProperties(o)
    BY PropertiesType
  <2> QED  BY <2>1, <2>2, PropertiesPlan
<1> QED  BY <1>2, <1>3, PrepareKeeps DEF Begin, IInv, TypeOK

LEMMA BeginOptimizeKeeps ==
    ASSUME IInv, NEW t \in Txns, BeginOptimize(t)
    PROVE  IInv'
<1>1. PICK r \in DOMAIN log, o \in CommitProperties : \E b1, b2 \in SUBSET Active(log, r) :
        /\ Prepare(t, r, with_commit_properties(rewrite_files(t, r, 0, b1), o))
        /\ bins' = [bins EXCEPT ![t] = b2]
  BY DEF BeginOptimize
<1>2. PICK b1, b2 \in SUBSET Active(log, r) :
        /\ Prepare(t, r, with_commit_properties(rewrite_files(t, r, 0, b1), o))
        /\ bins' = [bins EXCEPT ![t] = b2]
  BY <1>1
<1>3. r \in Nat /\ b1 \in SUBSET File /\ b2 \in SUBSET File /\ t \in Writers
  BY ActiveFiles DEF IInv, WellFormed, Writers
<1>4. PlanOK(log, t, r, with_commit_properties(rewrite_files(t, r, 0, b1), o))
  <2>1. PlanOK(log, t, r, rewrite_files(t, r, 0, b1))
    BY SMTT(60), <1>3, RewriteFilesOK DEF PlanOK
  <2>2. IsCommitProperties(o)
    BY PropertiesType
  <2> QED  BY <2>1, <2>2, PropertiesPlan
<1>5. bins' \in [Txns -> SUBSET File]
  BY <1>2, <1>3 DEF IInv, TypeOK
<1> QED  BY <1>2, <1>4, <1>5, PrepareKeeps DEF BeginOptimize

LEMMA BeginCreateKeeps ==
    ASSUME IInv, NEW t \in Txns, BeginCreate(t)
    PROVE  IInv'
<1>1. PICK k \in CreateKinds : \E c \in create(t, k), o \in CommitProperties :
        tx' = [tx EXCEPT ![t] = with_commit_properties(c, o)]
  BY DEF BeginCreate
<1>2. PICK c : tx' = [tx EXCEPT ![t] = c] /\ CreateOK(t, c)
  <2>1. PICK c \in create(t, k), o \in CommitProperties : tx' = [tx EXCEPT ![t] = with_commit_properties(c, o)]
    BY <1>1
  <2>2. CreateOK(t, c) /\ IsCommitProperties(o)
    BY CreatesOK, PropertiesType DEF Writers
  <2>3. CreateOK(t, with_commit_properties(c, o))
    BY <2>2, PropertiesCreate
  <2> QED  BY <2>1, <2>3
<1>3. TypeOK'
  BY <1>2 DEF BeginCreate, Goto, CreateOK, IInv, TypeOK
<1>4. ASSUME NEW x \in Txns
      PROVE  FlightOK(x)'
  BY <1>2 DEF BeginCreate, Goto, IInv, TypeOK, FlightOK, LoopOK, WinnersOK
<1> QED  BY <1>3, <1>4 DEF BeginCreate, IInv, LogOK

LEMMA BeginCreateExistingKeeps ==
    ASSUME IInv, NEW t \in Txns, BeginCreateExisting(t)
    PROVE  IInv'
<1>1. ASSUME NEW k \in CreateKinds, tx' = [tx EXCEPT ![t].kind = k], NEW r \in {"exists", "noop"},
             Return(t, r), UNCHANGED snap
      PROVE  IInv'
  <2>1. [tx[t] EXCEPT !.kind = k] \in Commit
    <3>1. tx[t] \in Commit
      BY DEF IInv, TypeOK
    <3>2. k \in OperationKind
      BY DEF CreateKinds, OperationKind
    <3> QED  BY <3>1, <3>2 DEF Commit
  <2>2. tx' \in [Txns -> Commit]
    BY <1>1, <2>1 DEF IInv, TypeOK
  <2>3. TypeOK'
    BY <1>1, <2>2 DEF BeginCreateExisting, Return, Goto, IInv, TypeOK
  <2>4. ASSUME NEW x \in Txns
        PROVE  FlightOK(x)'
    BY <1>1 DEF BeginCreateExisting, Return, Goto, IInv, TypeOK, FlightOK, LoopOK, WinnersOK
  <2> QED  BY <2>3, <2>4 DEF BeginCreateExisting, IInv, LogOK
<1>2. ASSUME NEW r \in DOMAIN log, NEW c \in replace_table(log, t, r), NEW o \in CommitProperties,
             Prepare(t, r, with_commit_properties(c, o))
      PROVE  IInv'
  <2>1. PlanOK(log, t, r, with_commit_properties(c, o))
    <3>1. PlanOK(log, t, r, c)
      BY ReplaceTableOK DEF IInv, Writers
    <3> QED  BY <3>1, PropertiesType, PropertiesPlan
  <2> QED  BY <1>2, <2>1, PrepareKeeps DEF BeginCreateExisting, IInv, TypeOK
<1> QED  BY <1>1, <1>2 DEF BeginCreateExisting, CreateKinds

-----------------------------------------------------------------------------
(* The commit loop.                                                        *)

\* A step that leaves the log and every other writer alone.
LEMMA LocalKeeps ==
    ASSUME IInv, NEW t \in Txns, UNCHANGED log, TypeOK', FlightOK(t)',
           \A x \in Txns \ {t} : /\ pc'[x] = pc[x] /\ tx'[x] = tx[x] /\ snap'[x] = snap[x]
                                 /\ latest'[x] = latest[x] /\ winner'[x] = winner[x] /\ bins'[x] = bins[x]
    PROVE  IInv'
<1>1. ASSUME NEW x \in Txns \ {t}
      PROVE  FlightOK(x)'
  BY DEF IInv, FlightOK, LoopOK, WinnersOK
<1> QED  BY <1>1 DEF IInv, LogOK

LEMMA ReloadKeeps ==
    ASSUME IInv, NEW t \in Txns, Reload(t)
    PROVE  IInv'
<1>1. PICK v \in DOMAIN log : snap' = [snap EXCEPT ![t] = v]
  BY DEF Reload
<1>2. TypeOK'
  BY SMTT(60), <1>1 DEF Reload, Retry, Return, Goto, IInv, TypeOK
<1>3. FlightOK(t)'
  <2>1. CreateOK(t, tx[t]) /\ tx' = tx /\ UNCHANGED <<log, bins>> /\ snap'[t] = v /\ FlightOK(t)
    BY <1>1 DEF Reload, IInv, TypeOK, FlightOK
  <2>2. LoopOK(t)'
    BY <2>1 DEF CreateOK, LoopOK, Planned, CheckedBelow
  <2>3. pc'[t] \in {"list", "done"}
    BY SMTT(60) DEF Reload, Retry, Return, Goto, IInv, TypeOK
  <2> QED  BY <2>1, <2>2, <2>3 DEF FlightOK
<1> QED  BY SMTT(60), <1>1, <1>2, <1>3, LocalKeeps DEF Reload, Retry, Return, Goto, IInv, TypeOK

LEMMA ListKeeps ==
    ASSUME IInv, NEW t \in Txns, List(t)
    PROVE  IInv'
<1>1. PICK v \in DOMAIN log :
        /\ IsLatest(log, v) /\ latest' = [latest EXCEPT ![t] = v]
        /\ \/ v = snap[t] /\ pc' = [pc EXCEPT ![t] = "write"] /\ result' = result
           \/ Return(t, "max_attempts")
           \/ v # snap[t] /\ pc' = [pc EXCEPT ![t] = "check"] /\ result' = result
  BY DEF List, Goto
<1>2. /\ winner' = [winner EXCEPT ![t] = snap[t] + 1] /\ v \in Nat
      /\ UNCHANGED <<log, tx, snap, attempt, bins, made>>
  BY DEF List, IInv, WellFormed
<1>3. TypeOK'
  BY SMTT(60), <1>1, <1>2 DEF Return, Goto, IInv, TypeOK
<1>4. FlightOK(t)'
  <2>1. LoopOK(t) /\ FlightOK(t) /\ snap[t] \in Nat
    BY DEF List, IInv, TypeOK, FlightOK
  <2>2. LoopOK(t)'
    BY <2>1, <1>2 DEF LoopOK
  <2>3. v # snap[t] => WinnersOK(t)'
    <3>1. \A u \in DOMAIN log : u \in Nat /\ u <= v
      BY <1>1 DEF IsLatest, IInv, WellFormed
    <3>2. latest'[t] = v /\ winner'[t] = snap[t] + 1 /\ snap[t] \in DOMAIN log
      BY <2>1, <1>1, <1>2 DEF IInv, TypeOK, LoopOK
    <3> QED  BY SMTT(60), <2>1, <3>1, <3>2, <1>2 DEF WinnersOK
  <2>4. pc'[t] \in {"write", "done", "check"} /\ (pc'[t] = "check" => v # snap[t])
    BY <1>1 DEF Return, Goto, IInv, TypeOK
  <2> QED  BY <2>1, <2>2, <2>3, <2>4, <1>2 DEF FlightOK
<1> QED  BY <1>1, <1>2, <1>3, <1>4, LocalKeeps DEF Return, Goto, IInv, TypeOK

\* A winning commit passes all checks, or the loop ends with a conflict.
LEMMA CheckWinnerKeeps ==
    ASSUME IInv, NEW t \in Txns, CheckWinner(t)
    PROVE  IInv'
<1>1. /\ LoopOK(t) /\ WinnersOK(t) /\ FlightOK(t) /\ UNCHANGED <<log, tx, latest, attempt, bins, made>>
      /\ snap[t] \in Nat /\ latest[t] \in Nat /\ winner[t] \in Nat /\ tx[t] \in Commit
  BY DEF CheckWinner, IInv, TypeOK, FlightOK
<1>2. CASE Return(t, "conflict") /\ UNCHANGED <<snap, winner>>
  <2>1. TypeOK'
    BY <1>1, <1>2 DEF Return, Goto, IInv, TypeOK
  <2>2. FlightOK(t)'
    BY <1>1, <1>2 DEF Return, Goto, IInv, TypeOK, FlightOK
  <2> QED  BY <1>1, <1>2, <2>1, <2>2, LocalKeeps DEF Return, Goto, IInv, TypeOK
<1>3. CASE ~check_conflicts(log, snap[t], tx[t], log[winner[t]])
  <2>1. Passed(log, tx[t], winner[t])
    <3>1. Compatible(tx[t], log[winner[t]]) /\ ~ConcurrentDeleteRead(log, snap[t], tx[t], log[winner[t]])
      BY <1>3 DEF check_conflicts, Compatible
    <3>2. snap[t] \in DOMAIN log /\ snap[t] < winner[t] /\ (tx[t].read # NONE => tx[t].read <= snap[t])
      <4>1. snap[t] \in DOMAIN log /\ snap[t] < winner[t] /\ (tx[t].read # NONE => tx[t].read < snap[t] + 1)
        BY <1>1 DEF LoopOK, WinnersOK, CheckedBelow
      <4>2. tx[t].read # NONE => tx[t].read \in Nat
        BY <1>1 DEF Commit
      <4> QED  BY SMTT(60), <1>1, <4>1, <4>2
    <3> QED  BY <3>1, <3>2 DEF Passed
  <2>2. \A u \in DOMAIN log : snap[t] < u /\ u < winner[t] + 1 => Passed(log, tx[t], u)
    <3> SUFFICES ASSUME NEW u \in DOMAIN log, snap[t] < u, u < winner[t] + 1
                 PROVE  Passed(log, tx[t], u)
      OBVIOUS
    <3>1. u \in Nat
      BY DEF IInv, WellFormed
    <3>2. u = winner[t] \/ u < winner[t]
      BY SMTT(60), <1>1, <3>1
    <3> QED  BY <1>1, <2>1, <3>2 DEF WinnersOK
  <2>3. CASE winner[t] < latest[t]
    <3>1. winner' = [winner EXCEPT ![t] = @ + 1] /\ UNCHANGED <<pc, snap, result>>
      BY <1>3, <2>3 DEF CheckWinner
    <3>2. TypeOK'
      BY SMTT(60), <1>1, <3>1 DEF IInv, TypeOK
    <3>3. winner'[t] = winner[t] + 1
      BY <3>1 DEF IInv, TypeOK
    <3>4. LoopOK(t)' /\ WinnersOK(t)'
      <4>1. LoopOK(t)'
        BY <1>1, <3>1 DEF LoopOK
      <4>2. latest'[t] \in DOMAIN log' /\ snap'[t] < winner'[t] /\ winner'[t] <= latest'[t]
        BY SMTT(60), <1>1, <2>3, <3>1, <3>3 DEF WinnersOK
      <4>3. \A u \in DOMAIN log' : snap'[t] < u /\ u < winner'[t] => Passed(log', tx'[t], u)
        BY <1>1, <2>2, <3>1, <3>3
      <4> QED  BY <4>1, <4>2, <4>3 DEF WinnersOK
    <3>5. FlightOK(t)'
      BY <1>1, <3>1, <3>4 DEF FlightOK, CheckWinner
    <3> QED  BY <1>1, <3>1, <3>2, <3>5, LocalKeeps DEF IInv, TypeOK
  <2>4. CASE ~(winner[t] < latest[t])
    <3>1. snap' = [snap EXCEPT ![t] = latest[t]] /\ Goto(t, "write") /\ UNCHANGED <<winner, result>>
      BY <1>3, <2>4 DEF CheckWinner
    <3>2. TypeOK'
      BY <1>1, <3>1 DEF Goto, IInv, TypeOK
    <3>3. winner[t] = latest[t] /\ snap'[t] = latest[t] /\ pc'[t] = "write"
      BY SMTT(60), <1>1, <2>4, <3>1 DEF Goto, WinnersOK, IInv, TypeOK
    <3>4. CheckedBelow(log, tx[t], latest[t] + 1)
      <4>1. CheckedBelow(log, tx[t], snap[t] + 1) /\ snap[t] < latest[t] /\ DOMAIN log \subseteq Nat
        BY <1>1, <3>3 DEF LoopOK, WinnersOK, IInv, WellFormed
      <4> SUFFICES ASSUME tx[t].read # NONE
                   PROVE  /\ tx[t].read < latest[t] + 1
                          /\ \A u \in DOMAIN log : tx[t].read < u /\ u < latest[t] + 1 => Passed(log, tx[t], u)
        BY DEF CheckedBelow
      <4>2. tx[t].read \in Nat
        BY <1>1 DEF Commit
      <4> QED  BY SMTT(60), <1>1, <2>2, <3>3, <4>1, <4>2 DEF CheckedBelow
    <3>5. LoopOK(t)'
      BY <1>1, <3>3, <3>4 DEF LoopOK, WinnersOK
    <3>6. FlightOK(t)'
      BY <1>1, <3>3, <3>5 DEF FlightOK
    <3> QED  BY <1>1, <3>1, <3>2, <3>6, LocalKeeps DEF Goto, IInv, TypeOK
  <2> QED  BY <2>3, <2>4
<1> QED  BY <1>2, <1>3 DEF CheckWinner

LEMMA WriteInitialKeeps ==
    ASSUME IInv, NEW t \in Txns, WriteInitial(t)
    PROVE  IInv'
<1>1. /\ CreateOK(t, tx[t]) /\ FlightOK(t) /\ UNCHANGED <<tx, snap, latest, winner, bins, made>>
      /\ tx[t] \in Commit
  BY DEF WriteInitial, IInv, TypeOK, FlightOK
<1>2. CASE 0 \notin DOMAIN log
  <2>1. log' = Put(log, 0, tx[t]) /\ Return(t, "committed") /\ UNCHANGED attempt
    BY <1>2 DEF WriteInitial
  <2>2. Planned(log, tx[t]) /\ CheckedBelow(log, tx[t], 0) /\ tx[t].metadata # NONE /\ tx[t].protocol # NONE
    BY <1>1 DEF CreateOK, Planned, CheckedBelow
  <2>3. WellFormed(log') /\ LogOK'
    BY <1>1, <1>2, <2>1, <2>2, LogKeeps
  <2>4. TypeOK'
    BY <1>1, <2>1, <2>3 DEF Return, Goto, IInv, TypeOK, WellFormed
  <2>5. ASSUME NEW x \in Txns
        PROVE  FlightOK(x)'
    <3>1. pc'[x] = pc[x] \/ pc'[x] = "done"
      BY <2>1 DEF Return, Goto, IInv, TypeOK
    <3> QED  BY <1>1, <1>2, <2>1, <2>2, <3>1, OthersKeep
  <2> QED  BY <2>3, <2>4, <2>5 DEF IInv
<1>3. CASE 0 \in DOMAIN log
  <2>1. TypeOK'
    BY SMTT(60), <1>1, <1>3 DEF WriteInitial, Return, Goto, IInv, TypeOK
  <2>2. pc'[t] \in {"done", "reload"} /\ UNCHANGED log
    BY <1>3 DEF WriteInitial, Return, Goto, IInv, TypeOK
  <2>3. FlightOK(t)'
    BY <1>1, <2>2 DEF FlightOK, CreateOK
  <2> QED  BY <1>1, <1>3, <2>1, <2>2, <2>3, LocalKeeps DEF WriteInitial, Return, Goto, IInv, TypeOK
<1> QED  BY <1>2, <1>3

\* The version is free: the commit is in the log, and OPTIMIZE may go on from it.
LEMMA CommittedKeeps ==
    ASSUME IInv, NEW t \in Txns, pc[t] = "write", snap[t] + 1 \notin DOMAIN log,
           log' = Put(log, snap[t] + 1, tx[t]), Committed(t, snap[t] + 1), UNCHANGED <<latest, winner>>
    PROVE  IInv'
<1> DEFINE v == snap[t] + 1
<1>1. /\ LoopOK(t) /\ FlightOK(t) /\ snap[t] \in Nat /\ tx[t] \in Commit /\ made[t] \in Nat
      /\ bins[t] \in SUBSET File /\ t \in Writers
  BY DEF IInv, TypeOK, FlightOK, Writers
<1>2. v \in Nat /\ v # 0 /\ v - 1 = snap[t] /\ v - 1 \in DOMAIN log
  <2>1. snap[t] \in DOMAIN log /\ snap[t] \in Nat
    BY <1>1 DEF LoopOK
  <2> QED  BY SMTT(60), <2>1
<1>3. WellFormed(log') /\ LogOK'
  <2> HIDE DEF v
  <2>1. Planned(log, tx[t]) /\ CheckedBelow(log, tx[t], v) /\ log' = Put(log, v, tx[t]) /\ v \notin DOMAIN log
    BY <1>1 DEF LoopOK, v
  <2> QED  BY <1>1, <1>2, <2>1, LogKeeps
<1>4. ASSUME NEW x \in Txns, pc'[x] = pc[x] \/ pc'[x] = "done", tx'[x] = tx[x], snap'[x] = snap[x], bins'[x] = bins[x]
      PROVE  FlightOK(x)'
  <2> HIDE DEF v
  <2>1. log' = Put(log, v, tx[t]) /\ v \notin DOMAIN log
    BY DEF v
  <2> QED  BY <1>1, <1>2, <1>4, <2>1, OthersKeep
<1>5. CASE bins[t] = {}
  <2>1. made' = [made EXCEPT ![t] = @ + 1] /\ Return(t, "committed") /\ UNCHANGED <<tx, snap, attempt, bins>>
    BY <1>5 DEF Committed
  <2>2. TypeOK'
    <3>1. DOMAIN log' \subseteq Nat /\ \A u \in DOMAIN log' : log'[u] \in Commit
      BY <1>3 DEF WellFormed
    <3>2. made' \in [Txns -> Nat] /\ UNCHANGED <<latest, winner>>
      BY SMTT(60), <2>1 DEF IInv, TypeOK
    <3> QED  BY <2>1, <3>1, <3>2 DEF Return, Goto, IInv, TypeOK
  <2>3. ASSUME NEW x \in Txns
        PROVE  FlightOK(x)'
    <3>1. pc'[x] = pc[x] \/ pc'[x] = "done"
      BY <2>1 DEF Return, Goto, IInv, TypeOK
    <3> QED  BY <1>4, <2>1, <3>1
  <2> QED  BY <1>3, <2>2, <2>3 DEF IInv
<1>6. CASE bins[t] # {}
  <2> DEFINE e == rewrite_files(t, v, made[t] + 1, bins[t])
             c == with_commit_properties(e, tx[t])
  <2>1. /\ made' = [made EXCEPT ![t] = @ + 1] /\ made'[t] = made[t] + 1
        /\ tx' = [tx EXCEPT ![t] = c] /\ snap' = [snap EXCEPT ![t] = v]
        /\ attempt' = [attempt EXCEPT ![t] = 1] /\ bins' = [bins EXCEPT ![t] = {}]
        /\ pc' = [pc EXCEPT ![t] = "list"] /\ result' = result
    BY <1>6 DEF Committed, Goto, IInv, TypeOK
  <2>2. c \in Commit /\ c.read = v
    <3> HIDE DEF v
    <3>1. made[t] + 1 \in Nat
      BY SMTT(60), <1>1
    <3>2. e \in Commit /\ e.read = v
      BY SMTT(60), <1>1, <1>2, <3>1, RewriteFilesOK
    <3>3. IsCommitProperties(tx[t])
      BY DEF IInv, TypeOK, Commit, IsCommitProperties
    <3> HIDE DEF e
    <3> QED  BY <3>2, <3>3, PropertiesKeep
  <2> HIDE DEF v, e, c
  <2>3. TypeOK'
    <3>1. DOMAIN log' \subseteq Nat /\ \A u \in DOMAIN log' : log'[u] \in Commit
      BY <1>3 DEF WellFormed
    <3>2. made' \in [Txns -> Nat] /\ attempt' \in [Txns -> Nat \ {0}] /\ snap' \in [Txns -> Nat]
      BY SMTT(60), <1>2, <2>1 DEF IInv, TypeOK
    <3>3. tx' \in [Txns -> Commit]
      BY <2>1, <2>2 DEF IInv, TypeOK
    <3> QED  BY <2>1, <3>1, <3>2, <3>3 DEF IInv, TypeOK
  <2>4. ASSUME NEW x \in Txns, x # t
        PROVE  FlightOK(x)'
    BY <1>4, <2>1, <2>4 DEF IInv, TypeOK
  <2>5. FlightOK(t)'
    <3>1. /\ tx'[t] = c /\ snap'[t] = v /\ pc'[t] = "list" /\ bins'[t] = {}
      BY <2>1 DEF IInv, TypeOK
    <3>2. v \in DOMAIN log' /\ DOMAIN log' \subseteq Nat
      BY <1>3 DEF v, Put, WellFormed
    <3>3. CommitInterval
      BY <1>1, <1>6 DEF FlightOK
    <3>4. Planned(log', c) /\ CheckedBelow(log', c, v + 1)
      <4>1. Planned(log', c)
        BY <1>2, <2>2, <3>2, <3>3, NoneAssumption DEF Planned
      <4>2. \A u \in DOMAIN log' : ~(v < u /\ u < v + 1)
        BY SMTT(60), <1>2, <3>2
      <4>3. CheckedBelow(log', c, v + 1)
        BY SMTT(60), <1>2, <2>2, <4>2 DEF CheckedBelow
      <4> QED  BY <4>1, <4>3
    <3> QED  BY <3>1, <3>2, <3>4 DEF FlightOK, LoopOK
  <2> QED  BY <1>3, <2>3, <2>4, <2>5 DEF IInv
<1> QED  BY <1>5, <1>6

LEMMA WriteCommitKeeps ==
    ASSUME IInv, NEW t \in Txns, WriteCommit(t)
    PROVE  IInv'
<1>1. CASE snap[t] + 1 \notin DOMAIN log
  BY <1>1, CommittedKeeps DEF WriteCommit
<1>2. CASE snap[t] + 1 \in DOMAIN log
  <2>1. Retry(t, attempt[t] + 1) /\ UNCHANGED <<log, tx, snap, bins, made, latest, winner>>
    BY <1>2 DEF WriteCommit
  <2>2. TypeOK'
    BY SMTT(60), <2>1 DEF Retry, Return, Goto, IInv, TypeOK
  <2>3. FlightOK(t) /\ LoopOK(t)
    BY DEF WriteCommit, IInv, FlightOK
  <2>4. pc'[t] \in {"list", "done"}
    BY <2>1 DEF Retry, Return, Goto, IInv, TypeOK
  <2>5. FlightOK(t)'
    BY <2>1, <2>3, <2>4 DEF FlightOK, LoopOK
  <2> QED  BY SMTT(60), <2>1, <2>2, <2>5, LocalKeeps DEF Retry, Return, Goto, IInv, TypeOK
<1> QED  BY <1>1, <1>2

\* A write that reports an error may have put the commit all the same.
LEMMA WriteFailsKeeps ==
    ASSUME IInv, NEW t \in Txns, WriteFails(t)
    PROVE  IInv'
<1> DEFINE v == IF pc[t] = "create" THEN 0 ELSE snap[t] + 1
<1>1. Return(t, "error") /\ UNCHANGED <<tx, snap, latest, winner, attempt, bins, made>>
  BY DEF WriteFails
<1>2. FlightOK(t) /\ tx[t] \in Commit /\ snap[t] \in Nat
  BY DEF IInv, TypeOK
<1>3. \A x \in Txns : pc'[x] = pc[x] \/ pc'[x] = "done"
  BY <1>1 DEF Return, Goto, IInv, TypeOK
<1>4. CASE UNCHANGED log
  <2>1. TypeOK'
    BY <1>1, <1>4 DEF Return, Goto, IInv, TypeOK
  <2>2. FlightOK(t)'
    BY <1>1, <1>2 DEF Return, Goto, IInv, TypeOK, FlightOK
  <2> QED  BY <1>1, <1>4, <2>1, <2>2, LocalKeeps DEF Return, Goto, IInv, TypeOK
<1>5. CASE v \notin DOMAIN log /\ log' = Put(log, v, tx[t])
  <2>1. /\ v \in Nat /\ (v = 0 \/ v - 1 \in DOMAIN log)
        /\ v = 0 => tx[t].metadata # NONE /\ tx[t].protocol # NONE
        /\ Planned(log, tx[t]) /\ CheckedBelow(log, tx[t], v)
    <3>1. CASE pc[t] = "create"
      BY <1>2, <3>1 DEF FlightOK, CreateOK, Planned, CheckedBelow
    <3>2. CASE pc[t] = "write"
      <4>1. v = snap[t] + 1 /\ LoopOK(t)
        BY <1>2, <3>2 DEF FlightOK
      <4>2. v \in Nat /\ v - 1 = snap[t] /\ v # 0
        BY SMTT(60), <1>2, <4>1
      <4> QED  BY <4>1, <4>2 DEF LoopOK
    <3> QED  BY <3>1, <3>2 DEF WriteFails
  <2> HIDE DEF v
  <2>2. WellFormed(log') /\ LogOK'
    BY <1>2, <1>5, <2>1, LogKeeps
  <2>3. TypeOK'
    BY <1>1, <2>2 DEF Return, Goto, IInv, TypeOK, WellFormed
  <2>4. ASSUME NEW x \in Txns
        PROVE  FlightOK(x)'
    BY <1>1, <1>2, <1>3, <1>5, <2>1, OthersKeep
  <2> QED  BY <2>2, <2>3, <2>4 DEF IInv
<1> QED  BY <1>4, <1>5 DEF WriteFails

LEMMA ReadFailsKeeps ==
    ASSUME IInv, NEW t \in Txns, ReadFails(t)
    PROVE  IInv'
<1>1. TypeOK'
  BY DEF ReadFails, Return, Goto, IInv, TypeOK
<1>2. FlightOK(t)'
  BY DEF ReadFails, Return, Goto, IInv, TypeOK, FlightOK
<1> QED  BY <1>1, <1>2, LocalKeeps DEF ReadFails, Return, Goto, IInv, TypeOK

-----------------------------------------------------------------------------
(* The invariant, and what follows from it.                                *)

LEMMA NextIInv == IInv /\ [Next]_vars => IInv'
<1> SUFFICES ASSUME IInv, [Next]_vars PROVE IInv'
  OBVIOUS
<1>1. ASSUME NEW t \in Txns, Begin(t) \/ BeginOptimize(t) \/ BeginCreate(t) \/ BeginCreateExisting(t)
      PROVE  IInv'
  BY <1>1, BeginKeeps, BeginOptimizeKeeps, BeginCreateKeeps, BeginCreateExistingKeeps
<1>2. ASSUME NEW t \in Txns, Step(t)
      PROVE  IInv'
  BY <1>2, WriteInitialKeeps, ReloadKeeps, ListKeeps, CheckWinnerKeeps, WriteCommitKeeps DEF Step
<1>3. ASSUME NEW t \in Txns, WriteFails(t) \/ ReadFails(t)
      PROVE  IInv'
  BY <1>3, WriteFailsKeeps, ReadFailsKeeps
<1>4. ASSUME UNCHANGED vars
      PROVE  IInv'
  BY <1>4 DEF vars, IInv, TypeOK, LogOK, FlightOK, LoopOK, WinnersOK
<1> QED  BY <1>1, <1>2, <1>3, <1>4 DEF Next, Quiescent

\* The inductive invariant holds in every reachable state.
THEOREM Invariant == Spec => []IInv
BY InitIInv, NextIInv, PTL DEF Spec

\* CommitData, the snapshot and the loop's counters keep their types, whatever the
\* planners of the operations commit.
THEOREM TypeCorrect == Spec => []TypeOK
<1>1. IInv => TypeOK
  BY DEF IInv
<1> QED  BY <1>1, Invariant, PTL

\* check_no_metadata_updates: over all retries of a commit, no Metadata action lies
\* between the snapshot it was planned on and its own version.
THEOREM MetadataIsStable == Spec => []MetadataStable
<1>1. IInv => MetadataStable
  BY DEF IInv, LogOK, CheckedBelow, Passed, Compatible, MetadataChanged, MetadataStable
<1> QED  BY <1>1, Invariant, PTL

\* check_for_updated_application_transaction_ids_that_current_txn_depends_on and
\* check_for_domain_metadata_conflicts: whatever operations two commits are of, a Txn or
\* DomainMetadata action is not overwritten unread, but by a create that lost version 0.
THEOREM NoUpdateIsLost == Spec => []NoLostUpdate
<1>1. ASSUME IInv, NEW u \in DOMAIN log, NEW v \in DOMAIN log, u < v,
             log[v].read # NONE,
             \/ log[u].app # NONE /\ log[u].app = log[v].app
             \/ log[u].domain # NONE /\ log[u].domain = log[v].domain
      PROVE  u <= log[v].read
  <2>1. /\ u \in Nat /\ log[v] \in Commit
        /\ Planned(log, log[v]) /\ CheckedBelow(log, log[v], v)
    BY <1>1 DEF IInv, LogOK, WellFormed
  <2>2. log[v].read \in Nat
    BY <1>1, <2>1 DEF Commit
  <2>3. ~Passed(log, log[v], u)
    BY <1>1 DEF Passed, Compatible, ConcurrentTransaction, ConcurrentDomainMetadata
  <2> QED  BY SMTT(60), <1>1, <2>1, <2>2, <2>3 DEF CheckedBelow
<1>2. IInv => NoLostUpdate
  BY <1>1 DEF NoLostUpdate
<1> QED  BY <1>2, Invariant, PTL

\* A commit that has passed its checks removes files that are still active, unless
\* OPTIMIZE commits bin by bin.
LEMMA LiveRemoves ==
    ASSUME ~CommitInterval, NEW l, WellFormed(l), NEW v \in DOMAIN l, v > 0,
           Planned(l, l[v]), CheckedBelow(l, l[v], v)
    PROVE  l[v].removes \subseteq Active(l, v - 1)
<1> SUFFICES ASSUME NEW f \in l[v].removes
             PROVE  f \in Active(l, v - 1)
  OBVIOUS
<1>1. v \in Nat /\ v - 1 \in Nat /\ DOMAIN l \subseteq Nat /\ l[v] \in Commit
  BY SMTT(60) DEF WellFormed
<1>2. l[v].read # NONE
  BY DEF Planned
<1>3. l[v].read \in Nat /\ f \in Active(l, l[v].read) /\ l[v].read <= v - 1
  <2>1. l[v].read \in Nat /\ l[v].read < v
    BY <1>1, <1>2 DEF Commit, CheckedBelow
  <2>2. f \in Active(l, l[v].read)
    BY <1>2 DEF Planned
  <2> QED  BY SMTT(60), <1>1, <2>1, <2>2
<1>4. \A u \in DOMAIN l : l[v].read < u /\ u <= v - 1 => f \notin l[u].removes
  BY SMTT(60), <1>1, <1>2 DEF CheckedBelow, Passed, Compatible, ConcurrentDeleteDelete
<1> QED  BY <1>1, <1>3, <1>4, ActiveKept

\* check_for_deleted_files_against_current_txn_deleted_files: unless OPTIMIZE commits
\* bin by bin, no commit ever removes a file that is not active when it lands.
THEOREM RemovedFilesAreLive ==
    ASSUME ~CommitInterval
    PROVE  Spec => []RemovesAreLive
<1>1. IInv => RemovesAreLive
  BY LiveRemoves DEF IInv, LogOK, RemovesAreLive
<1> QED  BY <1>1, Invariant, PTL
=============================================================================
