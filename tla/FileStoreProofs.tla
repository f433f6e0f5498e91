--------------------------- MODULE FileStoreProofs ---------------------------
(***************************************************************************)
(* For any number of operations, retries and faults, the log stores that   *)
(* keep commits as files implement the contract of the trait LogStore,     *)
(* commit no operation twice and leave temporary files behind only where   *)
(* the code lets them.                                                     *)
(***************************************************************************)
EXTENDS FileLogStore, FiniteSetTheorems, SequenceTheorems, TLAPS

\* A step gets up to a minute of each prover unless it names its own.
USE SMTT(60), ZenonT(60)

Results == {"none", "ok", "exhausted", "error", "abort_failed", "stopped"}
Labels == {"begin", "list", "write", "put", "abort", "done"}

TypeOK ==
    /\ log \in [Versions -> Ops \cup {NONE}]
    /\ tmp \subseteq Ops
    /\ pc \in [Ops -> Labels]
    /\ latest \in [Ops -> Nat]
    /\ result \in [Ops -> Results]

(* The log has no gap, and nobody believes it longer than it is.           *)
NoGap == LatestVersion \in Nat /\ Written = 1 .. LatestVersion
ListedExists == \A o \in Ops : latest[o] <= LatestVersion

(* Who has still to write is not in the log.                               *)
NotYet == \A o \in Ops : pc[o] \in {"begin", "list", "write", "put"} => \A v \in Written : log[v] # o

(* A store that overwrites has one writer, whose listing is current.       *)
PutIsShim == \A o \in Ops : pc[o] = "put" => kind = "shim"
Alone ==
    kind \in Unconditional =>
        \A o, p \in Ops : o # p => pc[o] \in {"begin", "done"} \/ pc[p] \in {"begin", "done"}
Current ==
    kind \in Unconditional => \A o \in Ops : pc[o] \in {"write", "put"} => latest[o] = LatestVersion

(* Who was told ok is in the log, and nobody is told anything early.       *)
Told == \A o \in Ops : result[o] = "ok" => \E v \in Written : log[v] = o
Untold == \A o \in Ops : pc[o] # "done" => result[o] = "none"

Inv ==
    /\ TypeOK /\ NoGap /\ ListedExists /\ CommittedOnce /\ NotYet
    /\ PutIsShim /\ Alone /\ Current /\ Told /\ Untold /\ TemporaryFileRemoved

-----------------------------------------------------------------------------
(* The versions are numbers.                                               *)
LEMMA VersionsFinite == Cardinality(Ops) \in Nat
  BY OpsAssumption, FS_CardinalityType

(* When the log is the versions 1 to n, the listing finds n.               *)
LEMMA CountOfPrefix ==
  ASSUME NEW n \in Nat, Written = 1 .. n
  PROVE  LatestVersion = n
  BY FS_Interval DEF LatestVersion

(* The same of the next state.                                             *)
LEMMA CountOfPrefixNext ==
  ASSUME NEW n \in Nat, Written' = 1 .. n
  PROVE  LatestVersion' = n
  BY FS_Interval DEF LatestVersion

(* As long as an operation has not written, a version is free for it:      *)
(* every version in the log is the one of another operation.               *)
LEMMA RoomLeft ==
  ASSUME TypeOK, NoGap, CommittedOnce, NEW o \in Ops, \A v \in Written : log[v] # o
  PROVE  LatestVersion + 1 \in Versions
  <1> DEFINE n == LatestVersion
             T == Ops \ {o}
             f == [v \in 1 .. n |-> log[v]]
  <1>1. n \in Nat /\ Written = 1 .. n
    BY DEF NoGap
  <1>2. \A v \in 1 .. n : v \in Versions /\ log[v] \in T
    BY <1>1 DEF Written, TypeOK
  <1>3. f \in [1 .. n -> T]
    BY <1>2
  <1>4. \A u, v \in 1 .. n : f[u] = f[v] => u = v
    BY <1>1 DEF CommittedOnce
  <1>5. IsFiniteSet(T) /\ Cardinality(T) = Cardinality(Ops) - 1
    BY OpsAssumption, FS_RemoveElement
  <1>6. IsFiniteSet(1 .. n) /\ Cardinality(1 .. n) = n
    BY <1>1, FS_Interval
  <1> HIDE DEF f, T, n
  <1>7. ~(Cardinality(T) < Cardinality(1 .. n))
    <2> SUFFICES ASSUME Cardinality(T) < Cardinality(1 .. n) PROVE FALSE
      OBVIOUS
    <2>1. \E x, y \in 1 .. n : x # y /\ f[x] = f[y]
      <3> DEFINE S == 1 .. n
      <3>1. IsFiniteSet(S) /\ IsFiniteSet(T) /\ Cardinality(T) < Cardinality(S) /\ f \in [S -> T]
        BY <1>3, <1>5, <1>6
      <3> HIDE DEF S
      <3>2. \E x, y \in S : x # y /\ f[x] = f[y]
        BY <3>1, FS_PigeonHole
      <3> QED
        BY <3>2 DEF S
    <2> QED
      BY <2>1, <1>4
  <1>8. n + 1 <= Cardinality(Ops)
    BY <1>1, <1>5, <1>6, <1>7, VersionsFinite
  <1> QED
    BY <1>1, <1>8, VersionsFinite DEF n, Versions

(* A store creates the entry of the version after the last one: one that   *)
(* refuses to replace an entry finds no other free version at or below its *)
(* target, and one that overwrites has listed the log as it is.            *)
LEMMA CreatesNext ==
  ASSUME Inv, NEW o \in Ops, Create(o)
  PROVE  /\ pc[o] \in {"write", "put"}
         /\ LatestVersion + 1 \in Versions
         /\ LatestVersion \in Nat
         /\ log' = [log EXCEPT ![LatestVersion + 1] = o]
         /\ log' \in [Versions -> Ops \cup {NONE}]
         /\ log'[LatestVersion + 1] = o
         /\ \A v \in Written : log'[v] = log[v]
         /\ Written' = 1 .. LatestVersion + 1
         /\ Written' = Written \cup {LatestVersion + 1}
         /\ LatestVersion + 1 \notin Written
         /\ LatestVersion' = LatestVersion + 1
  <1> DEFINE n == LatestVersion
  <1>1. n \in Nat /\ Written = 1 .. n
    BY DEF Inv, NoGap
  <1>2. pc[o] \in {"write", "put"}
    BY DEF Create
  <1>3. n + 1 \in Versions
    BY <1>2, RoomLeft DEF Inv, NotYet
  <1>4. latest[o] \in Nat /\ latest[o] <= n
    BY DEF Inv, TypeOK, ListedExists
  <1>5. target(o) = n + 1
    <2>1. CASE kind \in Unconditional
      BY <2>1, <1>2 DEF Inv, Current, target
    <2>2. CASE kind \notin Unconditional
      <3>1. log[target(o)] = NONE
        BY <2>2 DEF Create, AlreadyExists, Unconditional
      <3>2. target(o) \in Versions
        BY <1>1, <1>3, <1>4, VersionsFinite DEF target, Versions
      <3>3. target(o) \notin 1 .. n
        BY <3>1, <3>2, <1>1 DEF Written
      <3> QED
        BY <3>3, <1>1, <1>4 DEF target
    <2> QED
      BY <2>1, <2>2
  <1>6. log' = [log EXCEPT ![n + 1] = o]
    BY <1>5 DEF Create
  <1>7. log' \in [Versions -> Ops \cup {NONE}]
    BY Zenon, <1>6 DEF Inv, TypeOK
  <1>8. log'[n + 1] = o /\ \A v \in Versions : v # n + 1 => log'[v] = log[v]
    BY <1>3, <1>6 DEF Inv, TypeOK
  <1>9. n + 1 \notin Written
    BY <1>1
  <1>10. Written' = Written \cup {n + 1}
    BY <1>3, <1>8, OpsAssumption DEF Written, Versions
  <1>11. Written' = 1 .. n + 1
    BY <1>1, <1>10
  <1>12. LatestVersion' = n + 1
    BY <1>1, <1>11, CountOfPrefixNext
  <1>13. \A v \in Written : log'[v] = log[v]
    BY <1>8, <1>9 DEF Written
  <1> QED
    BY <1>1, <1>2, <1>3, <1>6, <1>7, <1>8, <1>9, <1>10, <1>11, <1>12, <1>13

(* Where the log stays, so does what is listed.                            *)
LEMMA LogKept ==
  ASSUME UNCHANGED log
  PROVE  Written' = Written /\ LatestVersion' = LatestVersion
  BY DEF Written, LatestVersion

-----------------------------------------------------------------------------
(* The initial state satisfies the invariant: the log is empty.            *)
LEMMA InitInv == Init => Inv
  <1> SUFFICES ASSUME Init PROVE Inv
    OBVIOUS
  <1> USE DEF Init
  <1>1. Written = {} /\ LatestVersion = 0
    <2>1. Written = 1 .. 0
      BY DEF Written
    <2> QED
      BY <2>1, CountOfPrefix
  <1>2. TypeOK
    BY DEF TypeOK, Labels, Results
  <1>3. NoGap /\ ListedExists /\ CommittedOnce /\ NotYet /\ Told
    BY <1>1 DEF NoGap, ListedExists, CommittedOnce, NotYet, Told
  <1>4. PutIsShim /\ Alone /\ Current /\ Untold /\ TemporaryFileRemoved
    BY DEF PutIsShim, Alone, Current, Untold, TemporaryFileRemoved
  <1> QED
    BY <1>2, <1>3, <1>4 DEF Inv

-----------------------------------------------------------------------------
(* Every step keeps the invariant.                                         *)

(* A step that leaves the log alone.                                       *)
LEMMA QuietStep ==
  ASSUME Inv, NEW o \in Ops, UNCHANGED kind,
         \/ write_tmp_commit(o) \/ get_latest_version(o) \/ VersionAlreadyExists(o) \/ HeadNotFound(o)
         \/ (WriteFails(o) /\ UNCHANGED log) \/ abort_commit_entry(o) \/ AbortFails(o) \/ Stop(o)
  PROVE  Inv'
  <1> USE DEF Inv
  <1>0. UNCHANGED log /\ Written' = Written /\ LatestVersion' = LatestVersion
    <2>1. UNCHANGED log
      BY DEF write_tmp_commit, get_latest_version, VersionAlreadyExists, HeadNotFound, abort_commit_entry,
             AbortFails, Stop
    <2> QED
      BY <2>1, LogKept
  <1>1. CommittedOnce' /\ NoGap'
    BY <1>0 DEF CommittedOnce, NoGap
  <1>2. CASE write_tmp_commit(o)
    <2> USE DEF write_tmp_commit, Goto
    <2>1. TypeOK'
      BY <1>2, <1>0 DEF TypeOK, Labels
    <2>2. ListedExists' /\ NotYet' /\ PutIsShim' /\ Told' /\ Untold'
      BY <1>2, <1>0 DEF TypeOK, ListedExists, NotYet, PutIsShim, Told, Untold
    <2>3. Alone'
      BY <1>2 DEF TypeOK, Alone, Admitted
    <2>4. Current'
      BY <1>2, <1>0 DEF TypeOK, Current
    <2>5. TemporaryFileRemoved'
      BY <1>2 DEF TypeOK, TemporaryFileRemoved, Untold
    <2> QED
      BY <1>1, <2>1, <2>2, <2>3, <2>4, <2>5
  <1>3. CASE get_latest_version(o)
    <2> USE DEF get_latest_version, Goto
    <2>1. TypeOK'
      BY <1>3, <1>0 DEF TypeOK, Labels, NoGap
    <2>2. ListedExists'
      BY <1>3, <1>0 DEF TypeOK, ListedExists, NoGap
    <2>3. NotYet' /\ PutIsShim' /\ Told' /\ Untold' /\ TemporaryFileRemoved'
      BY <1>3, <1>0 DEF TypeOK, NotYet, PutIsShim, Told, Untold, TemporaryFileRemoved
    <2>4. Alone'
      BY <1>3 DEF TypeOK, Alone
    <2>5. Current'
      BY <1>3, <1>0 DEF TypeOK, Current
    <2> QED
      BY <1>1, <2>1, <2>2, <2>3, <2>4, <2>5
  <1>4. CASE VersionAlreadyExists(o) \/ abort_commit_entry(o) \/ AbortFails(o) \/ Stop(o)
    <2> USE DEF VersionAlreadyExists, abort_commit_entry, AbortFails, Stop, Goto, Finish
    <2>1. /\ UNCHANGED latest
          /\ pc[o] \notin {"begin", "done"}
          /\ \/ UNCHANGED <<pc, result>>
             \/ pc' = [pc EXCEPT ![o] = "list"] /\ UNCHANGED <<result, tmp>> /\ pc[o] = "write"
             \/ /\ pc' = [pc EXCEPT ![o] = "done"]
                /\ \/ \E r \in {"exhausted", "abort_failed", "stopped"} : result' = [result EXCEPT ![o] = r]
                   \/ result' = [result EXCEPT ![o] = "error"] /\ tmp' = tmp \ {o}
          /\ tmp' \subseteq tmp
      BY <1>4
    <2>2. TypeOK'
      BY <2>1, <1>0 DEF TypeOK, Labels, Results
    <2>3. ListedExists' /\ NotYet' /\ PutIsShim'
      BY <2>1, <1>0 DEF TypeOK, ListedExists, NotYet, PutIsShim
    <2>4. Told' /\ Untold'
      BY <2>1, <1>0 DEF TypeOK, Told, Untold
    <2>5. Alone'
      BY <2>1 DEF TypeOK, Alone
    <2>6. Current'
      BY <2>1, <1>0 DEF TypeOK, Current
    <2>7. TemporaryFileRemoved'
      BY <2>1 DEF TypeOK, TemporaryFileRemoved
    <2> QED
      BY <1>1, <2>2, <2>3, <2>4, <2>5, <2>6, <2>7
  <1>5. CASE HeadNotFound(o) \/ (WriteFails(o) /\ UNCHANGED log)
    <2> USE DEF HeadNotFound, WriteFails, Goto
    <2>1. /\ UNCHANGED <<latest, result, tmp>>
          /\ \/ pc[o] = "write" /\ kind = "shim" /\ pc' = [pc EXCEPT ![o] = "put"]
             \/ pc[o] \in {"write", "put"} /\ pc' = [pc EXCEPT ![o] = "abort"]
      BY <1>5
    <2>2. TypeOK'
      BY <2>1, <1>0 DEF TypeOK, Labels
    <2>3. ListedExists' /\ NotYet' /\ PutIsShim'
      BY <2>1, <1>0 DEF TypeOK, ListedExists, NotYet, PutIsShim
    <2>4. Told' /\ Untold' /\ TemporaryFileRemoved'
      BY <2>1, <1>0 DEF TypeOK, Told, Untold, TemporaryFileRemoved
    <2>5. Alone'
      BY <2>1 DEF TypeOK, Alone
    <2>6. Current'
      BY <2>1, <1>0 DEF TypeOK, Current
    <2> QED
      BY <1>1, <2>2, <2>3, <2>4, <2>5, <2>6
  <1> QED
    BY <1>2, <1>3, <1>4, <1>5

(* A step that creates an entry.                                           *)
LEMMA CreatingStep ==
  ASSUME Inv, NEW o \in Ops, UNCHANGED kind, Create(o), WriteCommit(o) \/ WriteFails(o)
  PROVE  Inv'
  <1> DEFINE n == LatestVersion
  <1>1. /\ pc[o] \in {"write", "put"} /\ n \in Nat /\ n + 1 \in Versions
        /\ log' \in [Versions -> Ops \cup {NONE}] /\ log'[n + 1] = o
        /\ \A v \in Written : log'[v] = log[v]
        /\ Written' = 1 .. n + 1 /\ Written' = Written \cup {n + 1} /\ LatestVersion' = n + 1
        /\ n + 1 \notin Written
    BY CreatesNext
  <1> HIDE DEF n
  <1>2. n = LatestVersion
    BY DEF n
  <1>3. /\ UNCHANGED latest
        /\ \/ /\ pc' = [pc EXCEPT ![o] = "done"] /\ result' = [result EXCEPT ![o] = "ok"]
              /\ tmp' = tmp \ {o}
           \/ pc' = [pc EXCEPT ![o] = "abort"] /\ UNCHANGED <<result, tmp>>
    BY DEF WriteCommit, WriteFails, Goto, Finish
  <1>4. TypeOK'
    <2>1. pc' \in [Ops -> Labels] /\ latest' \in [Ops -> Nat] /\ tmp' \subseteq Ops
      BY <1>3 DEF Inv, TypeOK, Labels
    <2>2. result' \in [Ops -> Results]
      BY <1>3 DEF Inv, TypeOK, Results
    <2>3. Versions' = Versions
      BY DEF Versions
    <2> QED
      BY <1>1, <2>1, <2>2, <2>3 DEF TypeOK
  <1>5. NoGap' /\ ListedExists'
    BY <1>1, <1>2, <1>3 DEF Inv, TypeOK, NoGap, ListedExists
  <1>6. CommittedOnce'
    BY <1>1 DEF Inv, NotYet, CommittedOnce
  <1>7. NotYet'
    BY ZenonT(60), <1>1, <1>3 DEF Inv, TypeOK, NotYet
  <1>8. PutIsShim' /\ Alone'
    BY ZenonT(60), <1>1, <1>3 DEF Inv, TypeOK, PutIsShim, Alone
  <1>9. Current'
    <2>1. pc'[o] \notin {"write", "put"} /\ \A p \in Ops : p # o => pc'[p] = pc[p]
      BY <1>3 DEF Inv, TypeOK
    <2>2. kind \in Unconditional => \A p \in Ops : pc'[p] \notin {"write", "put"}
      BY <1>1, <2>1 DEF Inv, Alone
    <2> QED
      BY <2>2 DEF Current, Unconditional
  <1>10. Told'
    BY <1>1, <1>3 DEF Inv, TypeOK, Told
  <1>11. Untold' /\ TemporaryFileRemoved'
    BY <1>1, <1>3 DEF Inv, TypeOK, Untold, TemporaryFileRemoved
  <1> QED
    BY <1>4, <1>5, <1>6, <1>7, <1>8, <1>9, <1>10, <1>11 DEF Inv

(* Both together.                                                          *)
LEMMA StepInv == Inv /\ [Next]_vars => Inv'
  <1> SUFFICES ASSUME Inv, [Next]_vars PROVE Inv'
    OBVIOUS
  <1>1. CASE UNCHANGED vars
    <2>1. Written' = Written /\ LatestVersion' = LatestVersion
      BY <1>1, LogKept DEF vars
    <2> QED
      BY <1>1, <2>1 DEF vars, Inv, TypeOK, NoGap, ListedExists, CommittedOnce, NotYet, PutIsShim, Alone,
                        Current, Told, Untold, TemporaryFileRemoved
  <1>2. ASSUME NEW o \in Ops, Step(o), UNCHANGED kind PROVE Inv'
    <2>1. CASE WriteCommit(o) \/ (WriteFails(o) /\ Create(o))
      BY <1>2, <2>1, CreatingStep DEF WriteCommit
    <2>2. CASE ~(WriteCommit(o) \/ (WriteFails(o) /\ Create(o)))
      BY <1>2, <2>2, QuietStep DEF Step, WriteFails
    <2> QED
      BY <2>1, <2>2
  <1> QED
    BY <1>1, <1>2 DEF Next, Done

(* The inductive invariant holds throughout, for any number of operations, *)
(* retries, deletions and faults: a version is created by one operation,   *)
(* the log has no gap, and a store that overwrites lists before it writes. *)
THEOREM Invariant == Spec => []Inv
  BY InitInv, StepInv, PTL DEF Spec

(* No operation is committed twice by the retries of the commit loop.      *)
THEOREM NothingCommittedTwice == Spec => []CommittedOnce
  <1>1. Inv => CommittedOnce
    BY DEF Inv
  <1> QED
    BY <1>1, Invariant, PTL

(* A temporary commit file is left behind only by an operation that gave   *)
(* up, stopped or could not delete it.                                     *)
THEOREM NoTemporaryFileLeft == Spec => []TemporaryFileRemoved
  <1>1. Inv => TemporaryFileRemoved
    BY DEF Inv
  <1> QED
    BY <1>1, Invariant, PTL

-----------------------------------------------------------------------------
(* The stores implement the contract.                                      *)

(* What a client reads is a sequence of operations.                        *)
LEMMA EntriesSeq ==
  ASSUME Inv
  PROVE  Entries \in Seq(Ops) /\ Len(Entries) = LatestVersion
  <1>1. LatestVersion \in Nat /\ \A v \in 1 .. LatestVersion : log[v] \in Ops
    BY DEF Inv, NoGap, TypeOK, Written
  <1>2. Entries \in [1 .. LatestVersion -> Ops]
    BY <1>1 DEF Entries
  <1> QED
    BY <1>1, <1>2, SeqDef DEF Entries

(* Creating an entry appends it to what clients read.                      *)
LEMMA CreateAppends ==
  ASSUME Inv, NEW o \in Ops, Create(o)
  PROVE  Entries' = Append(Entries, o) /\ \E v \in DOMAIN Entries' : Entries'[v] = o
  <1> DEFINE n == LatestVersion
  <1>1. /\ n \in Nat /\ LatestVersion' = n + 1 /\ log'[n + 1] = o
        /\ \A v \in 1 .. n : log'[v] = log[v]
    BY CreatesNext DEF Inv, NoGap
  <1>2. Entries \in Seq(Ops) /\ Len(Entries) = n /\ \A v \in 1 .. n : Entries[v] = log[v]
    BY Zenon, EntriesSeq DEF Entries
  <1>3. Entries' = [v \in 1 .. n + 1 |-> log'[v]]
    BY <1>1 DEF Entries
  <1> HIDE DEF n
  <1>4. \A v \in 1 .. n + 1 : log'[v] = IF v <= n THEN Entries[v] ELSE o
    BY <1>1, <1>2
  <1>5. Append(Entries, o) = [v \in 1 .. n + 1 |-> IF v <= n THEN Entries[v] ELSE o]
    <2> DEFINE t == Append(Entries, o)
    <2>1. /\ t \in Seq(Ops) /\ Len(t) = n + 1
          /\ \A v \in 1 .. n : t[v] = Entries[v]
          /\ t[n + 1] = o
      BY <1>2, AppendProperties
    <2>2. t \in [1 .. n + 1 -> Ops]
      BY Zenon, <2>1, LenProperties
    <2> HIDE DEF t
    <2>3. \A v \in 1 .. n + 1 : t[v] = IF v <= n THEN Entries[v] ELSE o
      BY <2>1, <1>1
    <2>4. t = [v \in 1 .. n + 1 |-> IF v <= n THEN Entries[v] ELSE o]
      BY <2>2, <2>3
    <2> QED
      BY <2>4 DEF t
  <1>6. Entries' = Append(Entries, o)
    BY <1>3, <1>4, <1>5
  <1>7. n + 1 \in DOMAIN Entries' /\ Entries'[n + 1] = o
    BY <1>1, <1>3
  <1> QED
    BY <1>6, <1>7

(* The initial states are empty logs of which nobody was told.             *)
LEMMA RefinesInit == Init => Contract!Init
  <1> SUFFICES ASSUME Init PROVE Contract!Init
    OBVIOUS
  <1>1. Inv
    BY InitInv
  <1>2. LatestVersion = 0
    <2>1. Written = {}
      BY DEF Init, Written
    <2> QED
      BY <2>1, FS_EmptySet DEF LatestVersion
  <1>3. Entries = << >>
    BY <1>1, <1>2, EntriesSeq
  <1>4. Acked = {}
    BY DEF Init, Acked
  <1> QED
    BY <1>3, <1>4 DEF Contract!Init

(* Every step appends one entry, tells one writer of its entry, does both, *)
(* or is invisible.                                                        *)
LEMMA RefinesStep ==
  ASSUME Inv, [Next]_vars
  PROVE  [Contract!Next]_<<Entries, Acked>>
  <1>1. ASSUME UNCHANGED log PROVE Entries' = Entries
    BY <1>1, LogKept DEF Entries, Inv
  <1>2. CASE UNCHANGED vars
    BY <1>1, <1>2 DEF vars, Acked
  <1>3. ASSUME NEW o \in Ops, WriteCommit(o) PROVE Contract!Next
    <2>1. Entries' = Append(Entries, o) /\ \E v \in DOMAIN Entries' : Entries'[v] = o
      BY <1>3, CreateAppends DEF WriteCommit
    <2>2. Acked' = Acked \cup {o}
      BY <1>3 DEF WriteCommit, Finish, Acked, Inv, TypeOK
    <2> QED
      BY <2>1, <2>2 DEF Contract!Next, Contract!Acknowledge
  <1>4. ASSUME NEW o \in Ops, WriteFails(o), Create(o) PROVE Contract!Next
    <2>1. Entries' = Append(Entries, o)
      BY <1>4, CreateAppends
    <2>2. Acked' = Acked
      BY <1>4 DEF WriteFails, Acked
    <2> QED
      BY <2>1, <2>2 DEF Contract!Next, Contract!Write
  <1>5. ASSUME NEW o \in Ops, Step(o), ~WriteCommit(o), ~(WriteFails(o) /\ Create(o))
        PROVE  UNCHANGED <<Entries, Acked>>
    <2>1. UNCHANGED log
      BY <1>5 DEF Step, write_tmp_commit, get_latest_version, VersionAlreadyExists, HeadNotFound, WriteFails,
                  abort_commit_entry, AbortFails, Stop
    <2>2. UNCHANGED result \/ /\ pc[o] # "done"
                              /\ \E r \in Results \ {"ok"} : result' = [result EXCEPT ![o] = r]
      BY <1>5 DEF Step, write_tmp_commit, get_latest_version, VersionAlreadyExists, HeadNotFound, WriteFails,
                  abort_commit_entry, AbortFails, Stop, Finish, Results
    <2>3. Acked' = Acked
      BY <2>2 DEF Acked, Inv, TypeOK, Untold
    <2> QED
      BY <2>1, <2>3, <1>1
  <1>6. CASE Done
    BY <1>2, <1>6 DEF Done
  <1> QED
    BY <1>2, <1>3, <1>4, <1>5, <1>6 DEF Next

(* Every store of files implements the contract of the trait LogStore.     *)
THEOREM FilesImplementLogStore == Spec => ImplementsLogStore
  <1>1. Inv /\ [Next]_vars => [Contract!Next]_<<Entries, Acked>>
    BY RefinesStep
  <1> QED
    BY RefinesInit, <1>1, Invariant, PTL DEF Spec, ImplementsLogStore, Contract!Spec
=============================================================================
