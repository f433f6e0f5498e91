----------------------------- MODULE PlanProofs -----------------------------
(***************************************************************************)
(* What the operations plan: for any log and any snapshot, the commits of  *)
(* Operations are well formed and name the snapshot they read, remove only *)
(* files that are active there, and take out of the table and put into it  *)
(* exactly the rows that they should.                                      *)
(***************************************************************************)
EXTENDS Operations, WellFoundedInduction, TLAPS

\* A step gets up to a minute of each prover unless it names its own.
USE SMTT(60), ZenonT(60)

-----------------------------------------------------------------------------
(* Facts about the log and about what the planners commit.                 *)

\* A log of well-formed commits without gaps, whose first version sets the
\* metadata and the protocol.
WellFormed(l) ==
    /\ DOMAIN l \subseteq Nat
    /\ \A v \in DOMAIN l : l[v] \in Commit
    /\ \A v \in DOMAIN l : 0 .. v \subseteq DOMAIN l
    /\ 0 \in DOMAIN l => l[0].metadata # NONE /\ l[0].protocol # NONE

\* A non-empty set of naturals up to n has a largest element.
LEMMA LargestNatural ==
    ASSUME NEW S \in SUBSET Nat, NEW n \in Nat, S # {}, \A s \in S : s <= n
    PROVE  \E m \in S : \A s \in S : s <= m
<1> DEFINE T == {n - s : s \in S}
<1>1. T \subseteq Nat /\ T # {}
  <2>1. \A s \in S : n - s \in Nat
    OBVIOUS
  <2>2. PICK s \in S : TRUE
    BY Zenon
  <2>3. n - s \in T
    BY <2>2
  <2> QED  BY <2>1, <2>3
<1>2. PICK x \in T : \A y \in T : ~ (<<y, x>> \in OpToRel(<, Nat))
  <2> HIDE DEF T
  <2> QED  BY <1>1, WFMin, NatLessThanWellFounded
<1>3. \A y \in T : ~ (y < x)
  BY Zenon, <1>1, <1>2 DEF OpToRel
<1>4. PICK m \in S : x = n - m
  OBVIOUS
<1>5. \A s \in S : ~ (n - s < n - m)
  BY <1>3, <1>4
<1> QED  BY <1>5

\* A new version behind all others leaves the active files of earlier ones alone.
LEMMA ActiveOfOlder ==
    ASSUME NEW l, DOMAIN l \subseteq Nat, NEW v \in Nat, v \notin DOMAIN l, NEW c,
           NEW u \in Nat, u < v
    PROVE  Active(Put(l, v, c), u) = Active(l, u)
<1> DEFINE k == Put(l, v, c)
<1>1. DOMAIN k = DOMAIN l \cup {v} /\ \A w \in DOMAIN l : k[w] = l[w]
  BY DEF Put
<1>2. ASSUME NEW f, NEW w \in DOMAIN l
      PROVE  AddedAndKept(k, u, w, f) <=> AddedAndKept(l, u, w, f)
  BY <1>1, <1>2 DEF AddedAndKept
<1>3. \A f : ~AddedAndKept(k, u, v, f)
  BY DEF AddedAndKept
<1>4. \A f : \A w \in DOMAIN l : AddedAndKept(l, u, w, f) => f \in LogFiles(l) /\ f \in LogFiles(k)
  BY <1>1 DEF AddedAndKept, LogFiles
<1>5. \A f : (\E w \in DOMAIN k : AddedAndKept(k, u, w, f)) <=> (\E w \in DOMAIN l : AddedAndKept(l, u, w, f))
  <2> HIDE DEF k
  <2> QED  BY <1>1, <1>2, <1>3
<1>6. Active(k, u) = Active(l, u)
  <2> HIDE DEF k
  <2>1. \A f : f \in Active(k, u) <=> f \in LogFiles(k) /\ \E w \in DOMAIN k : AddedAndKept(k, u, w, f)
    BY DEF Active
  <2>2. \A f : f \in Active(l, u) <=> f \in LogFiles(l) /\ \E w \in DOMAIN l : AddedAndKept(l, u, w, f)
    BY DEF Active
  <2> QED  BY Zenon, <2>1, <2>2, <1>4, <1>5
<1> QED  BY <1>6

\* A file that is active in r and that no later version up to v removes is active in v.
LEMMA ActiveKept ==
    ASSUME NEW l, DOMAIN l \subseteq Nat, NEW r \in Nat, NEW v \in Nat, r <= v,
           NEW f \in Active(l, r), \A u \in DOMAIN l : r < u /\ u <= v => f \notin l[u].removes
    PROVE  f \in Active(l, v)
<1>1. PICK w \in DOMAIN l : AddedAndKept(l, r, w, f)
  BY DEF Active
<1>2. AddedAndKept(l, v, w, f)
  BY <1>1 DEF AddedAndKept
<1> QED  BY <1>2 DEF Active

LEMMA ActiveFiles ==
    ASSUME NEW l, WellFormed(l), NEW r
    PROVE  Active(l, r) \subseteq File
BY DEF Active, LogFiles, WellFormed, Commit

LEMMA MetadataInForce ==
    ASSUME NEW l, WellFormed(l), NEW r \in DOMAIN l
    PROVE  MetadataAt(l, r) \in Metadata
<1> DEFINE S == {w \in DOMAIN l : w <= r /\ l[w].metadata # NONE}
<1>1. r \in Nat /\ 0 \in DOMAIN l /\ 0 \in S
  BY DEF WellFormed
<1>2. S \in SUBSET Nat /\ \A s \in S : s <= r
  BY DEF WellFormed
<1>3. PICK m \in S : \A s \in S : s <= m
  <2> HIDE DEF S
  <2> QED  BY Zenon, <1>1, <1>2, LargestNatural
<1>4. MetadataVersion(l, r) \in S
  BY <1>3 DEF MetadataVersion
<1>5. \A w \in S : l[w].metadata \in Metadata
  BY DEF WellFormed, Commit
<1> QED  BY <1>4, <1>5 DEF MetadataAt

LEMMA ProtocolInForce ==
    ASSUME NEW l, WellFormed(l), NEW r \in DOMAIN l
    PROVE  ProtocolAt(l, r) \in Protocol
<1> DEFINE S == {w \in DOMAIN l : w <= r /\ l[w].protocol # NONE}
<1>1. r \in Nat /\ 0 \in DOMAIN l /\ 0 \in S
  BY DEF WellFormed
<1>2. S \in SUBSET Nat /\ \A s \in S : s <= r
  BY DEF WellFormed
<1>3. PICK m \in S : \A s \in S : s <= m
  <2> HIDE DEF S
  <2> QED  BY Zenon, <1>1, <1>2, LargestNatural
<1>4. ProtocolVersion(l, r) \in S
  BY <1>3 DEF ProtocolVersion
<1>5. \A w \in S : l[w].protocol \in Protocol
  BY DEF WellFormed, Commit
<1> QED  BY <1>4, <1>5 DEF ProtocolAt

-----------------------------------------------------------------------------
(* What a planner commits is well formed, names the snapshot it read and   *)
(* removes only files of that snapshot.                                    *)

PlanOK(l, t, r, c) == c \in Commit /\ c.id = t /\ c.read = r /\ c.removes \subseteq Active(l, r)

LEMMA BaseOK ==
    ASSUME NEW l, NEW t \in Writers, NEW k \in OperationKind, NEW r \in Nat \cup {NONE}
    PROVE  /\ PlanOK(l, t, r, Base(t, k, r))
           /\ Base(t, k, r).removes = {}
BY DEF PlanOK, Base, Commit, Predicate

LEMMA NewRowsType ==
    ASSUME NEW t \in Writers, NEW ks \in SUBSET Keys
    PROVE  NewRows(t, ks) \in SUBSET Row
BY DEF NewRows, Row

LEMMA NewFileType ==
    ASSUME NEW t \in Writers, NEW n \in Nat, NEW rows \in SUBSET Row
    PROVE  NewFile(t, n, rows) \in File /\ NonEmptyFile(NewFile(t, n, rows)) \subseteq File
BY DEF NewFile, File, NonEmptyFile

LEMMA RewriteOK ==
    ASSUME NEW l, WellFormed(l), NEW t \in Writers, NEW r \in DOMAIN l, NEW c,
           PlanOK(l, t, r, c), NEW new \in SUBSET Row
    PROVE  PlanOK(l, t, r, Rewrite(l, r, c, t, new))
<1> DEFINE matched == Matching(Active(l, r), c.pred)
           rescued == UNION {f.rows \ MatchingRows(f.rows, c.pred) : f \in matched}
<1>1. matched \subseteq Active(l, r) /\ matched \subseteq File
  BY ActiveFiles DEF Matching
<1>2. rescued \in SUBSET Row
  <2> HIDE DEF matched
  <2> QED  BY <1>1 DEF File
<1>3. NonEmptyFile(NewFile(t, 0, rescued \cup new)) \subseteq File
  <2> HIDE DEF rescued
  <2> QED  BY <1>2, NewFileType
<1>4. Rewrite(l, r, c, t, new) =
        [c EXCEPT !.removes = matched, !.adds = NonEmptyFile(NewFile(t, 0, rescued \cup new))]
  BY DEF Rewrite
<1> HIDE DEF matched, rescued
<1> QED  BY <1>1, <1>3, <1>4, ZenonT(60) DEF PlanOK, Commit

LEMMA SomeKeysType ==
    ASSUME NEW l, WellFormed(l), NEW r \in DOMAIN l
    PROVE  SomeKeys(l, r) \subseteq SUBSET Keys
BY MetadataInForce DEF SomeKeys, Metadata

LEMMA AppendOK ==
    ASSUME NEW l, WellFormed(l), NEW t \in Writers, NEW r \in DOMAIN l, NEW c \in append(l, t, r)
    PROVE  PlanOK(l, t, r, c)
<1> DEFINE new(ks, b) ==
             [Base(t, "append", r) EXCEPT !.src = ks, !.adds = {NewFile(t, 0, NewRows(t, ks))},
                !.blind = b]
<1>0. c \in UNION {{new(ks, b) : b \in BlindAppends} : ks \in SomeKeys(l, r)}
  BY Zenon DEF append
<1>1. PICK ks \in SomeKeys(l, r), b \in BlindAppends : c = new(ks, b)
  <2> HIDE DEF new
  <2> QED  BY <1>0
<1>2. ks \in SUBSET Keys /\ {NewFile(t, 0, NewRows(t, ks))} \subseteq File
  BY SomeKeysType, NewRowsType, NewFileType
<1>3. PlanOK(l, t, r, Base(t, "append", r))
  BY Zenon, BaseOK DEF OperationKind, WellFormed
<1> QED  BY <1>1, <1>2, <1>3, BlindAppendsAssumption, ZenonT(60) DEF PlanOK, Commit

LEMMA OverwriteOK ==
    ASSUME NEW l, WellFormed(l), NEW t \in Writers, NEW r \in DOMAIN l, NEW c \in overwrite(l, t, r)
    PROVE  PlanOK(l, t, r, c)
<1>1. PICK ks \in SomeKeys(l, r) :
        c = Rewrite(l, r, [Base(t, "overwrite", r) EXCEPT !.src = ks], t, NewRows(t, ks))
  BY DEF overwrite
<1>2. ks \in SUBSET Keys /\ NewRows(t, ks) \in SUBSET Row
  BY SomeKeysType, NewRowsType
<1>3. PlanOK(l, t, r, [Base(t, "overwrite", r) EXCEPT !.src = ks])
  <2>1. PlanOK(l, t, r, Base(t, "overwrite", r))
    BY Zenon, BaseOK DEF OperationKind, WellFormed
  <2> QED  BY <1>2, <2>1 DEF PlanOK, Commit
<1> QED  BY <1>1, <1>2, <1>3, RewriteOK

LEMMA ReplaceWhereOK ==
    ASSUME NEW l, WellFormed(l), NEW t \in Writers, NEW r \in DOMAIN l, NEW c \in replace_where(l, t, r)
    PROVE  PlanOK(l, t, r, c)
<1>1. PICK ks \in SomeKeys(l, r) :
        c = Rewrite(l, r, [Base(t, "overwrite", r) EXCEPT !.pred = ks, !.src = ks], t, NewRows(t, ks))
  BY Zenon DEF replace_where, Validated
<1>2. ks \in SUBSET Keys /\ NewRows(t, ks) \in SUBSET Row
  BY SomeKeysType, NewRowsType
<1>3. PlanOK(l, t, r, [Base(t, "overwrite", r) EXCEPT !.pred = ks, !.src = ks])
  <2>1. PlanOK(l, t, r, Base(t, "overwrite", r))
    BY Zenon, BaseOK DEF OperationKind, WellFormed
  <2> QED  BY <1>2, <2>1, ZenonT(60) DEF PlanOK, Commit, Predicate
<1> QED  BY <1>1, <1>2, <1>3, RewriteOK

LEMMA DeleteOK ==
    ASSUME NEW l, WellFormed(l), NEW t \in Writers, NEW r \in DOMAIN l, NEW c \in delete(l, t, r)
    PROVE  PlanOK(l, t, r, c)
<1>1. PICK p \in SUBSET Keys : c = Rewrite(l, r, [Base(t, "delete", r) EXCEPT !.pred = p], t, {})
  BY DEF delete
<1>2. PlanOK(l, t, r, [Base(t, "delete", r) EXCEPT !.pred = p])
  <2>1. PlanOK(l, t, r, Base(t, "delete", r))
    BY Zenon, BaseOK DEF OperationKind, WellFormed
  <2> QED  BY <2>1 DEF PlanOK, Commit, Predicate
<1> QED  BY <1>1, <1>2, RewriteOK

LEMMA DeleteAllOK ==
    ASSUME NEW l, WellFormed(l), NEW t \in Writers, NEW r \in DOMAIN l, NEW c \in delete_all(l, t, r)
    PROVE  PlanOK(l, t, r, c)
<1>1. PlanOK(l, t, r, Base(t, "delete", r))
  BY Zenon, BaseOK DEF OperationKind, WellFormed
<1> QED  BY <1>1, RewriteOK DEF delete_all

LEMMA UpdateOK ==
    ASSUME NEW l, WellFormed(l), NEW t \in Writers, NEW r \in DOMAIN l, NEW c \in update(l, t, r)
    PROVE  PlanOK(l, t, r, c)
<1>1. PICK p \in SUBSET Keys :
        c = Rewrite(l, r, [Base(t, "update", r) EXCEPT !.pred = p], t,
                    {<<t, x[2]>> : x \in MatchingRows(Content(l, r), p)})
  BY DEF update, Validated
<1>2. MatchingRows(Content(l, r), p) \subseteq Row
  BY ActiveFiles DEF MatchingRows, Content, File
<1>3. {<<t, x[2]>> : x \in MatchingRows(Content(l, r), p)} \in SUBSET Row
  BY <1>2 DEF Row
<1>4. PlanOK(l, t, r, [Base(t, "update", r) EXCEPT !.pred = p])
  <2>1. PlanOK(l, t, r, Base(t, "update", r))
    BY BaseOK, ZenonT(60) DEF OperationKind, WellFormed
  <2> QED  BY <2>1 DEF PlanOK, Commit, Predicate
<1> QED  BY <1>1, <1>3, <1>4, RewriteOK

LEMMA MergeOK ==
    ASSUME NEW l, WellFormed(l), NEW t \in Writers, NEW r \in DOMAIN l, NEW c \in merge(l, t, r)
    PROVE  PlanOK(l, t, r, c)
<1>1. PICK ks \in SomeKeys(l, r) :
        c \in MergeFilters(Rewrite(l, r, [Base(t, "merge", r) EXCEPT !.pred = ks, !.src = ks],
                                   t, NewRows(t, ks)))
  BY Zenon DEF merge, Validated
<1>2. ks \in SUBSET Keys /\ NewRows(t, ks) \in SUBSET Row
  BY SomeKeysType, NewRowsType
<1>3. PlanOK(l, t, r, [Base(t, "merge", r) EXCEPT !.pred = ks, !.src = ks])
  <2>1. PlanOK(l, t, r, Base(t, "merge", r))
    BY Zenon, BaseOK DEF OperationKind, WellFormed
  <2> QED  BY <1>2, <2>1, ZenonT(60) DEF PlanOK, Commit, Predicate
<1>4. PlanOK(l, t, r, Rewrite(l, r, [Base(t, "merge", r) EXCEPT !.pred = ks, !.src = ks],
                              t, NewRows(t, ks)))
  BY <1>2, <1>3, RewriteOK
<1> QED  BY <1>1, <1>4 DEF MergeFilters, PlanOK, Commit, Predicate

LEMMA MergeInsertOK ==
    ASSUME NEW l, WellFormed(l), NEW t \in Writers, NEW r \in DOMAIN l, NEW c \in merge_insert(l, t, r)
    PROVE  PlanOK(l, t, r, c)
<1> DEFINE b(ks) == [Base(t, "merge_insert", r) EXCEPT !.src = ks,
                      !.adds = NonEmptyFile(NewFile(t, 0, NewRows(t, unmatched(l, r, ks))))]
<1>1. PICK ks \in SomeKeys(l, r) : c \in MergeFilters(b(ks))
  BY Zenon DEF merge_insert
<1>2. ks \in SUBSET Keys /\ unmatched(l, r, ks) \in SUBSET Keys
  BY SomeKeysType DEF unmatched
<1>3. NonEmptyFile(NewFile(t, 0, NewRows(t, unmatched(l, r, ks)))) \subseteq File
  BY <1>2, NewRowsType, NewFileType
<1>4. PlanOK(l, t, r, b(ks))
  <2>1. PlanOK(l, t, r, Base(t, "merge_insert", r))
    BY Zenon, BaseOK DEF OperationKind, WellFormed
  <2> QED  BY <1>2, <1>3, <2>1, ZenonT(60) DEF PlanOK, Commit
<1> HIDE DEF b
<1> QED  BY <1>1, <1>4 DEF MergeFilters, PlanOK, Commit, Predicate

LEMMA RewriteFilesOK ==
    ASSUME NEW l, NEW t \in Writers, NEW r \in Nat, NEW n \in Nat, NEW bin \in SUBSET File
    PROVE  LET c == rewrite_files(t, r, n, bin)
           IN  c \in Commit /\ c.id = t /\ c.read = r /\ c.removes = bin
<1>1. UNION {f.rows : f \in bin} \in SUBSET Row
  BY DEF File
<1>2. {NewFile(t, n, UNION {f.rows : f \in bin})} \subseteq File
  BY <1>1, NewFileType
<1>3. PlanOK(l, t, r, Base(t, "optimize", r))
  BY BaseOK DEF OperationKind
<1> QED  BY ZenonT(60), <1>2, <1>3 DEF rewrite_files, PlanOK, Commit

LEMMA OptimizeOK ==
    ASSUME NEW l, WellFormed(l), NEW t \in Writers, NEW r \in DOMAIN l, NEW c \in optimize(l, t, r)
    PROVE  PlanOK(l, t, r, c)
<1>1. PICK bin \in SUBSET Active(l, r) : c = rewrite_files(t, r, 0, bin)
  BY DEF optimize
<1>2. bin \in SUBSET File /\ r \in Nat
  BY ActiveFiles DEF WellFormed
<1> QED  BY <1>1, <1>2, RewriteFilesOK DEF PlanOK

LEMMA FilesystemCheckOK ==
    ASSUME NEW l, WellFormed(l), NEW t \in Writers, NEW r \in DOMAIN l, NEW c \in filesystem_check(l, t, r)
    PROVE  PlanOK(l, t, r, c)
<1>1. PICK missing \in SUBSET Active(l, r) :
        c = [Base(t, "filesystem_check", r) EXCEPT !.removes = missing]
  BY DEF filesystem_check
<1>2. missing \in SUBSET File
  BY ActiveFiles
<1>3. PlanOK(l, t, r, Base(t, "filesystem_check", r))
  BY Zenon, BaseOK DEF OperationKind, WellFormed
<1> QED  BY <1>1, <1>2, <1>3 DEF PlanOK, Commit

LEMMA RestoreOK ==
    ASSUME NEW l, WellFormed(l), NEW t \in Writers, NEW r \in DOMAIN l, NEW c \in restore(l, t, r)
    PROVE  PlanOK(l, t, r, c)
<1> DEFINE new(k, p) ==
             [Base(t, "restore", r) EXCEPT !.target = k,
                !.adds = Active(l, k) \ Active(l, r), !.removes = Active(l, r) \ Active(l, k),
                !.metadata = MetadataAt(l, k), !.protocol = p]
<1>0. c \in UNION {{new(k, p) : p \in RestoredProtocols(l, r, k)} : k \in {v \in DOMAIN l : v < r}}
  BY Zenon DEF restore
<1>1. PICK k \in DOMAIN l : \E p \in RestoredProtocols(l, r, k) : c = new(k, p)
  <2> HIDE DEF new
  <2> QED  BY <1>0
<1>2. RestoredProtocols(l, r, k) \subseteq Protocol
  <2>1. ProtocolAt(l, r) \in Protocol /\ ProtocolAt(l, k) \in Protocol
    BY ProtocolInForce
  <2> QED  BY <2>1 DEF RestoredProtocols, Protocol
<1>3. k \in Nat /\ Active(l, k) \subseteq File /\ Active(l, r) \subseteq File /\ MetadataAt(l, k) \in Metadata
  BY ActiveFiles, MetadataInForce DEF WellFormed
<1>4. PlanOK(l, t, r, Base(t, "restore", r))
  BY BaseOK DEF OperationKind, WellFormed
<1>5. PICK p \in Protocol :
        c = [Base(t, "restore", r) EXCEPT !.target = k,
                !.adds = Active(l, k) \ Active(l, r), !.removes = Active(l, r) \ Active(l, k),
                !.metadata = MetadataAt(l, k), !.protocol = p]
  BY <1>1, <1>2
<1>6. \A add, remove \in SUBSET File : \A m \in Metadata :
        [Base(t, "restore", r) EXCEPT !.target = k, !.adds = add, !.removes = remove,
            !.metadata = m, !.protocol = p] \in Commit
  BY Zenon, <1>3, <1>4 DEF PlanOK, Commit
<1>7. c \in Commit
  BY Zenon, <1>3, <1>5, <1>6
<1>8. c.id = t /\ c.read = r /\ c.removes = Active(l, r) \ Active(l, k)
  BY <1>4, <1>5 DEF Base
<1> QED  BY <1>7, <1>8 DEF PlanOK

LEMMA MovedProperties ==
    ASSUME NEW p \in Protocol, NEW m \in Metadata
    PROVE  /\ move_table_properties_into_features(p, m) \in Protocol
           /\ apply_column_metadata_to_protocol(p, m) \in Protocol
           /\ \A f \in Feature : append_features(p, f) \in Protocol
BY DEF move_table_properties_into_features, apply_column_metadata_to_protocol, append_features,
       Protocol, Feature, Metadata

LEMMA ConstraintProtocolType ==
    ASSUME NEW p \in Protocol
    PROVE  ConstraintProtocol(p) \in Protocol
<1> DEFINE w == IF p.writer > 3 THEN p.writer ELSE 3
           fs == IF p.writer < 7 THEN p.features ELSE p.features \cup {"checkConstraints"}
<1>1. w \in 1 .. 7
  BY DEF Protocol
<1>2. fs \in SUBSET Feature
  BY DEF Protocol, Feature
<1>3. ConstraintProtocol(p) = [p EXCEPT !.writer = w, !.features = fs]
  BY DEF ConstraintProtocol
<1> HIDE DEF w, fs
<1> QED  BY Zenon, <1>1, <1>2, <1>3 DEF Protocol

LEMMA MetadataChangeOK ==
    ASSUME NEW l, NEW t \in Writers, NEW r \in Nat, NEW k \in OperationKind,
           NEW m \in Metadata, NEW p \in Protocol
    PROVE  PlanOK(l, t, r, MetadataChange(l, t, r, k, m, p))
<1>1. PlanOK(l, t, r, Base(t, k, r))
  BY Zenon, BaseOK
<1>2. [m EXCEPT !.by = t] \in Metadata
  BY DEF Metadata
<1> QED  BY <1>1, <1>2, ZenonT(60) DEF MetadataChange, PlanOK, Commit

LEMMA SchemaChangeOK ==
    ASSUME NEW l, WellFormed(l), NEW t \in Writers, NEW r \in DOMAIN l, NEW k \in OperationKind,
           NEW m \in Metadata
    PROVE  PlanOK(l, t, r, SchemaChange(l, t, r, k, m))
<1>1. r \in Nat /\ ProtocolAt(l, r) \in Protocol
  BY ProtocolInForce DEF WellFormed
<1> DEFINE p == move_table_properties_into_features(
                    apply_column_metadata_to_protocol(ProtocolAt(l, r), m), m)
<1>2. p \in Protocol
  BY <1>1, MovedProperties
<1>3. SchemaChange(l, t, r, k, m) = MetadataChange(l, t, r, k, m, p)
  BY DEF SchemaChange
<1> HIDE DEF p
<1> QED  BY <1>1, <1>2, <1>3, MetadataChangeOK

LEMMA SetTblPropertiesOK ==
    ASSUME NEW l, WellFormed(l), NEW t \in Writers, NEW r \in DOMAIN l, NEW c \in set_tbl_properties(l, t, r)
    PROVE  PlanOK(l, t, r, c)
<1> DEFINE m(b) == [MetadataAt(l, r) EXCEPT !.append_only = b]
           p(b) == move_table_properties_into_features(ProtocolAt(l, r), m(b))
<1>1. PICK b \in BOOLEAN : c = MetadataChange(l, t, r, "set_tbl_properties", m(b), p(b))
  BY DEF set_tbl_properties
<1>2. MetadataAt(l, r) \in Metadata /\ ProtocolAt(l, r) \in Protocol /\ r \in Nat
  BY MetadataInForce, ProtocolInForce DEF WellFormed
<1>3. m(b) \in Metadata
  BY <1>2 DEF Metadata
<1>4. p(b) \in Protocol
  <2> HIDE DEF m
  <2> QED  BY <1>2, <1>3, MovedProperties
<1> HIDE DEF m, p
<1> QED  BY Zenon, <1>1, <1>2, <1>3, <1>4, MetadataChangeOK DEF OperationKind

LEMMA AddColumnOK ==
    ASSUME NEW l, WellFormed(l), NEW t \in Writers, NEW r \in DOMAIN l, NEW c \in add_column(l, t, r)
    PROVE  PlanOK(l, t, r, c)
<1> DEFINE m(b) == [MetadataAt(l, r) EXCEPT !.ntz = @ \/ b]
<1>1. PICK b \in BOOLEAN : c = SchemaChange(l, t, r, "add_column", m(b))
  BY DEF add_column
<1>2. m(b) \in Metadata
  BY MetadataInForce DEF Metadata
<1> HIDE DEF m
<1> QED  BY <1>1, <1>2, SchemaChangeOK DEF OperationKind

LEMMA UpdateFieldMetadataOK ==
    ASSUME NEW l, WellFormed(l), NEW t \in Writers, NEW r \in DOMAIN l, NEW c \in update_field_metadata(l, t, r)
    PROVE  PlanOK(l, t, r, c)
BY MetadataInForce, SchemaChangeOK DEF update_field_metadata, OperationKind

LEMMA DropColumnNotNullOK ==
    ASSUME NEW l, WellFormed(l), NEW t \in Writers, NEW r \in DOMAIN l, NEW c \in drop_column_not_null(l, t, r)
    PROVE  PlanOK(l, t, r, c)
BY MetadataInForce, SchemaChangeOK DEF drop_column_not_null, OperationKind

LEMMA UpdateTableMetadataOK ==
    ASSUME NEW l, WellFormed(l), NEW t \in Writers, NEW r \in DOMAIN l, NEW c \in update_table_metadata(l, t, r)
    PROVE  PlanOK(l, t, r, c)
<1>1. MetadataAt(l, r) \in Metadata /\ ProtocolAt(l, r) \in Protocol /\ r \in Nat
  BY MetadataInForce, ProtocolInForce DEF WellFormed
<1> QED  BY Zenon, <1>1, MetadataChangeOK DEF update_table_metadata, OperationKind

LEMMA DropConstraintOK ==
    ASSUME NEW l, WellFormed(l), NEW t \in Writers, NEW r \in DOMAIN l, NEW c \in drop_constraint(l, t, r)
    PROVE  PlanOK(l, t, r, c)
<1>1. MetadataAt(l, r) \in Metadata /\ ProtocolAt(l, r) \in Protocol /\ r \in Nat
  BY MetadataInForce, ProtocolInForce DEF WellFormed
<1>2. [MetadataAt(l, r) EXCEPT !.allowed = Keys] \in Metadata
  BY <1>1 DEF Metadata
<1>3. PlanOK(l, t, r, Base(t, "drop_constraint", r))
  BY <1>1, BaseOK DEF OperationKind
<1>4. PlanOK(l, t, r, MetadataChange(l, t, r, "drop_constraint",
                         [MetadataAt(l, r) EXCEPT !.allowed = Keys], ProtocolAt(l, r)))
  BY <1>1, <1>2, MetadataChangeOK, ZenonT(60) DEF OperationKind
<1> QED  BY <1>3, <1>4 DEF drop_constraint

LEMMA AddConstraintOK ==
    ASSUME NEW l, WellFormed(l), NEW t \in Writers, NEW r \in DOMAIN l, NEW c \in add_constraint(l, t, r)
    PROVE  PlanOK(l, t, r, c)
<1> DEFINE m(ok) == [MetadataAt(l, r) EXCEPT !.by = t, !.allowed = @ \cap ok]
           p == ConstraintProtocol(ProtocolAt(l, r))
<1>1. PICK ok \in SUBSET Keys :
        c = [Base(t, "add_constraint", r) EXCEPT !.metadata = m(ok), !.protocol = p]
  BY Zenon DEF add_constraint
<1>2. MetadataAt(l, r) \in Metadata /\ ProtocolAt(l, r) \in Protocol
  BY MetadataInForce, ProtocolInForce
<1>3. m(ok) \in Metadata
  BY Zenon, <1>2 DEF Metadata
<1>4. p \in Protocol
  BY <1>2, ConstraintProtocolType
<1>5. PlanOK(l, t, r, Base(t, "add_constraint", r))
  BY Zenon, BaseOK DEF OperationKind, WellFormed
<1> HIDE DEF m, p
<1> QED  BY <1>1, <1>3, <1>4, <1>5, ZenonT(60) DEF PlanOK, Commit

LEMMA AddFeatureOK ==
    ASSUME NEW l, WellFormed(l), NEW t \in Writers, NEW r \in DOMAIN l, NEW c \in add_feature(l, t, r)
    PROVE  PlanOK(l, t, r, c)
<1>1. PICK f \in Feature :
        c = [Base(t, "add_feature", r) EXCEPT !.protocol = append_features(ProtocolAt(l, r), f)]
  BY DEF add_feature
<1>2. append_features(ProtocolAt(l, r), f) \in Protocol
  <2>1. ProtocolAt(l, r) \in Protocol /\ MetadataAt(l, r) \in Metadata
    BY ProtocolInForce, MetadataInForce
  <2> QED  BY <2>1, MovedProperties
<1>3. PlanOK(l, t, r, Base(t, "add_feature", r))
  BY Zenon, BaseOK DEF OperationKind, WellFormed
<1> QED  BY <1>1, <1>2, <1>3 DEF PlanOK, Commit

\* Whatever operation is invoked, on whatever snapshot.
LEMMA PlansOK ==
    ASSUME NEW l, WellFormed(l), NEW t \in Writers, NEW r \in DOMAIN l,
           NEW k \in Kinds \ CreateKinds, NEW c \in Plans(l, t, r, k)
    PROVE  PlanOK(l, t, r, c)
<1>1. k \in PlanKinds
  BY KindsAssumption
<1>2. CASE k \in {"append", "overwrite", "replace_where", "delete", "delete_all", "update", "merge"}
  BY <1>2, AppendOK, OverwriteOK, ReplaceWhereOK, DeleteOK, DeleteAllOK, UpdateOK, MergeOK DEF Plans
<1>3. CASE k \in {"merge_insert", "optimize", "filesystem_check", "restore"}
  BY <1>3, MergeInsertOK, OptimizeOK, FilesystemCheckOK, RestoreOK DEF Plans
<1>4. CASE k \in {"set_tbl_properties", "add_column", "update_field_metadata", "drop_column_not_null"}
  BY <1>4, SetTblPropertiesOK, AddColumnOK, UpdateFieldMetadataOK, DropColumnNotNullOK DEF Plans
<1>5. CASE k \in {"update_table_metadata", "drop_constraint", "add_constraint", "add_feature"}
  BY <1>5, UpdateTableMetadataOK, DropConstraintOK, AddConstraintOK, AddFeatureOK DEF Plans
<1> QED  BY <1>1, <1>2, <1>3, <1>4, <1>5 DEF PlanKinds

\* A commit that creates the table sets both metadata and protocol, and reads nothing.
CreateOK(t, c) ==
    /\ c \in Commit /\ c.id = t
    /\ c.read = NONE /\ c.removes = {}
    /\ c.metadata # NONE /\ c.protocol # NONE

LEMMA CreatesOK ==
    ASSUME NEW t \in Writers, NEW k \in CreateKinds, NEW c \in create(t, k)
    PROVE  CreateOK(t, c)
<1> DEFINE m == [by |-> t, append_only |-> FALSE, allowed |-> Keys, ntz |-> FALSE]
           p == [reader |-> 1, writer |-> 2, features |-> {}]
           b == [Base(t, k, NONE) EXCEPT !.metadata = m, !.protocol = p]
<1>1. m \in Metadata /\ p \in Protocol
  BY DEF Metadata, Protocol
<1>2. m # NONE /\ p # NONE
  <2> HIDE DEF m, p
  <2> QED  BY <1>1, NoneAssumption
<1>3. CreateOK(t, b)
  <2>1. Base(t, k, NONE) \in Commit
    <3>1. k \in OperationKind
      BY DEF CreateKinds, OperationKind
    <3> QED  BY Zenon, <3>1, BaseOK DEF PlanOK
  <2> HIDE DEF m, p
  <2>2. b \in Commit
    BY <1>1, <2>1, ZenonT(60) DEF Commit
  <2>3. b.id = t /\ b.read = NONE /\ b.removes = {} /\ b.metadata = m /\ b.protocol = p
    BY DEF Base
  <2> QED  BY <1>2, <2>2, <2>3 DEF CreateOK
<1>4. c = b \/ \E ks \in SUBSET Keys : c = [b EXCEPT !.src = ks, !.adds = {NewFile(t, 0, NewRows(t, ks))}]
  BY Zenon DEF create
<1>5. \A ks \in SUBSET Keys : {NewFile(t, 0, NewRows(t, ks))} \subseteq File
  BY NewRowsType, NewFileType
<1> HIDE DEF b
<1>6. \A ks \in SUBSET Keys : \A add \in SUBSET File : CreateOK(t, [b EXCEPT !.src = ks, !.adds = add])
  BY <1>3, ZenonT(60) DEF CreateOK, Commit
<1> QED  BY ZenonT(60), <1>3, <1>4, <1>5, <1>6

LEMMA ReplaceTableOK ==
    ASSUME NEW l, WellFormed(l), NEW t \in Writers, NEW r \in DOMAIN l, NEW c \in replace_table(l, t, r)
    PROVE  PlanOK(l, t, r, c)
<1>1. PICK b \in create(t, "create_or_replace") : c = [b EXCEPT !.read = r, !.removes = Active(l, r)]
  BY Zenon DEF replace_table
<1>2. CreateOK(t, b)
  BY CreatesOK DEF CreateKinds
<1>3. r \in Nat /\ Active(l, r) \subseteq File
  BY ActiveFiles DEF WellFormed
<1> QED  BY Zenon, <1>1, <1>2, <1>3 DEF CreateOK, PlanOK, Commit

-----------------------------------------------------------------------------
(* What a commit does to the rows of the table.                            *)

RowsOf(files) == UNION {f.rows : f \in files}

\* The file a plan adds holds the rows of the files it removes and new rows of t
\* that satisfy the constraints of its snapshot r; RESTORE swaps one version's
\* files for another's.
Sourced(l, t, r, c) ==
    IF c.kind = "restore"
    THEN /\ c.metadata # NONE /\ r \in DOMAIN l /\ c.target \in DOMAIN l /\ c.target < r
         /\ c.adds = Active(l, c.target) \ Active(l, r)
         /\ c.removes = Active(l, r) \ Active(l, c.target)
    ELSE /\ \A f, g \in c.adds : f = g
         /\ \A f \in c.adds : \A x \in f.rows :
               \/ /\ x[1] = t /\ c.kind # "optimize"
                  /\ c.metadata = NONE => r \in DOMAIN l /\ x[2] \in MetadataAt(l, r).allowed
               \/ \E g \in c.removes : x \in g.rows

\* The rows an operation looks for, and the rows it writes anew.
Filter(c) == IF c.kind \in {"merge", "merge_insert"} THEN c.src ELSE c.pred

Inserted(l, t, r, c) ==
    CASE c.kind = "update" -> {<<t, x[2]>> : x \in MatchingRows(Content(l, r), c.pred)}
      [] c.kind = "merge_insert" -> NewRows(t, unmatched(l, r, c.src))
      [] c.kind \in {"append", "overwrite", "merge"} -> NewRows(t, c.src)
      [] OTHER -> {}

RewriteKinds == {"overwrite", "delete", "update", "merge"}

\* Exactly the rows that leave the table, and those that enter it.
Exact(l, t, r, c) ==
    /\ c.kind = "optimize" => RowsOf(c.adds) = RowsOf(c.removes)
    /\ c.kind \in RewriteKinds =>
          /\ c.removes = Matching(Active(l, r), Filter(c))
          /\ RowsOf(c.adds) = (RowsOf(c.removes) \ MatchingRows(RowsOf(c.removes), Filter(c)))
                                  \cup Inserted(l, t, r, c)
    /\ c.kind \notin RewriteKinds \cup CreateKinds \cup {"optimize", "restore", "filesystem_check"} =>
          c.removes = {} /\ RowsOf(c.adds) = Inserted(l, t, r, c)
    /\ c.kind \in {"merge", "merge_insert"} => c.pred \in {c.src, NONE}
    /\ c.kind # "optimize" => c.data_change

\* Operations that are serializable at level Serializable: they declare what they read.
SerialKinds == PlanKinds \ {"overwrite", "delete_all", "filesystem_check"}

Declared(c) ==
    Kinds \subseteq SerialKinds =>
        /\ c.kind \notin CreateKinds \cup {"filesystem_check"}
        /\ c.kind \in {"overwrite", "delete", "update"} => c.pred # NONE

\* Only ADD FEATURE changes the protocol and not the metadata.
ProtocolOnly(c) == c.protocol # NONE /\ c.metadata = NONE => "add_feature" \in Kinds

\* What can_commit found on the snapshot.
Permitted(l, r, c) ==
    r # NONE /\ append_only_enabled(l, r) /\ c.data_change /\ c.removes # {}
        => c.kind \in {"restore", "filesystem_check"}

-----------------------------------------------------------------------------
(* The metadata and the protocol in force depend on older versions only.   *)

\* The version whose Metadata action is in force is the last one that has one.
LEMMA MetadataVersionIs ==
    ASSUME NEW l, DOMAIN l \subseteq Nat, NEW r \in Nat, NEW w \in DOMAIN l, w <= r, l[w].metadata # NONE,
           \A u \in DOMAIN l : u <= r /\ l[u].metadata # NONE => u <= w
    PROVE  MetadataVersion(l, r) = w
<1> DEFINE P(x) == /\ x <= r /\ l[x].metadata # NONE
                   /\ \A u \in DOMAIN l : u <= r /\ l[u].metadata # NONE => u <= x
<1>1. w \in DOMAIN l /\ P(w)
  OBVIOUS
<1>2. MetadataVersion(l, r) = CHOOSE x \in DOMAIN l : P(x)
  BY DEF MetadataVersion
<1>3. (CHOOSE x \in DOMAIN l : P(x)) \in DOMAIN l /\ P(CHOOSE x \in DOMAIN l : P(x))
  <2> HIDE DEF P
  <2> QED  BY <1>1
<1>4. MetadataVersion(l, r) \in DOMAIN l /\ P(MetadataVersion(l, r))
  BY Zenon, <1>2, <1>3
<1> QED  BY <1>1, <1>4

LEMMA MetadataVersionLast ==
    ASSUME NEW l, WellFormed(l), NEW r \in DOMAIN l
    PROVE  LET w == MetadataVersion(l, r) IN
           /\ w \in DOMAIN l /\ w <= r /\ l[w].metadata # NONE
           /\ \A u \in DOMAIN l : u <= r /\ l[u].metadata # NONE => u <= w
<1> DEFINE S == {w \in DOMAIN l : w <= r /\ l[w].metadata # NONE}
<1>1. r \in Nat /\ 0 \in DOMAIN l /\ 0 \in S
  BY DEF WellFormed
<1>2. S \in SUBSET Nat /\ \A s \in S : s <= r
  BY DEF WellFormed
<1>3. PICK m \in S : \A s \in S : s <= m
  <2> HIDE DEF S
  <2> QED  BY Zenon, <1>1, <1>2, LargestNatural
<1>4. \A u \in DOMAIN l : u <= r /\ l[u].metadata # NONE => u <= m
  BY <1>3
<1>5. MetadataVersion(l, r) = m
  BY <1>1, <1>4, MetadataVersionIs DEF WellFormed
<1> QED  BY <1>4, <1>5

\* A version behind r does not change the metadata in force at r.
LEMMA MetadataOfOlder ==
    ASSUME NEW l, WellFormed(l), NEW r \in DOMAIN l, NEW v \in Nat, v \notin DOMAIN l, r < v, NEW c
    PROVE  MetadataAt(Put(l, v, c), r) = MetadataAt(l, r)
<1> DEFINE k == Put(l, v, c)
           w == MetadataVersion(l, r)
<1>1. DOMAIN k = DOMAIN l \cup {v} /\ \A u \in DOMAIN l : k[u] = l[u]
  BY DEF Put
<1>2. /\ w \in DOMAIN l /\ w <= r /\ l[w].metadata # NONE
      /\ \A u \in DOMAIN l : u <= r /\ l[u].metadata # NONE => u <= w
  BY MetadataVersionLast
<1>3. DOMAIN l \subseteq Nat /\ r \in Nat
  BY DEF WellFormed
<1> HIDE DEF k, w
<1>4. MetadataVersion(k, r) = w
  BY <1>1, <1>2, <1>3, MetadataVersionIs
<1>5. k[w] = l[w]
  BY <1>1, <1>2
<1> QED  BY <1>4, <1>5 DEF MetadataAt, w, k

\* Versions without a Metadata action leave the metadata in force as it is.
LEMMA MetadataUnchanged ==
    ASSUME NEW l, WellFormed(l), NEW r \in DOMAIN l, NEW s \in DOMAIN l, r <= s,
           \A u \in DOMAIN l : r < u /\ u <= s => l[u].metadata = NONE
    PROVE  MetadataAt(l, s) = MetadataAt(l, r)
<1> DEFINE w == MetadataVersion(l, r)
<1>1. /\ w \in DOMAIN l /\ w <= r /\ l[w].metadata # NONE
      /\ \A u \in DOMAIN l : u <= r /\ l[u].metadata # NONE => u <= w
  BY MetadataVersionLast
<1>2. DOMAIN l \subseteq Nat /\ r \in Nat /\ s \in Nat
  BY DEF WellFormed
<1> HIDE DEF w
<1>3. \A u \in DOMAIN l : u <= s /\ l[u].metadata # NONE => u <= w
  BY <1>1, <1>2
<1>4. MetadataVersion(l, s) = w
  BY <1>1, <1>2, <1>3, MetadataVersionIs
<1> QED  BY <1>4 DEF MetadataAt, w

\* The same of the protocol.
LEMMA ProtocolVersionIs ==
    ASSUME NEW l, DOMAIN l \subseteq Nat, NEW r \in Nat, NEW w \in DOMAIN l, w <= r, l[w].protocol # NONE,
           \A u \in DOMAIN l : u <= r /\ l[u].protocol # NONE => u <= w
    PROVE  ProtocolVersion(l, r) = w
<1> DEFINE P(x) == /\ x <= r /\ l[x].protocol # NONE
                   /\ \A u \in DOMAIN l : u <= r /\ l[u].protocol # NONE => u <= x
<1>1. w \in DOMAIN l /\ P(w)
  OBVIOUS
<1>2. ProtocolVersion(l, r) = CHOOSE x \in DOMAIN l : P(x)
  BY DEF ProtocolVersion
<1>3. (CHOOSE x \in DOMAIN l : P(x)) \in DOMAIN l /\ P(CHOOSE x \in DOMAIN l : P(x))
  <2> HIDE DEF P
  <2> QED  BY <1>1
<1>4. ProtocolVersion(l, r) \in DOMAIN l /\ P(ProtocolVersion(l, r))
  BY Zenon, <1>2, <1>3
<1> QED  BY <1>1, <1>4

LEMMA ProtocolVersionLast ==
    ASSUME NEW l, WellFormed(l), NEW r \in DOMAIN l
    PROVE  LET w == ProtocolVersion(l, r) IN
           /\ w \in DOMAIN l /\ w <= r /\ l[w].protocol # NONE
           /\ \A u \in DOMAIN l : u <= r /\ l[u].protocol # NONE => u <= w
<1> DEFINE S == {w \in DOMAIN l : w <= r /\ l[w].protocol # NONE}
<1>1. r \in Nat /\ 0 \in DOMAIN l /\ 0 \in S
  BY DEF WellFormed
<1>2. S \in SUBSET Nat /\ \A s \in S : s <= r
  BY DEF WellFormed
<1>3. PICK m \in S : \A s \in S : s <= m
  <2> HIDE DEF S
  <2> QED  BY Zenon, <1>1, <1>2, LargestNatural
<1>4. \A u \in DOMAIN l : u <= r /\ l[u].protocol # NONE => u <= m
  BY <1>3
<1>5. ProtocolVersion(l, r) = m
  BY <1>1, <1>4, ProtocolVersionIs DEF WellFormed
<1> QED  BY <1>4, <1>5

\* A version behind r does not change the protocol in force at r.
LEMMA ProtocolOfOlder ==
    ASSUME NEW l, WellFormed(l), NEW r \in DOMAIN l, NEW v \in Nat, v \notin DOMAIN l, r < v, NEW c
    PROVE  ProtocolAt(Put(l, v, c), r) = ProtocolAt(l, r)
<1> DEFINE k == Put(l, v, c)
           w == ProtocolVersion(l, r)
<1>1. DOMAIN k = DOMAIN l \cup {v} /\ \A u \in DOMAIN l : k[u] = l[u]
  BY DEF Put
<1>2. /\ w \in DOMAIN l /\ w <= r /\ l[w].protocol # NONE
      /\ \A u \in DOMAIN l : u <= r /\ l[u].protocol # NONE => u <= w
  BY ProtocolVersionLast
<1>3. DOMAIN l \subseteq Nat /\ r \in Nat
  BY DEF WellFormed
<1> HIDE DEF k, w
<1>4. ProtocolVersion(k, r) = w
  BY <1>1, <1>2, <1>3, ProtocolVersionIs
<1>5. k[w] = l[w]
  BY <1>1, <1>2
<1> QED  BY <1>4, <1>5 DEF ProtocolAt, w, k

\* Versions without a Protocol action leave the protocol in force as it is.
LEMMA ProtocolUnchanged ==
    ASSUME NEW l, WellFormed(l), NEW r \in DOMAIN l, NEW s \in DOMAIN l, r <= s,
           \A u \in DOMAIN l : r < u /\ u <= s => l[u].protocol = NONE
    PROVE  ProtocolAt(l, s) = ProtocolAt(l, r)
<1> DEFINE w == ProtocolVersion(l, r)
<1>1. /\ w \in DOMAIN l /\ w <= r /\ l[w].protocol # NONE
      /\ \A u \in DOMAIN l : u <= r /\ l[u].protocol # NONE => u <= w
  BY ProtocolVersionLast
<1>2. DOMAIN l \subseteq Nat /\ r \in Nat /\ s \in Nat
  BY DEF WellFormed
<1> HIDE DEF w
<1>3. \A u \in DOMAIN l : u <= s /\ l[u].protocol # NONE => u <= w
  BY <1>1, <1>2
<1>4. ProtocolVersion(l, s) = w
  BY <1>1, <1>2, <1>3, ProtocolVersionIs
<1> QED  BY <1>4 DEF ProtocolAt, w

-----------------------------------------------------------------------------
(* What the plans do to the rows of the table.                             *)

PlanRows(l, t, r, c) == Sourced(l, t, r, c) /\ Exact(l, t, r, c) /\ Declared(c) /\ ProtocolOnly(c)

\* The fields of a commit that no data operation but OPTIMIZE sets.
Plain(c, k) ==
    c \in Commit /\ c.kind = k /\ c.metadata = NONE /\ c.protocol = NONE /\ c.data_change = TRUE

LEMMA BaseFields ==
    ASSUME NEW t \in Writers, NEW k \in OperationKind, NEW r \in Nat \cup {NONE}
    PROVE  /\ Plain(Base(t, k, r), k) /\ Base(t, k, r).adds = {} /\ Base(t, k, r).removes = {}
           /\ Base(t, k, r).src = {} /\ Base(t, k, r).pred = NONE
BY BaseOK DEF Plain, PlanOK, Base

LEMMA OneFileRows ==
    ASSUME NEW t, NEW n, NEW rows
    PROVE  /\ RowsOf({NewFile(t, n, rows)}) = rows
           /\ RowsOf(NonEmptyFile(NewFile(t, n, rows))) = rows
           /\ RowsOf({}) = {}
<1>1. NewFile(t, n, rows).rows = rows
  BY DEF NewFile
<1> QED  BY <1>1 DEF RowsOf, NonEmptyFile

\* The file a merge that only inserts adds, or none, holds the rows it inserts.
LEMMA UnmatchedRows ==
    ASSUME NEW l, NEW t, NEW r, NEW ks
    PROVE  RowsOf(NonEmptyFile(NewFile(t, 0, NewRows(t, unmatched(l, r, ks))))) = NewRows(t, unmatched(l, r, ks))
<1> DEFINE new == NewRows(t, unmatched(l, r, ks))
<1> HIDE DEF new
<1>1. RowsOf(NonEmptyFile(NewFile(t, 0, new))) = new
  <2>1. NewFile(t, 0, new).rows = new
    BY DEF NewFile
  <2> QED  BY <2>1 DEF RowsOf, NonEmptyFile
<1> QED  BY <1>1 DEF new

\* The rows of a rewritten file are the new ones and rows of the files it replaces.
Rewritten(l, r, k, c, new, d) ==
    /\ d.kind = k /\ d.metadata = NONE /\ d.protocol = NONE /\ d.data_change = TRUE
    /\ d.pred = c.pred /\ d.src = c.src
    /\ \A f, g \in d.adds : f = g
    /\ \A f \in d.adds : \A x \in f.rows : x \in new \/ \E g \in d.removes : x \in g.rows
    /\ d.removes = Matching(Active(l, r), c.pred)
    /\ RowsOf(d.adds) = (RowsOf(d.removes) \ MatchingRows(RowsOf(d.removes), c.pred)) \cup new

LEMMA RewriteFields ==
    ASSUME NEW l, WellFormed(l), NEW t \in Writers, NEW r \in DOMAIN l, NEW k, NEW c, Plain(c, k),
           NEW new
    PROVE  Rewritten(l, r, k, c, new, Rewrite(l, r, c, t, new))
<1> DEFINE matched == Matching(Active(l, r), c.pred)
           rescued == UNION {f.rows \ MatchingRows(f.rows, c.pred) : f \in matched}
           add == NonEmptyFile(NewFile(t, 0, rescued \cup new))
           d == Rewrite(l, r, c, t, new)
<1>1. d = [c EXCEPT !.removes = matched, !.adds = add]
  BY DEF Rewrite
<1>2. \A x \in rescued : \E g \in matched : x \in g.rows
  OBVIOUS
<1>3. (\A f, g \in add : f = g) /\ \A f \in add : f.rows = rescued \cup new
  <2> HIDE DEF rescued
  <2> QED  BY DEF NonEmptyFile, NewFile
<1>4. rescued = RowsOf(matched) \ MatchingRows(RowsOf(matched), c.pred)
  <2> HIDE DEF matched
  <2>1. CASE c.pred = NONE
    BY <2>1 DEF MatchingRows, RowsOf
  <2>2. CASE c.pred # NONE
    <3>1. \A rows : MatchingRows(rows, c.pred) = {x \in rows : x[2] \in c.pred}
      BY <2>2 DEF MatchingRows
    <3>2. \A x : x \in rescued <=> \E f \in matched : x \in f.rows /\ x[2] \notin c.pred
      BY <3>1
    <3>3. \A x : x \in RowsOf(matched) \ MatchingRows(RowsOf(matched), c.pred)
                   <=> (\E f \in matched : x \in f.rows) /\ x[2] \notin c.pred
      BY <3>1 DEF RowsOf
    <3> HIDE DEF rescued
    <3> QED  BY <3>2, <3>3
  <2> QED  BY <2>1, <2>2
<1>5. RowsOf(add) = rescued \cup new
  <2> DEFINE rows == rescued \cup new
  <2> HIDE DEF rows
  <2>1. RowsOf(NonEmptyFile(NewFile(t, 0, rows))) = rows
    <3>1. NewFile(t, 0, rows).rows = rows
      BY DEF NewFile
    <3> QED  BY <3>1 DEF RowsOf, NonEmptyFile
  <2> QED  BY <2>1 DEF rows
<1> HIDE DEF matched, rescued, add, d
<1>6. /\ d.kind = k /\ d.metadata = NONE /\ d.protocol = NONE /\ d.data_change = TRUE
      /\ d.pred = c.pred /\ d.src = c.src /\ d.removes = matched /\ d.adds = add
  BY <1>1 DEF Plain, Commit
<1>7. /\ d.removes = Matching(Active(l, r), c.pred)
      /\ RowsOf(d.adds) = (RowsOf(d.removes) \ MatchingRows(RowsOf(d.removes), c.pred)) \cup new
  BY <1>4, <1>5, <1>6 DEF matched
<1>8. \A f \in d.adds : \A x \in f.rows : x \in new \/ \E g \in d.removes : x \in g.rows
  BY <1>2, <1>3, <1>6
<1>9. \A f, g \in d.adds : f = g
  BY <1>3, <1>6
<1> QED  BY <1>6, <1>7, <1>8, <1>9 DEF d, Rewritten

\* A rewrite whose new rows are t's and are allowed.
LEMMA RewriteRows ==
    ASSUME NEW l, WellFormed(l), NEW t \in Writers, NEW r \in DOMAIN l, NEW k \in RewriteKinds,
           NEW c, Plain(c, k), Filter(c) = c.pred, k = "merge" => c.pred = c.src,
           Kinds \subseteq SerialKinds => k = "merge" \/ c.pred # NONE,
           NEW new, new = Inserted(l, t, r, c), \A x \in new : x[1] = t,
           \/ \A x \in new : x[2] \in MetadataAt(l, r).allowed
           \/ \A f \in Rewrite(l, r, c, t, new).adds : \A x \in f.rows : x[2] \in MetadataAt(l, r).allowed
    PROVE  PlanRows(l, t, r, Rewrite(l, r, c, t, new))
<1> DEFINE d == Rewrite(l, r, c, t, new)
<1>1. /\ d.kind = k /\ d.metadata = NONE /\ d.protocol = NONE /\ d.data_change = TRUE
      /\ d.pred = c.pred /\ d.src = c.src
      /\ \A f, g \in d.adds : f = g
      /\ \A f \in d.adds : \A x \in f.rows : x \in new \/ \E g \in d.removes : x \in g.rows
      /\ d.removes = Matching(Active(l, r), c.pred)
      /\ RowsOf(d.adds) = (RowsOf(d.removes) \ MatchingRows(RowsOf(d.removes), c.pred)) \cup new
  <2>1. Rewritten(l, r, k, c, new, d)
    BY RewriteFields
  <2> HIDE DEF d
  <2> QED  BY <2>1 DEF Rewritten
<1> HIDE DEF d
<1>2. ASSUME NEW f \in d.adds, NEW x \in f.rows, x \in new
      PROVE  x[1] = t /\ x[2] \in MetadataAt(l, r).allowed
  BY <1>2 DEF d
<1>3. k \notin {"restore", "optimize", "filesystem_check", "merge_insert"} \cup CreateKinds
  BY DEF RewriteKinds, CreateKinds
<1>4. Sourced(l, t, r, d) /\ ProtocolOnly(d)
  BY <1>1, <1>2, <1>3 DEF Sourced, ProtocolOnly
<1>5. c.kind = k
  BY DEF Plain
<1>6. Filter(d) = c.pred /\ Inserted(l, t, r, d) = new
  BY <1>1, <1>5 DEF Filter, Inserted
<1>7. Exact(l, t, r, d)
  BY <1>1, <1>3, <1>6 DEF Exact
<1>8. Declared(d)
  BY <1>1, <1>3 DEF Declared, RewriteKinds
<1>9. PlanRows(l, t, r, d)
  BY <1>4, <1>7, <1>8 DEF PlanRows
<1> QED  BY <1>9 DEF d

LEMMA NewRowsAllowed ==
    ASSUME NEW l, NEW t, NEW r, NEW ks \in SomeKeys(l, r)
    PROVE  \A x \in NewRows(t, ks) : x[1] = t /\ x[2] \in MetadataAt(l, r).allowed
BY DEF NewRows, SomeKeys

MetadataKinds ==
    {"set_tbl_properties", "add_column", "update_field_metadata", "drop_column_not_null",
     "update_table_metadata", "drop_constraint", "add_constraint", "add_feature"}

\* An operation that adds and removes no data.
LEMMA NoRows ==
    ASSUME NEW l, NEW t, NEW r, NEW c, c.kind \in MetadataKinds, c.adds = {}, c.removes = {},
           c.data_change = TRUE, ProtocolOnly(c)
    PROVE  PlanRows(l, t, r, c)
<1>1. c.kind \notin RewriteKinds \cup CreateKinds \cup {"optimize", "restore", "filesystem_check", "merge_insert"}
  BY DEF MetadataKinds, RewriteKinds, CreateKinds
<1>2. c.kind \notin {"append", "update", "merge", "overwrite", "delete"}
  BY DEF MetadataKinds
<1>3. Inserted(l, t, r, c) = {} /\ RowsOf({}) = {}
  BY <1>1, <1>2 DEF Inserted, RowsOf
<1>4. Exact(l, t, r, c)
  BY <1>1, <1>2, <1>3 DEF Exact
<1> QED  BY <1>1, <1>2, <1>4 DEF PlanRows, Sourced, Declared

LEMMA AppendRows ==
    ASSUME NEW l, WellFormed(l), NEW t \in Writers, NEW r \in DOMAIN l, NEW c \in append(l, t, r)
    PROVE  PlanRows(l, t, r, c)
<1> DEFINE b == Base(t, "append", r)
           add(ks) == {NewFile(t, 0, NewRows(t, ks))}
           new(ks, o) == [b EXCEPT !.src = ks, !.adds = add(ks), !.blind = o]
<1>0. c \in UNION {{new(ks, o) : o \in BlindAppends} : ks \in SomeKeys(l, r)}
  BY Zenon DEF append
<1>1. PICK ks \in SomeKeys(l, r), o \in BlindAppends : c = new(ks, o)
  <2> HIDE DEF new
  <2> QED  BY <1>0
<1>2. Plain(b, "append") /\ b.removes = {}
  BY BaseFields DEF OperationKind, WellFormed
<1>3. \A f \in add(ks) : \A x \in f.rows : x[1] = t /\ x[2] \in MetadataAt(l, r).allowed
  BY NewRowsAllowed DEF NewFile
<1>4. \A f, g \in add(ks) : f = g
  OBVIOUS
<1>5. RowsOf(add(ks)) = NewRows(t, ks)
  BY OneFileRows
<1> HIDE DEF b, add
<1>6. /\ c.kind = "append" /\ c.metadata = NONE /\ c.protocol = NONE /\ c.data_change = TRUE
      /\ c.adds = add(ks) /\ c.removes = {} /\ c.src = ks
  BY <1>1, <1>2 DEF Plain, Commit
<1>7. Inserted(l, t, r, c) = NewRows(t, ks)
  BY <1>6 DEF Inserted
<1>8. "append" \notin RewriteKinds \cup CreateKinds
  BY DEF RewriteKinds, CreateKinds
<1>9. Exact(l, t, r, c) /\ Declared(c)
  BY <1>5, <1>6, <1>7, <1>8 DEF Exact, Declared
<1> QED  BY <1>3, <1>4, <1>6, <1>9 DEF PlanRows, Sourced, ProtocolOnly

LEMMA OverwriteRows ==
    ASSUME NEW l, WellFormed(l), NEW t \in Writers, NEW r \in DOMAIN l, NEW c \in overwrite(l, t, r),
           "overwrite" \in Kinds
    PROVE  PlanRows(l, t, r, c)
<1> DEFINE b(ks) == [Base(t, "overwrite", r) EXCEPT !.src = ks]
<1>1. PICK ks \in SomeKeys(l, r) : c = Rewrite(l, r, b(ks), t, NewRows(t, ks))
  BY DEF overwrite
<1>2. Plain(b(ks), "overwrite") /\ b(ks).src = ks
  <2>1. Plain(Base(t, "overwrite", r), "overwrite") /\ ks \in SUBSET Keys
    BY BaseFields, SomeKeysType DEF OperationKind, WellFormed
  <2> QED  BY <2>1 DEF Plain, Commit
<1> HIDE DEF b
<1>3. Filter(b(ks)) = b(ks).pred /\ Inserted(l, t, r, b(ks)) = NewRows(t, ks)
  BY <1>2 DEF Plain, Filter, Inserted
<1>4. ~(Kinds \subseteq SerialKinds) /\ "overwrite" \in RewriteKinds
  BY DEF SerialKinds, RewriteKinds
<1> QED  BY <1>1, <1>2, <1>3, <1>4, RewriteRows, NewRowsAllowed

LEMMA ReplaceWhereRows ==
    ASSUME NEW l, WellFormed(l), NEW t \in Writers, NEW r \in DOMAIN l, NEW c \in replace_where(l, t, r)
    PROVE  PlanRows(l, t, r, c)
<1> DEFINE b(ks) == [Base(t, "overwrite", r) EXCEPT !.pred = ks, !.src = ks]
<1>1. PICK ks \in SomeKeys(l, r) : c = Rewrite(l, r, b(ks), t, NewRows(t, ks))
  BY Zenon DEF replace_where, Validated
<1>2. Plain(b(ks), "overwrite") /\ b(ks).src = ks /\ b(ks).pred = ks /\ ks # NONE
  <2>1. Plain(Base(t, "overwrite", r), "overwrite") /\ ks \in SUBSET Keys
    BY Zenon, BaseFields, SomeKeysType DEF OperationKind, WellFormed
  <2>2. Plain(b(ks), "overwrite")
    BY <2>1, ZenonT(60) DEF Plain, Commit, Predicate
  <2> QED  BY <2>1, <2>2, NoPredicateAssumption DEF Plain, Commit
<1> HIDE DEF b
<1>3. Filter(b(ks)) = b(ks).pred /\ Inserted(l, t, r, b(ks)) = NewRows(t, ks)
  BY <1>2 DEF Plain, Filter, Inserted
<1>4. "overwrite" \in RewriteKinds
  BY DEF RewriteKinds
<1> QED  BY <1>1, <1>2, <1>3, <1>4, RewriteRows, NewRowsAllowed

LEMMA DeleteRows ==
    ASSUME NEW l, WellFormed(l), NEW t \in Writers, NEW r \in DOMAIN l,
           NEW c, c \in delete(l, t, r) \/ (c \in delete_all(l, t, r) /\ "delete_all" \in Kinds)
    PROVE  PlanRows(l, t, r, c)
<1> DEFINE e == Base(t, "delete", r)
<1>1. Plain(e, "delete") /\ "delete" \in RewriteKinds
  BY BaseFields DEF OperationKind, WellFormed, RewriteKinds
<1>2. CASE c \in delete(l, t, r)
  <2> DEFINE b(p) == [e EXCEPT !.pred = p]
  <2>1. PICK p \in SUBSET Keys : c = Rewrite(l, r, b(p), t, {})
    BY <1>2 DEF delete
  <2> HIDE DEF e
  <2>2. Plain(b(p), "delete") /\ b(p).pred = p
    BY <1>1 DEF Plain, Commit, Predicate
  <2>3. p # NONE
    BY NoPredicateAssumption
  <2> HIDE DEF b
  <2>4. Filter(b(p)) = b(p).pred /\ Inserted(l, t, r, b(p)) = {}
    BY <2>2 DEF Plain, Filter, Inserted
  <2> QED  BY Zenon, <1>1, <2>1, <2>2, <2>3, <2>4, RewriteRows
<1>3. CASE c \in delete_all(l, t, r) /\ "delete_all" \in Kinds
  <2>1. c = Rewrite(l, r, e, t, {}) /\ ~(Kinds \subseteq SerialKinds)
    BY <1>3 DEF delete_all, SerialKinds
  <2> HIDE DEF e
  <2>2. Filter(e) = e.pred /\ Inserted(l, t, r, e) = {}
    BY <1>1 DEF Plain, Filter, Inserted
  <2> QED  BY Zenon, <1>1, <2>1, <2>2, RewriteRows
<1> QED  BY <1>2, <1>3

LEMMA UpdateRows ==
    ASSUME NEW l, WellFormed(l), NEW t \in Writers, NEW r \in DOMAIN l, NEW c \in update(l, t, r)
    PROVE  PlanRows(l, t, r, c)
<1> DEFINE b(p) == [Base(t, "update", r) EXCEPT !.pred = p]
           new(p) == {<<t, x[2]>> : x \in MatchingRows(Content(l, r), p)}
<1>1. PICK p \in SUBSET Keys : c = Rewrite(l, r, b(p), t, new(p))
  BY DEF update, Validated
<1>2. \A f \in c.adds : \A x \in f.rows : x[2] \in MetadataAt(l, r).allowed
  BY DEF update, Validated
<1>3. \A x \in new(p) : x[1] = t
  OBVIOUS
<1>4. Plain(b(p), "update") /\ b(p).pred = p /\ p # NONE /\ "update" \in RewriteKinds
  <2>1. Plain(Base(t, "update", r), "update")
    BY BaseFields DEF OperationKind, WellFormed
  <2>2. Plain(b(p), "update") /\ b(p).pred = p
    BY <2>1 DEF Plain, Commit, Predicate
  <2> QED  BY <2>2, NoPredicateAssumption DEF RewriteKinds
<1> HIDE DEF b
<1>5. Filter(b(p)) = b(p).pred /\ Inserted(l, t, r, b(p)) = new(p)
  BY <1>4 DEF Plain, Filter, Inserted
<1> HIDE DEF new
<1> QED  BY <1>1, <1>2, <1>3, <1>4, <1>5, RewriteRows

\* The early filter that MERGE commits as its predicate changes no row.
LEMMA FilterRows ==
    ASSUME NEW l, NEW t, NEW r, NEW b \in Commit, PlanRows(l, t, r, b), b.kind \in {"merge", "merge_insert"},
           NEW c \in MergeFilters(b)
    PROVE  PlanRows(l, t, r, c)
<1>1. PICK p \in {b.src, NONE} : c = [b EXCEPT !.pred = p]
  BY DEF MergeFilters
<1>2. /\ c.kind = b.kind /\ c.metadata = b.metadata /\ c.protocol = b.protocol /\ c.src = b.src
      /\ c.adds = b.adds /\ c.removes = b.removes /\ c.data_change = b.data_change /\ c.pred = p
  BY <1>1 DEF Commit
<1>3. Filter(c) = Filter(b) /\ Inserted(l, t, r, c) = Inserted(l, t, r, b)
  BY <1>2 DEF Filter, Inserted
<1>4. Exact(l, t, r, c)
  BY <1>1, <1>2, <1>3 DEF PlanRows, Exact
<1> QED  BY <1>2, <1>4 DEF PlanRows, Sourced, ProtocolOnly, Declared

LEMMA MergeRows ==
    ASSUME NEW l, WellFormed(l), NEW t \in Writers, NEW r \in DOMAIN l, NEW c \in merge(l, t, r)
    PROVE  PlanRows(l, t, r, c)
<1> DEFINE b(ks) == [Base(t, "merge", r) EXCEPT !.pred = ks, !.src = ks]
<1>1. PICK ks \in SomeKeys(l, r) : c \in MergeFilters(Rewrite(l, r, b(ks), t, NewRows(t, ks)))
  BY Zenon DEF merge, Validated
<1>2. ks \in SUBSET Keys /\ NewRows(t, ks) \in SUBSET Row
  BY SomeKeysType, NewRowsType
<1>3. Plain(b(ks), "merge") /\ PlanOK(l, t, r, b(ks)) /\ b(ks).pred = ks /\ b(ks).src = ks
  <2>1. Plain(Base(t, "merge", r), "merge") /\ PlanOK(l, t, r, Base(t, "merge", r))
    BY ZenonT(60), BaseFields, BaseOK DEF OperationKind, WellFormed
  <2>2. Plain(b(ks), "merge")
    BY <1>2, <2>1, ZenonT(60) DEF Plain, Commit, Predicate
  <2>3. PlanOK(l, t, r, b(ks))
    BY <1>2, <2>1, ZenonT(60) DEF PlanOK, Commit, Predicate
  <2>4. b(ks).pred = ks /\ b(ks).src = ks
    BY DEF Base
  <2> QED  BY <2>2, <2>3, <2>4
<1> HIDE DEF b
<1>4. Filter(b(ks)) = b(ks).pred /\ Inserted(l, t, r, b(ks)) = NewRows(t, ks) /\ "merge" \in RewriteKinds
  BY <1>3 DEF Plain, Filter, Inserted, RewriteKinds
<1>5. PlanRows(l, t, r, Rewrite(l, r, b(ks), t, NewRows(t, ks)))
  BY <1>3, <1>4, RewriteRows, NewRowsAllowed
<1>6. Rewrite(l, r, b(ks), t, NewRows(t, ks)) \in Commit
  BY <1>2, <1>3, RewriteOK DEF PlanOK
<1>7. Rewrite(l, r, b(ks), t, NewRows(t, ks)).kind = "merge"
  <2> DEFINE d == Rewrite(l, r, b(ks), t, NewRows(t, ks))
  <2>1. Rewritten(l, r, "merge", b(ks), NewRows(t, ks), d)
    BY <1>3, RewriteFields
  <2> HIDE DEF d
  <2>2. d.kind = "merge"
    BY <2>1 DEF Rewritten
  <2> QED  BY <2>2 DEF d
<1> QED  BY <1>1, <1>5, <1>6, <1>7, FilterRows

LEMMA MergeInsertRows ==
    ASSUME NEW l, WellFormed(l), NEW t \in Writers, NEW r \in DOMAIN l, NEW c \in merge_insert(l, t, r)
    PROVE  PlanRows(l, t, r, c)
<1> DEFINE add(ks) == NonEmptyFile(NewFile(t, 0, NewRows(t, unmatched(l, r, ks))))
           b(ks) == [Base(t, "merge_insert", r) EXCEPT !.src = ks, !.adds = add(ks)]
<1>1. PICK ks \in SomeKeys(l, r) : c \in MergeFilters(b(ks))
  BY Zenon DEF merge_insert
<1>2. ks \in SUBSET Keys /\ unmatched(l, r, ks) \in SUBSET Keys /\ unmatched(l, r, ks) \subseteq ks
  BY SomeKeysType DEF unmatched
<1>3. add(ks) \in SUBSET File
  BY <1>2, NewRowsType, NewFileType
<1>4. /\ \A f, g \in add(ks) : f = g
      /\ \A f \in add(ks) : \A x \in f.rows : x[1] = t /\ x[2] \in MetadataAt(l, r).allowed
  <2>1. \A x \in NewRows(t, unmatched(l, r, ks)) : x[1] = t /\ x[2] \in MetadataAt(l, r).allowed
    BY <1>2 DEF NewRows, SomeKeys
  <2> QED  BY <2>1 DEF NonEmptyFile, NewFile
<1>5. Plain(Base(t, "merge_insert", r), "merge_insert")
  BY BaseFields DEF OperationKind, WellFormed
<1> HIDE DEF add
<1>6. /\ Plain(b(ks), "merge_insert") /\ b(ks).adds = add(ks)
      /\ b(ks).removes = {} /\ b(ks).src = ks /\ b(ks).pred = NONE
  <2>1. Plain(b(ks), "merge_insert")
    BY <1>2, <1>3, <1>5, ZenonT(60) DEF Plain, Commit
  <2>2. /\ b(ks).adds = add(ks) /\ b(ks).removes = {} /\ b(ks).src = ks /\ b(ks).pred = NONE
    BY DEF Base
  <2> QED  BY <2>1, <2>2
<1>7. RowsOf(add(ks)) = NewRows(t, unmatched(l, r, ks))
  BY UnmatchedRows DEF add
<1> HIDE DEF b
<1>8. Inserted(l, t, r, b(ks)) = NewRows(t, unmatched(l, r, ks))
  BY <1>6 DEF Plain, Inserted
<1>9. "merge_insert" \notin RewriteKinds \cup CreateKinds
  BY DEF RewriteKinds, CreateKinds
<1>10. Exact(l, t, r, b(ks)) /\ Declared(b(ks))
  BY <1>6, <1>7, <1>8, <1>9 DEF Plain, Exact, Declared
<1>11. PlanRows(l, t, r, b(ks))
  BY <1>4, <1>6, <1>10 DEF PlanRows, Plain, Sourced, ProtocolOnly
<1> QED  BY <1>1, <1>6, <1>11, FilterRows DEF Plain

LEMMA RewriteFilesRows ==
    ASSUME NEW l, NEW t \in Writers, NEW r \in Nat, NEW n \in Nat, NEW bin \in SUBSET File
    PROVE  LET c == rewrite_files(t, r, n, bin)
           IN  PlanRows(l, t, r, c) /\ Permitted(l, r, c) /\ c.kind = "optimize"
<1> DEFINE c == rewrite_files(t, r, n, bin)
           add == {NewFile(t, n, UNION {f.rows : f \in bin})}
<1>1. c = [Base(t, "optimize", r) EXCEPT !.removes = bin, !.data_change = FALSE, !.adds = add]
  BY DEF rewrite_files
<1>2. (\A f, g \in add : f = g) /\ \A f \in add : \A x \in f.rows : \E g \in bin : x \in g.rows
  BY DEF NewFile
<1>3. Plain(Base(t, "optimize", r), "optimize")
  BY BaseFields DEF OperationKind
<1> HIDE DEF c, add
<1>4. /\ c.kind = "optimize" /\ c.metadata = NONE /\ c.protocol = NONE /\ c.data_change = FALSE
      /\ c.removes = bin /\ c.adds = add
  BY <1>1, <1>3 DEF Plain, Commit
<1>5. RowsOf(add) = RowsOf(bin)
  BY OneFileRows DEF add, RowsOf
<1>6. "optimize" \notin RewriteKinds \cup CreateKinds
  BY DEF RewriteKinds, CreateKinds
<1>7. Exact(l, t, r, c) /\ Declared(c)
  BY <1>4, <1>5, <1>6 DEF Exact, Declared
<1>8. PlanRows(l, t, r, c) /\ Permitted(l, r, c)
  BY <1>2, <1>4, <1>7 DEF PlanRows, Sourced, ProtocolOnly, Permitted
<1> QED  BY <1>4, <1>8 DEF c

LEMMA OptimizeRows ==
    ASSUME NEW l, WellFormed(l), NEW t \in Writers, NEW r \in DOMAIN l, NEW c \in optimize(l, t, r)
    PROVE  PlanRows(l, t, r, c)
<1>1. PICK bin \in SUBSET Active(l, r) : c = rewrite_files(t, r, 0, bin)
  BY DEF optimize
<1>2. bin \in SUBSET File /\ r \in Nat
  BY ActiveFiles DEF WellFormed
<1> QED  BY <1>1, <1>2, RewriteFilesRows

LEMMA FilesystemCheckRows ==
    ASSUME NEW l, WellFormed(l), NEW t \in Writers, NEW r \in DOMAIN l, NEW c \in filesystem_check(l, t, r),
           "filesystem_check" \in Kinds
    PROVE  PlanRows(l, t, r, c)
<1>1. PICK missing \in SUBSET Active(l, r) :
        c = [Base(t, "filesystem_check", r) EXCEPT !.removes = missing]
  BY DEF filesystem_check
<1>2. Plain(Base(t, "filesystem_check", r), "filesystem_check") /\ Base(t, "filesystem_check", r).adds = {}
  BY BaseFields DEF OperationKind, WellFormed
<1>3. c.kind = "filesystem_check" /\ c.adds = {} /\ c.protocol = NONE /\ c.data_change = TRUE
  BY <1>1, <1>2 DEF Plain, Commit
<1>4. Exact(l, t, r, c) /\ Declared(c)
  BY <1>3 DEF Exact, Declared, SerialKinds, RewriteKinds
<1> QED  BY <1>3, <1>4 DEF PlanRows, Sourced, ProtocolOnly

LEMMA RestoreRows ==
    ASSUME NEW l, WellFormed(l), NEW t \in Writers, NEW r \in DOMAIN l, NEW c \in restore(l, t, r)
    PROVE  PlanRows(l, t, r, c)
<1> DEFINE b == Base(t, "restore", r)
<1>1. PICK k \in {v \in DOMAIN l : v < r} : \E p \in RestoredProtocols(l, r, k) :
        c = [b EXCEPT !.target = k,
                !.adds = Active(l, k) \ Active(l, r), !.removes = Active(l, r) \ Active(l, k),
                !.metadata = MetadataAt(l, k), !.protocol = p]
  BY ZenonT(60) DEF restore
<1>2. PICK p \in RestoredProtocols(l, r, k) :
        c = [b EXCEPT !.target = k,
                !.adds = Active(l, k) \ Active(l, r), !.removes = Active(l, r) \ Active(l, k),
                !.metadata = MetadataAt(l, k), !.protocol = p]
  BY ZenonT(60), <1>1
<1>3. Plain(b, "restore")
  BY BaseFields DEF OperationKind, WellFormed
<1>4. MetadataAt(l, k) # NONE
  BY MetadataInForce, NoneAssumption
<1> HIDE DEF b
<1>5. /\ c.kind = "restore" /\ c.metadata = MetadataAt(l, k) /\ c.target = k
      /\ c.adds = Active(l, k) \ Active(l, r) /\ c.removes = Active(l, r) \ Active(l, k)
      /\ c.data_change = TRUE
  BY <1>2, <1>3 DEF Plain, Commit
<1>6. Exact(l, t, r, c) /\ Declared(c)
  BY <1>5 DEF Exact, Declared, RewriteKinds, CreateKinds
<1> QED  BY <1>1, <1>4, <1>5, <1>6 DEF PlanRows, Sourced, ProtocolOnly

\* Operations on metadata touch no data.
LEMMA MetadataChangeRows ==
    ASSUME NEW l, NEW t \in Writers, NEW r \in Nat, NEW k \in MetadataKinds, NEW m \in Metadata, NEW p
    PROVE  PlanRows(l, t, r, MetadataChange(l, t, r, k, m, p))
<1> DEFINE c == MetadataChange(l, t, r, k, m, p)
           n == [m EXCEPT !.by = t]
           q == IF p = ProtocolAt(l, r) THEN NONE ELSE p
<1>1. c = [Base(t, k, r) EXCEPT !.metadata = n, !.protocol = q]
  BY DEF MetadataChange
<1>2. n # NONE
  <2>1. n \in Metadata
    BY DEF Metadata
  <2> HIDE DEF n
  <2> QED  BY <2>1, NoneAssumption
<1>3. /\ Plain(Base(t, k, r), k) /\ Base(t, k, r).adds = {} /\ Base(t, k, r).removes = {}
  BY BaseFields DEF MetadataKinds, OperationKind
<1> HIDE DEF c, n, q
<1>4. /\ c.kind = k /\ c.adds = {} /\ c.removes = {} /\ c.data_change = TRUE
      /\ c.metadata = n
  BY <1>1, <1>3 DEF Plain, Commit
<1>5. PlanRows(l, t, r, c)
  BY Zenon, <1>2, <1>4, NoRows DEF ProtocolOnly
<1> QED  BY <1>5 DEF c

LEMMA SetTblPropertiesRows ==
    ASSUME NEW l, WellFormed(l), NEW t \in Writers, NEW r \in DOMAIN l, NEW c \in set_tbl_properties(l, t, r)
    PROVE  PlanRows(l, t, r, c)
<1> DEFINE m(b) == [MetadataAt(l, r) EXCEPT !.append_only = b]
           p(b) == move_table_properties_into_features(ProtocolAt(l, r), m(b))
<1>1. PICK b \in BOOLEAN : c = MetadataChange(l, t, r, "set_tbl_properties", m(b), p(b))
  BY DEF set_tbl_properties
<1>2. m(b) \in Metadata /\ r \in Nat
  BY MetadataInForce DEF Metadata, WellFormed
<1> HIDE DEF m, p
<1> QED  BY ZenonT(60), <1>1, <1>2, MetadataChangeRows DEF MetadataKinds

LEMMA SchemaRows ==
    ASSUME NEW l, WellFormed(l), NEW t \in Writers, NEW r \in DOMAIN l,
           NEW c \in add_column(l, t, r) \cup update_field_metadata(l, t, r)
                       \cup drop_column_not_null(l, t, r) \cup update_table_metadata(l, t, r)
    PROVE  PlanRows(l, t, r, c)
<1>1. MetadataAt(l, r) \in Metadata /\ r \in Nat
  BY MetadataInForce DEF WellFormed
<1>2. ASSUME NEW k \in MetadataKinds, NEW m \in Metadata, c = SchemaChange(l, t, r, k, m)
      PROVE  PlanRows(l, t, r, c)
  BY <1>1, <1>2, MetadataChangeRows DEF SchemaChange
<1>3. CASE c \in add_column(l, t, r)
  <2> DEFINE m(b) == [MetadataAt(l, r) EXCEPT !.ntz = @ \/ b]
  <2>1. PICK b \in BOOLEAN : c = SchemaChange(l, t, r, "add_column", m(b))
    BY <1>3 DEF add_column
  <2>2. m(b) \in Metadata
    BY <1>1 DEF Metadata
  <2> HIDE DEF m
  <2> QED  BY <1>2, <2>1, <2>2 DEF MetadataKinds
<1>4. CASE c \in update_field_metadata(l, t, r)
  BY <1>1, <1>2, <1>4 DEF update_field_metadata, MetadataKinds
<1>5. CASE c \in drop_column_not_null(l, t, r)
  BY <1>1, <1>2, <1>5 DEF drop_column_not_null, MetadataKinds
<1>6. CASE c \in update_table_metadata(l, t, r)
  BY <1>1, <1>6, MetadataChangeRows DEF update_table_metadata, MetadataKinds
<1> QED  BY <1>3, <1>4, <1>5, <1>6

LEMMA ConstraintRows ==
    ASSUME NEW l, WellFormed(l), NEW t \in Writers, NEW r \in DOMAIN l,
           NEW c \in drop_constraint(l, t, r) \cup add_constraint(l, t, r)
    PROVE  PlanRows(l, t, r, c)
<1>1. MetadataAt(l, r) \in Metadata /\ r \in Nat
  BY MetadataInForce DEF WellFormed
<1>2. CASE c \in drop_constraint(l, t, r)
  <2>1. CASE c = Base(t, "drop_constraint", r)
    <3>1. Plain(c, "drop_constraint") /\ c.adds = {} /\ c.removes = {}
      BY <1>1, <2>1, BaseFields DEF OperationKind
    <3>2. c.kind \in MetadataKinds /\ c.data_change = TRUE /\ ProtocolOnly(c)
      BY <3>1 DEF Plain, ProtocolOnly, MetadataKinds
    <3> QED  BY Zenon, <3>1, <3>2, NoRows
  <2>2. CASE c # Base(t, "drop_constraint", r)
    <3> DEFINE m == [MetadataAt(l, r) EXCEPT !.allowed = Keys]
    <3>1. c = MetadataChange(l, t, r, "drop_constraint", m, ProtocolAt(l, r))
      BY <1>2, <2>2 DEF drop_constraint
    <3>2. m \in Metadata
      BY <1>1 DEF Metadata
    <3> HIDE DEF m
    <3> QED  BY <1>1, <3>1, <3>2, MetadataChangeRows DEF MetadataKinds
  <2> QED  BY <2>1, <2>2
<1>3. CASE c \in add_constraint(l, t, r)
  <2> DEFINE m(ok) == [MetadataAt(l, r) EXCEPT !.by = t, !.allowed = @ \cap ok]
  <2>1. PICK ok \in SUBSET Keys :
          c = [Base(t, "add_constraint", r) EXCEPT !.metadata = m(ok),
                  !.protocol = ConstraintProtocol(ProtocolAt(l, r))]
    BY Zenon, <1>3 DEF add_constraint
  <2>2. m(ok) # NONE
    <3>1. m(ok) \in Metadata
      BY Zenon, <1>1 DEF Metadata
    <3> HIDE DEF m
    <3> QED  BY <3>1, NoneAssumption
  <2>3. /\ Plain(Base(t, "add_constraint", r), "add_constraint") /\ Base(t, "add_constraint", r).adds = {}
        /\ Base(t, "add_constraint", r).removes = {}
    BY <1>1, BaseFields DEF OperationKind
  <2> HIDE DEF m
  <2>4. /\ c.kind = "add_constraint" /\ c.adds = {} /\ c.metadata = m(ok)
        /\ c.removes = {} /\ c.data_change = TRUE
    BY <2>1, <2>3 DEF Plain, Commit
  <2>5. c.kind \in MetadataKinds /\ ProtocolOnly(c)
    BY <2>2, <2>4 DEF ProtocolOnly, MetadataKinds
  <2> QED  BY Zenon, <2>4, <2>5, NoRows
<1> QED  BY <1>2, <1>3

LEMMA AddFeatureRows ==
    ASSUME NEW l, WellFormed(l), NEW t \in Writers, NEW r \in DOMAIN l, NEW c \in add_feature(l, t, r),
           "add_feature" \in Kinds
    PROVE  PlanRows(l, t, r, c)
<1>1. PICK f \in Feature :
        c = [Base(t, "add_feature", r) EXCEPT !.protocol = append_features(ProtocolAt(l, r), f)]
  BY DEF add_feature
<1>2. /\ Plain(Base(t, "add_feature", r), "add_feature") /\ Base(t, "add_feature", r).adds = {}
      /\ Base(t, "add_feature", r).removes = {}
  BY BaseFields DEF OperationKind, WellFormed
<1>3. /\ c.kind = "add_feature" /\ c.adds = {} /\ c.removes = {} /\ c.data_change = TRUE
  BY <1>1, <1>2 DEF Plain, Commit
<1>4. c.kind \in MetadataKinds /\ ProtocolOnly(c)
  BY <1>3 DEF ProtocolOnly, MetadataKinds
<1> QED  BY Zenon, <1>3, <1>4, NoRows

LEMMA PlansRows ==
    ASSUME NEW l, WellFormed(l), NEW t \in Writers, NEW r \in DOMAIN l,
           NEW k \in Kinds \ CreateKinds, NEW c \in Plans(l, t, r, k)
    PROVE  PlanRows(l, t, r, c)
<1>1. k \in PlanKinds
  BY KindsAssumption
<1>2. CASE k \in {"append", "overwrite", "replace_where", "delete", "delete_all", "update", "merge"}
  BY <1>2, AppendRows, OverwriteRows, ReplaceWhereRows, DeleteRows, UpdateRows, MergeRows DEF Plans
<1>3. CASE k \in {"merge_insert", "optimize", "filesystem_check", "restore"}
  BY <1>3, MergeInsertRows, OptimizeRows, FilesystemCheckRows, RestoreRows DEF Plans
<1>4. CASE k \in {"set_tbl_properties", "add_column", "update_field_metadata", "drop_column_not_null"}
  BY <1>4, SetTblPropertiesRows, SchemaRows DEF Plans
<1>5. CASE k \in {"update_table_metadata", "drop_constraint", "add_constraint", "add_feature"}
  BY <1>5, SchemaRows, ConstraintRows, AddFeatureRows DEF Plans
<1> QED  BY <1>1, <1>2, <1>3, <1>4, <1>5 DEF PlanKinds

\* A commit that creates or replaces the table writes its own rows only.
CreateRows(t, c) ==
    /\ c.kind \in CreateKinds /\ c.metadata # NONE /\ c.removes = {} /\ c.data_change = TRUE
    /\ \A f, g \in c.adds : f = g
    /\ \A f \in c.adds : \A x \in f.rows : x[1] = t

LEMMA CreatesRows ==
    ASSUME NEW t \in Writers, NEW k \in CreateKinds, NEW c \in create(t, k)
    PROVE  CreateRows(t, c)
<1> DEFINE m == [by |-> t, append_only |-> FALSE, allowed |-> Keys, ntz |-> FALSE]
           p == [reader |-> 1, writer |-> 2, features |-> {}]
           b == [Base(t, k, NONE) EXCEPT !.metadata = m, !.protocol = p]
           add(ks) == {NewFile(t, 0, NewRows(t, ks))}
<1>1. k \in OperationKind /\ k \notin {"restore", "optimize"}
  BY DEF CreateKinds, OperationKind
<1>2. c = b \/ \E ks \in SUBSET Keys : c = [b EXCEPT !.src = ks, !.adds = add(ks)]
  BY ZenonT(60) DEF create
<1>3. \A ks \in SUBSET Keys : (\A f, g \in add(ks) : f = g) /\ \A f \in add(ks) : \A x \in f.rows : x[1] = t
  BY DEF NewFile, NewRows
<1>4. c.metadata # NONE
  BY CreatesOK DEF CreateOK
<1>5. /\ Base(t, k, NONE).kind = k /\ Base(t, k, NONE).adds = {} /\ Base(t, k, NONE).removes = {}
      /\ Base(t, k, NONE).data_change = TRUE
  BY DEF Base
<1> HIDE DEF m, p, add
<1>6. b.kind = k /\ b.adds = {} /\ b.removes = {} /\ b.data_change = TRUE
  BY <1>5 DEF Base
<1>7. CASE c = b
  BY <1>1, <1>4, <1>6, <1>7 DEF CreateRows
<1>8. CASE c # b
  <2>1. PICK ks \in SUBSET Keys : c = [b EXCEPT !.src = ks, !.adds = add(ks)]
    BY Zenon, <1>2, <1>8
  <2>2. c.kind = k /\ c.adds = add(ks) /\ c.removes = {} /\ c.data_change = TRUE
    BY <1>6, <2>1 DEF Base
  <2>3. (\A f, g \in add(ks) : f = g) /\ \A f \in add(ks) : \A x \in f.rows : x[1] = t
    BY <1>3
  <2> QED  BY <1>1, <1>4, <2>2, <2>3 DEF CreateRows
<1> QED  BY <1>7, <1>8

LEMMA ReplaceTableRows ==
    ASSUME NEW l, WellFormed(l), NEW t \in Writers, NEW r \in DOMAIN l, NEW c \in replace_table(l, t, r),
           "create_or_replace" \in Kinds
    PROVE  PlanRows(l, t, r, c)
<1>1. PICK b \in create(t, "create_or_replace") : c = [b EXCEPT !.read = r, !.removes = Active(l, r)]
  BY Zenon DEF replace_table
<1>2. CreateRows(t, b) /\ CreateOK(t, b)
  BY CreatesRows, CreatesOK DEF CreateKinds
<1>3. c.kind = b.kind /\ c.metadata = b.metadata /\ c.adds = b.adds /\ c.data_change = b.data_change
  BY <1>1, <1>2 DEF CreateOK, Commit
<1>4. Exact(l, t, r, c) /\ Declared(c)
  <2>1. b.kind \in CreateKinds /\ b.data_change = TRUE
    BY <1>2 DEF CreateRows
  <2>2. \A k \in CreateKinds : k \notin RewriteKinds \cup {"merge", "merge_insert", "optimize"}
    BY DEF CreateKinds, RewriteKinds
  <2>3. ~(Kinds \subseteq SerialKinds)
    BY DEF SerialKinds, PlanKinds
  <2> QED  BY <1>3, <2>1, <2>2, <2>3 DEF Exact, Declared
<1>5. c.kind \notin {"restore", "optimize"}
  BY <1>2, <1>3 DEF CreateRows, CreateKinds
<1> QED  BY <1>2, <1>3, <1>4, <1>5 DEF CreateRows, PlanRows, Sourced, ProtocolOnly

-----------------------------------------------------------------------------
(* Blind appends, which a commit at level WriteSerializable need not read. *)

\* Only an append is ever marked as a blind append.
Marked(c) == c.blind => c.kind = "append"

Unmarked(c) == "blind" \in DOMAIN c /\ ~c.blind

\* No other part of a commit touches the mark.
LEMMA EditsUnmarked ==
    ASSUME NEW c, Unmarked(c), NEW x, NEW y
    PROVE  /\ Unmarked([c EXCEPT !.pred = x]) /\ Unmarked([c EXCEPT !.pred = x, !.src = y])
           /\ Unmarked([c EXCEPT !.removes = x]) /\ Unmarked([c EXCEPT !.protocol = x])
           /\ Unmarked([c EXCEPT !.metadata = x, !.protocol = y])
           /\ Unmarked([c EXCEPT !.removes = x, !.adds = y])
           /\ Unmarked([c EXCEPT !.src = x, !.adds = y])
BY DEF Unmarked

LEMMA BaseUnmarked ==
    ASSUME NEW t, NEW k, NEW r
    PROVE  Unmarked(Base(t, k, r))
BY DEF Unmarked, Base

LEMMA PropertiesUnmarked ==
    ASSUME NEW c, Unmarked(c), NEW o
    PROVE  Unmarked(with_commit_properties(c, o))
BY DEF Unmarked, with_commit_properties

LEMMA RewriteUnmarked ==
    ASSUME NEW l, NEW r, NEW c, Unmarked(c), NEW t, NEW new
    PROVE  Unmarked(Rewrite(l, r, c, t, new))
BY Zenon, EditsUnmarked DEF Rewrite

LEMMA RewriteFilesUnmarked ==
    ASSUME NEW t, NEW r, NEW n, NEW bin
    PROVE  Unmarked(rewrite_files(t, r, n, bin))
BY BaseUnmarked DEF rewrite_files, Unmarked

LEMMA RewritesUnmarked ==
    ASSUME NEW l, NEW t, NEW r,
           NEW c \in replace_where(l, t, r) \cup delete(l, t, r) \cup update(l, t, r)
                        \cup merge(l, t, r) \cup merge_insert(l, t, r)
    PROVE  Unmarked(c)
<1>1. \A k, x, y : /\ Unmarked([Base(t, k, r) EXCEPT !.pred = x]) /\ Unmarked([Base(t, k, r) EXCEPT !.pred = x, !.src = y])
                   /\ Unmarked([Base(t, k, r) EXCEPT !.src = x, !.adds = y])
  BY ZenonT(60), BaseUnmarked, EditsUnmarked
<1>2. CASE c \in replace_where(l, t, r)
  <2>1. PICK ks \in SomeKeys(l, r) :
          c = Rewrite(l, r, [Base(t, "overwrite", r) EXCEPT !.pred = ks, !.src = ks], t, NewRows(t, ks))
    BY ZenonT(60), <1>2 DEF replace_where, Validated
  <2> QED  BY ZenonT(60), <1>1, <2>1, RewriteUnmarked
<1>3. CASE c \in delete(l, t, r)
  <2>1. PICK p : c = Rewrite(l, r, [Base(t, "delete", r) EXCEPT !.pred = p], t, {})
    BY <1>3 DEF delete
  <2> QED  BY Zenon, <1>1, <2>1, RewriteUnmarked
<1>4. CASE c \in update(l, t, r)
  <2>1. PICK p : c = Rewrite(l, r, [Base(t, "update", r) EXCEPT !.pred = p], t,
                             {<<t, x[2]>> : x \in MatchingRows(Content(l, r), p)})
    BY <1>4 DEF update, Validated
  <2> QED  BY Zenon, <1>1, <2>1, RewriteUnmarked
<1>5. CASE c \in merge(l, t, r)
  <2>1. PICK ks \in SomeKeys(l, r) :
          c \in MergeFilters(Rewrite(l, r, [Base(t, "merge", r) EXCEPT !.pred = ks, !.src = ks],
                                     t, NewRows(t, ks)))
    BY ZenonT(60), <1>5 DEF merge, Validated
  <2> DEFINE d == Rewrite(l, r, [Base(t, "merge", r) EXCEPT !.pred = ks, !.src = ks], t, NewRows(t, ks))
  <2>2. Unmarked(d) /\ c \in MergeFilters(d)
    BY Zenon, <1>1, <2>1, RewriteUnmarked
  <2> HIDE DEF d
  <2>3. PICK p : c = [d EXCEPT !.pred = p]
    BY <2>2 DEF MergeFilters
  <2> QED  BY ZenonT(60), <2>2, <2>3, EditsUnmarked
<1>6. CASE c \in merge_insert(l, t, r)
  <2> DEFINE d(ks) == [Base(t, "merge_insert", r) EXCEPT !.src = ks,
                         !.adds = NonEmptyFile(NewFile(t, 0, NewRows(t, unmatched(l, r, ks))))]
  <2>1. PICK ks \in SomeKeys(l, r) : c \in MergeFilters(d(ks))
    BY ZenonT(60), <1>6 DEF merge_insert
  <2>2. Unmarked(d(ks))
    BY Zenon, <1>1
  <2> HIDE DEF d
  <2>3. PICK p : c = [d(ks) EXCEPT !.pred = p]
    BY <2>1 DEF MergeFilters
  <2> QED  BY ZenonT(60), <2>2, <2>3, EditsUnmarked
<1> QED  BY <1>2, <1>3, <1>4, <1>5, <1>6

LEMMA MetadataChangeUnmarked ==
    ASSUME NEW l, NEW t, NEW r, NEW k, NEW m, NEW p
    PROVE  Unmarked(MetadataChange(l, t, r, k, m, p))
BY ZenonT(60), BaseUnmarked, EditsUnmarked DEF MetadataChange

LEMMA MetadataPlansUnmarked ==
    ASSUME NEW l, NEW t, NEW r,
           NEW c \in set_tbl_properties(l, t, r) \cup add_column(l, t, r) \cup update_field_metadata(l, t, r)
                       \cup drop_column_not_null(l, t, r) \cup update_table_metadata(l, t, r)
                       \cup drop_constraint(l, t, r) \cup add_constraint(l, t, r) \cup add_feature(l, t, r)
    PROVE  Unmarked(c)
<1>1. CASE c \in set_tbl_properties(l, t, r)
  BY Zenon, <1>1, MetadataChangeUnmarked DEF set_tbl_properties
<1>2. CASE c \in add_column(l, t, r) \cup update_field_metadata(l, t, r) \cup drop_column_not_null(l, t, r)
  <2>1. PICK k, m : c = SchemaChange(l, t, r, k, m)
    BY Zenon, <1>2 DEF add_column, update_field_metadata, drop_column_not_null
  <2>2. \E p : SchemaChange(l, t, r, k, m) = MetadataChange(l, t, r, k, m, p)
    BY Zenon DEF SchemaChange
  <2> QED  BY Zenon, <2>1, <2>2, MetadataChangeUnmarked
<1>3. CASE c \in update_table_metadata(l, t, r) \cup drop_constraint(l, t, r)
  BY <1>3, MetadataChangeUnmarked, BaseUnmarked DEF update_table_metadata, drop_constraint
<1>4. CASE c \in add_constraint(l, t, r)
  <2>1. PICK m, p : c = [Base(t, "add_constraint", r) EXCEPT !.metadata = m, !.protocol = p]
    BY Zenon, <1>4 DEF add_constraint
  <2>2. Unmarked(Base(t, "add_constraint", r))
    BY Zenon, BaseUnmarked
  <2> QED  BY Zenon, <2>1, <2>2, EditsUnmarked
<1>5. CASE c \in add_feature(l, t, r)
  <2>1. PICK p : c = [Base(t, "add_feature", r) EXCEPT !.protocol = p]
    BY Zenon, <1>5 DEF add_feature
  <2>2. Unmarked(Base(t, "add_feature", r))
    BY Zenon, BaseUnmarked
  <2> QED  BY Zenon, <2>1, <2>2, EditsUnmarked
<1> QED  BY <1>1, <1>2, <1>3, <1>4, <1>5

LEMMA AppendMarked ==
    ASSUME NEW l, NEW t, NEW r, NEW c \in append(l, t, r)
    PROVE  c.kind = "append"
<1> DEFINE b == Base(t, "append", r)
           new(ks, o) == [b EXCEPT !.src = ks, !.adds = {NewFile(t, 0, NewRows(t, ks))},
                                   !.blind = o]
<1>0. c \in UNION {{new(ks, o) : o \in BlindAppends} : ks \in SomeKeys(l, r)}
  BY Zenon DEF append
<1>1. PICK ks, o : c = new(ks, o)
  <2> HIDE DEF new
  <2> QED  BY <1>0
<1>2. "kind" \in DOMAIN b /\ b.kind = "append"
  BY DEF Base
<1> HIDE DEF b
<1> QED  BY <1>1, <1>2

LEMMA RestoreUnmarked ==
    ASSUME NEW l, NEW t, NEW r, NEW c \in restore(l, t, r)
    PROVE  Unmarked(c)
<1> DEFINE b == Base(t, "restore", r)
           new(k, p) == [b EXCEPT !.target = k, !.adds = Active(l, k) \ Active(l, r),
                                  !.removes = Active(l, r) \ Active(l, k),
                                  !.metadata = MetadataAt(l, k), !.protocol = p]
           old == {v \in DOMAIN l : v < r}
<1>0. c \in UNION {{new(k, p) : p \in RestoredProtocols(l, r, k)} : k \in old}
  BY Zenon DEF restore
<1>1. PICK k, p : c = new(k, p)
  <2> HIDE DEF new, old
  <2> QED  BY <1>0
<1>2. Unmarked(b)
  BY BaseUnmarked
<1> HIDE DEF b
<1> QED  BY <1>1, <1>2 DEF Unmarked

\* isBlindAppend is in the hands of the callers of append; no other operation sets it.
LEMMA PlansMarked ==
    ASSUME Kinds \subseteq SerialKinds,
           NEW l, NEW t, NEW r, NEW k \in Kinds, NEW c \in Plans(l, t, r, k)
    PROVE  Marked(c)
<1>1. k \in PlanKinds \ {"overwrite", "delete_all", "filesystem_check"}
  BY DEF SerialKinds
<1>2. CASE k = "append"
  BY <1>2, AppendMarked DEF Plans, Marked
<1>3. CASE k \in {"replace_where", "delete", "update", "merge", "merge_insert"}
  BY <1>3, RewritesUnmarked DEF Plans, Marked, Unmarked
<1>4. CASE k = "optimize"
  BY <1>4, RewriteFilesUnmarked DEF Plans, optimize, Marked, Unmarked
<1>5. CASE k = "restore"
  BY <1>5, RestoreUnmarked DEF Plans, Marked, Unmarked
<1>6. CASE k \in {"set_tbl_properties", "add_column", "update_field_metadata", "drop_column_not_null"}
  BY <1>6, MetadataPlansUnmarked DEF Plans, Marked, Unmarked
<1>7. CASE k \in {"update_table_metadata", "drop_constraint", "add_constraint", "add_feature"}
  BY <1>7, MetadataPlansUnmarked DEF Plans, Marked, Unmarked
<1> QED  BY <1>1, <1>2, <1>3, <1>4, <1>5, <1>6, <1>7 DEF PlanKinds

-----------------------------------------------------------------------------
(* The properties a caller commits with change none of this.               *)

IsCommitProperties(o) == o.app \in AppIds \cup {NONE} /\ o.domain \in Domains \cup {NONE}

LEMMA PropertiesType == \A o \in CommitProperties : IsCommitProperties(o)
BY DEF CommitProperties, IsCommitProperties

\* The Txn and DomainMetadata actions touch no other part of a commit.
LEMMA PropertiesKeep ==
    ASSUME NEW c \in Commit, NEW o, IsCommitProperties(o)
    PROVE  LET d == with_commit_properties(c, o) IN
           /\ d \in Commit /\ d.id = c.id /\ d.kind = c.kind /\ d.pred = c.pred /\ d.src = c.src
           /\ d.read = c.read /\ d.target = c.target /\ d.adds = c.adds /\ d.removes = c.removes
           /\ d.data_change = c.data_change /\ d.metadata = c.metadata /\ d.protocol = c.protocol
           /\ d.blind = c.blind
BY ZenonT(60) DEF with_commit_properties, IsCommitProperties, Commit

\* A plan stays one when the caller's Txn and DomainMetadata actions are added.
LEMMA PropertiesRows ==
    ASSUME NEW l, NEW t, NEW r, NEW c \in Commit, PlanRows(l, t, r, c), NEW o, IsCommitProperties(o)
    PROVE  LET d == with_commit_properties(c, o) IN
           /\ PlanRows(l, t, r, d) /\ d.kind = c.kind
           /\ Permitted(l, r, c) => Permitted(l, r, d)
<1> DEFINE d == with_commit_properties(c, o)
<1>1. /\ d.kind = c.kind /\ d.pred = c.pred /\ d.src = c.src /\ d.target = c.target
      /\ d.adds = c.adds /\ d.removes = c.removes /\ d.data_change = c.data_change
      /\ d.metadata = c.metadata /\ d.protocol = c.protocol
  BY PropertiesKeep
<1> HIDE DEF d
<1>2. Sourced(l, t, r, d)
  BY <1>1 DEF Sourced, PlanRows
<1>3. Exact(l, t, r, d)
  <2>1. Inserted(l, t, r, d) = Inserted(l, t, r, c) /\ Filter(d) = Filter(c)
    BY <1>1 DEF Inserted, Filter
  <2> QED  BY <1>1, <2>1 DEF Exact, PlanRows
<1>4. Declared(d) /\ ProtocolOnly(d)
  BY <1>1 DEF Declared, ProtocolOnly, PlanRows
<1>5. Permitted(l, r, c) => Permitted(l, r, d)
  BY <1>1 DEF Permitted
<1> QED  BY <1>1, <1>2, <1>3, <1>4, <1>5 DEF PlanRows, d

LEMMA PropertiesPlan ==
    ASSUME NEW l, NEW t, NEW r, NEW c, PlanOK(l, t, r, c), NEW o, IsCommitProperties(o)
    PROVE  LET d == with_commit_properties(c, o) IN
           /\ PlanOK(l, t, r, d)
           /\ PlanRows(l, t, r, c) => PlanRows(l, t, r, d)
           /\ Marked(c) => Marked(d)
<1> DEFINE d == with_commit_properties(c, o)
<1>1. c \in Commit
  BY DEF PlanOK
<1>2. d \in Commit /\ d.id = c.id /\ d.kind = c.kind /\ d.read = c.read /\ d.removes = c.removes /\ d.blind = c.blind
  BY <1>1, PropertiesKeep
<1>3. PlanRows(l, t, r, c) => PlanRows(l, t, r, d)
  BY <1>1, PropertiesRows
<1> HIDE DEF d
<1>4. PlanOK(l, t, r, d) /\ (Marked(c) => Marked(d))
  BY <1>2 DEF PlanOK, Marked
<1> QED  BY <1>3, <1>4 DEF d

\* So does the creation of a table.
LEMMA PropertiesCreate ==
    ASSUME NEW t, NEW c, CreateOK(t, c), NEW o, IsCommitProperties(o)
    PROVE  LET d == with_commit_properties(c, o) IN
           CreateOK(t, d) /\ (CreateRows(t, c) => CreateRows(t, d))
<1> DEFINE d == with_commit_properties(c, o)
<1>1. /\ d \in Commit /\ d.id = c.id /\ d.kind = c.kind /\ d.read = c.read
      /\ d.adds = c.adds /\ d.removes = c.removes /\ d.data_change = c.data_change
      /\ d.metadata = c.metadata /\ d.protocol = c.protocol
  BY PropertiesKeep DEF CreateOK
<1> HIDE DEF d
<1>2. CreateOK(t, d) /\ (CreateRows(t, c) => CreateRows(t, d))
  BY <1>1 DEF CreateOK, CreateRows
<1> QED  BY <1>2 DEF d
=============================================================================
