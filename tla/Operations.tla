----------------------------- MODULE Operations -----------------------------
(***************************************************************************)
(* The operations of the operations/ directory, as far as they decide what *)
(* is committed: from the log and the version r of the snapshot an         *)
(* operation was given, each planner yields the set of commits that some   *)
(* choice of its parameters produces.  t is the invocation.                *)
(***************************************************************************)
EXTENDS DeltaTable

CONSTANTS
    Kinds,           \* the operations that are invoked
    BlindAppends,    \* values of isBlindAppend that callers put in app_metadata
    CommitInterval   \* does OPTIMIZE commit bin by bin (min_commit_interval)?

ASSUME BlindAppendsAssumption == BlindAppends \subseteq BOOLEAN
ASSUME CommitIntervalAssumption == CommitInterval \in BOOLEAN

\* CommitBuilder::build with no actions yet.
Base(t, kind, r) ==
    [id |-> t, kind |-> kind, pred |-> NONE, src |-> {}, read |-> r, target |-> NONE,
     adds |-> {}, removes |-> {}, data_change |-> TRUE, metadata |-> NONE,
     protocol |-> NONE, app |-> NONE, domain |-> NONE, blind |-> FALSE]

\* The Txn and the DomainMetadata action that the caller of any operation may ask for.
CommitProperties == [app : AppIds \cup {NONE}, domain : Domains \cup {NONE}]

\* CommitBuilder::from the properties o, with the actions of c.
with_commit_properties(c, o) == [c EXCEPT !.app = o.app, !.domain = o.domain]

\* Writers write no empty data file.
NonEmptyFile(f) == IF f.rows = {} THEN {} ELSE {f}

\* Rewrite the files that hold a row of pred: rows outside pred are rescued,
\* rows of the new file are added to them.
Rewrite(l, r, c, t, new) ==
    LET matched == Matching(Active(l, r), c.pred)
        rescued == UNION {f.rows \ MatchingRows(f.rows, c.pred) : f \in matched}
    IN  [c EXCEPT !.removes = matched, !.adds = NonEmptyFile(NewFile(t, 0, rescued \cup new))]

SomeKeys(l, r) == SUBSET MetadataAt(l, r).allowed \ {{}}

\* DataValidationExec: every row that is written, the rescued ones included, has to
\* satisfy the constraints of the snapshot, or the operation fails.
Validated(l, r, plans) ==
    {c \in plans : \A f \in c.adds : \A x \in f.rows : x[2] \in MetadataAt(l, r).allowed}

-----------------------------------------------------------------------------
(* Operations on data.                                                     *)

\* The isBlindAppend flag is the caller's; callers set it on appends only.
append(l, t, r) ==
    UNION {{[Base(t, "append", r) EXCEPT !.src = ks, !.adds = {NewFile(t, 0, NewRows(t, ks))},
                !.blind = b] : b \in BlindAppends} : ks \in SomeKeys(l, r)}

overwrite(l, t, r) ==
    {Rewrite(l, r, [Base(t, "overwrite", r) EXCEPT !.src = ks], t, NewRows(t, ks)) :
        ks \in SomeKeys(l, r)}

\* replaceWhere: the new rows have to satisfy the predicate.
replace_where(l, t, r) ==
    Validated(l, r,
        {Rewrite(l, r, [Base(t, "overwrite", r) EXCEPT !.pred = ks, !.src = ks], t, NewRows(t, ks)) :
            ks \in SomeKeys(l, r)})

delete(l, t, r) ==
    {Rewrite(l, r, [Base(t, "delete", r) EXCEPT !.pred = p], t, {}) : p \in SUBSET Keys \ {{}}}

delete_all(l, t, r) == {Rewrite(l, r, Base(t, "delete", r), t, {})}

\* An UPDATE without a predicate is committed with the predicate "true".
update(l, t, r) ==
    Validated(l, r,
        {LET hit == MatchingRows(Content(l, r), p)
         IN  Rewrite(l, r, [Base(t, "update", r) EXCEPT !.pred = p], t, {<<t, x[2]>> : x \in hit}) :
            p \in SUBSET Keys \ {{}}})

\* MERGE of a source with the keys ks.  The predicate it commits is the early
\* filter built from the source, or none when the join needs the full target.
MergeFilters(c) == {[c EXCEPT !.pred = p] : p \in {c.src, NONE}}

\* WHEN MATCHED UPDATE, WHEN NOT MATCHED INSERT: files with a match are rewritten.
merge(l, t, r) ==
    Validated(l, r,
        UNION {MergeFilters(Rewrite(l, r, [Base(t, "merge", r) EXCEPT !.pred = ks, !.src = ks],
                                    t, NewRows(t, ks))) : ks \in SomeKeys(l, r)})

\* WHEN NOT MATCHED INSERT alone: nothing is rewritten.
unmatched(l, r, ks) == {k \in ks : \A x \in Content(l, r) : x[2] # k}

merge_insert(l, t, r) ==
    UNION {MergeFilters([Base(t, "merge_insert", r) EXCEPT !.src = ks,
                !.adds = NonEmptyFile(NewFile(t, 0, NewRows(t, unmatched(l, r, ks))))]) :
           ks \in SomeKeys(l, r)}

\* One bin of OPTIMIZE, committed as the n-th commit of the invocation.
rewrite_files(t, r, n, bin) ==
    [Base(t, "optimize", r) EXCEPT !.removes = bin, !.data_change = FALSE,
        !.adds = {NewFile(t, n, UNION {f.rows : f \in bin})}]

optimize(l, t, r) == {rewrite_files(t, r, 0, bin) : bin \in SUBSET Active(l, r) \ {{}}}

\* Files that are missing from the listing of the object store.
filesystem_check(l, t, r) ==
    {[Base(t, "filesystem_check", r) EXCEPT !.removes = missing] : missing \in SUBSET Active(l, r)}

RestoredProtocols(l, r, k) ==
    LET now == ProtocolAt(l, r)
        old == ProtocolAt(l, k)
        larger(a, b) == IF a < b THEN b ELSE a
    IN  {[reader |-> larger(old.reader, now.reader), writer |-> larger(old.writer, now.writer),
          features |-> now.features],
         [old EXCEPT !.features = IF now.writer < 7 THEN {} ELSE @]}

restore(l, t, r) ==
    UNION {{[Base(t, "restore", r) EXCEPT !.target = k,
                !.adds = Active(l, k) \ Active(l, r), !.removes = Active(l, r) \ Active(l, k),
                !.metadata = MetadataAt(l, k), !.protocol = p] :
            p \in RestoredProtocols(l, r, k)} : k \in {v \in DOMAIN l : v < r}}

-----------------------------------------------------------------------------
(* Operations on metadata and protocol.                                    *)

\* From writer version 7 on, properties that are set become features.
move_table_properties_into_features(p, m) ==
    IF p.writer < 7 THEN p
    ELSE [p EXCEPT !.features = @ \cup (IF m.append_only THEN {"appendOnly"} ELSE {})
                                  \cup (IF m.allowed # Keys THEN {"checkConstraints"} ELSE {})]

append_features(p, f) ==
    [reader |-> IF f = "timestampNtz" THEN 3 ELSE p.reader, writer |-> 7,
     features |-> p.features \cup {f}]

\* A metadata change, with the new protocol unless it is the current one.
MetadataChange(l, t, r, kind, m, p) ==
    [Base(t, kind, r) EXCEPT !.metadata = [m EXCEPT !.by = t],
                             !.protocol = IF p = ProtocolAt(l, r) THEN NONE ELSE p]

set_tbl_properties(l, t, r) ==
    {LET m == [MetadataAt(l, r) EXCEPT !.append_only = b]
     IN  MetadataChange(l, t, r, "set_tbl_properties", m,
                        move_table_properties_into_features(ProtocolAt(l, r), m)) : b \in BOOLEAN}

apply_column_metadata_to_protocol(p, m) ==
    IF m.ntz THEN append_features(p, "timestampNtz") ELSE p

\* A change of the schema; the protocol follows from the new schema.
SchemaChange(l, t, r, kind, m) ==
    MetadataChange(l, t, r, kind, m, move_table_properties_into_features(
                        apply_column_metadata_to_protocol(ProtocolAt(l, r), m), m))

add_column(l, t, r) ==
    {SchemaChange(l, t, r, "add_column", [MetadataAt(l, r) EXCEPT !.ntz = @ \/ b]) : b \in BOOLEAN}

update_field_metadata(l, t, r) ==
    {SchemaChange(l, t, r, "update_field_metadata", MetadataAt(l, r))}

drop_column_not_null(l, t, r) ==
    {SchemaChange(l, t, r, "drop_column_not_null", MetadataAt(l, r))}

update_table_metadata(l, t, r) ==
    {MetadataChange(l, t, r, "update_table_metadata", MetadataAt(l, r), ProtocolAt(l, r))}

drop_constraint(l, t, r) ==
    IF MetadataAt(l, r).allowed = Keys THEN {Base(t, "drop_constraint", r)}
    ELSE {MetadataChange(l, t, r, "drop_constraint",
                         [MetadataAt(l, r) EXCEPT !.allowed = Keys], ProtocolAt(l, r))}

\* The Protocol action of ADD CONSTRAINT, which is always written.
ConstraintProtocol(p) ==
    [p EXCEPT !.writer = IF @ > 3 THEN @ ELSE 3,
              !.features = IF p.writer < 7 THEN @ ELSE @ \cup {"checkConstraints"}]

\* The rows of the snapshot are validated, then the constraint is committed.
add_constraint(l, t, r) ==
    {[Base(t, "add_constraint", r) EXCEPT
        !.metadata = [MetadataAt(l, r) EXCEPT !.by = t, !.allowed = @ \cap ok],
        !.protocol = ConstraintProtocol(ProtocolAt(l, r))] :
        ok \in {ks \in SUBSET Keys : \A x \in Content(l, r) : x[2] \in ks}}

add_feature(l, t, r) ==
    {[Base(t, "add_feature", r) EXCEPT !.protocol = append_features(ProtocolAt(l, r), f)] :
        f \in Feature}

-----------------------------------------------------------------------------
(* Creating a table.                                                       *)

CreateKinds == {"create", "create_strict", "create_ignore", "create_or_replace", "write_new"}

\* Protocol and Metadata of CreateBuilder, in front of the data of a write.
create(t, kind) ==
    LET m == [by |-> t, append_only |-> FALSE, allowed |-> Keys, ntz |-> FALSE]
        c == [Base(t, kind, NONE) EXCEPT !.metadata = m,
                 !.protocol = [reader |-> 1, writer |-> 2, features |-> {}]]
    IN  IF kind # "write_new" THEN {c}
        ELSE {[c EXCEPT !.src = ks, !.adds = {NewFile(t, 0, NewRows(t, ks))}] :
                ks \in SUBSET Keys \ {{}}}

\* CREATE OR REPLACE of an existing table removes its files.
replace_table(l, t, r) ==
    {[c EXCEPT !.read = r, !.removes = Active(l, r)] : c \in create(t, "create_or_replace")}

-----------------------------------------------------------------------------
PlanKinds ==
    {"append", "overwrite", "replace_where", "delete", "delete_all", "update", "merge",
     "merge_insert", "optimize", "filesystem_check", "restore", "set_tbl_properties",
     "add_column", "update_field_metadata", "drop_column_not_null", "update_table_metadata",
     "drop_constraint", "add_constraint", "add_feature"}

ASSUME KindsAssumption == Kinds \subseteq PlanKinds \cup CreateKinds

\* The commits operation kind k may prepare against the snapshot r.
Plans(l, t, r, k) ==
    CASE k = "append" -> append(l, t, r)
      [] k = "overwrite" -> overwrite(l, t, r)
      [] k = "replace_where" -> replace_where(l, t, r)
      [] k = "delete" -> delete(l, t, r)
      [] k = "delete_all" -> delete_all(l, t, r)
      [] k = "update" -> update(l, t, r)
      [] k = "merge" -> merge(l, t, r)
      [] k = "merge_insert" -> merge_insert(l, t, r)
      [] k = "optimize" -> optimize(l, t, r)
      [] k = "filesystem_check" -> filesystem_check(l, t, r)
      [] k = "restore" -> restore(l, t, r)
      [] k = "set_tbl_properties" -> set_tbl_properties(l, t, r)
      [] k = "add_column" -> add_column(l, t, r)
      [] k = "update_field_metadata" -> update_field_metadata(l, t, r)
      [] k = "drop_column_not_null" -> drop_column_not_null(l, t, r)
      [] k = "update_table_metadata" -> update_table_metadata(l, t, r)
      [] k = "drop_constraint" -> drop_constraint(l, t, r)
      [] k = "add_constraint" -> add_constraint(l, t, r)
      [] k = "add_feature" -> add_feature(l, t, r)

\* These operations return without a commit when they have no actions.
is_noop(c) ==
    /\ c.kind \in {"delete", "update", "merge", "merge_insert", "filesystem_check", "drop_constraint"}
    /\ c.adds = {} /\ c.removes = {} /\ c.metadata = NONE

-----------------------------------------------------------------------------
(* ProtocolChecker, for a table whose features are all supported.          *)

append_only_enabled(l, r) ==
    /\ MetadataAt(l, r).append_only
    /\ ProtocolAt(l, r).writer >= 2
    /\ ProtocolAt(l, r).writer >= 7 => "appendOnly" \in ProtocolAt(l, r).features

\* The check the operation itself makes, before it plans anything.
check_append_only(l, r, c) ==
    c.kind \in {"overwrite", "delete", "update"} => ~MetadataAt(l, r).append_only

can_commit(l, r, c) ==
    /\ c.domain # NONE => ProtocolAt(l, r).writer >= 7 /\ "domainMetadata" \in ProtocolAt(l, r).features
    /\ append_only_enabled(l, r) /\ c.kind \notin {"restore", "filesystem_check"}
          => ~(c.data_change /\ c.removes # {})
=============================================================================
