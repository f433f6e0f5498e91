-------------------------- MODULE ProtocolFeatures --------------------------
(***************************************************************************)
(* The protocol action of a table: its versions and feature lists, as the  *)
(* operations that create a table, set properties, add features,           *)
(* constraints and columns, or change fields compute them                  *)
(* (kernel/models/actions.rs), and as the protocol checker and the change  *)
(* data feed read them (kernel/transaction/protocol.rs,                    *)
(* operations/cdc.rs).  Several clients plan from the snapshots they       *)
(* loaded; a plan that the conflict checker accepts is committed on top of *)
(* what others committed in the meantime.                                  *)
(***************************************************************************)
EXTENDS Integers, FiniteSets

CONSTANTS
    Clients,
    Configurations,   \* maps from a property name to its value, to create with or to set
    Features,         \* the features that ADD FEATURE is asked for
    Schemas,          \* sets of column types and column metadata
    MaxVersion,       \* bound on the table version
    NONE

VARIABLES
    version,    \* the table's latest version
    protocol,   \* [reader, writer, rf, wf], rf and wf are NONE or a set
    conf,       \* Metadata::configuration
    schema,     \* what the columns hold
    winners,    \* per version: did the commit carry metadata, a protocol
    snapshot,   \* per client: the version and the table it loaded
    last        \* the operation of the last commit and the version it planned from

pfvars == <<version, protocol, conf, schema, winners, snapshot, last>>

-----------------------------------------------------------------------------
(* The feature lists.                                                      *)

Listed(features) == IF features = NONE THEN {} ELSE features

\* Both raise the version as soon as there is a feature to list.
append_reader_features(p, new) ==
    IF new = {} THEN p ELSE [p EXCEPT !.reader = 3, !.rf = Listed(@) \cup new]

append_writer_features(p, new) ==
    IF new = {} THEN p ELSE [p EXCEPT !.writer = 7, !.wf = Listed(@) \cup new]

Value(c, key) == IF key \in DOMAIN c THEN c[key] ELSE NONE

True(c, key) == Value(c, key) = "true"

Constraints(c) == DOMAIN c \cap {"constraint"}

\* Mutant: the lists are started, the properties are not converted.
move_table_properties_into_features_mutant(p, c) ==
    [p EXCEPT !.rf = IF p.reader >= 3 /\ @ = NONE THEN {} ELSE @,
              !.wf = IF p.writer >= 7 /\ @ = NONE THEN {} ELSE @]

\* The value v2 of the checkpoint policy is not a Boolean, so it never passes
\* the filter in front of the writer features.
move_table_properties_into_features(p, c) ==
    LET writer == {f \in {"changeDataFeed", "appendOnly", "deletionVectors"} : True(c, f)}
                  \cup {"checkConstraints" : k \in Constraints(c)}
        reader == {f \in {"deletionVectors"} : True(c, f)}
                  \cup {f \in {"v2Checkpoint"} : Value(c, f) = "v2"}
    IN  [p EXCEPT !.wf = IF p.writer >= 7 THEN Listed(@) \cup writer ELSE @,
                  !.rf = IF p.reader >= 3 THEN Listed(@) \cup reader ELSE @]

-----------------------------------------------------------------------------
(* The columns.                                                            *)

\* matches_datatype looks into arrays and structs and not into maps.
contains_timestampntz(s) == s \cap {"timestampNtz", "array of timestampNtz"} # {}

contains_variant(s) == s \cap {"variantType", "map to variantType"} # {}

enable(p, feature) == append_writer_features(append_reader_features(p, {feature}), {feature})

enable_generated_columns(p) ==
    LET raised == [p EXCEPT !.writer = IF @ < 4 THEN 4 ELSE @]
    IN  IF raised.writer >= 7 THEN append_writer_features(raised, {"generatedColumns"}) ELSE raised

enable_invariants(p) ==
    IF p.writer >= 7 THEN append_writer_features(p, {"invariants"}) ELSE p

\* Mutant: what a reader has to know is listed, what a writer has to know is not.
apply_column_metadata_to_protocol_mutant(p, s) ==
    IF contains_timestampntz(s) THEN append_reader_features(p, {"timestampNtz"}) ELSE p

apply_column_metadata_to_protocol(p, s) ==
    LET ntz       == IF contains_timestampntz(s) THEN enable(p, "timestampNtz") ELSE p
        variant   == IF contains_variant(s) THEN enable(ntz, "variantType") ELSE ntz
        generated == IF "generated" \in s THEN enable_generated_columns(variant) ELSE variant
    IN  IF "invariant" \in s THEN enable_invariants(generated) ELSE generated

-----------------------------------------------------------------------------
(* The properties.                                                         *)

\* TableProperty::from_str: the keys this library knows.
Known(key) == key \notin {"constraint", "unknown"}

Versions == [v \in {"1", "2", "3", "7"} |->
                CASE v = "1" -> 1 [] v = "2" -> 2 [] v = "3" -> 3 [] v = "7" -> 7]

\* A value of the right form for its key.
Parses(c, key) ==
    CASE key = "minReaderVersion" -> c[key] \in {"1", "2", "3"}
      [] key = "minWriterVersion" -> c[key] \in {"2", "3", "7"}
      [] key \in {"changeDataFeed", "deletionVectors"} -> c[key] \in {"true", "false"}
      [] OTHER -> TRUE

\* A plan that is refused is NONE.  Versions are only ever raised.
Raise(old, c, key) ==
    IF key \in DOMAIN c /\ Versions[c[key]] > old THEN Versions[c[key]] ELSE old

apply_properties_to_protocol(p, c, raise_if_not_exists) ==
    IF \/ raise_if_not_exists /\ \E key \in DOMAIN c : ~Known(key)
       \/ \E key \in DOMAIN c : ~Parses(c, key)
    THEN NONE
    ELSE LET raised == [p EXCEPT !.reader = Raise(@, c, "minReaderVersion"),
                                 !.writer = Raise(@, c, "minWriterVersion")]
             fed    == IF ~True(c, "changeDataFeed") THEN raised
                       ELSE IF raised.writer >= 7
                       THEN [raised EXCEPT !.wf = Listed(@) \cup {"changeDataFeed"}]
                       ELSE [raised EXCEPT !.writer = IF @ <= 3 THEN 4 ELSE @]
         IN  IF True(c, "deletionVectors") THEN enable(fed, "deletionVectors") ELSE fed

\* TableFeatures::to_reader_writer_features
WriterOnly == {"appendOnly", "invariants", "checkConstraints", "changeDataFeed",
               "generatedColumns", "domainMetadata"}

to_reader_writer_features(names) == [rf |-> names \ WriterOnly, wf |-> names]

-----------------------------------------------------------------------------
(* The planners.  A plan is [conf, schema, protocol], with NONE for what   *)
(* is not part of the commit.  t is the snapshot.                          *)

Changed(t, p) == IF p = t.protocol THEN NONE ELSE p

\* Metadata::add_config_key for each key of c.
Configured(old, c) == [key \in DOMAIN old \cup DOMAIN c |-> IF key \in DOMAIN c THEN c[key] ELSE old[key]]

plan_set_table_properties_actions(t, c, raise_if_not_exists) ==
    LET applied == apply_properties_to_protocol(t.protocol, c, raise_if_not_exists)
        merged  == Configured(t.conf, c)
    IN  IF applied = NONE THEN NONE
        ELSE [conf |-> merged, schema |-> t.schema,
              protocol |-> Changed(t, move_table_properties_into_features(applied, merged))]

\* The versions are raised only when the caller allows it.
plan_add_table_feature_actions(t, names, allow) ==
    LET new == to_reader_writer_features(names)
        p   == t.protocol
    IN  IF ~allow /\ (p.writer < 7 \/ (new.rf # {} /\ p.reader < 3))
        THEN NONE
        ELSE [conf |-> NONE, schema |-> NONE,
              protocol |-> append_writer_features(append_reader_features(p, new.rf), new.wf)]

\* ADD COLUMNS, DROP NOT NULL, a change of field metadata and a write that
\* merges or overwrites the schema: each computes the new schema s and then
\* the protocol that its columns and the table's properties call for.
plan_schema_change(t, s) ==
    [conf |-> t.conf, schema |-> s,
     protocol |-> Changed(t, move_table_properties_into_features(
                                 apply_column_metadata_to_protocol(t.protocol, s), t.conf))]

\* New columns cannot be generated columns.
plan_add_column_actions(t, s) ==
    IF "generated" \in s THEN NONE ELSE plan_schema_change(t, t.schema \cup s)

\* A write with schema mode overwrite replaces the schema.
schema_delta_for_prepared_source(t, s) == IF s = t.schema THEN NONE ELSE plan_schema_change(t, s)

\* Mutant: the feature is listed whatever the writer version is.
plan_add_constraint_mutant(t) ==
    [conf |-> Configured(t.conf, [key \in {"constraint"} |-> "expr"]), schema |-> t.schema,
     protocol |-> [t.protocol EXCEPT !.writer = IF @ > 3 THEN @ ELSE 3,
                                     !.wf = Listed(@) \cup {"checkConstraints"}]]

\* ConstraintBuilder: the rows have been validated.
plan_add_constraint(t) ==
    [conf |-> Configured(t.conf, [key \in {"constraint"} |-> "expr"]), schema |-> t.schema,
     protocol |-> [t.protocol EXCEPT !.writer = IF @ > 3 THEN @ ELSE 3,
                                     !.wf = IF t.protocol.writer >= 7 /\ @ # NONE
                                            THEN @ \cup {"checkConstraints"} ELSE @]]

\* A constraint that does not exist: an error, or no commit at all.
plan_drop_constraint_actions(t) ==
    IF Constraints(t.conf) = {} THEN NONE
    ELSE [conf |-> [key \in DOMAIN t.conf \ {"constraint"} |-> t.conf[key]],
          schema |-> t.schema, protocol |-> NONE]

-----------------------------------------------------------------------------
(* The protocol checker and the change data feed.                          *)

can_write_to_protocol(p) ==
    /\ p.reader = 3 => Listed(p.rf) \subseteq {"timestampNtz", "deletionVectors", "variantType",
                                               "v2Checkpoint"}
    /\ p.writer = 7 => Listed(p.wf) \subseteq {"appendOnly", "timestampNtz", "variantType",
            "v2Checkpoint", "domainMetadata", "changeDataFeed", "invariants", "checkConstraints",
            "generatedColumns", "deletionVectors"}

\* ProtocolChecker::can_commit
append_only_enabled(p, c) ==
    /\ p.writer >= 7 => "appendOnly" \in Listed(p.wf)
    /\ True(c, "appendOnly")

should_write_cdc(p, c) ==
    /\ p.wf # NONE /\ p.writer = 7 => "changeDataFeed" \in p.wf
    /\ True(c, "changeDataFeed")

\* The protocol checker's rule for data of a type that needs a feature.
check_can_write_feature(p, feature) == p.writer >= 7 /\ feature \in Listed(p.wf)

-----------------------------------------------------------------------------

Table == [version |-> version, protocol |-> protocol, conf |-> conf, schema |-> schema]

DefaultProtocol == [reader |-> 1, writer |-> 2, rf |-> NONE, wf |-> NONE]

\* CreateBuilder::into_table_and_actions
Create(c, s) ==
    LET applied == apply_properties_to_protocol(DefaultProtocol, c, FALSE)
    IN  /\ applied # NONE
        /\ protocol = move_table_properties_into_features(
                          apply_column_metadata_to_protocol(applied, s), c)
        /\ conf = c /\ schema = s

Init ==
    /\ \E c \in Configurations, s \in Schemas : Create(c, s)
    /\ version = 0
    /\ winners = [v \in {0} |-> [metadata |-> TRUE, protocol |-> protocol]]
    /\ snapshot = [x \in Clients |-> NONE]
    /\ last = NONE

\* resolve_snapshot
Load(x) ==
    /\ snapshot' = [snapshot EXCEPT ![x] = Table]
    /\ snapshot' # snapshot
    /\ UNCHANGED <<version, protocol, conf, schema, winners, last>>

\* Mutant: a change of the protocol is taken for compatible.
Conflicts_mutant(t, plan) == \E v \in t.version + 1 .. version : winners[v].metadata

\* ConflictChecker::check_protocol_compatibility, check_no_metadata_updates.
Conflicts(t, plan) ==
    \E v \in t.version + 1 .. version :
        \/ winners[v].metadata
        \/ /\ winners[v].protocol # NONE
           /\ \/ plan.protocol # NONE
              \/ t.protocol.reader < winners[v].protocol.reader
              \/ winners[v].protocol.writer < t.protocol.writer

\* Plan from the snapshot and commit; a plan that is refused or that
\* conflicts leaves the table as it is.
Commit(x, op, plan) ==
    /\ version < MaxVersion
    /\ plan # NONE
    /\ can_write_to_protocol(snapshot[x].protocol)
    /\ ~Conflicts(snapshot[x], plan)
    /\ version' = version + 1
    /\ protocol' = IF plan.protocol = NONE THEN protocol ELSE plan.protocol
    /\ conf' = IF plan.conf = NONE THEN conf ELSE plan.conf
    /\ schema' = IF plan.schema = NONE THEN schema ELSE plan.schema
    /\ winners' = [v \in 0 .. version + 1 |->
                      IF v <= version THEN winners[v]
                      ELSE [metadata |-> plan.conf # NONE, protocol |-> plan.protocol]]
    /\ snapshot' = [snapshot EXCEPT ![x] = Table']
    /\ last' = [op |-> op, from |-> snapshot[x].version]

SetProperties(x) ==
    \E c \in Configurations, raise \in BOOLEAN :
        Commit(x, "set", plan_set_table_properties_actions(snapshot[x], c, raise))

AddFeature(x) ==
    \E names \in SUBSET Features \ {{}}, allow \in BOOLEAN :
        Commit(x, "feature", plan_add_table_feature_actions(snapshot[x], names, allow))

AddConstraint(x) == Commit(x, "constraint", plan_add_constraint(snapshot[x]))

DropConstraint(x) == Commit(x, "drop", plan_drop_constraint_actions(snapshot[x]))

AddColumns(x) ==
    \E s \in Schemas : Commit(x, "schema", plan_add_column_actions(snapshot[x], s))

\* Neither changes what this module keeps of a field.
ChangeField(x) == Commit(x, "schema", plan_schema_change(snapshot[x], snapshot[x].schema))

WriteSchema(x) == \E s \in Schemas : Commit(x, "schema", schema_delta_for_prepared_source(snapshot[x], s))

Next ==
    \E x \in Clients :
        \/ Load(x)
        \/ /\ snapshot[x] # NONE
           /\ \/ SetProperties(x) \/ AddFeature(x) \/ AddConstraint(x) \/ DropConstraint(x)
              \/ AddColumns(x) \/ ChangeField(x) \/ WriteSchema(x)

Spec == Init /\ [][Next]_pfvars

-----------------------------------------------------------------------------

\* Whatever operations several clients commit from the snapshots they hold,
\* protocol versions never fall and a feature once listed stays listed: no
\* client is ever let back in that does not know what the table uses.
SupportNeverShrinks ==
    /\ protocol.reader <= protocol'.reader
    /\ protocol.writer <= protocol'.writer
    /\ Listed(protocol.rf) \subseteq Listed(protocol'.rf)
    /\ Listed(protocol.wf) \subseteq Listed(protocol'.wf)

\* A feature list exists exactly at the version that has feature lists, so
\* the protocol checker never falls back to the features of an old version.
ListsMatchVersions ==
    /\ protocol.wf # NONE <=> protocol.writer = 7
    /\ protocol.rf # NONE <=> protocol.reader = 3

\* An operation that sets properties or changes the schema, planned from the
\* version before it, leaves every property the table has switched on in
\* effect under the protocol it commits: the change data feed is written,
\* rows are not removed from an append-only table, deletion vectors are known
\* to readers and writers.
SwitchedOnIsInEffect ==
    /\ last' # last /\ last'.from = version /\ last'.op \in {"set", "schema"}
    => /\ True(conf', "changeDataFeed") => should_write_cdc(protocol', conf')
       /\ True(conf', "appendOnly") => append_only_enabled(protocol', conf')
       /\ True(conf', "deletionVectors") =>
              "deletionVectors" \in Listed(protocol'.rf) \cap Listed(protocol'.wf)

\* The columns that hold data of the type a feature is for, nested or not.
Holding(feature) ==
    IF feature = "timestampNtz" THEN {"timestampNtz", "array of timestampNtz", "map of timestampNtz"}
    ELSE {"variantType", "map to variantType"}

\* Data of every column the schema was ever given may be written: a type
\* that needs a feature, in a field, an array or a map, has it listed for
\* readers and for writers.  Except for timestamps without time zone in a
\* map, for which the feature is neither listed nor asked for: the comment on
\* contains_timestampntz has it look into "any field including nested fields".
ColumnsWritable ==
    \A feature \in {"timestampNtz", "variantType"} :
        schema \cap (Holding(feature) \ {"map of timestampNtz"}) # {} =>
            check_can_write_feature(protocol, feature) /\ feature \in Listed(protocol.rf)
=============================================================================
