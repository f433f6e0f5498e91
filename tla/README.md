# delta-rs: a TLA+ model of the table, its commits and what surrounds them

delta-rs lets any number of processes change one Delta table without a lock. What keeps
the table correct is optimistic concurrency: an operation reads a snapshot, plans its
actions, and commits them as the next version of the log if nothing that won in the
meantime conflicts. This project models that protocol, the log stores under it, the
maintenance of log and files beside it, what the operations do to rows, and the services
around them. Small instances are model-checked with TLC; the guarantees of the commit
protocol, serializability among them, and of the log stores made of files are proved with
TLAPS for every number of writers, operations, retries and versions.

Paths below are relative to `src/crates/`.

## The system

| Part | Where | State | Operations |
|---|---|---|---|
| Table state, transaction log | `core/src/kernel/models/actions.rs`, `core/src/kernel/snapshot/` | one JSON file of actions per version; files, metadata and protocol follow from replaying them | replay up to a version, load, update, travel in time |
| Conflict checker, commit loop | `core/src/kernel/transaction/` | attempt number, read snapshot, latest version | initial write, list, check, put-if-absent, retry, abort, post-commit hook |
| Operations on data | `core/src/operations/{write,merge}/`, `delete.rs`, `update.rs`, `optimize.rs`, `restore.rs`, `filesystem_check.rs` | a plan: files to add and to remove, the predicate that was read | plan, write files, commit |
| Operations on metadata | `core/src/operations/*.rs` | new Metadata and Protocol | validate, commit |
| Log stores | `core/src/logstore/`, `mount/`, `aws/`, `lakefs/`, `catalog-unity/` | the objects under `_delta_log`; a branch (lakeFS); staged commits (catalog) | put a commit, list versions, abort |
| Checkpoints, log cleanup | `core/src/protocol/checkpoints.rs` | checkpoint files, the oldest readable version | write, delete expired |
| Vacuum | `core/src/operations/vacuum.rs` | data files on disk, tombstones | delete what no retained version refers to |
| Scans and change feeds | `core/src/delta_datafusion/`, `core/src/operations/load_cdf.rs` | plans, deletion vector masks, statistics | prune, push down, read, mask |
| Writers | `core/src/writer/`, `core/src/operations/write/` | buffers, channels, uploads | divide, flush, close |
| Catalogs, stores, sessions | `catalog-unity/`, `aws/`, `azure/`, `gcp/`, `opendal/`, `core/src/logstore/` | tokens, caches, registries | authenticate, list, open, register |
| Python bindings | `../python/` | one table behind a mutex per handle; files and streams | lock, clone, work, store back |

How they interact: an operation builder loads or is given a snapshot (possibly an old one),
plans its actions, and hands them to `CommitBuilder`. The protocol checker looks at them
once. The commit loop then alternates between the log store (list, read a winning commit,
put) and the conflict checker, and other processes may commit between any two of those
calls. After the commit a hook may write a checkpoint and delete expired log files. What a
commit refers to, data files and deletion vectors, is deleted by VACUUM without a lock.

What is hard here, and what the properties are about (`PROJECT.json` lists the hazards with
their lines):

* several versions win between the snapshot and the write, and the snapshot moves forward
  on every retry while the planned actions stay what they were;
* checks that are made once against a snapshot (append-only, constraints, protocol) and
  relied on at a later version;
* a put, a merge or a ratification may fail and still have landed, and a cleanup or a
  vacuum may be cut short or overtaken between its plan and its deletions;
* rows go through joins, masks and channels in an order nobody controls, and statistics,
  partition values and predicates through text forms that have to mean the same to whoever
  reads them;
* values are cached (files, tokens, credentials, catalog answers) while what they describe
  changes.

## Modules

### Commits

| Module | Models | State and actions |
|---|---|---|
| `DeltaTable` | actions, the log, replay; `conflict_checker.rs` | `Commit` is a version's operation and actions; a log maps versions to commits; `Active`, `MetadataAt`, `ProtocolAt`, `Content` are the state of a version. One operator per check method, TRUE when the method returns its error; `check_conflicts` is their disjunction in the code's order |
| `Operations` | `operations/`, `protocol.rs` | one planner per operation: the set of commits that some choice of its parameters produces from snapshot `r`; `CommitProperties` are the application id and domain that any of them may carry (`with_commit_properties`); `can_commit`, `check_append_only`; `Validated` is the validation in front of the writers |
| `CommitProtocol` | `transaction/mod.rs` | `log` and, per invocation, `pc, tx, snap, latest, winner, attempt, bins, made, result`; one action per call to the object store; the properties of the log |
| `SerialTable` | documentation of `IsolationLevel` | abstract specification: a history of operations executed one at a time |
| `PlanProofs`, `CommitProofs`, `RowProofs`, `SerialProofs` | - | what the planners deliver; the inductive invariant on versions; the one on rows; the theorems that follow from both |

The actions of `CommitProtocol` follow the code:

| Action | Code |
|---|---|
| `Begin`, `BeginOptimize` | the operation's `into_future` up to `CommitBuilder::build`, then the checks of `into_prepared_commit_future` |
| `BeginCreate`, `BeginCreateExisting` | `CreateBuilder::into_future` on an absent and on an existing table |
| `WriteInitial`, `Reload` | version 0 without a snapshot; a create that lost the race loads the latest snapshot and enters the loop at attempt 2 |
| `List` | `get_latest_version`; straight to the write when nothing won, an error when no retries are allowed |
| `CheckWinner` | `WinningCommitSummary::try_new` and `check_conflicts` for one winning version; after the last one the snapshot is updated |
| `WriteCommit` | `write_commit_entry`; `VersionAlreadyExists` starts the next attempt; success ends the invocation or, for OPTIMIZE, plans the next bin |
| `WriteFails`, `ReadFails` | any other error of the store; a failed write may have landed |

Abstractions. A row is its writer and a key; a predicate is a set of keys; a file is its
writer, the number of the commit it was written for, and its rows. Files are taken to match
a predicate when they hold a matching row: the code prunes by statistics and may see more
conflicts, never fewer. Metadata keeps the properties that gate writes (append-only, the
keys a constraint allows, a column type that needs a feature), the protocol its versions
and four features. `has_non_file_actions` is TRUE because every commit carries a
`CommitInfo`, so the level is never downgraded. One invocation writes at most one file per
commit, and OPTIMIZE with a commit interval has two bins: two are enough for the second one
to be committed on a snapshot its plan has not seen. The rows an operation writes, the
rescued ones included, are validated against the constraints of its snapshot except in
DELETE and OPTIMIZE, whose rows are all old.

### Log stores

`LogStoreContract` is what the trait `LogStore` promises: `entries`, the log as clients
read it, grows by one whole commit at a time, and who was told "ok" is in it. The stores
are shown to implement it, each under the same commit loop, whose transactions are appends
(so that the conflict check always passes and every conflict is one of versions).

| Module | Models | State and actions |
|---|---|---|
| `FileLogStore` (proofs in `FileStoreProofs`) | `DefaultLogStore`, `S3LogStore`, the OpenDAL shim, stores over a mounted file system | `log`, `tmp`: the objects; `kind` says whether a commit is put if absent, renamed, or overwrites |
| `LakeFS` | `lakefs/src/` | `main` and `branch`: what the table's branch and each transaction branch hold; requests that create, commit, merge and delete branches, in `pre_execute`, `write_commit_entry`, the hook and `post_execute` |
| `CatalogManaged` | `catalog-unity/src/catalog_managed.rs` | `catalog` (ratified commits, how far they are published), `staged` and `published` files, each store's `cached` state; stage, ratify, reconcile, drain, publish, report |

### Maintenance

| Module | Models | State and actions |
|---|---|---|
| `LogRetention` | `checkpoints.rs`, the post-commit hook | `log`: the time of each file of `_delta_log`; `hint`; commits, checkpoints, the hint and the deletions of `cleanup_expired_logs_for`, one call to the store at a time, beside an engine that writes checkpoints in parts |
| `Vacuum` | `vacuum.rs`, `restore.rs`, `filesystem_check.rs` | `disk`, the versions, a clock; writers that write files before they commit, VACUUM from a handle of any version, its plan in each mode, its deletions one by one, RESTORE and FSCK |

### Rows

| Module | Models | State and actions |
|---|---|---|
| `Merge` | `operations/merge/` | the early filter (`try_construct_early_filter`): the caller's, none, or one made of the predicate and the source rows; then the joined rows still to come (`input`), the barrier's `buffer` and `open` files, the rows written; one joined row per step in any order, then the drain and the commit |
| `RowRewrite` | `delete.rs`, `update.rs`, `find_files.rs`, `cdc.rs` | a table before and after one statement, with three-valued predicates, change rows and metrics |
| `WritePlan` | `write/`, `create.rs`, `constraints.rs`, `add_column.rs`, schema casts | a table through a sequence of writes in every save and schema mode |
| `OptimizePlan` | `optimize.rs` | bins, the tasks that rewrite them and their commits |
| `ChangeFeed` | `load_cdf.rs`, `cdf/` | a log of appends, marks, rewrites, compactions and restores, with files of one or several row groups; `Read` computes the feed, or one of the answers a wrapped row count leaves possible |
| `DeltaScan`, `ScanPushdown` | `table_provider/next/` | the plan of a scan, its streams and the shared masks; the filters and projections the optimizer pushes into it |
| `DataSkipping` | `writer/stats.rs`, `scan_row.rs`, `stats_projection.rs`, `log_data.rs` | one file from its row groups to the decision to skip it |
| `ColumnMapping` | `column_mapping.rs`, `engine_ext.rs`, `stats_projection.rs` | schemas whose columns are renamed, dropped and added between writes; statistics by physical name |
| `PredicateText` | `expr.rs`, `to_kernel.rs`, `to_datafusion.rs`, `constraints.rs` | expressions, their SQL text and their kernel form; constraints and DELETE predicates that are parsed back |
| `PartitionValues` | `scalars.rs`, `partitions.rs`, `convert_to_delta.rs`, `generate.rs` | values, their text in logs and directories, filters over them, manifests |

### Services

| Module | Models | State and actions |
|---|---|---|
| `FileViews` | `iterators.rs`, `scan_row.rs`, `restore.rs` | the log of this library and of another engine; the views read from it and the actions made of them |
| `LogEntries` | `transaction/mod.rs`, `blind.rs` | the commitInfo of each version; builders that retry and blind writers that do not |
| `ProtocolFeatures` | `actions.rs`, `protocol.rs`, the metadata operations | versions and feature lists, the snapshots clients plan from |
| `TableProvider` | `table_provider.rs`, `data_sink.rs`, `next/mod.rs` | providers on a version of a table; encode, decode, scan, INSERT |
| `WriteStreams`, `BufferedWriter` | `write/execution.rs`, `write/writer.rs`; `writer/` | tasks, channels, uploads, joins, and aborts that take effect when a task next waits (`Cancel`); buffers by partition, flush, commits whose answer is lost, reset |
| `BatchStream` | `snapshot/stream.rs`, `../python/src/{writer,datafusion}.rs` | a blocking task, its channel and its reader; a stream of batches from Python, which can be read once, and the executions that ask for it |
| `Snapshots` | `snapshot/mod.rs`, `serde.rs`, `table/mod.rs` | a handle, its cache of files, its serialized form; other processes commit, checkpoint and clean up |
| `UnityClient`, `CatalogTable` | `catalog-unity/` | the credential the settings give, the cached token and its lock, pages, cached tables and credentials; a managed table in the catalog and in storage |
| `StoreConfig`, `SessionStores` | `logstore/`, `aws/`, `azure/`, `gcp/`, `opendal/`, `scoped_object_store.rs` | factories, options and credentials; the stores of a session |
| `PythonTable`, `PythonFiles` | `../python/src/`, `../python/deltalake/` | threads, the interpreter lock and the mutex of a handle; directories, buffered uploads and range reads |

Data is abstracted to what the properties tell apart: columns to a handful of names, rows
to numbers, paths to a file and the way it is encoded, options to the few that decide
something. Code outside this repository (delta_kernel, DataFusion, object stores, lakeFS and
Unity servers) is modelled from how it is used here and is marked external in the map.

## Runs

TLC runs a specification per question. `changes`, `stores`, `rows` and `services` each put
several small instances side by side: a variable, `about` or `store`, is chosen in `Init`
and never changes, the instance it names takes all steps, and the variables of the others
stay `NONE`. The instances do not interact; the modules that compose parts which do interact
are `CommitProtocol` (planners, checker, loop, log), the log stores (each with the commit
loop), `LogRetention` and `Vacuum` (each with its writers). A property of such a run is the
conjunction of what its instances promise; the MC module lists which.

| Run | Shows |
|---|---|
| `serial` | at Serializable, the log of predicated writes, merges, optimizes and restores is a serial execution in version order (`SerialHistory`, refinement of `SerialTable`); a commit removes only active files; no row is ever in two files; RESTORE yields exactly the restored version |
| `create` | with failing store calls and application ids on any commit, racing creates, appends, deletes, optimizes and changes of properties and constraints: success means exactly one entry in the log, a conflict or exhausted retries none; no metadata, constraint or append-only setting changes under a commit; no application loses an update; every started invocation returns |
| `changes` | commits racing creates and replacements of the table and changes of properties, constraints, features and schemas respect what the table they land on says; OPTIMIZE in several commits is never stopped by appends, unless they share its application id or domain, and no update of a domain is lost (`PlansStillHold`); at WriteSerializable a commit is serial up to the blind appends it did not read; cleanups of the log, finished, cut short or racing, leave every retained version readable (`RetainedReadable`) |
| `stores` | every log store implements `LogStoreContract`, with lost answers, failing requests and stopped writers; no retry commits twice; no temporary file, branch or unreadable version is left where the store promises otherwise |
| `rows` | each statement, write, optimize, feed and scan yields exactly the rows a reference definition gives, in every order of its parts; nothing that matches is pruned; text forms and physical names mean what they stand for; VACUUM spares active, retained and kept files, RESTORE and FSCK commit what they promise |
| `services` | around the commit path: what is written is complete or an error is reported, caches describe what they are used for, credentials belong to the location they are used at, handles and streams never block for good |

A definition whose name ends in `_mutant` is the one it is named after with a plausible bug;
no specification uses it. Put in its place it makes TLC find a violation: `PROJECT.json`
names one for each property of a run, the others break further conjuncts of one.

Six runs end in a violation; each is a place where the code and its documentation differ:

| Run | Finding |
|---|---|
| `unpredicated` | DELETE and overwrite without a predicate do not check files added concurrently: rows of an append they never saw survive a statement that removes every row |
| `append_only_feature` | ADD FEATURE makes a table append-only without touching its metadata, and a higher writer version is no conflict: a MERGE that was planned before still removes files |
| `vacuum_vectors` | a full VACUUM deletes the deletion vector of an active file once it is older than the retention |
| `insert_unchecked` | INSERT INTO through a registered table commits rows that violate a CHECK constraint |
| `constraint_text` | the text under which ADD CONSTRAINT stores a constraint can say something else than the constraint |
| `foreign_paths` | a Remove built from the view of a file whose path another engine encoded differently does not cancel its Add |

### Bounds

* `serial`, `create`, `changes`: three invocations, each started at any time on any
  snapshot, so that up to two versions win between the snapshot and the write of the third.
  A key in the seed and one that is absent from it let predicates hit, miss and overlap.
  `MaxRetries` is 2 (1 in `create`), which two rivals can exhaust. For what is proved the
  bounds do not matter; the runs confirm the statements before they are proved.
  In `changes` a log of two processes has three versions and one of a single process four,
  with a checkpoint every second one (or every one, beside an engine that writes them in
  parts) and a retention of one tick of two, so that versions are young, expired and
  protected by a checkpoint.
* `stores`: three operations (two where the catalog loses answers), `MaxFaults` up to 3, one
  or two retries, a tail of one or two unpublished commits: enough for an operation to be
  overtaken twice, and to reconcile a commit that others have published.
* `rows`: two files of two or three rows, two partitions; for pure functions (filters, texts,
  statistics) all inputs of a bounded size. VACUUM runs beside two or three writers with up
  to four ticks of the clock; a writer takes at most `MaxDuration`.
* `services`: two threads, tasks, clients or writers, channels of one batch, buffers of two
  bytes, one or two failures. `MCServices` and `MCRows` name each instance's bounds.

Invocations, operations and processes that are interchangeable are symmetric in `serial`,
`changes` and `stores`, which check no liveness.

Deadlock is checked in `serial`, `create`, `changes` and `stores`, where a terminal state has
a step of its own (`Quiescent`, `Done`, `Returned`). The other runs say `CHECK_DEADLOCK FALSE`: their
instances stop when the bounded number of statements, commits or ticks is used up. Where a
blocked process is the hazard, `NeverBlocked` excludes it as an invariant.

### Fairness

`WF_vars(Step(t))` for each invocation of `CommitProtocol`, because a future that was awaited
is polled until it is ready and every call to the store returns. Nothing forces a caller to
start an operation or a call to fail. Only `EveryCommitEnds` depends on it.

## What the code does not guarantee

Some properties that the code or its documentation states do not hold, or hold only under a
condition, which is then part of the property or of the instance that is run.

| Module | Not guaranteed |
|---|---|
| `CommitProtocol` | a create that loses version 0 has no snapshot and lands after the winner unchecked: with one application id or domain both commit (`NoLostUpdate` is about commits with a snapshot), though `conflict_checker.rs` says that a writer of a domain must recompute from the winning state. ADD CONSTRAINT validates a snapshot and declares no read, so an append that wins first leaves violating rows. The writer versions of two protocols are compared the wrong way round. Of two creates in mode ErrorIfExists that race, both can succeed. With a commit interval, the second bin of OPTIMIZE may remove a file that another OPTIMIZE has removed |
| `CatalogManaged` | a commit may be made twice when an answer is lost and another writer publishes the tail before it is reconciled; a listed version may be unreadable when two operations on one store cache their answers in the other order |
| `LakeFS` | the hook's branch stays when its merge fails; UPDATE (`Updates`) never calls `post_execute` |
| `LogRetention` | the version in force at the cutoff may be gone; retained versions beside a checkpoint of which only the first part is written (`CompletePartsReadable` excludes it), or for a writer slower than the retention (`Prompt`) |
| `Vacuum` | active files with deletion vectors in full mode (run `vacuum_vectors`); active files of later versions, in full mode from a snapshot that is older than the retention (`TooOld`); a RESTORE of files a VACUUM has planned to delete; exact RESTORE and FSCK of files with deletion vectors |
| `Merge` | duplicate matches without a WHEN MATCHED clause write a row twice; a list with an item that cannot be generalized loses it, so that for `target.x IN (source.y + 1, 5)` the filter is `target.x IN (5)`, and a row that matches the other item is not updated but inserted again (`LosesItem`); a source column by itself in a list makes the MERGE fail; what a filter of the caller's leaves out is the caller's affair |
| `ProtocolFeatures` | a column with `timestampNtz` inside a map does not get the feature, though the documentation of the check speaks of nested fields (`ColumnsWritable` excepts it) |
| `ChangeFeed` | files with a deletion vector that are added or removed as a whole (`VectorDrops`); files of several row groups that are read through a deletion vector: the count of rows before a marked one wraps (`Underflows`), the read fails where overflow is checked and otherwise yields any of the file's rows (`wrapped`) |
| `DeltaScan`, `ScanPushdown` | a plan that is executed twice (`MaxExecutions`), a file split over two streams, vectors that outlive their table property (`Disables`), row filters below masks |
| `WritePlan`, `BufferedWriter` | mode "ignore" appends to a table that exists; a JsonWriter that recovers from a failed write loses rows it has accepted; `flush_and_commit` can fail after its commit has landed, and a caller that sends the rows again has them twice |
| `WriteStreams` | after an error, `write_streams_parallel` returns while its tasks, which are aborted, run on until they next wait; so does the writer of change data in a write with a change feed (`NothingLeftAlone` is that whatever runs on was aborted) |
| `CatalogTable` | a later commit may drop properties the catalog requires (`RequiredAsCreated` is about the table as it was created) |
| `ColumnMapping`, `PartitionValues`, `PredicateText` | listed statistics columns after an excluded one are dropped; negative decimals as partition values; float literals against integer columns are rounded |
| `LogEntries`, `Snapshots`, `PythonTable` | in-commit timestamps behind a winning commit; time travel among equal timestamps; the versions of a history taken while the log grows; `to_pyarrow_dataset` checks the protocol of one snapshot and lists the files of a later one when another thread updates the handle in between |
| `SessionStores` | sibling tables in a session of the caller's, which has one store per origin |

## Proofs

Everything below is proved for every set of writers, keys, application ids and domains,
every bound on retries and every mix of operations, with failing store calls. The
assumptions are those the modules name: `NONE` is no value of the types it is added to, the
seed's writer is none of the invocations, the operations are among the ones modelled, the
seed's protocol and keys are well typed. What a theorem assumes beyond that is in its
statement.

| Module | Theorem | Statement |
|---|---|---|
| `CommitProofs` | `Invariant` | `Spec => []IInv` |
| | `TypeCorrect` | `Spec => []TypeOK` |
| | `MetadataIsStable` | `Spec => []MetadataStable` |
| | `NoUpdateIsLost` | `Spec => []NoLostUpdate`, about every commit that was planned on a snapshot |
| | `RemovedFilesAreLive` | `Spec => []RemovesAreLive`, unless OPTIMIZE has a commit interval |
| `RowProofs` | `RowInvariant` | `Spec => [](IInv /\ RowInv)` |
| `SerialProofs` | `RestoreIsExact` | `Spec => []RestoreExact` |
| | `OutcomesAreHonest` | `Spec => []OutcomeHonest` |
| | `ConstraintsHold` | `Spec => []WritesRespectConstraints` |
| | `AppendOnlyTables` | `Spec => []AppendOnlyRespected`, without ADD FEATURE |
| | `RowsAreNotDuplicated` | `Spec => []NoDuplicateRows`, unless OPTIMIZE has a commit interval |
| | `SerializableHistory` | `Spec => SerialHistory`, at Serializable, for `SerialKinds`, without a commit interval |
| | `BlindAppendsApart` | `Spec => []SerialButForBlindAppends`, above SnapshotIsolation, for `SerialKinds`, without a commit interval |
| `FileStoreProofs` | `Invariant` | `Spec => []Inv` |
| | `NothingCommittedTwice` | `Spec => []CommittedOnce` |
| | `NoTemporaryFileLeft` | `Spec => []TemporaryFileRemoved` |
| | `FilesImplementLogStore` | `Spec => ImplementsLogStore` |

### The commit protocol

None of the properties is inductive. They speak of commits in the log, and what makes them
true is what happened while a commit was in flight. `IInv` adds that:

* the log has no gaps and its first version sets metadata and protocol (`WellFormed`), so a
  free version found by put-if-absent is above all others, and the metadata in force exists;
* a commit in the retry loop was planned on a version of the log (`Planned`) and is
  compatible with every version after that one up to `snap[t]` (`CheckedBelow`), across all
  its retries;
* while the conflict checker runs, the same holds up to `winner[t]` (`WinnersOK`);
* once written, a commit keeps what it had (`LogOK`), because later puts leave older
  versions and their active files alone (`PutKeeps`, `ActiveOfOlder`).

`RemovedFilesAreLive` needs its assumption: with a commit interval the property fails, as
described above.

`RowInv` adds what the commits mean. `PlanProofs` shows of each planner that its commit is
well formed and removes only files of the snapshot (`PlanOK`), whatever properties the
caller adds (`PropertiesPlan`, `PropertiesRows`), and which rows leave and enter the table: `Sourced` says where every row of an added file comes from, `Exact` that the
rows are those of the operation's definition on its snapshot. `CommitRows` keeps that for
commits in flight and in the log; `Owned` relates an invocation to what it has in the log, so
that no row and no file has two writers; `RowsKnown` and `OwnCommits` order the commits of one
OPTIMIZE. From it:

* `RestoreExact`: a RESTORE has no retries, so it is written right after the snapshot it
  compared with;
* `WritesRespectConstraints`, `AppendOnlyRespected`: what was validated on the snapshot holds
  where the commit lands, because `CheckedBelow` excludes a change of metadata in between. A
  change of the protocol alone is not excluded, hence the assumption on ADD FEATURE; the run
  `append_only_feature` shows that it is needed;
* `NoDuplicateRows`, together with `RowInv` as an inductive invariant: the files a commit
  removes are active when it lands (`RemovesAreLive`), and the rows it adds are either theirs
  or carry the name of an invocation that is not in the table yet;
* `SerialHistory`: for each step, the version that is appended is a step of `SerialTable` on
  the content before it. The snapshot's content and the one before the commit differ only by
  rows that the operation's declared predicate does not match and by files it did not
  remove, so that executing it on either has the same effect. The operations left out
  (`SerialKinds`) declare no read: unpredicated overwrites and deletes (run `unpredicated`),
  FSCK and creates;
* `SerialButForBlindAppends`: at WriteSerializable the checker lets a commit pass over blind
  appends it would have read, so the argument for `SerialHistory` is made for the rows those
  appends did not write. It needs two more invariants: a commit in flight that is marked as a
  blind append is one (`MarkInv`), and every row stems from a version at or below the one
  that added its file (`Traced`). The second gives that a file the operation did not see and
  whose rows it matches holds rows of those appends only, and that its snapshot holds none
  of them (`Apart`).

Each proof module sets the provers' order and a limit of a minute per step at its head
(`USE`); a step that only the other prover proves names it.

### The log stores made of files

`Inv` relates the objects, the listing an operation has seen and its place in the loop: one
operation per version, no gaps, an operation that still retries has committed nothing, and in
a store that overwrites, the version to be written is free because its only writer has
listed. Under it every step of `FileLogStore` is a step of `LogStoreContract` or leaves its
variables alone.

### Only model-checked

* Liveness (`EveryCommitEnds`), which the prover does not reach.
* `PlansStillHold` and `RetainedReadable`, checked in `changes`.
* The lakeFS and catalog-managed stores, and everything in `rows` and `services`. Most of it
  is about recursive functions over data, for which the provers have no induction.

## Not modelled

* Log compaction: one call of delta_kernel and one put of a file that readers may ignore.
* Parquet and Arrow encoding, casts beyond the types that decide a property, and the kernel
  engine over DataFusion: the models take their result, which rows end up in which file.
* The z-order keys, which decide only the order of rows in a file.
* Replay of the log over Arrow batches, which is delta_kernel's; the models define its result.
* HTTP clients with their retries and back-off, and the Glue catalog.
* The conversion of schemas and expressions between Python, Arrow and Delta.
* Physical expression adapters and the planner extensions that only pass calls on; sorting
  and spilling, which are DataFusion's.
* Metrics, tracing, progress and display code.

## Plan

1. Proofs: the refinement of `LogStoreContract` by `CatalogManaged`; `PublishedPrefix`;
   `RetainedReadable`; `PlansStillHold`.
2. Liveness of `WriteStreams`, `BatchStream` and `CatalogManaged` under weak fairness of
   their tasks.
