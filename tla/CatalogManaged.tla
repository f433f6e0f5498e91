---------------------------- MODULE CatalogManaged ----------------------------
(***************************************************************************)
(* Commits coordinated by Unity Catalog.  A writer stages its commit file  *)
(* under _staged_commits, asks the catalog to ratify it as the next        *)
(* version, and then publishes the catalog's tail of unpublished commits   *)
(* into the log and tells the catalog how far publication has come.  Any   *)
(* answer of the catalog may be lost, and a writer may stop anywhere.      *)
(*                                                                         *)
(* The transactions are appends, so the conflict check of the commit loop  *)
(* only reads the winning commits.  Version 0 is published already.        *)
(***************************************************************************)
EXTENDS Integers, Sequences, FiniteSets

CONSTANTS
    Ops,         \* the operations, one commit each, named by operation_id
    Stores,      \* the instances of CatalogManagedLogStore
    StoreOf,     \* the instance each operation works through
    TailLimit,   \* unpublished commits the catalog holds before it refuses more
    MaxRetries,  \* retries of the commit loop
    MaxFaults,   \* lost answers, failed requests and stops in one behaviour
    NONE

VARIABLES
    catalog,    \* the catalog: ratified commits, and how many are published
    staged,     \* staged files: the version and the operation in their name
    published,  \* the log: the operation whose bytes each version holds
    cached,     \* ResolvedTableState of each store
    pc, base, latest, winner, attempt, loaded, cursor, draining, result,
    faults

vars == <<catalog, staged, published, cached, pc, base, latest, winner,
          attempt, loaded, cursor, draining, result, faults>>
catalogVars == <<catalog, staged, published>>
loopVars == <<base, latest, winner, attempt>>

Versions == 1 .. Cardinality(Ops) * (MaxRetries + 1)

\* What a load of the table returns: its latest version, and the tail of
\* commits that are not published yet, the versions above backfilled.
ResolvedTableState == [latest |-> Len(catalog.commits),
                       backfilled |-> catalog.backfilled]

Init ==
    /\ catalog = [commits |-> << >>, backfilled |-> 0]
    /\ staged = {}
    /\ published = [v \in Versions |-> NONE]
    /\ cached = [s \in Stores |-> ResolvedTableState]
    /\ pc = [o \in Ops |-> "begin"]
    /\ base = [o \in Ops |-> 0]
    /\ latest = [o \in Ops |-> 0]
    /\ winner = [o \in Ops |-> 0]
    /\ attempt = [o \in Ops |-> 1]
    /\ loaded = [o \in Ops |-> ResolvedTableState]
    /\ cursor = [o \in Ops |-> 0]
    /\ draining = [o \in Ops |-> FALSE]
    /\ result = [o \in Ops |-> "none"]
    /\ faults = 0

Goto(o, l) == pc' = [pc EXCEPT ![o] = l]
Finish(o, r) == Goto(o, "done") /\ result' = [result EXCEPT ![o] = r]
Fault == faults < MaxFaults /\ faults' = faults + 1

\* CatalogManagedState: what is not published yet is the versions after the
\* last published one up to the latest, without a gap.
CatalogManagedState(c) == (c.backfilled + 1) .. c.latest

\* CatalogManagedCommit: the name of a staged file has its version and the
\* operation that wrote it.
CatalogManagedCommit(v, o) == [version |-> v, op |-> o]

\* As read_commit_entry, with the last commit of the tail left out.
read_commit_entry_mutant(c, v) ==
    IF v \in (c.backfilled + 1) .. (c.latest - 1) THEN catalog.commits[v] ELSE published[v]

\* The content of version v as a client with cached state c reads it: the
\* staged file when v is in the tail, the published entry otherwise.
read_commit_entry(c, v) ==
    IF v \in CatalogManagedState(c)
      THEN IF CatalogManagedCommit(v, catalog.commits[v]) \in staged
             THEN catalog.commits[v] ELSE NONE
      ELSE published[v]

\* A load answered by the catalog; what it says is applied in a later step.
Load(o, next) ==
    /\ loaded' = [loaded EXCEPT ![o] = ResolvedTableState]
    /\ Goto(o, next)
    /\ UNCHANGED <<catalogVars, cached, loopVars, cursor, draining, result, faults>>

\* As abort_commit_entry, cleaning up the staged file.
abort_commit_entry_mutant(o) == staged' = staged \ {CatalogManagedCommit(latest[o] + 1, o)}

\* abort_commit_entry leaves the staged file alone.
abort_commit_entry(o) == UNCHANGED staged

\* An error of write_commit_entry other than VersionAlreadyExists is final.
WriteError(o) == abort_commit_entry(o) /\ Finish(o, "error")

\* A load that fails ends the operation with the error.
LoadFails(o) ==
    /\ Fault
    /\ IF pc[o] = "list" THEN Finish(o, "error") /\ UNCHANGED staged ELSE WriteError(o)
    /\ UNCHANGED <<catalog, published, cached, loopVars, loaded, cursor, draining>>

\* accept_load, refresh_catalog_state: the store's state is overwritten with
\* the answer this operation got, whatever other operations stored meanwhile.
accept_load(o) == cached' = [cached EXCEPT ![StoreOf[o]] = loaded[o]]

\* The operation opens the table through its store.
Begin(o) ==
    /\ pc[o] = "begin"
    /\ base' = [base EXCEPT ![o] = Len(catalog.commits)]
    /\ cached' = [cached EXCEPT ![StoreOf[o]] = ResolvedTableState]
    /\ Goto(o, "list")
    /\ UNCHANGED <<catalogVars, latest, winner, attempt, loaded, cursor,
                   draining, result, faults>>

\* get_latest_version of the commit loop.
ListLoad(o) == pc[o] = "list" /\ (Load(o, "listed") \/ LoadFails(o))

get_latest_version(o) ==
    /\ pc[o] = "listed"
    /\ accept_load(o)
    /\ latest' = [latest EXCEPT ![o] = loaded[o].latest]
    /\ winner' = [winner EXCEPT ![o] = base[o] + 1]
    /\ Goto(o, IF loaded[o].latest > base[o] THEN "check" ELSE "write")
    /\ UNCHANGED <<catalogVars, base, attempt, loaded, cursor, draining, result, faults>>

\* One winning commit is read for the conflict check; after the last the
\* snapshot moves to the listed version.
CheckWinner(o) ==
    /\ pc[o] = "check"
    /\ IF read_commit_entry(cached[StoreOf[o]], winner[o]) = NONE
         THEN Finish(o, "unreadable") /\ UNCHANGED <<base, winner>>
         ELSE /\ winner' = [winner EXCEPT ![o] = @ + 1]
              /\ IF winner[o] = latest[o]
                   THEN base' = [base EXCEPT ![o] = latest[o]] /\ Goto(o, "write")
                   ELSE UNCHANGED <<base, pc>>
              /\ UNCHANGED result
    /\ UNCHANGED <<catalogVars, cached, latest, attempt, loaded, cursor, draining, faults>>

\* write_commit_entry refreshes first.
WriteLoad(o) == pc[o] = "write" /\ (Load(o, "refreshed") \/ LoadFails(o))

\* The answer VersionAlreadyExists sends the commit loop round again.
VersionAlreadyExists(o) ==
    /\ attempt' = [attempt EXCEPT ![o] = @ + 1]
    /\ IF attempt[o] > MaxRetries
         THEN Finish(o, "exhausted")
         ELSE Goto(o, "list") /\ UNCHANGED result
    /\ UNCHANGED <<base, latest, winner>>

WriteRefreshed(o) ==
    /\ pc[o] = "refreshed"
    /\ accept_load(o)
    /\ IF latest[o] # loaded[o].latest
         THEN VersionAlreadyExists(o)
         ELSE Goto(o, "stage") /\ UNCHANGED <<loopVars, result>>
    /\ UNCHANGED <<catalogVars, loaded, cursor, draining, faults>>

\* put_staged_commit: creating the file, or finding the one an earlier put of
\* the same bytes left whose answer was lost.
put_staged_commit(o) ==
    /\ pc[o] = "stage"
    /\ staged' = staged \cup {CatalogManagedCommit(latest[o] + 1, o)}
    /\ Goto(o, "ratify")
    /\ draining' = [draining EXCEPT ![o] = FALSE]
    /\ UNCHANGED <<catalog, published, cached, loopVars, loaded, cursor, result, faults>>

StageFails(o) ==
    /\ pc[o] = "stage" /\ Fault
    /\ WriteError(o)
    /\ UNCHANGED <<catalog, published, cached, loopVars, loaded, cursor, draining>>

\* The catalog's side of an AddCommit request.
Exhausted == Len(catalog.commits) - catalog.backfilled >= TailLimit
Accepts(v) == v = Len(catalog.commits) + 1 /\ ~Exhausted
AddCommit(o) == catalog' = [catalog EXCEPT !.commits = Append(@, o)]

\* The request is accepted and the answer arrives.
RatifyAccepted(o) ==
    /\ pc[o] = "ratify" /\ Accepts(latest[o] + 1)
    /\ AddCommit(o)
    /\ loaded' = [loaded EXCEPT ![o] = ResolvedTableState']
    /\ Goto(o, "ratified")
    /\ UNCHANGED <<staged, published, cached, loopVars, cursor, draining, result, faults>>

\* The request is refused, or its answer is lost before or after it was
\* applied: the writer reconciles, unless the tail was full for the first time.
RatifyRefused(o) ==
    /\ pc[o] = "ratify" /\ ~Accepts(latest[o] + 1)
    /\ Goto(o, IF latest[o] = Len(catalog.commits) /\ ~draining[o] THEN "drain" ELSE "reconcile")
    /\ UNCHANGED <<catalogVars, cached, loopVars, loaded, cursor, draining, result, faults>>

RatifyAnswerLost(o) ==
    /\ pc[o] = "ratify" /\ Fault
    /\ \/ Accepts(latest[o] + 1) /\ AddCommit(o)
       \/ UNCHANGED catalog
    /\ Goto(o, "reconcile")
    /\ UNCHANGED <<staged, published, cached, loopVars, loaded, cursor, draining, result>>

\* ratify, ResourceExhaustedException: refresh, publish the tail, ask again.
DrainLoad(o) == pc[o] = "drain" /\ (Load(o, "drained") \/ LoadFails(o))

\* As publish_tail, publishing the last commit of the tail only.
publish_tail_mutant(o) ==
    /\ cursor' = [cursor EXCEPT ![o] = loaded[o].latest]
    /\ Goto(o, "publish")

publish_tail(o) ==
    /\ cursor' = [cursor EXCEPT ![o] = loaded[o].backfilled + 1]
    /\ Goto(o, "publish")

Drain(o) ==
    /\ pc[o] = "drained"
    /\ accept_load(o)
    /\ draining' = [draining EXCEPT ![o] = TRUE]
    /\ IF loaded[o].latest = loaded[o].backfilled
         THEN Goto(o, "ratify") /\ UNCHANGED cursor
         ELSE publish_tail(o)
    /\ UNCHANGED <<catalogVars, loopVars, loaded, result, faults>>

\* reconcile_commit: the commit is the writer's own when the tail names its
\* file; otherwise a latest version that reaches it means another writer won.
ReconcileLoad(o) == pc[o] = "reconcile" /\ (Load(o, "reconciled") \/ LoadFails(o))

InTail(o, v) ==
    v \in CatalogManagedState(loaded[o]) /\ catalog.commits[v] = o

reconcile_commit(o) ==
    /\ pc[o] = "reconciled"
    /\ accept_load(o)
    /\ LET v == latest[o] + 1 IN
       IF InTail(o, v)
         THEN publish_tail(o) /\ draining' = [draining EXCEPT ![o] = FALSE]
              /\ UNCHANGED <<staged, loopVars, result>>
         ELSE /\ UNCHANGED <<cursor, draining>>
              /\ IF loaded[o].latest >= v
                   THEN VersionAlreadyExists(o) /\ UNCHANGED staged
                   ELSE WriteError(o) /\ UNCHANGED loopVars
    /\ UNCHANGED <<catalog, published, loaded, faults>>

\* The ratified commit is accepted; its tail holds at least that commit.
Ratified(o) ==
    /\ pc[o] = "ratified"
    /\ accept_load(o)
    /\ publish_tail(o)
    /\ draining' = [draining EXCEPT ![o] = FALSE]
    /\ UNCHANGED <<catalogVars, loopVars, loaded, result, faults>>

\* publish_tail copies one staged file into the log unless it is there.
Publish(o) ==
    LET v == cursor[o] IN
    /\ pc[o] = "publish"
    /\ published' = [published EXCEPT ![v] = IF @ = NONE THEN catalog.commits[v] ELSE @]
    /\ cursor' = [cursor EXCEPT ![o] = v + 1]
    /\ Goto(o, IF v = loaded[o].latest THEN "backfill" ELSE "publish")
    /\ UNCHANGED <<catalog, staged, cached, loopVars, loaded, draining, result, faults>>

\* SetLatestBackfilledVersion, and the answer's state; then the request that
\* found the tail full is sent again, or the writer is told that it committed.
Published(o) ==
    IF draining[o] THEN Goto(o, "ratify") /\ UNCHANGED result ELSE Finish(o, "ok")

SetLatestBackfilledVersion(o) ==
    catalog' = [catalog EXCEPT !.backfilled = IF loaded[o].latest > @ THEN loaded[o].latest ELSE @]

Backfill(o) ==
    /\ pc[o] = "backfill"
    /\ SetLatestBackfilledVersion(o)
    /\ loaded' = [loaded EXCEPT ![o] = ResolvedTableState']
    /\ Goto(o, "backfilled")
    /\ UNCHANGED <<staged, published, cached, loopVars, cursor, draining, result, faults>>

Backfilled(o) ==
    /\ pc[o] = "backfilled"
    /\ accept_load(o)
    /\ Published(o)
    /\ UNCHANGED <<catalogVars, loopVars, loaded, cursor, draining, faults>>

\* A failing publication is an error while draining and only logged after the
\* commit was ratified.
PublishFails(o) ==
    /\ pc[o] \in {"publish", "backfill"} /\ Fault
    /\ IF draining[o] THEN WriteError(o)
                      ELSE UNCHANGED staged /\ Finish(o, "ok")
    /\ UNCHANGED <<catalog, published, cached, loopVars, loaded, cursor, draining>>

\* The writer's process stops.
Stop(o) ==
    /\ pc[o] \notin {"begin", "done"} /\ Fault
    /\ Finish(o, "stopped")
    /\ UNCHANGED <<catalogVars, cached, loopVars, loaded, cursor, draining>>

Step(o) ==
    \/ Begin(o) \/ ListLoad(o) \/ get_latest_version(o) \/ CheckWinner(o)
    \/ WriteLoad(o) \/ WriteRefreshed(o) \/ put_staged_commit(o)
    \/ RatifyAccepted(o) \/ RatifyRefused(o) \/ DrainLoad(o) \/ Drain(o)
    \/ ReconcileLoad(o) \/ reconcile_commit(o) \/ Ratified(o)
    \/ Publish(o) \/ Backfill(o) \/ Backfilled(o)

Faults(o) == StageFails(o) \/ RatifyAnswerLost(o) \/ PublishFails(o) \/ Stop(o)

Done == (\A o \in Ops : pc[o] = "done") /\ UNCHANGED vars

Next == (\E o \in Ops : Step(o) \/ Faults(o)) \/ Done

Spec == Init /\ [][Next]_vars

-------------------------------------------------------------------------------
\* The log a client that loads the table now reads.
Entries == [v \in 1 .. Len(catalog.commits) |-> read_commit_entry(ResolvedTableState, v)]

\* The state a store has cached stays good for reading: every version it lists
\* is read as the commit the catalog ratified, from the staged file or from the
\* log, however long ago it was loaded and whoever published since.
CachedStateReadable ==
    \A s \in Stores : \A v \in 1 .. cached[s].latest :
        read_commit_entry(cached[s], v) = catalog.commits[v]

\* Racing publishers write only what the catalog ratified, and leave no hole:
\* the log is always a prefix of the ratified commits, at least as long as the
\* catalog believes.
PublishedPrefix ==
    /\ \A v \in Versions : published[v] # NONE =>
          /\ v <= Len(catalog.commits) /\ published[v] = catalog.commits[v]
          /\ \A u \in 1 .. v : published[u] # NONE
    /\ \A v \in 1 .. catalog.backfilled : published[v] # NONE

\* A commit that get_latest_version listed can be read by the conflict check
\* that follows.
ListedIsReadable == \A o \in Ops : result[o] # "unreadable"

\* write_commit_entry "can be retried with a higher version" when it answers
\* VersionAlreadyExists: retrying never commits an operation a second time.
CommittedOnce ==
    \A u, v \in DOMAIN catalog.commits : catalog.commits[u] = catalog.commits[v] => u = v
===============================================================================
