----------------------------- MODULE MCLogStores -----------------------------
(***************************************************************************)
(* Every log store under the same commit loop.  store says which one the   *)
(* table of a behaviour uses; the others stay as they are without a table. *)
(***************************************************************************)
EXTENDS FileLogStore, TLC

CONSTANTS
    Pair,     \* two operations, where more faults are allowed
    Shared,   \* a store several operations work through
    Creator

VARIABLES
    store,
    at, seen, tries, outcome, failures,                \* the commit loop, for
    main, branch, snapshot,                            \* LakeFS and
    catalog, staged, published, cached, base, winner,  \* CatalogManaged
    loaded, cursor, draining

loop == <<at, seen, tries, outcome, failures>>
lake == <<main, branch, snapshot>>
managed == <<catalog, staged, published, cached, base, winner, loaded, cursor, draining>>

Lake == INSTANCE LakeFS WITH
    pc <- at, latest <- seen, attempt <- tries, result <- outcome, faults <- failures,
    Updates <- {}, Interval <- 2, MaxRetries <- 1, MaxFaults <- 1
\* Operations of one client share its store; those of several have their own.
Client == INSTANCE CatalogManaged WITH
    pc <- at, latest <- seen, attempt <- tries, result <- outcome, faults <- failures,
    Stores <- {Shared}, StoreOf <- [o \in Ops |-> Shared],
    TailLimit <- 2, MaxRetries <- 1, MaxFaults <- 0
Faulty == INSTANCE CatalogManaged WITH
    pc <- at, latest <- seen, attempt <- tries, result <- outcome, faults <- failures,
    Ops <- Pair, Stores <- {Shared}, StoreOf <- [o \in Pair |-> Shared],
    TailLimit <- 1, MaxRetries <- 1, MaxFaults <- 2
Clients == INSTANCE CatalogManaged WITH
    pc <- at, latest <- seen, attempt <- tries, result <- outcome, faults <- failures,
    Stores <- Ops, StoreOf <- [o \in Ops |-> o],
    TailLimit <- 2, MaxRetries <- 1, MaxFaults <- 0

\* A table that uses another store has no file of this one, and conversely.
NoFile == Init /\ kind = "put"
NoLoop == at = NONE /\ seen = NONE /\ tries = NONE /\ outcome = NONE /\ failures = NONE
NoLake == main = NONE /\ branch = NONE /\ snapshot = NONE
NoManaged ==
    /\ catalog = NONE /\ staged = NONE /\ published = NONE /\ cached = NONE /\ base = NONE
    /\ winner = NONE /\ loaded = NONE /\ cursor = NONE /\ draining = NONE

StoresInit ==
    \/ store = "file" /\ Init /\ NoLoop /\ NoLake /\ NoManaged
    \/ store = "lake" /\ Lake!Init /\ NoFile /\ NoManaged
    \/ store = "client" /\ Client!Init /\ NoFile /\ NoLake
    \/ store = "faulty" /\ Faulty!Init /\ NoFile /\ NoLake
    \/ store = "clients" /\ Clients!Init /\ NoFile /\ NoLake

StoresNext ==
    /\ UNCHANGED store
    /\ \/ store = "file" /\ Next /\ UNCHANGED <<loop, lake, managed>>
       \/ store = "lake" /\ Lake!Next /\ UNCHANGED <<vars, managed>>
       \/ store = "client" /\ Client!Next /\ UNCHANGED <<vars, lake>>
       \/ store = "faulty" /\ Faulty!Next /\ UNCHANGED <<vars, lake>>
       \/ store = "clients" /\ Clients!Next /\ UNCHANGED <<vars, lake>>

StoresSpec == StoresInit /\ [][StoresNext]_<<store, vars, loop, lake, managed>>

\* The three operations are interchangeable, and so are the two.
Symmetric == Permutations(Ops) \cup Permutations(Pair)

-----------------------------------------------------------------------------
\* The log as clients read it, through a store that is not one of files, and the
\* operations whose writer was told ok.
EntriesOf ==
    CASE store = "file" -> << >>
      [] store = "lake" -> Lake!Entries
      [] store = "client" -> Client!Entries
      [] store = "faulty" -> Faulty!Entries
      [] store = "clients" -> Clients!Entries
AckedOf == IF store = "file" THEN {} ELSE {o \in DOMAIN outcome : outcome[o] = "ok"}

ContractOf == INSTANCE LogStoreContract WITH
    Ops <- Ops \cup Pair, entries <- EntriesOf, acked <- AckedOf

\* Merges of lakeFS transaction branches, and commits that are staged, ratified by
\* the catalog and published, implement the trait LogStore, as files do: what clients
\* read grows by one whole commit at a time, no version is ever rewritten, and a
\* writer that was told ok is in the log.
BranchesAndCatalogsImplement == ContractOf!Spec

\* What the stores promise beyond the trait.  Those that rename: a temporary commit
\* outlives its writer only after a last version conflict, a crash, or failed
\* deletions.  abort_commit_entry of lakeFS and of
\* managed tables: a retry never commits an operation a second time (when answers of
\* the catalog are lost, reconcile_commit does not guarantee it).  lakeFS: a merge
\* that conflicts is told as a version that exists, and then another operation
\* created it; the hint names a checkpoint that is there; a success leaves no
\* transaction branch.  Managed tables: what is published is a prefix of what the
\* catalog ratified and reaches what it was told of; every version of a cached state
\* is read as the commit that was ratified, and a version that was listed is readable.
StoresKeepPromises ==
    /\ store = "file" => TemporaryFileRemoved
    /\ store \in {"lake", "clients"} =>
         \A u, v \in DOMAIN EntriesOf : EntriesOf[u] = EntriesOf[v] => u = v
    /\ store = "lake" => /\ Lake!ConflictMeansTaken
                         /\ Lake!HintHasCheckpoint
                         /\ Lake!SuccessDeletesBranches
    /\ store = "client" => Client!PublishedPrefix /\ Client!CachedStateReadable
    /\ store = "faulty" => Faulty!PublishedPrefix /\ Faulty!CachedStateReadable
    /\ store = "clients" => /\ Clients!PublishedPrefix
                            /\ Clients!CachedStateReadable
                            /\ Clients!ListedIsReadable
=============================================================================
