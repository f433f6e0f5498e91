----------------------------- MODULE FileLogStore -----------------------------
(***************************************************************************)
(* The log stores that keep commits as files of an object store:           *)
(*   "put"       DefaultLogStore: the commit is put if absent;             *)
(*   "rename"    S3LogStore: the commit is written to a temporary file,    *)
(*               which is renamed if the target is absent;                 *)
(*   "overwrite" DefaultLogStore over a mounted file system, whose put     *)
(*               replaces what is there;                                   *)
(*   "shim"      DefaultLogStore over an OpenDAL service without           *)
(*               conditional writes: the store looks, then it overwrites.  *)
(* A request may fail before or after it was applied, a writer may stop.   *)
(* A conditional put is not sent again by the object store itself          *)
(* (logstore/storage/retry_ext.rs), so a lost answer is an error.          *)
(* The transactions are appends: the conflict check always passes.         *)
(***************************************************************************)
EXTENDS Integers, Sequences, FiniteSets

CONSTANTS
    Ops,         \* the operations, one commit each
    Kinds,       \* the log stores the table may use
    MaxRetries,  \* retries of the commit loop
    MaxDeletes,  \* tries to delete a temporary file (15 in the code)
    MaxFaults,   \* failed requests and stops in one behaviour
    NONE

ASSUME OpsAssumption == IsFiniteSet(Ops) /\ NONE \notin Ops

VARIABLES
    kind,  \* the log store the table uses
    log,   \* the commit file of every version: who wrote it
    tmp,   \* the operations whose temporary commit file exists
    pc, latest, attempt, deletes, result, faults

vars == <<kind, log, tmp, pc, latest, attempt, deletes, result, faults>>

Versions == 1 .. Cardinality(Ops)
Written == {v \in Versions : log[v] # NONE}
LatestVersion == Cardinality(Written)

Init ==
    /\ kind \in Kinds
    /\ log = [v \in Versions |-> NONE]
    /\ tmp = {}
    /\ pc = [o \in Ops |-> "begin"]
    /\ latest = [o \in Ops |-> 0]
    /\ attempt = [o \in Ops |-> 1]
    /\ deletes = [o \in Ops |-> 0]
    /\ result = [o \in Ops |-> "none"]
    /\ faults = 0

Goto(o, l) == pc' = [pc EXCEPT ![o] = l]
Finish(o, r) == Goto(o, "done") /\ result' = [result EXCEPT ![o] = r]
Fault == faults < MaxFaults /\ faults' = faults + 1
\* The stores whose create replaces what is there.  Something outside admits one
\* writer at a time to them.
Unconditional == {"overwrite", "shim"}
Admitted(o) == kind \in Unconditional => \A p \in Ops \ {o} : pc[p] \in {"begin", "done"}
target(o) == latest[o] + 1

\* The commit is prepared: a store of temporary paths gets its file now.
write_tmp_commit(o) ==
    /\ pc[o] = "begin" /\ Admitted(o)
    /\ tmp' = IF kind = "rename" THEN tmp \cup {o} ELSE tmp
    /\ Goto(o, "list")
    /\ UNCHANGED <<log, latest, attempt, deletes, result, faults>>

\* Every turn of the loop lists the log.
get_latest_version(o) ==
    /\ pc[o] = "list"
    /\ latest' = [latest EXCEPT ![o] = LatestVersion]
    /\ Goto(o, "write")
    /\ UNCHANGED <<log, tmp, attempt, deletes, result, faults>>

\* As AlreadyExists, with a put that is not conditional.
AlreadyExists_mutant(v) == FALSE

\* Whether the store refuses to create the entry of version v.
AlreadyExists(v) == kind # "overwrite" /\ log[v] # NONE

\* VersionAlreadyExists sends the commit loop round again, with the same
\* temporary file; giving up leaves that file behind.
VersionAlreadyExists(o) ==
    /\ pc[o] = "write" /\ AlreadyExists(target(o))
    /\ attempt' = [attempt EXCEPT ![o] = @ + 1]
    /\ IF attempt[o] > MaxRetries
         THEN Finish(o, "exhausted")
         ELSE Goto(o, "list") /\ UNCHANGED result
    /\ UNCHANGED <<log, tmp, latest, deletes, faults>>

\* The shim's look found nothing; its put comes later and replaces what is there by then.
HeadNotFound(o) ==
    /\ kind = "shim" /\ pc[o] = "write" /\ ~AlreadyExists(target(o))
    /\ Goto(o, "put")
    /\ UNCHANGED <<log, tmp, latest, attempt, deletes, result, faults>>

\* write_commit_entry creates the entry.
Create(o) ==
    /\ IF kind = "shim" THEN pc[o] = "put" ELSE pc[o] = "write" /\ ~AlreadyExists(target(o))
    /\ log' = [log EXCEPT ![target(o)] = o]

WriteCommit(o) ==
    /\ Create(o)
    /\ tmp' = tmp \ {o}
    /\ Finish(o, "ok")
    /\ UNCHANGED <<latest, attempt, deletes, faults>>

\* As WriteFails, with a loop that takes the error for a lost race.
WriteFails_mutant(o) ==
    /\ pc[o] \in {"write", "put"} /\ Fault
    /\ UNCHANGED log \/ Create(o)
    /\ Goto(o, "list")
    /\ UNCHANGED <<tmp, latest, attempt, deletes, result>>

\* The request fails; the entry may have been created, and a rename may have
\* copied the temporary file without deleting it.  The loop aborts.
WriteFails(o) ==
    /\ pc[o] \in {"write", "put"} /\ Fault
    /\ UNCHANGED log \/ Create(o)
    /\ Goto(o, "abort")
    /\ UNCHANGED <<tmp, latest, attempt, deletes, result>>

\* As abort_commit_entry, for the stores that get bytes only.
abort_commit_entry_mutant(o) ==
    /\ pc[o] = "abort"
    /\ Finish(o, "error")
    /\ UNCHANGED <<log, tmp, latest, attempt, deletes, faults>>

\* abort_commit_entry deletes the temporary file, trying again when that fails.
abort_commit_entry(o) ==
    /\ pc[o] = "abort"
    /\ tmp' = tmp \ {o}
    /\ Finish(o, "error")
    /\ UNCHANGED <<log, latest, attempt, deletes, faults>>

AbortFails(o) ==
    /\ pc[o] = "abort" /\ o \in tmp /\ Fault
    /\ deletes' = [deletes EXCEPT ![o] = @ + 1]
    /\ IF deletes[o] + 1 = MaxDeletes
         THEN Finish(o, "abort_failed")
         ELSE UNCHANGED <<pc, result>>
    /\ UNCHANGED <<log, tmp, latest, attempt>>

\* The writer's process stops.
Stop(o) ==
    /\ pc[o] \notin {"begin", "done"} /\ Fault
    /\ Finish(o, "stopped")
    /\ UNCHANGED <<log, tmp, latest, attempt, deletes>>

Done == (\A o \in Ops : pc[o] = "done") /\ UNCHANGED vars

Step(o) ==
    \/ write_tmp_commit(o) \/ get_latest_version(o)
    \/ VersionAlreadyExists(o) \/ HeadNotFound(o) \/ WriteCommit(o) \/ WriteFails(o)
    \/ abort_commit_entry(o) \/ AbortFails(o) \/ Stop(o)

Next == UNCHANGED kind /\ ((\E o \in Ops : Step(o)) \/ Done)

Spec == Init /\ [][Next]_vars

-------------------------------------------------------------------------------
\* The log a client reads, and the operations whose writer was told ok.
Entries == [v \in 1 .. LatestVersion |-> log[v]]
Acked == {o \in Ops : result[o] = "ok"}

Contract == INSTANCE LogStoreContract WITH entries <- Entries, acked <- Acked

\* Files that are put if absent, renamed if absent, or overwritten by one writer at
\* a time (with or without a look first) implement the trait LogStore, under lost answers, failed requests and
\* stopped writers: what clients read grows by one whole commit at a time, no version
\* is ever rewritten, and a writer that was told ok is in the log.
ImplementsLogStore == Contract!Spec

\* A temporary commit file outlives its operation only when the operation gave
\* up on a version conflict, stopped, or could not delete it in MaxDeletes tries.
TemporaryFileRemoved ==
    \A o \in tmp : result[o] \in {"none", "exhausted", "stopped", "abort_failed"}

\* A retry of the commit loop never commits an operation a second time: a writer
\* that was not told whether its commit arrived does not write it again.
CommittedOnce == \A u, v \in Written : log[u] = log[v] => u = v
===============================================================================
