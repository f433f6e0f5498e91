-------------------------------- MODULE LakeFS --------------------------------
(***************************************************************************)
(* Commits to a table on a lakeFS branch.  Every operation works on a      *)
(* transaction branch of its own, writes its commit file there and merges  *)
(* the branch into the table's branch; the post-commit hook opens a second *)
(* branch for its checkpoint and merges that.  Requests to the lakeFS      *)
(* server may fail before or after they were applied.                      *)
(*                                                                         *)
(* The transactions are appends: the conflict check always passes.         *)
(***************************************************************************)
EXTENDS Integers, Sequences, FiniteSets

CONSTANTS
    Ops,         \* the operations, one commit each
    Updates,     \* those among them that are UPDATE
    Interval,    \* delta.checkpointInterval
    MaxRetries,  \* retries of the commit loop
    MaxFaults,   \* failed requests in one behaviour
    Creator,     \* who wrote version 0
    NONE

VARIABLES
    main,      \* the objects of the table's branch
    branch,    \* the transaction branches: base, committed and uncommitted objects
    pc, snapshot, latest, attempt, result, faults

vars == <<main, branch, pc, snapshot, latest, attempt, result, faults>>

Versions == 0 .. Cardinality(Ops)
Log(v) == <<"log", v>>
Checkpoint(v) == <<"checkpoint", v>>
Hint == <<"_last_checkpoint">>
Paths == {Log(v) : v \in Versions} \cup {Checkpoint(v) : v \in Versions} \cup {Hint}

\* The branch an operation writes its data and its commit to, and the one of
\* its post-commit hook, which draws an operation id of its own.
Own(o) == <<o, "transaction">>
Hook(o) == <<o, "hook">>
Branches == {Own(o) : o \in Ops} \cup {Hook(o) : o \in Ops}

LatestVersion == CHOOSE v \in Versions : main[Log(v)] # NONE /\
                     \A u \in Versions : main[Log(u)] # NONE => u <= v

Init ==
    /\ main = [p \in Paths |-> IF p = Log(0) THEN Creator ELSE NONE]
    /\ branch = [b \in Branches |-> NONE]
    /\ pc = [o \in Ops |-> "begin"]
    /\ snapshot = [o \in Ops |-> 0]
    /\ latest = [o \in Ops |-> 0]
    /\ attempt = [o \in Ops |-> 1]
    /\ result = [o \in Ops |-> "none"]
    /\ faults = 0

Goto(o, l) == pc' = [pc EXCEPT ![o] = l]
Finish(o, r) == Goto(o, "done") /\ result' = [result EXCEPT ![o] = r]
Fault == faults < MaxFaults /\ faults' = faults + 1
target(o) == latest[o] + 1

-------------------------------------------------------------------------------
\* Requests to the lakeFS server.
create_branch(b) == branch' = [branch EXCEPT ![b] = [base |-> main, head |-> main, work |-> main]]
delete_branch(b) == branch' = [branch EXCEPT ![b] = NONE]
put(b, p, c) == branch' = [branch EXCEPT ![b].work[p] = c]
commit(b) == branch' = [branch EXCEPT ![b].head = branch[b].work]

has_changes(b) == branch[b].head # main

\* A merge takes the objects the branch changed since it was created, and
\* conflicts when the table's branch changed one of them otherwise.
Changed(b) == {p \in Paths : branch[b].head[p] # branch[b].base[p]}
Conflicts(b) ==
    \E p \in Changed(b) : main[p] # branch[b].base[p] /\ main[p] # branch[b].head[p]
merge(b) ==
    main' = [p \in Paths |-> IF p \in Changed(b) THEN branch[b].head[p] ELSE main[p]]

-------------------------------------------------------------------------------
\* The operation resolves its snapshot, and then pre_execute makes the branch.
Begin(o) ==
    /\ pc[o] = "begin"
    /\ snapshot' = [snapshot EXCEPT ![o] = LatestVersion]
    /\ Goto(o, "pre_execute")
    /\ UNCHANGED <<main, branch, latest, attempt, result, faults>>

pre_execute(o) ==
    /\ pc[o] = "pre_execute"
    /\ create_branch(Own(o))
    /\ Goto(o, "list")
    /\ UNCHANGED <<main, snapshot, latest, attempt, result, faults>>

\* One turn of the commit loop: the log is listed on the table's branch, and
\* after the conflict check the snapshot moves there.
get_latest_version(o) ==
    /\ pc[o] = "list"
    /\ latest' = [latest EXCEPT ![o] = LatestVersion]
    /\ snapshot' = [snapshot EXCEPT ![o] = LatestVersion]
    /\ Goto(o, "put")
    /\ UNCHANGED <<main, branch, attempt, result, faults>>

\* write_commit_entry: put on the transaction branch, commit, merge.
VersionAlreadyExists(o) ==
    /\ attempt' = [attempt EXCEPT ![o] = @ + 1]
    /\ IF attempt[o] > MaxRetries
         THEN Finish(o, "exhausted")
         ELSE Goto(o, "list") /\ UNCHANGED result

WritePut(o) ==
    /\ pc[o] = "put"
    /\ IF branch[Own(o)].work[Log(target(o))] # NONE
         THEN VersionAlreadyExists(o) /\ UNCHANGED branch
         ELSE /\ put(Own(o), Log(target(o)), o)
              /\ Goto(o, "commit")
              /\ UNCHANGED <<attempt, result>>
    /\ UNCHANGED <<main, snapshot, latest, faults>>

WriteCommit(o) ==
    /\ pc[o] = "commit"
    /\ commit(Own(o))
    /\ Goto(o, "merge")
    /\ UNCHANGED <<main, snapshot, latest, attempt, result, faults>>

WriteMerge(o) ==
    /\ pc[o] = "merge"
    /\ IF Conflicts(Own(o))
         THEN UNCHANGED main /\ Goto(o, "conflict")
         ELSE merge(Own(o)) /\ Goto(o, "before_hook")
    /\ UNCHANGED <<branch, snapshot, latest, attempt, result, faults>>

\* As WriteConflict, leaving the commit file on the branch.
WriteConflict_mutant(o) ==
    /\ pc[o] = "conflict"
    /\ VersionAlreadyExists(o)
    /\ UNCHANGED <<main, branch, snapshot, latest, faults>>

\* CONFLICT: the commit file is deleted from the branch before the retry.
WriteConflict(o) ==
    /\ pc[o] = "conflict"
    /\ put(Own(o), Log(target(o)), NONE)
    /\ VersionAlreadyExists(o)
    /\ UNCHANGED <<main, snapshot, latest, faults>>

\* abort_commit_entry deletes the transaction branch.
abort_commit_entry(o) == delete_branch(Own(o))

\* As WriteFails, retrying after the error.
WriteFails_mutant(o) ==
    /\ pc[o] = "merge" /\ Fault
    /\ ~Conflicts(Own(o)) /\ merge(Own(o))
    /\ VersionAlreadyExists(o)
    /\ UNCHANGED <<branch, snapshot, latest>>

\* A request of write_commit_entry fails; a merge may have been applied.  The
\* commit loop aborts and does not retry.
WriteFails(o) ==
    /\ pc[o] \in {"put", "commit", "merge", "conflict"} /\ Fault
    /\ \/ UNCHANGED main
       \/ pc[o] = "merge" /\ ~Conflicts(Own(o)) /\ merge(Own(o))
    /\ abort_commit_entry(o)
    /\ Finish(o, "error")
    /\ UNCHANGED <<snapshot, latest, attempt>>

-------------------------------------------------------------------------------
\* before_post_commit_hook makes the second branch.
before_post_commit_hook(o) ==
    /\ pc[o] = "before_hook"
    /\ create_branch(Hook(o))
    /\ Goto(o, "checkpoint")
    /\ UNCHANGED <<main, snapshot, latest, attempt, result, faults>>

\* As CreateCheckpoint, writing the hint at every version.
CreateCheckpoint_mutant(o) ==
    /\ pc[o] = "checkpoint"
    /\ put(Hook(o), Hint, target(o))
    /\ Goto(o, "hook_commit")
    /\ UNCHANGED <<main, snapshot, latest, attempt, result, faults>>

\* create_checkpoint: the checkpoint and the hint that names it, in the branch.
CreateCheckpoint(o) ==
    /\ pc[o] = "checkpoint"
    /\ IF (target(o) + 1) % Interval = 0
         THEN branch' = [branch EXCEPT ![Hook(o)].work[Checkpoint(target(o))] = target(o),
                                       ![Hook(o)].work[Hint] = target(o)]
         ELSE UNCHANGED branch
    /\ Goto(o, "hook_commit")
    /\ UNCHANGED <<main, snapshot, latest, attempt, result, faults>>

\* after_post_commit_hook, commit_merge: commit, merge what differs, delete
\* the branch.  A conflict is an error of the whole operation.
HookCommit(o) ==
    /\ pc[o] = "hook_commit"
    /\ commit(Hook(o))
    /\ Goto(o, "hook_merge")
    /\ UNCHANGED <<main, snapshot, latest, attempt, result, faults>>

HookMerge(o) ==
    /\ pc[o] = "hook_merge"
    /\ IF has_changes(Hook(o)) /\ Conflicts(Hook(o))
         THEN Finish(o, "error") /\ UNCHANGED main
         ELSE merge(Hook(o)) /\ Goto(o, "hook_delete") /\ UNCHANGED result
    /\ UNCHANGED <<branch, snapshot, latest, attempt, faults>>

\* As HookDelete, forgetting the branch without deleting it.
HookDelete_mutant(o) ==
    /\ pc[o] = "hook_delete"
    /\ Goto(o, "post_execute")
    /\ UNCHANGED <<main, branch, snapshot, latest, attempt, result, faults>>

HookDelete(o) ==
    /\ pc[o] = "hook_delete"
    /\ delete_branch(Hook(o))
    /\ Goto(o, "post_execute")
    /\ UNCHANGED <<main, snapshot, latest, attempt, result, faults>>

\* post_execute deletes the transaction branch; UPDATE does not call it.
post_execute(o) ==
    /\ pc[o] = "post_execute"
    /\ IF o \in Updates THEN UNCHANGED branch ELSE delete_branch(Own(o))
    /\ Finish(o, "ok")
    /\ UNCHANGED <<main, snapshot, latest, attempt, faults>>

\* A request outside write_commit_entry fails, applied or not.
RequestFails(o) ==
    /\ Fault
    /\ \/ pc[o] = "pre_execute" /\ (create_branch(Own(o)) \/ UNCHANGED branch) /\ UNCHANGED main
       \/ pc[o] = "before_hook" /\ (create_branch(Hook(o)) \/ UNCHANGED branch) /\ UNCHANGED main
       \/ pc[o] \in {"checkpoint", "hook_commit"} /\ UNCHANGED <<main, branch>>
       \/ pc[o] = "hook_merge" /\ UNCHANGED <<main, branch>>
       \/ pc[o] = "hook_merge" /\ ~Conflicts(Hook(o)) /\ merge(Hook(o)) /\ UNCHANGED branch
       \/ pc[o] = "hook_delete" /\ UNCHANGED <<main, branch>>
       \/ pc[o] = "post_execute" /\ o \notin Updates /\ UNCHANGED <<main, branch>>
    /\ Finish(o, "error")
    /\ UNCHANGED <<snapshot, latest, attempt>>

Step(o) ==
    \/ Begin(o) \/ pre_execute(o) \/ get_latest_version(o)
    \/ WritePut(o) \/ WriteCommit(o) \/ WriteMerge(o) \/ WriteConflict(o)
    \/ before_post_commit_hook(o) \/ CreateCheckpoint(o)
    \/ HookCommit(o) \/ HookMerge(o) \/ HookDelete(o) \/ post_execute(o)

Done == (\A o \in Ops : pc[o] = "done") /\ UNCHANGED vars

Next == (\E o \in Ops : Step(o) \/ WriteFails(o) \/ RequestFails(o)) \/ Done

Spec == Init /\ [][Next]_vars

-------------------------------------------------------------------------------
\* The log a client reads: versions 1, 2, ... of the table's branch, up to the
\* first that is missing.
Merged == {v \in Versions \ {0} : \A u \in 1 .. v : main[Log(u)] # NONE}
Entries == [v \in 1 .. Cardinality(Merged) |-> main[Log(v)]]

\* A merge conflict is reported as VersionAlreadyExists: another operation must
\* have created that version, whatever earlier attempts left on the branch.
ConflictMeansTaken ==
    \A o \in Ops : pc[o] = "conflict" => main[Log(target(o))] \in Ops \ {o}

\* _last_checkpoint and its checkpoint arrive in one merge: the hint of the
\* table's branch always names a checkpoint that is there, of a version in the log.
HintHasCheckpoint ==
    main[Hint] # NONE => main[Checkpoint(main[Hint])] # NONE /\ main[Log(main[Hint])] # NONE

\* Only an operation that "fails midway" leaves a transaction branch behind.
SuccessDeletesBranches ==
    \A o \in Ops : result[o] = "ok" => branch[Own(o)] = NONE /\ branch[Hook(o)] = NONE

-----------------------------------------------------------------------------
(* What the code or its documentation says and the code does not deliver.  *)

===============================================================================
