---------------------------- MODULE PythonTable ----------------------------
(***************************************************************************)
(* The Python handle on a table: RawDeltaTable keeps one DeltaTable behind *)
(* a mutex, and every Python thread that shares the handle calls methods   *)
(* that lock it, clone its state, work without the lock and put a state    *)
(* back.  A method is the sequence of its steps on three things: the       *)
(* interpreter lock (py.detach releases it, the return takes it again),    *)
(* the mutex and the table state.  Storage options, commit properties and  *)
(* writer properties travel through a method unchanged and are left out.   *)
(*                                                                         *)
(* Of a version of the table, log[v] is whether its commit has a           *)
(* commitInfo; versions count from 1.                                      *)
(***************************************************************************)
EXTENDS Integers, Sequences, FiniteSets, SequencesExt

CONSTANTS
    Threads,     \* Python threads that share the handle
    Methods,     \* the methods they call
    NONE,
    Limits,      \* limits passed to history
    MaxVersion,  \* bound: commits in the log
    MaxCalls     \* bound: calls per thread

VARIABLES
    log,      \* the commits of the table: whether each has a commitInfo
    state,    \* RawDeltaTable._table.state: the loaded version, or NONE
    mutex,    \* the thread that holds RawDeltaTable._table
    gil,      \* the thread that runs in the interpreter
    th,       \* the call of each thread
    calls     \* calls each thread has started

pvars == <<log, state, mutex, gil, th, calls>>

Idle == [todo |-> << >>, busy |-> FALSE, snap |-> NONE, table |-> NONE, result |-> NONE,
         version |-> NONE, commits |-> << >>, fresh |-> FALSE, builder |-> "none"]

Init ==
    /\ log \in {<<b, TRUE>> : b \in BOOLEAN}
    /\ state = Len(log)
    /\ mutex = NONE
    /\ gil = NONE
    /\ th = [t \in Threads |-> Idle]
    /\ calls = [t \in Threads |-> 0]

-----------------------------------------------------------------------------
(* What a method does, step by step.  Detached(p) is py.detach around p;   *)
(* between two calls of a Python method the interpreter may switch.        *)

Detached(p) == <<"detach">> \o p \o <<"attach">>
Switch == Detached(<< >>)

(* Methods that clone the table, run an operation on the clone outside the *)
(* lock and put its state back; "commit" commits or fails, "maybe" may     *)
(* also find nothing to do.                                                *)
vacuum == Detached(<<"clone", "maybe">>) \o <<"set_state">>
update == Detached(<<"clone", "maybe">>) \o <<"set_state">>
compact_optimize == Detached(<<"clone", "check", "maybe">>) \o <<"set_state">>
z_order_optimize == Detached(<<"clone", "check", "maybe">>) \o <<"set_state">>
delete == Detached(<<"clone", "maybe">>) \o <<"set_state">>
add_columns == Detached(<<"clone", "commit">>) \o <<"set_state">>
add_feature == Detached(<<"clone", "commit">>) \o <<"set_state">>
add_constraints == Detached(<<"clone", "commit">>) \o <<"set_state">>
drop_constraints == Detached(<<"clone", "maybe">>) \o <<"set_state">>
drop_column_not_null == Detached(<<"clone", "commit">>) \o <<"set_state">>
set_column_metadata == Detached(<<"clone", "commit">>) \o <<"set_state">>
write == Detached(<<"clone_option", "check", "maybe">>) \o <<"set_state">>

(* The same without giving the interpreter up.                             *)
restore == <<"clone", "check", "maybe", "set_state">>
set_table_properties == <<"clone", "commit", "set_state">>
set_table_name == <<"clone", "commit", "set_state">>
set_table_description == <<"clone", "commit", "set_state">>
repair == <<"clone", "maybe", "set_state">>

(* A merge keeps the snapshot of its creation until it is executed.        *)
create_merge_builder == Detached(<<"clone", "builder">>)
merge_execute == <<"detach", "take", "commit", "set_state", "attach">>

(* Methods that change the table in place and hold the mutex meanwhile.    *)
load_version_mutant == <<"detach", "lock", "load", "attach", "unlock">>
load_version == Detached(<<"lock", "load", "unlock">>)
load_with_datetime == <<"check">> \o Detached(<<"lock", "load", "unlock">>)
update_incremental == Detached(<<"lock", "refresh", "unlock">>)
cleanup_metadata == Detached(<<"lock", "cleanup", "unlock">>) \o <<"set_some">>

(* Readers.                                                                *)
create_checkpoint == Detached(<<"lock", "read", "unlock">>)
compact_logs == Detached(<<"lock", "read", "unlock">>)
get_latest_version == Detached(<<"lock", "read", "unlock">>)
files == <<"clone">> \o Detached(<<"lock", "list", "unlock">>)
file_uris == <<"clone", "lock", "list", "unlock">>
get_add_file_sizes == <<"lock", "read", "unlock">>
get_add_actions == <<"check", "clone">>
get_active_partitions == <<"clone", "check", "clone">>
transaction_version == Detached(<<"clone">>)
scan == <<"clone">> \o Detached(<<"check">>)
load_cdf == <<"clone", "check">> \o Switch
generate == <<"clone", "check">>
register == <<"clone">>
datafusion_table_provider == <<"check", "clone">>
cloned_table_and_state_mutant == <<"clone", "clone_table">>
cloned_table_and_state == <<"clone_both">>
deletion_vectors == <<"check">> \o Detached(cloned_table_and_state)
dataset_partitions == files \o <<"list", "list", "clone">>
protocol_versions == <<"list">>

(* The history and the version it is numbered from, under one lock.        *)
history_mutant == <<"history", "version">>
history == <<"lock", "history", "version", "unlock">>

create_write_transaction == Detached(<<"clone", "list", "clone", "commit">>)

(* Functions that are given a location: they open the table for themselves  *)
(* or create it there, and put nothing into the handle.  A conversion fails  *)
(* where the location is that of a table.                                  *)
write_to_deltalake == Detached(<<"open">>) \o Detached(<<"check", "maybe">>)
create_deltalake == Detached(<<"check", "maybe">>)
create_table_with_add_actions == Detached(<<"check", "maybe">>)
convert_to_deltalake == <<"check">> \o Detached(<<"already">>)

-----------------------------------------------------------------------------
(* The methods of the Python package that make several of these calls.     *)
(* Between two calls the interpreter may switch.                           *)

DeltaTable_to_pyarrow_dataset ==
    <<"check">> \o protocol_versions \o <<"check">> \o Switch \o get_add_file_sizes \o Switch
        \o <<"clone">> \o Switch \o dataset_partitions
TableOptimizer_compact == compact_optimize \o Switch \o update_incremental
TableOptimizer_z_order == z_order_optimize \o Switch \o update_incremental
write_deltalake == <<"clone">> \o Switch \o write

(* A merge of n clauses: the builder is kept between the calls, and nothing *)
(* but its own state stops a caller from executing it twice.               *)
TableMerger(n) ==
    create_merge_builder \o FlattenSeq([i \in 1..n |-> Switch \o <<"clause">>]) \o Switch \o merge_execute

(* What a caller can call, with the checks of its arguments.               *)
Program ==
    [partitions |-> get_active_partitions, file_uris |-> file_uris, load_as_version |-> load_version,
     load_as_datetime |-> load_with_datetime, load_cdf |-> load_cdf, scan |-> scan,
     deletion_vectors |-> deletion_vectors, generate |-> generate, history |-> history,
     count |-> get_add_actions, vacuum |-> <<"check">> \o vacuum, update |-> <<"check">> \o update,
     restore |-> restore, to_pandas |-> DeltaTable_to_pyarrow_dataset,
     update_incremental |-> update_incremental, create_checkpoint |-> create_checkpoint,
     compact_logs |-> compact_logs, cleanup_metadata |-> cleanup_metadata,
     get_add_actions |-> get_add_actions, delete |-> delete, repair |-> repair,
     transaction_version |-> transaction_version, create_write_transaction |-> create_write_transaction,
     table_provider |-> datafusion_table_provider, add_feature |-> add_feature,
     add_columns |-> add_columns, add_constraint |-> add_constraints, drop_constraint |-> drop_constraints,
     drop_column_not_null |-> drop_column_not_null, set_table_properties |-> set_table_properties,
     set_table_name |-> set_table_name, set_table_description |-> set_table_description,
     set_column_metadata |-> set_column_metadata, compact |-> TableOptimizer_compact,
     z_order |-> TableOptimizer_z_order, register |-> register, write_deltalake |-> write_deltalake,
     write_to_deltalake |-> write_to_deltalake, create |-> create_deltalake,
     create_table_with_add_actions |-> create_table_with_add_actions,
     convert_to_deltalake |-> convert_to_deltalake,
     merge |-> TableMerger(2), merge_executed_twice |-> TableMerger(1) \o Switch \o merge_execute]

-----------------------------------------------------------------------------
(* The steps.                                                              *)

Now(t, step) == th[t].busy /\ th[t].todo # << >> /\ Head(th[t].todo) = step
Then(t, fields) == th' = [th EXCEPT ![t] =
    [f \in DOMAIN th[t] |-> IF f = "todo" THEN Tail(th[t].todo)
                            ELSE IF f \in DOMAIN fields THEN fields[f] ELSE th[t][f]]]
Done(t) == Then(t, << >>)

(* An error leaves the closures it is in: the guard is dropped, the        *)
(* interpreter is taken again, nothing of the rest happens.                *)
Raise(t) ==
    /\ th' = [th EXCEPT ![t].todo = IF gil = t THEN << >> ELSE <<"attach">>]
    /\ mutex' = IF mutex = t THEN NONE ELSE mutex
    /\ UNCHANGED <<log, state, gil, calls>>

Call(t) ==
    /\ ~th[t].busy
    /\ calls[t] < MaxCalls
    /\ gil = NONE
    /\ \E m \in Methods : th' = [th EXCEPT ![t] = [Idle EXCEPT !.todo = Program[m], !.busy = TRUE]]
    /\ gil' = t
    /\ calls' = [calls EXCEPT ![t] = @ + 1]
    /\ UNCHANGED <<log, state, mutex>>

Return(t) ==
    /\ th[t].busy
    /\ th[t].todo = << >>
    /\ th' = [th EXCEPT ![t].busy = FALSE]
    /\ gil' = NONE
    /\ UNCHANGED <<log, state, mutex, calls>>

Detach(t) ==
    /\ Now(t, "detach")
    /\ gil' = NONE
    /\ Done(t)
    /\ UNCHANGED <<log, state, mutex, calls>>

Attach(t) ==
    /\ Now(t, "attach")
    /\ gil = NONE
    /\ gil' = t
    /\ Done(t)
    /\ UNCHANGED <<log, state, mutex, calls>>

(* Validation of arguments, in Python or while the command is built.       *)
Check(t) ==
    \/ Now(t, "check") /\ Done(t) /\ UNCHANGED <<log, state, mutex, gil, calls>>
    \/ (\E s \in {"check", "already"} : Now(t, s)) /\ Raise(t)

Free(t) == mutex \in {NONE, t}

(* cloned_state, cloned_table_and_state and the clone of the whole table:  *)
(* one acquisition of the mutex each; a table without state raises.        *)
Clone(t) ==
    \/ /\ \E s \in {"clone", "clone_table", "clone_both", "clone_option"} : Now(t, s)
       /\ Free(t)
       /\ state # NONE \/ Now(t, "clone_option")
       /\ Then(t, CASE Now(t, "clone_table") -> [table |-> state]
                    [] Now(t, "clone_both") -> [table |-> state, snap |-> state]
                    [] OTHER -> [snap |-> state])
       /\ UNCHANGED <<log, state, mutex, gil, calls>>
    \/ /\ \E s \in {"clone", "clone_table", "clone_both"} : Now(t, s)
       /\ Free(t)
       /\ state = NONE
       /\ Raise(t)

(* try_from_url_with_storage_options: the latest version, for this call.   *)
Open(t) ==
    \/ Now(t, "open") /\ Then(t, [snap |-> Len(log)]) /\ UNCHANGED <<log, state, mutex, gil, calls>>
    \/ Now(t, "open") /\ Raise(t)

(* The operation itself, on the clone: it fails, finds nothing to do, or   *)
(* commits a version and returns the state of that version.                *)
Run(t) ==
    \/ \E s \in {"commit", "maybe"} : Now(t, s) /\ Raise(t)
    \/ /\ Now(t, "maybe")
       /\ Then(t, [result |-> th[t].snap])
       /\ UNCHANGED <<log, state, mutex, gil, calls>>
    \/ /\ \E s \in {"commit", "maybe"} : Now(t, s)
       /\ Len(log) < MaxVersion
       /\ log' = Append(log, TRUE)
       /\ Then(t, [result |-> Len(log')])
       /\ UNCHANGED <<state, mutex, gil, calls>>

SetState(t) ==
    /\ \E s \in {"set_state", "set_some"} : Now(t, s)
    /\ Free(t)
    /\ state' = IF Now(t, "set_some") /\ th[t].result = NONE THEN state ELSE th[t].result
    /\ Done(t)
    /\ UNCHANGED <<log, mutex, gil, calls>>

Lock(t) ==
    /\ Now(t, "lock")
    /\ mutex = NONE
    /\ mutex' = t
    /\ Done(t)
    /\ UNCHANGED <<log, state, gil, calls>>

Unlock(t) ==
    /\ Now(t, "unlock")
    /\ mutex' = NONE
    /\ Done(t)
    /\ UNCHANGED <<log, state, gil, calls>>

(* DeltaTable::load_version drops a newer state before it loads the older  *)
(* version, so a failure then leaves the table without a state.            *)
Load(t) ==
    /\ Now(t, "load")
    /\ \E v \in 1..Len(log) :
        \/ /\ state' = v
           /\ Done(t)
           /\ UNCHANGED <<log, mutex, gil, calls>>
        \/ /\ state' = IF state # NONE /\ state > v THEN NONE ELSE state
           /\ th' = [th EXCEPT ![t].todo = <<"attach">>]
           /\ mutex' = NONE
           /\ UNCHANGED <<log, gil, calls>>

(* DeltaTable::update_incremental(None).                                   *)
Refresh(t) ==
    \/ /\ Now(t, "refresh")
       /\ state' = Len(log)
       /\ Done(t)
       /\ UNCHANGED <<log, mutex, gil, calls>>
    \/ Now(t, "refresh") /\ Raise(t)

(* cleanup_metadata reloads the version it holds when it deleted a log     *)
(* file; the new state is set after the mutex is free again.               *)
Cleanup(t) ==
    \/ /\ Now(t, "cleanup")
       /\ \E deleted \in BOOLEAN : Then(t, [result |-> IF deleted THEN state ELSE NONE])
       /\ UNCHANGED <<log, state, mutex, gil, calls>>
    \/ Now(t, "cleanup") /\ Raise(t)

Read(t) ==
    \/ Now(t, "read") /\ Done(t) /\ UNCHANGED <<log, state, mutex, gil, calls>>
    \/ Now(t, "read") /\ Raise(t)

(* with_table: a read of the loaded state, its files or its protocol.      *)
List(t) ==
    /\ Now(t, "list")
    /\ Free(t)
    /\ \/ state # NONE /\ Done(t) /\ UNCHANGED <<log, state, mutex, gil, calls>>
       \/ Raise(t)

(* Snapshot::commit_infos lists every commit file from the limit on, also  *)
(* the ones after the snapshot's version, newest first; DeltaTable::history *)
(* drops the commits without a commitInfo.                                 *)
CommitInfos(v, limit) ==
    LET from == IF limit = NONE \/ limit > v THEN 1 ELSE v - limit + 1
        listed == [i \in 1..(Len(log) - from + 1) |-> Len(log) + 1 - i]
    IN  SelectSeq(listed, LAMBDA c : log[c])

History(t) ==
    /\ Now(t, "history")
    /\ Free(t)
    /\ \/ /\ state # NONE
          /\ \E limit \in Limits :
                Then(t, [commits |-> CommitInfos(state, limit),
                         fresh |-> state = Len(log) /\ \A v \in DOMAIN log : log[v]])
          /\ UNCHANGED <<log, state, mutex, gil, calls>>
       \/ Raise(t)

HistoryVersion(t) ==
    /\ Now(t, "version")
    /\ Free(t)
    /\ Then(t, [version |-> state])
    /\ UNCHANGED <<log, state, mutex, gil, calls>>

(* PyMergeBuilder hands its command on from clause to clause; a clause     *)
(* that fails, and execute, leave none behind.                             *)
Builder(t) ==
    /\ Now(t, "builder")
    /\ Then(t, [builder |-> "ready"])
    /\ UNCHANGED <<log, state, mutex, gil, calls>>

Clause(t) ==
    \/ /\ Now(t, "clause")
       /\ th[t].builder = "ready"
       /\ Done(t)
       /\ UNCHANGED <<log, state, mutex, gil, calls>>
    \/ /\ Now(t, "clause")
       /\ th' = [th EXCEPT ![t].todo = << >>, ![t].builder = "gone"]
       /\ UNCHANGED <<log, state, mutex, gil, calls>>

Take(t) ==
    \/ /\ Now(t, "take")
       /\ th[t].builder = "ready"
       /\ Then(t, [builder |-> "gone"])
       /\ UNCHANGED <<log, state, mutex, gil, calls>>
    \/ Now(t, "take") /\ th[t].builder # "ready" /\ Raise(t)

(* Another process commits to the same table.                              *)
OtherCommit ==
    /\ Len(log) < MaxVersion
    /\ log' = Append(log, TRUE)
    /\ UNCHANGED <<state, mutex, gil, th, calls>>

Step(t) ==
    \/ Call(t) \/ Return(t) \/ Detach(t) \/ Attach(t) \/ Check(t) \/ Clone(t) \/ Open(t) \/ Run(t)
    \/ SetState(t) \/ Lock(t) \/ Unlock(t) \/ Load(t) \/ Refresh(t) \/ Cleanup(t)
    \/ Read(t) \/ List(t) \/ History(t) \/ HistoryVersion(t) \/ Builder(t) \/ Clause(t) \/ Take(t)

Next == OtherCommit \/ \E t \in Threads : Step(t)

-----------------------------------------------------------------------------
(* Properties.                                                             *)

(* The mutex and the interpreter lock never wait for each other: while a   *)
(* call is in progress some thread can take a step.  Methods that keep the *)
(* mutex over a wait have given the interpreter up, and drop the guard     *)
(* before they take it again.                                              *)
NeverBlocked == (\E t \in Threads : th[t].busy) => \E t \in Threads : ENABLED Step(t)

(* deletion_vectors scans with the table and the snapshot of one moment,   *)
(* whatever other threads load in between.                                 *)
ClonedTogether == \A t \in Threads : th[t].table # NONE => th[t].table = th[t].snap

(* A history read while the handle holds the latest version, of a log in   *)
(* which every commit has a commitInfo, is numbered right: the version     *)
(* returned is the one of the newest commit returned.                      *)
HistoryOfLatest ==
    \A t \in Threads : th[t].fresh /\ th[t].version # NONE
        => th[t].version = th[t].commits[1]
=============================================================================
