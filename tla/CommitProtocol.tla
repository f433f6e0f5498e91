--------------------------- MODULE CommitProtocol ---------------------------
(***************************************************************************)
(* kernel/transaction/mod.rs: many invocations of operations, in any       *)
(* number of processes, commit to one table.  An invocation plans its      *)
(* actions against a snapshot, then runs PreparedCommit's loop: list the   *)
(* log, check every commit that won since its snapshot, write the next     *)
(* version with put-if-absent, and start over when the version is taken.   *)
(* Every access to the object store is a step of its own.                  *)
(***************************************************************************)
EXTENDS Operations

CONSTANTS
    MaxRetries,      \* CommitProperties::max_retries
    SeedProtocols,   \* protocols a table that already exists may have
    SeedKeys,        \* sets of keys its rows may have
    StoreErrors      \* may a call to the object store fail?

ASSUME MaxRetriesAssumption == MaxRetries \in Nat
ASSUME SeedProtocolsAssumption == SeedProtocols \subseteq Protocol
ASSUME SeedKeysAssumption == SeedKeys \subseteq SUBSET Keys

VARIABLES
    log,       \* _delta_log, as the object store holds it
    pc,        \* where invocation t is
    tx,        \* CommitData: the operation and the actions it commits
    snap,      \* the version of read_snapshot
    latest,    \* latest_version, as last listed
    winner,    \* the winning version the conflict checker looks at next
    attempt,   \* attempt_number
    bins,      \* bins of OPTIMIZE that are rewritten and not yet committed
    made,      \* commits_made of OPTIMIZE
    result     \* what the invocation returned

vars == <<log, pc, tx, snap, latest, winner, attempt, bins, made, result>>

-----------------------------------------------------------------------------
SeedCommit(p, ks) ==
    [Base(Seed, "write_new", NONE) EXCEPT !.src = ks, !.protocol = p,
        !.metadata = [by |-> Seed, append_only |-> FALSE, allowed |-> Keys, ntz |-> FALSE],
        !.adds = NonEmptyFile(NewFile(Seed, 0, NewRows(Seed, ks)))]

\* A table of one version, or none yet when no seed protocol is given.
SeedLogs ==
    IF SeedProtocols = {} THEN {EmptyLog}
    ELSE UNION {{Put(EmptyLog, 0, SeedCommit(p, ks)) : p \in SeedProtocols} : ks \in SeedKeys}

Init ==
    /\ log \in SeedLogs
    /\ pc = [t \in Txns |-> "idle"]
    /\ tx = [t \in Txns |-> Base(t, "none", NONE)]
    /\ snap = [t \in Txns |-> 0]
    /\ latest = [t \in Txns |-> 0]
    /\ winner = [t \in Txns |-> 0]
    /\ attempt = [t \in Txns |-> 1]
    /\ bins = [t \in Txns |-> {}]
    /\ made = [t \in Txns |-> 0]
    /\ result = [t \in Txns |-> "none"]

\* Mutant: RESTORE keeps the default number of retries.
max_retries_mutant(t) ==
    IF tx[t].kind = "optimize" THEN MaxRetries + made[t] ELSE MaxRetries

\* RESTORE disables retries, OPTIMIZE has one more for each commit it made.
max_retries(t) ==
    CASE tx[t].kind = "restore" -> 0
      [] tx[t].kind = "optimize" -> MaxRetries + made[t]
      [] OTHER -> MaxRetries

Goto(t, label) == pc' = [pc EXCEPT ![t] = label]

Return(t, r) == Goto(t, "done") /\ result' = [result EXCEPT ![t] = r]

\* Go around the retry loop, or leave it when the attempts are used up.
Retry(t, n) ==
    /\ attempt' = [attempt EXCEPT ![t] = n]
    /\ IF n <= max_retries(t) + 1
       THEN Goto(t, "list") /\ UNCHANGED result
       ELSE Return(t, "max_attempts")

-----------------------------------------------------------------------------
(* An operation is invoked.                                                *)

\* The actions c are handed to CommitBuilder::build with the snapshot r, which
\* the protocol checker consults before the first attempt.
Prepare(t, r, c) ==
    /\ tx' = [tx EXCEPT ![t] = c]
    /\ snap' = [snap EXCEPT ![t] = r]
    /\ IF ~check_append_only(log, r, c) THEN Return(t, "rejected")
       ELSE IF is_noop(c) THEN Return(t, "noop")
       ELSE IF ~can_commit(log, r, c) THEN Return(t, "rejected")
       ELSE Goto(t, "list") /\ UNCHANGED result

\* An operation is given any snapshot its caller has loaded, however old.
Begin(t) ==
    /\ pc[t] = "idle"
    /\ \E r \in DOMAIN log, k \in Kinds \ CreateKinds :
          \E c \in Plans(log, t, r, k), o \in CommitProperties :
             Prepare(t, r, with_commit_properties(c, o))
    /\ UNCHANGED <<log, latest, winner, attempt, bins, made>>

\* OPTIMIZE with a commit interval: two bins are flushed in two commits.
BeginOptimize(t) ==
    /\ pc[t] = "idle" /\ CommitInterval /\ "optimize" \in Kinds
    /\ \E r \in DOMAIN log, o \in CommitProperties :
          \E b1, b2 \in SUBSET Active(log, r) \ {{}} :
             /\ b1 \cap b2 = {}
             /\ Prepare(t, r, with_commit_properties(rewrite_files(t, r, 0, b1), o))
             /\ bins' = [bins EXCEPT ![t] = b2]
    /\ UNCHANGED <<log, latest, winner, attempt, made>>

\* CreateBuilder, and WriteBuilder without a snapshot, on an absent table.
BeginCreate(t) ==
    /\ pc[t] = "idle" /\ DOMAIN log = {}
    /\ \E k \in Kinds \cap CreateKinds :
          \E c \in create(t, k), o \in CommitProperties :
             tx' = [tx EXCEPT ![t] = with_commit_properties(c, o)]
    /\ Goto(t, "create")
    /\ UNCHANGED <<log, snap, latest, winner, attempt, bins, made, result>>

\* CreateBuilder on a table that exists.
BeginCreateExisting(t) ==
    /\ pc[t] = "idle" /\ DOMAIN log # {}
    /\ \/ /\ \E k \in Kinds \cap {"create", "create_strict"} : tx' = [tx EXCEPT ![t].kind = k]
          /\ Return(t, "exists") /\ UNCHANGED snap
       \/ /\ "create_ignore" \in Kinds /\ tx' = [tx EXCEPT ![t].kind = "create_ignore"]
          /\ Return(t, "noop") /\ UNCHANGED snap
       \/ /\ "create_or_replace" \in Kinds
          /\ \E r \in DOMAIN log, o \in CommitProperties :
                /\ IsLatest(log, r)
                /\ \E c \in replace_table(log, t, r) : Prepare(t, r, with_commit_properties(c, o))
    /\ UNCHANGED <<log, latest, winner, attempt, bins, made>>

-----------------------------------------------------------------------------
(* PreparedCommit::into_future.                                            *)

\* The first version is written without a snapshot.  When another writer made it
\* first, commit_initial_without_retry fails and the other path retries.
WriteInitial(t) ==
    /\ pc[t] = "create"
    /\ IF 0 \notin DOMAIN log
       THEN log' = Put(log, 0, tx[t]) /\ Return(t, "committed") /\ UNCHANGED attempt
       ELSE /\ UNCHANGED log
            /\ IF tx[t].kind = "create_strict"
               THEN Return(t, "exists") /\ UNCHANGED attempt
               ELSE Goto(t, "reload") /\ attempt' = [attempt EXCEPT ![t] = 2] /\ UNCHANGED result
    /\ UNCHANGED <<tx, snap, latest, winner, bins, made>>

\* Mutant: the create that lost goes back to writing version 0.
Reload_mutant(t) ==
    /\ pc[t] = "reload"
    /\ \E v \in DOMAIN log : IsLatest(log, v) /\ snap' = [snap EXCEPT ![t] = v]
    /\ Goto(t, "create")
    /\ UNCHANGED <<log, tx, latest, winner, attempt, bins, made, result>>

\* ... with the latest snapshot, and no check against what it already holds.
Reload(t) ==
    /\ pc[t] = "reload"
    /\ \E v \in DOMAIN log : IsLatest(log, v) /\ snap' = [snap EXCEPT ![t] = v]
    /\ Retry(t, attempt[t])
    /\ UNCHANGED <<log, tx, latest, winner, bins, made>>

\* get_latest_version
List(t) ==
    /\ pc[t] = "list"
    /\ \E v \in DOMAIN log :
          /\ IsLatest(log, v)
          /\ latest' = [latest EXCEPT ![t] = v]
          /\ IF v = snap[t] THEN Goto(t, "write") /\ UNCHANGED result
             ELSE IF max_retries(t) = 0 THEN Return(t, "max_attempts")
             ELSE Goto(t, "check") /\ UNCHANGED result
    /\ winner' = [winner EXCEPT ![t] = snap[t] + 1]
    /\ UNCHANGED <<log, tx, snap, attempt, bins, made>>

\* Mutant: only the first winning commit is checked.
CheckWinner_mutant(t) ==
    /\ pc[t] = "check"
    /\ IF check_conflicts(log, snap[t], tx[t], log[winner[t]])
       THEN Return(t, "conflict") /\ UNCHANGED snap
       ELSE snap' = [snap EXCEPT ![t] = latest[t]] /\ Goto(t, "write") /\ UNCHANGED result
    /\ UNCHANGED <<log, tx, latest, winner, attempt, bins, made>>

\* Read one winning commit and check it; after the last one, update the snapshot.
CheckWinner(t) ==
    /\ pc[t] = "check"
    /\ winner[t] \in DOMAIN log
    /\ IF check_conflicts(log, snap[t], tx[t], log[winner[t]])
       THEN Return(t, "conflict") /\ UNCHANGED <<snap, winner>>
       ELSE IF winner[t] < latest[t]
       THEN winner' = [winner EXCEPT ![t] = @ + 1] /\ UNCHANGED <<pc, snap, result>>
       ELSE snap' = [snap EXCEPT ![t] = latest[t]] /\ Goto(t, "write") /\ UNCHANGED <<winner, result>>
    /\ UNCHANGED <<log, tx, latest, attempt, bins, made>>

\* The commit is in the log; OPTIMIZE goes on with its next bin, on the snapshot
\* of the version it has just written and with the same commit properties.
Committed(t, v) ==
    /\ made' = [made EXCEPT ![t] = @ + 1]
    /\ IF bins[t] = {}
       THEN Return(t, "committed") /\ UNCHANGED <<tx, snap, attempt, bins>>
       ELSE /\ tx' = [tx EXCEPT ![t] = with_commit_properties(rewrite_files(t, v, made'[t], bins[t]), tx[t])]
            /\ snap' = [snap EXCEPT ![t] = v]
            /\ attempt' = [attempt EXCEPT ![t] = 1]
            /\ bins' = [bins EXCEPT ![t] = {}]
            /\ Goto(t, "list") /\ UNCHANGED result

\* Mutant: a plain put replaces the version that is already there.
WriteCommit_mutant(t) ==
    /\ pc[t] = "write"
    /\ log' = Put(log, snap[t] + 1, tx[t]) /\ Committed(t, snap[t] + 1)
    /\ UNCHANGED <<latest, winner>>

\* write_commit_entry with put-if-absent, and its two expected answers.
WriteCommit(t) ==
    /\ pc[t] = "write"
    /\ LET v == snap[t] + 1 IN
          IF v \notin DOMAIN log
          THEN log' = Put(log, v, tx[t]) /\ Committed(t, v)
          ELSE Retry(t, attempt[t] + 1) /\ UNCHANGED <<log, tx, snap, bins, made>>
    /\ UNCHANGED <<latest, winner>>

\* Any other answer to the write: the commit may have landed all the same.  The
\* loop aborts the entry, which for put-if-absent stores leaves the log alone.
WriteFails(t) ==
    /\ StoreErrors /\ pc[t] \in {"create", "write"}
    /\ LET v == IF pc[t] = "create" THEN 0 ELSE snap[t] + 1 IN
          \/ UNCHANGED log
          \/ v \notin DOMAIN log /\ log' = Put(log, v, tx[t])
    /\ Return(t, "error")
    /\ UNCHANGED <<tx, snap, latest, winner, attempt, bins, made>>

\* Listing the log or reading a winning commit fails.
ReadFails(t) ==
    /\ StoreErrors /\ pc[t] \in {"reload", "list", "check"}
    /\ Return(t, "error")
    /\ UNCHANGED <<log, tx, snap, latest, winner, attempt, bins, made>>

Step(t) == WriteInitial(t) \/ Reload(t) \/ List(t) \/ CheckWinner(t) \/ WriteCommit(t)

\* Nothing is in flight; only then may the system stop.
Quiescent == (\A t \in Txns : pc[t] \in {"idle", "done"}) /\ UNCHANGED vars

Next ==
    \/ \E t \in Txns :
          \/ Begin(t) \/ BeginOptimize(t) \/ BeginCreate(t) \/ BeginCreateExisting(t)
          \/ Step(t) \/ WriteFails(t) \/ ReadFails(t)
    \/ Quiescent

\* The futures of started operations are polled until they are ready; no caller
\* is forced to start one.
Fairness == \A t \in Txns : WF_vars(Step(t))

Spec == Init /\ [][Next]_vars /\ Fairness

-----------------------------------------------------------------------------
(* What the commit protocol guarantees, stated on the log it leaves.       *)

\* The values the variables take; a commit in flight is well formed.
TypeOK ==
    /\ DOMAIN log \subseteq Nat
    /\ \A v \in DOMAIN log : log[v] \in Commit
    /\ pc \in [Txns -> {"idle", "create", "reload", "list", "check", "write", "done"}]
    /\ tx \in [Txns -> Commit]
    /\ snap \in [Txns -> Nat] /\ latest \in [Txns -> Nat] /\ winner \in [Txns -> Nat]
    /\ attempt \in [Txns -> Nat \ {0}] /\ made \in [Txns -> Nat]
    /\ bins \in [Txns -> SUBSET File]
    /\ result \in [Txns -> {"none", "committed", "conflict", "max_attempts", "exists",
                            "rejected", "noop", "error"}]

\* Conflict checker, "Fail if a file is deleted twice": every file a commit removes
\* is active in the version right before it, whatever committed since its snapshot.
RemovesAreLive ==
    \A v \in DOMAIN log : v > 0 => log[v].removes \subseteq Active(log, v - 1)

\* No two active files of a version hold the same row: racing rewrites (OPTIMIZE,
\* DELETE, UPDATE, MERGE, RESTORE) never both keep their copy of a file's rows.
NoDuplicateRows ==
    \A v \in DOMAIN log : \A f, g \in Active(log, v) : f # g => f.rows \cap g.rows = {}

\* RESTORE has no retries: its version directly follows the snapshot it compared
\* with, and holds exactly the files of the restored version.
RestoreExact ==
    \A v \in DOMAIN log :
        log[v].kind = "restore" => /\ log[v].read = v - 1
                                   /\ Active(log, v) = Active(log, log[v].target)

\* check_no_metadata_updates: no Metadata action lies between the snapshot a commit
\* was planned on and the version it got, over all its retries.
MetadataStable ==
    \A v, u \in DOMAIN log :
        log[v].read # NONE /\ log[v].read < u /\ u < v => log[u].metadata = NONE

\* A version that finds delta.appendOnly enabled removes no data, unless it is a
\* RESTORE or an FSCK (ProtocolChecker::can_commit ran on an older snapshot).
AppendOnlyRespected ==
    \A v \in DOMAIN log :
        v > 0 /\ append_only_enabled(log, v - 1) /\ log[v].data_change /\ log[v].removes # {}
            => log[v].kind \in {"restore", "filesystem_check"}

\* The rows an operation writes satisfy the constraints in force at its version,
\* though it validated them against the constraints of its snapshot.
WritesRespectConstraints ==
    \A v \in DOMAIN log :
        v > 0 /\ log[v].metadata = NONE =>
            \A f \in log[v].adds : \A x \in f.rows :
                x[1] = log[v].id => x[2] \in MetadataAt(log, v - 1).allowed

\* Of two commits of any operations with the same application id (or domain), the
\* later one was planned on a snapshot that holds the earlier one: no Txn or
\* DomainMetadata update is lost.  A create that lost version 0 is excepted: it had no
\* snapshot, and is not checked against the versions it finds (Reload).
NoLostUpdate ==
    \A u, v \in DOMAIN log :
        u < v /\ log[v].read # NONE
              /\ \/ log[u].app # NONE /\ log[u].app = log[v].app
                 \/ log[u].domain # NONE /\ log[u].domain = log[v].domain
            => u <= log[v].read

\* What an invocation returns is what the log shows: success exactly once in the
\* log, a conflict or exhausted retries not at all (an I/O error may be either).
OutcomeHonest ==
    \A t \in Txns :
        LET mine == {v \in DOMAIN log : log[v].id = t} IN
        /\ result[t] = "committed" => \E v \in mine : log[v] = tx[t]
        /\ \A u, v \in mine : log[u] = log[v] => u = v
        /\ result[t] \notin {"committed", "error"} /\ made[t] = 0 => mine = {}

\* optimize.rs: "It will always succeed if concurrent writers are only appending":
\* OPTIMIZE meets a conflict only when something else than an append was committed, or
\* an append whose caller gave it the same application id or domain.
OptimizeSurvivesAppends ==
    \A t \in Txns :
        tx[t].kind = "optimize" /\ result[t] = "conflict" =>
            \E v \in DOMAIN log :
                /\ v > tx[t].read
                /\ \/ log[v].kind # "append"
                   \/ ConcurrentTransaction(tx[t], log[v]) \/ ConcurrentDomainMetadata(tx[t], log[v])

-----------------------------------------------------------------------------
\* The history of the table, read off the log.
History ==
    [v \in DOMAIN log |->
        [op |-> [kind |-> log[v].kind, by |-> log[v].id, pred |-> log[v].pred,
                 src |-> log[v].src, target |-> log[v].target],
         rows |-> Content(log, v)]]

Serial == INSTANCE SerialTable WITH history <- History

\* IsolationLevel::Serializable: the log is a serial execution of its operations in
\* the order of the versions, and a committed version never changes.
SerialHistory == Serial!Spec

\* IsolationLevel::WriteSerializable: a commit may be placed before the blind appends
\* that won since its snapshot, which it did not read, and is serial otherwise.
SerialButForBlindAppends ==
    \A v \in DOMAIN log :
        v > 0 => LET late == {u \in DOMAIN log : log[u].blind /\ log[v].read < u /\ u < v}
                     rows == Content(log, v - 1)
                     unread == rows \cap UNION {f.rows : f \in UNION {log[u].adds : u \in late}}
                 IN  Content(log, v) = unread \cup Serial!Effect(History[v].op, rows \ unread)

\* Every invocation that reaches the commit loop returns, whatever the others do.
EveryCommitEnds == \A t \in Txns : pc[t] # "idle" ~> pc[t] = "done"
=============================================================================
