----------------------------- MODULE LogEntries -----------------------------
(***************************************************************************)
(* What a commit writes into its log entry besides the data: the           *)
(* commitInfo with the caller's metadata, the in-commit timestamp and the  *)
(* retry count; and what get_all_versions_from reads back.  Two kinds of   *)
(* writers share the log: commits of CommitBuilder, which wait out the     *)
(* versions that others take, and commits of BlindDeltaTable, which give   *)
(* up at the first one.                                                    *)
(*                                                                         *)
(* Metadata is a function from keys to [type, value].  An entry of the log *)
(* is [by, base, typed, custom, ict, retries, schema, planned, info].      *)
(***************************************************************************)
EXTENDS Integers, Sequences, FiniteSets, SequencesExt

CONSTANTS
    Builders, Blinds,  \* the writers
    Requests,          \* what a builder is asked for: [python, meta, provided, schema]
    Clocks,            \* what a wall clock may show
    MaxRetries,        \* CommitProperties::max_retries
    BlindRetries,      \* BLIND_COMMIT_MAX_RETRIES
    MaxVersion,
    NONE

VARIABLES
    log,      \* the commits
    writer,   \* the state of each builder
    blind     \* the state of each blind table

levars == <<log, writer, blind>>

Version == Len(log)
SchemaAt(v) == log[v].schema

-----------------------------------------------------------------------------
(* commitInfo.                                                             *)

Generated == {"timestamp", "operation", "engineInfo"}
Reserved == Generated \cup {"inCommitTimestamp", "txnId", "userId", "readVersion", "isBlindAppend",
                            "operationParameters"}
Expected(key) == CASE key = "userId" -> "string" [] key = "readVersion" -> "integer"
                   [] key = "isBlindAppend" -> "boolean" [] key = "operationParameters" -> "object"
                   [] OTHER -> "never"

get_commit_info ==
    [typed |-> [k \in Reserved |->
        CASE k \in Generated -> [type |-> "generated", value |-> k]
          [] k = "operationParameters" -> [type |-> "object", value |-> {<<"mode", "generated">>}]
          [] OTHER -> NONE],
     custom |-> <<>>]

Parameters(own, given) == own \cup {p \in given : \A q \in own : q[1] # p[1]}
normalize_reserved_commit_metadata(typed, meta) ==
    [typed |-> [k \in Reserved |->
        IF k \notin DOMAIN meta \/ meta[k].type # Expected(k) THEN typed[k]
        ELSE IF k = "operationParameters"
          THEN [type |-> "object",
                value |-> Parameters(IF typed[k] = NONE THEN {} ELSE typed[k].value, meta[k].value)]
        ELSE IF typed[k] = NONE THEN meta[k] ELSE typed[k]],
     rest |-> [k \in DOMAIN meta \ Reserved |-> meta[k]]]

Overriding(over, under) ==
    [k \in DOMAIN over \cup DOMAIN under |-> IF k \in DOMAIN over THEN over[k] ELSE under[k]]
assign_commit_info_metadata_mutant(info, meta) ==
    LET given == normalize_reserved_commit_metadata(info.typed, meta)
    IN  [typed |-> given.typed, custom |-> Overriding(given.rest, info.custom)]
assign_commit_info_metadata(info, meta) ==
    LET given == normalize_reserved_commit_metadata(info.typed, meta)
        existing == normalize_reserved_commit_metadata(given.typed, info.custom)
    IN  [typed |-> existing.typed, custom |-> Overriding(given.rest, existing.rest)]

(* CommitData::new: a caller may bring a CommitInfo action of its own.     *)
Named(meta) == Overriding(meta, [clientVersion |-> [type |-> "string", value |-> "delta-rs"]])
CommitData(request) ==
    IF request.provided # NONE
      THEN assign_commit_info_metadata([typed |-> get_commit_info.typed, custom |-> request.provided],
                                       request.meta)
      ELSE assign_commit_info_metadata(get_commit_info, Named(request.meta))

(* The Python binding refuses metadata that the core would drop.           *)
validate_reserved_commit_metadata_mutant(key, value) ==
    key \notin Generated /\ (key \in {"readVersion", "operationParameters"} => value.type = Expected(key))
validate_reserved_commit_metadata(key, value) ==
    /\ key \notin Generated
    /\ key \in {"userId", "readVersion", "isBlindAppend", "operationParameters"} =>
          value.type = Expected(key)

-----------------------------------------------------------------------------
(* CommitBuilder: PreCommit, then the loop of PreparedCommit.              *)

Ordered_mutant(proposed, previous) == IF proposed > previous THEN proposed ELSE previous
Ordered(proposed, previous) == IF proposed > previous THEN proposed ELSE previous + 1
ordered_in_commit_timestamp(proposed, base) == Ordered(proposed, log[base].ict)

Prepare(w, request, base, now) ==
    /\ writer[w].pc = "idle"
    /\ request.python =>
          \A k \in DOMAIN request.meta : validate_reserved_commit_metadata(k, request.meta[k])
    /\ writer' = [writer EXCEPT ![w] =
         [pc |-> "look", request |-> request, base |-> base, read |-> base, target |-> 0,
          attempt |-> 1, lost |-> 0,
          data |-> CommitData(request), ict |-> ordered_in_commit_timestamp(now, base)]]
    /\ UNCHANGED <<log, blind>>

(* A winner that changed the metadata is a conflict, an append is none.    *)
Conflicts(v) == SchemaAt(v) # SchemaAt(v - 1)

Look(w) ==
    LET s == writer[w] IN
    /\ s.pc = "look"
    /\ writer' = [writer EXCEPT ![w] =
         IF s.attempt > MaxRetries + 1 \/ (Version > s.read /\ MaxRetries = 0)
           THEN [s EXCEPT !.pc = "failed"]
         ELSE IF \E v \in (s.read + 1)..Version : Conflicts(v) THEN [s EXCEPT !.pc = "failed"]
         ELSE [s EXCEPT !.pc = "put", !.read = Version, !.target = Version + 1]]
    /\ UNCHANGED <<log, blind>>

(* Only a retry rewrites the serialized entry, and only its commitInfo     *)
(* line.                                                                   *)
CurrentRetries_mutant(attempt) == attempt
CurrentRetries(attempt) == attempt - 1
update_retry_count_in_bytes(retries) == IF retries > 0 THEN retries ELSE 0

Put(w) ==
    LET s == writer[w] IN
    /\ s.pc = "put"
    /\ Version < MaxVersion
    /\ \/ /\ Version + 1 = s.target
          /\ log' = Append(log,
               [by |-> w, base |-> s.base, typed |-> s.data.typed, custom |-> s.data.custom,
                ict |-> s.ict, retries |-> update_retry_count_in_bytes(CurrentRetries(s.attempt)),
                schema |-> IF s.request.schema = NONE THEN SchemaAt(Version) ELSE s.request.schema,
                planned |-> NONE, info |-> TRUE])
          /\ writer' = [writer EXCEPT ![w].pc = "done"]
       \/ /\ Version + 1 > s.target
          /\ writer' = [writer EXCEPT ![w].pc = "look", ![w].attempt = @ + 1, ![w].lost = @ + 1]
          /\ UNCHANGED log
    /\ UNCHANGED blind

-----------------------------------------------------------------------------
(* BlindDeltaTable.  Its commit goes through the kernel's transaction and  *)
(* FileSystemCommitter: a failed write may have landed.                    *)

BlindOpen(b) ==
    /\ blind[b].pc = "new"
    /\ blind' = [blind EXCEPT ![b] =
         [pc |-> "commit", snapshot |-> Version, schema |-> SchemaAt(Version), tries |-> 0,
          landed |-> 0, result |-> NONE]]
    /\ UNCHANGED <<log, writer>>

BlindEntry(b) ==
    [by |-> b, base |-> blind[b].snapshot, typed |-> get_commit_info.typed, custom |-> <<>>,
     ict |-> Ordered(0, log[Version].ict), retries |-> 0,
     schema |-> SchemaAt(Version), planned |-> blind[b].schema, info |-> TRUE]
Landed(b) == Version = blind[b].snapshot /\ Version < MaxVersion

OnConflict_mutant(b) == [blind[b] EXCEPT !.snapshot = Version]
OnConflict(b) == [blind[b] EXCEPT !.pc = "done", !.result = "VersionAlreadyExists"]
OnRetryable(b, landed) ==
    IF blind[b].tries + 1 >= BlindRetries
      THEN [blind[b] EXCEPT !.pc = "done", !.result = "error", !.landed = @ + landed]
      ELSE [blind[b] EXCEPT !.tries = @ + 1, !.landed = @ + landed]

BlindCommit(b) ==
    /\ blind[b].pc = "commit"
    /\ \/ /\ Landed(b)
          /\ log' = Append(log, BlindEntry(b))
          /\ blind' = [blind EXCEPT ![b] = [@ EXCEPT !.pc = "reload", !.landed = @ + 1]]
       \/ /\ Version > blind[b].snapshot
          /\ blind' = [blind EXCEPT ![b] = OnConflict(b)]
          /\ UNCHANGED log
       \/ /\ Landed(b)
          /\ log' = Append(log, BlindEntry(b))
          /\ blind' = [blind EXCEPT ![b] = OnRetryable(b, 1)]
       \/ /\ blind' = [blind EXCEPT ![b] = OnRetryable(b, 0)]
          /\ UNCHANGED log
    /\ UNCHANGED writer

(* The new snapshot is loaded before the version is returned.              *)
BlindReload(b) ==
    /\ blind[b].pc = "reload"
    /\ \E loads \in BOOLEAN :
         blind' = [blind EXCEPT ![b] =
            IF loads THEN [@ EXCEPT !.pc = "done", !.result = "ok", !.snapshot = @ + 1]
            ELSE [@ EXCEPT !.pc = "done", !.result = "error"]]
    /\ UNCHANGED <<log, writer>>

(* Another engine commits without a commitInfo action.                     *)
ForeignCommit ==
    /\ Version < MaxVersion
    /\ \E ict \in Clocks :
         /\ ict > log[Version].ict
         /\ log' = Append(log, [by |-> NONE, base |-> Version, typed |-> get_commit_info.typed,
                                custom |-> <<>>, ict |-> ict, retries |-> 0,
                                schema |-> SchemaAt(Version), planned |-> NONE, info |-> FALSE])
    /\ UNCHANGED <<writer, blind>>

-----------------------------------------------------------------------------
(* get_all_versions_from reads the versions and their commitInfo from the   *)
(* commits that have one, into two sequences.                              *)

WithInfo(start) == SetToSortSeq({v \in start..Version : log[v].info}, <)
Versions_mutant(start) == [i \in 1..(Version - start + 1) |-> start + i - 1]
Versions(start) == WithInfo(start)
get_all_versions_from(start) ==
    [versions |-> Versions(start), infos |-> [i \in DOMAIN WithInfo(start) |-> log[WithInfo(start)[i]].by]]

-----------------------------------------------------------------------------
Init ==
    /\ log = <<[by |-> NONE, base |-> 1, typed |-> get_commit_info.typed, custom |-> <<>>, ict |-> 0,
                retries |-> 0, schema |-> "s0", planned |-> NONE, info |-> TRUE]>>
    /\ writer = [w \in Builders |-> [pc |-> "idle"]]
    /\ blind = [b \in Blinds |-> [pc |-> "new"]]

Next ==
    \/ \E w \in Builders, request \in Requests, base \in 1..Version, now \in Clocks :
          Prepare(w, request, base, now)
    \/ \E w \in Builders : Look(w) \/ Put(w)
    \/ \E b \in Blinds : BlindOpen(b) \/ BlindCommit(b) \/ BlindReload(b)
    \/ ForeignCommit

Spec == Init /\ [][Next]_levars

-----------------------------------------------------------------------------
(* Properties.                                                             *)

(* The serialized commitInfo holds every key once, because no key that has *)
(* a typed field is left among the flattened ones, and what the library    *)
(* generates is not replaced by a caller's metadata.                       *)
InfoKeysOnce ==
    \A v \in 1..Version :
        /\ DOMAIN log[v].custom \cap Reserved = {}
        /\ \A k \in Generated : log[v].typed[k].type = "generated"

(* Metadata that the Python binding accepts is found again in the commit:  *)
(* under its key, or among the parameters.  inCommitTimestamp and txnId    *)
(* are accepted and dropped, and are left out here.                        *)
PythonMetadataKept ==
    \A w \in Builders : writer[w].pc = "done" /\ writer[w].request.python =>
        \A v \in 1..Version : log[v].by = w =>
            \A k \in DOMAIN writer[w].request.meta \ {"inCommitTimestamp", "txnId"} :
                IF k \in Reserved THEN log[v].typed[k] # NONE
                ELSE k \in DOMAIN log[v].custom

(* A commit is later than the version it was planned on, by its in-commit  *)
(* timestamp, whatever the clocks show; without a retry it is later than   *)
(* its predecessor.                                                        *)
TimesOrdered ==
    \A v \in 2..Version : log[v].ict > log[log[v].base].ict

(* The retry count in the log is the number of versions lost to others.    *)
RetriesCounted ==
    \A w \in Builders, v \in 1..Version : log[v].by = w => log[v].retries = writer[w].lost

(* A blind append is in the log at most once, under the schema its files   *)
(* were written with, and a version it returns is its own.                 *)
BlindAppendsSound ==
    \A b \in Blinds :
        LET own == {v \in 1..Version : log[v].by = b} IN
        /\ Cardinality(own) <= 1
        /\ \A v \in own : log[v].planned = SchemaAt(v - 1)
        /\ blind[b].pc = "done" /\ blind[b].result = "ok" => own = {blind[b].snapshot}

(* get_all_versions_from pairs each commitInfo with the version it is of,  *)
(* also when commits in between have none.                                 *)
VersionsPaired ==
    \A start \in 1..Version :
        LET answer == get_all_versions_from(start) IN
        /\ Len(answer.versions) = Len(answer.infos)
        /\ \A i \in DOMAIN answer.infos : log[answer.versions[i]].by = answer.infos[i]
=============================================================================
