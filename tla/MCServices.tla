----------------------------- MODULE MCServices -----------------------------
(***************************************************************************)
(* Small instances of the modules around the transaction log: how a log is *)
(* read into files and written into entries, protocol and features, table  *)
(* providers, the tasks and buffers of a write, the Python objects,        *)
(* handles and their caches, and the catalogs, credentials and stores      *)
(* behind them. about says which of them a behaviour shows; the variables  *)
(* of the others stay NONE.                                                *)
(***************************************************************************)
EXTENDS Integers, Sequences, FiniteSets, SequencesExt, TLC

CONSTANTS
    c1, c2,              \* clients, builders, threads, tasks, callers, executions
    t1, p1,              \* a blind writer, a table provider
    Absent, AnyValue, NONE

VARIABLES
    about,
    log, writer, schema, last, handle, provider, plan, input, task, chan, files, faults,
    source, at, slot, senders, open, joined, got, reader, arrow, rest, exec, calls, buffer,
    upload, written, errors, closed, info, settings, clock, cached, holder, caller, listing,
    list, current, made, cache, creds,  \* shared
    contents, struct, snap, answer,  \* FileViews
    blind,  \* LogEntries
    version, protocol, conf, winners, snapshot,  \* ProtocolFeatures
    seen,  \* TableProvider
    pend, main, result,  \* WriteStreams
    next, done, writers, evolve, failed, reported, table,  \* BufferedWriter
    state, mutex, gil, th,  \* PythonTable
    times, first, checkpoints, hint, wire, readset, asked, steps,  \* Snapshots
    entry, storage, allocated, entered, client, commits,  \* CatalogTable
    objects, logs, registered, request, store, used,  \* StoreConfig
    kind, stores, legacy  \* SessionStores

views_vars == <<contents, struct, snap, answer>>
entries_vars == <<blind>>
protocol_vars == <<version, protocol, conf, winners, snapshot>>
provider_vars == <<seen>>
streams_vars == <<pend, main, result>>
buffered_vars == <<next, done, writers, evolve, failed, reported, table>>
python_vars == <<state, mutex, gil, th>>
handles_vars == <<times, first, checkpoints, hint, wire, readset, asked, steps>>
catalogue_vars == <<entry, storage, allocated, entered, client, commits>>
config_vars == <<objects, logs, registered, request, store, used>>
session_vars == <<kind, stores, legacy>>

vars == <<about, log, writer, schema, last, handle, provider, plan, input, task, chan,
          files, faults, source, at, slot, senders, open, joined, got, reader, arrow, rest,
          exec, calls, buffer, upload, written, errors, closed, info, settings, clock,
          cached, holder, caller, listing, list, current, made, cache, creds, views_vars,
          entries_vars, protocol_vars, provider_vars, streams_vars, buffered_vars,
          python_vars, handles_vars, catalogue_vars, config_vars, session_vars>>

-----------------------------------------------------------------------------
(* Three commits of files this library and another engine wrote, a path    *)
(* with an escaped character, a deletion vector and a checkpoint in        *)
(* between.                                                                *)

Path(f, c, l) == [file |-> f, char |-> c, level |-> l]

Views == INSTANCE FileViews WITH
    Written <- {Path("a", "colon", 1)},
    Foreign <- {<<Path("c", "space", 0), Path("c", "space", 1)>>, <<Path("d", "colon", 0), Path("d", "colon", 0)>>},
    StatsOf <- [f \in {"a", "b", "c", "d"} |-> [numRecords |-> 3, x |-> 1, y |-> 2]],
    ValuesOf <- [a |-> "v", b |-> "null", c |-> "missing", d |-> "v"],
    StatFields <- <<"numRecords", "x", "y">>, Predicates <- {"y"}, Vectors <- {<<"u", 1>>},
    Target <- 2, MaxVersion <- 3

-----------------------------------------------------------------------------
(* Two commit builders and a blind writer, each losing a version or two to *)
(* the other.                                                              *)

Typed(t, x) == [type |-> t, value |-> x]
Asks(python, meta, provided, s) == [python |-> python, meta |-> meta, provided |-> provided, schema |-> s]

Entries == INSTANCE LogEntries WITH
    Builders <- {c1, c2}, Blinds <- {t1},
    Requests <-
      {Asks(FALSE, [userId |-> Typed("string", "u"), operation |-> Typed("string", "x")],
            [note |-> Typed("integer", 1), readVersion |-> Typed("integer", 7)], NONE),
       Asks(TRUE, [isBlindAppend |-> Typed("string", "yes"), note |-> Typed("string", "n")], NONE, NONE),
       Asks(TRUE, [operationParameters |-> Typed("object", {<<"mode", "mine">>, <<"k", "v">>}),
                   txnId |-> Typed("string", "t")], NONE, "s1")},
    Clocks <- {2}, MaxRetries <- 1, BlindRetries <- 2, MaxVersion <- 3

-----------------------------------------------------------------------------
(* Two clients that set properties, add features, constraints and columns  *)
(* from the snapshots they hold.                                           *)

Property(k, v) == [x \in {k} |-> v]

Protocols == INSTANCE ProtocolFeatures WITH
    Clients <- {c1, c2},
    Configurations <- {Property("changeDataFeed", "true"), Property("deletionVectors", "true"),
                       Property("appendOnly", "true"), Property("v2Checkpoint", "v2"), Property("minWriterVersion", "7"), Property("minReaderVersion", "3"),
                       Property("unknown", "x")},
    Features <- {"domainMetadata", "deletionVectors"},
    Schemas <- {{"long"}, {"timestampNtz"}, {"array of timestampNtz", "long"}, {"long", "map of timestampNtz", "map to variantType"}, {"invariant"}, {"generated"}},
    MaxVersion <- 2

-----------------------------------------------------------------------------
(* A provider of a table, built in eight ways, scanned, encoded, decoded   *)
(* and inserted into while other writers change the table; the root of a   *)
(* second table begins with the name of the first.                         *)

Roots == [t |-> <<"/", "t">>, u |-> <<"/", "t", "2">>]
Ask(snap_, log_, v, user, sel, col, res) ==
    [snapshot |-> snap_, store |-> log_, version |-> v, user |-> user, selection |-> sel, column |-> col, resolve |-> res]
Sel(paths, ignore) == [paths |-> paths, ignore |-> ignore]

Provider == INSTANCE TableProvider WITH
    Tables <- {"t", "u"}, Shared <- {"t"}, Root <- Roots, Names <- <<"f1", "f2", "f3", "f4">>, Providers <- {p1},
    Requests <-
      {Ask("t", "t", NONE, NONE, NONE, NONE, FALSE), Ask("t", "t", 1, "user", NONE, "path", FALSE),
       Ask("t", NONE, NONE, NONE, Sel({<<"f1">>}, FALSE), "auto", TRUE),
       Ask("t", NONE, NONE, NONE, NONE, "path", TRUE),
       Ask(NONE, "t", 1, NONE, Sel({<<"f2">>, <<"/", "t", "/", "f1">>}, TRUE), NONE, FALSE),
       Ask(NONE, "t", NONE, "user", Sel({<<"/", "t", "2", "/", "f1">>}, TRUE), NONE, FALSE),
       Ask("t", "u", NONE, NONE, NONE, NONE, FALSE), Ask(NONE, NONE, NONE, NONE, NONE, NONE, FALSE)},
    Inserts <- {{"ok"}, {"bad"}}, Changes <- {"check", "feature", "path", "path_1"},
    MaxVersion <- [t |-> 3, u |-> 1]

-----------------------------------------------------------------------------
(* Writes of two streams through channels of one batch, with up to two     *)
(* failures among streams, writers and uploads.                            *)

Change(i, p, c) == [id |-> i, part |-> p, change |-> c]
I(i) == Change(i, "a", "insert")
J(i) == Change(i, "b", "insert")
Rows == << << <<I(1), J(2), I(3)>>, <<I(4)>> >>, << <<J(5), I(6)>> >> >>

Streams == INSTANCE WriteStreams WITH
    Inputs <-
      {[kind |-> "single", cdc |-> FALSE, streams |-> Rows], [kind |-> "parallel", cdc |-> FALSE, streams |-> Rows],
       [kind |-> "parallel", cdc |-> TRUE,
        streams |-> << << <<I(1), Change(2, "b", "copy"), Change(3, "a", "delete")>>, <<Change(4, "b", "source_delete")>> >>,
                       << <<Change(5, "a", "update_preimage"), Change(6, "a", "update_postimage")>> >> >>],
       [kind |-> "fan_in", cdc |-> TRUE,
        streams |-> << << <<I(1), Change(2, "a", "copy"), Change(3, "a", "delete")>>, <<Change(4, "a", "source_delete")>> >>,
                       << <<Change(5, "a", "update_preimage"), Change(6, "a", "update_postimage")>> >> >>]},
    ChannelSize <- 1, BatchRows <- 2, TargetRows <- 2, MaxFaults <- 2

-----------------------------------------------------------------------------
(* Three writes of a RecordBatchWriter or a JsonWriter in two partitions,  *)
(* with schema evolution, bad rows and two failures.                       *)

Good(i, p) == [id |-> i, part |-> p, bad |-> FALSE]
Bad(i, p) == [id |-> i, part |-> p, bad |-> TRUE]
Batch(c, rs) == [cols |-> c, rows |-> rs]
Always(m) == <<m, m, m>>

Buffered == INSTANCE BufferedWriter WITH
    Plans <-
      {[kind |-> "batch", modes |-> Always(m),
        batches |-> <<Batch({"x"}, <<Good(1, 1), Good(2, 2), Good(3, 1)>>), Batch(c, <<Good(4, 1), Good(5, 2)>>),
                      Batch(c, <<Good(6, 2)>>)>>] : m \in {"Default", "MergeSchema"}, c \in {{"x"}, {"x", "y"}}}
      \cup
      {[kind |-> "json", modes |-> Always("Default"),
        batches |-> <<Batch({"x"}, <<Good(1, 1), Good(2, 2), Bad(3, 1)>>), Batch({"x"}, <<Good(4, 1), Bad(5, 1), Good(6, 2)>>),
                      Batch({"x"}, rs)>>] :
          rs \in {<<Good(7, 1), Good(8, 2)>>, <<Bad(7, 2), Good(8, 1)>>, <<Bad(7, 1), Good(8, 2), Good(9, 1)>>}},
    BaseCols <- {"x"}, MaxFaults <- 2

-----------------------------------------------------------------------------
(* Log replay on a blocking task behind a channel of one batch, with       *)
(* errors and panics anywhere.                                             *)

Replay == INSTANCE BatchStream WITH
    Sources <- [log : SeqOf({"ok"}, 2), seed : SeqOf({"ok", "bad"}, 2)]
               \cup [log : {s \in SeqOf({"ok", "error", "panic"}, 3) : Len(s) > 1}, seed : {<< >>}],
    Capacity <- 1, Executions <- {}, Batches <- << >>, Kept <- {}, Limits <- {}

-----------------------------------------------------------------------------
(* Two executions over one Arrow stream of three batches.                  *)

Lazy == INSTANCE BatchStream WITH
    Sources <- {[log |-> << >>, seed |-> << >>]}, Capacity <- 1,
    Executions <- {c1, c2}, Batches <- << <<1, 2>>, <<3>>, <<4, 5>> >>, Kept <- {2, 3, 5}, Limits <- {NONE, 1, 2}

-----------------------------------------------------------------------------
(* Two threads that call methods of one DeltaTable object: one method of   *)
(* each kind of locking.                                                   *)

Python == INSTANCE PythonTable WITH
    Threads <- {c1, c2}, Limits <- {NONE, 1}, MaxVersion <- 3, MaxCalls <- 1,
    Methods <- {"load_as_version", "deletion_vectors", "history", "restore", "to_pandas", "cleanup_metadata", "compact",
                "write_deltalake", "write_to_deltalake", "convert_to_deltalake", "merge_executed_twice"}

-----------------------------------------------------------------------------
(* Writes and reads of four bytes through a buffer of two.                 *)

PyFiles == INSTANCE PythonFiles WITH
    MaxBufferSize <- 2, WriteSizes <- {1, 3}, MaxBytes <- 4, ReadSizes <- {NONE, 0, 2, 3}, Offsets <- {0, 1, 4}, MaxCalls <- 3,
    Paths <- {<<"o">>}, Out <- <<"o">>, Stored <- {}, KnownSizes <- << >>, Dirs <- {}

-----------------------------------------------------------------------------
(* Three calls on a file system with a file at the top and files in two    *)
(* nested directories.                                                     *)

PyDirs == INSTANCE PythonFiles WITH
    MaxBufferSize <- 2, WriteSizes <- {1}, MaxBytes <- 1, ReadSizes <- {NONE}, Offsets <- {1}, MaxCalls <- 3,
    Paths <- {<<"c">>, <<"d", "a">>, <<"d", "e", "b">>}, Out <- <<"d", "a">>, Stored <- {<<"c">>, <<"d", "e", "b">>},
    KnownSizes <- [p \in {<<"c">>} |-> 2], Dirs <- {<< >>, <<"d">>, <<"d", "e">>}

-----------------------------------------------------------------------------
(* Three steps of a handle on a table of two versions with checkpoints and *)
(* cleanup in between.                                                     *)

Handles == INSTANCE Snapshots WITH
    Times <- {1, 3, 4}, Clocks <- {<<2, 4>>, <<2, 2>>}, MaxVersion <- 2, MaxSteps <- 3

-----------------------------------------------------------------------------
(* Two callers of one token cache, with settings for each of the           *)
(* providers.                                                              *)

Page(i, n) == [items |-> i, next |-> n]

Tokens == INSTANCE UnityClient WITH
    Settings <- {{"workspace_url"} \cup s : s \in
      {{"token"}, {"client"}, {"client", "authority_id"}, {"use_azure_cli"},
       {"token_credential", "token"}}},
    Callers <- {c1, c2}, Margin <- 1, Lifetimes <- {2}, MaxClock <- 3,
    Tasks <- {}, First <- "", MaxTables <- 0, MaxCalls <- 0, Listings <- {[k \in {""} |-> Page(<<1>>, NONE)]}

-----------------------------------------------------------------------------
(* Listings of several pages, one with tokens in a cycle, and two tasks    *)
(* that look up a table which is dropped and created again.                *)

Unity == INSTANCE UnityClient WITH
    Settings <- {{"token", "workspace_url"}}, Callers <- {}, Margin <- 1, Lifetimes <- {}, MaxClock <- 0,
    Tasks <- {c1, c2}, First <- "", MaxTables <- 2, MaxCalls <- 1,
    Listings <-
      {[k \in {"", "a", "b"} |-> IF k = "" THEN Page(<<1>>, "a") ELSE IF k = "a" THEN Page(<<2, 3>>, "b") ELSE Page(<<4>>, NONE)],
       [k \in {"", "a", "b"} |-> IF k = "" THEN Page(<<1>>, "a") ELSE IF k = "a" THEN Page(<<2>>, "b") ELSE Page(<<3>>, "a")],
       [k \in {""} |-> Page(<<1>>, NONE)]}

-----------------------------------------------------------------------------
(* Two clients that create, open and commit to a managed table of one      *)
(* name.                                                                   *)

Props(x, y) == [k \in {"ict", "user"} |-> IF k = "ict" THEN x ELSE y]
Request(x, y, f) == [props |-> Props(x, y), features |-> f]
Update(p, c, d, r) == [props |-> p, comment |-> c, domain |-> d, removed |-> r]
NoProps == [k \in {} |-> Absent]

Catalogue == INSTANCE CatalogTable WITH
    Clients <- {c1, c2}, Any <- AnyValue,
    Requests <- {Request(Absent, "u", {}), Request("on", "u", {"f"}), Request("on", "u", {"g"}),
                 Request("off", "u", {}), Request("on", Absent, {})},
    Required <- Props("on", AnyValue), RequiredFeatures <- {"cm"}, Supported <- {"cm", "f"},
    Changes <- {Update([k \in {"user"} |-> Absent], "x", NONE, FALSE),
                Update([k \in {"user"} |-> "v"], Absent, "delta.clustering", FALSE),
                Update(NoProps, "x", "delta.clustering", TRUE), Update(NoProps, "x", "delta.other", FALSE)},
    MaxTables <- 2, MaxCommits <- 1

-----------------------------------------------------------------------------
(* Tables of every kind of store, with every combination of a few options  *)
(* in the call and in the environment.                                     *)

Maps(ks) == UNION {[K -> {"v"}] : K \in SUBSET ks}
Azure == Maps({"access_key", "client_id", "client_secret", "authority_id", "federated_token_file"})
S3 == Maps({"access_key_id", "aws_endpoint", "aws_s3_locking_provider", "aws_iam_role_arn"})
Gcp == Maps({"service_account_key", "application_credentials", "google_bucket"})
Rename == UNION {[K -> {"true", "false"}] : K \in SUBSET {"allow_unsafe_rename"}}
Sections == UNION {[K -> {"good", "bad"}] : K \in SUBSET {"runtime", "limit", "certificate", "retry"}}
Nothing == [x \in {} |-> "v"]
Wants(s, O, E) == [scheme : {s}, options : O, env : E, backend : {FALSE}]
Route(c, e) == [root |-> c, endpoint |-> e]
Routes == {NONE, <<Route(<<"b", "x">>, "e1"), Route(<<"b", "y">>, "e2")>>, <<Route(<<"b", "x">>, "e1"), Route(<<"b">>, "e2")>>,
           <<Route(<<"b", "x">>, "insecure")>>}
Vendable == {[k \in {"access_key_id", "secret_access_key", "session_token"} |-> "vended"]}

Config == INSTANCE StoreConfig WITH
    Crates <- {"aws", "azure", "gcp", "mount", "opendal"}, Services <- {"s3", "memory", "ftp", "fs"},
    Lifetimes <- {0, 1}, MaxClock <- 2,
    Managed <- [options : Maps({"access_key_id", "aws_endpoint"}), routes : Routes, env : S3, vended : Vendable,
                location : {<<"b", "x", "t">>, <<"b", "xy">>, <<"b", "y">>}],
    Requests <- Wants(<<"az">>, Azure, Azure) \cup Wants(<<"s3">>, S3, S3) \cup Wants(<<"gs">>, Gcp, Gcp)
                \cup Wants(<<"file">>, Rename, Rename) \cup Wants(<<"dbfs">>, Rename, Rename)
                \cup Wants(<<"memory">>, Sections, {Nothing}) \cup Wants(<<"opendal", "s3">>, {Nothing}, {Nothing})
                \cup Wants(<<"ftp">>, {Nothing}, {Nothing})
                \cup [scheme : {<<"memory">>}, options : Sections, env : {Nothing}, backend : {TRUE}]

-----------------------------------------------------------------------------
(* Three tables of one origin, one nested in another and one whose name    *)
(* reads like the nested path, in sessions of delta-rs and of the caller.  *)

Session == INSTANCE SessionStores WITH
    Tables <- {<< <<"a">> >>, << <<"a">>, <<"b">> >>, << <<"a", "b">> >>}, File <- <<"f">>, MaxRenewals <- 1,
    Policies <- {"DeriveFromTrait", "RequireSessionState"}

-----------------------------------------------------------------------------
No_views == contents = NONE /\ struct = NONE /\ snap = NONE /\ answer = NONE
No_entries == blind = NONE
No_protocol == version = NONE /\ protocol = NONE /\ conf = NONE /\ winners = NONE /\
    snapshot = NONE
No_provider == seen = NONE
No_streams == pend = NONE /\ main = NONE /\ result = NONE
No_buffered == next = NONE /\ done = NONE /\ writers = NONE /\ evolve = NONE /\
    failed = NONE /\ reported = NONE /\ table = NONE
No_python == state = NONE /\ mutex = NONE /\ gil = NONE /\ th = NONE
No_handles == times = NONE /\ first = NONE /\ checkpoints = NONE /\ hint = NONE /\
    wire = NONE /\ readset = NONE /\ asked = NONE /\ steps = NONE
No_catalogue == entry = NONE /\ storage = NONE /\ allocated = NONE /\ entered = NONE /\
    client = NONE /\ commits = NONE
No_config == objects = NONE /\ logs = NONE /\ registered = NONE /\ request = NONE /\
    store = NONE /\ used = NONE
No_session == kind = NONE /\ stores = NONE /\ legacy = NONE

Subjects == {"views", "entries", "protocol", "provider", "streams", "buffered", "replay",
    "lazy", "python", "pyfiles", "pydirs", "handles", "tokens", "unity", "catalogue",
    "config", "session"}

Init ==
    /\ about \in Subjects
    /\ IF about = "views" THEN Views!Init ELSE No_views
    /\ IF about = "entries" THEN Entries!Init ELSE No_entries
    /\ IF about = "protocol" THEN Protocols!Init ELSE No_protocol
    /\ IF about = "provider" THEN Provider!Init ELSE No_provider
    /\ IF about = "streams" THEN Streams!Init ELSE No_streams
    /\ IF about = "buffered" THEN Buffered!Init ELSE No_buffered
    /\ about = "replay" => Replay!Init
    /\ about = "lazy" => Lazy!Init
    /\ IF about = "python" THEN Python!Init ELSE No_python
    /\ about = "pyfiles" => PyFiles!Init
    /\ about = "pydirs" => PyDirs!Init
    /\ IF about = "handles" THEN Handles!Init ELSE No_handles
    /\ about = "tokens" => Tokens!Init
    /\ about = "unity" => Unity!Init
    /\ IF about = "catalogue" THEN Catalogue!Init ELSE No_catalogue
    /\ IF about = "config" THEN Config!Init ELSE No_config
    /\ IF about = "session" THEN Session!Init ELSE No_session
    /\ about \notin {"views", "entries", "provider", "python", "handles"} => log = NONE
    /\ about \notin {"entries", "streams"} => writer = NONE
    /\ about \notin {"protocol", "buffered"} => schema = NONE
    /\ about \notin {"protocol", "provider", "session"} => last = NONE
    /\ about \notin {"provider", "handles"} => handle = NONE
    /\ about \notin {"provider", "tokens", "unity"} => provider = NONE
    /\ about \notin {"streams", "buffered"} => plan = NONE /\ faults = NONE
    /\ about \notin {"streams", "pyfiles", "pydirs"} => input = NONE /\ files = NONE
    /\ about \notin {"streams", "replay", "lazy", "tokens", "unity", "session"} => task = NONE
    /\ about \notin {"streams", "replay", "lazy"} => chan = NONE
    /\ about \notin {"replay", "lazy"} => source = NONE /\ at = NONE /\ slot = NONE /\ senders = NONE /\ open = NONE /\ joined = NONE /\ reader = NONE /\ arrow = NONE /\ rest = NONE /\ exec = NONE
    /\ about \notin {"replay", "lazy", "pyfiles", "pydirs"} => got = NONE
    /\ about \notin {"python", "pyfiles", "pydirs", "tokens", "unity"} => calls = NONE
    /\ about \notin {"pyfiles", "pydirs"} => buffer = NONE /\ upload = NONE /\ written = NONE /\ errors = NONE /\ closed = NONE /\ info = NONE
    /\ about \notin {"tokens", "unity"} => settings = NONE /\ cached = NONE /\ holder = NONE /\ caller = NONE /\ listing = NONE /\ list = NONE /\ current = NONE /\ made = NONE
    /\ about \notin {"tokens", "unity", "config"} => clock = NONE /\ cache = NONE
    /\ about \notin {"tokens", "unity", "session"} => creds = NONE

Next ==
    /\ UNCHANGED about
    /\ IF about = "views" THEN Views!Next ELSE UNCHANGED views_vars
    /\ IF about = "entries" THEN Entries!Next ELSE UNCHANGED entries_vars
    /\ IF about = "protocol" THEN Protocols!Next ELSE UNCHANGED protocol_vars
    /\ IF about = "provider" THEN Provider!Next ELSE UNCHANGED provider_vars
    /\ IF about = "streams" THEN Streams!Next ELSE UNCHANGED streams_vars
    /\ IF about = "buffered" THEN Buffered!Next ELSE UNCHANGED buffered_vars
    /\ about = "replay" => Replay!Next
    /\ about = "lazy" => Lazy!Next
    /\ IF about = "python" THEN Python!Next ELSE UNCHANGED python_vars
    /\ about = "pyfiles" => PyFiles!Next
    /\ about = "pydirs" => PyDirs!Next
    /\ IF about = "handles" THEN Handles!Next ELSE UNCHANGED handles_vars
    /\ about = "tokens" => Tokens!Next
    /\ about = "unity" => Unity!Next
    /\ IF about = "catalogue" THEN Catalogue!Next ELSE UNCHANGED catalogue_vars
    /\ IF about = "config" THEN Config!Next ELSE UNCHANGED config_vars
    /\ IF about = "session" THEN Session!Next ELSE UNCHANGED session_vars
    /\ about \notin {"views", "entries", "provider", "python", "handles"} => UNCHANGED log
    /\ about \notin {"entries", "streams"} => UNCHANGED writer
    /\ about \notin {"protocol", "buffered"} => UNCHANGED schema
    /\ about \notin {"protocol", "provider", "session"} => UNCHANGED last
    /\ about \notin {"provider", "handles"} => UNCHANGED handle
    /\ about \notin {"provider", "tokens", "unity"} => UNCHANGED provider
    /\ about \notin {"streams", "buffered"} => UNCHANGED <<plan, faults>>
    /\ about \notin {"streams", "pyfiles", "pydirs"} => UNCHANGED <<input, files>>
    /\ about \notin {"streams", "replay", "lazy", "tokens", "unity", "session"} => UNCHANGED task
    /\ about \notin {"streams", "replay", "lazy"} => UNCHANGED chan
    /\ about \notin {"replay", "lazy"} => UNCHANGED <<source, at, slot, senders, open, joined, reader, arrow, rest, exec>>
    /\ about \notin {"replay", "lazy", "pyfiles", "pydirs"} => UNCHANGED got
    /\ about \notin {"python", "pyfiles", "pydirs", "tokens", "unity"} => UNCHANGED calls
    /\ about \notin {"pyfiles", "pydirs"} => UNCHANGED <<buffer, upload, written, errors, closed, info>>
    /\ about \notin {"tokens", "unity"} => UNCHANGED <<settings, cached, holder, caller, listing, list, current, made>>
    /\ about \notin {"tokens", "unity", "config"} => UNCHANGED <<clock, cache>>
    /\ about \notin {"tokens", "unity", "session"} => UNCHANGED creds

Spec == Init /\ [][Next]_vars

-----------------------------------------------------------------------------
\* FileViews: the files a snapshot lists are those the commits so far leave,
\* each under the object that was written and in its own partition, and no
\* statistic of them is one the file does not have, whichever replay, cache,
\* checkpoint or projection it went through.
LogReadAsWritten ==
    about = "views" => /\ Views!LiveAsCommitted
                       /\ Views!ViewsNameTheirObject
                       /\ Views!StatsSound
                       /\ Views!AddActionsComplete

\* LogEntries: whatever versions a builder loses and whatever metadata a
\* caller adds, the commitInfo it writes has every key once, the retries it
\* counts and a later in-commit timestamp than the version it read; a blind
\* append lands once, under the schema of its files.
EntriesSound ==
    about = "entries" => /\ Entries!InfoKeysOnce
                         /\ Entries!PythonMetadataKept
                         /\ Entries!TimesOrdered
                         /\ Entries!RetriesCounted
                         /\ Entries!BlindAppendsSound
                         /\ Entries!VersionsPaired

\* ProtocolFeatures: whatever several clients commit from the snapshots they
\* hold, protocol versions never fall and a listed feature stays listed,
\* feature lists fit the versions and, but for timestamps in maps, the types
\* of the columns, and a property that an operation switches on is in effect
\* under the protocol it commits.
SupportNeverShrinks ==
    [][about = "protocol" => /\ (Protocols!ListsMatchVersions)'
                             /\ (Protocols!ColumnsWritable)'
                             /\ Protocols!SupportNeverShrinks
                             /\ Protocols!SwitchedOnIsInEffect]_vars

\* TableProvider: a provider gives the answer of its first scan whatever is
\* committed in between and wherever it was encoded and decoded; it takes
\* files and roots of its own table only, and an INSERT through it removes
\* exactly the rows it shows, or none.
ProvidersFaithful ==
    [][about = "provider" => /\ (Provider!ScansRepeat)'
                             /\ (Provider!OutsideRefused)'
                             /\ (Provider!SameTableAccepted)'
                             /\ (Provider!RemovesOwnFiles)'
                             /\ (Provider!FileColumnNew)'
                             /\ Provider!InsertExact]_vars

\* WriteStreams, BatchStream, PythonFiles: whichever task, stream, upload or
\* reader fails, what ends without an error has passed on everything in order
\* and once, and what a failed write leaves running has been aborted.
StreamsComplete ==
    /\ about = "streams" => /\ Streams!SuccessIsComplete
                            /\ Streams!WriterErrorReported
                            /\ Streams!NothingLeftAlone
    /\ about = "replay" => Replay!EndedIsComplete
    /\ about = "lazy" => Lazy!NoRowsMissing
    /\ about = "pyfiles" => /\ PyFiles!UploadedExactly
                            /\ PyFiles!BufferBounded
                            /\ PyFiles!ReadsContiguous
    /\ about = "pydirs" => /\ PyDirs!ListingComplete
                           /\ PyDirs!ReadsContiguous

\* WriteStreams, BatchStream, PythonTable: tasks behind bounded channels,
\* their writer and their caller, and threads behind a mutex and the
\* interpreter lock never all wait on each other, whichever of them fails or
\* goes away.
NeverBlocked ==
    /\ about = "streams" => Streams!NeverStuck
    /\ about = "replay" => Replay!NeverStuck
    /\ about = "python" => Python!NeverBlocked

\* BufferedWriter: no commit has a row twice, and a caller that writes again
\* what failed has one in two commits only if a call failed whose commit is in
\* the log; every row of a batch that was committed is in the table under a
\* schema with its columns, and a JSON write that reports skipped rows has
\* buffered the others.
BufferedRowsKept ==
    [][about = "buffered" => /\ (Buffered!NoRowTwice)'
                             /\ (Buffered!BatchRowsCommitted)'
                             /\ (Buffered!EvolvedSchemaCommitted)'
                             /\ Buffered!PartialWriteExact]_vars

\* Snapshots, PythonTable: the cache a handle reads from holds exactly the
\* files of its version, whatever updates, time travel, round trips,
\* checkpoints and cleanup led to it; an update never goes back; and what a
\* Python call assembles from several reads belongs to one version.
HandlesCurrent ==
    /\ about = "handles" => /\ Handles!CacheCurrent
                            /\ Handles!ReadSetComplete
                            /\ Handles!UpdateAdoptsCheckpoint
                            /\ Handles!TravelledTo
    /\ about = "python" => /\ Python!ClonedTogether
                           /\ Python!HistoryOfLatest

\* UnityClient, CatalogTable, SessionStores: a token or credential is still
\* valid when it is used, and is one for the table, the location and the
\* operation it is used for, although tables are dropped and created again and
\* stores of one origin share a registry.
CredentialsFit ==
    [][/\ about = "tokens" => (Tokens!TokenUsable)'
       /\ about = "unity" => (Unity!LocationHasItsCredentials)'
       /\ about = "catalogue" => (Catalogue!OpenedWhatWasAsked)'
       /\ about = "session" => /\ (Session!ChangesOfTheTable)'
                               /\ Session!OwnCredentials
                               /\ Session!NoCopyAcrossTables]_vars

\* CatalogTable, UnityClient: the catalog's copy of a table's metadata is that
\* of its log, a table enters it with what the catalog requires, a creator
\* that lost the race does not keep its staged table, and a listing that ends
\* has every item once.
CatalogTruthful ==
    /\ about = "catalogue" => /\ Catalogue!CatalogMetadataCurrent
                              /\ Catalogue!RequiredAsCreated
                              /\ Catalogue!OpenedWasCatalogued
    /\ about = "unity" => Unity!ListedOnce

\* StoreConfig: whatever the environment holds and whichever backends are
\* registered in whichever order, the options of the caller decide: the
\* backend, the whole of the credentials, unsafe creates; and no request is
\* signed with a credential that has expired.
OptionsRespected ==
    about = "config" => /\ Config!NativeBackendServes
                        /\ Config!OptionsRespected
                        /\ Config!CredentialOfTheCaller
                        /\ Config!UnsafeOnlyWhenAllowed
                        /\ Config!ChainOnlyForAws
                        /\ Config!ManagedAsVended
                        /\ Config!CredentialLive
=============================================================================
