------------------------------ MODULE MCChanges ------------------------------
(***************************************************************************)
(* Small instances of CommitProtocol and LogRetention side by side.  about *)
(* says what races in a behaviour: operations that change a table's schema *)
(* or replace it, OPTIMIZE with a commit interval, writers under           *)
(* WriteSerializable, or commits, checkpoints and cleanups of the log: of  *)
(* two processes; of one on a longer log that stops, or a call of which    *)
(* fails; of one beside an engine that writes checkpoints in parts.        *)
(***************************************************************************)
EXTENDS Naturals, TLC

CONSTANTS
    Txns, Seed, k1, k2, d1,
    Procs,  \* two processes that commit to and maintain a log
    Proc,
    NONE

VARIABLES
    about, log,
    pc, tx, snap, latest, winner, attempt, bins, made, result,  \* CommitProtocol
    hint, committed, clock, op, faults                          \* LogRetention

protocol == <<pc, tx, snap, latest, winner, attempt, bins, made, result>>
retention == <<hint, committed, clock, op, faults>>
vars == <<about, log, protocol, retention>>

\* The protocol of a new table.
Legacy == [reader |-> 1, writer |-> 2, features |-> {}]

\* One that accepts domain metadata.
Featured == [reader |-> 1, writer |-> 7, features |-> {"domainMetadata"}]

Schema == INSTANCE CommitProtocol WITH
    Keys <- {k1}, AppIds <- {}, Domains <- {}, IsolationLevel <- "Serializable",
    BlindAppends <- {FALSE},
    Kinds <- {"append", "overwrite", "add_column", "update_field_metadata", "delete_all",
              "drop_column_not_null", "update_table_metadata", "filesystem_check",
              "create", "create_ignore", "create_or_replace"},
    CommitInterval <- FALSE, MaxRetries <- 2, SeedProtocols <- {Legacy},
    SeedKeys <- {{k1}}, StoreErrors <- FALSE
Optimize == INSTANCE CommitProtocol WITH
    Keys <- {k1, k2}, AppIds <- {}, Domains <- {d1}, IsolationLevel <- "Serializable",
    BlindAppends <- {FALSE}, Kinds <- {"append", "optimize", "delete"},
    CommitInterval <- TRUE, MaxRetries <- 2, SeedProtocols <- {Featured},
    SeedKeys <- {{k1}}, StoreErrors <- FALSE
WriteSerial == INSTANCE CommitProtocol WITH
    Keys <- {k1, k2}, AppIds <- {}, Domains <- {}, IsolationLevel <- "WriteSerializable",
    BlindAppends <- BOOLEAN, Kinds <- {"append", "delete", "update", "merge"},
    CommitInterval <- FALSE, MaxRetries <- 2, SeedProtocols <- {Legacy},
    SeedKeys <- {{k1}}, StoreErrors <- FALSE

Cleanups == INSTANCE LogRetention WITH
    Ops <- Procs, Interval <- 2, Retention <- 1, Prompt <- TRUE, MultiPart <- FALSE,
    MaxVersion <- 2, MaxTime <- 2, MaxFaults <- 0
Lagging == INSTANCE LogRetention WITH
    Ops <- {Proc}, Interval <- 2, Retention <- 1, Prompt <- TRUE, MultiPart <- FALSE,
    MaxVersion <- 3, MaxTime <- 2, MaxFaults <- 1
Parts == INSTANCE LogRetention WITH
    Ops <- {Proc}, Interval <- 1, Retention <- 1, Prompt <- TRUE, MultiPart <- TRUE,
    MaxVersion <- 1, MaxTime <- 2, MaxFaults <- 1

\* A behaviour about commits shows no files of the log, and conversely.
NoRetention == hint = NONE /\ committed = NONE /\ clock = NONE /\ op = NONE /\ faults = NONE
NoProtocol ==
    /\ pc = NONE /\ tx = NONE /\ snap = NONE /\ latest = NONE /\ winner = NONE
    /\ attempt = NONE /\ bins = NONE /\ made = NONE /\ result = NONE

Init ==
    \/ about = "schema" /\ Schema!Init /\ NoRetention
    \/ about = "optimize" /\ Optimize!Init /\ NoRetention
    \/ about = "writers" /\ WriteSerial!Init /\ NoRetention
    \/ about = "cleanups" /\ Cleanups!Init /\ NoProtocol
    \/ about = "lagging" /\ Lagging!Init /\ NoProtocol
    \/ about = "parts" /\ Parts!Init /\ NoProtocol

\* Every process returned the error that the files it needed are gone.
Returned(procs) ==
    (\A o \in procs : op[o].pc = "lost") /\ UNCHANGED <<log, protocol, retention>>

Next ==
    /\ UNCHANGED about
    /\ \/ about = "schema" /\ Schema!Next /\ UNCHANGED retention
       \/ about = "optimize" /\ Optimize!Next /\ UNCHANGED retention
       \/ about = "writers" /\ WriteSerial!Next /\ UNCHANGED retention
       \/ about = "cleanups" /\ Cleanups!Next /\ UNCHANGED protocol
       \/ about = "lagging" /\ Lagging!Next /\ UNCHANGED protocol
       \/ about = "parts" /\ Parts!Next /\ UNCHANGED protocol
       \/ about = "cleanups" /\ Returned(Procs)
       \/ about \in {"lagging", "parts"} /\ Returned({Proc})

Spec == Init /\ [][Next]_vars

\* Invocations are interchangeable, and so are the two processes.
Symmetric == Permutations(Txns) \cup Permutations(Procs)

-----------------------------------------------------------------------------
\* check_conflicts: what a commit was planned on still holds in the version it lands
\* in.  While schemas and whole tables are replaced it removes active files only and
\* finds the metadata of its snapshot; OPTIMIZE in several commits that carry the
\* domain of its caller loses no update of it and does not give up because of appends.
PlansStillHold ==
    /\ about = "schema" => Schema!RemovesAreLive /\ Schema!MetadataStable
    /\ about = "optimize" => Optimize!OptimizeSurvivesAppends /\ Optimize!NoLostUpdate

\* At WriteSerializable the log is serial but for the blind appends a commit did
\* not read.
SerialButForBlindAppends == about = "writers" => WriteSerial!SerialButForBlindAppends

\* LogRetention: cleanup beside commits, checkpoints and failing calls leaves the
\* latest version and every version inside the retention readable, a process fails
\* for want of log files only on a version that had expired, and no deletion lets
\* put-if-absent write a version a second time.
RetainedReadable ==
    /\ about = "cleanups" => /\ Cleanups!RetainedReadable
                             /\ Cleanups!LosesOnlyExpired
                             /\ Cleanups!VersionWrittenOnce
    /\ about = "lagging" => /\ Lagging!RetainedReadable
                            /\ Lagging!LosesOnlyExpired
                            /\ Lagging!VersionWrittenOnce
    /\ about = "parts" => Parts!CompletePartsReadable
=============================================================================
