---------------------------- MODULE BatchStream ----------------------------
(***************************************************************************)
(* Two streams of batches that can be read once.                           *)
(*                                                                         *)
(* ReceiverStreamBuilder: a blocking task drives the kernel's log replay   *)
(* and sends its batches through a bounded channel; the stream merges the  *)
(* channel with the outcome of the task.  Scan::scan_metadata,             *)
(* Scan::scan_metadata_from and Snapshot::tombstones all read the log this *)
(* way.  The reader may drop the stream at any time.                       *)
(*                                                                         *)
(* A source is [log, seed]: the batches the kernel reads from the log and  *)
(* the cached batches it then takes from the caller, in order; each is     *)
(* "ok", "error" (the kernel returns an error), "panic", or, in the seed,  *)
(* "bad" (it does not evaluate, which ends the seed early).                *)
(*                                                                         *)
(* LazyTableProvider: the data a Python caller writes or merges is an      *)
(* Arrow stream.  A plan over it may be executed more than once and by     *)
(* several partitions at a time; every execution asks the generator for a  *)
(* fresh state first.  A row is a number, a batch a sequence of rows; Kept *)
(* are the rows a pushed-down filter keeps.                                *)
(***************************************************************************)
EXTENDS Integers, Sequences, FiniteSets, SequencesExt

CONSTANTS
    Sources,     \* what there is to replay
    Capacity,    \* of the channel
    Executions,  \* executions of plans over the provider
    Batches,     \* the batches of the Arrow stream
    Kept,        \* rows the filter keeps
    Limits,      \* limits of the scan; NONE is none
    NONE

VARIABLES
    source,    \* what this stream reads
    at,        \* batches taken from it
    slot,      \* evaluation_error
    task,      \* "running", "ok", "error", "panic"
    chan,      \* batches sent and not yet received
    senders,   \* live clones of tx
    open,      \* the receiver is alive
    joined,    \* what the check future returned: "waiting", "nothing", "error", "panic"
    got,       \* batches received
    reader,    \* "reading", "ended", "failed", "panicked" or "dropped"
    arrow,     \* where the Arrow stream is: "source" or the execution that has it
    rest,      \* batches of it that are not delivered
    exec       \* the executions: status, the limit of their plan, the rows they delivered

bsvars == <<source, at, slot, task, chan, senders, open, joined, got, reader>>
lvars == <<arrow, rest, exec>>

Items == source.log \o source.seed
Expected == [i \in DOMAIN Items |-> i]
Faulty == \E i \in DOMAIN Items : Items[i] # "ok"

-----------------------------------------------------------------------------
(* The blocking task.  Its end drops its sender.                           *)

End(outcome) ==
    /\ task' = outcome
    /\ senders' = senders - 1
    /\ UNCHANGED <<chan, slot>>

(* The loop is over: an evaluation error cut the seed short, or nothing    *)
(* is left.                                                                *)
AtEnd_mutant(e) == "ok"
AtEnd(e) == IF e THEN "error" ELSE "ok"

Take ==
    /\ task = "running"
    /\ at < Len(Items)
    /\ LET item == Items[at + 1] IN
         \/ /\ item = "bad"
            /\ slot' = TRUE
            /\ at' = Len(Items)
            /\ UNCHANGED <<task, senders, chan>>
         \/ /\ item \in {"error", "panic"}
            /\ at' = at + 1
            /\ End(item)
         \/ /\ item = "ok" /\ ~open
            /\ at' = at + 1
            /\ End("ok")
         \/ /\ item = "ok" /\ open /\ Len(chan) < Capacity
            /\ at' = at + 1
            /\ chan' = Append(chan, at + 1)
            /\ UNCHANGED <<task, senders, slot>>
    /\ UNCHANGED <<source, open, joined, got, reader>>

Finish ==
    /\ task = "running"
    /\ at = Len(Items)
    /\ End(AtEnd(slot))
    /\ UNCHANGED <<source, at, open, joined, got, reader>>

-----------------------------------------------------------------------------
(* The stream: select of the receiver and the check, which is polled in    *)
(* turn while both are ready.                                              *)

ReceiverDone == chan = <<>> /\ senders = 0

Receive ==
    /\ reader = "reading"
    /\ chan # <<>>
    /\ got' = Append(got, Head(chan))
    /\ chan' = Tail(chan)
    /\ UNCHANGED <<source, at, slot, task, senders, open, joined, reader>>

Joined(outcome) == CASE outcome = "ok" -> "nothing" [] outcome = "error" -> "error"
                     [] outcome = "panic" -> "panic"

Check ==
    /\ reader = "reading"
    /\ joined = "waiting"
    /\ task # "running"
    /\ joined' = Joined(task)
    /\ reader' = CASE joined' = "error" -> "failed" [] joined' = "panic" -> "panicked"
                   [] OTHER -> reader
    /\ open' = (reader' = "reading")
    /\ UNCHANGED <<source, at, slot, task, chan, senders, got>>

EndOfStream ==
    /\ reader = "reading"
    /\ ReceiverDone
    /\ joined = "nothing"
    /\ reader' = "ended"
    /\ open' = FALSE
    /\ UNCHANGED <<source, at, slot, task, chan, senders, joined, got>>

(* Dropping the stream aborts the join set, which does not stop a blocking *)
(* task that runs, and closes the channel.                                 *)
DropStream ==
    /\ reader = "reading"
    /\ reader' = "dropped"
    /\ open' = FALSE
    /\ chan' = <<>>
    /\ UNCHANGED <<source, at, slot, task, senders, joined, got>>

-----------------------------------------------------------------------------
(* The Arrow stream behind a table provider.                               *)

(* ArrowStreamBatchGenerator::reset_state hands the stream to the first    *)
(* generator that asks and an ExhaustedStreamGenerator to every other.     *)
ResetState_mutant(e) ==
    /\ arrow' = arrow
    /\ exec' = [exec EXCEPT ![e].status = "running"]
ResetState(e) ==
    IF arrow = "source"
    THEN arrow' = e /\ exec' = [exec EXCEPT ![e].status = "running"]
    ELSE arrow' = arrow /\ exec' = [exec EXCEPT ![e].status = "exhausted"]

(* LazyTableProvider::scan plans filter, projection and limit over the     *)
(* generator; the execution of the plan resets the generator.              *)
Execute(e) ==
    /\ exec[e].status = "none"
    /\ ResetState(e)
    /\ UNCHANGED rest

(* The limit counts the rows the filter has let through.                   *)
ScanRows(e, batch) ==
    LET rows == exec[e].rows \o SelectSeq(batch, LAMBDA r : r \in Kept)
    IN  IF exec[e].limit # NONE /\ exec[e].limit < Len(rows) THEN SubSeq(rows, 1, exec[e].limit) ELSE rows

(* generate_next_batch: the next batch (cast by LazyCastReader), an error  *)
(* of the stream or of the cast, or the end.                               *)
GenerateNextBatch(e) ==
    /\ exec[e].status = "running"
    /\ rest # << >>
    /\ \/ /\ exec' = [exec EXCEPT ![e].rows = ScanRows(e, Head(rest))]
          /\ rest' = Tail(rest)
       \/ /\ exec' = [exec EXCEPT ![e].status = "error"]
          /\ rest' = Tail(rest)
    /\ UNCHANGED arrow

EndOfBatches(e) ==
    /\ exec[e].status = "running"
    /\ rest = << >> \/ (exec[e].limit # NONE /\ Len(exec[e].rows) = exec[e].limit)
    /\ exec' = [exec EXCEPT ![e].status = "ok"]
    /\ UNCHANGED <<arrow, rest>>

(* ExhaustedStreamGenerator::generate_next_batch.                          *)
Exhausted(e) ==
    /\ exec[e].status = "exhausted"
    /\ exec' = [exec EXCEPT ![e].status = "error"]
    /\ UNCHANGED <<arrow, rest>>

(* Plans differ in their limit.                                            *)
Plan(e) ==
    /\ exec[e].status = "none"
    /\ exec[e].limit = NONE
    /\ \E n \in Limits \ {NONE} : exec' = [exec EXCEPT ![e].limit = n]
    /\ UNCHANGED <<arrow, rest>>

-----------------------------------------------------------------------------
(* tx() clones the sender for the task; build drops the builder's own.     *)
Build_mutant == 2
Build == 1

(* to_lazy_table wraps the stream before any execution asks for it.        *)
ToLazyTable ==
    /\ arrow = "source"
    /\ rest = Batches
    /\ exec = [e \in Executions |-> [status |-> "none", limit |-> NONE, rows |-> << >>]]

Init ==
    /\ source \in Sources
    /\ at = 0 /\ slot = FALSE /\ task = "running"
    /\ chan = <<>> /\ senders = Build /\ open = TRUE
    /\ joined = "waiting" /\ got = <<>> /\ reader = "reading"
    /\ ToLazyTable

Next ==
    \/ (Take \/ Finish \/ Receive \/ Check \/ EndOfStream \/ DropStream) /\ UNCHANGED lvars
    \/ \E e \in Executions :
          /\ Plan(e) \/ Execute(e) \/ GenerateNextBatch(e) \/ EndOfBatches(e) \/ Exhausted(e)
          /\ UNCHANGED bsvars

Spec == Init /\ [][Next]_<<bsvars, lvars>>

-----------------------------------------------------------------------------
(* Properties.                                                             *)

(* A stream that ends without an error has delivered every batch, in       *)
(* order: an error of the kernel, and a cached batch that does not         *)
(* evaluate, are never taken for the end of the log.                       *)
EndedIsComplete == reader = "ended" => got = Expected /\ ~Faulty

(* A reader that waits always has something to wait for: the task still    *)
(* runs, or the channel, the check or the end of the stream is ready; and  *)
(* a task waits for room in the channel only while somebody reads.         *)
NeverStuck ==
    /\ reader = "reading" =>
          \/ chan # <<>>
          \/ task = "running"
          \/ joined = "waiting"
          \/ ReceiverDone /\ joined = "nothing"
    /\ task = "running" /\ Len(chan) = Capacity => reader = "reading"

Wanted(e) ==
    LET rows == SelectSeq(FlattenSeq(Batches), LAMBDA r : r \in Kept)
    IN  IF exec[e].limit # NONE /\ exec[e].limit < Len(rows) THEN SubSeq(rows, 1, exec[e].limit) ELSE rows

(* An execution that ends without an error has delivered the rows its scan *)
(* asks of the whole stream: "any later re-execution fails loudly rather   *)
(* than silently yielding no rows", and a limit does not cut rows the      *)
(* filter would have kept.                                                 *)
NoRowsMissing == \A e \in Executions : exec[e].status = "ok" => exec[e].rows = Wanted(e)
=============================================================================
