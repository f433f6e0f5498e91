---------------------------- MODULE WriteStreams ----------------------------
(***************************************************************************)
(* The write of an execution plan's output streams into Parquet files:     *)
(* operations/write/execution.rs and operations/write/writer.rs.           *)
(*                                                                         *)
(* A write has one task per stream.  Three topologies exist:               *)
(*   "single"    write_streams: the stream tasks send their batches over a *)
(*               bounded channel to one writer task (the data sink);       *)
(*   "parallel"  write_streams_parallel: every stream task owns a writer   *)
(*               (write_data_plan), or a pair of writers when change data  *)
(*               is written to a partitioned table (write_cdc_plan);       *)
(*   "fan_in"    write_cdc_plan on an unpartitioned table: two bounded     *)
(*               channels and two writer tasks, for data and change rows.  *)
(* A writer keeps one open file per partition, rolls it when it has        *)
(* reached the target size, and uploads closed files in the background.    *)
(*                                                                         *)
(* A row is [id, part, change]; the size of a file is its number of rows.  *)
(***************************************************************************)
EXTENDS Integers, Sequences, FiniteSets, SequencesExt

CONSTANTS
  Inputs,        \* the plans: records [kind, cdc, streams], streams a sequence
                 \* of sequences of batches, a batch a sequence of rows
  ChannelSize,   \* capacity of a channel (DELTARS_WRITER_CHANNEL_SIZE, at least 1)
  BatchRows,     \* write_batch_size: rows handed to the Parquet writer at a time
  TargetRows,    \* target_file_size, in rows; 0 stands for None
  MaxFaults      \* bound: stream, write and upload failures in a behaviour

VARIABLES
  plan,       \* the input of this write: [kind, cdc, streams]
  input,      \* batches each stream has not yielded yet
  pend,       \* parts of its current batch a stream task has not delivered yet
  task,       \* state of each stream task
  chan,       \* the channels of the fan-in topologies, one per sink
  writer,     \* state of each DeltaWriter
  files,      \* every Parquet file of this write: open, uploading, stored, failed
  main,       \* what the awaiting caller has seen so far, and what it has aborted
  result,     \* "none" until the write returns
  faults      \* failures that have happened

vars == <<plan, input, pend, task, chan, writer, files, main, result, faults>>

Tasks == 1 .. Len(plan.streams)

Sinks == IF plan.cdc THEN {"normal", "cdf"} ELSE {"normal"}

FanIn == plan.kind \in {"single", "fan_in"}

\* One writer per sink behind the channels, one per task and sink otherwise.
Writers == IF FanIn THEN {0} \X Sinks ELSE Tasks \X Sinks

-----------------------------------------------------------------------------
(* DeltaWriter and PartitionWriter: files of a writer.                     *)

OfWriter(fs, w, p) == {f \in fs : f.writer = w /\ f.part = p}

\* As WriteChunk, but a rolled file's writer is reset before the last chunk
\* is counted into it: the chunk is dropped with the old writer.
WriteChunk_mutant(fs, w, p, chunk) ==
  LET mine == OfWriter(fs, w, p)
      open == {f \in mine : f.state = "open"}
      old  == IF open # {} THEN CHOOSE f \in open : TRUE
              ELSE [writer |-> w, part |-> p, n |-> Cardinality(mine),
                    rows |-> <<>>, state |-> "open"]
      new  == [old EXCEPT !.rows = @ \o chunk]
      full == TargetRows > 0 /\ Len(new.rows) >= TargetRows
  IN (fs \ open) \cup {IF full /\ old.rows # <<>> THEN [old EXCEPT !.state = "uploading"]
                       ELSE [new EXCEPT !.state = "open"]}

\* Appends a chunk to the open file of writer w and partition p, lazily
\* creating it with the next part number, and rolls it (reset_writer: the
\* upload is spawned) once its size has reached the target.
WriteChunk(fs, w, p, chunk) ==
  LET mine == OfWriter(fs, w, p)
      open == {f \in mine : f.state = "open"}
      old  == IF open # {} THEN CHOOSE f \in open : TRUE
              ELSE [writer |-> w, part |-> p, n |-> Cardinality(mine),
                    rows |-> <<>>, state |-> "open"]
      new  == [old EXCEPT !.rows = @ \o chunk]
      full == TargetRows > 0 /\ Len(new.rows) >= TargetRows
  IN (fs \ open) \cup {[new EXCEPT !.state = IF full THEN "uploading" ELSE "open"]}

\* The slices of at most BatchRows rows PartitionWriter::write cuts a batch into.
Slices(rows) ==
  [i \in 1 .. ((Len(rows) + BatchRows - 1) \div BatchRows) |->
     SubSeq(rows, (i - 1) * BatchRows + 1,
            IF i * BatchRows <= Len(rows) THEN i * BatchRows ELSE Len(rows))]

\* PartitionWriter::write of the rows of one partition.
WritePartition(fs, w, p, rows) ==
  FoldLeft(LAMBDA acc, chunk : WriteChunk(acc, w, p, chunk), fs, Slices(rows))

\* divide_by_partition_values: each partition of a batch with its rows.
PartRows(batch, p) == SelectSeq(batch, LAMBDA r : r.part = p)

\* DeltaWriter::write: every partition of the batch, one after the other.
WriteBatch(fs, w, batch) ==
  LET parts == SetToSeq({batch[i].part : i \in DOMAIN batch})
  IN FoldLeft(LAMBDA acc, p : WritePartition(acc, w, p, PartRows(batch, p)), fs, parts)

\* DeltaWriter::close: the open file of every partition is sent for upload.
CloseFiles(fs, w) ==
  {IF f.writer = w /\ f.state = "open" THEN [f EXCEPT !.state = "uploading"] ELSE f : f \in fs}

\* The rows of a batch each sink receives, without the change type column:
\* the data files take all but the removed rows and preimages, the change
\* files all but the copied rows and the rows deleted by the source.
NormalRows(batch) ==
  SelectSeq(batch, LAMBDA r : r.change \notin {"delete", "source_delete", "update_preimage"})

CdfRows(batch) ==
  SelectSeq(batch, LAMBDA r :
    r.change \in {"delete", "insert", "update_preimage", "update_postimage"})

\* What a stream task hands on for a batch, in order.
Deliveries(batch) ==
  IF plan.cdc
  THEN SelectSeq(<<[sink |-> "normal", rows |-> NormalRows(batch)],
                   [sink |-> "cdf", rows |-> CdfRows(batch)]>>,
                 LAMBDA d : d.rows # <<>>)
  ELSE <<[sink |-> "normal", rows |-> batch]>>

-----------------------------------------------------------------------------
Init ==
  /\ plan \in Inputs
  /\ input = plan.streams
  /\ pend = [i \in Tasks |-> <<>>]
  /\ task = [i \in Tasks |-> "run"]
  /\ chan = [s \in Sinks |-> <<>>]
  /\ writer = [w \in Writers |-> "run"]
  /\ files = {}
  /\ main = [joined |-> {}, writer_result |-> "none", worker_error |-> "none",
             step |-> "normal", aborted |-> {}]
  /\ result = "none"
  /\ faults = 0

\* A stream yields its next batch to its task.
NextBatch(i) ==
  /\ task[i] = "run" /\ pend[i] = <<>> /\ input[i] # <<>>
  /\ pend' = [pend EXCEPT ![i] = Deliveries(Head(input[i]))]
  /\ input' = [input EXCEPT ![i] = Tail(@)]
  /\ UNCHANGED <<plan, task, chan, writer, files, main, result, faults>>

\* A stream yields an error: its task ends with it and drops its writers.
StreamFails(i) ==
  /\ task[i] = "run" /\ pend[i] = <<>> /\ input[i] # <<>>
  /\ faults < MaxFaults
  /\ faults' = faults + 1
  /\ task' = [task EXCEPT ![i] = "stream_error"]
  /\ UNCHANGED <<plan, input, pend, chan, writer, files, main, result>>

\* A channel's receiver is gone once its writer task has ended.
Receiving(s) == writer[<<0, s>>] = "run"

\* Fan-in: a task sends a part of its batch; the send waits for room and
\* fails when the writer task has gone.
Send(i) ==
  /\ FanIn /\ task[i] = "run" /\ pend[i] # <<>>
  /\ LET d == Head(pend[i]) IN
       IF Receiving(d.sink)
       THEN /\ Len(chan[d.sink]) < ChannelSize
            /\ chan' = [chan EXCEPT ![d.sink] = Append(@, d.rows)]
            /\ pend' = [pend EXCEPT ![i] = Tail(@)]
            /\ UNCHANGED task
       ELSE /\ task' = [task EXCEPT ![i] = "closed_error"]
            /\ UNCHANGED <<chan, pend>>
  /\ UNCHANGED <<plan, input, writer, files, main, result, faults>>

\* Fan-in: the task of an exhausted stream ends and drops its senders.
StreamEnds(i) ==
  /\ FanIn /\ task[i] = "run" /\ pend[i] = <<>> /\ input[i] = <<>>
  /\ task' = [task EXCEPT ![i] = "ok"]
  /\ UNCHANGED <<plan, input, pend, chan, writer, files, main, result, faults>>

\* Fan-in: the writer task takes a batch from its channel and writes it, or
\* the write fails and the task ends with its error.
Receive(s) ==
  /\ FanIn /\ writer[<<0, s>>] = "run" /\ chan[s] # <<>>
  /\ chan' = [chan EXCEPT ![s] = Tail(@)]
  /\ \/ /\ files' = WriteBatch(files, <<0, s>>, Head(chan[s]))
        /\ UNCHANGED <<writer, faults>>
     \/ /\ faults < MaxFaults
        /\ faults' = faults + 1
        /\ writer' = [writer EXCEPT ![<<0, s>>] = "error"]
        /\ UNCHANGED files
  /\ UNCHANGED <<plan, input, pend, task, main, result>>

\* As Closed, with the caller's sender kept for the duration of the call.
Closed_mutant == result # "none"

\* Every sender of the channel is gone: the stream tasks' clones with the
\* tasks, the caller's own by the explicit drop before it waits.
Closed == \A i \in Tasks : task[i] # "run"

\* Fan-in: the channel is closed and drained, the writer task closes its writer.
CloseSink(s) ==
  /\ FanIn /\ writer[<<0, s>>] = "run" /\ chan[s] = <<>> /\ Closed
  /\ files' = CloseFiles(files, <<0, s>>)
  /\ writer' = [writer EXCEPT ![<<0, s>>] = "closing"]
  /\ UNCHANGED <<plan, input, pend, task, chan, main, result, faults>>

\* Parallel: a task writes a part of its batch with its own writer.
WriteOwn(i) ==
  /\ ~FanIn /\ task[i] = "run" /\ pend[i] # <<>>
  /\ LET d == Head(pend[i]) IN
       \/ /\ files' = WriteBatch(files, <<i, d.sink>>, d.rows)
          /\ pend' = [pend EXCEPT ![i] = Tail(@)]
          /\ UNCHANGED <<task, faults>>
       \/ /\ faults < MaxFaults
          /\ faults' = faults + 1
          /\ task' = [task EXCEPT ![i] = "write_error"]
          /\ UNCHANGED <<files, pend>>
  /\ UNCHANGED <<plan, input, chan, writer, main, result>>

\* Parallel: at the end of its stream a task closes its writer, and then its
\* change writer.
CloseOwn(i, s) ==
  /\ ~FanIn /\ task[i] = "run" /\ pend[i] = <<>> /\ input[i] = <<>>
  /\ writer[<<i, s>>] = "run"
  /\ s = "cdf" => writer[<<i, "normal">>] = "ok"
  /\ files' = CloseFiles(files, <<i, s>>)
  /\ writer' = [writer EXCEPT ![<<i, s>>] = "closing"]
  /\ UNCHANGED <<plan, input, pend, task, chan, main, result, faults>>

\* A writer that still exists: its task has not ended and dropped it.
Live(w) ==
  /\ writer[w] \in {"run", "closing"}
  /\ w[1] # 0 => task[w[1]] = "run"

\* A background upload ends.  The uploads of a writer that was dropped are
\* aborted with it, which one beyond its last await does not notice.
Upload(f) ==
  /\ f.state = "uploading"
  /\ \/ /\ files' = (files \ {f}) \cup {[f EXCEPT !.state = "stored"]}
        /\ UNCHANGED faults
     \/ /\ faults < MaxFaults
        /\ faults' = faults + 1
        /\ files' = (files \ {f}) \cup {[f EXCEPT !.state = "failed"]}
  /\ UNCHANGED <<plan, input, pend, task, chan, writer, main, result>>

\* The uploads a closing writer joins before it returns.
Joined(w) == \A f \in files : f.writer = w => f.state \in {"stored", "failed"}

\* PartitionWriter::close has joined the uploads of every partition: the
\* adds are returned, or the first failed upload's error.
WriterCloses(w) ==
  /\ writer[w] = "closing" /\ Live(w)
  /\ \/ /\ \E f \in files : f.writer = w /\ f.state = "failed"
        /\ writer' = [writer EXCEPT ![w] = "error"]
        /\ task' = IF FanIn THEN task ELSE [task EXCEPT ![w[1]] = "write_error"]
     \/ /\ Joined(w)
        /\ \A f \in files : f.writer = w => f.state # "failed"
        /\ writer' = [writer EXCEPT ![w] = "ok"]
        /\ task' = IF ~FanIn /\ \A s \in Sinks : writer'[<<w[1], s>>] = "ok"
                   THEN [task EXCEPT ![w[1]] = "ok"] ELSE task
  /\ UNCHANGED <<plan, input, pend, chan, files, main, result, faults>>

-----------------------------------------------------------------------------
(* The awaiting caller.                                                    *)

\* An aborted task is cancelled when it next waits; until then it runs on,
\* and it may end with a result of its own.
Cancel ==
  /\ \/ \E i \in Tasks :
          /\ "tasks" \in main.aborted /\ task[i] = "run"
          /\ task' = [task EXCEPT ![i] = "cancelled"]
          /\ UNCHANGED writer
     \/ /\ "cdf" \in main.aborted /\ Live(<<0, "cdf">>)
        /\ writer' = [writer EXCEPT ![<<0, "cdf">>] = "aborted"]
        /\ UNCHANGED task
  /\ UNCHANGED <<plan, input, pend, chan, files, main, result, faults>>

TaskErrors == {"stream_error", "closed_error", "write_error"}

\* write_streams: the writer task has ended; if it failed, the stream tasks
\* that still run are aborted.
JoinWriter ==
  /\ plan.kind = "single" /\ result = "none"
  /\ main.writer_result = "none" /\ writer[<<0, "normal">>] \in {"ok", "error"}
  /\ main' = [main EXCEPT !.writer_result = writer[<<0, "normal">>],
                          !.aborted = IF writer[<<0, "normal">>] = "error" THEN {"tasks"} ELSE @]
  /\ UNCHANGED <<plan, input, pend, task, chan, writer, files, result, faults>>

\* write_streams: a stream task has ended; an error aborts the others and the
\* first one is kept, except that a send to a writer that is known to have failed
\* and a cancellation after that are no errors of their own.
JoinTask(i) ==
  /\ plan.kind = "single" /\ result = "none"
  /\ i \notin main.joined /\ task[i] # "run"
  /\ LET writer_failed == main.writer_result = "error"
         counts == \/ task[i] = "stream_error"
                   \/ task[i] \in {"closed_error", "cancelled"} /\ ~writer_failed
         first  == counts /\ main.worker_error = "none"
     IN main' = [main EXCEPT !.joined = @ \cup {i},
                             !.worker_error = IF first THEN task[i] ELSE @,
                             !.aborted = IF task[i] \in TaskErrors THEN {"tasks"} ELSE @]
  /\ UNCHANGED <<plan, input, pend, task, chan, writer, files, result, faults>>

\* As ReturnSingle, reporting the stream task's error before the writer's.
ReturnSingle_mutant ==
  /\ plan.kind = "single" /\ result = "none"
  /\ main.joined = Tasks /\ main.writer_result # "none"
  /\ result' = IF main.worker_error # "none" THEN main.worker_error
               ELSE IF main.writer_result = "error" THEN "write_error" ELSE "ok"
  /\ UNCHANGED <<plan, input, pend, task, chan, writer, files, main, faults>>

\* write_streams returns the writer's error first, then a stream task's.
ReturnSingle ==
  /\ plan.kind = "single" /\ result = "none"
  /\ main.joined = Tasks /\ main.writer_result # "none"
  /\ result' = IF main.writer_result = "error" THEN "write_error"
               ELSE IF main.worker_error # "none" THEN main.worker_error ELSE "ok"
  /\ UNCHANGED <<plan, input, pend, task, chan, writer, files, main, faults>>

\* As AwaitSink, with the change writer left to itself after an error.
AwaitSink_mutant(s) ==
  /\ plan.kind = "fan_in" /\ result = "none" /\ main.step = s
  /\ \/ /\ writer[<<0, s>>] = "ok"
        /\ main' = [main EXCEPT !.step = IF s = "normal" THEN "cdf" ELSE "tasks"]
     \/ /\ writer[<<0, s>>] = "error"
        /\ main' = [main EXCEPT !.step = "tasks", !.writer_result = "error", !.aborted = {"tasks"}]
  /\ UNCHANGED <<plan, input, pend, task, chan, writer, files, result, faults>>

\* write_cdc_plan, unpartitioned: the data writer is awaited first, then the
\* change writer, then the stream tasks; an error of the data writer aborts
\* the change writer and the tasks, one of the change writer the tasks.
AwaitSink(s) ==
  /\ plan.kind = "fan_in" /\ result = "none" /\ main.step = s
  /\ \/ /\ writer[<<0, s>>] = "ok"
        /\ main' = [main EXCEPT !.step = IF s = "normal" THEN "cdf" ELSE "tasks"]
     \/ /\ writer[<<0, s>>] = "error"
        /\ main' = [main EXCEPT !.step = "tasks", !.writer_result = "error",
                                !.aborted = IF s = "normal" THEN {"tasks", "cdf"} ELSE {"tasks"}]
  /\ UNCHANGED <<plan, input, pend, task, chan, writer, files, result, faults>>

\* The stream tasks are awaited, in both cases: a writer's error is returned,
\* or else the first task's.
AwaitTasks ==
  /\ plan.kind = "fan_in" /\ result = "none" /\ main.step = "tasks"
  /\ Closed
  /\ LET bad == {i \in Tasks : task[i] \in TaskErrors}
     IN result' = IF main.writer_result = "error" THEN "write_error"
                  ELSE IF bad = {} THEN "ok" ELSE task[CHOOSE i \in bad : \A j \in bad : i <= j]
  /\ UNCHANGED <<plan, input, pend, task, chan, writer, files, main, faults>>

\* write_streams_parallel and the partitioned change write: the first error
\* aborts every other task and is returned without waiting for them.
JoinParallel(i) ==
  /\ plan.kind = "parallel" /\ result = "none"
  /\ i \notin main.joined /\ task[i] # "run"
  /\ LET joined == main.joined \cup {i}
     IN IF task[i] = "ok"
        THEN /\ main' = [main EXCEPT !.joined = joined]
             /\ result' = IF joined = Tasks THEN "ok" ELSE "none"
        ELSE /\ main' = [main EXCEPT !.joined = joined, !.aborted = {"tasks"}]
             /\ result' = task[i]
  /\ UNCHANGED <<plan, input, pend, task, chan, writer, files, faults>>

Done ==
  /\ result # "none"
  /\ UNCHANGED vars

Next ==
  \/ \E i \in Tasks :
       NextBatch(i) \/ StreamFails(i) \/ Send(i) \/ StreamEnds(i) \/ WriteOwn(i)
         \/ JoinTask(i) \/ JoinParallel(i)
  \/ \E s \in Sinks : Receive(s) \/ CloseSink(s) \/ AwaitSink(s)
  \/ \E i \in Tasks, s \in Sinks : CloseOwn(i, s)
  \/ \E f \in files : Upload(f)
  \/ \E w \in Writers : WriterCloses(w)
  \/ JoinWriter \/ ReturnSingle \/ AwaitTasks \/ Cancel
  \/ Done

Spec == Init /\ [][Next]_vars

-----------------------------------------------------------------------------
\* The ids of the rows a sink's returned files hold, with multiplicity.
Held(s) == {<<f, k>> \in files \X (1 .. 8) : f.writer[2] = s /\ k <= Len(f.rows)}

Wanted(s) ==
  {<<i, b, k>> \in Tasks \X (1 .. 4) \X (1 .. 4) :
     /\ b <= Len(plan.streams[i]) /\ k <= Len(plan.streams[i][b])
     /\ LET c == plan.streams[i][b][k].change IN
          IF s = "normal" THEN c \notin {"delete", "source_delete", "update_preimage"}
          ELSE c \in {"delete", "insert", "update_preimage", "update_postimage"}}

\* A write that returns actions has stored, in files it names and under the
\* right partition, exactly the rows of its streams, each once: no batch is
\* lost between the stream tasks, the channels, the rolled files and the
\* background uploads, and no failure among them passes for a success.  With
\* change data, the data files and the change files each hold the rows of
\* their change types.
SuccessIsComplete ==
  result = "ok" =>
    \A s \in Sinks :
      /\ \A f \in files : f.state = "stored" /\ f.rows # <<>>
                            /\ \A k \in DOMAIN f.rows : f.rows[k].part = f.part
      /\ Cardinality(Held(s)) = Cardinality(Wanted(s))
      /\ {h[1].rows[h[2]] : h \in Held(s)} = {plan.streams[v[1]][v[2]][v[3]] : v \in Wanted(s)}

\* When the writer task fails, write_streams returns the writer's error and
\* not the "closed unexpectedly" error its stream tasks run into, in
\* whatever order the caller sees the tasks end.
WriterErrorReported ==
  plan.kind = "single" /\ result # "none" /\ writer[<<0, "normal">>] = "error"
    => result = "write_error"

\* What a write leaves behind when it returns has been aborted.  The stream
\* tasks of write_streams and of the unpartitioned change write have ended,
\* and a writer of theirs has ended or, being the change writer, was aborted;
\* the tasks of a parallel write that failed may run on until they next wait,
\* but none of a write that has returned its actions does.
NothingLeftAlone ==
  result # "none" =>
    /\ \A i \in Tasks : task[i] = "run" =>
         plan.kind = "parallel" /\ "tasks" \in main.aborted /\ result # "ok"
    /\ \A w \in Writers : FanIn /\ Live(w) =>
         w[2] = "cdf" /\ "cdf" \in main.aborted /\ result # "ok"

\* A write that has not returned always has a task that can go on, so that
\* it returns (no step can be repeated forever): stream tasks waiting for room
\* in a full channel, a writer waiting for its senders and a caller waiting
\* for both never wait on each other, whichever of them fails.
NeverStuck == result = "none" => ENABLED Next
=============================================================================
