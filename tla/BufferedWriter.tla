--------------------------- MODULE BufferedWriter ---------------------------
(***************************************************************************)
(* The buffering writers a long-running ingester drives itself:            *)
(* RecordBatchWriter (writer/record_batch.rs) and JsonWriter               *)
(* (writer/json.rs).  A write divides its rows by partition and appends    *)
(* each part to an in-memory Parquet file; flush stores the files; flush   *)
(* and commit adds them to the table, with an evolved schema when columns  *)
(* were merged in.                                                         *)
(*                                                                         *)
(* The caller sends Batches in order and, when a call fails, resets the    *)
(* writer, loads the table again and sends everything after the last       *)
(* commit that was acknowledged: an error does not tell whether the commit *)
(* is in the log.  Columns are abstracted to sets.                         *)
(***************************************************************************)
EXTENDS Integers, Sequences, FiniteSets, SequencesExt

CONSTANTS
  Plans,       \* records [kind, modes, batches]: the writer used, the mode of
               \* each write, and the batches [cols, rows] to be sent; a row
               \* is [id, part, bad], bad rows are refused by Parquet
  BaseCols,    \* the columns of the table when the writer is created
  MaxFaults    \* bound: failing Parquet writes, uploads and commits

VARIABLES
  plan,      \* the plan of this caller
  next,      \* index of the next batch to send
  done,      \* batches sent before the last commit that returned a version
  writers,   \* arrow_writers: partition |-> [schema, rows], open ones only
  schema,    \* arrow_schema_ref
  evolve,    \* should_evolve
  failed,    \* the last call returned an error the caller has to recover from
  reported,  \* ids of the rows handed back by partial writes since the last reset
  table,     \* the table: [schema, commits], a commit the row ids it added and
             \* whether the call that made it returned its version
  faults

bvars == <<plan, next, done, writers, schema, evolve, failed, reported, table, faults>>

Parts(b) == {b.rows[i].part : i \in DOMAIN b.rows}

\* divide_by_partition_values: the rows of a batch in one partition, in order.
RowsOf(b, p) == SelectSeq(b.rows, LAMBDA r : r.part = p)

\* The buffers as a write sees them while it goes through its partitions.
Buffers == [writers |-> writers, schema |-> schema, err |-> FALSE, reported |-> {}]

\* PartitionWriter::write: a batch of another schema is merged into the writer's.
Merged(w, b) == IF b.cols = w.schema THEN w.schema ELSE w.schema \cup b.cols

\* The rows of a batch that Parquet accepts one by one, and those it refuses.
quarantine_failed_parquet_rows(b, p) ==
  [good |-> SelectSeq(RowsOf(b, p), LAMBDA r : ~r.bad),
   bad |-> SelectSeq(RowsOf(b, p), LAMBDA r : r.bad)]

Put(ws, p, w) == [q \in DOMAIN ws \cup {p} |-> IF q = p THEN w ELSE ws[q]]

\* As WriteBatchPartition, with a new Parquet file begun for every write.
WriteBatchPartition_mutant(st, b, mode, fails, p) ==
  LET known  == p \in DOMAIN st.writers
      w      == IF known THEN st.writers[p] ELSE [schema |-> st.schema, rows |-> <<>>]
      merged == Merged(w, b)
  IN IF st.err THEN st
     ELSE IF b.cols # w.schema /\ mode = "Default" THEN [st EXCEPT !.err = TRUE]
     ELSE IF p \in fails
     THEN [st EXCEPT !.err = TRUE,
                     !.writers = IF known THEN Put(@, p, [schema |-> merged, rows |-> <<>>])
                                 ELSE @]
     ELSE [st EXCEPT !.writers = Put(@, p, [schema |-> merged, rows |-> RowsOf(b, p)]),
                     !.schema = IF mode = "MergeSchema" THEN @ \cup merged ELSE @]

\* RecordBatchWriter::write_partition.  A batch of another schema is merged
\* into the partition writer's schema or refused.  When Parquet refuses the
\* batch, an existing partition writer is recreated over its flushed bytes,
\* which hold no row group yet: what it had buffered is gone.
WriteBatchPartition(st, b, mode, fails, p) ==
  LET known  == p \in DOMAIN st.writers
      w      == IF known THEN st.writers[p] ELSE [schema |-> st.schema, rows |-> <<>>]
      merged == Merged(w, b)
  IN IF st.err THEN st
     ELSE IF b.cols # w.schema /\ mode = "Default" THEN [st EXCEPT !.err = TRUE]
     ELSE IF p \in fails
     THEN [st EXCEPT !.err = TRUE,
                     !.writers = IF known THEN Put(@, p, [schema |-> merged, rows |-> <<>>])
                                 ELSE @]
     ELSE [st EXCEPT !.writers = Put(@, p, [schema |-> merged, rows |-> w.rows \o RowsOf(b, p)]),
                     !.schema = IF mode = "MergeSchema" THEN @ \cup merged ELSE @]

\* As JsonWriter::write_values below, leaving the refused batch's good rows
\* to the caller although only the bad ones are reported.
WriteJsonPartition_mutant(st, b, p) ==
  LET known == p \in DOMAIN st.writers
      old   == IF known THEN st.writers[p].rows ELSE <<>>
      bad   == quarantine_failed_parquet_rows(b, p).bad
      good  == quarantine_failed_parquet_rows(b, p).good
      w(rows) == [schema |-> st.schema, rows |-> rows]
  IN IF st.err THEN st
     ELSE IF bad = <<>> THEN [st EXCEPT !.writers = Put(@, p, w(old \o good))]
     ELSE [st EXCEPT !.writers = Put(@, p, w(<<>>)),
                     !.reported = @ \cup {bad[i].id : i \in DOMAIN bad}]

\* DataArrowWriter::write_values.  When Parquet refuses the rows of a
\* partition, the writer is recreated as above, the rows are tried one by
\* one, the good ones written and the bad ones reported; a partition without
\* a good row fails the whole write.
WriteJsonPartition(st, b, p) ==
  LET known == p \in DOMAIN st.writers
      old   == IF known THEN st.writers[p].rows ELSE <<>>
      bad   == quarantine_failed_parquet_rows(b, p).bad
      good  == quarantine_failed_parquet_rows(b, p).good
      w(rows) == [schema |-> st.schema, rows |-> rows]
  IN IF st.err THEN st
     ELSE IF bad = <<>> THEN [st EXCEPT !.writers = Put(@, p, w(old \o good))]
     ELSE IF good = <<>>
     THEN [st EXCEPT !.err = TRUE, !.writers = IF known THEN Put(@, p, w(<<>>)) ELSE @]
     ELSE [st EXCEPT !.writers = Put(@, p, w(good)),
                     !.reported = @ \cup {bad[i].id : i \in DOMAIN bad}]

\* The orders in which a write goes through its partitions: sorted, or those of a
\* hash map.
WriteOrders(b) ==
  {order \in SetToSeqs(Parts(b)) :
     plan.kind = "batch" => \A i, j \in DOMAIN order : i < j => order[i] < order[j]}

-----------------------------------------------------------------------------
Init ==
  /\ plan \in Plans
  /\ next = 1 /\ done = 0
  /\ writers = <<>>
  /\ schema = BaseCols
  /\ evolve = FALSE
  /\ failed = FALSE
  /\ reported = {}
  /\ table = [schema |-> BaseCols, commits |-> <<>>]
  /\ faults = 0

\* write_with_mode: the partitions one after the other, stopping at the first
\* error with the earlier partitions already buffered.
Write ==
  /\ ~failed /\ next <= Len(plan.batches)
  /\ LET b    == plan.batches[next]
         mode == plan.modes[next]
     IN \E order \in WriteOrders(b), fails \in SUBSET Parts(b) :
          /\ Cardinality(fails) <= 1
          /\ fails # {} => faults < MaxFaults /\ plan.kind = "batch"
          /\ LET st == IF plan.kind = "batch"
                       THEN FoldLeft(LAMBDA acc, p : WriteBatchPartition(acc, b, mode, fails, p),
                                     Buffers, order)
                       ELSE FoldLeft(LAMBDA acc, p : WriteJsonPartition(acc, b, p), Buffers, order)
             IN /\ writers' = st.writers
                /\ schema' = st.schema
                /\ failed' = st.err
                /\ reported' = reported \cup st.reported
          /\ faults' = faults + Cardinality(fails)
          /\ evolve' = (plan.kind = "batch" /\ mode = "MergeSchema")
  /\ next' = next + 1
  /\ UNCHANGED <<plan, done, table>>

BufferedRows ==
  FlattenSeq([i \in 1 .. Cardinality(DOMAIN writers) |->
                writers[SetToSeq(DOMAIN writers)[i]].rows])

\* As CommittedSchema, evolving the table only on the writer's first commit.
CommittedSchema_mutant == IF schema # BaseCols /\ evolve /\ done = 0 THEN schema ELSE table.schema

\* flush_and_commit replaces the table's schema when the writer's has moved
\* away from the one it was created with and its last write merged schemas.
CommittedSchema == IF schema # BaseCols /\ evolve THEN schema ELSE table.schema

Landed(acked) ==
  [schema  |-> CommittedSchema,
   commits |-> Append(table.commits, [rows |-> [i \in DOMAIN BufferedRows |-> BufferedRows[i].id],
                                      acked |-> acked])]

\* flush_and_commit: flush takes all writers before it uploads the first of them; a
\* failed upload loses the adds.  The call also fails when the answer to the put of
\* the commit is lost, or a step after the commit (reading the new version, the
\* checkpoint, the cleanup of the log) fails: then the commit is in the log.
FlushAndCommit ==
  /\ ~failed /\ done < next - 1
  /\ \/ table' = Landed(TRUE) /\ done' = next - 1 /\ UNCHANGED <<failed, faults>>
     \/ /\ faults < MaxFaults
        /\ faults' = faults + 1
        /\ failed' = TRUE
        /\ table' \in {table, Landed(FALSE)}
        /\ UNCHANGED done
  /\ writers' = <<>>
  /\ UNCHANGED <<plan, next, schema, evolve, reported>>

\* As Recover, resuming with the open Parquet files still buffered.
Recover_mutant ==
  /\ failed
  /\ UNCHANGED writers
  /\ failed' = FALSE
  /\ next' = done + 1
  /\ UNCHANGED <<plan, done, schema, evolve, reported, table, faults>>

\* The caller resets the writer and goes back to its last acknowledged commit.
\* Reset clears the open writers and nothing else.
Recover ==
  /\ failed
  /\ writers' = <<>>
  /\ failed' = FALSE
  /\ next' = done + 1
  /\ UNCHANGED <<plan, done, schema, evolve, reported, table, faults>>

\* Everything is committed, or a batch is refused for good: a Default write of
\* another schema, or a partition of only bad rows.
Ended ==
  /\ done = Len(plan.batches)
  /\ UNCHANGED bvars

Next == Write \/ FlushAndCommit \/ Recover \/ Ended

Spec == Init /\ [][Next]_bvars

-----------------------------------------------------------------------------
RowIds(n) == {r.id : r \in UNION {{plan.batches[k].rows[i] : i \in DOMAIN plan.batches[k].rows} : k \in 1 .. n}}

GoodIds(n) == {r.id : r \in {q \in UNION {{plan.batches[k].rows[i] : i \in DOMAIN plan.batches[k].rows} : k \in 1 .. n} : ~q.bad}}

RowsIn(c) == {c.rows[i] : i \in DOMAIN c.rows}

Acknowledged ==
  UNION {RowsIn(table.commits[i]) : i \in {j \in DOMAIN table.commits : table.commits[j].acked}}

\* A caller that resets the writer after every failed call and sends again what
\* was not acknowledged has a row twice only when a call failed whose commit is in
\* the log: no commit holds a row twice, two commits share a row only if the
\* earlier one was never acknowledged, and no acknowledged commit holds a row the
\* caller is going to send again.  Neither the partitions a failed write leaves
\* buffered nor the files a failed flush has stored reach the table.
NoRowTwice ==
  /\ \A i \in DOMAIN table.commits :
        Cardinality(RowsIn(table.commits[i])) = Len(table.commits[i].rows)
  /\ \A i, j \in DOMAIN table.commits :
        i < j /\ RowsIn(table.commits[i]) \cap RowsIn(table.commits[j]) # {}
            => ~table.commits[i].acked
  /\ Acknowledged \subseteq GoodIds(done)

\* With a RecordBatchWriter that caller loses nothing either: every row of the
\* batches whose commit was acknowledged is in the table, whatever failed on the way.
BatchRowsCommitted == plan.kind = "batch" => Acknowledged = RowIds(done)

\* A JSON write that reports skipped rows has buffered all of its other rows:
\* right after the write that made it, every good row of the batch is
\* buffered and the bad ones are exactly those reported.
PartialWriteExact ==
  (plan.kind = "json" /\ next' = next + 1 /\ ~failed')
       => LET rs == {plan.batches[next].rows[i] : i \in DOMAIN plan.batches[next].rows}
              buffered == {r.id : r \in UNION {{writers'[p].rows[i] : i \in DOMAIN writers'[p].rows}
                                                 : p \in DOMAIN writers'}}
          IN \A r \in rs : IF r.bad THEN r.id \in reported' ELSE r.id \in buffered

\* A caller that merges schemas in every write finds every column it has
\* committed rows for in the table's schema, over any number of commits and
\* recoveries: the rows and the schema that makes them readable are committed
\* together.
EvolvedSchemaCommitted ==
  (\A k \in DOMAIN plan.modes : plan.modes[k] = "MergeSchema")
    => /\ \A k \in 1 .. done : plan.batches[k].cols \subseteq table.schema
       /\ BaseCols \subseteq table.schema

=============================================================================
