---------------------------- MODULE BatchBuilder ----------------------------
(***************************************************************************)
(* src/src/batching/BatchBuilder.cpp: the batch under construction, and    *)
(* the limits in records, bytes and time that make it due.                 *)
(***************************************************************************)
EXTENDS LogData

CONSTANTS
  MaxRecords,      \* Policy::max_records; 0 means no limit
  MaxBytes,        \* Policy::max_bytes; 0 means no limit
  Overhead,        \* bytes added to a payload by estimate_record_bytes (64)
  FlushInterval    \* Policy::flush_interval, in units of time

ASSUME BatchAssumption ==
  /\ MaxRecords \in Nat
  /\ MaxBytes \in Nat
  /\ Overhead \in Nat
  /\ FlushInterval \in Nat

VARIABLES
  batch,         \* batch_
  approxBytes,   \* approx_bytes_
  age            \* now - batch_start_, up to FlushInterval; 0 unless started_

batchVars == <<batch, approxBytes, age>>

BatchTypeOK ==
  /\ batch \in Batch
  /\ approxBytes \in Nat
  /\ age \in 0..FlushInterval

EmptyBatch(file, gen) ==
  [records |-> <<>>, file |-> file, gen |-> gen, end |-> 0]

BatchInit == batch = EmptyBatch(None, 0) /\ approxBytes = 0 /\ age = 0
------------------------------------------------------------------------------
ResetBatch(file, gen) ==
  batch' = EmptyBatch(file, gen) /\ approxBytes' = 0 /\ age' = 0

\* estimate_record_bytes
RecordBytes(r) == Len(r.payload) + Overhead

\* The two tests push() may refuse a record by; an empty batch takes anything.
Fits(r) ==
  \/ batch.records = <<>>
  \/ /\ MaxRecords > 0 => Len(batch.records) < MaxRecords
     /\ MaxBytes > 0 => approxBytes + RecordBytes(r) <= MaxBytes

Push(r) ==
  /\ Fits(r)
  /\ batch' = [batch EXCEPT !.records = Append(@, r), !.end = Larger(@, r.end)]
  /\ approxBytes' = approxBytes + RecordBytes(r)
  /\ UNCHANGED age

LimitsReached ==
  \/ MaxRecords > 0 /\ Len(batch.records) >= MaxRecords
  \/ MaxBytes > 0 /\ approxBytes >= MaxBytes

\* Mutant of FlushReady: the flush interval is ignored.
FlushReadyUntimed(force) == batch.records # <<>> /\ (force \/ LimitsReached)

\* maybe_flush(force) has a batch to hand out; flush_if_due() is the case FALSE.
FlushReady(force) ==
  /\ batch.records # <<>>
  /\ force \/ LimitsReached \/ age >= FlushInterval

\* Mutant of Flush: the next batch has lost its file.
FlushForgetsFile == ResetBatch(None, 0)

\* maybe_flush hands out the batch and starts another of the same file.
Flush == ResetBatch(batch.file, batch.gen)

\* d units of time pass; the clock of a batch starts with its first record.
Aged(d) == IF batch.records = <<>> THEN 0 ELSE Smaller(age + d, FlushInterval)
==============================================================================
