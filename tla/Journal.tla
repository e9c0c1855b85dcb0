------------------------------- MODULE Journal -------------------------------
(***************************************************************************)
(* crates/hft-journal: the bounded handoff of accepted commands to the     *)
(* persistence worker, the worker itself, its sink, and the status flags   *)
(* other threads read.  Every access to shared state is a step of its own: *)
(* one ring operation, one status store or load, one sink call.            *)
(*                                                                         *)
(* The ring is the FIFO that Spsc implements.  A record is a sequence      *)
(* number and a command; its checksum and layout are left out, so verify() *)
(* succeeds.  The sink (external) keeps the records it was given in order; *)
(* `synced' of them survive a crash for certain, a later one may survive   *)
(* or not, and the last may be torn.                                       *)
(***************************************************************************)
EXTENDS Integers, Sequences

CONSTANTS
  Cmds,      \* the commands, as opaque payloads
  RingCap,   \* RING_CAPACITY
  Batch,     \* BATCH of the persistence worker
  MaxSeq,    \* u64::MAX, scaled down
  Policies   \* the flush policies to consider

ASSUME JournalAssumption ==
  /\ RingCap \in Nat \ {0}
  /\ Batch \in Nat \ {0}
  /\ MaxSeq \in Nat \ {0}
  /\ Policies \subseteq {"EveryBatch", "OnShutdown"}

VARIABLES
  ring, next_sequence,                  \* JournalWriter: its queue and its counter
  wpc, expected_sequence, batch,        \* reader and worker: control, counter, batch
  closing,                              \* the worker is inside shutdown()
  policy,                               \* the worker's flush policy
  next_written, next_durable,           \* StatusState: the watermarks
  producer_closed, poisoned, complete,  \* StatusState: the flags
  disk, torn, synced                    \* the sink

ringVars   == <<ring, next_sequence>>
workerVars == <<wpc, expected_sequence, batch, closing, policy>>
markVars   == <<next_written, next_durable>>
sinkVars   == <<disk, torn, synced>>
journalVars == <<ringVars, workerVars, markVars, producer_closed, poisoned, complete,
                 sinkVars>>

Records == [seq : 1 .. MaxSeq, cmd : Cmds]

WorkerStates ==
  {"reader",                                    \* JournalReader, no worker yet
   "idle", "read", "write", "written", "flush", "durable",
   "lastFlush", "lastDurable", "finish",        \* the tail of shutdown()
   "done", "failed", "gone"}

RecordsOK == ring \in Seq(Records) /\ batch \in Seq(Records) /\ disk \in Seq(Records)
CountersOK ==
  /\ next_sequence \in 1 .. MaxSeq /\ expected_sequence \in 1 .. MaxSeq
  /\ next_written \in 1 .. MaxSeq /\ next_durable \in 1 .. MaxSeq
  /\ synced \in Nat
FlagsOK ==
  /\ closing \in BOOLEAN /\ producer_closed \in BOOLEAN /\ poisoned \in BOOLEAN
  /\ complete \in BOOLEAN /\ torn \in BOOLEAN
ControlOK == wpc \in WorkerStates /\ policy \in Policies

JournalTypeOK == RecordsOK /\ CountersOK /\ FlagsOK /\ ControlOK

\* JournalChannel::try_new and split(1), over an empty sink
JournalInit ==
  /\ ring = <<>> /\ next_sequence = 1
  /\ wpc = "reader" /\ expected_sequence = 1 /\ batch = <<>>
  /\ closing = FALSE /\ policy \in Policies
  /\ next_written = 1 /\ next_durable = 1
  /\ producer_closed = FALSE /\ poisoned = FALSE /\ complete = FALSE
  /\ disk = <<>> /\ torn = FALSE /\ synced = 0

\* JournalChannel::split(first) of a new channel, over the sink as open_append leaves it
Resplit(first) ==
  /\ ring' = <<>> /\ next_sequence' = first
  /\ wpc' = "reader" /\ expected_sequence' = first /\ batch' = <<>>
  /\ closing' = FALSE /\ policy' \in Policies
  /\ next_written' = first /\ next_durable' = first
  /\ producer_closed' = FALSE /\ poisoned' = FALSE /\ complete' = FALSE
  /\ UNCHANGED sinkVars

-----------------------------------------------------------------------------
\* JournalWriter::enqueue of a command, when it returns no error
CanEnqueue == next_sequence < MaxSeq /\ Len(ring) < RingCap

Enqueue(c) ==
  /\ CanEnqueue
  /\ ring' = Append(ring, [seq |-> next_sequence, cmd |-> c])
  /\ next_sequence' = next_sequence + 1
  /\ UNCHANGED <<workerVars, markVars, producer_closed, poisoned, complete, sinkVars>>

\* JournalWriter::close
Close ==
  /\ producer_closed' = TRUE
  /\ UNCHANGED <<ringVars, workerVars, markVars, poisoned, complete, sinkVars>>

-----------------------------------------------------------------------------
\* PersistenceWorker::fail, and the reader's own poisoning
Fail ==
  /\ wpc' = "failed"
  /\ poisoned' = TRUE

\* JournalReader::read on a non-empty ring, by its owner in state `here'.
ReadRecord(here) ==
  /\ wpc = here /\ ring # <<>>
  /\ ring' = Tail(ring)
  /\ IF Head(ring).seq = expected_sequence /\ expected_sequence < MaxSeq
     THEN /\ expected_sequence' = expected_sequence + 1
          /\ batch' = Append(batch, Head(ring))
          /\ UNCHANGED <<wpc, poisoned>>
     ELSE Fail /\ UNCHANGED <<expected_sequence, batch>>
  /\ UNCHANGED <<next_sequence, closing, policy, markVars, producer_closed, complete,
                 sinkVars>>

\* PersistenceWorker::new.  A refusal drops the reader, which poisons the channel.
NewWorker ==
  /\ wpc = "reader"
  /\ IF expected_sequence = next_written
     THEN wpc' = "idle" /\ UNCHANGED poisoned
     ELSE wpc' = "gone" /\ poisoned' = TRUE
  /\ UNCHANGED <<ringVars, expected_sequence, batch, closing, policy, markVars,
                 producer_closed, complete, sinkVars>>

\* drain_batch and shutdown, up to the first read
StartDrain ==
  /\ wpc = "idle"
  /\ wpc' = "read" /\ closing' = FALSE
  /\ UNCHANGED <<ringVars, expected_sequence, batch, policy, markVars, producer_closed,
                 poisoned, complete, sinkVars>>

\* Faulty variant: shutdown does not wait for the writer to close.
StartShutdownEarly ==
  /\ wpc = "idle"
  /\ wpc' = "read" /\ closing' = TRUE
  /\ UNCHANGED <<ringVars, expected_sequence, batch, policy, markVars, producer_closed,
                 poisoned, complete, sinkVars>>

StartShutdown ==
  /\ wpc = "idle" /\ producer_closed
  /\ wpc' = "read" /\ closing' = TRUE
  /\ UNCHANGED <<ringVars, expected_sequence, batch, policy, markVars, producer_closed,
                 poisoned, complete, sinkVars>>

\* Where drain_batch returns to: shutdown()'s loop or the caller.
Drained == IF closing THEN "read" ELSE "idle"

DrainRead == Len(batch) < Batch /\ ReadRecord("read")

\* The batch is full or the ring is empty; shutdown leaves its loop on an empty batch.
DrainReadEnd ==
  /\ wpc = "read"
  /\ Len(batch) = Batch \/ ring = <<>>
  /\ wpc' = IF batch # <<>> THEN "write" ELSE IF closing THEN "lastFlush" ELSE "idle"
  /\ UNCHANGED <<ringVars, expected_sequence, batch, closing, policy, markVars,
                 producer_closed, poisoned, complete, sinkVars>>

\* write_all of one record
DrainWrite ==
  /\ wpc = "write"
  /\ disk' = Append(disk, Head(batch))
  /\ batch' = Tail(batch)
  /\ wpc' = IF batch' = <<>> THEN "written" ELSE "write"
  /\ UNCHANGED <<ringVars, expected_sequence, closing, policy, markVars, producer_closed,
                 poisoned, complete, torn, synced>>

\* Faulty variant: the error of write_all is dropped.
DrainWriteFailsSilently ==
  /\ wpc = "write"
  /\ torn' \in BOOLEAN
  /\ batch' = Tail(batch)
  /\ wpc' = IF batch' = <<>> THEN "written" ELSE "write"
  /\ UNCHANGED <<ringVars, expected_sequence, closing, policy, markVars, producer_closed,
                 poisoned, complete, disk, synced>>

\* write_all fails, perhaps after some of the record's bytes
DrainWriteFails ==
  /\ wpc = "write"
  /\ torn' \in BOOLEAN
  /\ Fail
  /\ UNCHANGED <<ringVars, expected_sequence, batch, closing, policy, markVars,
                 producer_closed, complete, disk, synced>>

PublishWritten ==
  /\ wpc = "written"
  /\ next_written' = expected_sequence
  /\ wpc' = IF policy = "EveryBatch" THEN "flush" ELSE Drained
  /\ UNCHANGED <<ringVars, expected_sequence, batch, closing, policy, next_durable,
                 producer_closed, poisoned, complete, sinkVars>>

\* Faulty variant: the sink's flush does not reach stable storage.
FlushUnsynced ==
  /\ wpc \in {"flush", "lastFlush"}
  /\ wpc' = IF wpc = "flush" THEN "durable" ELSE "lastDurable"
  /\ UNCHANGED <<ringVars, expected_sequence, batch, closing, policy, markVars,
                 producer_closed, poisoned, complete, disk, torn, synced>>

\* DurableSink::flush, of a batch or the last one of shutdown
Flush ==
  /\ wpc \in {"flush", "lastFlush"}
  /\ synced' = Len(disk)
  /\ wpc' = IF wpc = "flush" THEN "durable" ELSE "lastDurable"
  /\ UNCHANGED <<ringVars, expected_sequence, batch, closing, policy, markVars,
                 producer_closed, poisoned, complete, disk, torn>>

FlushFails ==
  /\ wpc \in {"flush", "lastFlush"}
  /\ Fail
  /\ UNCHANGED <<ringVars, expected_sequence, batch, closing, policy, markVars,
                 producer_closed, complete, sinkVars>>

PublishDurable ==
  /\ wpc \in {"durable", "lastDurable"}
  /\ next_durable' = expected_sequence
  /\ wpc' = IF wpc = "durable" THEN Drained ELSE "finish"
  /\ UNCHANGED <<ringVars, expected_sequence, batch, closing, policy, next_written,
                 producer_closed, poisoned, complete, sinkVars>>

\* StatusGuard::complete
Complete ==
  /\ wpc = "finish"
  /\ complete' = TRUE
  /\ wpc' = "done"
  /\ UNCHANGED <<ringVars, expected_sequence, batch, closing, policy, markVars,
                 producer_closed, poisoned, sinkVars>>

\* Faulty variant: a dropped worker leaves the channel looking healthy.
DropWorkerQuietly ==
  /\ wpc \in {"reader", "idle", "failed", "done"}
  /\ wpc' = "gone"
  /\ UNCHANGED <<ringVars, expected_sequence, batch, closing, policy, markVars,
                 producer_closed, poisoned, complete, sinkVars>>

\* into_sink, or the reader or worker is dropped: StatusGuard::drop
DropWorker ==
  /\ wpc \in {"reader", "idle", "failed", "done"}
  /\ wpc' = "gone"
  /\ poisoned' = (poisoned \/ wpc # "done")
  /\ UNCHANGED <<ringVars, expected_sequence, batch, closing, policy, markVars,
                 producer_closed, complete, sinkVars>>

WorkerStep ==
  \/ DrainRead
  \/ DrainReadEnd
  \/ DrainWrite
  \/ PublishWritten
  \/ Flush
  \/ PublishDurable
  \/ Complete

WorkerFault == DrainWriteFails \/ FlushFails

WorkerCall == NewWorker \/ StartDrain \/ StartShutdown \/ DropWorker \/ ReadRecord("reader")

WorkerNext == WorkerStep \/ WorkerFault \/ WorkerCall

-----------------------------------------------------------------------------
\* The counters of the four parties never pass each other, and a watermark covers
\* only what the sink was given (written) or has synced (durable).
MarksOrdered ==
  /\ next_durable <= next_written
  /\ next_written <= expected_sequence
  /\ expected_sequence <= next_sequence
  /\ next_written - 1 <= Len(disk)
  /\ next_durable - 1 <= synced
  /\ Len(ring) = next_sequence - expected_sequence
  /\ Len(ring) <= RingCap

\* Shutdown has completed with nothing accepted left behind.
AllDurable ==
  /\ ring = <<>> /\ batch = <<>>
  /\ synced = Len(disk)
  /\ next_durable = next_sequence
=============================================================================
