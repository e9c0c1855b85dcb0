--------------------------- MODULE JournalProofs ---------------------------
(***************************************************************************)
(* The journal's part of the inductive invariant, and that every step of   *)
(* the writer and of the worker preserves it, for every ring capacity,     *)
(* batch size, sequence bound and flush policy.                            *)
(***************************************************************************)
EXTENDS Journal, TLAPS

(* Where the records are.  The worker's batch continues the sink, and the  *)
(* ring continues the batch, without a gap.                                *)
Contiguous ==
  /\ Len(disk) + Len(batch) = expected_sequence - 1
  /\ \A i \in 1 .. Len(ring) : ring[i].seq = expected_sequence + i - 1
  /\ synced <= Len(disk)

(* What the worker's control state says about its batch, the watermarks    *)
(* and the sink.                                                           *)
BatchInv ==
  /\ wpc \in {"reader", "idle", "read"} => next_written + Len(batch) = expected_sequence
  /\ wpc \in {"idle", "written", "flush", "durable", "lastFlush", "lastDurable", "finish",
              "done"} => batch = <<>>
  /\ wpc = "write" => batch # <<>>
  /\ wpc \in {"flush", "durable", "lastFlush", "lastDurable", "finish", "done"} =>
       next_written = expected_sequence
  /\ wpc \in {"durable", "lastDurable", "finish", "done"} => synced = Len(disk)
  /\ wpc \in {"finish", "done"} => next_durable = expected_sequence

(* shutdown() runs only after the writer was closed, and passes its drain  *)
(* loop only with an empty ring.                                           *)
ShutdownInv ==
  /\ wpc \in {"lastFlush", "lastDurable", "finish", "done"} => closing /\ ring = <<>>
  /\ closing => producer_closed
  /\ complete => wpc \in {"done", "gone"} /\ producer_closed /\ AllDurable
                 /\ next_written = expected_sequence

JournalInv == JournalTypeOK /\ MarksOrdered /\ Contiguous /\ BatchInv /\ ShutdownInv

USE JournalAssumption

(* The writer's and the worker's initial state satisfies the invariant.    *)
LEMMA InitJournalInv == JournalInit => JournalInv
<1> SUFFICES ASSUME JournalInit PROVE JournalInv
  OBVIOUS
<1> USE DEF JournalInit
<1>1. RecordsOK
  BY DEF RecordsOK
<1>2. CountersOK
  BY DEF CountersOK
<1>3. FlagsOK
  BY DEF FlagsOK
<1>4. ControlOK
  BY DEF ControlOK, WorkerStates
<1>5. MarksOrdered /\ Contiguous /\ BatchInv /\ ShutdownInv
  BY DEF MarksOrdered, Contiguous, BatchInv, ShutdownInv
<1> QED
  BY <1>1, <1>2, <1>3, <1>4, <1>5 DEF JournalInv, JournalTypeOK

(* enqueue by an open writer keeps the invariant.                          *)
LEMMA EnqueueInv ==
  ASSUME JournalInv, ~producer_closed, NEW c \in Cmds, Enqueue(c)
  PROVE  JournalInv'
<1> USE DEF JournalInv, Enqueue, CanEnqueue, workerVars, markVars, sinkVars
<1>1. RecordsOK'
  <2>1. [seq |-> next_sequence, cmd |-> c] \in Records
    BY DEF JournalTypeOK, CountersOK, Records
  <2> QED
    BY <2>1 DEF JournalTypeOK, RecordsOK
<1>2. CountersOK'
  BY DEF JournalTypeOK, CountersOK
<1>3. FlagsOK'
  BY DEF JournalTypeOK, FlagsOK
<1>4. ControlOK'
  BY DEF JournalTypeOK, ControlOK
<1>5. MarksOrdered'
  BY DEF JournalTypeOK, RecordsOK, CountersOK, MarksOrdered
<1>7. Contiguous'
  <2>1. \A i \in 1 .. Len(ring') : ring'[i].seq = expected_sequence' + i - 1
    <3> TAKE i \in 1 .. Len(ring')
    <3>1. CASE i \in 1 .. Len(ring)
      BY <3>1 DEF JournalTypeOK, RecordsOK, CountersOK, Contiguous
    <3>2. CASE i = Len(ring) + 1
      <4>1. ring'[i] = [seq |-> next_sequence, cmd |-> c]
        BY <3>2 DEF JournalTypeOK, RecordsOK
      <4>2. ring'[i].seq = next_sequence
        BY <4>1
      <4>3. next_sequence = expected_sequence' + i - 1
        BY <3>2 DEF JournalTypeOK, CountersOK, MarksOrdered
      <4> QED
        BY <4>2, <4>3
    <3> QED
      BY <3>1, <3>2 DEF JournalTypeOK, RecordsOK
  <2> QED
    BY <2>1 DEF Contiguous
<1>6. BatchInv' /\ ShutdownInv'
  BY DEF JournalTypeOK, CountersOK, BatchInv, ShutdownInv
<1> QED
  BY <1>1, <1>2, <1>3, <1>4, <1>5, <1>6, <1>7 DEF JournalTypeOK

(* close keeps the invariant.                                              *)
LEMMA CloseInv == JournalInv /\ Close => JournalInv'
<1> SUFFICES ASSUME JournalInv, Close PROVE JournalInv'
  OBVIOUS
<1> USE DEF JournalInv, Close, ringVars, workerVars, markVars, sinkVars
<1>1. RecordsOK' /\ CountersOK' /\ ControlOK'
  BY DEF JournalTypeOK, RecordsOK, CountersOK, ControlOK
<1>2. FlagsOK'
  BY DEF JournalTypeOK, FlagsOK
<1>3. MarksOrdered' /\ Contiguous' /\ BatchInv'
  BY DEF MarksOrdered, Contiguous, BatchInv
<1>4. ShutdownInv'
  BY DEF ShutdownInv, AllDurable
<1> QED
  BY <1>1, <1>2, <1>3, <1>4 DEF JournalTypeOK

(* A step that leaves the journal alone keeps the invariant.               *)
LEMMA StutterInv == JournalInv /\ UNCHANGED journalVars => JournalInv'
<1> SUFFICES ASSUME JournalInv, UNCHANGED journalVars PROVE JournalInv'
  OBVIOUS
<1> USE DEF JournalInv, journalVars, ringVars, workerVars, markVars, sinkVars
<1>1. RecordsOK' /\ CountersOK' /\ ControlOK'
  BY DEF JournalTypeOK, RecordsOK, CountersOK, ControlOK
<1>2. FlagsOK'
  BY DEF JournalTypeOK, FlagsOK
<1>3. MarksOrdered' /\ Contiguous' /\ BatchInv'
  BY DEF MarksOrdered, Contiguous, BatchInv
<1>4. ShutdownInv'
  BY DEF ShutdownInv, AllDurable
<1> QED
  BY <1>1, <1>2, <1>3, <1>4 DEF JournalTypeOK

(* The channel of a recovered engine starts in the invariant.              *)
LEMMA ResplitInv ==
  ASSUME JournalTypeOK, synced = Len(disk), Len(disk) < MaxSeq, Resplit(Len(disk) + 1)
  PROVE  JournalInv'
<1> USE DEF JournalTypeOK, Resplit, sinkVars
<1>0. Len(disk) \in Nat /\ RingCap \in Nat
  BY DEF RecordsOK
<1>1. RecordsOK'
  BY DEF RecordsOK
<1>2. CountersOK'
  BY <1>0 DEF CountersOK
<1>3. FlagsOK'
  BY DEF FlagsOK
<1>4. ControlOK'
  BY DEF ControlOK, WorkerStates
<1>5. MarksOrdered' /\ Contiguous' /\ BatchInv'
  BY <1>0 DEF MarksOrdered, Contiguous, BatchInv
<1>6. ShutdownInv'
  BY DEF ShutdownInv
<1> QED
  BY <1>1, <1>2, <1>3, <1>4, <1>5, <1>6 DEF JournalInv

(* One read from the ring, by the reader's owner or by drain_batch.        *)
LEMMA ReadInv ==
  ASSUME JournalInv, NEW here \in {"reader", "read"}, ReadRecord(here)
  PROVE  JournalInv'
<1> USE DEF JournalInv, ReadRecord, Fail, markVars, sinkVars
<1>0. /\ Head(ring) \in Records /\ Tail(ring) \in Seq(Records)
      /\ Len(Tail(ring)) = Len(ring) - 1 /\ Len(ring) \in Nat /\ Len(ring) > 0
      /\ \A i \in 1 .. Len(Tail(ring)) : Tail(ring)[i] = ring[i + 1]
      /\ Head(ring) = ring[1]
  BY DEF JournalTypeOK, RecordsOK
<1>s. Head(ring).seq = expected_sequence
  BY <1>0, SMTT(30) DEF JournalTypeOK, CountersOK, Contiguous
<1>m. expected_sequence < MaxSeq
  BY <1>0 DEF JournalTypeOK, CountersOK, MarksOrdered
<1>a. /\ ring' = Tail(ring) /\ expected_sequence' = expected_sequence + 1
      /\ batch' = Append(batch, Head(ring)) /\ wpc' = wpc /\ poisoned' = poisoned
      /\ wpc = here
  BY <1>s, <1>m
<1>b. /\ batch' \in Seq(Records) /\ Len(batch') = Len(batch) + 1 /\ Len(batch) \in Nat
  BY <1>a, <1>0 DEF JournalTypeOK, RecordsOK
<1>1. RecordsOK'
  BY <1>a, <1>0, <1>b DEF JournalTypeOK, RecordsOK
<1>2. CountersOK'
  BY <1>a, <1>m DEF JournalTypeOK, CountersOK
<1>3. FlagsOK'
  BY <1>a DEF JournalTypeOK, FlagsOK
<1>4. ControlOK'
  BY <1>a DEF JournalTypeOK, ControlOK
<1>5. MarksOrdered'
  BY <1>a, <1>0 DEF JournalTypeOK, CountersOK, MarksOrdered
<1>6. Contiguous'
  <2>1. Len(disk)' + Len(batch)' = expected_sequence' - 1 /\ synced' <= Len(disk)'
    BY <1>a, <1>b DEF JournalTypeOK, CountersOK, RecordsOK, Contiguous
  <2>2. \A i \in 1 .. Len(ring') : ring'[i].seq = expected_sequence' + i - 1
    <3> TAKE i \in 1 .. Len(ring')
    <3>1. i + 1 \in 1 .. Len(ring) /\ ring'[i] = ring[i + 1]
      BY <1>a, <1>0
    <3> QED
      BY <3>1, <1>a DEF Contiguous, JournalTypeOK, CountersOK
  <2> QED
    BY <2>1, <2>2 DEF Contiguous
<1>7. BatchInv'
  <2>1. wpc' \in {"reader", "read"} /\ next_written + Len(batch) = expected_sequence
    BY <1>a DEF BatchInv
  <2>2. next_written' + Len(batch') = expected_sequence'
    BY <2>1, <1>a, <1>b DEF JournalTypeOK, CountersOK
  <2> QED
    BY <2>1, <2>2 DEF BatchInv
<1>8. ShutdownInv'
  BY <1>a DEF ShutdownInv
<1> QED
  BY <1>1, <1>2, <1>3, <1>4, <1>5, <1>6, <1>7, <1>8 DEF JournalTypeOK

(* Steps that move the control state only.                                 *)
LEMMA ControlInv ==
  ASSUME JournalInv, NewWorker \/ StartDrain \/ StartShutdown \/ DrainReadEnd
  PROVE  JournalInv'
<1> USE DEF JournalInv, NewWorker, StartDrain, StartShutdown, DrainReadEnd,
            ringVars, markVars, sinkVars
<1>1. RecordsOK' /\ CountersOK'
  BY DEF JournalTypeOK, RecordsOK, CountersOK
<1>2. FlagsOK'
  BY DEF JournalTypeOK, FlagsOK
<1>3. ControlOK'
  BY DEF JournalTypeOK, ControlOK, WorkerStates
<1>4. MarksOrdered' /\ Contiguous'
  BY DEF MarksOrdered, Contiguous
<1>5. BatchInv'
  <2>0. expected_sequence \in Nat /\ next_written \in Nat /\ Len(batch) \in Nat
        /\ (Len(batch) = 0 <=> batch = <<>>) /\ Len(<<>>) = 0 /\ Batch # 0
    BY DEF JournalTypeOK, CountersOK, RecordsOK
  <2>1. CASE NewWorker
    BY <2>0, <2>1 DEF BatchInv
  <2>2. CASE StartDrain
    BY <2>0, <2>2 DEF BatchInv
  <2>3. CASE StartShutdown
    BY <2>0, <2>3 DEF BatchInv
  <2>4. CASE DrainReadEnd
    BY <2>0, <2>4 DEF BatchInv
  <2> QED
    BY <2>1, <2>2, <2>3, <2>4
<1>6. ShutdownInv'
  <2>0. Len(batch) = Batch => batch # <<>>
    BY DEF JournalTypeOK, RecordsOK
  <2>1. CASE NewWorker
    BY <2>1 DEF ShutdownInv
  <2>2. CASE StartDrain
    BY <2>2 DEF ShutdownInv
  <2>3. CASE StartShutdown
    BY <2>3 DEF ShutdownInv
  <2>4. CASE DrainReadEnd
    BY <2>0, <2>4 DEF ShutdownInv
  <2> QED
    BY <2>1, <2>2, <2>3, <2>4
<1> QED
  BY <1>1, <1>2, <1>3, <1>4, <1>5, <1>6 DEF JournalTypeOK

(* Steps that end in failure or in the worker's disappearance.             *)
LEMMA FailInv ==
  ASSUME JournalInv, DrainWriteFails \/ FlushFails \/ DropWorker
  PROVE  JournalInv'
<1> USE DEF JournalInv, DrainWriteFails, FlushFails, DropWorker, Fail,
            ringVars, markVars, sinkVars
<1>1. RecordsOK' /\ CountersOK'
  BY DEF JournalTypeOK, RecordsOK, CountersOK
<1>2. FlagsOK'
  BY DEF JournalTypeOK, FlagsOK
<1>3. ControlOK'
  BY DEF JournalTypeOK, ControlOK, WorkerStates
<1>4. MarksOrdered' /\ Contiguous'
  BY DEF MarksOrdered, Contiguous
<1>5. BatchInv'
  BY DEF BatchInv
<1>6. ShutdownInv'
  BY DEF ShutdownInv, AllDurable
<1> QED
  BY <1>1, <1>2, <1>3, <1>4, <1>5, <1>6 DEF JournalTypeOK

(* write_all moves the batch's first record to the sink.                   *)
LEMMA WriteInv == JournalInv /\ DrainWrite => JournalInv'
<1> SUFFICES ASSUME JournalInv, DrainWrite PROVE JournalInv'
  OBVIOUS
<1> USE DEF JournalInv, DrainWrite, ringVars, markVars
<1>0. /\ batch # <<>> /\ Head(batch) \in Records /\ Tail(batch) \in Seq(Records)
      /\ Len(batch) \in Nat /\ Len(batch) > 0 /\ Len(Tail(batch)) = Len(batch) - 1
      /\ Append(disk, Head(batch)) \in Seq(Records)
      /\ Len(Append(disk, Head(batch))) = Len(disk) + 1 /\ Len(disk) \in Nat
  BY DEF JournalTypeOK, RecordsOK, BatchInv
<1>1. RecordsOK'
  BY <1>0 DEF JournalTypeOK, RecordsOK
<1>2. CountersOK'
  BY DEF JournalTypeOK, CountersOK
<1>3. FlagsOK'
  BY DEF JournalTypeOK, FlagsOK
<1>4. ControlOK'
  BY DEF JournalTypeOK, ControlOK, WorkerStates
<1>5. MarksOrdered'
  BY <1>0 DEF JournalTypeOK, CountersOK, MarksOrdered
<1>6. Contiguous'
  BY <1>0, SMTT(30) DEF JournalTypeOK, CountersOK, Contiguous
<1>7. BatchInv'
  BY DEF BatchInv
<1>8. ShutdownInv'
  BY DEF ShutdownInv
<1> QED
  BY <1>1, <1>2, <1>3, <1>4, <1>5, <1>6, <1>7, <1>8 DEF JournalTypeOK

(* The watermark stores, the sink's flush and the final flag.              *)
LEMMA PublishInv ==
  ASSUME JournalInv, PublishWritten \/ Flush \/ PublishDurable \/ Complete
  PROVE  JournalInv'
<1> USE DEF JournalInv, PublishWritten, Flush, PublishDurable, Complete, Drained,
            ringVars, markVars, sinkVars
<1>0. Len(disk) \in Nat /\ Len(<<>>) = 0
  BY DEF JournalTypeOK, RecordsOK
<1>1. RecordsOK'
  BY DEF JournalTypeOK, RecordsOK
<1>2. CountersOK'
  BY <1>0 DEF JournalTypeOK, CountersOK
<1>3. FlagsOK'
  BY DEF JournalTypeOK, FlagsOK
<1>4. ControlOK'
  BY DEF JournalTypeOK, ControlOK, WorkerStates
<1>5. MarksOrdered'
  BY <1>0 DEF JournalTypeOK, CountersOK, MarksOrdered, Contiguous, BatchInv
<1>6. Contiguous'
  BY <1>0, SMTT(30) DEF JournalTypeOK, CountersOK, Contiguous
<1>7. BatchInv'
  <2>0. expected_sequence \in Nat /\ expected_sequence + 0 = expected_sequence
    BY DEF JournalTypeOK, CountersOK
  <2>1. CASE PublishWritten
    BY <1>0, <2>0, <2>1 DEF BatchInv
  <2>2. CASE Flush
    BY <2>2 DEF BatchInv
  <2>3. CASE PublishDurable
    BY <1>0, <2>0, <2>3 DEF BatchInv
  <2>4. CASE Complete
    BY <2>4 DEF BatchInv
  <2> QED
    BY <2>1, <2>2, <2>3, <2>4
<1>8. ShutdownInv'
  <2>0. wpc = "finish" => AllDurable /\ next_written = expected_sequence
    BY <1>0 DEF BatchInv, ShutdownInv, MarksOrdered, AllDurable, JournalTypeOK, CountersOK
  <2>1. CASE PublishWritten
    BY <2>1 DEF ShutdownInv
  <2>2. CASE Flush
    BY <2>2 DEF ShutdownInv
  <2>3. CASE PublishDurable
    BY <2>3 DEF ShutdownInv
  <2>4. CASE Complete
    BY <2>0, <2>4 DEF ShutdownInv, AllDurable
  <2> QED
    BY <2>1, <2>2, <2>3, <2>4
<1> QED
  BY <1>1, <1>2, <1>3, <1>4, <1>5, <1>6, <1>7, <1>8 DEF JournalTypeOK

(* Every step of the reader, the worker and the sink keeps the invariant   *)
(* and leaves the writer's counter and the closed flag alone.              *)
LEMMA WorkerInv ==
  ASSUME JournalInv, WorkerNext
  PROVE  JournalInv' /\ next_sequence' = next_sequence
         /\ producer_closed' = producer_closed
<1>1. JournalInv'
  BY ControlInv, FailInv, WriteInv, PublishInv, ReadInv
     DEF WorkerNext, WorkerStep, WorkerFault, WorkerCall, DrainRead
<1>2. next_sequence' = next_sequence /\ producer_closed' = producer_closed
  BY DEF WorkerNext, WorkerStep, WorkerFault, WorkerCall, DrainRead, ReadRecord, NewWorker,
         StartDrain, StartShutdown, DropWorker, DrainReadEnd, DrainWrite, PublishWritten,
         Flush, PublishDurable, Complete, DrainWriteFails, FlushFails, ringVars
<1> QED
  BY <1>1, <1>2
=============================================================================
