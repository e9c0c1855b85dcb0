----------------------- MODULE JournaledEngineProofs -----------------------
(***************************************************************************)
(* Proofs about JournaledEngine for every ring, batch, event and sequence  *)
(* capacity, every number of crashes and every set of commands: the        *)
(* invariant of the journal (JournalProofs) and the engine thread's own,   *)
(* which ties its history to the writer's counter and its admission to the *)
(* closed flag.                                                            *)
(***************************************************************************)
EXTENDS JournaledEngine, JournalProofs

(* Only an engine that still has its writer is between two steps of a      *)
(* command, so nothing is enqueued once the producer is closed; and it is  *)
(* not between two steps of a command while it reads the status.           *)
AdmissionInv ==
  /\ writer = ~producer_closed
  /\ epc \in {"admitted", "enqueued"} => writer /\ cmd \in Cmds
  /\ reader = "engine" => epc = "status"

EngineTypeOK == EngineFlagsOK /\ EngineControlOK /\ EngineDataOK /\ seen \in StatusType

LiveInv ==
  up = "up" => JournalInv /\ AdmissionInv /\ CountersAligned /\ EventsFit

(* The inductive invariant.  While the process is down only the sink       *)
(* matters: everything left in it counts as synced.                        *)
IInv ==
  /\ JournalTypeOK /\ EngineTypeOK
  /\ LiveInv
  /\ Len(disk) < MaxSeq
  /\ up = "down" => synced = Len(disk)

USE JournalAssumption, EngineAssumption

-----------------------------------------------------------------------------
(* The consequences of the invariant that the theorems are about.          *)
LEMMA IInvConsequences ==
  IInv => TypeOK /\ Watermarks /\ CountersAligned /\ EventsFit /\ CompleteMeansAll
BY DEF IInv, EngineTypeOK, LiveInv, TypeOK, Watermarks, CountersAligned, EventsFit,
       CompleteMeansAll, JournalInv, ShutdownInv

(* EngineBuilder::build establishes the invariant.                         *)
LEMMA InitIInv == Init => IInv
<1> SUFFICES ASSUME Init PROVE IInv
  OBVIOUS
<1> USE DEF Init
<1>1. JournalInv
  BY InitJournalInv
<1>2. EngineFlagsOK
  BY DEF EngineFlagsOK
<1>3. EngineControlOK
  BY DEF EngineControlOK
<1>4. EngineDataOK
  BY DEF EngineDataOK
<1>5. seen \in StatusType
  BY DEF StatusType, NoRead
<1>6. AdmissionInv
  BY DEF AdmissionInv, JournalInit
<1>7. CountersAligned /\ EventsFit
  BY DEF CountersAligned, EventsFit, Expected, JournalInit
<1>8. Len(disk) < MaxSeq
  BY DEF JournalInit
<1> QED
  BY <1>1, <1>2, <1>3, <1>4, <1>5, <1>6, <1>7, <1>8
     DEF IInv, LiveInv, EngineTypeOK, JournalInv

(* What is left to show of a step that does not stop the process.          *)
LEMMA LiveStep ==
  ASSUME up' = "up", JournalInv', EngineTypeOK', AdmissionInv', CountersAligned', EventsFit'
  PROVE  IInv'
<1>1. Len(disk)' < MaxSeq
  BY DEF JournalInv, JournalTypeOK, CountersOK, RecordsOK, Contiguous
<1> QED
  BY <1>1 DEF IInv, LiveInv, JournalInv

(* Closing the writer, once or again.                                      *)
LEMMA CloseWriterInv ==
  ASSUME JournalInv, writer \in BOOLEAN, writer = ~producer_closed, CloseWriter
  PROVE  /\ JournalInv' /\ writer' = FALSE /\ producer_closed' = TRUE
         /\ next_sequence' = next_sequence /\ poisoned' = poisoned
<1>0. producer_closed \in BOOLEAN
  BY DEF JournalInv, JournalTypeOK, FlagsOK
<1>1. CASE writer
  BY <1>1, CloseInv DEF CloseWriter, Close, ringVars
<1>2. CASE ~writer
  BY <1>0, <1>2, StutterInv DEF CloseWriter, journalVars, ringVars
<1> QED
  BY <1>1, <1>2

LEMMA AdmitInv ==
  ASSUME IInv, up = "up", NEW c \in Cmds, Admit(c)
  PROVE  IInv'
<1>0. JournalInv /\ AdmissionInv /\ CountersAligned /\ EventsFit /\ EngineTypeOK
  BY DEF IInv, LiveInv
<1>u. UNCHANGED <<history, faulty, events, rpc, reader, seen, up, crashes, snap, promised>>
  BY DEF Admit, statusVars, worldVars
<1>1. CASE FailEngine
  <2>1. JournalInv' /\ writer' = FALSE /\ producer_closed' = TRUE
        /\ next_sequence' = next_sequence
    BY <1>0, <1>1, CloseWriterInv DEF FailEngine, AdmissionInv, EngineTypeOK, EngineFlagsOK
  <2>2. failed' = TRUE /\ epc' = "idle" /\ cmd' = NoCmd
    BY <1>1 DEF FailEngine
  <2>3. EngineTypeOK'
    <3>1. EngineFlagsOK'
      BY <2>1, <2>2 DEF EngineFlagsOK
    <3>2. EngineControlOK'
      BY <1>0, <1>u, <2>2 DEF EngineTypeOK, EngineControlOK
    <3>3. EngineDataOK' /\ seen' \in StatusType
      BY <1>0, <1>u DEF EngineTypeOK, EngineDataOK
    <3> QED
      BY <3>1, <3>2, <3>3 DEF EngineTypeOK
  <2>4. AdmissionInv' /\ EventsFit'
    BY <1>0, <1>u, <2>1, <2>2 DEF AdmissionInv, EventsFit, Admit
  <2>5. CountersAligned'
    <3>1. epc = "idle"
      BY DEF Admit
    <3> QED
      BY <1>0, <1>u, <2>1, <2>2, <3>1 DEF CountersAligned, Expected
  <2> QED
    BY <1>u, <2>1, <2>3, <2>4, <2>5, LiveStep
<1>2. CASE /\ writer /\ Len(events) < EventCap /\ epc = "idle"
           /\ epc' = "admitted" /\ cmd' = c
           /\ UNCHANGED <<journalVars, writer, failed>>
  <2>1. JournalInv'
    BY <1>0, <1>2, StutterInv
  <2>2. EngineTypeOK'
    <3>1. EngineFlagsOK'
      BY <1>0, <1>2 DEF EngineTypeOK, EngineFlagsOK
    <3>2. EngineControlOK'
      BY <1>0, <1>u, <1>2 DEF EngineTypeOK, EngineControlOK
    <3>3. EngineDataOK' /\ seen' \in StatusType
      BY <1>0, <1>u DEF EngineTypeOK, EngineDataOK
    <3> QED
      BY <3>1, <3>2, <3>3 DEF EngineTypeOK
  <2>3. AdmissionInv'
    BY <1>0, <1>u, <1>2 DEF AdmissionInv, journalVars
  <2>4. CountersAligned' /\ EventsFit'
    BY <1>0, <1>u, <1>2 DEF CountersAligned, EventsFit, Expected, journalVars, ringVars
  <2> QED
    BY <1>u, <2>1, <2>2, <2>3, <2>4, LiveStep
<1> QED
  BY <1>1, <1>2 DEF Admit

LEMMA EnqueueAdmittedInv == IInv /\ up = "up" /\ EnqueueAdmitted => IInv'
<1> SUFFICES ASSUME IInv, up = "up", EnqueueAdmitted PROVE IInv'
  OBVIOUS
<1>0. JournalInv /\ AdmissionInv /\ CountersAligned /\ EventsFit /\ EngineTypeOK
  BY DEF IInv, LiveInv
<1>u. /\ UNCHANGED <<history, faulty, events, rpc, reader, seen, up, crashes, snap, promised,
                     writer, failed>>
      /\ epc = "admitted"
  BY DEF EnqueueAdmitted, statusVars, worldVars
<1>w. writer /\ cmd \in Cmds /\ ~producer_closed
  BY <1>0, <1>u DEF AdmissionInv
<1>3. EngineTypeOK'
  <2>1. EngineFlagsOK'
    BY <1>0, <1>u DEF EngineTypeOK, EngineFlagsOK
  <2>2. EngineControlOK'
    BY <1>0, <1>u DEF EngineTypeOK, EngineControlOK, EnqueueAdmitted
  <2>3. EngineDataOK' /\ seen' \in StatusType
    BY <1>0, <1>u DEF EngineTypeOK, EngineDataOK
  <2> QED
    BY <2>1, <2>2, <2>3 DEF EngineTypeOK
<1>1. CASE CanEnqueue
  <2>1. Enqueue(cmd) /\ epc' = "enqueued" /\ cmd' = cmd
    BY <1>1 DEF EnqueueAdmitted
  <2>2. JournalInv'
    BY <1>0, <1>w, <2>1, EnqueueInv
  <2>3. AdmissionInv'
    BY <1>0, <1>u, <1>w, <2>1 DEF AdmissionInv, Enqueue
  <2>4. CountersAligned' /\ EventsFit'
    BY <1>0, <1>u, <2>1 DEF CountersAligned, EventsFit, Expected, Enqueue, JournalInv,
       JournalTypeOK, CountersOK, EngineTypeOK, EngineDataOK
  <2> QED
    BY <1>u, <1>3, <2>2, <2>3, <2>4, LiveStep
<1>2. CASE ~CanEnqueue
  <2>1. UNCHANGED journalVars /\ epc' = "idle"
    BY <1>2 DEF EnqueueAdmitted
  <2>2. JournalInv'
    BY <1>0, <2>1, StutterInv
  <2>3. AdmissionInv'
    BY <1>0, <1>u, <2>1 DEF AdmissionInv, journalVars
  <2>4. CountersAligned' /\ EventsFit'
    BY <1>0, <1>u, <2>1 DEF CountersAligned, EventsFit, Expected, journalVars, ringVars
  <2> QED
    BY <1>u, <1>3, <2>2, <2>3, <2>4, LiveStep
<1> QED
  BY <1>1, <1>2

(* Publication after application, and a broken gateway.                    *)
LEMMA ApplyInv ==
  ASSUME IInv, up = "up", ApplyAdmitted \/ ApplyFaults
  PROVE  IInv'
<1>0. JournalInv /\ AdmissionInv /\ CountersAligned /\ EventsFit /\ EngineTypeOK
  BY DEF IInv, LiveInv
<1>u. /\ UNCHANGED <<rpc, reader, seen, up, crashes, snap, promised>>
      /\ epc = "enqueued" /\ history' = Append(history, cmd)
  BY DEF ApplyAdmitted, ApplyFaults, statusVars, worldVars
<1>w. writer /\ cmd \in Cmds /\ Len(events) < EventCap
  BY <1>0, <1>u DEF AdmissionInv, EventsFit
<1>e. Expected \in 1 .. MaxSeq /\ next_sequence = Expected + 1 /\ Expected' = Expected + 1
  BY <1>0, <1>u, <1>w DEF CountersAligned, Expected, JournalInv, JournalTypeOK, CountersOK,
     EngineTypeOK, EngineDataOK
<1>h. history' \in Seq(Cmds)
  BY <1>0, <1>u, <1>w DEF EngineTypeOK, EngineDataOK
<1>1. CASE ApplyAdmitted
  <2>1. /\ events' = Append(events, Expected) /\ epc' = "idle" /\ cmd' = NoCmd
        /\ UNCHANGED <<journalVars, writer, failed, faulty>>
    BY <1>1, <1>w DEF ApplyAdmitted
  <2>2. JournalInv'
    BY <1>0, <2>1, StutterInv
  <2>3. EngineTypeOK'
    <3>1. EngineFlagsOK'
      BY <1>0, <2>1 DEF EngineTypeOK, EngineFlagsOK
    <3>2. EngineControlOK'
      BY <1>0, <1>u, <2>1 DEF EngineTypeOK, EngineControlOK
    <3>3. EngineDataOK' /\ seen' \in StatusType
      BY <1>0, <1>u, <1>e, <1>h, <2>1 DEF EngineTypeOK, EngineDataOK
    <3> QED
      BY <3>1, <3>2, <3>3 DEF EngineTypeOK
  <2>4. AdmissionInv' /\ EventsFit'
    BY <1>0, <1>u, <2>1 DEF AdmissionInv, EventsFit, journalVars
  <2>5. CountersAligned'
    BY <1>e, <2>1 DEF CountersAligned, journalVars, ringVars, Expected
  <2> QED
    BY <1>u, <2>2, <2>3, <2>4, <2>5, LiveStep
<1>2. CASE ApplyFaults
  <2>1. /\ failed' = TRUE /\ CloseWriter /\ epc' = "idle" /\ cmd' = NoCmd
        /\ faulty' = Expected /\ events' = events
    BY <1>2 DEF ApplyFaults, FailEngine
  <2>2. JournalInv' /\ writer' = FALSE /\ producer_closed' = TRUE
        /\ next_sequence' = next_sequence
    BY <1>0, <2>1, CloseWriterInv DEF AdmissionInv, EngineTypeOK, EngineFlagsOK
  <2>3. EngineTypeOK'
    <3>1. EngineFlagsOK'
      BY <2>1, <2>2 DEF EngineFlagsOK
    <3>2. EngineControlOK'
      BY <1>0, <1>u, <2>1 DEF EngineTypeOK, EngineControlOK
    <3>3. EngineDataOK' /\ seen' \in StatusType
      BY <1>0, <1>u, <1>e, <1>h, <2>1 DEF EngineTypeOK, EngineDataOK
    <3> QED
      BY <3>1, <3>2, <3>3 DEF EngineTypeOK
  <2>4. AdmissionInv' /\ EventsFit'
    BY <1>0, <1>u, <2>1, <2>2 DEF AdmissionInv, EventsFit
  <2>5. CountersAligned'
    BY <1>e, <2>1, <2>2 DEF CountersAligned, Expected
  <2> QED
    BY <1>u, <2>2, <2>3, <2>4, <2>5, LiveStep
<1> QED
  BY <1>1, <1>2

LEMMA StopAdmissionInv == IInv /\ up = "up" /\ StopAdmission => IInv'
<1> SUFFICES ASSUME IInv, up = "up", StopAdmission PROVE IInv'
  OBVIOUS
<1>0. JournalInv /\ AdmissionInv /\ CountersAligned /\ EventsFit /\ EngineTypeOK
  BY DEF IInv, LiveInv
<1>u. /\ UNCHANGED <<epc, cmd, failed, history, faulty, events, rpc, reader, seen, up,
                     crashes, snap, promised>>
      /\ epc = "idle" /\ CloseWriter
  BY DEF StopAdmission, statusVars, worldVars
<1>1. JournalInv' /\ writer' = FALSE /\ producer_closed' = TRUE
      /\ next_sequence' = next_sequence
  BY <1>0, <1>u, CloseWriterInv DEF AdmissionInv, EngineTypeOK, EngineFlagsOK
<1>2. EngineFlagsOK'
  BY <1>0, <1>u, <1>1 DEF EngineTypeOK, EngineFlagsOK
<1>3. EngineControlOK' /\ EngineDataOK' /\ seen' \in StatusType
  BY <1>0, <1>u DEF EngineTypeOK, EngineControlOK, EngineDataOK
<1>4. AdmissionInv' /\ EventsFit'
  BY <1>0, <1>u, <1>1 DEF AdmissionInv, EventsFit
<1>5. CountersAligned'
  BY <1>0, <1>u, <1>1 DEF CountersAligned, Expected
<1> QED
  BY <1>u, <1>1, <1>2, <1>3, <1>4, <1>5, LiveStep DEF EngineTypeOK

(* The event consumer only makes room.                                     *)
LEMMA TakeEventInv == IInv /\ up = "up" /\ TakeEvent => IInv'
<1> SUFFICES ASSUME IInv, up = "up", TakeEvent PROVE IInv'
  OBVIOUS
<1>0. JournalInv /\ AdmissionInv /\ CountersAligned /\ EventsFit /\ EngineTypeOK
  BY DEF IInv, LiveInv
<1>u. UNCHANGED <<journalVars, epc, cmd, writer, failed, history, faulty, rpc, reader, seen,
                  up, crashes, snap, promised>>
  BY DEF TakeEvent, engineVars, statusVars, worldVars
<1>1. events' \in Seq(1 .. MaxSeq) /\ Len(events') < Len(events) /\ Len(events) \in Nat
      /\ Len(events') \in Nat
  BY <1>0 DEF TakeEvent, EngineTypeOK, EngineDataOK
<1>2. EngineFlagsOK' /\ EngineControlOK' /\ seen' \in StatusType
  BY <1>0, <1>u DEF EngineTypeOK, EngineFlagsOK, EngineControlOK
<1>3. EngineDataOK'
  BY <1>0, <1>u, <1>1 DEF EngineTypeOK, EngineDataOK
<1>4. JournalInv'
  BY <1>0, <1>u, StutterInv
<1>5. AdmissionInv'
  BY <1>0, <1>u DEF AdmissionInv, journalVars
<1>6. EventsFit'
  BY <1>0, <1>u, <1>1 DEF EventsFit
<1>7. CountersAligned'
  BY <1>0, <1>u DEF CountersAligned, Expected, journalVars, ringVars
<1> QED
  BY <1>u, <1>2, <1>3, <1>4, <1>5, <1>6, <1>7, LiveStep DEF EngineTypeOK

(* A status snapshot changes no state but its own and the snapshot store.  *)
LEMMA StatusInv ==
  ASSUME IInv, up = "up",
         (\E who \in {"monitor", "engine"} : StatusBegin(who)) \/ StatusRead \/ StatusReturn
  PROVE  IInv'
<1>0. JournalInv /\ AdmissionInv /\ CountersAligned /\ EventsFit /\ EngineTypeOK
  BY DEF IInv, LiveInv
<1>u. UNCHANGED <<journalVars, cmd, writer, failed, history, faulty, events, promised, up,
                  crashes>>
  BY DEF StatusBegin, StatusRead, StatusReturn, engineVars, statusVars, worldVars
<1>1. /\ epc' \in {epc, "idle", "status"}
      /\ epc' \in {"admitted", "enqueued"} => epc \in {"admitted", "enqueued"}
      /\ epc' = "enqueued" <=> epc = "enqueued"
      /\ reader' = "engine" => epc' = "status"
      /\ reader' \in {"nobody", "monitor", "engine"} /\ rpc' \in 0 .. 5
      /\ snap' \in {snap, history}
  BY <1>0 DEF AdmissionInv, EngineTypeOK, EngineControlOK, StatusBegin, StatusRead,
     StatusReturn, engineVars, worldVars
<1>2. seen' \in StatusType
  <2>1. CASE StatusRead
    <3>1. /\ complete \in BOOLEAN /\ producer_closed \in BOOLEAN /\ poisoned \in BOOLEAN
          /\ next_durable \in 0 .. MaxSeq /\ next_written \in 0 .. MaxSeq
      BY <1>0 DEF JournalInv, JournalTypeOK, FlagsOK, CountersOK
    <3> QED
      BY <1>0, <2>1, <3>1 DEF StatusRead, EngineTypeOK, StatusType
  <2>2. NoRead \in StatusType
    BY DEF NoRead, StatusType
  <2> QED
    BY <2>1, <2>2 DEF StatusBegin, StatusReturn
<1>3. EngineFlagsOK'
  BY <1>0, <1>u DEF EngineTypeOK, EngineFlagsOK
<1>4. EngineControlOK'
  BY <1>0, <1>u, <1>1 DEF EngineTypeOK, EngineControlOK
<1>5. EngineDataOK'
  BY <1>0, <1>u, <1>1 DEF EngineTypeOK, EngineDataOK
<1>6. JournalInv'
  BY <1>0, <1>u, StutterInv
<1>7. AdmissionInv' /\ EventsFit'
  BY <1>0, <1>u, <1>1 DEF AdmissionInv, EventsFit, journalVars
<1>8. CountersAligned'
  BY <1>0, <1>u, <1>1 DEF CountersAligned, Expected, journalVars, ringVars
<1> QED
  BY <1>u, <1>2, <1>3, <1>4, <1>5, <1>6, <1>7, <1>8, LiveStep DEF EngineTypeOK

(* The payloads of a sequence of records.                                  *)
LEMMA CmdsOfType ==
  ASSUME NEW r \in Seq(Records)
  PROVE  CmdsOf(r) \in Seq(Cmds) /\ Len(CmdsOf(r)) = Len(r)
<1>1. \A i \in 1 .. Len(r) : r[i].cmd \in Cmds
  <2> TAKE i \in 1 .. Len(r)
  <2>1. r[i] \in Records
    OBVIOUS
  <2> QED
    BY <2>1 DEF Records
<1> QED
  BY <1>1 DEF CmdsOf

(* Every step of the persistence side.                                     *)
LEMMA WorkerStepInv == IInv /\ up = "up" /\ Worker => IInv'
<1> SUFFICES ASSUME IInv, up = "up", Worker PROVE IInv'
  OBVIOUS
<1>0. JournalInv /\ AdmissionInv /\ CountersAligned /\ EventsFit /\ EngineTypeOK
  BY DEF IInv, LiveInv
<1>u. UNCHANGED <<epc, cmd, writer, failed, history, faulty, events, rpc, reader, seen, up,
                  crashes, snap>>
  BY DEF Worker, engineVars, statusVars, worldVars
<1>1. JournalInv' /\ next_sequence' = next_sequence /\ producer_closed' = producer_closed
  BY <1>0, WorkerInv DEF Worker
<1>2. promised' \in Seq(Cmds)
  <2>1. CASE next_durable' = next_durable
    BY <1>0, <2>1 DEF Worker, EngineTypeOK, EngineDataOK
  <2>2. CASE next_durable' # next_durable
    <3>1. disk' = disk
      BY <2>2 DEF Worker, WorkerNext, WorkerStep, WorkerFault, WorkerCall, DrainRead,
         ReadRecord, NewWorker, StartDrain, StartShutdown, DropWorker, DrainReadEnd,
         DrainWrite, PublishWritten, Flush, PublishDurable, Complete, DrainWriteFails,
         FlushFails, markVars, sinkVars
    <3>2. next_durable' - 1 \in 0 .. Len(disk) /\ disk \in Seq(Records)
      <4>1. disk' \in Seq(Records) /\ Len(disk') \in Nat
        BY <1>1 DEF JournalInv, JournalTypeOK, RecordsOK
      <4>2. next_durable' \in 1 .. MaxSeq /\ synced' \in Nat
        BY <1>1 DEF JournalInv, JournalTypeOK, CountersOK
      <4>3. next_durable' - 1 <= synced' /\ synced' <= Len(disk')
        BY <1>1 DEF JournalInv, MarksOrdered, Contiguous
      <4>4. ASSUME NEW d \in 1 .. MaxSeq, NEW y \in Nat, NEW n \in Nat, d - 1 <= y, y <= n
            PROVE  d - 1 \in 0 .. n
        BY <4>4
      <4>5. next_durable' - 1 \in 0 .. Len(disk')
        BY <4>1, <4>2, <4>3, <4>4
      <4> QED
        BY <3>1, <4>1, <4>5
    <3>3. SubSeq(disk, 1, next_durable' - 1) \in Seq(Records)
      BY <3>2
    <3> QED
      BY <2>2, <3>3, CmdsOfType DEF Worker
  <2> QED
    BY <2>1, <2>2
<1>3. EngineFlagsOK'
  BY <1>0, <1>u DEF EngineTypeOK, EngineFlagsOK
<1>4. EngineControlOK' /\ seen' \in StatusType
  BY <1>0, <1>u DEF EngineTypeOK, EngineControlOK
<1>5. EngineDataOK'
  BY <1>0, <1>u, <1>2 DEF EngineTypeOK, EngineDataOK
<1>6. AdmissionInv' /\ EventsFit'
  BY <1>0, <1>u, <1>1 DEF AdmissionInv, EventsFit
<1>7. CountersAligned'
  BY <1>0, <1>u, <1>1 DEF CountersAligned, Expected
<1> QED
  BY <1>u, <1>1, <1>3, <1>4, <1>5, <1>6, <1>7, LiveStep DEF EngineTypeOK

LEMMA CrashInv == IInv /\ up = "up" /\ Crash => IInv'
<1> SUFFICES ASSUME IInv, up = "up", Crash PROVE IInv'
  OBVIOUS
<1>0. JournalTypeOK /\ EngineTypeOK /\ Len(disk) < MaxSeq /\ disk \in Seq(Records)
      /\ synced \in Nat
  BY DEF IInv, JournalTypeOK, RecordsOK, CountersOK
<1>u. /\ UNCHANGED <<ringVars, workerVars, markVars, producer_closed, poisoned, complete,
                     engineVars, events, statusVars, snap, promised>>
      /\ up' = "down" /\ crashes' = crashes + 1 /\ crashes < MaxCrash
      /\ synced' = Len(disk')
  BY DEF Crash
<1>1. PICK k \in synced .. Len(disk) :
        /\ disk' = SubSeq(disk, 1, k)
        /\ torn' \in IF k < Len(disk) \/ wpc = "write" \/ torn THEN BOOLEAN ELSE {FALSE}
  BY DEF Crash
<1>2. disk' \in Seq(Records) /\ Len(disk') = k /\ k \in Nat /\ k <= Len(disk)
  BY <1>0, <1>1
<1>3. torn' \in BOOLEAN
  BY <1>1
<1>4. RecordsOK'
  BY <1>0, <1>u, <1>2 DEF JournalTypeOK, RecordsOK, ringVars, workerVars
<1>5. CountersOK'
  BY <1>0, <1>u, <1>2 DEF JournalTypeOK, CountersOK, ringVars, workerVars, markVars
<1>6. FlagsOK'
  BY <1>0, <1>u, <1>3 DEF JournalTypeOK, FlagsOK, workerVars
<1>7. ControlOK'
  BY <1>0, <1>u DEF JournalTypeOK, ControlOK, workerVars
<1>8. EngineFlagsOK'
  BY <1>0, <1>u DEF EngineTypeOK, EngineFlagsOK, engineVars
<1>9. EngineControlOK' /\ seen' \in StatusType
  BY <1>0, <1>u DEF EngineTypeOK, EngineControlOK, engineVars, statusVars
<1>10. EngineDataOK'
  BY <1>0, <1>u DEF EngineTypeOK, EngineDataOK, engineVars
<1>11. Len(disk)' < MaxSeq
  BY <1>0, <1>2
<1> QED
  BY <1>u, <1>4, <1>5, <1>6, <1>7, <1>8, <1>9, <1>10, <1>11
     DEF IInv, JournalTypeOK, EngineTypeOK, LiveInv

(* Recovery: the tail replays to a history as long as the sink, so the new *)
(* channel's counter is the restored gateway's expected sequence.          *)
LEMMA RestartInv == IInv /\ Restart => IInv'
<1> SUFFICES ASSUME IInv, Restart PROVE IInv'
  OBVIOUS
<1>0. JournalTypeOK /\ EngineTypeOK /\ Len(disk) < MaxSeq /\ disk \in Seq(Records)
      /\ synced = Len(disk) /\ snap \in Seq(Cmds)
  BY DEF IInv, JournalTypeOK, RecordsOK, Restart, EngineTypeOK, EngineDataOK
<1>u. /\ epc' = "idle" /\ cmd' = NoCmd /\ writer' = (up' = "up") /\ failed' = FALSE
      /\ faulty' = 0 /\ events' = <<>> /\ rpc' = 0 /\ reader' = "nobody" /\ seen' = NoRead
      /\ UNCHANGED <<crashes, snap, promised>>
      /\ up' \in {"up", "refused"}
  BY DEF Restart
<1>1. EngineFlagsOK'
  BY <1>u DEF EngineFlagsOK
<1>2. EngineControlOK'
  BY <1>u DEF EngineControlOK
<1>3. seen' \in StatusType
  BY <1>u DEF NoRead, StatusType
<1>4. CASE TailReplays
  <2>1. /\ up' = "up" /\ history' = snap \o CmdsOf(Suffix)
        /\ Resplit(Len(disk) + 1)
    BY <1>4 DEF Restart
  <2>2. Suffix \in Seq(Records) /\ Len(Suffix) = Len(disk) - Len(snap)
    BY <1>0, <1>4 DEF Suffix, TailReplays
  <2>3. CmdsOf(Suffix) \in Seq(Cmds) /\ Len(CmdsOf(Suffix)) = Len(Suffix)
    BY <2>2, CmdsOfType
  <2>4. history' \in Seq(Cmds) /\ Len(history') = Len(disk)
    BY <1>0, <2>1, <2>2, <2>3
  <2>5. JournalInv'
    BY <1>0, <2>1, ResplitInv
  <2>6. EngineDataOK'
    BY <1>0, <1>u, <2>4 DEF EngineTypeOK, EngineDataOK
  <2>7. AdmissionInv' /\ EventsFit'
    BY <1>u, <2>1 DEF AdmissionInv, EventsFit, Resplit
  <2>8. CountersAligned'
    BY <1>u, <2>1, <2>4 DEF CountersAligned, Expected, Resplit
  <2> QED
    BY <1>1, <1>2, <1>3, <2>1, <2>5, <2>6, <2>7, <2>8, LiveStep DEF EngineTypeOK
<1>5. CASE ~TailReplays
  <2>1. up' = "refused" /\ UNCHANGED <<history, journalVars>>
    BY <1>5 DEF Restart
  <2>2. RecordsOK' /\ CountersOK' /\ ControlOK'
    BY <1>0, <2>1 DEF JournalTypeOK, RecordsOK, CountersOK, ControlOK, journalVars, ringVars,
       workerVars, markVars, sinkVars
  <2>3. FlagsOK'
    BY <1>0, <2>1 DEF JournalTypeOK, FlagsOK, journalVars, workerVars, sinkVars
  <2>4. EngineDataOK'
    BY <1>0, <1>u, <2>1 DEF EngineTypeOK, EngineDataOK
  <2>5. Len(disk)' < MaxSeq
    BY <1>0, <2>1 DEF journalVars, sinkVars
  <2> QED
    BY <1>1, <1>2, <1>3, <2>1, <2>2, <2>3, <2>4, <2>5
       DEF IInv, JournalTypeOK, EngineTypeOK, LiveInv
<1> QED
  BY <1>4, <1>5

LEMMA IdleIInv == IInv /\ UNCHANGED vars => IInv'
<1> SUFFICES ASSUME IInv, UNCHANGED vars PROVE IInv'
  OBVIOUS
<1> USE DEF vars, engineVars, statusVars, worldVars
<1>1. JournalTypeOK'
  <2>1. RecordsOK' /\ CountersOK' /\ ControlOK'
    BY DEF IInv, JournalTypeOK, RecordsOK, CountersOK, ControlOK, journalVars, ringVars,
       workerVars, markVars, sinkVars
  <2>2. FlagsOK'
    BY DEF IInv, JournalTypeOK, FlagsOK, journalVars, workerVars, sinkVars
  <2> QED
    BY <2>1, <2>2 DEF JournalTypeOK
<1>2. EngineTypeOK'
  BY DEF IInv, EngineTypeOK, EngineFlagsOK, EngineControlOK, EngineDataOK
<1>3. LiveInv'
  BY StutterInv DEF IInv, LiveInv, AdmissionInv, CountersAligned, EventsFit, Expected,
     journalVars, ringVars
<1>4. Len(disk)' < MaxSeq /\ (up' = "down" => synced' = Len(disk'))
  BY DEF IInv, journalVars, sinkVars
<1> QED
  BY <1>1, <1>2, <1>3, <1>4 DEF IInv

(* The invariant is inductive.                                             *)
LEMMA NextIInv == IInv /\ [Next]_vars => IInv'
<1> SUFFICES ASSUME IInv, [Next]_vars PROVE IInv'
  OBVIOUS
<1>1. CASE up = "up" /\ Running
  BY <1>1, AdmitInv, EnqueueAdmittedInv, ApplyInv, StopAdmissionInv, TakeEventInv, StatusInv,
     WorkerStepInv, CrashInv DEF Running, EngineStep
<1>2. CASE Restart
  BY <1>2, RestartInv
<1>3. CASE UNCHANGED vars
  BY <1>3, IdleIInv
<1> QED
  BY <1>1, <1>2, <1>3 DEF Next

LEMMA SpecIInv == Spec => []IInv
BY InitIInv, NextIInv, PTL DEF Spec

-----------------------------------------------------------------------------
(* The second layer of the invariant: what the records say, not only where *)
(* the counters are.                                                       *)

(* Where the commands of the history are: on the sink, then in the worker's *)
(* batch, then in the ring.  A crash leaves the first of these.            *)
DiskPlaced ==
  up # "refused" => /\ Len(disk) <= Len(Committed)
                    /\ \A i \in 1 .. Len(disk) : disk[i].cmd = Committed[i]
QueuePlaced ==
  up = "up" =>
    /\ Len(disk) + Len(batch) + Len(ring) = Len(Committed)
    /\ \A i \in 1 .. Len(batch) : batch[i].cmd = Committed[Len(disk) + i]
    /\ \A i \in 1 .. Len(ring) : ring[i].cmd = Committed[Len(disk) + Len(batch) + i]

(* What the sink holds for certain agrees with s.                          *)
OnDisk(s) == Len(s) <= synced /\ \A i \in 1 .. Len(s) : s[i] = disk[i].cmd

(* The n-th load of a status snapshot has been made.                       *)
Loaded(n) == rpc \in n + 1 .. 5 \/ StatusDone

(* What the loads made so far still say about the journal.                 *)
SeenInv ==
  up = "up" =>
    /\ Loaded(1) /\ seen.complete => complete
    /\ Loaded(2) => /\ seen.durable <= next_durable
                    /\ seen.complete => seen.durable = next_sequence
    /\ Loaded(3) => /\ seen.durable <= seen.written
                    /\ seen.complete => seen.written = next_sequence
    /\ Loaded(4) => (seen.complete => seen.closed)

HistoryInv == DiskPlaced /\ QueuePlaced /\ OnDisk(snap) /\ OnDisk(promised) /\ SeenInv

MaybeCmds == Cmds \cup {NoCmd}

(* The engine's commitment, by position.                                   *)
LEMMA CommittedShape ==
  ASSUME EngineTypeOK
  PROVE  /\ Committed \in Seq(MaybeCmds)
         /\ Len(Committed) = Len(history) + (IF epc = "enqueued" THEN 1 ELSE 0)
         /\ \A i \in 1 .. Len(history) : Committed[i] = history[i]
         /\ epc = "enqueued" => Committed[Len(history) + 1] = cmd
         /\ Len(history) \in Nat
<1>1. history \in Seq(MaybeCmds) /\ cmd \in MaybeCmds
  BY DEF EngineTypeOK, EngineDataOK, EngineControlOK, MaybeCmds
<1> QED
  BY <1>1 DEF Committed

LEMMA InitHistoryInv == Init => HistoryInv
<1> SUFFICES ASSUME Init PROVE HistoryInv
  OBVIOUS
<1>1. disk = <<>> /\ batch = <<>> /\ ring = <<>> /\ synced = 0
  BY DEF Init, JournalInit
<1>2. Committed = <<>> /\ snap = <<>> /\ promised = <<>> /\ rpc = 0 /\ ~StatusDone
  BY DEF Init, Committed, StatusDone
<1>3. DiskPlaced /\ QueuePlaced
  BY <1>1, <1>2 DEF DiskPlaced, QueuePlaced
<1>4. OnDisk(snap) /\ OnDisk(promised)
  BY <1>1, <1>2 DEF OnDisk
<1>5. SeenInv
  BY <1>2 DEF SeenInv, Loaded
<1> QED
  BY <1>3, <1>4, <1>5 DEF HistoryInv

(* A step that leaves the records, the watermarks and the commitment alone. *)
LEMMA SettledHistory ==
  ASSUME HistoryInv, up' = up, Committed' = Committed,
         UNCHANGED <<disk, batch, ring, synced, next_sequence, next_durable, complete,
                     rpc, reader, seen, snap, promised>>
  PROVE  HistoryInv'
<1>1. DiskPlaced' /\ QueuePlaced'
  BY DEF HistoryInv, DiskPlaced, QueuePlaced
<1>2. OnDisk(snap)' /\ OnDisk(promised)'
  BY DEF HistoryInv, OnDisk
<1>3. SeenInv'
  BY DEF HistoryInv, SeenInv, Loaded, StatusDone
<1> QED
  BY <1>1, <1>2, <1>3 DEF HistoryInv

LEMMA CloseKeeps ==
  ASSUME CloseWriter
  PROVE  UNCHANGED <<disk, batch, ring, synced, next_sequence, next_durable, complete>>
BY DEF CloseWriter, Close, journalVars, ringVars, workerVars, markVars, sinkVars

(* The engine thread's steps other than enqueue, and the event consumer.   *)
LEMMA EngineHistory ==
  ASSUME HistoryInv, up = "up",
         \/ \E c \in Cmds : Admit(c)
         \/ ApplyAdmitted \/ ApplyFaults \/ StopAdmission \/ TakeEvent
  PROVE  HistoryInv'
<1>1. UNCHANGED <<rpc, reader, seen, snap, promised, up>>
  BY DEF Admit, ApplyAdmitted, ApplyFaults, StopAdmission, TakeEvent, statusVars, worldVars
<1>2. UNCHANGED <<disk, batch, ring, synced, next_sequence, next_durable, complete>>
  <2>1. CASE CloseWriter
    BY <2>1, CloseKeeps
  <2>2. CASE UNCHANGED journalVars
    BY <2>2 DEF journalVars, ringVars, workerVars, markVars, sinkVars
  <2> QED
    BY <2>1, <2>2 DEF Admit, ApplyAdmitted, ApplyFaults, StopAdmission, TakeEvent, FailEngine
<1>3. Committed' = Committed
  <2>1. CASE \E c \in Cmds : Admit(c)
    BY <2>1 DEF Admit, FailEngine, Committed
  <2>2. CASE ApplyAdmitted \/ ApplyFaults
    BY <2>2 DEF ApplyAdmitted, ApplyFaults, FailEngine, Committed
  <2>3. CASE StopAdmission \/ TakeEvent
    BY <2>3 DEF StopAdmission, TakeEvent, engineVars, Committed
  <2> QED
    BY <2>1, <2>2, <2>3
<1> QED
  BY <1>1, <1>2, <1>3, SettledHistory

(* enqueue puts the command in flight at the end of the journal.           *)
LEMMA EnqueueHistory ==
  ASSUME IInv, HistoryInv, up = "up", EnqueueAdmitted
  PROVE  HistoryInv'
<1>0. JournalInv /\ AdmissionInv /\ EngineTypeOK
  BY DEF IInv, LiveInv
<1>u. /\ UNCHANGED <<history, rpc, reader, seen, up, snap, promised>>
      /\ epc = "admitted"
  BY DEF EnqueueAdmitted, statusVars, worldVars
<1>1. CASE ~CanEnqueue
  <2>1. Committed' = Committed
    BY <1>1, <1>u DEF EnqueueAdmitted, Committed
  <2>2. UNCHANGED <<disk, batch, ring, synced, next_sequence, next_durable, complete>>
    BY <1>1 DEF EnqueueAdmitted, journalVars, ringVars, workerVars, markVars, sinkVars
  <2> QED
    BY <1>u, <2>1, <2>2, SettledHistory
<1>2. CASE CanEnqueue
  <2> DEFINE r == [seq |-> next_sequence, cmd |-> cmd]
  <2>1. /\ ring' = Append(ring, r) /\ epc' = "enqueued" /\ cmd' = cmd
        /\ UNCHANGED <<disk, batch, synced, next_durable, complete>>
    BY <1>2 DEF EnqueueAdmitted, Enqueue, workerVars, markVars, sinkVars
  <2>2. cmd \in Cmds /\ ~complete
    BY <1>0, <1>u DEF AdmissionInv, JournalInv, ShutdownInv
  <2>3. /\ ring \in Seq(Records) /\ Len(ring) \in Nat /\ Len(disk) \in Nat /\ Len(batch) \in Nat
        /\ r \in Records /\ r.cmd = cmd
    BY <1>0, <2>2 DEF JournalInv, JournalTypeOK, RecordsOK, CountersOK, Records
  <2>4. /\ Len(ring') = Len(ring) + 1 /\ ring'[Len(ring) + 1] = r
        /\ \A i \in 1 .. Len(ring) : ring'[i] = ring[i]
    BY <2>1, <2>3
  <2>5. /\ Committed = history /\ Committed' = Append(history, cmd)
        /\ history \in Seq(MaybeCmds) /\ cmd \in MaybeCmds
    BY <1>0, <1>u, <2>1, <2>2 DEF Committed, EngineTypeOK, EngineDataOK, MaybeCmds
  <2>6. /\ Len(Committed') = Len(Committed) + 1 /\ Committed'[Len(Committed) + 1] = cmd
        /\ \A i \in 1 .. Len(Committed) : Committed'[i] = Committed[i]
        /\ Len(Committed) \in Nat
    BY <2>5
  <2>7. DiskPlaced'
    BY <1>u, <2>1, <2>3, <2>6 DEF HistoryInv, DiskPlaced
  <2>8. QueuePlaced'
    <3>1. Len(disk) + Len(batch) + Len(ring) = Len(Committed)
      BY DEF HistoryInv, QueuePlaced
    <3>2. ASSUME NEW i \in 1 .. Len(batch)
          PROVE  batch[i].cmd = Committed'[Len(disk) + i]
      <4>1. Len(disk) + i \in 1 .. Len(Committed)
        BY <2>3, <3>1
      <4> QED
        BY <2>6, <4>1 DEF HistoryInv, QueuePlaced
    <3>3. ASSUME NEW i \in 1 .. Len(ring) + 1
          PROVE  ring'[i].cmd = Committed'[Len(disk) + Len(batch) + i]
      <4>1. CASE i = Len(ring) + 1
        <5>1. Len(disk) + Len(batch) + i = Len(Committed) + 1
          BY <2>3, <3>1, <4>1
        <5> QED
          BY <2>3, <2>4, <2>6, <4>1, <5>1
      <4>2. CASE i # Len(ring) + 1
        <5>1. i \in 1 .. Len(ring) /\ Len(disk) + Len(batch) + i \in 1 .. Len(Committed)
          BY <2>3, <3>1, <4>2
        <5> QED
          BY <2>4, <2>6, <5>1 DEF HistoryInv, QueuePlaced
      <4> QED
        BY <4>1, <4>2
    <3>4. Len(disk) + Len(batch) + Len(ring') = Len(Committed')
      BY <2>3, <2>4, <2>6, <3>1, SMTT(30)
    <3> QED
      BY <2>1, <2>4, <3>2, <3>3, <3>4 DEF QueuePlaced
  <2>9. OnDisk(snap)' /\ OnDisk(promised)'
    BY <1>u, <2>1 DEF HistoryInv, OnDisk
  <2>10. SeenInv'
    <3>1. ASSUME Loaded(1) PROVE ~seen.complete
      BY <2>2, <3>1 DEF HistoryInv, SeenInv
    <3>2. (Loaded(1) \/ Loaded(2) \/ Loaded(3) \/ Loaded(4)) => ~seen.complete
      BY <3>1, <1>0 DEF Loaded, EngineTypeOK, EngineControlOK
    <3> QED
      BY <1>u, <2>1, <3>2 DEF HistoryInv, SeenInv, Loaded, StatusDone
  <2> QED
    BY <2>7, <2>8, <2>9, <2>10 DEF HistoryInv
<1> QED
  BY <1>1, <1>2

(* What every step of the worker does to the watermarks and the sink.      *)
LEMMA WorkerMonotone ==
  ASSUME JournalInv, JournalInv', WorkerNext
  PROVE  /\ next_durable <= next_durable' /\ (complete => complete')
         /\ synced <= synced' /\ synced' <= Len(disk') /\ next_durable' - 1 <= synced'
         /\ \A i \in 1 .. synced : disk'[i] = disk[i]
         /\ next_durable' # next_durable => disk' = disk
<1>0. /\ disk \in Seq(Records) /\ batch \in Seq(Records) /\ synced \in Nat
      /\ next_durable \in Nat /\ expected_sequence \in Nat /\ synced <= Len(disk)
      /\ next_durable <= expected_sequence /\ (wpc = "write" => batch # <<>>)
  <2>1. /\ next_durable \in Nat /\ next_written \in Nat /\ expected_sequence \in Nat /\ synced \in Nat
        /\ next_durable <= next_written /\ next_written <= expected_sequence
    BY DEF JournalInv, JournalTypeOK, CountersOK, MarksOrdered
  <2>2. disk \in Seq(Records) /\ batch \in Seq(Records) /\ synced <= Len(disk)
    BY DEF JournalInv, JournalTypeOK, RecordsOK, Contiguous
  <2>3. wpc = "write" => batch # <<>>
    BY DEF JournalInv, BatchInv
  <2> QED
    BY <2>1, <2>2, <2>3
<1>1. synced' <= Len(disk') /\ next_durable' - 1 <= synced'
  BY DEF JournalInv, Contiguous, MarksOrdered
<1>2. CASE DrainWrite
  <2>1. /\ disk' = Append(disk, Head(batch)) /\ Head(batch) \in Records
        /\ UNCHANGED <<synced, complete, next_durable>>
    BY <1>0, <1>2 DEF DrainWrite, markVars
  <2> QED
    BY <1>0, <1>1, <2>1
<1>3. CASE Flush
  BY <1>0, <1>1, <1>3 DEF Flush, markVars
<1>4. CASE PublishDurable
  BY <1>0, <1>1, <1>4 DEF PublishDurable, sinkVars
<1>5. CASE /\ UNCHANGED <<next_durable, disk, synced>> /\ (complete => complete')
  BY <1>0, <1>1, <1>5
<1> QED
  BY <1>2, <1>3, <1>4, <1>5 DEF WorkerNext, WorkerStep, WorkerFault, WorkerCall, DrainRead, ReadRecord,
     NewWorker, StartDrain, StartShutdown, DropWorker, DrainReadEnd, PublishWritten, Complete,
     DrainWriteFails, FlushFails, markVars, sinkVars

(* A read moves the oldest record of the ring to the end of the batch.     *)
LEMMA ReadPlaces ==
  ASSUME IInv, HistoryInv, up = "up", up' = up, Committed' = Committed,
         NEW here \in {"reader", "read"}, ReadRecord(here)
  PROVE  DiskPlaced' /\ QueuePlaced'
<1>0. JournalInv
  BY DEF IInv, LiveInv
<1>1. /\ ring \in Seq(Records) /\ batch \in Seq(Records) /\ ring # <<>> /\ Head(ring) \in Records
      /\ Len(ring) \in Nat /\ Len(batch) \in Nat /\ Len(disk) \in Nat
      /\ Head(ring) = ring[1] /\ Len(ring) >= 1
  BY <1>0 DEF JournalInv, JournalTypeOK, RecordsOK, ReadRecord
<1>2. Head(ring).seq = expected_sequence /\ expected_sequence < MaxSeq
  <2>1. Head(ring).seq = expected_sequence + 1 - 1
    BY <1>0, <1>1 DEF JournalInv, Contiguous
  <2> QED
    BY <1>0, <1>1, <2>1 DEF JournalInv, JournalTypeOK, CountersOK, MarksOrdered
<1>3. ring' = Tail(ring) /\ batch' = Append(batch, Head(ring)) /\ disk' = disk
  BY <1>2 DEF ReadRecord, sinkVars
<1>4. /\ Len(ring') = Len(ring) - 1 /\ \A i \in 1 .. Len(ring) - 1 : ring'[i] = ring[i + 1]
      /\ Len(batch') = Len(batch) + 1 /\ batch'[Len(batch) + 1] = ring[1]
      /\ \A i \in 1 .. Len(batch) : batch'[i] = batch[i]
  BY <1>1, <1>3
<1>5. DiskPlaced'
  BY <1>3 DEF HistoryInv, DiskPlaced
<1>6. /\ Len(disk) + Len(batch) + Len(ring) = Len(Committed)
      /\ \A i \in 1 .. Len(batch) : batch[i].cmd = Committed[Len(disk) + i]
      /\ \A i \in 1 .. Len(ring) : ring[i].cmd = Committed[Len(disk) + Len(batch) + i]
  BY DEF HistoryInv, QueuePlaced
<1>7. ASSUME NEW i \in 1 .. Len(ring) - 1
      PROVE  ring'[i].cmd = Committed[Len(disk) + (Len(batch) + 1) + i]
  <2>1. i + 1 \in 1 .. Len(ring) /\ Len(disk) + Len(batch) + (i + 1) = Len(disk) + (Len(batch) + 1) + i
    BY <1>1
  <2> QED
    BY <1>4, <1>6, <2>1
<1>8. ASSUME NEW i \in 1 .. Len(batch) + 1
      PROVE  batch'[i].cmd = Committed[Len(disk) + i]
  <2>1. CASE i = Len(batch) + 1
    <3>1. 1 \in 1 .. Len(ring) /\ Len(disk) + Len(batch) + 1 = Len(disk) + i
      BY <1>1, <2>1
    <3> QED
      BY <1>4, <1>6, <2>1, <3>1
  <2>2. CASE i # Len(batch) + 1
    BY <1>1, <1>4, <1>6, <2>2, SMTT(30)
  <2> QED
    BY <2>1, <2>2
<1>9. Len(disk') + Len(batch') + Len(ring') = Len(Committed')
  BY <1>1, <1>3, <1>4, <1>6
<1> QED
  BY <1>3, <1>4, <1>5, <1>7, <1>8, <1>9 DEF QueuePlaced

(* A write moves the oldest record of the batch to the end of the sink.    *)
LEMMA WritePlaces ==
  ASSUME IInv, HistoryInv, up = "up", up' = up, Committed' = Committed, DrainWrite
  PROVE  DiskPlaced' /\ QueuePlaced'
<1>0. JournalInv
  BY DEF IInv, LiveInv
<1>1. /\ disk \in Seq(Records) /\ batch \in Seq(Records) /\ batch # <<>> /\ Head(batch) \in Records
      /\ Len(ring) \in Nat /\ Len(batch) \in Nat /\ Len(disk) \in Nat
      /\ Head(batch) = batch[1] /\ Len(batch) >= 1
  BY <1>0 DEF JournalInv, JournalTypeOK, RecordsOK, BatchInv, DrainWrite
<1>2. disk' = Append(disk, Head(batch)) /\ batch' = Tail(batch) /\ ring' = ring
  BY DEF DrainWrite, ringVars
<1>3. /\ Len(batch') = Len(batch) - 1 /\ \A i \in 1 .. Len(batch) - 1 : batch'[i] = batch[i + 1]
      /\ Len(disk') = Len(disk) + 1 /\ disk'[Len(disk) + 1] = batch[1]
      /\ \A i \in 1 .. Len(disk) : disk'[i] = disk[i]
  BY <1>1, <1>2
<1>4. /\ Len(disk) + Len(batch) + Len(ring) = Len(Committed)
      /\ \A i \in 1 .. Len(disk) : disk[i].cmd = Committed[i]
      /\ \A i \in 1 .. Len(batch) : batch[i].cmd = Committed[Len(disk) + i]
      /\ \A i \in 1 .. Len(ring) : ring[i].cmd = Committed[Len(disk) + Len(batch) + i]
  BY DEF HistoryInv, DiskPlaced, QueuePlaced
<1>5. ASSUME NEW i \in 1 .. Len(disk) + 1
      PROVE  disk'[i].cmd = Committed[i]
  <2>1. CASE i = Len(disk) + 1
    <3>1. batch[1].cmd = Committed[Len(disk) + 1]
      BY <1>1, <1>4
    <3> QED
      BY <1>3, <2>1, <3>1
  <2>2. CASE i # Len(disk) + 1
    <3>1. i \in 1 .. Len(disk)
      BY <1>1, <2>2
    <3> QED
      BY <1>3, <1>4, <3>1
  <2> QED
    BY <2>1, <2>2
<1>6. ASSUME NEW i \in 1 .. Len(batch) - 1
      PROVE  batch'[i].cmd = Committed[(Len(disk) + 1) + i]
  <2>1. i + 1 \in 1 .. Len(batch) /\ Len(disk) + (i + 1) = (Len(disk) + 1) + i
    BY <1>1
  <2> QED
    BY <1>3, <1>4, <2>1
<1>7. ASSUME NEW i \in 1 .. Len(ring)
      PROVE  ring[i].cmd = Committed[(Len(disk) + 1) + (Len(batch) - 1) + i]
  <2>1. (Len(disk) + 1) + (Len(batch) - 1) + i = Len(disk) + Len(batch) + i
    BY <1>1
  <2> QED
    BY <1>4, <2>1
<1>8. /\ Len(disk') + Len(batch') + Len(ring') = Len(Committed')
      /\ Len(disk') <= Len(Committed')
  BY <1>1, <1>2, <1>3, <1>4
<1> QED
  BY <1>2, <1>3, <1>5, <1>6, <1>7, <1>8 DEF QueuePlaced, DiskPlaced

LEMMA WorkerHistory ==
  ASSUME IInv, IInv', HistoryInv, up = "up", Worker
  PROVE  HistoryInv'
<1>0. JournalInv /\ EngineTypeOK
  BY DEF IInv, LiveInv
<1>u. UNCHANGED <<epc, cmd, history, rpc, reader, seen, up, snap>>
  BY DEF Worker, engineVars, statusVars, worldVars
<1>i. JournalInv'
  BY <1>u DEF IInv, LiveInv
<1>m. /\ next_durable <= next_durable' /\ (complete => complete')
      /\ synced <= synced' /\ synced' <= Len(disk') /\ next_durable' - 1 <= synced'
      /\ \A i \in 1 .. synced : disk'[i] = disk[i]
      /\ next_durable' # next_durable => disk' = disk
  BY <1>0, <1>i, WorkerMonotone DEF Worker
<1>t. /\ synced \in Nat /\ synced' \in Nat /\ next_durable \in Nat /\ next_durable' \in Nat
      /\ next_durable' >= 1 /\ Len(disk') \in Nat /\ disk' \in Seq(Records)
  BY <1>0, <1>i DEF JournalInv, JournalTypeOK, CountersOK, RecordsOK
<1>1. Committed' = Committed
  BY <1>u DEF Committed
<1>2. DiskPlaced' /\ QueuePlaced'
  <2>1. CASE DrainRead \/ ReadRecord("reader")
    BY <1>u, <1>1, <2>1, ReadPlaces DEF DrainRead
  <2>2. CASE DrainWrite
    BY <1>u, <1>1, <2>2, WritePlaces
  <2>3. CASE UNCHANGED <<disk, batch, ring>>
    BY <1>u, <1>1, <2>3 DEF HistoryInv, DiskPlaced, QueuePlaced
  <2> QED
    BY <2>1, <2>2, <2>3 DEF Worker, WorkerNext, WorkerStep, WorkerFault, WorkerCall, NewWorker, StartDrain,
       StartShutdown, DropWorker, DrainReadEnd, PublishWritten, Complete, Flush, PublishDurable,
       DrainWriteFails, FlushFails, ringVars, sinkVars
<1>3. OnDisk(snap)'
  <2>1. Len(snap) \in Nat
    BY <1>0 DEF EngineTypeOK, EngineDataOK
  <2> QED
    BY <1>u, <1>m, <1>t, <2>1 DEF HistoryInv, OnDisk
<1>4. OnDisk(promised)'
  <2>1. CASE next_durable' = next_durable
    <3>1. promised' = promised /\ Len(promised) \in Nat
      BY <1>0, <2>1 DEF Worker, EngineTypeOK, EngineDataOK
    <3> QED
      BY <1>m, <1>t, <3>1 DEF HistoryInv, OnDisk
  <2>2. CASE next_durable' # next_durable
    <3> DEFINE n == next_durable' - 1
               t == SubSeq(disk, 1, n)
    <3>0. disk' = disk /\ promised' = CmdsOf(t)
      BY <1>m, <2>2 DEF Worker
    <3>1. n \in 0 .. Len(disk) /\ n <= synced'
      <4>1. ASSUME NEW d \in Nat, NEW y \in Nat, NEW m \in Nat, d >= 1, d - 1 <= y, y <= m
            PROVE  d - 1 \in 0 .. m
        BY <4>1
      <4> QED
        BY <1>m, <1>t, <3>0, <4>1
    <3>2. t \in Seq(Records) /\ Len(t) = n /\ \A i \in 1 .. n : t[i] = disk[i]
      <4>1. disk \in Seq(Records)
        BY <1>t, <3>0
      <4> HIDE DEF n
      <4> QED
        BY <3>1, <4>1
    <3>3. Len(CmdsOf(t)) = n /\ \A i \in 1 .. n : CmdsOf(t)[i] = disk[i].cmd
      <4>1. Len(CmdsOf(t)) = n
        BY <3>2, CmdsOfType
      <4>2. \A i \in 1 .. n : CmdsOf(t)[i] = t[i].cmd
        BY <3>2 DEF CmdsOf
      <4> QED
        BY <3>2, <4>1, <4>2
    <3> HIDE DEF t, n
    <3> QED
      BY <3>0, <3>1, <3>3 DEF OnDisk
  <2> QED
    BY <2>1, <2>2
<1>5. SeenInv'
  <2>1. next_sequence' = next_sequence
    BY <1>0, WorkerInv DEF Worker
  <2>2. seen.durable \in Nat
    BY <1>0 DEF EngineTypeOK, StatusType
  <2> QED
    BY <1>u, <1>m, <1>t, <2>1, <2>2 DEF HistoryInv, SeenInv, Loaded, StatusDone
<1> QED
  BY <1>2, <1>3, <1>4, <1>5 DEF HistoryInv

(* The loads of a status snapshot, and the engine snapshot they allow.     *)
LEMMA StatusReadHistory ==
  ASSUME IInv, HistoryInv, up = "up", StatusRead
  PROVE  HistoryInv'
<1>0. JournalInv /\ EngineTypeOK
  BY DEF IInv, LiveInv
<1>u. /\ UNCHANGED <<disk, batch, ring, synced, next_sequence, next_durable, complete, producer_closed>>
      /\ UNCHANGED <<epc, cmd, history, reader, up, snap, promised>>
      /\ rpc \in 1 .. 5 /\ rpc' = IF rpc = 5 THEN 0 ELSE rpc + 1
  BY DEF StatusRead, engineVars, worldVars, journalVars, ringVars, workerVars, markVars, sinkVars
<1>1. Committed' = Committed
  BY <1>u DEF Committed
<1>2. DiskPlaced' /\ QueuePlaced'
  BY <1>u, <1>1 DEF HistoryInv, DiskPlaced, QueuePlaced
<1>3. OnDisk(snap)' /\ OnDisk(promised)'
  BY <1>u DEF HistoryInv, OnDisk
<1>4. /\ seen \in StatusType
      /\ next_durable \in Nat /\ next_written \in Nat /\ next_durable <= next_written
      /\ complete => /\ next_durable = next_sequence /\ producer_closed
                     /\ next_written = next_sequence
  <2>1. /\ seen \in StatusType
        /\ next_durable \in Nat /\ next_written \in Nat /\ next_sequence \in Nat
        /\ expected_sequence \in Nat
        /\ next_durable <= next_written /\ next_written <= expected_sequence
        /\ expected_sequence <= next_sequence
    BY <1>0 DEF EngineTypeOK, JournalInv, JournalTypeOK, CountersOK, MarksOrdered
  <2>2. complete => next_durable = next_sequence /\ producer_closed
    BY <1>0 DEF JournalInv, ShutdownInv, AllDurable
  <2> QED
    BY <2>1, <2>2
<1>5. /\ ~StatusDone
      /\ \A n \in 1 .. 5 : Loaded(n) <=> rpc \in n + 1 .. 5
      /\ \A n \in 1 .. 4 : Loaded(n)' => rpc \in n .. 5
  BY <1>u DEF Loaded, StatusDone
<1>6. CASE rpc = 1
  <2>1. seen'.complete = complete
    BY <1>4, <1>6 DEF StatusRead, StatusType
  <2>2. ~Loaded(2)' /\ ~Loaded(3)' /\ ~Loaded(4)'
    BY <1>5, <1>6
  <2>3. SeenInv'
    BY <1>u, <2>1, <2>2 DEF SeenInv
  <2> QED
    BY <1>2, <1>3, <2>3 DEF HistoryInv
<1>7. CASE rpc = 2
  <2>1. seen'.complete = seen.complete /\ seen'.durable = next_durable
    BY <1>4, <1>7 DEF StatusRead, StatusType
  <2>2. ~Loaded(3)' /\ ~Loaded(4)' /\ Loaded(1)
    BY <1>5, <1>7
  <2>3. SeenInv'
    BY <1>u, <1>4, <2>1, <2>2 DEF HistoryInv, SeenInv
  <2> QED
    BY <1>2, <1>3, <2>3 DEF HistoryInv
<1>8. CASE rpc = 3
  <2>1. /\ seen'.complete = seen.complete /\ seen'.durable = seen.durable
        /\ seen'.written = next_written /\ seen.durable \in Nat
    BY <1>4, <1>8 DEF StatusRead, StatusType
  <2>2. ~Loaded(4)' /\ Loaded(1) /\ Loaded(2)
    BY <1>5, <1>8
  <2>3. SeenInv'
    BY <1>u, <1>4, <2>1, <2>2 DEF HistoryInv, SeenInv
  <2> QED
    BY <1>2, <1>3, <2>3 DEF HistoryInv
<1>9. CASE rpc = 4
  <2>1. /\ seen'.complete = seen.complete /\ seen'.durable = seen.durable
        /\ seen'.written = seen.written /\ seen'.closed = producer_closed
    BY <1>4, <1>9 DEF StatusRead, StatusType
  <2>2. Loaded(1) /\ Loaded(2) /\ Loaded(3)
    BY <1>5, <1>9
  <2>3. SeenInv'
    BY <1>u, <1>4, <2>1, <2>2 DEF HistoryInv, SeenInv
  <2> QED
    BY <1>2, <1>3, <2>3 DEF HistoryInv
<1>10. CASE rpc = 5
  <2>1. /\ seen'.complete = seen.complete /\ seen'.durable = seen.durable
        /\ seen'.written = seen.written /\ seen'.closed = seen.closed
    BY <1>4, <1>10 DEF StatusRead, StatusType
  <2>2. Loaded(1) /\ Loaded(2) /\ Loaded(3) /\ Loaded(4)
    BY <1>5, <1>10
  <2>3. SeenInv'
    BY <1>u, <2>1, <2>2 DEF HistoryInv, SeenInv
  <2> QED
    BY <1>2, <1>3, <2>3 DEF HistoryInv
<1> QED
  BY <1>u, <1>6, <1>7, <1>8, <1>9, <1>10

LEMMA StatusEndsHistory ==
  ASSUME IInv, HistoryInv, up = "up",
         (\E who \in {"monitor", "engine"} : StatusBegin(who)) \/ StatusReturn
  PROVE  HistoryInv'
<1>0. JournalInv /\ AdmissionInv /\ EngineTypeOK
  BY DEF IInv, LiveInv
<1>u. /\ UNCHANGED <<disk, batch, ring, synced, up, history, cmd, promised>>
      /\ ~Loaded(1)' /\ ~Loaded(2)' /\ ~Loaded(3)' /\ ~Loaded(4)'
  BY DEF StatusBegin, StatusReturn, engineVars, worldVars, journalVars, ringVars, workerVars, sinkVars,
     Loaded, StatusDone
<1>1. Committed' = Committed
  BY <1>0, <1>u DEF Committed, StatusBegin, StatusReturn, AdmissionInv
<1>2. DiskPlaced' /\ QueuePlaced'
  BY <1>u, <1>1 DEF HistoryInv, DiskPlaced, QueuePlaced
<1>3. OnDisk(promised)'
  BY <1>u DEF HistoryInv, OnDisk
<1>4. SeenInv'
  BY <1>u DEF SeenInv
<1>5. CASE snap' = snap
  <2>1. OnDisk(snap)'
    BY <1>u, <1>5 DEF HistoryInv, OnDisk
  <2> QED
    BY <1>2, <1>3, <1>4, <2>1 DEF HistoryInv
<1>6. CASE snap' # snap
  <2>1. StatusDone /\ reader = "engine" /\ CanSnapshot /\ snap' = history
    BY <1>6 DEF StatusBegin, StatusReturn
  <2>2. Committed = history
    BY <1>0, <2>1 DEF AdmissionInv, Committed
  <2>3. seen.durable <= next_durable /\ seen.durable = Len(history) + 1
    BY <2>1 DEF HistoryInv, SeenInv, Loaded, CanSnapshot, Expected
  <2>4. /\ next_durable \in Nat /\ synced \in Nat /\ Len(disk) \in Nat /\ Len(history) \in Nat
        /\ next_durable - 1 <= synced /\ synced <= Len(disk)
    BY <1>0 DEF JournalInv, JournalTypeOK, CountersOK, RecordsOK, MarksOrdered, Contiguous,
       EngineTypeOK, EngineDataOK
  <2>5. Len(history) <= synced /\ Len(history) <= Len(disk)
    BY <2>3, <2>4
  <2>6. \A i \in 1 .. Len(history) : history[i] = disk[i].cmd
    BY <2>2, <2>4, <2>5 DEF HistoryInv, DiskPlaced
  <2>7. OnDisk(snap)'
    BY <1>u, <2>1, <2>5, <2>6 DEF OnDisk
  <2> QED
    BY <1>2, <1>3, <1>4, <2>7 DEF HistoryInv
<1> QED
  BY <1>5, <1>6

(* A crash keeps a prefix that is no shorter than what was synced.         *)
LEMMA CrashHistory ==
  ASSUME IInv, HistoryInv, up = "up", Crash
  PROVE  HistoryInv'
<1>0. JournalInv /\ EngineTypeOK
  BY DEF IInv, LiveInv
<1>u. /\ UNCHANGED <<epc, cmd, history, snap, promised>> /\ up' = "down" /\ synced' = Len(disk')
  BY DEF Crash, engineVars
<1>1. /\ disk \in Seq(Records) /\ Len(disk) \in Nat /\ synced \in Nat
      /\ Len(snap) \in Nat /\ Len(promised) \in Nat /\ Len(Committed) \in Nat
  BY <1>0, CommittedShape DEF JournalInv, JournalTypeOK, CountersOK, RecordsOK, EngineTypeOK,
     EngineDataOK
<1>2. PICK k \in synced .. Len(disk) : disk' = SubSeq(disk, 1, k)
  BY DEF Crash
<1>3. Len(disk') = k /\ k \in Nat /\ \A i \in 1 .. k : disk'[i] = disk[i]
  BY <1>1, <1>2
<1>4. Committed' = Committed
  BY <1>u DEF Committed
<1>5. DiskPlaced'
  BY <1>u, <1>1, <1>2, <1>3, <1>4 DEF HistoryInv, DiskPlaced
<1>6. OnDisk(snap)' /\ OnDisk(promised)'
  BY <1>u, <1>1, <1>2, <1>3 DEF HistoryInv, OnDisk
<1>7. QueuePlaced' /\ SeenInv'
  BY <1>u DEF QueuePlaced, SeenInv
<1> QED
  BY <1>5, <1>6, <1>7 DEF HistoryInv

(* Recovery: the snapshot agrees with the sink, so snapshot and tail spell  *)
(* what the sink says, command by command.                                 *)
LEMMA RestoredHistory ==
  ASSUME IInv, HistoryInv, Restart, TailReplays
  PROVE  /\ history' \in Seq(Cmds) /\ Len(history') = Len(disk) /\ Len(disk) \in Nat
         /\ \A i \in 1 .. Len(disk) : history'[i] = disk[i].cmd
         /\ up = "down" /\ up' = "up" /\ disk' = disk /\ synced' = synced /\ synced = Len(disk)
         /\ ring' = <<>> /\ batch' = <<>> /\ next_sequence' = Len(disk) + 1
<1>0. /\ disk \in Seq(Records) /\ snap \in Seq(Cmds) /\ Len(snap) \in Nat /\ Len(disk) \in Nat
      /\ Len(snap) <= Len(disk)
  BY DEF IInv, JournalTypeOK, RecordsOK, EngineTypeOK, EngineDataOK, TailReplays
<1>1. /\ history' = snap \o CmdsOf(Suffix) /\ disk' = disk /\ synced' = synced
      /\ up = "down" /\ up' = "up" /\ synced = Len(disk)
      /\ ring' = <<>> /\ batch' = <<>> /\ next_sequence' = Len(disk) + 1
  BY DEF IInv, Restart, Resplit, sinkVars
<1>2. /\ Suffix \in Seq(Records) /\ Len(Suffix) = Len(disk) - Len(snap)
      /\ \A i \in 1 .. Len(Suffix) : Suffix[i] = disk[Len(snap) + i]
  BY <1>0 DEF Suffix
<1>3. /\ CmdsOf(Suffix) \in Seq(Cmds) /\ Len(CmdsOf(Suffix)) = Len(Suffix)
      /\ \A i \in 1 .. Len(Suffix) : CmdsOf(Suffix)[i] = Suffix[i].cmd
  BY <1>2, CmdsOfType DEF CmdsOf
<1>4. history' \in Seq(Cmds) /\ Len(history') = Len(disk)
  BY <1>0, <1>1, <1>2, <1>3
<1>5. ASSUME NEW i \in 1 .. Len(disk)
      PROVE  history'[i] = disk[i].cmd
  <2>1. CASE i <= Len(snap)
    <3>1. history'[i] = snap[i]
      BY <1>0, <1>1, <1>3, <2>1
    <3>2. i \in 1 .. Len(snap)
      BY <1>0, <2>1
    <3> QED
      BY <3>1, <3>2 DEF HistoryInv, OnDisk
  <2>2. CASE i > Len(snap)
    <3>1. i - Len(snap) \in 1 .. Len(Suffix) /\ Len(snap) + (i - Len(snap)) = i
      BY <1>0, <1>2, <2>2
    <3>2. history'[i] = CmdsOf(Suffix)[i - Len(snap)]
      BY <1>0, <1>1, <1>2, <1>3, <2>2
    <3> QED
      BY <1>2, <1>3, <3>1, <3>2
  <2> QED
    BY <1>0, <2>1, <2>2
<1> QED
  BY <1>0, <1>1, <1>4, <1>5

LEMMA RestartHistory ==
  ASSUME IInv, HistoryInv, Restart
  PROVE  HistoryInv'
<1>u. epc' = "idle" /\ snap' = snap /\ promised' = promised /\ rpc' = 0 /\ reader' = "nobody"
  BY DEF Restart
<1>s. SeenInv'
  BY <1>u DEF SeenInv, Loaded, StatusDone
<1>1. CASE TailReplays
  <2>1. /\ history' \in Seq(Cmds) /\ Len(history') = Len(disk) /\ Len(disk) \in Nat
        /\ \A i \in 1 .. Len(disk) : history'[i] = disk[i].cmd
        /\ disk' = disk /\ synced' = synced /\ ring' = <<>> /\ batch' = <<>>
    BY <1>1, RestoredHistory
  <2>2. Committed' = history'
    BY <1>u DEF Committed
  <2>3. DiskPlaced' /\ QueuePlaced'
    BY <2>1, <2>2 DEF DiskPlaced, QueuePlaced
  <2>4. OnDisk(snap)' /\ OnDisk(promised)'
    BY <1>u, <2>1 DEF HistoryInv, OnDisk
  <2> QED
    BY <1>s, <2>3, <2>4 DEF HistoryInv
<1>2. CASE ~TailReplays
  <2>1. up' = "refused" /\ disk' = disk /\ synced' = synced
    BY <1>2 DEF Restart, journalVars, sinkVars
  <2>2. DiskPlaced' /\ QueuePlaced'
    BY <2>1 DEF DiskPlaced, QueuePlaced
  <2>3. OnDisk(snap)' /\ OnDisk(promised)'
    BY <1>u, <2>1 DEF HistoryInv, OnDisk
  <2> QED
    BY <1>s, <2>2, <2>3 DEF HistoryInv
<1> QED
  BY <1>1, <1>2

LEMMA NextHistoryInv == IInv /\ HistoryInv /\ [Next]_vars => HistoryInv'
<1> SUFFICES ASSUME IInv, HistoryInv, [Next]_vars PROVE HistoryInv'
  OBVIOUS
<1>1. CASE up = "up" /\ Running
  <2>1. ASSUME Worker PROVE HistoryInv'
    BY <1>1, <2>1, WorkerStepInv, WorkerHistory
  <2> QED
    BY <1>1, <2>1, EngineHistory, EnqueueHistory, StatusReadHistory, StatusEndsHistory, CrashHistory
       DEF Running, EngineStep
<1>2. CASE Restart
  BY <1>2, RestartHistory
<1>3. CASE UNCHANGED vars
  <2>1. UNCHANGED <<disk, batch, ring, synced, next_sequence, next_durable, complete, rpc, reader, seen,
                    snap, promised, up, epc, cmd, history>>
    BY <1>3 DEF vars, engineVars, statusVars, worldVars, journalVars, ringVars, workerVars, markVars,
       sinkVars
  <2>2. Committed' = Committed
    BY <2>1 DEF Committed
  <2> QED
    BY <2>1, <2>2, SettledHistory
<1> QED
  BY <1>1, <1>2, <1>3 DEF Next

LEMMA SpecHistoryInv == Spec => [](IInv /\ HistoryInv)
<1>1. Init => IInv /\ HistoryInv
  BY InitIInv, InitHistoryInv
<1>2. (IInv /\ HistoryInv) /\ [Next]_vars => (IInv /\ HistoryInv)'
  BY NextIInv, NextHistoryInv
<1> QED
  BY <1>1, <1>2, PTL DEF Spec

(* The journal, read from the sink through the batch to the ring, as one    *)
(* sequence.                                                               *)
LEMMA JournaledShape ==
  ASSUME IInv, HistoryInv, up = "up"
  PROVE  CmdsOf(Journaled) = Committed
<1>0. JournalInv /\ EngineTypeOK
  BY DEF IInv, LiveInv
<1>1. /\ disk \in Seq(Records) /\ batch \in Seq(Records) /\ ring \in Seq(Records)
      /\ Len(disk) \in Nat /\ Len(batch) \in Nat /\ Len(ring) \in Nat
  BY <1>0 DEF JournalInv, JournalTypeOK, RecordsOK
<1> DEFINE first == disk \o batch
<1>2. /\ first \in Seq(Records) /\ Len(first) = Len(disk) + Len(batch)
      /\ \A i \in 1 .. Len(first) : first[i] = IF i <= Len(disk) THEN disk[i] ELSE batch[i - Len(disk)]
  BY <1>1
<1> HIDE DEF first
<1>3. /\ Journaled = first \o ring /\ Journaled \in Seq(Records)
      /\ Len(Journaled) = Len(first) + Len(ring)
      /\ \A i \in 1 .. Len(Journaled) :
            Journaled[i] = IF i <= Len(first) THEN first[i] ELSE ring[i - Len(first)]
  <2>1. Journaled = first \o ring
    BY DEF Journaled, first
  <2> QED
    BY <1>1, <1>2, <2>1
<1>4. /\ Committed \in Seq(MaybeCmds) /\ Len(Committed) = Len(Journaled)
      /\ \A i \in 1 .. Len(disk) : disk[i].cmd = Committed[i]
      /\ \A i \in 1 .. Len(batch) : batch[i].cmd = Committed[Len(disk) + i]
      /\ \A i \in 1 .. Len(ring) : ring[i].cmd = Committed[Len(disk) + Len(batch) + i]
  <2>1. Len(Committed) = Len(Journaled)
    BY <1>2, <1>3 DEF HistoryInv, QueuePlaced
  <2> QED
    BY <1>0, <2>1, CommittedShape DEF HistoryInv, DiskPlaced, QueuePlaced
<1>5. ASSUME NEW i \in 1 .. Len(Journaled)
      PROVE  Journaled[i].cmd = Committed[i]
  <2>1. CASE i <= Len(disk)
    <3>1. i \in 1 .. Len(disk) /\ i <= Len(first) /\ i \in 1 .. Len(first)
      BY <1>1, <1>2, <2>1
    <3> QED
      BY <1>2, <1>3, <1>4, <3>1
  <2>2. CASE i > Len(disk) /\ i <= Len(first)
    <3>1. i - Len(disk) \in 1 .. Len(batch) /\ Len(disk) + (i - Len(disk)) = i /\ i \in 1 .. Len(first)
      BY <1>1, <1>2, <2>2
    <3>2. Journaled[i] = batch[i - Len(disk)]
      BY <1>1, <1>2, <1>3, <2>2, <3>1
    <3> QED
      BY <1>4, <3>1, <3>2
  <2>3. CASE i > Len(first)
    <3>1. /\ i - Len(first) \in 1 .. Len(ring)
          /\ Len(disk) + Len(batch) + (i - Len(first)) = i
      BY <1>1, <1>2, <1>3, <2>3
    <3>2. Journaled[i] = ring[i - Len(first)]
      BY <1>1, <1>2, <1>3, <2>3
    <3> QED
      BY <1>4, <3>1, <3>2
  <2> QED
    BY <1>1, <1>2, <2>1, <2>2, <2>3
<1>6. CmdsOf(Journaled) \in Seq(MaybeCmds) /\ Len(CmdsOf(Journaled)) = Len(Journaled)
  <2>1. CmdsOf(Journaled) \in Seq(Cmds) /\ Len(CmdsOf(Journaled)) = Len(Journaled)
    BY <1>3, CmdsOfType
  <2>2. \A q \in Seq(Cmds) : q \in Seq(MaybeCmds)
    BY DEF MaybeCmds
  <2> QED
    BY <2>1, <2>2
<1>7. \A i \in 1 .. Len(Journaled) : CmdsOf(Journaled)[i] = Committed[i]
  BY <1>5 DEF CmdsOf
<1> QED
  BY <1>4, <1>6, <1>7

(* The consequences of the second layer that the theorems are about.       *)
LEMMA HistoryConsequences ==
  IInv /\ HistoryInv => JournalIsHistory /\ StatusCoherent /\ SnapshotCovered /\ DurableSurvives
<1> SUFFICES ASSUME IInv, HistoryInv
             PROVE  JournalIsHistory /\ StatusCoherent /\ SnapshotCovered /\ DurableSurvives
  OBVIOUS
<1>1. JournalIsHistory
  BY JournaledShape DEF JournalIsHistory
<1>2. StatusCoherent
  <2> SUFFICES ASSUME up = "up", StatusDone
               PROVE  /\ seen.durable <= seen.written
                      /\ seen.complete => /\ seen.closed
                                          /\ seen.durable = seen.written
                                          /\ seen.durable = next_sequence
    BY DEF StatusCoherent
  <2>1. Loaded(1) /\ Loaded(2) /\ Loaded(3) /\ Loaded(4)
    BY DEF Loaded
  <2> QED
    BY <2>1 DEF HistoryInv, SeenInv
<1>3. SnapshotCovered
  BY DEF HistoryInv, OnDisk, SnapshotCovered
<1>4. DurableSurvives
  <2> SUFFICES ASSUME up # "refused" PROVE IsPrefixOf(promised, Committed)
    BY DEF DurableSurvives
  <2>1. /\ Len(promised) \in Nat /\ Len(disk) \in Nat /\ synced \in Nat /\ synced <= Len(disk)
        /\ Len(Committed) \in Nat
    <3>1. Len(promised) \in Nat /\ Len(disk) \in Nat /\ synced \in Nat /\ Len(Committed) \in Nat
      BY CommittedShape DEF IInv, JournalTypeOK, RecordsOK, CountersOK, EngineTypeOK, EngineDataOK
    <3>2. up \in {"up", "down"}
      BY DEF IInv, EngineTypeOK, EngineControlOK
    <3>3. synced <= Len(disk)
      BY <3>1, <3>2 DEF IInv, LiveInv, JournalInv, Contiguous
    <3> QED
      BY <3>1, <3>3
  <2>2. /\ Len(promised) <= synced /\ \A i \in 1 .. Len(promised) : promised[i] = disk[i].cmd
        /\ Len(disk) <= Len(Committed) /\ \A i \in 1 .. Len(disk) : disk[i].cmd = Committed[i]
    BY DEF HistoryInv, OnDisk, DiskPlaced
  <2> QED
    BY <2>1, <2>2 DEF IsPrefixOf
<1> QED
  BY <1>1, <1>2, <1>3, <1>4

-----------------------------------------------------------------------------
(* Every variable of the engine, the journal and the recovery keeps its    *)
(* type, in particular no counter leaves 1 .. u64::MAX.                    *)
THEOREM TypeCorrect == Spec => []TypeOK
BY SpecIInv, IInvConsequences, PTL

(* durable <= written <= read <= enqueued; a watermark never covers a      *)
(* record the sink was not given or has not synced; the ring never         *)
(* overflows.                                                              *)
THEOREM WatermarksHold == Spec => []Watermarks
BY SpecIInv, IInvConsequences, PTL

(* The journal's and the gateway's sequence counters never drift apart, so *)
(* apply_journaled never stops the engine with SequenceInvariant.          *)
THEOREM CountersStayAligned == Spec => []CountersAligned
BY SpecIInv, IInvConsequences, PTL

(* The event queue has room for a command's batch from admission to        *)
(* publication.                                                            *)
THEOREM EventsAlwaysFit == Spec => []EventsFit
BY SpecIInv, IInvConsequences, PTL

(* shutdown() reports completion only with everything accepted on stable   *)
(* storage.                                                                *)
THEOREM CompletionIsTotal == Spec => []CompleteMeansAll
BY SpecIInv, IInvConsequences, PTL

(* Journal before apply: sink, batch and ring together spell the gateway's *)
(* history, or lead it by the one command between enqueue and apply.       *)
THEOREM JournalSpellsHistory == Spec => []JournalIsHistory
BY SpecHistoryInv, HistoryConsequences, PTL

(* JournalStatusReader::snapshot: five separate loads make a coherent      *)
(* status, however the worker runs between them.                           *)
THEOREM StatusAlwaysCoherent == Spec => []StatusCoherent
BY SpecHistoryInv, HistoryConsequences, PTL

(* Engine::snapshot never takes a state ahead of the synced journal, and   *)
(* no later crash makes the journal disagree with it.                      *)
THEOREM SnapshotAlwaysCovered == Spec => []SnapshotCovered
BY SpecHistoryInv, HistoryConsequences, PTL

(* What a published durable watermark covered stays in the history over     *)
(* any number of crashes and recoveries.                                   *)
THEOREM DurableAlwaysSurvives == Spec => []DurableSurvives
BY SpecHistoryInv, HistoryConsequences, PTL

(* Recovery restores a prefix of what the engine had committed to, and the  *)
(* new journal continues its numbering.                                    *)
THEOREM RecoveryIsPrefix == Spec => RecoveryRestoresPrefix
<1>1. ASSUME IInv, HistoryInv, [Next]_vars, up = "down", up' = "up"
      PROVE  IsPrefixOf(history', Committed) /\ next_sequence' = Len(history') + 1
  <2>1. Restart
    BY <1>1 DEF Next, vars, worldVars
  <2>2. TailReplays
    BY <1>1, <2>1 DEF Restart
  <2>3. /\ Len(history') = Len(disk) /\ Len(disk) \in Nat
        /\ \A i \in 1 .. Len(disk) : history'[i] = disk[i].cmd
        /\ next_sequence' = Len(disk) + 1
    BY <1>1, <2>1, <2>2, RestoredHistory
  <2> QED
    BY <1>1, <2>3 DEF IsPrefixOf, HistoryInv, DiskPlaced
<1>2. (IInv /\ HistoryInv) /\ [Next]_vars =>
        (up = "down" /\ up' = "up" =>
           /\ IsPrefixOf(history', Committed)
           /\ next_sequence' = Len(history') + 1)
  BY <1>1
<1> QED
  BY <1>2, SpecHistoryInv, PTL DEF Spec, RecoveryRestoresPrefix
=============================================================================
