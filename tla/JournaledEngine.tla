-------------------------- MODULE JournaledEngine --------------------------
(***************************************************************************)
(* crates/hft-engine: one engine thread that journals a command before it  *)
(* applies it, composed with the persistence worker of Journal, the        *)
(* consumer of the event queue, a thread that samples the journal status,  *)
(* and crashes of the whole process followed by recovery from the last     *)
(* snapshot and the journal's tail (crates/hft-recovery).                  *)
(*                                                                         *)
(* The gateway is deterministic, so its state is the sequence of commands  *)
(* it has consumed; what it does with one is in module Gateway.  Calls     *)
(* that change nothing (a foreign instrument, a wrong sequence number, a   *)
(* full queue, a stopped engine) are steps that are not taken.             *)
(***************************************************************************)
EXTENDS Journal, FiniteSets

CONSTANTS
  EventCap,     \* EVENTS, the capacity of the event queue
  Faults,       \* whether the gateway may report a broken internal state
  NoCmd,        \* no command in flight
  MaxCrash      \* bound: crashes of one behaviour

ASSUME EngineAssumption ==
  /\ EventCap \in Nat \ {0}
  /\ Faults \in BOOLEAN
  /\ MaxCrash \in Nat
  /\ NoCmd \notin Cmds

VARIABLES
  epc,        \* the engine thread: idle, between the steps of a command, or in health()
  cmd,        \* the command in flight
  writer,     \* Engine.journal is Some
  failed,     \* Engine.failed
  history,    \* the gateway: the commands it has consumed
  faulty,     \* sequence number whose application broke the gateway, or 0
  events,     \* the event queue: sequence numbers of the published batches
  rpc, reader, seen,   \* JournalStatusReader::snapshot: next field, who reads, fields read
  up,         \* the process: "up", "down" or "refused" (recovery gave up)
  snap,       \* the gateway state of the last snapshot taken
  crashes,    \* crashes so far
  promised    \* history: the commands a published durable watermark has covered

engineVars == <<epc, cmd, writer, failed, history, faulty>>
statusVars == <<rpc, reader, seen>>
worldVars  == <<up, crashes>>
vars == <<journalVars, engineVars, events, statusVars, worldVars, snap, promised>>


NoRead == [complete |-> FALSE, durable |-> 0, written |-> 0, closed |-> FALSE,
           poisoned |-> FALSE]
StatusType == [complete : BOOLEAN, durable : 0 .. MaxSeq, written : 0 .. MaxSeq,
               closed : BOOLEAN, poisoned : BOOLEAN]

\* Gateway::expected_sequence; sequence numbers start at 1.
Expected == Len(history) + 1
CmdsOf(records) == [i \in 1 .. Len(records) |-> records[i].cmd]
IsPrefixOf(s, t) == Len(s) <= Len(t) /\ \A i \in 1 .. Len(s) : s[i] = t[i]

EngineFlagsOK == writer \in BOOLEAN /\ failed \in BOOLEAN
EngineControlOK ==
  /\ epc \in {"idle", "admitted", "enqueued", "status"}
  /\ cmd \in Cmds \cup {NoCmd}
  /\ rpc \in 0 .. 5 /\ reader \in {"nobody", "monitor", "engine"}
  /\ up \in {"up", "down", "refused"}
EngineDataOK ==
  /\ history \in Seq(Cmds) /\ snap \in Seq(Cmds) /\ promised \in Seq(Cmds)
  /\ events \in Seq(1 .. MaxSeq)
  /\ faulty \in 0 .. MaxSeq
  /\ crashes \in 0 .. MaxCrash

TypeOK ==
  /\ JournalTypeOK
  /\ EngineFlagsOK /\ EngineControlOK /\ EngineDataOK
  /\ seen \in StatusType

\* EngineBuilder::build on a fresh gateway
Init ==
  /\ JournalInit
  /\ epc = "idle" /\ cmd = NoCmd /\ writer = TRUE /\ failed = FALSE
  /\ history = <<>> /\ faulty = 0
  /\ events = <<>>
  /\ rpc = 0 /\ reader = "nobody" /\ seen = NoRead
  /\ up = "up" /\ crashes = 0
  /\ snap = <<>> /\ promised = <<>>

-----------------------------------------------------------------------------
(* The engine thread.                                                      *)

\* Engine::stop_admission: close the writer, if there still is one
CloseWriter ==
  /\ writer' = FALSE
  /\ IF writer THEN Close ELSE UNCHANGED journalVars

\* Engine::fail
FailEngine ==
  /\ failed' = TRUE
  /\ CloseWriter
  /\ epc' = "idle" /\ cmd' = NoCmd

\* Faulty variant: admission does not look at the event queue.
AdmitWithoutRoom(c) ==
  /\ epc = "idle" /\ ~failed
  /\ IF poisoned \/ (writer /\ (next_sequence # Expected \/ Expected = MaxSeq))
     THEN FailEngine
     ELSE /\ writer
          /\ epc' = "admitted" /\ cmd' = c
          /\ UNCHANGED <<journalVars, writer, failed>>
  /\ UNCHANGED <<history, faulty, events, statusVars, worldVars, snap, promised>>

\* apply_journaled up to `enqueue': a poisoned journal, counters that disagree
\* and an exhausted sequence (Gateway::check_sequence) stop the engine; otherwise
\* the event queue must have room.
Admit(c) ==
  /\ epc = "idle" /\ ~failed
  /\ IF poisoned
     THEN FailEngine
     ELSE /\ writer
          /\ IF next_sequence # Expected \/ Expected = MaxSeq
             THEN FailEngine
             ELSE /\ Len(events) < EventCap
                  /\ epc' = "admitted" /\ cmd' = c
                  /\ UNCHANGED <<journalVars, writer, failed>>
  /\ UNCHANGED <<history, faulty, events, statusVars, worldVars, snap, promised>>

\* Faulty variant: a saturated journal does not stop the command.
EnqueueBestEffort ==
  /\ epc = "admitted"
  /\ epc' = "enqueued"
  /\ IF CanEnqueue THEN Enqueue(cmd) ELSE UNCHANGED journalVars
  /\ UNCHANGED <<cmd, writer, failed, history, faulty, events, statusVars, worldVars,
                 snap, promised>>

\* apply_journaled: enqueue, or return EngineError::Journal unchanged
EnqueueAdmitted ==
  /\ epc = "admitted"
  /\ IF CanEnqueue
     THEN Enqueue(cmd) /\ epc' = "enqueued" /\ UNCHANGED cmd
     ELSE epc' = "idle" /\ cmd' = NoCmd /\ UNCHANGED journalVars
  /\ UNCHANGED <<writer, failed, history, faulty, events, statusVars, worldVars, snap,
                 promised>>

\* AdmittedCommand::apply: the gateway consumes the command and its batch of events
\* is published; a full event queue would be an error after the fact.
ApplyAdmitted ==
  /\ epc = "enqueued"
  /\ history' = Append(history, cmd)
  /\ IF Len(events) < EventCap
     THEN /\ events' = Append(events, Expected)
          /\ epc' = "idle" /\ cmd' = NoCmd
          /\ UNCHANGED <<journalVars, writer, failed>>
     ELSE FailEngine /\ UNCHANGED events
  /\ UNCHANGED <<faulty, statusVars, worldVars, snap, promised>>

\* AdmittedCommand::apply returns a gateway state error: the command is consumed,
\* nothing is published and admission stops.
ApplyFaults ==
  /\ Faults /\ epc = "enqueued"
  /\ history' = Append(history, cmd)
  /\ faulty' = Expected
  /\ FailEngine
  /\ UNCHANGED <<events, statusVars, worldVars, snap, promised>>

\* Engine::stop_admission, also from Drop
StopAdmission ==
  /\ epc = "idle" /\ writer
  /\ CloseWriter
  /\ UNCHANGED <<epc, cmd, failed, history, faulty, events, statusVars, worldVars, snap,
                 promised>>

\* The host takes one batch off the event queue.
TakeEvent ==
  /\ events # <<>>
  /\ events' = Tail(events)
  /\ UNCHANGED <<journalVars, engineVars, statusVars, worldVars, snap, promised>>

-----------------------------------------------------------------------------
(* JournalStatusReader::snapshot reads five atomics one after the other, on *)
(* behalf of a monitoring thread or of Engine::health in Engine::snapshot.  *)

StatusBegin(who) ==
  /\ rpc = 0 /\ reader = "nobody"
  /\ who = "engine" => epc = "idle"
  /\ epc' = IF who = "engine" THEN "status" ELSE epc
  /\ reader' = who /\ rpc' = 1 /\ seen' = NoRead
  /\ UNCHANGED <<journalVars, cmd, writer, failed, history, faulty, events, worldVars,
                 snap, promised>>

\* Faulty variant: written is loaded before durable.
StatusReadSwapped ==
  /\ rpc \in 1 .. 5
  /\ seen' = CASE rpc = 1 -> [seen EXCEPT !.complete = complete]
               [] rpc = 2 -> [seen EXCEPT !.written = next_written]
               [] rpc = 3 -> [seen EXCEPT !.durable = next_durable]
               [] rpc = 4 -> [seen EXCEPT !.closed = producer_closed]
               [] rpc = 5 -> [seen EXCEPT !.poisoned = poisoned]
  /\ rpc' = IF rpc = 5 THEN 0 ELSE rpc + 1
  /\ UNCHANGED <<journalVars, engineVars, reader, events, worldVars, snap, promised>>

StatusRead ==
  /\ rpc \in 1 .. 5
  /\ seen' = CASE rpc = 1 -> [seen EXCEPT !.complete = complete]
               [] rpc = 2 -> [seen EXCEPT !.durable = next_durable]
               [] rpc = 3 -> [seen EXCEPT !.written = next_written]
               [] rpc = 4 -> [seen EXCEPT !.closed = producer_closed]
               [] rpc = 5 -> [seen EXCEPT !.poisoned = poisoned]
  /\ rpc' = IF rpc = 5 THEN 0 ELSE rpc + 1
  /\ UNCHANGED <<journalVars, engineVars, reader, events, worldVars, snap, promised>>

StatusDone == rpc = 0 /\ reader # "nobody"

\* Faulty variant: a snapshot needs closed admission only.
CanSnapshotStopped == ~failed /\ ~seen.poisoned /\ ~writer

\* Engine::snapshot after health(): every refusal leaves things as they are.
CanSnapshot ==
  /\ ~failed /\ ~seen.poisoned
  /\ ~writer
  /\ seen.complete
  /\ seen.written = Expected /\ seen.durable = Expected

StatusReturn ==
  /\ StatusDone
  /\ snap' = IF reader = "engine" /\ CanSnapshot THEN history ELSE snap
  /\ epc' = IF reader = "engine" THEN "idle" ELSE epc
  /\ reader' = "nobody" /\ seen' = NoRead
  /\ UNCHANGED <<journalVars, cmd, writer, failed, history, faulty, events, rpc,
                 worldVars, promised>>

-----------------------------------------------------------------------------
(* Crash and recovery.                                                      *)

\* The machine stops.  The sink keeps what was synced and any prefix of the rest,
\* whose next record may be torn.
Crash ==
  /\ crashes < MaxCrash
  /\ up' = "down" /\ crashes' = crashes + 1
  /\ \E k \in synced .. Len(disk) :
       /\ disk' = SubSeq(disk, 1, k)
       /\ torn' \in IF k < Len(disk) \/ wpc = "write" \/ torn THEN BOOLEAN ELSE {FALSE}
  /\ synced' = Len(disk')
  /\ UNCHANGED <<ringVars, workerVars, markVars, producer_closed, poisoned, complete,
                 engineVars, events, statusVars, snap, promised>>

\* recover_snapshot_and_tail over the records after the snapshot
Suffix == SubSeq(disk, Len(snap) + 1, Len(disk))
TailReplays ==
  /\ ~torn
  /\ Len(snap) <= Len(disk)
  /\ \A i \in 1 .. Len(Suffix) : Suffix[i].seq = Len(snap) + i
  /\ faulty \notin Len(snap) + 1 .. Len(disk)

\* Faulty variant: the journal of a recovered engine starts over at 1.
RestartAtOne ==
  /\ up = "down"
  /\ IF TailReplays
     THEN /\ up' = "up"
          /\ history' = snap \o CmdsOf(Suffix)
          /\ Resplit(1)
     ELSE /\ up' = "refused"
          /\ UNCHANGED <<history, journalVars>>
  /\ epc' = "idle" /\ cmd' = NoCmd /\ writer' = (up' = "up") /\ failed' = FALSE
  /\ faulty' = 0
  /\ events' = <<>>
  /\ rpc' = 0 /\ reader' = "nobody" /\ seen' = NoRead
  /\ UNCHANGED <<crashes, snap, promised>>

\* EngineBuilder::restore and build over fresh storage, or a refusal
Restart ==
  /\ up = "down"
  /\ IF TailReplays
     THEN /\ up' = "up"
          /\ history' = snap \o CmdsOf(Suffix)
          /\ Resplit(Len(disk) + 1)
     ELSE /\ up' = "refused"
          /\ UNCHANGED <<history, journalVars>>
  /\ epc' = "idle" /\ cmd' = NoCmd /\ writer' = (up' = "up") /\ failed' = FALSE
  /\ faulty' = 0
  /\ events' = <<>>
  /\ rpc' = 0 /\ reader' = "nobody" /\ seen' = NoRead
  /\ UNCHANGED <<crashes, snap, promised>>

-----------------------------------------------------------------------------
Worker ==
  /\ WorkerNext
  /\ promised' = IF next_durable' # next_durable
                 THEN CmdsOf(SubSeq(disk, 1, next_durable' - 1)) ELSE promised
  /\ UNCHANGED <<engineVars, events, statusVars, worldVars, snap>>

EngineStep == EnqueueAdmitted \/ ApplyAdmitted \/ ApplyFaults

Running ==
  \/ \E c \in Cmds : Admit(c)
  \/ EngineStep
  \/ StopAdmission
  \/ TakeEvent
  \/ \E who \in {"monitor", "engine"} : StatusBegin(who)
  \/ StatusRead
  \/ StatusReturn
  \/ Worker
  \/ Crash

Next == (up = "up" /\ Running) \/ Restart

Spec == Init /\ [][Next]_vars

-----------------------------------------------------------------------------
\* The commands the engine is committed to: consumed, or enqueued and about to be.
Committed == IF epc = "enqueued" THEN Append(history, cmd) ELSE history

\* What was journaled in this incarnation and before it, wherever it is now.
Journaled == disk \o batch \o ring

(* Journal before apply: the journal, read from the sink through the        *)
(* worker's batch to the ring, is exactly the gateway's history, or leads   *)
(* it by the one command that is enqueued and not yet applied.              *)
JournalIsHistory ==
  up = "up" => CmdsOf(Journaled) = Committed

(* The counters of the four parties never pass each other: durable,         *)
(* written, read and enqueued, and a watermark covers only records the sink *)
(* has been given (written) or has synced (durable).                        *)
Watermarks == up = "up" => MarksOrdered

(* The gateway's expected sequence and the journal's next sequence differ   *)
(* only between enqueue and apply, so the SequenceInvariant error of        *)
(* apply_journaled is never raised.                                         *)
CountersAligned ==
  up = "up" => next_sequence = Expected + (IF epc = "enqueued" THEN 1 ELSE 0)

(* The room seen by admit is still there when the events of the command are *)
(* published, whatever the consumer did in between.                         *)
EventsFit == up = "up" /\ epc \in {"admitted", "enqueued"} => Len(events) < EventCap

(* A completed status snapshot is coherent although its five loads are not  *)
(* atomic: durable never exceeds written, and a completed shutdown is seen  *)
(* with the final watermarks and the closed producer.                       *)
StatusCoherent ==
  up = "up" /\ StatusDone =>
    /\ seen.durable <= seen.written
    /\ seen.complete => /\ seen.closed
                        /\ seen.durable = seen.written
                        /\ seen.durable = next_sequence

(* Shutdown completes only when every accepted command is on the sink and   *)
(* synced: no enqueue slips in behind the last drain.                       *)
CompleteMeansAll == up = "up" /\ complete => AllDurable

(* A snapshot is never ahead of the synced journal and never disagrees with *)
(* it, also across later crashes: snapshot plus tail is always replayable.  *)
SnapshotCovered ==
  /\ Len(snap) <= synced
  /\ \A i \in 1 .. Len(snap) : snap[i] = disk[i].cmd

(* What a published durable watermark covered stays in the gateway's        *)
(* history (or is about to enter it: persistence may overtake application), *)
(* after any number of crashes and recoveries.                              *)
DurableSurvives == up # "refused" => IsPrefixOf(promised, Committed)

(* Recovery restores a prefix of what the gateway had consumed: it invents, *)
(* reorders and repairs nothing.                                            *)
RecoveryRestoresPrefix ==
  [][up = "down" /\ up' = "up" =>
       /\ IsPrefixOf(history', Committed)
       /\ next_sequence' = Len(history') + 1]_vars

-----------------------------------------------------------------------------
\* The engine thread finishes a command it began; the host's persistence thread
\* keeps draining, calls shutdown once the writer is closed, and its sink calls
\* return.  A thread that begins a status snapshot finishes it.
FairSpec ==
  /\ Spec
  /\ WF_vars(up = "up" /\ EngineStep)
  /\ WF_vars(up = "up" /\ Worker /\ WorkerStep)
  /\ WF_vars(up = "up" /\ Worker /\ NewWorker)
  /\ SF_vars(up = "up" /\ Worker /\ StartShutdown)

(* Once admission is closed the journal reaches one of its two ends, shut   *)
(* down with everything durable or poisoned, unless the process dies.       *)
ClosedEnds ==
  (up = "up" /\ producer_closed) ~> (complete \/ poisoned \/ up # "up")
=============================================================================
