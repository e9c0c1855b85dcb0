--------------------------- MODULE SessionEngine ---------------------------
(***************************************************************************)
(* crates/hft-engine, session.rs over routed.rs: one session in front of   *)
(* one journaled engine per shard.  A command is staged in a copy of the   *)
(* session, applied by the engine of its instrument's shard, and only then *)
(* is the copy committed.  The caller's thread owns the session and the    *)
(* engines; each shard's persistence worker may poison its journal between *)
(* any two of that thread's steps.                                         *)
(*                                                                         *)
(* A shard is what the session sees of module JournaledEngine: the next    *)
(* sequence number, whether there is still a journal writer, whether the   *)
(* engine failed and whether its journal is poisoned.                      *)
(***************************************************************************)
EXTENDS Session, FiniteSets

CONSTANTS
  Shards,
  Route,          \* RouteTable: the shard of each instrument that has one
  Instruments,    \* the instruments commands may name
  MaxSeq          \* the largest sequence number of a shard

\* RouteTable::try_new: exactly one instrument per shard, and no other shard
ASSUME RouteAssumption ==
  /\ DOMAIN Route \subseteq Instruments
  /\ Route \in [DOMAIN Route -> Shards]
  /\ \A s \in Shards : \E i \in DOMAIN Route : Route[i] = s
  /\ \A i, j \in DOMAIN Route : Route[i] = Route[j] => i = j
  /\ MaxSeq \in Nat \ {0}

VARIABLES
  session,    \* SessionEngine.session
  now,        \* the caller's clock
  shard,      \* the engines
  pc,         \* process_command: between calls, session staged, journal checked, refused
  staged,     \* the copy of the session
  target,     \* the instrument of the command in flight
  late        \* history: commands applied while some journal was poisoned

vars == <<session, now, shard, pc, staged, target, late>>

ShardStates == [next : 1 .. MaxSeq, writer : BOOLEAN, failed : BOOLEAN, poisoned : BOOLEAN]

TypeOK ==
  /\ session \in Sessions /\ staged \in Sessions
  /\ now \in 0 .. MaxTick
  /\ shard \in [Shards -> ShardStates]
  /\ pc \in {"idle", "staged", "admitted", "refused"}
  /\ target \in Instruments
  /\ late \in Nat

Init ==
  /\ session = NewSession /\ staged = NewSession
  /\ now = 0
  /\ shard = [s \in Shards |->
                [next |-> 1, writer |-> TRUE, failed |-> FALSE, poisoned |-> FALSE]]
  /\ pc = "idle"
  /\ target \in Instruments
  /\ late = 0

-----------------------------------------------------------------------------
\* Engine::health is EngineState::Failed
Unhealthy(s) == shard[s].failed \/ shard[s].poisoned

\* RoutedEngine::stop_admission
Stopped(shards) == [s \in Shards |-> [shards[s] EXCEPT !.writer = FALSE]]

\* Engine::fail, with the gateway at the sequence number given
Fails(s, next) ==
  [shard EXCEPT ![s] = [next |-> next, writer |-> FALSE, failed |-> TRUE,
                        poisoned |-> shard[s].poisoned]]

FailEvent == [kind |-> "Fail", seq |-> 0]

\* session.handle(Fail), which is never refused, and stop_admission
FailTogether ==
  /\ session' = After(session, FailEvent, now)
  /\ shard' = Stopped(shard)

\* A lifecycle event or a tick; a session that is Failed afterwards stops every shard.
Transition(t) ==
  /\ pc = "idle"
  /\ session' = t
  /\ shard' = IF t.state = "Failed" THEN Stopped(shard) ELSE shard
  /\ UNCHANGED <<now, pc, staged, target, late>>

HandleSession(e) == Accepts(session, e, now) /\ Transition(After(session, e, now))

TickSession == TickAccepts(session, now) /\ Transition(Ticked(session, now))

StopAdmission ==
  /\ pc = "idle"
  /\ shard' = Stopped(shard)
  /\ UNCHANGED <<session, now, pc, staged, target, late>>

-----------------------------------------------------------------------------
(* process_command.                                                        *)

\* Faulty variant: only the shard of the command is asked for its health.
BeginOnTarget(i, n) ==
  /\ pc = "idle"
  /\ IF i \in DOMAIN Route /\ Unhealthy(Route[i])
     THEN FailTogether /\ UNCHANGED <<pc, staged, target>>
     ELSE /\ Accepts(session, CommandEvent(n), now)
          /\ staged' = After(session, CommandEvent(n), now)
          /\ target' = i
          /\ pc' = "staged"
          /\ UNCHANGED <<session, shard>>
  /\ UNCHANGED <<now, late>>

\* Any failed shard fails the session, whatever the command is for.  Otherwise the
\* session must accept the transport sequence n.
BeginCommand(i, n) ==
  /\ pc = "idle"
  /\ IF \E s \in Shards : Unhealthy(s)
     THEN FailTogether /\ UNCHANGED <<pc, staged, target>>
     ELSE /\ Accepts(session, CommandEvent(n), now)
          /\ staged' = After(session, CommandEvent(n), now)
          /\ target' = i
          /\ pc' = "staged"
          /\ UNCHANGED <<session, shard>>
  /\ UNCHANGED <<now, late>>

\* RouteTable::shard_for finds nothing: no engine is involved and nothing changes
RefuseRoute ==
  /\ pc = "staged" /\ target \notin DOMAIN Route
  /\ pc' = "idle"
  /\ UNCHANGED <<session, now, shard, staged, target, late>>

\* Engine::apply_journaled up to the admission of the command
AdmitCommand ==
  /\ pc = "staged" /\ target \in DOMAIN Route
  /\ LET s == Route[target]
     IN \/ /\ ~Unhealthy(s) /\ shard[s].writer /\ shard[s].next < MaxSeq
           /\ pc' = "admitted" /\ UNCHANGED shard
        \/ /\ \/ shard[s].poisoned /\ ~shard[s].failed
              \/ ~Unhealthy(s) /\ shard[s].writer /\ shard[s].next = MaxSeq
           /\ pc' = "refused" /\ shard' = Fails(s, shard[s].next)
  /\ UNCHANGED <<session, now, staged, target, late>>

\* The engine refuses and keeps its state: it is stopped, the command's own sequence
\* is wrong, or the event queue or the journal has no room.
EngineRefuses ==
  /\ target \in DOMAIN Route
  /\ pc \in {"staged", "admitted"}
  /\ pc = "staged" => shard[Route[target]].failed \/ ~shard[Route[target]].poisoned
  /\ pc' = "refused"
  /\ UNCHANGED <<session, now, shard, staged, target, late>>

\* Faulty variant: the session commits what it staged whatever the engine did.
ApplyFaultsCommitting ==
  /\ pc = "admitted"
  /\ LET s == Route[target]
     IN shard' = Fails(s, shard[s].next + 1)
  /\ session' = staged /\ pc' = "idle"
  /\ UNCHANGED <<now, staged, target, late>>

\* The gateway breaks while it applies the journaled command
ApplyFaults ==
  /\ pc = "admitted"
  /\ LET s == Route[target]
     IN shard' = Fails(s, shard[s].next + 1)
  /\ pc' = "refused"
  /\ UNCHANGED <<session, now, staged, target, late>>

\* Faulty variant: the staged session is not committed.
ApplyUncommitted ==
  /\ pc = "admitted"
  /\ shard' = [shard EXCEPT ![Route[target]].next = @ + 1]
  /\ late' = IF \E s \in Shards : shard[s].poisoned THEN late + 1 ELSE late
  /\ pc' = "idle"
  /\ UNCHANGED <<session, now, staged, target>>

\* The command is journaled and applied, a business rejection included, and the
\* staged session becomes the session.
ApplyCommand ==
  /\ pc = "admitted"
  /\ shard' = [shard EXCEPT ![Route[target]].next = @ + 1]
  /\ session' = staged
  /\ late' = IF \E s \in Shards : shard[s].poisoned THEN late + 1 ELSE late
  /\ pc' = "idle"
  /\ UNCHANGED <<now, staged, target>>

\* After an engine error, a shard that turns out to have failed fails the session.
SettleRefusal ==
  /\ pc = "refused"
  /\ IF Unhealthy(Route[target]) THEN FailTogether ELSE UNCHANGED <<session, shard>>
  /\ pc' = "idle"
  /\ UNCHANGED <<now, staged, target, late>>

-----------------------------------------------------------------------------
\* A persistence worker fails (Journal!Poison)
PoisonShard(s) ==
  /\ shard' = [shard EXCEPT ![s].poisoned = TRUE]
  /\ UNCHANGED <<session, now, pc, staged, target, late>>

AdvanceClock ==
  /\ pc = "idle" /\ now < MaxTick
  /\ now' = now + 1
  /\ UNCHANGED <<session, shard, pc, staged, target, late>>

Next ==
  \/ \E e \in Lifecycle : HandleSession(e)
  \/ TickSession \/ StopAdmission \/ AdvanceClock
  \/ \E i \in Instruments, n \in 1 .. MaxSession : BeginCommand(i, n)
  \/ RefuseRoute \/ AdmitCommand \/ EngineRefuses
  \/ ApplyFaults \/ ApplyCommand \/ SettleRefusal
  \/ \E s \in Shards : PoisonShard(s)

Spec == Init /\ [][Next]_vars

-----------------------------------------------------------------------------
(* Properties.                                                             *)

TimersFit(s) ==
  /\ s.deadline # NoDeadline <=> s.state \in {"Logon", "Active", "Recovering"}
  /\ s.state = "Active" => s.timeouts = 0
  /\ s.state = "Recovering" => s.timeouts = 1

(* A deadline is armed exactly in the states that wait for the peer, and the *)
(* timeouts it has let pass are the ones its state stands for: no event      *)
(* leaves a timer behind that could fire in a state it was not armed for.    *)
TimersMatchState == TimersFit(session)

(* A failed session has closed every shard, and once process_command has     *)
(* returned, a shard whose engine failed has failed the session: no shard    *)
(* goes on admitting commands behind a failure of another.                   *)
FailureIsShared ==
  /\ session.state = "Failed" => \A s \in Shards : ~shard[s].writer
  /\ pc = "idle" /\ (\E s \in Shards : shard[s].failed) => session.state = "Failed"

(* After a journal is poisoned at most the one command already past the      *)
(* health check is still applied, on whichever shard.                        *)
AtMostOneLate == late <= 1

(* The two sequences move together.  A command the session counts is the     *)
(* next command of exactly one shard, and the other way round unless that    *)
(* shard failed while applying it; then the session is not advanced.         *)
SequencesMoveTogether ==
  [][LET moved == {s \in Shards : shard'[s].next # shard[s].next}
     IN /\ session.state \in {"Active", "Recovering"} /\ session'.next = session.next + 1 =>
             \E s \in Shards : moved = {s} /\ shard'[s].next = shard[s].next + 1
        /\ \A s \in moved : \/ shard'[s].failed /\ UNCHANGED session
                            \/ session'.next = session.next + 1]_vars

(* SessionConfig says that a timeout of zero disables its deadline.  arm and *)
(* tick have no such case: the deadline is the current tick, and fires.      *)
ZeroDisablesHeartbeat == HeartbeatTimeout = 0 => session.state # "Recovering"
=============================================================================
