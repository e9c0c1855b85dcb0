------------------------ MODULE SessionEngineProofs ------------------------
(***************************************************************************)
(* The invariants of SessionEngine for any number of shards, any routes,   *)
(* timeouts and limits.                                                    *)
(***************************************************************************)
EXTENDS SessionEngine, TLAPS

-----------------------------------------------------------------------------
(* The session alone.                                                      *)

\* Every event, lifecycle or command
Events == [kind : {"Connect", "LogonSent", "LogonAccepted", "Command", "HeartbeatReceived",
                   "LogoutSent", "Disconnect", "Fail"},
           seq : 0 .. MaxSession]

\* A session made of its fields
LEMMA MakeSession ==
  ASSUME NEW state \in States, NEW next \in 1 .. MaxSession,
         NEW deadline \in {NoDeadline} \cup 0 .. MaxTick, NEW timeouts \in 0 .. 2
  PROVE  LET s == Fields(state, next, deadline, timeouts)
         IN  /\ s \in Sessions
             /\ s.state = state /\ s.next = next
             /\ s.deadline = deadline /\ s.timeouts = timeouts
BY DEF Fields, Sessions

\* The fields of a session have their ranges.
LEMMA SessionFields ==
  ASSUME NEW s \in Sessions
  PROVE  /\ s.state \in States /\ s.next \in 1 .. MaxSession
         /\ s.deadline \in {NoDeadline} \cup 0 .. MaxTick /\ s.timeouts \in 0 .. 2
BY DEF Sessions

\* The constants the session is built from are in range.
LEMMA Bounds == 1 \in 1 .. MaxSession /\ 0 \in 0 .. 2 /\ 1 \in 0 .. 2
BY SessionAssumption

\* SessionStateMachine::new is well formed and has no timer.
LEMMA NewSessionFits ==
  NewSession \in Sessions /\ TimersFit(NewSession) /\ NewSession.state = "Disconnected"
BY MakeSession, Bounds DEF NewSession, States, TimersFit

\* A deadline within the range of ticks is a deadline.
LEMMA ArmedDeadline ==
  ASSUME NEW timeout \in Nat, NEW t \in 0 .. MaxTick, CanArm(timeout, t)
  PROVE  t + timeout \in 0 .. MaxTick /\ t + timeout # NoDeadline
BY SessionAssumption DEF CanArm, NoDeadline

\* Resetting into Disconnected or Failed disarms the deadline.
LEMMA ResetFits ==
  ASSUME NEW s \in Sessions, NEW state \in {"Disconnected", "Failed"}
  PROVE  /\ Enter(Reset(s), state) \in Sessions
         /\ Enter(Reset(s), state).state = state
         /\ TimersFit(Enter(Reset(s), state))
<1>1. Enter(Reset(s), state) = Fields(state, 1, NoDeadline, 0)
  BY DEF Enter, Reset, Fields
<1> QED BY <1>1, MakeSession, Bounds DEF States, TimersFit

\* Entering Connecting or Logout disarms the deadline.
LEMMA EnterFits ==
  ASSUME NEW s \in Sessions, NEW state \in {"Connecting", "Logout"}
  PROVE  Enter(s, state) \in Sessions /\ TimersFit(Enter(s, state))
BY MakeSession, SessionFields DEF Enter, States, TimersFit

\* Counting(Arm(...)) is an Active session with the next sequence given.
LEMMA ActiveFits ==
  ASSUME NEW s \in Sessions, NEW next \in 1 .. MaxSession, NEW t \in 0 .. MaxTick,
         CanArm(HeartbeatTimeout, t)
  PROVE  LET a == Counting(Arm(s, "Active", HeartbeatTimeout, t), next)
         IN  a \in Sessions /\ TimersFit(a) /\ a.state = "Active" /\ a.next = next
<1>1. Counting(Arm(s, "Active", HeartbeatTimeout, t), next) =
        Fields("Active", next, t + HeartbeatTimeout, 0)
  BY DEF Counting, Arm, Fields
<1> QED BY <1>1, MakeSession, ArmedDeadline, Bounds, SessionAssumption DEF States, TimersFit

\* An accepted event leaves a well-formed session with the timers of its state.
LEMMA AfterFits ==
  ASSUME NEW s \in Sessions, NEW e \in Events, NEW t \in 0 .. MaxTick,
         TimersFit(s), Accepts(s, e, t)
  PROVE  After(s, e, t) \in Sessions /\ TimersFit(After(s, e, t))
<1>1. CASE e.kind = "Connect"
  BY <1>1, EnterFits DEF After
<1>2. CASE e.kind = "LogonSent"
  <2>1. CanArm(LogonTimeout, t) /\ After(s, e, t) = Arm(s, "Logon", LogonTimeout, t)
    BY <1>2 DEF Accepts, After
  <2> QED BY <2>1, MakeSession, SessionFields, ArmedDeadline, SessionAssumption
          DEF Arm, States, TimersFit
<1>3. CASE e.kind = "LogonAccepted"
  <2>1. e.seq # 0 /\ CanArm(HeartbeatTimeout, t)
    BY <1>3 DEF Accepts
  <2>2. After(s, e, t) = Counting(Arm(s, "Active", HeartbeatTimeout, t), e.seq)
    BY <1>3 DEF After
  <2>3. e.seq \in 1 .. MaxSession
    BY <2>1, SessionAssumption DEF Events
  <2> QED BY <2>1, <2>2, <2>3, ActiveFits
<1>4. CASE e.kind = "Command"
  <2>1. s.next < MaxSession /\ CanArm(HeartbeatTimeout, t)
    BY <1>4 DEF Accepts
  <2>2. After(s, e, t) = Counting(Arm(s, "Active", HeartbeatTimeout, t), s.next + 1)
    BY <1>4 DEF After
  <2>3. s.next + 1 \in 1 .. MaxSession
    BY <2>1, SessionFields, SessionAssumption
  <2> QED BY <2>1, <2>2, <2>3, ActiveFits
<1>5. CASE e.kind = "HeartbeatReceived"
  <2>1. s.state = "Active" /\ CanArm(HeartbeatTimeout, t)
    BY <1>5 DEF Accepts
  <2>2. After(s, e, t) = Arm(s, "Active", HeartbeatTimeout, t)
    BY <1>5 DEF After
  <2>3. s.timeouts = 0
    BY <2>1 DEF TimersFit
  <2> QED BY <2>2, <2>1, <2>3, MakeSession, SessionFields, ArmedDeadline, SessionAssumption, SMTT(30)
          DEF Arm, States, TimersFit
<1>6. CASE e.kind = "LogoutSent"
  BY <1>6, EnterFits DEF After
<1>7. CASE e.kind = "Disconnect"
  BY <1>7, ResetFits DEF After
<1>8. CASE e.kind = "Fail"
  BY <1>8, ResetFits DEF After
<1> QED BY <1>1, <1>2, <1>3, <1>4, <1>5, <1>6, <1>7, <1>8 DEF Events

\* A command that is accepted makes the session Active and advances it by one.
LEMMA CommandAdvances ==
  ASSUME NEW s \in Sessions, NEW n \in 1 .. MaxSession, NEW t \in 0 .. MaxTick,
         Accepts(s, CommandEvent(n), t)
  PROVE  LET a == After(s, CommandEvent(n), t)
         IN  a \in Sessions /\ TimersFit(a) /\ a.state = "Active" /\ a.next = s.next + 1
<1>1. CommandEvent(n).kind = "Command"
  BY DEF CommandEvent
<1>2. s.next < MaxSession /\ CanArm(HeartbeatTimeout, t)
  BY <1>1 DEF Accepts
<1>3. After(s, CommandEvent(n), t) = Counting(Arm(s, "Active", HeartbeatTimeout, t), s.next + 1)
  BY <1>1 DEF After
<1>4. s.next + 1 \in 1 .. MaxSession
  BY <1>2, SessionFields, SessionAssumption
<1> QED BY <1>2, <1>3, <1>4, ActiveFits

\* A tick leaves a well-formed session with the timers of its state.
LEMMA TickedFits ==
  ASSUME NEW s \in Sessions, NEW t \in 0 .. MaxTick, TimersFit(s), TickAccepts(s, t)
  PROVE  Ticked(s, t) \in Sessions /\ TimersFit(Ticked(s, t))
<1>1. CASE ~Expired(s, t)
  BY <1>1 DEF Ticked
<1>2. CASE Expired(s, t) /\ s.state = "Active"
  <2>1. CanArm(HeartbeatTimeout, t) /\ s.timeouts + 1 = 1
    BY <1>2 DEF TickAccepts, TimersFit
  <2>2. Ticked(s, t) = Fields("Recovering", s.next, t + HeartbeatTimeout, 1)
    BY <1>2, <2>1 DEF Ticked
  <2> QED BY <2>1, <2>2, MakeSession, SessionFields, ArmedDeadline, Bounds, SessionAssumption,
          SMTT(30)
          DEF States, TimersFit
<1>3. CASE Expired(s, t) /\ s.state \in {"Logon", "Recovering"}
  BY <1>3, ResetFits DEF Ticked
<1>4. CASE Expired(s, t) /\ s.state \notin {"Logon", "Recovering", "Active"}
  BY <1>4 DEF Ticked
<1> QED BY <1>1, <1>2, <1>3, <1>4

-----------------------------------------------------------------------------
(* The session over its shards.                                            *)

\* While a command is under way: what was staged is the session plus one command, no
\* engine has failed and none but the command's can, and nothing was applied late.
InFlight ==
  /\ pc \in {"staged", "admitted"} =>
       /\ TimersFit(staged) /\ staged.state = "Active" /\ staged.next = session.next + 1
       /\ \A s \in Shards : ~shard[s].failed
  /\ pc \in {"admitted", "refused"} => target \in DOMAIN Route
  /\ pc = "admitted" => shard[Route[target]].next < MaxSeq
  /\ pc = "refused" => \A s \in Shards : shard[s].failed => s = Route[target]
  /\ pc # "idle" => late = 0

\* A command applied late leaves a poisoned journal behind, which stops the next one.
LateIsPoisoned == late > 0 => \E s \in Shards : shard[s].poisoned

Inv ==
  /\ TypeOK /\ TimersMatchState /\ FailureIsShared /\ AtMostOneLate
  /\ InFlight /\ LateIsPoisoned

\* A route leads to a shard.
LEMMA RouteInShards == \A i \in DOMAIN Route : Route[i] \in Shards
BY RouteAssumption

\* Every lifecycle event is an event.
LEMMA LifecycleEvents == Lifecycle \subseteq Events /\ FailEvent \in Events
<1>1. 0 \in 0 .. MaxSession
  BY SessionAssumption
<1> QED BY <1>1 DEF Lifecycle, FailEvent, Events

\* Stopping every shard keeps all but the writers.
LEMMA StoppedShards ==
  ASSUME shard \in [Shards -> ShardStates]
  PROVE  /\ Stopped(shard) \in [Shards -> ShardStates]
         /\ \A s \in Shards : /\ ~Stopped(shard)[s].writer
                              /\ Stopped(shard)[s].next = shard[s].next
                              /\ Stopped(shard)[s].failed = shard[s].failed
                              /\ Stopped(shard)[s].poisoned = shard[s].poisoned
<1>1. ASSUME NEW s \in Shards
      PROVE  /\ [shard[s] EXCEPT !.writer = FALSE] \in ShardStates
             /\ ~[shard[s] EXCEPT !.writer = FALSE].writer
             /\ [shard[s] EXCEPT !.writer = FALSE].next = shard[s].next
             /\ [shard[s] EXCEPT !.writer = FALSE].failed = shard[s].failed
             /\ [shard[s] EXCEPT !.writer = FALSE].poisoned = shard[s].poisoned
  BY <1>1 DEF ShardStates
<1> QED BY <1>1 DEF Stopped

\* A shard that fails keeps its poison, and the others keep everything.
LEMMA FailedShard ==
  ASSUME shard \in [Shards -> ShardStates], NEW s \in Shards, NEW n \in 1 .. MaxSeq
  PROVE  /\ Fails(s, n) \in [Shards -> ShardStates]
         /\ Fails(s, n)[s].failed /\ ~Fails(s, n)[s].writer
         /\ Fails(s, n)[s].next = n
         /\ Fails(s, n)[s].poisoned = shard[s].poisoned
         /\ \A r \in Shards : r # s => Fails(s, n)[r] = shard[r]
<1>1. [next |-> n, writer |-> FALSE, failed |-> TRUE, poisoned |-> shard[s].poisoned]
        \in ShardStates
  BY DEF ShardStates
<1> QED BY <1>1 DEF Fails

\* A shard whose sequence advances keeps the rest.
LEMMA AdvancedShard ==
  ASSUME shard \in [Shards -> ShardStates], NEW s \in Shards, shard[s].next < MaxSeq
  PROVE  LET sh == [shard EXCEPT ![s].next = @ + 1]
         IN  /\ sh \in [Shards -> ShardStates]
             /\ sh[s].next = shard[s].next + 1
             /\ \A r \in Shards : /\ r # s => sh[r] = shard[r]
                                  /\ sh[r].writer = shard[r].writer
                                  /\ sh[r].failed = shard[r].failed
                                  /\ sh[r].poisoned = shard[r].poisoned
<1>1. shard[s] \in ShardStates /\ shard[s].next + 1 \in 1 .. MaxSeq
  BY RouteAssumption DEF ShardStates
<1>2. [shard[s] EXCEPT !.next = @ + 1] \in ShardStates
  BY <1>1 DEF ShardStates
<1>3. /\ [shard[s] EXCEPT !.next = @ + 1].next = shard[s].next + 1
      /\ [shard[s] EXCEPT !.next = @ + 1].writer = shard[s].writer
      /\ [shard[s] EXCEPT !.next = @ + 1].failed = shard[s].failed
      /\ [shard[s] EXCEPT !.next = @ + 1].poisoned = shard[s].poisoned
  BY <1>1 DEF ShardStates
<1> QED BY <1>2, <1>3

\* A poisoned journal changes nothing else.
LEMMA PoisonedShard ==
  ASSUME shard \in [Shards -> ShardStates], NEW s \in Shards
  PROVE  LET sh == [shard EXCEPT ![s].poisoned = TRUE]
         IN  /\ sh \in [Shards -> ShardStates]
             /\ sh[s].poisoned
             /\ \A r \in Shards : /\ sh[r].next = shard[r].next
                                  /\ sh[r].writer = shard[r].writer
                                  /\ sh[r].failed = shard[r].failed
                                  /\ shard[r].poisoned => sh[r].poisoned
<1>1. [shard[s] EXCEPT !.poisoned = TRUE] \in ShardStates
  BY DEF ShardStates
<1>2. /\ [shard[s] EXCEPT !.poisoned = TRUE].poisoned
      /\ [shard[s] EXCEPT !.poisoned = TRUE].next = shard[s].next
      /\ [shard[s] EXCEPT !.poisoned = TRUE].writer = shard[s].writer
      /\ [shard[s] EXCEPT !.poisoned = TRUE].failed = shard[s].failed
  BY DEF ShardStates
<1> QED BY <1>1, <1>2

\* The invariant holds of a fresh session over fresh engines.
LEMMA InitInv == Init => Inv
<1> SUFFICES ASSUME Init PROVE Inv
  OBVIOUS
<1>1. \A s \in Shards : shard[s] = [next |-> 1, writer |-> TRUE, failed |-> FALSE,
                                    poisoned |-> FALSE]
  BY DEF Init
<1>2. shard \in [Shards -> ShardStates]
  <2>1. [next |-> 1, writer |-> TRUE, failed |-> FALSE, poisoned |-> FALSE] \in ShardStates
    BY RouteAssumption DEF ShardStates
  <2> QED BY <2>1 DEF Init
<1>3. TypeOK
  BY <1>2, NewSessionFits, SessionAssumption DEF Init, TypeOK
<1>4. TimersMatchState /\ AtMostOneLate /\ InFlight /\ LateIsPoisoned
  BY NewSessionFits DEF Init, TimersMatchState, AtMostOneLate, InFlight, LateIsPoisoned
<1>5. FailureIsShared
  BY <1>1, NewSessionFits DEF Init, FailureIsShared
<1> QED BY <1>3, <1>4, <1>5 DEF Inv

\* Failing the session and stopping every shard, whatever led to it.
LEMMA FailTogetherInv ==
  ASSUME Inv, FailTogether
  PROVE  /\ session' \in Sessions /\ TimersFit(session') /\ session'.state = "Failed"
         /\ shard' \in [Shards -> ShardStates]
         /\ \A s \in Shards : /\ ~shard'[s].writer
                              /\ shard'[s].next = shard[s].next
                              /\ shard'[s].failed = shard[s].failed
                              /\ shard'[s].poisoned = shard[s].poisoned
<1>1. session \in Sessions /\ shard \in [Shards -> ShardStates]
  BY DEF Inv, TypeOK
<1>2. After(session, FailEvent, now) = Enter(Reset(session), "Failed")
  BY DEF After, FailEvent
<1> QED BY <1>1, <1>2, ResetFits, StoppedShards DEF FailTogether

\* A lifecycle event or a tick.
LEMMA TransitionInv ==
  ASSUME Inv, NEW t \in Sessions, TimersFit(t), Transition(t),
         session.state = "Failed" => t.state = "Failed"
  PROVE  Inv'
<1> USE DEF Transition
<1>1. shard \in [Shards -> ShardStates] /\ pc = "idle" /\ pc' = "idle"
  BY DEF Inv, TypeOK
<1>2. /\ shard' \in [Shards -> ShardStates]
      /\ \A s \in Shards : /\ shard'[s].failed = shard[s].failed
                           /\ shard'[s].poisoned = shard[s].poisoned
                           /\ t.state = "Failed" => ~shard'[s].writer
  BY <1>1, StoppedShards
<1>3. TypeOK'
  BY <1>2 DEF Inv, TypeOK
<1>4. FailureIsShared'
  BY <1>1, <1>2 DEF Inv, FailureIsShared
<1>5. TimersMatchState' /\ AtMostOneLate' /\ InFlight'
  BY <1>1 DEF Inv, TimersMatchState, AtMostOneLate, InFlight
<1>6. LateIsPoisoned'
  BY <1>2 DEF Inv, LateIsPoisoned
<1> QED BY <1>3, <1>4, <1>5, <1>6 DEF Inv

\* An accepted event: only Fail is accepted in Failed, so Failed is kept.
LEMMA HandleSessionInv ==
  ASSUME Inv, NEW e \in Lifecycle, HandleSession(e)
  PROVE  Inv'
<1>1. session \in Sessions /\ now \in 0 .. MaxTick /\ TimersFit(session) /\ e \in Events
  BY LifecycleEvents DEF Inv, TypeOK, TimersMatchState
<1>2. After(session, e, now) \in Sessions /\ TimersFit(After(session, e, now))
  BY <1>1, AfterFits DEF HandleSession
<1>3. ASSUME session.state = "Failed" PROVE After(session, e, now).state = "Failed"
  <2>1. e.kind = "Fail"
    BY <1>1, <1>3 DEF HandleSession, Accepts, Events, Lifecycle
  <2>2. After(session, e, now) = Enter(Reset(session), "Failed")
    BY <2>1 DEF After
  <2> QED BY <1>1, <2>2, ResetFits
<1> QED BY <1>2, <1>3, TransitionInv DEF HandleSession

\* A tick: a failed session has no deadline, so that Failed is kept.
LEMMA TickSessionInv ==
  ASSUME Inv, TickSession
  PROVE  Inv'
<1>1. session \in Sessions /\ now \in 0 .. MaxTick /\ TimersFit(session)
  BY DEF Inv, TypeOK, TimersMatchState
<1>2. Ticked(session, now) \in Sessions /\ TimersFit(Ticked(session, now))
  BY <1>1, TickedFits DEF TickSession
<1>3. ASSUME session.state = "Failed" PROVE Ticked(session, now).state = "Failed"
  <2>1. ~Expired(session, now)
    BY <1>1, <1>3 DEF Expired, TimersFit
  <2> QED BY <1>3, <2>1 DEF Ticked
<1> QED BY <1>2, <1>3, TransitionInv DEF TickSession

\* stop_admission takes the writers and nothing else.
LEMMA StopAdmissionInv ==
  ASSUME Inv, StopAdmission
  PROVE  Inv'
<1> USE DEF StopAdmission
<1>1. /\ shard' \in [Shards -> ShardStates]
      /\ \A s \in Shards : /\ shard'[s].failed = shard[s].failed
                           /\ shard'[s].poisoned = shard[s].poisoned
                           /\ ~shard'[s].writer
  BY StoppedShards DEF Inv, TypeOK
<1>2. TypeOK'
  BY <1>1 DEF Inv, TypeOK
<1>3. FailureIsShared' /\ LateIsPoisoned'
  BY <1>1 DEF Inv, FailureIsShared, LateIsPoisoned
<1>4. TimersMatchState' /\ AtMostOneLate' /\ InFlight'
  BY DEF Inv, TimersMatchState, AtMostOneLate, InFlight
<1> QED BY <1>2, <1>3, <1>4 DEF Inv

\* The scan: with every shard healthy nothing was applied late, so that the command
\* that is staged is the only one that still can be.
LEMMA BeginCommandInv ==
  ASSUME Inv, NEW i \in Instruments, NEW n \in 1 .. MaxSession, BeginCommand(i, n)
  PROVE  Inv'
<1> USE DEF BeginCommand
<1>1. CASE \E s \in Shards : Unhealthy(s)
  <2>1. FailTogether /\ UNCHANGED <<now, pc, staged, target, late>> /\ pc = "idle"
    BY <1>1
  <2>2. TypeOK'
    BY <2>1, FailTogetherInv DEF Inv, TypeOK
  <2>3. FailureIsShared' /\ LateIsPoisoned' /\ TimersMatchState'
    BY <2>1, FailTogetherInv DEF Inv, FailureIsShared, LateIsPoisoned, TimersMatchState
  <2>4. AtMostOneLate' /\ InFlight'
    BY <2>1 DEF Inv, AtMostOneLate, InFlight
  <2> QED BY <2>2, <2>3, <2>4 DEF Inv
<1>2. CASE ~(\E s \in Shards : Unhealthy(s))
  <2>1. /\ Accepts(session, CommandEvent(n), now)
        /\ staged' = After(session, CommandEvent(n), now)
        /\ target' = i /\ pc' = "staged" /\ UNCHANGED <<session, shard, now, late>>
    BY <1>2
  <2>2. session \in Sessions /\ now \in 0 .. MaxTick
    BY DEF Inv, TypeOK
  <2>3. staged' \in Sessions /\ TimersFit(staged') /\ staged'.state = "Active"
        /\ staged'.next = session.next + 1
    BY <2>1, <2>2, CommandAdvances
  <2>4. \A s \in Shards : ~shard[s].failed /\ ~shard[s].poisoned
    BY <1>2 DEF Unhealthy
  <2>5. late = 0
    BY <2>4 DEF Inv, TypeOK, LateIsPoisoned
  <2>6. TypeOK'
    BY <2>1, <2>3 DEF Inv, TypeOK
  <2>7. InFlight'
    BY <2>1, <2>3, <2>4, <2>5 DEF InFlight
  <2>8. FailureIsShared' /\ LateIsPoisoned' /\ TimersMatchState' /\ AtMostOneLate'
    BY <2>1 DEF Inv, FailureIsShared, LateIsPoisoned, TimersMatchState, AtMostOneLate
  <2> QED BY <2>6, <2>7, <2>8 DEF Inv
<1> QED BY <1>1, <1>2

\* A command with no route returns with every engine as it was.
LEMMA RefuseRouteInv ==
  ASSUME Inv, RefuseRoute
  PROVE  Inv'
<1> USE DEF RefuseRoute
<1>1. TypeOK'
  BY DEF Inv, TypeOK
<1>2. FailureIsShared'
  BY DEF Inv, FailureIsShared, InFlight
<1>3. LateIsPoisoned' /\ TimersMatchState' /\ AtMostOneLate' /\ InFlight'
  BY DEF Inv, LateIsPoisoned, TimersMatchState, AtMostOneLate, InFlight
<1> QED BY <1>1, <1>2, <1>3 DEF Inv

\* apply_journaled passes its checks or fails the command's own shard.
LEMMA AdmitCommandInv ==
  ASSUME Inv, AdmitCommand
  PROVE  Inv'
<1> DEFINE s == Route[target]
<1>1. /\ pc = "staged" /\ target \in DOMAIN Route /\ s \in Shards
      /\ shard \in [Shards -> ShardStates]
      /\ UNCHANGED <<session, now, staged, target, late>>
  BY RouteInShards DEF Inv, TypeOK, AdmitCommand
<1>2. CASE /\ ~Unhealthy(s) /\ shard[s].writer /\ shard[s].next < MaxSeq
           /\ pc' = "admitted" /\ UNCHANGED shard
  <2>1. TypeOK'
    BY <1>1, <1>2 DEF Inv, TypeOK
  <2>2. InFlight'
    BY <1>1, <1>2 DEF Inv, InFlight
  <2>3. FailureIsShared' /\ LateIsPoisoned' /\ TimersMatchState' /\ AtMostOneLate'
    BY <1>1, <1>2 DEF Inv, FailureIsShared, LateIsPoisoned, TimersMatchState, AtMostOneLate
  <2> QED BY <2>1, <2>2, <2>3 DEF Inv
<1>3. CASE pc' = "refused" /\ shard' = Fails(s, shard[s].next)
  <2>1. shard[s].next \in 1 .. MaxSeq
    BY <1>1 DEF ShardStates
  <2>2. /\ shard' \in [Shards -> ShardStates]
        /\ shard'[s].failed /\ ~shard'[s].writer /\ shard'[s].poisoned = shard[s].poisoned
        /\ \A r \in Shards : r # s => shard'[r] = shard[r]
    BY <1>1, <1>3, <2>1, FailedShard
  <2>3. TypeOK'
    BY <1>1, <1>3, <2>2 DEF Inv, TypeOK
  <2>4. InFlight'
    BY <1>1, <1>3, <2>2 DEF Inv, InFlight
  <2>5. FailureIsShared'
    BY <1>1, <1>3, <2>2 DEF Inv, FailureIsShared
  <2>6. LateIsPoisoned' /\ TimersMatchState' /\ AtMostOneLate'
    BY <1>1, <1>3, <2>2 DEF Inv, LateIsPoisoned, TimersMatchState, AtMostOneLate
  <2> QED BY <2>3, <2>4, <2>5, <2>6 DEF Inv
<1> QED BY <1>2, <1>3 DEF AdmitCommand

\* The engine refuses without failing: no shard has failed when the call settles.
LEMMA EngineRefusesInv ==
  ASSUME Inv, EngineRefuses
  PROVE  Inv'
<1> USE DEF EngineRefuses
<1>1. TypeOK'
  BY DEF Inv, TypeOK
<1>2. InFlight'
  BY DEF Inv, InFlight
<1>3. FailureIsShared' /\ LateIsPoisoned' /\ TimersMatchState' /\ AtMostOneLate'
  BY DEF Inv, FailureIsShared, LateIsPoisoned, TimersMatchState, AtMostOneLate
<1> QED BY <1>1, <1>2, <1>3 DEF Inv

\* The gateway breaks: the command's shard fails, and no other.
LEMMA ApplyFaultsInv ==
  ASSUME Inv, ApplyFaults
  PROVE  Inv'
<1> DEFINE s == Route[target]
<1>1. /\ pc = "admitted" /\ pc' = "refused" /\ target \in DOMAIN Route /\ s \in Shards
      /\ shard \in [Shards -> ShardStates] /\ shard[s].next < MaxSeq
      /\ UNCHANGED <<session, now, staged, target, late>>
  BY RouteInShards DEF Inv, TypeOK, InFlight, ApplyFaults
<1>2. shard[s].next + 1 \in 1 .. MaxSeq
  BY <1>1, RouteAssumption DEF ShardStates
<1>3. /\ shard' \in [Shards -> ShardStates]
      /\ shard'[s].failed /\ ~shard'[s].writer /\ shard'[s].poisoned = shard[s].poisoned
      /\ \A r \in Shards : r # s => shard'[r] = shard[r]
  BY <1>1, <1>2, FailedShard DEF ApplyFaults
<1>4. TypeOK'
  BY <1>1, <1>3 DEF Inv, TypeOK
<1>5. InFlight'
  BY <1>1, <1>3 DEF Inv, InFlight
<1>6. FailureIsShared'
  BY <1>1, <1>3 DEF Inv, FailureIsShared
<1>7. LateIsPoisoned' /\ TimersMatchState' /\ AtMostOneLate'
  BY <1>1, <1>3 DEF Inv, LateIsPoisoned, TimersMatchState, AtMostOneLate
<1> QED BY <1>4, <1>5, <1>6, <1>7 DEF Inv

\* What ApplyCommand does to the shards
LEMMA AppliedShard ==
  ASSUME Inv, ApplyCommand
  PROVE  /\ pc = "admitted" /\ Route[target] \in Shards
         /\ shard' \in [Shards -> ShardStates]
         /\ shard'[Route[target]].next = shard[Route[target]].next + 1
         /\ \A r \in Shards : /\ r # Route[target] => shard'[r] = shard[r]
                              /\ shard'[r].writer = shard[r].writer
                              /\ shard'[r].failed = shard[r].failed
                              /\ shard'[r].poisoned = shard[r].poisoned
<1> DEFINE s == Route[target]
<1>1. /\ pc = "admitted" /\ s \in Shards
      /\ shard \in [Shards -> ShardStates] /\ shard[s].next < MaxSeq
      /\ shard' = [shard EXCEPT ![s].next = @ + 1]
  BY RouteInShards DEF Inv, TypeOK, InFlight, ApplyCommand
<1> QED BY <1>1, AdvancedShard

\* The command in flight is the first that can be late: nothing was before it.
LEMMA ApplyCommandInv ==
  ASSUME Inv, ApplyCommand
  PROVE  Inv'
<1>1. /\ pc = "admitted" /\ pc' = "idle" /\ session' = staged /\ late = 0
      /\ TimersFit(staged) /\ staged.state = "Active"
      /\ \A s \in Shards : ~shard[s].failed
      /\ UNCHANGED <<now, staged, target>>
  BY DEF Inv, InFlight, ApplyCommand
<1>2. late' = IF \E s \in Shards : shard[s].poisoned THEN 1 ELSE 0
  BY <1>1 DEF ApplyCommand
<1>3. TypeOK'
  BY <1>1, <1>2, AppliedShard DEF Inv, TypeOK
<1>4. LateIsPoisoned' /\ AtMostOneLate'
  BY <1>2, AppliedShard DEF LateIsPoisoned, AtMostOneLate
<1>5. FailureIsShared'
  BY <1>1, AppliedShard DEF FailureIsShared
<1>6. TimersMatchState' /\ InFlight'
  BY <1>1 DEF TimersMatchState, InFlight
<1> QED BY <1>3, <1>4, <1>5, <1>6 DEF Inv

\* process_command returns an engine error: only the command's shard can have failed,
\* and it is the one that is asked.
LEMMA SettleRefusalInv ==
  ASSUME Inv, SettleRefusal
  PROVE  Inv'
<1>1. /\ pc = "refused" /\ pc' = "idle" /\ late = 0 /\ target \in DOMAIN Route
      /\ \A s \in Shards : shard[s].failed => s = Route[target]
      /\ UNCHANGED <<now, staged, target, late>>
  BY DEF Inv, InFlight, SettleRefusal
<1>2. CASE Unhealthy(Route[target])
  <2>1. FailTogether
    BY <1>2 DEF SettleRefusal
  <2>2. TypeOK'
    BY <1>1, <2>1, FailTogetherInv DEF Inv, TypeOK
  <2>3. FailureIsShared' /\ TimersMatchState'
    BY <2>1, FailTogetherInv DEF FailureIsShared, TimersMatchState
  <2>4. LateIsPoisoned' /\ AtMostOneLate' /\ InFlight'
    BY <1>1 DEF LateIsPoisoned, AtMostOneLate, InFlight
  <2> QED BY <2>2, <2>3, <2>4 DEF Inv
<1>3. CASE ~Unhealthy(Route[target])
  <2>1. UNCHANGED <<session, shard>> /\ \A s \in Shards : ~shard[s].failed
    BY <1>1, <1>3 DEF SettleRefusal, Unhealthy
  <2>2. TypeOK'
    BY <1>1, <2>1 DEF Inv, TypeOK
  <2>3. FailureIsShared' /\ TimersMatchState'
    BY <1>1, <2>1 DEF Inv, FailureIsShared, TimersMatchState
  <2>4. LateIsPoisoned' /\ AtMostOneLate' /\ InFlight'
    BY <1>1 DEF LateIsPoisoned, AtMostOneLate, InFlight
  <2> QED BY <2>2, <2>3, <2>4 DEF Inv
<1> QED BY <1>2, <1>3

\* A worker fails at any moment: the poison is not yet a failure of the engine.
LEMMA PoisonShardInv ==
  ASSUME Inv, NEW s \in Shards, PoisonShard(s)
  PROVE  Inv'
<1>1. /\ shard' \in [Shards -> ShardStates]
      /\ \A r \in Shards : /\ shard'[r].next = shard[r].next
                           /\ shard'[r].writer = shard[r].writer
                           /\ shard'[r].failed = shard[r].failed
                           /\ shard[r].poisoned => shard'[r].poisoned
  BY PoisonedShard DEF Inv, TypeOK, PoisonShard
<1>2. UNCHANGED <<session, now, pc, staged, target, late>>
  BY DEF PoisonShard
<1>3. TypeOK'
  BY <1>1, <1>2 DEF Inv, TypeOK
<1>4. FailureIsShared' /\ LateIsPoisoned'
  BY <1>1, <1>2 DEF Inv, FailureIsShared, LateIsPoisoned
<1>5. InFlight'
  BY <1>1, <1>2, RouteInShards DEF Inv, InFlight
<1>6. TimersMatchState' /\ AtMostOneLate'
  BY <1>2 DEF Inv, TimersMatchState, AtMostOneLate
<1> QED BY <1>3, <1>4, <1>5, <1>6 DEF Inv

\* Time passes between calls.
LEMMA AdvanceClockInv ==
  ASSUME Inv, AdvanceClock
  PROVE  Inv'
<1> USE DEF AdvanceClock
<1>1. TypeOK'
  BY SessionAssumption DEF Inv, TypeOK
<1>2. FailureIsShared' /\ LateIsPoisoned' /\ TimersMatchState' /\ AtMostOneLate' /\ InFlight'
  BY DEF Inv, FailureIsShared, LateIsPoisoned, TimersMatchState, AtMostOneLate, InFlight
<1> QED BY <1>1, <1>2 DEF Inv

\* The invariant is inductive.
LEMMA NextInv == Inv /\ [Next]_vars => Inv'
<1> SUFFICES ASSUME Inv, [Next]_vars PROVE Inv'
  OBVIOUS
<1>1. CASE Next
  BY <1>1, HandleSessionInv, TickSessionInv, StopAdmissionInv, AdvanceClockInv,
     BeginCommandInv, RefuseRouteInv, AdmitCommandInv, EngineRefusesInv, ApplyFaultsInv,
     ApplyCommandInv, SettleRefusalInv, PoisonShardInv DEF Next
<1>2. CASE UNCHANGED vars
  BY <1>2 DEF vars, Inv, TypeOK, TimersMatchState, FailureIsShared, AtMostOneLate, InFlight,
              LateIsPoisoned
<1> QED BY <1>1, <1>2

\* Every reachable state satisfies the inductive invariant.
LEMMA AlwaysInv == Spec => []Inv
<1> QED BY InitInv, NextInv, PTL DEF Spec

-----------------------------------------------------------------------------
(* The theorems.                                                           *)

\* The session, its copy and every shard keep their types: arm and tick never leave a
\* deadline, handle and apply never a sequence number, beyond its largest value.
THEOREM SessionTypeCorrect == Spec => []TypeOK
<1>1. Inv => TypeOK
  BY DEF Inv
<1> QED BY <1>1, AlwaysInv, PTL

\* handle and tick leave a deadline armed exactly in Logon, Active and Recovering, with
\* the timeouts of that state, whatever the events and the clock.
THEOREM TimersAlwaysMatch == Spec => []TimersMatchState
<1>1. Inv => TimersMatchState
  BY DEF Inv
<1> QED BY <1>1, AlwaysInv, PTL

\* SessionEngine shares a failure: a failed session has stopped every shard, and a
\* failed engine has failed the session by the time process_command returns.
THEOREM FailureAlwaysShared == Spec => []FailureIsShared
<1>1. Inv => FailureIsShared
  BY DEF Inv
<1> QED BY <1>1, AlwaysInv, PTL

\* With any number of shards poisoned at any moment, at most the one command already
\* past the health check of process_command is still applied.
THEOREM LateAtMostOnce == Spec => []AtMostOneLate
<1>1. Inv => AtMostOneLate
  BY DEF Inv
<1> QED BY <1>1, AlwaysInv, PTL

\* An event that is not a command does not count one: it keeps the next sequence of a
\* session that takes commands, or resets it to 1.
LEMMA LifecycleCountsNothing ==
  ASSUME NEW s \in Sessions, NEW e \in Lifecycle, NEW t \in 0 .. MaxTick,
         Accepts(s, e, t), s.state \in {"Active", "Recovering"}
  PROVE  After(s, e, t).next \in {1, s.next}
<1>1. e.kind \in {"HeartbeatReceived", "LogoutSent", "Disconnect", "Fail"}
  <2>1. e \in Events /\ e.kind # "Command"
    BY LifecycleEvents DEF Lifecycle
  <2> QED BY <2>1 DEF Events, Accepts
<1>2. Arm(s, "Active", HeartbeatTimeout, t).next = s.next
  BY DEF Arm, Fields
<1>3. Enter(s, "Logout").next = s.next
  BY DEF Enter, Fields
<1>4. Enter(Reset(s), "Disconnected").next = 1 /\ Enter(Reset(s), "Failed").next = 1
  BY DEF Enter, Reset, Fields
<1> QED BY <1>1, <1>2, <1>3, <1>4 DEF After

\* Nor does a tick.
LEMMA TickCountsNothing ==
  ASSUME NEW s \in Sessions, NEW t \in 0 .. MaxTick
  PROVE  Ticked(s, t).next \in {1, s.next}
<1>1. Enter(Reset(s), "Failed").next = 1
  BY DEF Enter, Reset, Fields
<1>2. Fields("Recovering", s.next, t + HeartbeatTimeout, s.timeouts + 1).next = s.next
  BY DEF Fields
<1>3. CASE ~Expired(s, t)
  BY <1>3 DEF Ticked
<1>4. CASE Expired(s, t) /\ s.state = "Active"
  BY <1>4, <1>2 DEF Ticked
<1>5. CASE Expired(s, t) /\ s.state \in {"Logon", "Recovering"}
  BY <1>5, <1>1 DEF Ticked
<1>6. CASE Expired(s, t) /\ s.state \notin {"Logon", "Recovering", "Active"}
  BY <1>6 DEF Ticked
<1> QED BY <1>3, <1>4, <1>5, <1>6

\* No step but an applied command moves a shard's sequence or counts a command.
LEMMA QuietStep ==
  ASSUME Inv, [Next]_vars, ~ApplyCommand, ~ApplyFaults
  PROVE  /\ \A s \in Shards : shard'[s].next = shard[s].next
         /\ session.state \in {"Active", "Recovering"} => session'.next \in {1, session.next}
<1>1. session \in Sessions /\ shard \in [Shards -> ShardStates] /\ now \in 0 .. MaxTick
  BY DEF Inv, TypeOK
<1>2. ASSUME FailTogether
      PROVE  /\ \A s \in Shards : shard'[s].next = shard[s].next
             /\ session'.next = 1
  <2>1. session' = Enter(Reset(session), "Failed")
    BY <1>2 DEF FailTogether, After, FailEvent
  <2>2. session'.next = 1
    BY <2>1 DEF Enter, Reset, Fields
  <2> QED BY <1>2, <2>2, FailTogetherInv
<1>3. ASSUME NEW e \in Lifecycle, HandleSession(e)
      PROVE  /\ \A s \in Shards : shard'[s].next = shard[s].next
             /\ session.state \in {"Active", "Recovering"} => session'.next \in {1, session.next}
  BY <1>1, <1>3, LifecycleCountsNothing, StoppedShards DEF HandleSession, Transition
<1>4. CASE TickSession
  BY <1>1, <1>4, TickCountsNothing, StoppedShards DEF TickSession, Transition
<1>5. CASE StopAdmission
  BY <1>1, <1>5, StoppedShards DEF StopAdmission
<1>6. CASE AdvanceClock \/ RefuseRoute \/ EngineRefuses \/ UNCHANGED vars
  BY <1>6 DEF AdvanceClock, RefuseRoute, EngineRefuses, vars
<1>7. ASSUME NEW i \in Instruments, NEW n \in 1 .. MaxSession, BeginCommand(i, n)
      PROVE  /\ \A s \in Shards : shard'[s].next = shard[s].next
             /\ session'.next \in {1, session.next}
  BY <1>2, <1>7 DEF BeginCommand
<1>8. CASE AdmitCommand
  <2>1. Route[target] \in Shards /\ shard[Route[target]].next \in 1 .. MaxSeq
    BY <1>1, <1>8, RouteInShards DEF AdmitCommand, ShardStates
  <2> QED BY <1>1, <1>8, <2>1, FailedShard DEF AdmitCommand
<1>9. CASE SettleRefusal
  BY <1>2, <1>9 DEF SettleRefusal
<1>10. ASSUME NEW s \in Shards, PoisonShard(s)
       PROVE  /\ \A r \in Shards : shard'[r].next = shard[r].next
              /\ session' = session
  BY <1>1, <1>10, PoisonedShard DEF PoisonShard
<1> QED BY <1>3, <1>4, <1>5, <1>6, <1>7, <1>8, <1>9, <1>10 DEF Next

\* The session counts exactly the commands the shards apply.  Committing the staged copy
\* advances it by one (InFlight: the copy is the session plus one command), together with
\* the one shard of the command; an engine that breaks moves its shard alone.
THEOREM SequencesAdvanceTogether == Spec => SequencesMoveTogether
<1> DEFINE moved == {s \in Shards : shard'[s].next # shard[s].next}
           Together ==
             /\ session.state \in {"Active", "Recovering"} /\ session'.next = session.next + 1 =>
                  \E s \in Shards : moved = {s} /\ shard'[s].next = shard[s].next + 1
             /\ \A s \in moved : \/ shard'[s].failed /\ UNCHANGED session
                                 \/ session'.next = session.next + 1
<1>1. ASSUME Inv, [Next]_vars PROVE Together
  <2>1. /\ session.next \in Nat /\ session.next >= 1 /\ shard \in [Shards -> ShardStates]
    BY <1>1 DEF Inv, TypeOK, Sessions
  <2>2. CASE ApplyCommand
    <3>1. Route[target] \in Shards /\ shard[Route[target]].next \in Nat
      BY <1>1, <2>1, <2>2, AppliedShard DEF ShardStates
    <3>2. moved = {Route[target]} /\ shard'[Route[target]].next = shard[Route[target]].next + 1
      BY <1>1, <2>2, <3>1, AppliedShard
    <3>3. session'.next = session.next + 1
      BY <1>1, <2>2 DEF Inv, InFlight, ApplyCommand
    <3> QED BY <3>1, <3>2, <3>3
  <2>3. CASE ApplyFaults
    <3>1. /\ Route[target] \in Shards /\ shard[Route[target]].next < MaxSeq
          /\ shard' = Fails(Route[target], shard[Route[target]].next + 1)
          /\ UNCHANGED session
      BY <1>1, <2>3, RouteInShards DEF Inv, InFlight, ApplyFaults
    <3>2. shard[Route[target]].next + 1 \in 1 .. MaxSeq
      BY <2>1, <3>1, RouteAssumption DEF ShardStates
    <3>3. \A s \in moved : s = Route[target] /\ shard'[s].failed
      BY <2>1, <3>1, <3>2, FailedShard
    <3> QED BY <2>1, <3>1, <3>3
  <2>4. CASE ~ApplyCommand /\ ~ApplyFaults
    <3>1. moved = {} /\ (session.state \in {"Active", "Recovering"} =>
                           session'.next \in {1, session.next})
      BY <1>1, <2>4, QuietStep
    <3> QED BY <2>1, <3>1
  <2> QED BY <2>2, <2>3, <2>4
<1>2. Inv /\ [Next]_vars => [Together]_vars
  BY <1>1
<1> QED BY <1>2, AlwaysInv, PTL DEF Spec, SequencesMoveTogether
=============================================================================
