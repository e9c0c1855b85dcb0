------------------------------ MODULE Session ------------------------------
(***************************************************************************)
(* crates/hft-session: the session state machine as operators on one       *)
(* record.  Time is virtual and comes from the caller.  Handle and tick    *)
(* either return the next session or refuse and change nothing, so each is *)
(* a condition and a result: Accepts and After, TickAccepts and Ticked.    *)
(***************************************************************************)
EXTENDS Integers

CONSTANTS
  LogonTimeout,       \* SessionConfig.logon_timeout_ticks
  HeartbeatTimeout,   \* SessionConfig.heartbeat_timeout_ticks
  MaxTick,            \* the largest tick: a deadline beyond it overflows
  MaxSession          \* the largest session sequence number

ASSUME SessionAssumption ==
  /\ LogonTimeout \in Nat /\ HeartbeatTimeout \in Nat
  /\ MaxTick \in Nat
  /\ MaxSession \in Nat \ {0}

NoDeadline == -1

States == {"Disconnected", "Connecting", "Logon", "Active", "Recovering", "Logout",
           "Failed"}

Sessions == [state : States, next : 1 .. MaxSession,
             deadline : {NoDeadline} \cup 0 .. MaxTick, timeouts : 0 .. 2]

\* The events; a number goes with LogonAccepted and Command only.
Lifecycle == {[kind |-> k, seq |-> 0] : k \in {"Connect", "LogonSent", "HeartbeatReceived",
                                               "LogoutSent", "Disconnect", "Fail"}}
             \cup [kind : {"LogonAccepted"}, seq : 0 .. MaxSession]
CommandEvent(n) == [kind |-> "Command", seq |-> n]

\* A session by its fields
Fields(state, next, deadline, timeouts) ==
  [state |-> state, next |-> next, deadline |-> deadline, timeouts |-> timeouts]

NewSession == Fields("Disconnected", 1, NoDeadline, 0)

\* Faulty variant: leaving a state does not disarm its deadline.
EnterArmed(s, state) == Fields(state, s.next, s.deadline, s.timeouts)

Enter(s, state) == Fields(state, s.next, NoDeadline, s.timeouts)

CanArm(timeout, now) == now + timeout <= MaxTick
Arm(s, state, timeout, now) == Fields(state, s.next, now + timeout, s.timeouts)

Reset(s) == Fields(s.state, 1, NoDeadline, 0)

\* The assignments of handle after arm: the next sequence, and no timeouts
Counting(s, next) == Fields(s.state, next, s.deadline, 0)

\* SessionStateMachine::handle: the (state, event) pairs it has an arm for, and the
\* early returns inside that arm
Accepts(s, e, now) ==
  CASE e.kind = "Connect"           -> s.state = "Disconnected"
    [] e.kind = "LogonSent"         -> s.state = "Connecting" /\ CanArm(LogonTimeout, now)
    [] e.kind = "LogonAccepted"     -> /\ s.state = "Logon"
                                       /\ e.seq # 0
                                       /\ CanArm(HeartbeatTimeout, now)
    [] e.kind = "Command"           -> /\ s.state \in {"Active", "Recovering"}
                                       /\ e.seq = s.next
                                       /\ s.next < MaxSession
                                       /\ CanArm(HeartbeatTimeout, now)
    [] e.kind = "HeartbeatReceived" -> s.state = "Active" /\ CanArm(HeartbeatTimeout, now)
    [] e.kind = "LogoutSent"        -> s.state \in {"Connecting", "Logon", "Active",
                                                    "Recovering"}
    [] e.kind = "Disconnect"        -> s.state # "Failed"
    [] e.kind = "Fail"              -> TRUE

\* SessionStateMachine::handle: the session after an accepted event
After(s, e, now) ==
  CASE e.kind = "Connect"           -> Enter(s, "Connecting")
    [] e.kind = "LogonSent"         -> Arm(s, "Logon", LogonTimeout, now)
    [] e.kind = "LogonAccepted"     -> Counting(Arm(s, "Active", HeartbeatTimeout, now), e.seq)
    [] e.kind = "Command"           -> Counting(Arm(s, "Active", HeartbeatTimeout, now), s.next + 1)
    [] e.kind = "HeartbeatReceived" -> Arm(s, "Active", HeartbeatTimeout, now)
    [] e.kind = "LogoutSent"        -> Enter(s, "Logout")
    [] e.kind = "Disconnect"        -> Enter(Reset(s), "Disconnected")
    [] e.kind = "Fail"              -> Enter(Reset(s), "Failed")

Expired(s, now) == s.deadline # NoDeadline /\ s.deadline <= now

\* SessionStateMachine::tick: only re-arming the Active deadline can overflow
TickAccepts(s, now) ==
  Expired(s, now) /\ s.state = "Active" => CanArm(HeartbeatTimeout, now)

Ticked(s, now) ==
  CASE ~Expired(s, now)                             -> s
    [] Expired(s, now) /\ s.state = "Active"        ->
         Fields("Recovering", s.next, now + HeartbeatTimeout, s.timeouts + 1)
    [] Expired(s, now) /\ s.state \in {"Logon", "Recovering"} -> Enter(Reset(s), "Failed")
    [] OTHER                                        -> s
=============================================================================
