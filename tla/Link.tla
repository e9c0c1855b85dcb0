-------------------------------- MODULE Link --------------------------------
(***************************************************************************)
(* A peer that keeps its commands in a RetransmitBuffer, a network that    *)
(* loses, repeats, reorders and cuts frames, and the receiving side: the   *)
(* InMemoryRx ring of crates/hft-io, the parser of crates/hft-wire and the *)
(* session state machine.  The repository has these pieces, but no peer    *)
(* and no network, and nothing that puts them together: that is this       *)
(* model's (external).  It goes by tests/recovery.rs of crates/hft-session *)
(* and by the soak harness: what is retained is replayed to a session that *)
(* timed out, and a session that reconnects resumes at the sequence it     *)
(* expected.  Nothing is assumed of the peer or of the network, not even   *)
(* that they do anything.                                                  *)
(*                                                                         *)
(* Time only decides when a deadline passes, which it may at any step, so  *)
(* it is measured from when the deadline was armed.                        *)
(***************************************************************************)
EXTENDS Session, Wire, Retransmit, SequencesExt

CONSTANTS
  Payloads,        \* the commands to send, in order and without their sequence
  RxCapacity,      \* N of InMemoryRx
  Cuts,            \* the lengths a frame may be cut to on its way
  MaxReconnects    \* bound: disconnects

\* Every payload has the fields that the encoder of its type writes, the sequence apart.
ASSUME LinkAssumption ==
  /\ \A n \in 1 .. MaxSequence - 1 :
       LET p == Payloads[n]
       IN  /\ p.type \in {"New", "Cancel", "Replace"}
           /\ DOMAIN p = {"type"} \cup (DOMAIN WrittenAt[p.type] \ {"sequence"})
           /\ p.type = "New" => p.side \in {"Buy", "Sell"}
                                /\ p.tif \in {"Gtc", "Ioc", "Fok", "PostOnly"}
  /\ LogonTimeout <= MaxTick /\ HeartbeatTimeout <= MaxTick
  /\ MaxSession = MaxSequence      \* the largest u64
  /\ RxCapacity \in Nat /\ MaxReconnects \in Nat /\ Cuts \subseteq Nat

VARIABLES
  issued,      \* the commands the peer has sent, in order
  buffer,      \* its RetransmitBuffer
  network,     \* the frames that are or may again be on their way
  rx,          \* InMemoryRx: the frames that arrived, oldest first
  session,     \* the receiver's SessionStateMachine
  resume,      \* the sequence it expected when it disconnected
  delivered,   \* the commands it accepted, in order
  confirms,    \* confirmations on their way to the peer
  reconnects

linkVars == <<issued, buffer, network, rx, session, resume, delivered, confirms, reconnects>>

Now == 0

\* Connect, LogonSent, LogonAccepted
Activate(s, first) ==
  LET event(kind, n) == [kind |-> kind, seq |-> n]
  IN  After(After(After(s, event("Connect", 0), Now), event("LogonSent", 0), Now),
            event("LogonAccepted", first), Now)

LinkInit ==
  /\ issued = <<>> /\ delivered = <<>>
  /\ buffer = NewBuffer
  /\ network = {} /\ rx = <<>> /\ confirms = {}
  /\ session = Activate(NewSession, 1)
  /\ resume = 1 /\ reconnects = 0

-----------------------------------------------------------------------------
(* The peer                                                                *)

\* The command with sequence n
Command(n) == [f \in DOMAIN Payloads[n] \cup {"sequence"} |->
                 IF f = "sequence" THEN n ELSE Payloads[n][f]]

Send ==
  LET n     == buffer.next_sequence
      frame == EncodeFrame(Command(n))
  IN  /\ CanRetain(buffer, n)
      /\ buffer' = Retain(buffer, n, frame)
      /\ issued' = Append(issued, Command(n))
      /\ network' = network \cup {frame}
      /\ UNCHANGED <<rx, session, resume, delivered, confirms, reconnects>>

\* A confirmation may be old; the same one may come again.
TakeConfirm ==
  \E n \in confirms :
    /\ buffer' = ConfirmThrough(buffer, n)
    /\ confirms' \in {confirms, confirms \ {n}}
    /\ UNCHANGED <<issued, network, rx, session, resume, delivered, reconnects>>

\* The retained window is replayed to a session that timed out.
Resend ==
  /\ session.state = "Recovering"
  /\ network' = network \cup {e.frame : e \in Since(buffer, 1)}
  /\ UNCHANGED <<issued, buffer, rx, session, resume, delivered, confirms, reconnects>>

-----------------------------------------------------------------------------
(* The network                                                             *)

Lose == \E f \in network : network' = network \ {f}
LoseConfirm == \E n \in confirms : confirms' = confirms \ {n}
Forget ==
  /\ \/ Lose /\ UNCHANGED confirms
     \/ LoseConfirm /\ UNCHANGED network
  /\ UNCHANGED <<issued, buffer, rx, session, resume, delivered, reconnects>>

\* push: a full ring refuses the frame
Push(f) == rx' = IF Len(rx) = RxCapacity THEN rx ELSE Append(rx, f)

Arrive(f) ==
  /\ f \in network
  /\ Push(f)
  /\ network' \in {network, network \ {f}}
  /\ UNCHANGED <<issued, buffer, session, resume, delivered, confirms, reconnects>>

ArriveCut(f) ==
  /\ f \in network
  /\ \E n \in Cuts : n < f.len /\ Push(CutFrame(f, n))
  /\ network' = network \ {f}
  /\ UNCHANGED <<issued, buffer, session, resume, delivered, confirms, reconnects>>

-----------------------------------------------------------------------------
(* The receiver                                                            *)

\* receive, parse_message and the session's handle: a frame that is refused is gone
Receive ==
  /\ rx # <<>>
  /\ rx' = Tail(rx)
  /\ LET f     == Head(rx)
         event == CommandEvent(FrameSequence(f))
     IN  IF ParseError(f) = "none" /\ Accepts(session, event, Now)
         THEN /\ session' = After(session, event, Now)
              /\ delivered' = Append(delivered, ToCommand(f))
              /\ confirms' = confirms \cup {FrameSequence(f)}
         ELSE UNCHANGED <<session, delivered, confirms>>
  /\ UNCHANGED <<issued, buffer, network, resume, reconnects>>

\* The deadline passes: once to Recovering, and once more to Failed.
Timeout ==
  /\ Expired(session, session.deadline)
  /\ session' = Ticked(session, session.deadline)
  /\ UNCHANGED <<issued, buffer, network, rx, resume, delivered, confirms, reconnects>>

Disconnect ==
  /\ session.state \in {"Active", "Recovering"}
  /\ reconnects < MaxReconnects
  /\ resume' = session.next
  /\ session' = After(session, [kind |-> "Disconnect", seq |-> 0], Now)
  /\ reconnects' = reconnects + 1
  /\ UNCHANGED <<issued, buffer, network, rx, delivered, confirms>>

\* Faulty variant: the session starts again at its first sequence.
LogonAtFirst(s) == Activate(s, 1)

\* The session resumes where it was.
Logon(s) == Activate(s, resume)

Reconnect ==
  /\ session.state = "Disconnected"
  /\ session' = Logon(session)
  /\ UNCHANGED <<issued, buffer, network, rx, resume, delivered, confirms, reconnects>>

LinkNext ==
  \/ Send \/ TakeConfirm \/ Resend \/ Forget
  \/ \E f \in network : Arrive(f) \/ ArriveCut(f)
  \/ Receive \/ Timeout \/ Disconnect \/ Reconnect

LinkSpec == LinkInit /\ [][LinkNext]_linkVars

-----------------------------------------------------------------------------
(* Exactly once and in order: what the session accepted is a prefix of what *)
(* the peer issued, every field as it was encoded, whatever was lost,       *)
(* repeated, cut or reordered and however often the session resumed.        *)
ExactlyOnceInOrder == IsPrefix(delivered, issued)

(* No frame is dropped too early: what the window would replay is exactly   *)
(* what the session has not accepted, in order and without a gap.           *)
WindowCovers ==
  session.state \in {"Active", "Recovering"} =>
    /\ Since(buffer, session.next) =
         {[sequence |-> n, frame |-> EncodeFrame(issued[n])] :
            n \in Len(delivered) + 1 .. Len(issued)}
    /\ \A i, j \in DOMAIN buffer.entries :
         i < j => buffer.entries[i].sequence < buffer.entries[j].sequence

(* Neither side waits for the other.  Once what the session accepted is     *)
(* confirmed, confirm_through leaves in the window exactly as many frames   *)
(* as the session lacks, and the session accepts the first of them as soon  *)
(* as it arrives.  So a full window is always moved by a confirmation or by *)
(* a replay, whatever was lost before.                                      *)
NoStandoff ==
  session.state \in {"Active", "Recovering"} =>
    LET kept == ConfirmThrough(buffer, session.next - 1).entries
    IN  /\ Len(kept) = Len(issued) - Len(delivered)
        /\ kept # <<>> => /\ ParseError(kept[1].frame) = "none"
                         /\ Accepts(session, CommandEvent(FrameSequence(kept[1].frame)), Now)
=============================================================================
