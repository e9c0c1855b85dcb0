----------------------------- MODULE Retransmit -----------------------------
(***************************************************************************)
(* crates/hft-session/src/retransmit.rs: the bounded window of frames kept *)
(* until the peer confirms them, as operators on a buffer with the fields  *)
(* entries and next_sequence.                                              *)
(***************************************************************************)
EXTENDS Integers, Sequences

CONSTANTS
  Window,         \* the capacity of the buffer
  MaxSequence     \* the largest sequence number

ASSUME RetransmitAssumption == Window \in Nat /\ MaxSequence \in Nat \ {0}

NewBuffer == [entries |-> <<>>, next_sequence |-> 1]

\* retain: a frame that does not continue the window, does not fit or has no
\* successor is refused
CanRetain(buffer, sequence) ==
  /\ sequence = buffer.next_sequence
  /\ Len(buffer.entries) # Window
  /\ sequence < MaxSequence

Retain(buffer, sequence, frame) ==
  [entries |-> Append(buffer.entries, [sequence |-> sequence, frame |-> frame]),
   next_sequence |-> sequence + 1]

\* How many frames confirm_through pops: it stops at the first that is not confirmed
Dropped(entries, confirmed) ==
  CHOOSE d \in 0 .. Len(entries) :
    /\ \A i \in 1 .. d : entries[i].sequence <= confirmed
    /\ d < Len(entries) => entries[d + 1].sequence > confirmed

\* Faulty variant: the frame after the confirmed one goes too.
ConfirmThroughNext(buffer, confirmed) ==
  [buffer EXCEPT !.entries = SubSeq(@, Dropped(@, confirmed + 1) + 1, Len(@))]

\* Faulty variant: the confirmed frame itself stays.
ConfirmBelow(buffer, confirmed) ==
  [buffer EXCEPT !.entries = SubSeq(@, Dropped(@, confirmed - 1) + 1, Len(@))]

\* confirm_through
ConfirmThrough(buffer, confirmed) ==
  [buffer EXCEPT !.entries = SubSeq(@, Dropped(@, confirmed) + 1, Len(@))]

\* since: the retained frames from a sequence on
Since(buffer, from) ==
  {e \in {buffer.entries[i] : i \in DOMAIN buffer.entries} : e.sequence >= from}
=============================================================================
