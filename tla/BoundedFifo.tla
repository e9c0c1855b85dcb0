---------------------------- MODULE BoundedFifo ----------------------------
(***************************************************************************)
(* What the single-producer/single-consumer ring of crates/hft-spsc        *)
(* promises to the crates that use it: a FIFO of at most N values.  A      *)
(* value that was accepted is either still queued, has been handed to the  *)
(* consumer exactly once and in order, or was destroyed with the queue.    *)
(* A refused push is a step that changes nothing.                          *)
(***************************************************************************)
EXTENDS Naturals, Sequences

CONSTANTS
  Values,   \* what may be queued
  N         \* the capacity

VARIABLES
  queue,      \* the values accepted and not yet taken, oldest first
  taken,      \* every value handed to a consumer, in order
  destroyed   \* the queue has been dropped

vars == <<queue, taken, destroyed>>

Init ==
  /\ queue = <<>>
  /\ taken = <<>>
  /\ destroyed = FALSE

Push(v) ==
  /\ ~destroyed
  /\ Len(queue) < N
  /\ queue' = Append(queue, v)
  /\ UNCHANGED <<taken, destroyed>>

Pop ==
  /\ ~destroyed
  /\ queue # <<>>
  /\ taken' = Append(taken, Head(queue))
  /\ queue' = Tail(queue)
  /\ UNCHANGED destroyed

\* While the queue is being dropped its remaining values go, oldest first.
Discard ==
  /\ queue # <<>>
  /\ queue' = Tail(queue)
  /\ destroyed' = TRUE
  /\ UNCHANGED taken

Destroy ==
  /\ ~destroyed
  /\ destroyed' = TRUE
  /\ UNCHANGED <<queue, taken>>

Next == (\E v \in Values : Push(v)) \/ Pop \/ Discard \/ Destroy

Spec == Init /\ [][Next]_vars
=============================================================================
