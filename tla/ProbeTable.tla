----------------------------- MODULE ProbeTable -----------------------------
(***************************************************************************)
(* The open-addressed table with linear probing and back-shift deletion    *)
(* that both crates/hft-book (OrderIndex) and crates/hft-risk (ProbeIndex) *)
(* keep their ids in.  A table maps 0 .. Capacity - 1 to a key and a       *)
(* value; the value 0 marks an empty slot, as the NonZeroUsize of the code *)
(* does.  Where a key's probe starts is a multiplicative hash in the code  *)
(* and any function `home' here.                                           *)
(***************************************************************************)
EXTENDS Integers, Sequences

CONSTANT Capacity   \* positions, at least one

Positions == 0 .. Capacity - 1
Nowhere == -1
Empty == [key |-> 0, value |-> 0]
EmptyTable == [i \in Positions |-> Empty]
Occupied(t, i) == t[i].value # 0

\* probe_distance
ProbeDistance(home, current) ==
  IF current >= home THEN current - home ELSE Capacity - (home - current)

\* The first slot from `slot' on that is empty or holds the key, of the next `n'
RECURSIVE StopFrom(_, _, _, _)
StopFrom(t, key, slot, n) ==
  IF n = 0 THEN Nowhere
  ELSE IF ~Occupied(t, slot) \/ t[slot].key = key THEN slot
  ELSE StopFrom(t, key, (slot + 1) % Capacity, n - 1)

\* Where the probe of find_slot and of insert stops
Stop(t, home, key) == StopFrom(t, key, home[key], Capacity)

\* find_slot, lookup
FindSlot(t, home, key) ==
  LET slot == Stop(t, home, key)
  IN  IF slot = Nowhere \/ ~Occupied(t, slot) THEN Nowhere ELSE slot
Lookup(t, home, key) ==
  LET slot == FindSlot(t, home, key) IN IF slot = Nowhere THEN 0 ELSE t[slot].value

\* insert: the new table and the slot taken, or Nowhere for a full table or a duplicate
Insert(t, home, key, value) ==
  LET slot == Stop(t, home, key)
  IN  IF slot = Nowhere \/ Occupied(t, slot) THEN [table |-> t, slot |-> Nowhere]
      ELSE [table |-> [t EXCEPT ![slot] = [key |-> key, value |-> value]], slot |-> slot]

-----------------------------------------------------------------------------
(* remove_at: a candidate that is nearer to its home in the hole is moved   *)
(* into the hole, which moves to where the candidate was, until an empty    *)
(* slot ends the cluster.                                                   *)

\* Faulty variant: the first entry that is where it belongs ends the shift.
ShiftStopping(home, s, candidate) ==
  LET entry == s.table[candidate]
  IN  IF \/ ~Occupied(s.table, candidate)
              \/ ProbeDistance(home[entry.key], s.hole)
                   >= ProbeDistance(home[entry.key], candidate)
      THEN [s EXCEPT !.table[s.hole] = Empty, !.closed = TRUE]
      ELSE [s EXCEPT !.table[s.hole] = entry, !.hole = candidate,
                     !.moves = Append(@, [entry |-> entry, slot |-> s.hole])]

Shift(home, s, candidate) ==
  LET entry == s.table[candidate]
  IN  IF ~Occupied(s.table, candidate)
      THEN [s EXCEPT !.table[s.hole] = Empty, !.closed = TRUE]
      ELSE IF ProbeDistance(home[entry.key], s.hole) < ProbeDistance(home[entry.key], candidate)
      THEN [s EXCEPT !.table[s.hole] = entry, !.hole = candidate,
                     !.moves = Append(@, [entry |-> entry, slot |-> s.hole])]
      ELSE s

RECURSIVE CloseHole(_, _, _)
CloseHole(home, s, candidate) ==
  IF s.closed THEN s ELSE CloseHole(home, Shift(home, s, candidate), (candidate + 1) % Capacity)

\* The table without the key, the value it had (0: the handle was stale and nothing
\* changed) and the entries that moved, whose owners are told their new slots.  The
\* shift ends because a table is never more than half full.
RemoveAtSlot(t, home, slot, key) ==
  IF slot \notin Positions \/ ~Occupied(t, slot) \/ t[slot].key # key
  THEN [table |-> t, value |-> 0, moves |-> <<>>]
  ELSE LET start == [table |-> t, hole |-> slot, closed |-> FALSE, moves |-> <<>>]
           done  == CloseHole(home, start, (slot + 1) % Capacity)
       IN  [table |-> done.table, value |-> t[slot].value, moves |-> done.moves]
=============================================================================
