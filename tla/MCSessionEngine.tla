-------------------------- MODULE MCSessionEngine --------------------------
(* SessionEngine for TLC: two shards and an instrument without a route.     *)
EXTENDS SessionEngine

CONSTANTS s1, s2, i1, i2, i3

MCRoute == [i \in {i1, i2} |-> IF i = i1 THEN s1 ELSE s2]
=============================================================================
