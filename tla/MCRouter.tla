------------------------------ MODULE MCRouter ------------------------------
(* Router for TLC. *)
EXTENDS Router

Route(i, s) == [instrument |-> i, shard |-> s]

\* A dense table, a sparse one and a dense one given in reverse, with foreign
\* instruments above, between and below; and two arrays that try_new refuses.
MCArrays ==
  {<<Route(1, 0), Route(2, 1)>>, <<Route(3, 0), Route(1, 1)>>, <<Route(3, 1), Route(2, 0)>>,
   <<Route(1, 0), Route(2, 0)>>, <<Route(1, 0), Route(1, 1)>>}
=============================================================================
