----------------------------- MODULE MCStorage -----------------------------
(* An instance of Storage for TLC.  The probes of all ids start at the last *)
(* slot of the index or the first, so that clusters form and wrap around.   *)
EXTENDS Storage

CONSTANTS anyone, inst

MCHomes ==
  LET last == IndexCapacity - 1
  IN  {<<last, last, last>>, <<last, 0, last>>}

MCOffers ==
  {[side |-> "Buy", price |-> p, quantity |-> q] : p \in {1, 2}, q \in {1, 2}}
  \cup {[side |-> "Sell", price |-> 2, quantity |-> q] : q \in {1, 2}}

MCLimits == [a \in {1, 2} |->
  [max_quantity |-> 2, max_notional |-> 3, max_abs_position |-> 2, max_open_orders |-> 2,
   minimum_price |-> 1, maximum_price |-> 1]]

MCAsked == {[account |-> 1, side |-> "Buy", price |-> 1, quantity |-> 2],
            [account |-> 2, side |-> "Sell", price |-> 1, quantity |-> 1]}

MCRiskHomes == {[accounts |-> <<3, 3>>, orders |-> o] :
                  o \in {<<5, 0, 5, 5, 0>>, <<4, 5, 4, 0, 5>>}}
=============================================================================
