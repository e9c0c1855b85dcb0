----------------------------- MODULE MCRecovery -----------------------------
(* Recovery for TLC: two accounts and a handful of commands that rest at    *)
(* several levels of both sides, trade, move and leave.                     *)
EXTENDS Recovery

MCLimits == [a \in {1, 2} |->
  [max_quantity |-> 2, max_notional |-> 4 + a, max_abs_position |-> 4, max_open_orders |-> 2,
   minimum_price |-> 1, maximum_price |-> 2]]

Order(a, s, p, q, t) ==
  [account |-> a, side |-> s, price |-> p, quantity |-> q, tif |-> t, instrument |-> 9]

MCNewOrders ==
  {Order(1, "Buy", 1, 1, "Gtc"), Order(1, "Buy", 2, 2, "Gtc"), Order(2, "Sell", 2, 1, "Gtc")}

MCCancels == {[account |-> 1, instrument |-> 9]}

MCReplaces == {[account |-> 1, price |-> 1, quantity |-> 3, instrument |-> 9]}
=============================================================================
