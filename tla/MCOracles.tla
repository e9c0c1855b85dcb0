----------------------------- MODULE MCOracles -----------------------------
(* Oracles for TLC: two accounts of which one trades at both prices.        *)
EXTENDS Oracles

CONSTANTS a1, a2, inst

MCLimits == [a \in {a1, a2} |->
  [max_quantity |-> 3, max_notional |-> 4, max_abs_position |-> 4, max_open_orders |-> 3,
   minimum_price |-> 1, maximum_price |-> 2]]

Order(a, s, p, q, t) ==
  [account |-> a, side |-> s, price |-> p, quantity |-> q, tif |-> t, instrument |-> inst]

\* Resting orders at two prices that cross or not, and immediate ones large enough
\* to take several.
MCNewOrders ==
  {Order(a1, "Buy", 1, 1, "Gtc"), Order(a1, "Buy", 2, 2, "Gtc"), Order(a1, "Buy", 2, 1, "Gtc"),
   Order(a1, "Sell", 2, 1, "Gtc"), Order(a1, "Sell", 1, 2, "Gtc"),
   Order(a2, "Sell", 1, 3, "Ioc"), Order(a1, "Buy", 2, 3, "Ioc"),
   Order(a2, "Buy", 2, 2, "Fok"), Order(a2, "Sell", 2, 1, "PostOnly")}

MCCancels == {[account |-> a, instrument |-> inst] : a \in {a1, a2}}

MCReplaces ==
  {[account |-> a, price |-> p, quantity |-> q, instrument |-> inst] :
     a \in {a1}, p \in {1, 2}, q \in {1, 3}}
=============================================================================
