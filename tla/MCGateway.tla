----------------------------- MODULE MCGateway -----------------------------
(* Instances of Gateway for TLC: two accounts with the same limits and one  *)
(* that was never registered.                                               *)
EXTENDS Gateway, TLC

CONSTANTS a1, a2, a3, inst, other

LimitsUpTo(quantity) == [a \in {a1, a2} |->
  [max_quantity |-> quantity, max_notional |-> 3, max_abs_position |-> 3,
   max_open_orders |-> 2, minimum_price |-> 0, maximum_price |-> 3]]

MCLimits == LimitsUpTo(3)
MCRestoreLimits == LimitsUpTo(2)

Order(account, side, price, quantity, tif, instrument) ==
  [account |-> account, side |-> side, price |-> price, quantity |-> quantity, tif |-> tif,
   instrument |-> instrument]

\* Every combination of the valid inputs at two prices, orders at a third price,
\* so that levels run out, one that may sweep more makers than there are reports, and
\* one of each kind of invalid input.
MCNewOrders ==
  {Order(a, s, p, q, t, inst) : a \in {a1, a2}, s \in Sides, p \in {1, 2}, q \in {1, 2},
                                t \in TimesInForce}
  \cup UNION {{Order(a, "Sell", 1, 3, "Ioc", inst),
               Order(a, "Buy", 1, 0, "Gtc", inst), Order(a, "Buy", 1, 4, "Gtc", inst),
               Order(a, "Buy", 3, 1, "Gtc", inst), Order(a, "Sell", 3, 1, "Gtc", inst),
               Order(a, "Buy", 4, 1, "Gtc", inst), Order(a, "Buy", 0, 1, "Gtc", inst),
               Order(a3, "Buy", 1, 1, "Gtc", inst), Order(a, "Buy", 1, 1, "Gtc", other)} :
              a \in {a1, a2}}

MCCancels == {[account |-> a, instrument |-> i] : a \in {a1, a2}, i \in {inst, other}}

MCReplaces ==
  {[account |-> a, price |-> pq[1], quantity |-> pq[2], instrument |-> inst] :
     a \in {a1, a2}, pq \in ({1, 2} \X {1, 2, 3}) \cup {<<0, 1>>, <<1, 0>>, <<3, 1>>}}
  \cup {[account |-> a, price |-> 1, quantity |-> 1, instrument |-> other] : a \in {a1, a2}}

AccountSymmetry == Permutations({a1, a2})
=============================================================================
