-------------------------------- MODULE Risk --------------------------------
(***************************************************************************)
(* crates/hft-risk: pre-trade limits, reservations and positions, as       *)
(* operators on a risk value with the fields accounts, reservations,       *)
(* maximum_order_id and killed.  An order reserves its quantity when it is *)
(* accepted; a fill turns reserved into settled quantity, and what remains *)
(* is released when the order ends.  The 128-bit sums cannot overflow      *)
(* because the position limit is a 64-bit number, so the arithmetic        *)
(* refusals are left out, except the subtractions that a wrong account     *)
(* would underflow.                                                        *)
(***************************************************************************)
EXTENDS Integers, FiniteSets, FiniteSetsExt, Functions

CONSTANTS
  Accounts,     \* the registered accounts
  Limits,       \* their limits, a record for each account
  RiskOrders    \* RISK_ORDERS, the capacity for reservations

ASSUME RiskAssumption ==
  /\ IsFiniteSet(Accounts) /\ RiskOrders \in Nat
  /\ Limits \in [Accounts -> [max_quantity : Nat \ {0}, max_notional : Nat,
                              max_abs_position : Nat, max_open_orders : Nat \ {0},
                              minimum_price : Int, maximum_price : Int]]

Account == [settled : Int, buys : Nat, sells : Nat, open : Nat, killed : BOOLEAN]

\* register_account for each account, with the kill switches as they were left
NewRisk(killed, killedAccounts) ==
  [accounts |-> [a \in Accounts |-> [settled |-> 0, buys |-> 0, sells |-> 0, open |-> 0,
                                     killed |-> a \in killedAccounts]],
   reservations |-> [id \in {} |-> id], maximum_order_id |-> 0, killed |-> killed]

Live(r) == DOMAIN r.reservations
Abs(n) == IF n < 0 THEN -n ELSE n

\* The worst position either way if every reservation on one side fills.
WithinPosition(a, settled, buys, sells) ==
  /\ settled + buys <= Limits[a].max_abs_position
  /\ settled - sells >= -Limits[a].max_abs_position

\* The reserved total of one side changes by `delta'.
Reserved(account, side, delta) ==
  IF side = "Buy" THEN [account EXCEPT !.buys = @ + delta]
                  ELSE [account EXCEPT !.sells = @ + delta]
\* ... and the number of open orders by `n'
Opened(account, n) == [account EXCEPT !.open = @ + n]
SideTotal(account, side) == IF side = "Buy" THEN account.buys ELSE account.sells

-----------------------------------------------------------------------------
(* check_and_reserve                                                       *)

\* evaluate_limits
LimitRejects(account, o) ==
  LET limits == Limits[o.account]
      after  == Reserved(account, o.side, o.quantity)
  IN  << <<account.killed, "KillSwitch">>,
         <<o.quantity > limits.max_quantity, "QuantityLimit">>,
         <<o.price < limits.minimum_price \/ o.price > limits.maximum_price, "PriceCollar">>,
         <<Abs(o.price) * o.quantity > limits.max_notional, "NotionalLimit">>,
         <<~WithinPosition(o.account, account.settled, after.buys, after.sells),
           "PositionLimit">>,
         <<account.open + 1 > limits.max_open_orders, "OpenOrderLimit">> >>

\* The checks before the account is looked at
ReserveRejects(r, o) ==
  << <<r.killed, "KillSwitch">>,
     <<o.quantity = 0, "InvalidQuantity">>,
     <<o.id <= r.maximum_order_id, "DuplicateOrderId">>,
     <<Cardinality(Live(r)) >= RiskOrders, "OrderCapacity">>,
     <<o.account \notin Accounts, "UnknownAccount">> >>

Reserve(r, o) ==
  [r EXCEPT
     !.accounts[o.account] = Opened(Reserved(@, o.side, o.quantity), 1),
     !.reservations = [id \in Live(r) \cup {o.id} |->
       IF id = o.id THEN [account |-> o.account, side |-> o.side, quantity |-> o.quantity]
       ELSE r.reservations[id]],
     !.maximum_order_id = o.id]

-----------------------------------------------------------------------------
(* Fills and releases.  These report failure (a state error) when the      *)
(* reservation is not there or an account would underflow.                 *)

Release(r, id) == [r EXCEPT !.reservations = Restrict(@, Live(r) \ {id})]

\* exposure_after_fill
Exposure(account, side, filled, released) ==
  [Reserved(account, side, -released) EXCEPT
     !.settled = IF side = "Buy" THEN @ + filled ELSE @ - filled]

\* settle(id, 0): the whole reservation is released, nothing was filled
CanSettle(r, id) ==
  /\ id \in Live(r)
  /\ LET res == r.reservations[id]
     IN  /\ SideTotal(r.accounts[res.account], res.side) >= res.quantity
         /\ r.accounts[res.account].open >= 1
Settle(r, id) ==
  LET res == r.reservations[id]
  IN  Release([r EXCEPT !.accounts[res.account] =
                 Opened(Exposure(@, res.side, 0, res.quantity), -1)], id)

CanRecordFill(r, id, filled) ==
  /\ filled > 0 /\ id \in Live(r)
  /\ LET res == r.reservations[id]
     IN  /\ filled <= res.quantity
         /\ SideTotal(r.accounts[res.account], res.side) >= filled
         /\ filled = res.quantity => r.accounts[res.account].open >= 1

RecordFill(r, id, filled) ==
  LET res  == r.reservations[id]
      full == filled = res.quantity
      paid == [r EXCEPT !.accounts[res.account] =
                 Opened(Exposure(@, res.side, filled, filled), IF full THEN -1 ELSE 0)]
  IN  IF full THEN Release(paid, id)
      ELSE [paid EXCEPT !.reservations[id].quantity = @ - filled]

-----------------------------------------------------------------------------
(* adjust_reservation, restore_reservation, can_cancel                     *)

OwnedRejects(r, id, account) ==
  << <<id \notin Live(r), "UnknownOrder">>,
     <<id \in Live(r) /\ r.reservations[id].account # account, "NotOrderOwner">> >>

\* Only an increase is measured against the notional and position limits.
AdjustRejects(r, id, price, quantity) ==
  LET res     == r.reservations[id]
      account == r.accounts[res.account]
      after   == Reserved(account, res.side, quantity - res.quantity)
      grows   == quantity > res.quantity
  IN  << <<grows /\ Abs(price) * quantity > Limits[res.account].max_notional,
           "NotionalLimit">>,
         <<grows /\ ~WithinPosition(res.account, account.settled, after.buys, after.sells),
           "PositionLimit">> >>

SetReservation(r, id, quantity) ==
  LET res == r.reservations[id]
  IN  [r EXCEPT !.accounts[res.account] = Reserved(@, res.side, quantity - res.quantity),
                !.reservations[id].quantity = quantity]

-----------------------------------------------------------------------------
(* from_state: what validate_state accepts                                 *)
SumOver(f, S) == MapThenSumSet(LAMBDA x : f[x], S)
Quantities(r) == [id \in Live(r) |-> r.reservations[id].quantity]
ReservedBy(r, a, side) ==
  SumOver(Quantities(r),
    {id \in Live(r) : r.reservations[id].account = a /\ r.reservations[id].side = side})
OpenOf(r, a) == Cardinality({id \in Live(r) : r.reservations[id].account = a})

AccountValid(r, a) ==
  LET account == r.accounts[a]
  IN  /\ account.buys = ReservedBy(r, a, "Buy")
      /\ account.sells = ReservedBy(r, a, "Sell")
      /\ account.open = OpenOf(r, a) /\ account.open <= Limits[a].max_open_orders
      /\ WithinPosition(a, account.settled, account.buys, account.sells)

RiskStateValid(r) ==
  /\ Cardinality(Live(r)) <= RiskOrders
  /\ \A id \in Live(r) :
       /\ r.reservations[id].quantity > 0
       /\ id <= r.maximum_order_id
       /\ r.reservations[id].account \in Accounts
  /\ \A a \in Accounts : AccountValid(r, a)
=============================================================================
