-------------------------------- MODULE Book --------------------------------
(***************************************************************************)
(* crates/hft-book: the price-time book of one instrument, as operators on *)
(* a book value.  A book maps a side and a price to the FIFO of the orders *)
(* resting there; a level exists while its FIFO is not empty.  The slots,  *)
(* free lists and hash index that implement this are left to other         *)
(* modules; here a lookup finds the order that is there.                   *)
(***************************************************************************)
EXTENDS Integers, Sequences, FiniteSets, SequencesExt

CONSTANTS
  Prices,           \* the prices a level may have, all positive
  Levels,           \* LEVELS, per side
  OrdersPerLevel,   \* ORDERS_PER_LEVEL
  Reports,          \* REPORTS, the capacity of the report buffer
  Instrument        \* the book's instrument

ASSUME BookAssumption ==
  /\ Prices \subseteq Nat \ {0} /\ IsFiniteSet(Prices)
  /\ Levels \in Nat \ {0} /\ OrdersPerLevel \in Nat \ {0}
  /\ Reports \in Nat

Sides == {"Buy", "Sell"}
TimesInForce == {"Gtc", "Ioc", "Fok", "PostOnly"}
Opposite(side) == IF side = "Buy" THEN "Sell" ELSE "Buy"

\* The reason of the first check that fails, in the order the code makes them.
Pass == "pass"
FirstReject(checks) ==
  LET i == SelectInSeq(checks, LAMBDA check : check[1])
  IN  IF i = 0 THEN Pass ELSE checks[i][2]

EmptyBook == [side \in Sides |-> [p \in Prices |-> <<>>]]

LevelPrices(b, side) == {p \in Prices : b[side][p] # <<>>}
Better(side, p, q) == IF side = "Buy" THEN p > q ELSE p < q

\* The order of LevelIndex, best price first.
PriceOrder == [side \in Sides |-> SetToSortSeq(Prices, LAMBDA p, q : Better(side, p, q))]
BestFirst(b, side) == SelectSeq(PriceOrder[side], LAMBDA p : b[side][p] # <<>>)

\* Its first entry
Best(b, side) ==
  CHOOSE p \in LevelPrices(b, side) : \A q \in LevelPrices(b, side) \ {p} : Better(side, p, q)

\* top_level: the best price with the total quantity and number of its orders
Total(level) ==
  LET sum[n \in 0 .. Len(level)] == IF n = 0 THEN 0 ELSE sum[n - 1] + level[n].quantity
  IN  sum[Len(level)]
TopLevel(b, side) ==
  IF LevelPrices(b, side) = {} THEN <<>>
  ELSE LET level == b[side][Best(b, side)]
       IN  <<Best(b, side), Total(level), Len(level)>>

\* A taker on `side' with limit `limit' trades at a maker's price.
Crosses(side, limit, price) == IF side = "Buy" THEN price <= limit ELSE price >= limit
BestCrosses(b, side, limit) ==
  /\ LevelPrices(b, Opposite(side)) # {}
  /\ Crosses(side, limit, Best(b, Opposite(side)))

\* The resting orders with their side and price, and the one with a given id.
RestingOrders(b) ==
  {at \in Sides \X Prices \X (1 .. OrdersPerLevel) : at[3] \in DOMAIN b[at[1]][at[2]]}
Located(b, id) == {at \in RestingOrders(b) : b[at[1]][at[2]][at[3]].id = id}
Locate(b, id) == CHOOSE at \in Located(b, id) : TRUE
OrderAt(b, at) == b[at[1]][at[2]][at[3]]

-----------------------------------------------------------------------------
(* Submission.                                                             *)

\* validate_order
OrderReject(b, o) ==
  FirstReject(<<
    <<o.instrument # Instrument, "InvalidInstrument">>,
    <<o.price <= 0, "InvalidPrice">>,
    <<o.quantity = 0, "InvalidQuantity">>,
    <<Located(b, o.id) # {}, "DuplicateOrderId">>,
    <<o.tif = "PostOnly" /\ BestCrosses(b, o.side, o.price), "PostOnlyWouldTrade">> >>)

\* The makers that cross, in the order of the walk: best level first, each from its head.
\* The i-th has i - 1 ahead of it.
Ahead(x, y) == Better(x[1], x[2], y[2]) \/ (x[2] = y[2] /\ x[3] < y[3])
Crossing(b, o) ==
  {at \in RestingOrders(b) : at[1] = Opposite(o.side) /\ Crosses(o.side, o.price, at[2])}
Makers(b, o) ==
  [i \in 1 .. Cardinality(Crossing(b, o)) |->
     CHOOSE at \in Crossing(b, o) :
       Cardinality({x \in Crossing(b, o) : Ahead(x, at)}) = i - 1]

Least(m, n) == IF m < n THEN m ELSE n
Fill(b, at, quantity) == [id |-> OrderAt(b, at).id, price |-> at[2], quantity |-> quantity]

\* What is left of a quantity after each of the first makers
LeftAfter(b, makers, quantity) ==
  LET left[i \in 0 .. Len(makers)] ==
        IF i = 0 THEN quantity
        ELSE left[i - 1] - Least(left[i - 1], OrderAt(b, makers[i]).quantity)
  IN  left

\* Faulty variant: a level is walked from its tail.
PlanFillsBackwards(b, o) ==
  LET makers == Reverse(Makers(b, o))
      left   == LeftAfter(b, makers, o.quantity)
      used   == Cardinality({i \in DOMAIN makers : left[i - 1] > 0})
  IN  [i \in 1 .. used |->
         Fill(b, makers[i], Least(left[i - 1], OrderAt(b, makers[i]).quantity))]

\* The walk of build_plan: each maker in turn, until nothing remains.
PlanFills(b, o) ==
  LET makers == Makers(b, o)
      left   == LeftAfter(b, makers, o.quantity)
      used   == Cardinality({i \in DOMAIN makers : left[i - 1] > 0})
  IN  [i \in 1 .. used |->
         Fill(b, makers[i], Least(left[i - 1], OrderAt(b, makers[i]).quantity))]

\* Faulty variant: the fast path does not ask whether the first maker is large enough.
TakesSingleFillAlways(b, o) == BestCrosses(b, o.side, o.price)

\* try_single_fill: the first maker alone can fill the whole taker
BestMaker(b, o) == <<Opposite(o.side), Best(b, Opposite(o.side)), 1>>
TakesSingleFill(b, o) ==
  /\ BestCrosses(b, o.side, o.price)
  /\ OrderAt(b, BestMaker(b, o)).quantity >= o.quantity
SingleFill(b, o) == <<Fill(b, BestMaker(b, o), o.quantity)>>

Fills(b, o) == IF TakesSingleFill(b, o) THEN SingleFill(b, o) ELSE PlanFills(b, o)
Remaining(b, o) == o.quantity - Total(Fills(b, o))

\* Room for one more order at a price, against the unchanged book
RestReject(b, side, price) ==
  FirstReject(<<
    <<price \in LevelPrices(b, side) /\ Len(b[side][price]) = OrdersPerLevel,
      "PriceLevelOrderCapacity">>,
    <<price \notin LevelPrices(b, side) /\ Cardinality(LevelPrices(b, side)) = Levels,
      "PriceLevelCapacity">> >>)

\* ReportBuffer, cleared before every command, has a slot for each report
ReportsFit(fills) == Len(fills) <= Reports

\* submit up to the first mutation: every refusal is decided here
SubmitReject(b, o) ==
  IF OrderReject(b, o) # Pass THEN OrderReject(b, o)
  ELSE LET left == Remaining(b, o)
       IN  FirstReject(<<
             <<~ReportsFit(Fills(b, o)), "ReportCapacity">>,
             <<o.tif = "Fok" /\ left > 0, "InsufficientLiquidity">>,
             <<o.tif \in {"Gtc", "PostOnly"} /\ left > 0
                 /\ RestReject(b, o.side, o.price) # Pass, RestReject(b, o.side, o.price)>> >>)

\* What is left of an order that may rest, and of one that may not
RestingQuantity(b, o) == IF o.tif \in {"Gtc", "PostOnly"} THEN Remaining(b, o) ELSE 0
Discarded(b, o) == IF o.tif = "Ioc" THEN Remaining(b, o) ELSE 0

\* MatchSummary's state
OrderState(filled, quantity) ==
  IF filled = quantity THEN "Filled" ELSE IF filled = 0 THEN "Accepted" ELSE "PartiallyFilled"

\* Unlinking keeps the order of the peers; a level that empties disappears.
Unlink(b, at) == [b EXCEPT ![at[1]][at[2]] = RemoveAt(@, at[3])]
Resize(b, at, quantity) == [b EXCEPT ![at[1]][at[2]][at[3]].quantity = quantity]

\* apply_plan: each maker in turn is removed when it is filled, else reduced
FillMaker(b, fill) ==
  LET at    == Locate(b, fill.id)
      maker == OrderAt(b, at)
  IN  IF maker.quantity = fill.quantity THEN Unlink(b, at)
      ELSE Resize(b, at, maker.quantity - fill.quantity)
ApplyFills(b, fills) ==
  LET after[i \in 0 .. Len(fills)] ==
        IF i = 0 THEN b ELSE FillMaker(after[i - 1], fills[i])
  IN  after[Len(fills)]

RestAtTail(b, side, price, resting) == [b EXCEPT ![side][price] = Append(@, resting)]

\* submit_plan and try_single_fill after the last refusal
SubmitBook(b, o, sequence) ==
  LET filled == ApplyFills(b, Fills(b, o))
  IN  IF RestingQuantity(b, o) = 0 THEN filled
      ELSE RestAtTail(filled, o.side, o.price,
             [id |-> o.id, account |-> o.account, quantity |-> RestingQuantity(b, o),
              sequence |-> sequence])

-----------------------------------------------------------------------------
(* Cancellation and replacement of the order `id' by `account'.            *)

OwnerReject(b, id, account, instrument) ==
  FirstReject(<<
    <<instrument # Instrument, "InvalidInstrument">>,
    <<Located(b, id) = {}, "UnknownOrder">>,
    <<\E at \in Located(b, id) : OrderAt(b, at).account # account, "NotOrderOwner">> >>)

CancelReject(b, c) == OwnerReject(b, c.id, c.account, c.instrument)
CancelledQuantity(b, c) == OrderAt(b, Locate(b, c.id)).quantity
CancelBook(b, c) == Unlink(b, Locate(b, c.id))

\* Faulty variant: an order may grow without losing its place.
KeepsPriorityGrowing(b, r) == r.price = Locate(b, r.id)[2]

\* A pure reduction at the same price keeps its place.
KeepsPriority(b, r) ==
  /\ r.price = Locate(b, r.id)[2]
  /\ r.quantity < OrderAt(b, Locate(b, r.id)).quantity

\* The rest of replace's refusals, when priority is lost: a repriced order may not
\* cross, and must fit where it goes once it has left where it was.
MoveReject(b, r) ==
  LET at    == Locate(b, r.id)
      level == b[at[1]][at[2]]
  IN  FirstReject(<<
        <<r.price # at[2] /\ BestCrosses(b, at[1], r.price), "ReplaceWouldCross">>,
        <<r.price \in LevelPrices(b, at[1]) /\ r.price # at[2]
            /\ Len(b[at[1]][r.price]) = OrdersPerLevel, "PriceLevelOrderCapacity">>,
        <<r.price \notin LevelPrices(b, at[1]) /\ Len(level) # 1
            /\ Cardinality(LevelPrices(b, at[1])) = Levels, "PriceLevelCapacity">> >>)

ReplaceReject(b, r) ==
  LET owner == OwnerReject(b, r.id, r.account, r.instrument)
  IN  IF owner # Pass THEN owner
      ELSE IF r.price <= 0 THEN "InvalidPrice"
      ELSE IF r.quantity = 0 THEN "InvalidQuantity"
      ELSE IF KeepsPriority(b, r) THEN Pass ELSE MoveReject(b, r)

ReplaceBook(b, r, sequence) ==
  LET at == Locate(b, r.id)
  IN  IF KeepsPriority(b, r)
      THEN Resize(b, at, r.quantity)
      ELSE RestAtTail(Unlink(b, at), at[1], r.price,
             [id |-> r.id, account |-> r.account, quantity |-> r.quantity,
              sequence |-> sequence])

-----------------------------------------------------------------------------
(* from_state: what validate_state accepts.  Levels of one side are sorted *)
(* and hold one side only in every book value, so those checks are not     *)
(* repeated.                                                               *)
SideValid(b, side) ==
  /\ Cardinality(LevelPrices(b, side)) <= Levels
  /\ \A p \in LevelPrices(b, side) :
       /\ Len(b[side][p]) <= OrdersPerLevel
       /\ \A i \in DOMAIN b[side][p] :
            b[side][p][i].quantity > 0 /\ b[side][p][i].sequence > 0
       /\ \A i, j \in DOMAIN b[side][p] :
            i < j => b[side][p][i].sequence < b[side][p][j].sequence

Uncrossed(b) ==
  \A bid \in LevelPrices(b, "Buy"), ask \in LevelPrices(b, "Sell") : bid < ask

UniqueIds(b) ==
  \A x, y \in RestingOrders(b) :
    x # y => /\ OrderAt(b, x).id # OrderAt(b, y).id
             /\ OrderAt(b, x).sequence # OrderAt(b, y).sequence

BookStateValid(b) == SideValid(b, "Buy") /\ SideValid(b, "Sell") /\ Uncrossed(b) /\ UniqueIds(b)
=============================================================================
