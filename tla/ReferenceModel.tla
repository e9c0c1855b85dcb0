--------------------------- MODULE ReferenceModel ---------------------------
(***************************************************************************)
(* crates/hft-model: the naive engine the property tests compare a gateway *)
(* with, as operators on a model value.  It shares nothing with the book   *)
(* and the risk engine but the commands and the limits: a side is an       *)
(* unsorted vector of levels, a lookup is a search, and totals are kept as *)
(* the code keeps them.  It has no kill switch that anybody throws, no     *)
(* limit on the number of reservations, and trusts commands to be what     *)
(* CommandGen makes.                                                       *)
(***************************************************************************)
EXTENDS Gateway

\* ModelEngine::new with every account registered
NewModel ==
  [book |-> [side \in Sides |-> <<>>],
   accounts |-> [a \in Accounts |-> [settled |-> 0, buys |-> 0, sells |-> 0, open |-> 0]],
   reservations |-> [id \in {} |-> id], maximum |-> 0, next |-> 1]

\* Where a level with this price, or with this order, is in a vector of levels; 0 if nowhere
LevelAt(levels, price) == SelectInSeq(levels, LAMBDA l : l.price = price)
InQueue(queue, id) == SelectInSeq(queue, LAMBDA r : r.id = id)
FindIn(levels, id) == SelectInSeq(levels, LAMBDA l : InQueue(l.queue, id) # 0)

-----------------------------------------------------------------------------
(* ModelBook::plan and submit                                              *)

\* The prices that cross, best first
CrossingPrices(levels, o) ==
  LET prices == {levels[i].price : i \in DOMAIN levels}
  IN  SetToSortSeq({p \in prices : IF o.side = "Buy" THEN p <= o.price ELSE p >= o.price},
                   LAMBDA p, q : IF o.side = "Buy" THEN p < q ELSE p > q)

\* One resting order meets what is left of the taker.
TakeFront(acc, r, price) ==
  IF acc.left = 0 THEN [acc EXCEPT !.queue = Append(@, r)]
  ELSE LET traded == Least(acc.left, r.quantity)
       IN  [left  |-> acc.left - traded,
            fills |-> Append(acc.fills, [id |-> r.id, price |-> price, quantity |-> traded]),
            queue |-> IF r.quantity = traded THEN acc.queue
                      ELSE Append(acc.queue, [r EXCEPT !.quantity = @ - traded])]

\* A level is emptied from its front; an empty level is removed from the vector.
TakeLevel(acc, price) ==
  IF acc.left = 0 THEN acc
  ELSE LET i     == LevelAt(acc.levels, price)
           taken == FoldLeft(LAMBDA a, r : TakeFront(a, r, price),
                      [left |-> acc.left, fills |-> acc.fills, queue |-> <<>>],
                      acc.levels[i].queue)
       IN  [left |-> taken.left, fills |-> taken.fills,
            levels |-> IF taken.queue = <<>> THEN RemoveAt(acc.levels, i)
                       ELSE [acc.levels EXCEPT ![i].queue = taken.queue]]

ModelWalk(b, o) ==
  LET makers == b[Opposite(o.side)]
  IN  FoldLeft(TakeLevel, [left |-> o.quantity, fills |-> <<>>, levels |-> makers],
               CrossingPrices(makers, o))

ModelPlanReject(b, o) ==
  LET walk == ModelWalk(b, o)
      own  == b[o.side]
      at   == LevelAt(own, o.price)
      rest == o.tif \in {"Gtc", "PostOnly"} /\ walk.left > 0
  IN  FirstReject(<<
        <<o.price <= 0, "InvalidPrice">>,
        <<o.quantity = 0, "InvalidQuantity">>,
        <<\E side \in Sides : FindIn(b[side], o.id) # 0, "DuplicateOrderId">>,
        <<o.tif = "PostOnly" /\ CrossingPrices(b[Opposite(o.side)], o) # <<>>,
          "PostOnlyWouldTrade">>,
        <<Len(walk.fills) > Reports, "ReportCapacity">>,
        <<o.tif = "Fok" /\ walk.left > 0, "InsufficientLiquidity">>,
        <<rest /\ at # 0 /\ Len(own[at].queue) = OrdersPerLevel, "PriceLevelOrderCapacity">>,
        <<rest /\ at = 0 /\ Len(own) = Levels, "PriceLevelCapacity">> >>)

PushBack(levels, price, resting) ==
  LET i == LevelAt(levels, price)
  IN  IF i # 0 THEN [levels EXCEPT ![i].queue = Append(@, resting)]
      ELSE Append(levels, [price |-> price, queue |-> <<resting>>])

ModelSubmit(b, o, sequence) ==
  LET walk == ModelWalk(b, o)
      took == [b EXCEPT ![Opposite(o.side)] = walk.levels]
  IN  IF walk.left > 0 /\ o.tif \in {"Gtc", "PostOnly"}
      THEN [took EXCEPT ![o.side] = PushBack(@, o.price,
              [id |-> o.id, account |-> o.account, quantity |-> walk.left,
               sequence |-> sequence])]
      ELSE took

-----------------------------------------------------------------------------
(* ModelBook::replace and cancel                                           *)

HomeSide(b, id) == IF FindIn(b["Buy"], id) # 0 THEN "Buy" ELSE "Sell"
RowOf(b, id) ==
  LET levels == b[HomeSide(b, id)]
      i      == FindIn(levels, id)
      j      == InQueue(levels[i].queue, id)
  IN  [level |-> i, place |-> j, price |-> levels[i].price, order |-> levels[i].queue[j]]

Keeps(row, r) == r.price = row.price /\ r.quantity < row.order.quantity

ModelReplaceReject(b, r) ==
  LET side     == HomeSide(b, r.id)
      levels   == b[side]
      row      == RowOf(b, r.id)
      opposing == {b[Opposite(side)][i].price : i \in DOMAIN b[Opposite(side)]}
      best     == CHOOSE p \in opposing : \A q \in opposing : IF side = "Buy" THEN p <= q ELSE p >= q
      dest     == LevelAt(levels, r.price)
  IN  IF r.price <= 0 THEN "InvalidPrice"
      ELSE IF r.quantity = 0 THEN "InvalidQuantity"
      ELSE IF \A s \in Sides : FindIn(b[s], r.id) = 0 THEN "UnknownOrder"
      ELSE FirstReject(<<
        <<row.order.account # r.account, "NotOrderOwner">>,
        <<Keeps(row, r), Pass>>,
        <<r.price # row.price /\ opposing # {}
            /\ (IF side = "Buy" THEN r.price >= best ELSE r.price <= best), "ReplaceWouldCross">>,
        <<dest # 0 /\ dest # row.level /\ Len(levels[dest].queue) = OrdersPerLevel,
          "PriceLevelOrderCapacity">>,
        <<dest = 0 /\ Len(levels) = Levels /\ Len(levels[row.level].queue) # 1,
          "PriceLevelCapacity">> >>)

\* The order leaves its queue, and its level with it if nobody else is there.
Extract(levels, row) ==
  IF Len(levels[row.level].queue) = 1 THEN RemoveAt(levels, row.level)
  ELSE [levels EXCEPT ![row.level].queue = RemoveAt(@, row.place)]

ModelReplace(b, r, sequence) ==
  LET side == HomeSide(b, r.id)
      row  == RowOf(b, r.id)
  IN  IF Keeps(row, r)
      THEN [b EXCEPT ![side][row.level].queue[row.place].quantity = r.quantity]
      ELSE [b EXCEPT ![side] = PushBack(Extract(@, row), r.price,
              [id |-> r.id, account |-> r.account, quantity |-> r.quantity,
               sequence |-> sequence])]

ModelCancelReject(b, c) ==
  IF \A s \in Sides : FindIn(b[s], c.id) = 0 THEN "UnknownOrder"
  ELSE IF RowOf(b, c.id).order.account # c.account THEN "NotOrderOwner" ELSE Pass

ModelCancel(b, c) == [b EXCEPT ![HomeSide(b, c.id)] = Extract(@, RowOf(b, c.id))]

-----------------------------------------------------------------------------
(* The account side of ModelEngine                                         *)

Grow(account, side, delta) ==
  [account EXCEPT !.buys = @ + (IF side = "Buy" THEN delta ELSE 0),
                  !.sells = @ + (IF side = "Sell" THEN delta ELSE 0)]

Beyond(account, limit) ==
  account.settled + account.buys > limit \/ account.settled - account.sells < -limit

EvaluateLimits(account, o) ==
  LET limits == Limits[o.account]
  IN  FirstReject(<<
        <<o.quantity > limits.max_quantity, "QuantityLimit">>,
        <<o.price < limits.minimum_price \/ o.price > limits.maximum_price, "PriceCollar">>,
        <<Abs(o.price) * o.quantity > limits.max_notional, "NotionalLimit">>,
        <<Beyond(Grow(account, o.side, o.quantity), limits.max_abs_position), "PositionLimit">>,
        <<account.open + 1 > limits.max_open_orders, "OpenOrderLimit">> >>)

ModelReserve(m, o) ==
  [m EXCEPT
     !.accounts[o.account] = [Grow(@, o.side, o.quantity) EXCEPT !.open = @ + 1],
     !.reservations = [id \in DOMAIN @ \cup {o.id} |->
        IF id = o.id THEN [account |-> o.account, side |-> o.side, quantity |-> o.quantity]
        ELSE @[id]]]

\* release
ModelRelease(m, id) ==
  LET res == m.reservations[id]
  IN  [m EXCEPT !.accounts[res.account] = [Grow(@, res.side, -res.quantity) EXCEPT !.open = @ - 1],
                !.reservations = Restrict(@, DOMAIN @ \ {id})]

\* record_fill
ModelRecordFill(m, id, traded) ==
  LET res   == m.reservations[id]
      moved == [m EXCEPT
                  !.accounts[res.account] = [Grow(@, res.side, -traded) EXCEPT
                     !.settled = IF res.side = "Buy" THEN @ + traded ELSE @ - traded],
                  !.reservations[id].quantity = @ - traded]
  IN  IF traded < res.quantity THEN moved
      ELSE [moved EXCEPT !.accounts[res.account].open = @ - 1,
                         !.reservations = Restrict(@, DOMAIN @ \ {id})]

\* adjust_reservation: an increase is added to the totals before the limits are looked at
\* and, unlike the reservation, stays there when they refuse it.
ModelAdjust(m, r) ==
  LET res   == m.reservations[r.id]
      limit == Limits[res.account]
      grown == [m EXCEPT !.accounts[res.account] = Grow(@, res.side, r.quantity - res.quantity)]
      why   == IF r.quantity <= res.quantity THEN Pass
               ELSE FirstReject(<<
                 <<Abs(r.price) * r.quantity > limit.max_notional, "NotionalLimit">>,
                 <<Beyond(grown.accounts[res.account], limit.max_abs_position),
                   "PositionLimit">> >>)
  IN  [model |-> IF why = Pass THEN [grown EXCEPT !.reservations[r.id].quantity = r.quantity]
                 ELSE grown,
       why |-> why]

\* restore_reservation
ModelRestore(m, id, prior) ==
  [m EXCEPT !.accounts[m.reservations[id].account] =
              Grow(@, m.reservations[id].side, prior - m.reservations[id].quantity),
            !.reservations[id].quantity = prior]

-----------------------------------------------------------------------------
(* apply_new, apply_replace and apply_cancel: the model afterwards and what *)
(* it answers, in the terms of the gateway's result.                        *)

Answer(m, verdict) == [model |-> [m EXCEPT !.next = @ + 1], verdict |-> verdict]
Refusal(layer, why) == [NoResult EXCEPT !.kind = layer, !.why = why]

ModelSettle(m, o, walk) ==
  LET filled == FoldLeft(LAMBDA acc, f : ModelRecordFill(ModelRecordFill(acc, f.id, f.quantity),
                                                         o.id, f.quantity),
                         m, walk.fills)
  IN  IF walk.left > 0 /\ o.tif \notin {"Gtc", "PostOnly"} THEN ModelRelease(filled, o.id)
      ELSE filled

ApplyNew(m, o) ==
  LET known    == [m EXCEPT !.maximum = o.id]
      limits   == IF o.account \in Accounts THEN EvaluateLimits(m.accounts[o.account], o)
                  ELSE "UnknownAccount"
      reserved == ModelReserve(known, o)
      refused  == IF o.instrument # Instrument THEN "InvalidInstrument"
                  ELSE ModelPlanReject(m.book, o)
      walk     == ModelWalk(m.book, o)
      rests    == IF o.tif \in {"Gtc", "PostOnly"} THEN walk.left ELSE 0
  IN  IF o.id <= m.maximum THEN Answer(m, Refusal("Risk", "DuplicateOrderId"))
      ELSE IF limits # Pass THEN Answer(known, Refusal("Risk", limits))
      ELSE IF refused # Pass THEN Answer(ModelRelease(reserved, o.id), Refusal("Book", refused))
      ELSE Answer([ModelSettle(reserved, o, walk) EXCEPT !.book = ModelSubmit(@, o, m.next)],
             [NoResult EXCEPT !.kind = "Accepted", !.order = o.id, !.reports = walk.fills,
                !.filled = o.quantity - walk.left, !.resting = rests,
                !.discarded = IF o.tif = "Ioc" THEN walk.left ELSE 0])

ModelOwnedReject(m, c) ==
  IF c.id \notin DOMAIN m.reservations THEN "UnknownOrder"
  ELSE IF m.reservations[c.id].account # c.account THEN "NotOrderOwner" ELSE Pass

ApplyReplace(m, r) ==
  LET owned    == ModelOwnedReject(m, r)
      adjusted == ModelAdjust(m, r)
      refused  == IF r.instrument # Instrument THEN "InvalidInstrument"
                  ELSE ModelReplaceReject(m.book, r)
      row      == RowOf(m.book, r.id)
  IN  IF owned # Pass THEN Answer(m, Refusal("Risk", owned))
      ELSE IF adjusted.why # Pass THEN Answer(adjusted.model, Refusal("Risk", adjusted.why))
      ELSE IF refused # Pass
           THEN Answer(ModelRestore(adjusted.model, r.id, m.reservations[r.id].quantity),
                       Refusal("Book", refused))
      ELSE Answer([adjusted.model EXCEPT !.book = ModelReplace(@, r, m.next)],
             [NoResult EXCEPT !.kind = "Replaced", !.order = r.id, !.resting = r.quantity,
                !.old = row.order.quantity, !.price = r.price, !.moved = ~Keeps(row, r)])

ApplyCancel(m, c) ==
  LET owned   == ModelOwnedReject(m, c)
      refused == ModelCancelReject(m.book, c)
  IN  IF c.instrument # Instrument THEN Answer(m, Refusal("Book", "InvalidInstrument"))
      ELSE IF owned # Pass THEN Answer(m, Refusal("Risk", owned))
      ELSE IF refused # Pass THEN Answer(m, Refusal("Book", refused))
      ELSE Answer([ModelRelease(m, c.id) EXCEPT !.book = ModelCancel(@, c)],
             [NoResult EXCEPT !.kind = "Cancelled", !.order = c.id,
                              !.discarded = RowOf(m.book, c.id).order.quantity])

ModelApply(m, c) ==
  CASE c.type = "New" -> ApplyNew(m, c)
    [] c.type = "Replace" -> ApplyReplace(m, c)
    [] OTHER -> ApplyCancel(m, c)

-----------------------------------------------------------------------------
\* assert_consistent
ModelTotals(m, a, side) ==
  MapThenSumSet(LAMBDA id : m.reservations[id].quantity,
    {id \in DOMAIN m.reservations : m.reservations[id].account = a /\ m.reservations[id].side = side})
ModelConsistent(m) ==
  /\ \A a \in Accounts :
       /\ m.accounts[a].buys = ModelTotals(m, a, "Buy")
       /\ m.accounts[a].sells = ModelTotals(m, a, "Sell")
       /\ m.accounts[a].open =
            Cardinality({id \in DOMAIN m.reservations : m.reservations[id].account = a})
  /\ \A id \in DOMAIN m.reservations : m.reservations[id].quantity > 0
  /\ \A side \in Sides : \A i \in DOMAIN m.book[side] : \A j \in DOMAIN m.book[side][i].queue :
       LET row == m.book[side][i].queue[j]
       IN  /\ row.id \in DOMAIN m.reservations
           /\ m.reservations[row.id] =
                [account |-> row.account, side |-> side, quantity |-> row.quantity]

\* dump_model, keeping the owner
ModelDump(m, side, p) ==
  LET i == LevelAt(m.book[side], p)
  IN  IF i = 0 THEN <<>> ELSE m.book[side][i].queue
=============================================================================
