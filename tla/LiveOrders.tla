----------------------------- MODULE LiveOrders -----------------------------
(***************************************************************************)
(* crates/hft-soak, events.rs and routed.rs: the check the soak harness    *)
(* makes of every batch of events, and the table of live orders it keeps   *)
(* from the events alone.  The table is a function from order ids; which   *)
(* of the code's slots an order is in shows nowhere but in the random      *)
(* choice of an order.  The fingerprint of the events is left out.         *)
(***************************************************************************)
EXTENDS Integers, Sequences, FiniteSets, FiniteSetsExt, SequencesExt, Functions

CONSTANTS TableSize     \* RISK_ORDERS, the slots of the table

Valid == "valid"
FirstError(checks) ==
  LET i == SelectInSeq(checks, LAMBDA check : check[1])
  IN  IF i = 0 THEN Valid ELSE checks[i][2]

-----------------------------------------------------------------------------
(* events.rs                                                               *)

IsTerminal(e) == e.kind \in {"Accepted", "Rejected", "Cancelled", "Replaced"}

EventErrors(batch, i, instrument, sequence) ==
  LET e      == batch[i]
      isTop  == e.kind = "TopOfBook"
      before == {j \in 1 .. i - 1 : batch[j].kind = "TopOfBook"}
  IN  << <<e.instrument # instrument, "WrongInstrument">>,
         <<e.sequence # sequence, "WrongSequence">>,
         <<e.ordinal # i - 1, "WrongOrdinal">>,
         <<IsTerminal(e) /\ i # 1, "TerminalNotFirst">>,
         <<e.kind = "Trade" /\ batch[1].kind # "Accepted", "UnexpectedTrade">>,
         <<isTop /\ batch[1].kind = "Rejected", "UnexpectedTopOfBook">>,
         <<isTop /\ before # {}, "DuplicateTopOfBook">>,
         <<isTop /\ i # Len(batch), "TopOfBookNotLast">> >>

ValidateBatch(batch, instrument, sequence) ==
  FirstError(
    << <<batch = <<>>, "EmptyBatch">> >>
      \o FlattenSeq([i \in DOMAIN batch |-> EventErrors(batch, i, instrument, sequence)])
      \o << <<Cardinality({i \in DOMAIN batch : IsTerminal(batch[i])}) # 1, "TerminalCount">> >>)

-----------------------------------------------------------------------------
(* routed.rs: a table `live' and the first thing found wrong with it       *)

NoOrders == [id \in {} |-> id]

\* top: the best price of a side with its total quantity and number of orders
Top(live, side) ==
  LET ids  == {id \in DOMAIN live : live[id].side = side}
      best == CHOOSE id \in ids : \A other \in ids :
                IF side = "Buy" THEN live[id].price >= live[other].price
                ELSE live[id].price <= live[other].price
      at   == {id \in ids : live[id].price = live[best].price}
  IN  IF ids = {} THEN <<>>
      ELSE <<live[best].price, MapThenSumSet(LAMBDA id : live[id].quantity, at),
             Cardinality(at)>>
BothTops(live) == <<Top(live, "Buy"), Top(live, "Sell")>>

Without(live, id) == Restrict(live, DOMAIN live \ {id})
Insert(live, id, order) == [i \in DOMAIN live \cup {id} |-> IF i = id THEN order ELSE live[i]]

\* apply_trades, for one event
ApplyTrade(acc, e, c) ==
  IF acc.error # Valid \/ e.kind # "Trade" THEN acc
  ELSE LET maker == acc.live[e.maker]
           error == IF c.type # "New" THEN "trade command kind"
                    ELSE IF e.taker # c.id \/ e.quantity = 0 THEN "trade taker or quantity"
                    ELSE IF e.maker \notin DOMAIN acc.live THEN "LiveOrders"
                    ELSE FirstError(<<
                      <<\/ maker.side = c.side \/ e.price # maker.price
                        \/ (IF c.side = "Buy" THEN e.price > c.price ELSE e.price < c.price),
                        "trade maker or price">>,
                      <<maker.quantity < e.quantity, "LiveOrders">> >>)
       IN  IF error # Valid THEN [acc EXCEPT !.error = error]
           ELSE [acc EXCEPT !.traded = @ + e.quantity,
                            !.live = IF maker.quantity = e.quantity THEN Without(@, e.maker)
                                     ELSE [@ EXCEPT ![e.maker].quantity = @ - e.quantity]]

ValidateAccepted(e, o, traded) ==
  FirstError(<<
    <<\/ o.quantity = 0 \/ e.filled + e.resting + e.discarded # o.quantity
      \/ e.filled # traded, "accepted quantity accounting">>,
    <<e.state # (IF e.filled = o.quantity THEN "Filled"
                 ELSE IF e.filled = 0 THEN "Accepted" ELSE "PartiallyFilled"),
      "accepted order state">>,
    <<~CASE o.tif = "Gtc" -> e.discarded = 0
         [] o.tif = "Ioc" -> e.resting = 0
         [] o.tif = "Fok" -> e.filled = o.quantity
         [] OTHER -> e.filled = 0 /\ e.resting = o.quantity, "accepted time in force">> >>)

\* The terminal event of the batch of the command c
AcceptedError(live, e, o, traded) ==
  IF ValidateAccepted(e, o, traded) # Valid THEN ValidateAccepted(e, o, traded)
  ELSE IF e.resting # 0 /\ (o.id \in DOMAIN live \/ Cardinality(DOMAIN live) = TableSize)
       THEN "LiveOrders" ELSE Valid

ReplacedError(live, e, r) ==
  LET old == live[e.order]
  IN  IF e.order \notin DOMAIN live THEN "LiveOrders"
      ELSE IF \/ old.account # e.account \/ old.quantity # e.old \/ r.quantity # e.new
              \/ r.price # e.price \/ e.new = 0
              \/ e.moved = (r.price = old.price /\ r.quantity < old.quantity)
           THEN "LiveOrders" ELSE Valid

CancelledError(live, e) ==
  IF e.order \notin DOMAIN live THEN "LiveOrders"
  ELSE IF live[e.order].account # e.account \/ live[e.order].quantity # e.quantity
       THEN "LiveOrders" ELSE Valid

TerminalError(live, e, c, traded) ==
  IF e.order # c.id \/ e.account # c.account
  THEN IF e.kind = "Rejected" THEN "rejected command identity" ELSE "LiveOrders"
  ELSE CASE e.kind = "Accepted" /\ c.type = "New"     -> AcceptedError(live, e, c, traded)
         [] e.kind = "Replaced" /\ c.type = "Replace" -> ReplacedError(live, e, c)
         [] e.kind = "Cancelled" /\ c.type = "Cancel" -> CancelledError(live, e)
         [] e.kind = "Rejected" ->
              IF e.command = c.type THEN Valid ELSE "rejected command identity"
         [] OTHER -> "LiveOrders"

AfterTerminal(live, e, c) ==
  CASE e.kind = "Accepted" /\ e.resting # 0 ->
         Insert(live, c.id, [account |-> c.account, price |-> c.price, quantity |-> e.resting,
                             side |-> c.side])
    [] e.kind = "Cancelled" -> Without(live, e.order)
    [] e.kind = "Replaced" -> [live EXCEPT ![e.order].quantity = e.new, ![e.order].price = e.price]
    [] OTHER -> live

\* A top-of-book event is last exactly when the table's own top changed, and says what to.
TopError(before, after, last) ==
  CASE last.kind = "TopOfBook" /\ before # after ->
         IF last.tops = after THEN Valid ELSE "top of book payload"
    [] last.kind = "TopOfBook" -> "unchanged top of book"
    [] OTHER -> IF before # after THEN "missing top of book" ELSE Valid

\* LiveOrders::apply
LiveApply(live, batch, c) ==
  LET invalid  == ValidateBatch(batch, c.instrument, c.sequence)
      traded   == FoldLeft(LAMBDA acc, e : ApplyTrade(acc, e, c),
                           [live |-> live, traded |-> 0, error |-> Valid], batch)
      terminal == TerminalError(traded.live, batch[1], c, traded.traded)
      after    == AfterTerminal(traded.live, batch[1], c)
      top      == TopError(BothTops(live), BothTops(after), batch[Len(batch)])
  IN  IF invalid # Valid THEN [live |-> live, error |-> invalid]
      ELSE IF traded.error # Valid THEN [live |-> traded.live, error |-> traded.error]
      ELSE IF terminal # Valid THEN [live |-> traded.live, error |-> terminal]
      ELSE [live |-> after, error |-> top]
=============================================================================
