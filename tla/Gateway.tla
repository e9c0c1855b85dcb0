------------------------------- MODULE Gateway -------------------------------
(***************************************************************************)
(* crates/hft-gateway: one command is sequenced, checked by Risk, applied  *)
(* to the Book and settled with Risk again.  A gateway is driven by one    *)
(* thread and a command is applied as a whole, so a command is one step;   *)
(* what matters is what that step leaves behind when it is refused half    *)
(* way, and what long sequences of commands lead to.                       *)
(*                                                                         *)
(* Instruments, accounts and prices of a command are chosen from small     *)
(* sets.  The first order id is 1, so 0 stands for no watermark.           *)
(***************************************************************************)
EXTENDS Book, Risk

CONSTANTS
  NewOrders,    \* [account, side, price, quantity, tif, instrument] to try
  Cancels,      \* [account, instrument] to try
  Replaces,     \* [account, price, quantity, instrument] to try
  KillSets,     \* the sets of accounts that may have been killed at start
  MaxId,        \* bound: order ids
  MaxSeq        \* u64::MAX, scaled down

ASSUME GatewayAssumption == MaxId \in Nat /\ MaxSeq \in Nat \ {0}

\* The fields are those of NewOrder, ReplaceOrder and CancelOrder; Prices holds every
\* valid price that is tried.
ASSUME CommandAssumption ==
  /\ \A o \in NewOrders :
       /\ DOMAIN o = {"account", "side", "price", "quantity", "tif", "instrument"}
       /\ o.side \in Sides /\ o.tif \in TimesInForce
       /\ o.quantity \in Nat /\ o.price \in Int /\ (o.price > 0 => o.price \in Prices)
  /\ \A r \in Replaces :
       /\ DOMAIN r = {"account", "price", "quantity", "instrument"}
       /\ r.quantity \in Nat /\ r.price \in Int /\ (r.price > 0 => r.price \in Prices)
  /\ \A c \in Cancels : DOMAIN c = {"account", "instrument"}

VARIABLES
  book,                        \* OrderBook
  risk,                        \* RiskEngine
  expected_sequence,
  maximum_received_order_id,
  result                       \* what process_command returned last, and its reports

gatewayVars == <<book, risk, expected_sequence, maximum_received_order_id, result>>

NoResult == [kind |-> "none", why |-> Pass, order |-> 0, filled |-> 0, resting |-> 0,
             discarded |-> 0, old |-> 0, price |-> 0, moved |-> FALSE, reports |-> <<>>]

GatewayInit ==
  /\ book = EmptyBook
  /\ \E killed \in BOOLEAN, dead \in KillSets : risk = NewRisk(killed, dead)
  /\ expected_sequence = 1
  /\ maximum_received_order_id = 0
  /\ result = NoResult

-----------------------------------------------------------------------------
\* accept_sequence, when the command carries the expected number
AcceptSequence ==
  /\ expected_sequence < MaxSeq
  /\ expected_sequence' = expected_sequence + 1

Returns(kind, why) == result' = [NoResult EXCEPT !.kind = kind, !.why = why]

\* A command with any other number is refused before anything changes.
WrongSequence ==
  /\ Returns("Sequence", "SequenceMismatch")
  /\ UNCHANGED <<book, risk, expected_sequence, maximum_received_order_id>>

\* The sequence is exhausted: a state error, before anything changes.
Exhausted ==
  /\ expected_sequence = MaxSeq
  /\ Returns("RiskState", "ArithmeticOverflow")
  /\ UNCHANGED <<book, risk, expected_sequence, maximum_received_order_id>>

-----------------------------------------------------------------------------
(* process_new_order                                                       *)

RiskReject(o) ==
  LET first == FirstReject(ReserveRejects(risk, o))
  IN  IF first # Pass THEN first ELSE FirstReject(LimitRejects(risk.accounts[o.account], o))

\* Risk cannot follow what was done; why it cannot is not told apart.
StateError == Returns("RiskState", "Inconsistent")

\* An id that is not above the watermark is refused before risk sees it.
NewOrderDuplicate(o) ==
  /\ AcceptSequence
  /\ o.id <= maximum_received_order_id
  /\ Returns("Risk", "DuplicateOrderId")
  /\ UNCHANGED <<book, risk, maximum_received_order_id>>

NewOrderRiskRejected(o) ==
  /\ AcceptSequence
  /\ o.id > maximum_received_order_id
  /\ maximum_received_order_id' = o.id
  /\ RiskReject(o) # Pass
  /\ Returns("Risk", RiskReject(o))
  /\ UNCHANGED <<book, risk>>

\* Faulty variant: the reservation of an order the book refused is kept.
NewOrderBookRejectedKept(o) ==
  /\ AcceptSequence
  /\ o.id > maximum_received_order_id
  /\ maximum_received_order_id' = o.id
  /\ RiskReject(o) = Pass
  /\ SubmitReject(book, o) # Pass
  /\ risk' = Reserve(risk, o)
  /\ Returns("Book", SubmitReject(book, o))
  /\ UNCHANGED book

\* The book refuses: the reservation just made is settled with nothing filled.
NewOrderBookRejected(o) ==
  /\ AcceptSequence
  /\ o.id > maximum_received_order_id
  /\ maximum_received_order_id' = o.id
  /\ RiskReject(o) = Pass
  /\ SubmitReject(book, o) # Pass
  /\ LET reserved == Reserve(risk, o)
     IN  IF CanSettle(reserved, o.id)
         THEN risk' = Settle(reserved, o.id) /\ Returns("Book", SubmitReject(book, o))
         ELSE risk' = reserved /\ StateError
  /\ UNCHANGED book

\* record_fill for the maker and then the taker of every report; a failure stops it.
FillStep(acc, fill, taker) ==
  IF ~acc.ok \/ ~CanRecordFill(acc.risk, fill.id, fill.quantity)
  THEN [acc EXCEPT !.ok = FALSE]
  ELSE LET maker == RecordFill(acc.risk, fill.id, fill.quantity)
       IN  IF CanRecordFill(maker, taker, fill.quantity)
           THEN [acc EXCEPT !.risk = RecordFill(maker, taker, fill.quantity)]
           ELSE [ok |-> FALSE, risk |-> maker]

\* The risk state after the fills
RecordFills(r, fills, taker) ==
  LET after[i \in 0 .. Len(fills)] ==
        IF i = 0 THEN [ok |-> TRUE, risk |-> r] ELSE FillStep(after[i - 1], fills[i], taker)
  IN  after[Len(fills)]

\* Faulty variant: what an immediate order did not trade stays reserved.
SettleFillsKeepsRest(o, fills, rests) == RecordFills(Reserve(risk, o), fills, o.id)

\* ... and after an untraded remainder that does not rest is released
SettleFills(o, fills, rests) ==
  LET filled == RecordFills(Reserve(risk, o), fills, o.id)
  IN  IF ~filled.ok \/ rests > 0 \/ Total(fills) = o.quantity THEN filled
      ELSE IF CanSettle(filled.risk, o.id)
           THEN [filled EXCEPT !.risk = Settle(@, o.id)]
           ELSE [filled EXCEPT !.ok = FALSE]

NewOrderAccepted(o) ==
  /\ AcceptSequence
  /\ o.id > maximum_received_order_id
  /\ maximum_received_order_id' = o.id
  /\ RiskReject(o) = Pass
  /\ SubmitReject(book, o) = Pass
  /\ LET fills   == Fills(book, o)
         rests   == RestingQuantity(book, o)
         settled == SettleFills(o, fills, rests)
     IN  /\ book' = SubmitBook(book, o, expected_sequence)
         /\ risk' = settled.risk
         /\ IF settled.ok
            THEN result' = [NoResult EXCEPT !.kind = "Accepted", !.order = o.id,
                              !.filled = Total(fills), !.resting = rests,
                              !.discarded = Discarded(book, o), !.reports = fills]
            ELSE StateError

-----------------------------------------------------------------------------
(* process_replace                                                         *)

AdjustReject(r) ==
  LET owned == FirstReject(OwnedRejects(risk, r.id, r.account))
  IN  IF owned # Pass THEN owned
      ELSE FirstReject(AdjustRejects(risk, r.id, r.price, r.quantity))

ReplaceRiskRejected(r) ==
  /\ AcceptSequence
  /\ AdjustReject(r) # Pass
  /\ Returns("Risk", AdjustReject(r))
  /\ UNCHANGED <<book, risk, maximum_received_order_id>>

\* Faulty variant: the adjusted reservation is not put back.
ReplaceBookRejectedKept(r) ==
  /\ AcceptSequence
  /\ AdjustReject(r) = Pass
  /\ ReplaceReject(book, r) # Pass
  /\ risk' = SetReservation(risk, r.id, r.quantity)
  /\ Returns("Book", ReplaceReject(book, r))
  /\ UNCHANGED <<book, maximum_received_order_id>>

\* The book refuses: restore_reservation puts the prior quantity back.
ReplaceBookRejected(r) ==
  /\ AcceptSequence
  /\ AdjustReject(r) = Pass
  /\ ReplaceReject(book, r) # Pass
  /\ LET adjusted == SetReservation(risk, r.id, r.quantity)
     IN  risk' = SetReservation(adjusted, r.id, risk.reservations[r.id].quantity)
  /\ Returns("Book", ReplaceReject(book, r))
  /\ UNCHANGED <<book, maximum_received_order_id>>

ReplaceAccepted(r) ==
  /\ AcceptSequence
  /\ AdjustReject(r) = Pass
  /\ ReplaceReject(book, r) = Pass
  /\ risk' = SetReservation(risk, r.id, r.quantity)
  /\ book' = ReplaceBook(book, r, expected_sequence)
  /\ result' = [NoResult EXCEPT !.kind = "Replaced", !.order = r.id, !.resting = r.quantity,
                   !.old = OrderAt(book, Locate(book, r.id)).quantity, !.price = r.price,
                   !.moved = ~KeepsPriority(book, r)]
  /\ UNCHANGED maximum_received_order_id

-----------------------------------------------------------------------------
(* process_cancel                                                          *)

CanCancelReject(c) == FirstReject(OwnedRejects(risk, c.id, c.account))

CancelRiskRejected(c) ==
  /\ AcceptSequence
  /\ CanCancelReject(c) # Pass
  /\ Returns("Risk", CanCancelReject(c))
  /\ UNCHANGED <<book, risk, maximum_received_order_id>>

CancelBookRejected(c) ==
  /\ AcceptSequence
  /\ CanCancelReject(c) = Pass
  /\ CancelReject(book, c) # Pass
  /\ Returns("Book", CancelReject(book, c))
  /\ UNCHANGED <<book, risk, maximum_received_order_id>>

\* The order leaves the book, then its reservation; the two must have agreed.
CancelAccepted(c) ==
  /\ AcceptSequence
  /\ CanCancelReject(c) = Pass
  /\ CancelReject(book, c) = Pass
  /\ book' = CancelBook(book, c)
  /\ IF CanSettle(risk, c.id)
     THEN /\ risk' = Settle(risk, c.id)
          /\ IF risk.reservations[c.id].quantity = CancelledQuantity(book, c)
             THEN result' = [NoResult EXCEPT !.kind = "Cancelled", !.order = c.id,
                                             !.discarded = CancelledQuantity(book, c)]
             ELSE StateError
     ELSE risk' = risk /\ StateError
  /\ UNCHANGED maximum_received_order_id

-----------------------------------------------------------------------------
(* process_command.  Ids are offered without a gap: a gap only leaves ids    *)
(* unused.  Of the new orders with a used id one stands for all, because    *)
(* nothing but its id is looked at.                                         *)
Commands ==
  LET with(type, c, id) ==
        [f \in DOMAIN c \cup {"id", "type"} |->
           CASE f = "id" -> id [] f = "type" -> type [] OTHER -> c[f]]
  IN  {with("New", o, id) : o \in NewOrders, id \in 1 .. MaxId}
        \cup {with("Replace", r, id) : r \in Replaces, id \in 1 .. MaxId}
        \cup {with("Cancel", c, id) : c \in Cancels, id \in 1 .. MaxId}
FirstOf == [id \in 1 .. MaxId |-> CHOOSE c \in Commands : c.type = "New" /\ c.id = id]

Offered ==
  {c \in Commands :
     /\ c.id <= maximum_received_order_id + 1
     /\ c.type = "New" /\ c.id <= maximum_received_order_id => c = FirstOf[c.id]}

NewOrder(o) ==
  NewOrderDuplicate(o) \/ NewOrderRiskRejected(o) \/ NewOrderBookRejected(o)
    \/ NewOrderAccepted(o)
Replace(r) == ReplaceRiskRejected(r) \/ ReplaceBookRejected(r) \/ ReplaceAccepted(r)
Cancel(c) == CancelRiskRejected(c) \/ CancelBookRejected(c) \/ CancelAccepted(c)

\* What is done with a command whose sequence was accepted
Apply(c) ==
  \/ c.type = "New" /\ NewOrder(c)
  \/ c.type = "Replace" /\ Replace(c)
  \/ c.type = "Cancel" /\ Cancel(c)

Sequenced == \E c \in Offered : Apply(c)

ProcessCommand == WrongSequence \/ Exhausted \/ Sequenced

GatewaySpec == GatewayInit /\ [][ProcessCommand]_gatewayVars

-----------------------------------------------------------------------------
(* validate_cross_component_state: watermarks and reservations, and the     *)
(* order limits.                                                            *)
CrossValid(b, r, expected, received) ==
  /\ r.maximum_order_id <= received
  /\ Live(r) = {OrderAt(b, at).id : at \in RestingOrders(b)}
  /\ \A at \in RestingOrders(b) :
       LET o == OrderAt(b, at)
       IN  /\ o.sequence < expected
           /\ o.id <= received
           /\ r.reservations[o.id] =
                [account |-> o.account, side |-> at[1], quantity |-> o.quantity]

WithinLimits(b) ==
  \A at \in RestingOrders(b) :
    LET o      == OrderAt(b, at)
        limits == Limits[o.account]
    IN  /\ o.quantity <= limits.max_quantity
        /\ at[2] >= limits.minimum_price /\ at[2] <= limits.maximum_price
        /\ at[2] * o.quantity <= limits.max_notional

-----------------------------------------------------------------------------
(* After any commands the state is one the code's own validation accepts,   *)
(* limits apart.  Book: within capacity, never crossed, each level in the   *)
(* order of the sequences that put its orders there.  Risk: every account's *)
(* totals are the sums of its reservations, its worst position either way   *)
(* within its limit.  Together: every resting order has a reservation of    *)
(* the same account, side and quantity and there is no other.  And every    *)
(* trade had a buyer and a seller: settled positions add up to zero.        *)
StateValidates ==
  /\ BookStateValid(book)
  /\ RiskStateValid(risk)
  /\ CrossValid(book, risk, expected_sequence, maximum_received_order_id)
  /\ SumOver([a \in Accounts |-> risk.accounts[a].settled], Accounts) = 0

(* No command ends in a risk-state error, which would mean that the book    *)
(* changed and risk could not follow; only an exhausted sequence does.      *)
NoStateError == result.kind = "RiskState" => expected_sequence = MaxSeq

(* A refused command, whether by risk or by the book after risk had already *)
(* reserved, leaves no trace but the sequence and the id watermarks.        *)
RefusalLeavesNoTrace ==
  [][result'.kind \in {"Sequence", "Risk", "Book"} =>
       /\ book' = book
       /\ risk'.accounts = risk.accounts
       /\ risk'.reservations = risk.reservations]_gatewayVars

(* Price-time priority.  Makers trade at their own price and lose exactly   *)
(* what is reported; a maker with a better price, or the same price and an  *)
(* older sequence, than one that traded is used up; an order that is not    *)
(* filled in full used up every maker it traded with; and what the reports  *)
(* say was traded is what the order says was filled.                        *)
PriceTimePriority ==
  [][result'.kind = "Accepted" /\ expected_sequence' # expected_sequence =>
       LET left(id)    == IF Located(book', id) = {} THEN 0
                          ELSE OrderAt(book', Locate(book', id)).quantity
           order(at)   == OrderAt(book, at)
           lost(at)    == order(at).quantity - left(order(at).id)
           traded      == {at \in RestingOrders(book) : lost(at) > 0}
           ahead(x, y) == /\ x[1] = y[1]
                          /\ \/ Better(x[1], x[2], y[2])
                             \/ x[2] = y[2] /\ order(x).sequence < order(y).sequence
       IN  /\ \A at \in traded : \E i \in DOMAIN result'.reports :
                result'.reports[i] = [id |-> order(at).id, price |-> at[2],
                                      quantity |-> lost(at)]
           /\ Cardinality(traded) = Len(result'.reports)
           /\ \A y \in traded : \A x \in RestingOrders(book) :
                ahead(x, y) => left(order(x).id) = 0
           /\ Total(result'.reports) = result'.filled
           /\ result'.resting + result'.discarded > 0 =>
                \A x \in traded : left(order(x).id) = 0]_gatewayVars

(* Priority is earned by waiting: while an order keeps the sequence that     *)
(* ranks it, it stays at its price and never grows; an order that grew or   *)
(* moved is ranked by the command that did it, behind everyone.             *)
PriorityIsEarned ==
  [][\A x \in RestingOrders(book), y \in RestingOrders(book') :
       LET old == OrderAt(book, x)
           new == OrderAt(book', y)
       IN  old.id = new.id =>
             \/ /\ old.sequence = new.sequence
                /\ x[1] = y[1] /\ x[2] = y[2] /\ new.quantity <= old.quantity
             \/ new.sequence = expected_sequence]_gatewayVars

(* Every state a snapshot can export is one that Gateway::from_state        *)
(* restores.                                                                *)
SnapshotRestores == StateValidates /\ WithinLimits(book)
=============================================================================
