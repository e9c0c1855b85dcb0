----------------------------- MODULE EventEngine -----------------------------
(***************************************************************************)
(* crates/hft-events: BoundedEventEngine runs commands through the gateway *)
(* and publishes what happened as one batch of events per command into a   *)
(* bounded queue.                                                          *)
(***************************************************************************)
EXTENDS Gateway

CONSTANTS QueueCap     \* QUEUE, the number of batches the queue holds

ASSUME EventAssumption == QueueCap \in Nat \ {0}

BatchCap == Reports + 2    \* the least BATCH that try_new accepts

VARIABLES
  queue     \* batches published and not yet taken

-----------------------------------------------------------------------------
(* publish_result for the command c, from the gateway's result             *)

Tops(b) == <<TopLevel(b, "Buy"), TopLevel(b, "Sell")>>

\* The identity all events of a command carry: EventId, CommandIdentity
Event(c, kind, ordinal) ==
  [kind |-> kind, sequence |-> expected_sequence, ordinal |-> ordinal,
   instrument |-> c.instrument]

With(event, fields) ==
  [f \in DOMAIN event \cup DOMAIN fields |->
     IF f \in DOMAIN fields THEN fields[f] ELSE event[f]]

Rejection(c) ==
  <<With(Event(c, "Rejected", 0),
         [command |-> c.type, order |-> c.id, account |-> c.account, why |-> result'.why])>>

\* terminal_event
Terminal(c) ==
  LET who == [order |-> c.id, account |-> c.account]
      out == CASE result'.kind = "Accepted" ->
                    [state |-> OrderState(result'.filled, c.quantity), filled |-> result'.filled,
                     resting |-> result'.resting, discarded |-> result'.discarded]
               [] result'.kind = "Cancelled" -> [quantity |-> result'.discarded]
               [] OTHER -> [old |-> result'.old, new |-> result'.resting,
                            price |-> result'.price, moved |-> result'.moved]
  IN  <<With(With(Event(c, result'.kind, 0), who), out)>>

Trades(c) ==
  [i \in DOMAIN result'.reports |->
    With(Event(c, "Trade", i),
         [maker |-> result'.reports[i].id, taker |-> c.id, price |-> result'.reports[i].price,
          quantity |-> result'.reports[i].quantity])]

\* Faulty variant: a change of quantity at the best price is not told.
TopChangeByPrice(c) ==
  LET prices(tops) == [i \in DOMAIN tops |-> IF tops[i] = <<>> THEN 0 ELSE tops[i][1]]
  IN  IF prices(Tops(book)) # prices(Tops(book'))
      THEN <<With(Event(c, "TopOfBook", Len(result'.reports) + 1), [tops |-> Tops(book')])>>
      ELSE <<>>

\* Top of book follows only when the best level of a side changed in any way.
TopChange(c) ==
  IF Tops(book) # Tops(book')
  THEN <<With(Event(c, "TopOfBook", Len(result'.reports) + 1), [tops |-> Tops(book')])>>
  ELSE <<>>

\* Faulty variant: only the first trade is published.
SuccessBatchOneTrade(c) ==
  Terminal(c) \o (IF Trades(c) = <<>> THEN <<>> ELSE <<Head(Trades(c))>>) \o TopChange(c)

SuccessBatch(c) == Terminal(c) \o Trades(c) \o TopChange(c)

Batch(c) == IF result'.kind \in {"Risk", "Book"} THEN Rejection(c) ELSE SuccessBatch(c)

-----------------------------------------------------------------------------
EventInit == GatewayInit /\ queue = <<>>

\* Sequence and exhaustion are checked before capacity, and publish nothing.
Refuse == (WrongSequence \/ Exhausted) /\ UNCHANGED queue

\* EventBatch::try_push found a slot for every event
FitsBatch(batch) == Len(batch) <= BatchCap

\* A full queue refuses the command untouched, to be offered again.  A fatal gateway
\* error publishes nothing, and neither does a batch that overflows.
ApplyAndPublish(c) ==
  /\ Len(queue) < QueueCap
  /\ Apply(c)
  /\ queue' = IF result'.kind = "RiskState" \/ ~FitsBatch(Batch(c)) THEN queue
              ELSE Append(queue, Batch(c))

\* The consumer's pop, whoever that is
TakeBatch == queue # <<>> /\ queue' = Tail(queue) /\ UNCHANGED gatewayVars
=============================================================================
