------------------------------ MODULE Oracles ------------------------------
(***************************************************************************)
(* The repository's two oracles beside one event engine: ModelEngine runs  *)
(* every command the engine runs (the property tests of hft-gateway), and  *)
(* the soak harness takes the batches from the queue, at any delay, and    *)
(* checks each against the command it sent.  Commands are those CommandGen *)
(* makes: fresh ids without a gap, used ids again, cancels and replaces of *)
(* ids that were issued.                                                   *)
(***************************************************************************)
EXTENDS EventEngine, ReferenceModel

VARIABLES
  issued,   \* CommandGen's fresh_ids
  model,    \* ModelEngine
  verdict,  \* what the model answered to the last command
  drifted,  \* the model has refused an increase it had already added to a total
  sent,     \* commands sent and not yet matched with a batch
  feed      \* the harness: its table, what it found wrong, the sequence it waits for

oracleVars == <<gatewayVars, queue, issued, model, verdict, drifted, sent, feed>>

L == INSTANCE LiveOrders WITH TableSize <- RiskOrders

OracleInit ==
  /\ EventInit /\ ~risk.killed
  /\ issued = 0
  /\ model = NewModel /\ verdict = NoResult /\ drifted = FALSE
  /\ sent = <<>>
  /\ feed = [live |-> L!NoOrders, error |-> L!Valid, next |-> 1]

-----------------------------------------------------------------------------
\* next_command: a new order until an id was issued
Generated(c) ==
  CASE c.type = "New" -> c.id = issued + 1 \/ (c.id \in 1 .. issued /\ c = FirstOf[c.id])
    [] OTHER -> c.id \in 1 .. issued

Drive(c) ==
  /\ Generated(c)
  /\ ApplyAndPublish(c)
  /\ issued' = IF c.id > issued THEN c.id ELSE issued
  /\ LET answer == ModelApply(model, c)
     IN  /\ model' = answer.model
         /\ verdict' = answer.verdict
         /\ drifted' = (drifted \/ (c.type = "Replace"
                          /\ answer.verdict.why \in {"NotionalLimit", "PositionLimit"}))
  /\ sent' = Append(sent, L!Insert(c, "sequence", expected_sequence))
  /\ UNCHANGED feed

OutOfTurn ==
  /\ Refuse
  /\ UNCHANGED <<issued, model, verdict, drifted, sent, feed>>

\* The harness checks one batch against the command it stands for.
Check(f, batch, c) ==
  LET applied == L!LiveApply(f.live, batch, c)
  IN  [live |-> applied.live, next |-> f.next + 1,
       error |-> IF f.error # L!Valid THEN f.error ELSE applied.error]

Harness ==
  /\ TakeBatch
  /\ feed' = Check(feed, Head(queue), Head(sent))
  /\ sent' = Tail(sent)
  /\ UNCHANGED <<issued, model, verdict, drifted>>

OracleNext == (\E c \in Commands : Drive(c)) \/ OutOfTurn \/ Harness

OracleSpec == OracleInit /\ [][OracleNext]_oracleVars

-----------------------------------------------------------------------------
(* After every command the naive model and the gateway agree: the same       *)
(* answer with the same fills in the same order, the same book queue by      *)
(* queue, and the same positions, reserved totals and reservations, which    *)
(* are what assert_consistent demands of the model.  That ends with the      *)
(* first increase the model refuses, whose quantity stays in its totals.     *)
ModelAgrees ==
  ~drifted =>
    /\ result.kind \in {"Sequence", "RiskState"} \/ verdict = result
    /\ \A side \in Sides, p \in Prices : ModelDump(model, side, p) = book[side][p]
    /\ \A a \in Accounts :
         model.accounts[a] = [f \in DOMAIN model.accounts[a] |-> risk.accounts[a][f]]
    /\ model.reservations = risk.reservations
    /\ model.maximum = maximum_received_order_id /\ model.next = expected_sequence
    /\ ModelConsistent(model)

\* What the harness will know once it has caught up
CaughtUp ==
  LET after[i \in 0 .. Len(queue)] ==
        IF i = 0 THEN feed ELSE Check(after[i - 1], queue[i], sent[i])
  IN  after[Len(queue)]

(* Every sequenced command, a refused one too, has exactly one batch and in   *)
(* order, and no batch fails the harness: each has its terminal event first,  *)
(* its trades next and a change of top of book last, exactly when there is    *)
(* one; trades take from known makers at their price, and quantities add up.  *)
BatchesValidate ==
  /\ Len(queue) = Len(sent)
  /\ CaughtUp.next = expected_sequence /\ CaughtUp.error = L!Valid

(* The events are enough to follow the book: the table the harness keeps     *)
(* from them is, once it has caught up, exactly what rests.                  *)
FeedTracksBook ==
  Len(queue) = Len(sent) =>
    CaughtUp.live =
      [id \in {OrderAt(book, at).id : at \in RestingOrders(book)} |->
         LET at == Locate(book, id)
         IN  [account |-> OrderAt(book, at).account, price |-> at[2],
              quantity |-> OrderAt(book, at).quantity, side |-> at[1]]]
=============================================================================
