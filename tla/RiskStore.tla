----------------------------- MODULE RiskStore -----------------------------
(***************************************************************************)
(* crates/hft-risk: how a RiskEngine stores what Risk.tla describes.       *)
(* Accounts are in an array with an index by id; reservations are in slots *)
(* drawn from a free list, with an index by order id, and each knows its   *)
(* slot of that index.  The spec applies the operations to an engine and,  *)
(* beside it, to a Risk value.                                             *)
(***************************************************************************)
EXTENDS Risk, Sequences, SequencesExt

CONSTANTS
  OrderIds,     \* 1 .. n: ids only ever grow, so n bounds the reservations made
  Asked,        \* [account, side, price, quantity] to reserve
  AskedFills,   \* quantities to fill and to amend to
  RiskHomes     \* [accounts, orders]: where the probes of the ids start

\* The index of accounts and the index of reservations; two planes each
AccountIndex == INSTANCE ProbeTable WITH Capacity <- 2 * Cardinality(Accounts)
OrderIndex == INSTANCE ProbeTable WITH Capacity <- 2 * RiskOrders

VARIABLES engine, riskHome, risk

riskStoreVars == <<engine, riskHome, risk>>

End == -1        \* NIL
AccountSlots == 0 .. Cardinality(Accounts) - 1
OrderSlots == 0 .. RiskOrders - 1
FreeSlot(next) == [live |-> FALSE, next_free |-> next]
NextFree(slot) == IF slot + 1 < RiskOrders THEN slot + 1 ELSE End

NewEngine ==
  [accounts |-> <<>>, account_index |-> AccountIndex!EmptyTable,
   slots |-> [i \in OrderSlots |-> FreeSlot(NextFree(i))], free_head |-> 0,
   index |-> OrderIndex!EmptyTable, maximum_order_id |-> 0, killed |-> FALSE]

\* register_account: the first slot without an account is the next one, for accounts stay
RegisterAccount(e, a, state) ==
  [e EXCEPT !.accounts = Append(@, [id |-> a, state |-> state]),
            !.account_index = AccountIndex!Insert(@, riskHome.accounts, a,
                                                  Len(e.accounts) + 1).table]

\* account_slot, one above the code's, as it is stored
AccountSlot(e, a) == AccountIndex!Lookup(e.account_index, riskHome.accounts, a)
AccountOf(e, a) == e.accounts[AccountSlot(e, a)].state

\* live_reservation: the slot is found through the index and must hold that order
SlotOf(e, id) == OrderIndex!Lookup(e.index, riskHome.orders, id) - 1
HasReservation(e, id) ==
  SlotOf(e, id) # -1 /\ e.slots[SlotOf(e, id)].live /\ e.slots[SlotOf(e, id)].id = id
ReservationOf(e, id) == e.slots[SlotOf(e, id)].reservation

\* export_state
Export(e) ==
  LET live == {i \in OrderSlots : e.slots[i].live}
      at(id) == CHOOSE i \in live : e.slots[i].id = id
  IN  [accounts |-> [a \in {e.accounts[i].id : i \in DOMAIN e.accounts} |->
                       e.accounts[CHOOSE i \in DOMAIN e.accounts : e.accounts[i].id = a].state],
       reservations |-> [id \in {e.slots[i].id : i \in live} |-> e.slots[at(id)].reservation],
       maximum_order_id |-> e.maximum_order_id, killed |-> e.killed]

-----------------------------------------------------------------------------
(* Reservations take the head of the free list and leave to it.            *)

\* The end of check_and_reserve
StoreReserve(e, o) ==
  LET slot == e.free_head
      put  == OrderIndex!Insert(e.index, riskHome.orders, o.id, slot + 1)
  IN  [e EXCEPT
         !.accounts[AccountSlot(e, o.account)].state =
            [Reserved(@, o.side, o.quantity) EXCEPT !.open = @ + 1],
         !.slots[slot] = [live |-> TRUE, id |-> o.id, index_slot |-> put.slot,
                          reservation |-> [account |-> o.account, side |-> o.side,
                                           quantity |-> o.quantity]],
         !.free_head = e.slots[slot].next_free,
         !.index = put.table,
         !.maximum_order_id = o.id]

\* release_reservation
StoreRelease(e, id) ==
  LET slot    == SlotOf(e, id)
      removed == OrderIndex!RemoveAtSlot(e.index, riskHome.orders, e.slots[slot].index_slot, id)
      told    == FoldLeft(LAMBDA slots, move :
                            LET moved == move.entry.value - 1
                            IN  IF slots[moved].live /\ slots[moved].id = move.entry.key
                                THEN [slots EXCEPT ![moved].index_slot = move.slot] ELSE slots,
                          e.slots, removed.moves)
  IN  [e EXCEPT !.index = removed.table,
                !.slots = [told EXCEPT ![slot] = FreeSlot(e.free_head)],
                !.free_head = slot]

SetAccount(e, a, state) == [e EXCEPT !.accounts[AccountSlot(e, a)].state = state]

\* settle_reservation with nothing filled, as cancel_reservation calls it
StoreSettle(e, id) ==
  LET res == ReservationOf(e, id)
  IN  StoreRelease(SetAccount(e, res.account,
        [Exposure(AccountOf(e, res.account), res.side, 0, res.quantity) EXCEPT !.open = @ - 1]),
        id)

StoreFill(e, id, filled) ==
  LET res  == ReservationOf(e, id)
      full == filled = res.quantity
      paid == SetAccount(e, res.account,
                [Exposure(AccountOf(e, res.account), res.side, filled, filled) EXCEPT
                   !.open = IF full THEN @ - 1 ELSE @])
  IN  IF full THEN StoreRelease(paid, id)
      ELSE [paid EXCEPT !.slots[SlotOf(e, id)].reservation.quantity = @ - filled]

StoreAdjust(e, id, quantity) ==
  LET res == ReservationOf(e, id)
  IN  [SetAccount(e, res.account,
         Reserved(AccountOf(e, res.account), res.side, quantity - res.quantity))
       EXCEPT !.slots[SlotOf(e, id)].reservation.quantity = quantity]

\* from_state: accounts and reservations get their slots in the order of their ids
EngineFromState(r) ==
  LET ascending(S) == SetToSortSeq(S, <)
      ids      == ascending(Live(r))
      accounts == FoldLeft(LAMBDA e, a : RegisterAccount(e, a, r.accounts[a]),
                           NewEngine, ascending(DOMAIN r.accounts))
      indexed  == FoldLeft(LAMBDA e, i :
                    LET put == OrderIndex!Insert(e.index, riskHome.orders, ids[i], i)
                    IN  [e EXCEPT !.index = put.table,
                                  !.slots[i - 1] = [live |-> TRUE, id |-> ids[i],
                                                    index_slot |-> put.slot,
                                                    reservation |-> r.reservations[ids[i]]]],
                    accounts, [i \in DOMAIN ids |-> i])
  IN  [indexed EXCEPT !.free_head = IF Len(ids) = RiskOrders THEN End ELSE Len(ids),
                      !.maximum_order_id = r.maximum_order_id, !.killed = r.killed]

-----------------------------------------------------------------------------
\* Accounts may have been registered in any order.
RiskStoreInit ==
  /\ riskHome \in RiskHomes
  /\ risk = NewRisk(FALSE, {})
  /\ \E order \in SetToSeqs(Accounts) :
       engine = FoldLeft(LAMBDA e, a : RegisterAccount(e, a, risk.accounts[a]),
                         NewEngine, order)

\* check_and_reserve, of an order with a quantity
CheckAndReserve ==
  \E id \in OrderIds, ask \in Asked :
    LET o == [id |-> id, account |-> ask.account, side |-> ask.side, price |-> ask.price,
              quantity |-> ask.quantity]
        rejects == LimitRejects(AccountOf(engine, o.account), o)
    IN  /\ ~engine.killed
        /\ id > engine.maximum_order_id
        /\ engine.free_head # End
        /\ AccountSlot(engine, o.account) # 0
        /\ \A i \in DOMAIN rejects : ~rejects[i][1]
        /\ engine' = StoreReserve(engine, o)
        /\ risk' = Reserve(risk, o)

FillReservation ==
  \E id \in OrderIds, filled \in AskedFills :
    /\ HasReservation(engine, id) /\ filled <= ReservationOf(engine, id).quantity
    /\ engine' = StoreFill(engine, id, filled)
    /\ risk' = RecordFill(risk, id, filled)

CancelReservation ==
  \E id \in OrderIds :
    /\ HasReservation(engine, id)
    /\ engine' = StoreSettle(engine, id)
    /\ risk' = Settle(risk, id)

AdjustReservation ==
  \E id \in OrderIds, quantity \in AskedFills :
    /\ HasReservation(engine, id)
    /\ LET account == ReservationOf(engine, id).account
           rejects == AdjustRejects(Export(engine), id, Limits[account].minimum_price, quantity)
       IN  \A i \in DOMAIN rejects : ~rejects[i][1]
    /\ engine' = StoreAdjust(engine, id, quantity)
    /\ risk' = SetReservation(risk, id, quantity)

\* set_account_kill_switch, set_kill_switch
KillAccount ==
  \E a \in Accounts :
    /\ AccountSlot(engine, a) # 0
    /\ engine' = SetAccount(engine, a, [AccountOf(engine, a) EXCEPT !.killed = ~@])
    /\ risk' = [risk EXCEPT !.accounts[a].killed = ~@]
KillAll ==
  /\ engine' = [engine EXCEPT !.killed = ~@]
  /\ risk' = [risk EXCEPT !.killed = ~@]

RebuildEngine == engine' = EngineFromState(Export(engine)) /\ risk' = risk

RiskStoreNext ==
  /\ \/ CheckAndReserve \/ FillReservation \/ CancelReservation \/ AdjustReservation
     \/ KillAccount \/ KillAll \/ RebuildEngine
  /\ UNCHANGED riskHome

RiskStoreSpec == RiskStoreInit /\ [][RiskStoreNext]_riskStoreVars

-----------------------------------------------------------------------------
(* The engine holds the risk state, and none of it is out of reach: an      *)
(* order has a reservation to find exactly while it is reserved, every      *)
(* account is found, no handle is stale, and the slots are the live ones    *)
(* and the free list.                                                       *)
ReservationsFound ==
  LET live == {i \in OrderSlots : engine.slots[i].live}
      freed[n \in 0 .. RiskOrders] ==
        IF n = 0 THEN <<>>
        ELSE LET next == IF freed[n - 1] = <<>> THEN engine.free_head
                         ELSE engine.slots[Last(freed[n - 1])].next_free
             IN  IF next = End THEN freed[n - 1] ELSE Append(freed[n - 1], next)
  IN  /\ Export(engine) = risk
      /\ \A id \in OrderIds :
           /\ id \in Live(risk) => HasReservation(engine, id)
           /\ id \notin Live(risk) => SlotOf(engine, id) = -1
      /\ \A i \in live :
           engine.index[engine.slots[i].index_slot] = [key |-> engine.slots[i].id,
                                                       value |-> i + 1]
      /\ \A a \in Accounts : engine.accounts[AccountSlot(engine, a)].id = a
      /\ ToSet(freed[RiskOrders]) = OrderSlots \ live
      /\ IsInjective(freed[RiskOrders])
=============================================================================
