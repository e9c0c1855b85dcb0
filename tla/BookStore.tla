----------------------------- MODULE BookStore -----------------------------
(***************************************************************************)
(* crates/hft-book: how an OrderBook stores what Book.tla describes.  Each *)
(* side has an array of price levels with a sorted index of the occupied   *)
(* ones and a pool of the free ones; a level is an array of slots, live    *)
(* ones linked into a FIFO and free ones into a list; the order index maps *)
(* an id to its place, and every live order knows its slot of the index.   *)
(* A store is a value with the fields levels, sorted, pool and index.      *)
(*                                                                         *)
(* The spec applies commands to a store and, beside it, to a Book value.   *)
(* Ids come back after they have left, so that a run has no end; accounts, *)
(* sequences and invalid inputs, which the storage only carries, are those *)
(* of Gateway.tla.                                                         *)
(***************************************************************************)
EXTENDS Book

CONSTANTS
  Ids,          \* order ids
  Offers,       \* [side, price, quantity] to submit and to replace by
  Homes,        \* the hash functions: where the probe of an id starts
  Owner         \* the account of every order

IndexPlanes == 4
IndexCapacity == Levels * OrdersPerLevel * IndexPlanes
Index == INSTANCE ProbeTable WITH Capacity <- IndexCapacity

VARIABLES store, home, book

bookStoreVars == <<store, home, book>>

Nil == -1
NoLevel == [price |-> 0]

\* encode_location, decode_location: the low bit is the side, zero is kept for empty
Encode(at) == (at.level * OrdersPerLevel + at.slot) * 2 + (IF at.side = "Sell" THEN 1 ELSE 0) + 1
Decode(n) ==
  [side  |-> IF (n - 1) % 2 = 0 THEN "Buy" ELSE "Sell",
   level |-> ((n - 1) \div 2) \div OrdersPerLevel,
   slot  |-> ((n - 1) \div 2) % OrdersPerLevel]

-----------------------------------------------------------------------------
(* PriceLevel                                                              *)

Slots == 0 .. OrdersPerLevel - 1
Free(next) == [live |-> FALSE, next_free |-> next]

NewLevel(price) ==
  [price |-> price, aggregate |-> 0, head |-> Nil, tail |-> Nil, free_head |-> 0, len |-> 0,
   slots |-> [i \in Slots |-> Free(IF i + 1 < OrdersPerLevel THEN i + 1 ELSE Nil)]]

\* push_tail, of a level that is not full: the slot is the head of the free list
PushTail(level, order) ==
  LET slot   == level.free_head
      placed == [live |-> TRUE, order |-> order, index_slot |-> 0, prev |-> level.tail,
                 next |-> Nil]
      linked == IF level.tail = Nil THEN level.slots
                ELSE [level.slots EXCEPT ![level.tail].next = slot]
  IN  [level EXCEPT !.slots = [linked EXCEPT ![slot] = placed],
                    !.free_head = level.slots[slot].next_free,
                    !.head = IF level.tail = Nil THEN slot ELSE @,
                    !.tail = slot, !.len = @ + 1, !.aggregate = @ + order.quantity]

\* unlink: the neighbours close up and the slot heads the free list
UnlinkSlot(level, slot) ==
  LET gone   == level.slots[slot]
      before == IF gone.prev = Nil THEN level.slots
                ELSE [level.slots EXCEPT ![gone.prev].next = gone.next]
      after  == IF gone.next = Nil THEN before
                ELSE [before EXCEPT ![gone.next].prev = gone.prev]
  IN  [level EXCEPT !.slots = [after EXCEPT ![slot] = Free(level.free_head)],
                    !.free_head = slot,
                    !.head = IF gone.prev = Nil THEN gone.next ELSE @,
                    !.tail = IF gone.next = Nil THEN gone.prev ELSE @,
                    !.len = @ - 1, !.aggregate = @ - gone.order.quantity]

ReduceQuantity(level, slot, quantity) ==
  [level EXCEPT !.slots[slot].order.quantity = @ - quantity, !.aggregate = @ - quantity]

\* The slots from the head along `next', and for_each_live: the orders in them
Chain(level) ==
  LET walk[n \in 0 .. OrdersPerLevel] ==
        IF n = 0 THEN <<>>
        ELSE LET cursor == IF walk[n - 1] = <<>> THEN level.head
                           ELSE level.slots[Last(walk[n - 1])].next
             IN  IF cursor = Nil \/ ~level.slots[cursor].live THEN walk[n - 1]
                 ELSE Append(walk[n - 1], cursor)
  IN  walk[OrdersPerLevel]
LiveOrders(level) == LET chain == Chain(level)
                     IN  [i \in DOMAIN chain |-> level.slots[chain[i]].order]

-----------------------------------------------------------------------------
(* LevelIndex                                                              *)

LevelSlots == 0 .. Levels - 1
FullPool == [i \in 1 .. Levels |-> Levels - i]

\* position, find
Position(sorted, side, price) ==
  Cardinality({i \in DOMAIN sorted : Better(side, sorted[i][1], price)})
Listed(sorted, price) == {i \in DOMAIN sorted : sorted[i][1] = price}
FindLevel(sorted, price) == sorted[CHOOSE i \in Listed(sorted, price) : TRUE][2]

\* insert: the slot comes from the end of the pool
InsertLevel(s, side, price) ==
  [s EXCEPT !.sorted[side] = InsertAt(@, Position(@, side, price) + 1,
                                      <<price, Last(s.pool[side])>>),
            !.pool[side] = Front(@),
            !.levels[side][Last(s.pool[side])] = NewLevel(price)]

\* remove: the slot goes back to the end of the pool
RemoveLevel(s, side, price) ==
  LET slot == FindLevel(s.sorted[side], price)
  IN  [s EXCEPT !.sorted[side] = SelectSeq(@, LAMBDA entry : entry[1] # price),
                !.pool[side] = Append(@, slot),
                !.levels[side][slot] = NoLevel]

-----------------------------------------------------------------------------
(* OrderBook                                                               *)

NewStore ==
  [levels |-> [side \in Sides |-> [i \in LevelSlots |-> NoLevel]],
   sorted |-> [side \in Sides |-> <<>>],
   pool   |-> [side \in Sides |-> FullPool],
   index  |-> Index!EmptyTable]

LevelOf(s, at) == s.levels[at.side][at.level]
SlotAt(s, at) == LevelOf(s, at).slots[at.slot]
Occupies(s, at, id) ==
  /\ LevelOf(s, at) # NoLevel
  /\ SlotAt(s, at).live /\ SlotAt(s, at).order.id = id

\* contains_order; locate, with the place of an id that it finds
ContainsOrder(s, id) == Index!Lookup(s.index, home, id) # 0
PlaceOf(s, id) == Decode(Index!Lookup(s.index, home, id))
Locates(s, id) == ContainsOrder(s, id) /\ Occupies(s, PlaceOf(s, id), id)

\* export_state: the levels of each side in the order of the sorted index
View(s) ==
  [side \in Sides |-> [p \in Prices |->
     IF Listed(s.sorted[side], p) = {} THEN <<>>
     ELSE LiveOrders(s.levels[side][FindLevel(s.sorted[side], p)])]]

\* Faulty variant: the orders whose entries move are not told.
RemoveIndexEntryQuietly(s, slot, id) ==
  [s EXCEPT !.index = Index!RemoveAtSlot(s.index, home, slot, id).table]

\* remove_index_entry: each moved entry's order gets its new slot of the index
RemoveIndexEntry(s, slot, id) ==
  LET removed == Index!RemoveAtSlot(s.index, home, slot, id)
  IN  FoldLeft(LAMBDA acc, move :
                 LET at == Decode(move.entry.value)
                 IN  IF Occupies(acc, at, move.entry.key)
                     THEN [acc EXCEPT !.levels[at.side][at.level].slots[at.slot].index_slot
                             = move.slot]
                     ELSE acc,
               [s EXCEPT !.index = removed.table], removed.moves)

\* unlink, and the level is dropped when it was the last order
TakeOut(s, at) ==
  LET level == UnlinkSlot(LevelOf(s, at), at.slot)
      left  == [s EXCEPT !.levels[at.side][at.level] = level]
  IN  IF level.len = 0 THEN RemoveLevel(left, at.side, level.price) ELSE left

\* rest, rest_at_tail; restore_level does the same for each order of a level
StoreRest(s, side, price, order) ==
  LET opened == IF Listed(s.sorted[side], price) = {} THEN InsertLevel(s, side, price) ELSE s
      at     == FindLevel(opened.sorted[side], price)
      slot   == opened.levels[side][at].free_head
      put    == Index!Insert(opened.index, home, order.id,
                             Encode([side |-> side, level |-> at, slot |-> slot]))
      pushed == PushTail(opened.levels[side][at], order)
  IN  [opened EXCEPT !.levels[side][at] = [pushed EXCEPT !.slots[slot].index_slot = put.slot],
                     !.index = put.table]

\* The places of the makers that trade, in the order of the walk
Plan(s, b, o) ==
  LET fills == Fills(b, o)
      side  == Opposite(o.side)
      level(fill) == FindLevel(s.sorted[side], fill.price)
      spot(fill) ==
        CHOOSE at \in [side : {side}, level : {level(fill)}, slot : Slots] :
          Occupies(s, at, fill.id)
  IN  [i \in DOMAIN fills |-> [at |-> spot(fills[i]), id |-> fills[i].id,
                               quantity |-> fills[i].quantity,
                               index_slot |-> SlotAt(s, spot(fills[i])).index_slot]]

\* Faulty variant: the slot of the index is the one the plan was made with.
ApplyFillStale(s, fill) ==
  IF SlotAt(s, fill.at).order.quantity = fill.quantity
  THEN TakeOut(RemoveIndexEntry(s, fill.index_slot, fill.id), fill.at)
  ELSE [s EXCEPT !.levels[fill.at.side][fill.at.level] =
          ReduceQuantity(@, fill.at.slot, fill.quantity)]

\* One fill of apply_plan: remove_filled_order, or reduce_quantity
ApplyFill(s, fill) ==
  IF SlotAt(s, fill.at).order.quantity = fill.quantity
  THEN TakeOut(RemoveIndexEntry(s, SlotAt(s, fill.at).index_slot, fill.id), fill.at)
  ELSE [s EXCEPT !.levels[fill.at.side][fill.at.level] =
          ReduceQuantity(@, fill.at.slot, fill.quantity)]

\* submit of an order that is not refused: `b' is what the walk sees of the store
StoreSubmit(s, b, o) ==
  LET filled == FoldLeft(ApplyFill, s, Plan(s, b, o))
      rests  == RestingQuantity(b, o)
  IN  IF rests = 0 THEN filled
      ELSE StoreRest(filled, o.side, o.price,
             [id |-> o.id, account |-> o.account, quantity |-> rests, sequence |-> 0])

StoreCancel(s, id) ==
  LET at == PlaceOf(s, id)
  IN  RemoveIndexEntry(TakeOut(s, at), SlotAt(s, at).index_slot, id)

StoreReplace(s, r) ==
  LET at   == PlaceOf(s, r.id)
      old  == SlotAt(s, at)
      gone == RemoveIndexEntry(TakeOut(s, at), old.index_slot, r.id)
  IN  IF r.price = LevelOf(s, at).price /\ r.quantity < old.order.quantity
      THEN [s EXCEPT !.levels[at.side][at.level] =
              ReduceQuantity(@, at.slot, old.order.quantity - r.quantity)]
      ELSE StoreRest(gone, at.side, r.price,
             [id |-> r.id, account |-> r.account, quantity |-> r.quantity, sequence |-> 0])

\* from_state: the bids from the best level on, then the asks, each level from its head
FromState(b) ==
  LET rest(s, side, p) == FoldLeft(LAMBDA acc, order : StoreRest(acc, side, p, order),
                                   s, b[side][p])
      restSide(s, side) == FoldLeft(LAMBDA acc, p : rest(acc, side, p), s, BestFirst(b, side))
  IN  restSide(restSide(NewStore, "Buy"), "Sell")

-----------------------------------------------------------------------------
BookStoreInit ==
  /\ home \in Homes
  /\ store = NewStore
  /\ book = EmptyBook

Submit(b) ==
  \E id \in Ids, offer \in Offers :
    LET o == [id |-> id, account |-> Owner, side |-> offer.side, price |-> offer.price,
              quantity |-> offer.quantity, tif |-> "Gtc", instrument |-> Instrument]
    IN  /\ ~ContainsOrder(store, id)
        /\ SubmitReject(b, o) = Pass
        /\ store' = StoreSubmit(store, b, o)
        /\ book' = SubmitBook(book, o, 0)

Cancel ==
  \E id \in Ids :
    /\ Locates(store, id)
    /\ store' = StoreCancel(store, id)
    /\ book' = CancelBook(book, [id |-> id])

Replace(b) ==
  \E id \in Ids, offer \in Offers :
    LET r == [id |-> id, account |-> Owner, price |-> offer.price,
              quantity |-> offer.quantity, instrument |-> Instrument]
    IN  /\ Locates(store, id) /\ PlaceOf(store, id).side = offer.side
        /\ ReplaceReject(b, r) = Pass
        /\ store' = StoreReplace(store, r)
        /\ book' = ReplaceBook(book, r, 0)

\* A snapshot is taken and the book rebuilt from it.
Rebuild(b) == store' = FromState(b) /\ book' = book

BookStoreNext ==
  /\ \E b \in {View(store)} : Submit(b) \/ Cancel \/ Replace(b) \/ Rebuild(b)
  /\ UNCHANGED home

BookStoreSpec == BookStoreInit /\ [][BookStoreNext]_bookStoreVars

-----------------------------------------------------------------------------
(* The store holds the book: each level's FIFO in its order, the levels in  *)
(* price order with their totals, and an id is found at the place of its    *)
(* order exactly while it rests, whatever has left in between.              *)
StoreIsBook ==
  /\ View(store) = book
  /\ \A id \in Ids :
       /\ ContainsOrder(store, id) <=> Located(book, id) # {}
       /\ ContainsOrder(store, id) => Locates(store, id)
  /\ \A side \in Sides :
       /\ [i \in DOMAIN store.sorted[side] |-> store.sorted[side][i][1]] = BestFirst(book, side)
       /\ \A i \in DOMAIN store.sorted[side] :
            LET level == store.levels[side][store.sorted[side][i][2]]
            IN  /\ level.aggregate = Total(book[side][level.price])
                /\ level.len = Len(book[side][level.price])

(* No handle is stale and no slot is lost: every live order holds the slot  *)
(* of the index that holds it, and the index holds nothing else; a level's  *)
(* slots are its FIFO and its free list, its links agree both ways; a       *)
(* side's level slots are its levels and its pool.                          *)
HandlesAgree ==
  LET places == {at \in [side : Sides, level : LevelSlots, slot : Slots] :
                   LevelOf(store, at) # NoLevel /\ SlotAt(store, at).live}
      freeList(level) ==
        LET walk[n \in 0 .. OrdersPerLevel] ==
              IF n = 0 THEN <<>>
              ELSE LET next == IF walk[n - 1] = <<>> THEN level.free_head
                               ELSE level.slots[Last(walk[n - 1])].next_free
                   IN  IF next = Nil THEN walk[n - 1] ELSE Append(walk[n - 1], next)
        IN  walk[OrdersPerLevel]
  IN  /\ \A at \in places :
           LET slot == SlotAt(store, at)
           IN  /\ store.index[slot.index_slot] = [key |-> slot.order.id, value |-> Encode(at)]
               /\ slot.next # Nil => LevelOf(store, at).slots[slot.next].prev = at.slot
               /\ slot.prev # Nil => LevelOf(store, at).slots[slot.prev].next = at.slot
      /\ Cardinality({i \in Index!Positions : Index!Occupied(store.index, i)})
           = Cardinality(places)
      /\ \A side \in Sides :
           LET used == [i \in DOMAIN store.sorted[side] |-> store.sorted[side][i][2]]
           IN  /\ IsInjective(used \o store.pool[side])
               /\ ToSet(used \o store.pool[side]) = LevelSlots
               /\ \A i \in LevelSlots :
                    IF i \in ToSet(used)
                    THEN LET level == store.levels[side][i]
                             all   == Chain(level) \o freeList(level)
                         IN  IsInjective(all) /\ ToSet(all) = Slots
                    ELSE store.levels[side][i] = NoLevel
=============================================================================
