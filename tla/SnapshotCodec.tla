---------------------------- MODULE SnapshotCodec ----------------------------
(***************************************************************************)
(* crates/hft-recovery: encode_snapshot and decode_snapshot.  A snapshot   *)
(* is a sequence of tokens, one for each fixed-width field in the order    *)
(* the bytes have; a file may be cut, extended or altered at any token.    *)
(* SHA-256 is taken to be injective: the digest of something is the thing  *)
(* itself.  A gateway state has the fields book, risk, expected and        *)
(* received; accounts, ids and the instrument are numbers.                 *)
(***************************************************************************)
EXTENDS Gateway

Magic == 77
SnapshotVersion == 1
HashAlgorithm == 1
DigestSize == 32
HeaderSize == 14          \* tokens
DigestAt == 13

\* ACCOUNTS, RISK_ORDERS, LEVELS, ORDERS_PER_LEVEL
Capacities == <<Cardinality(Accounts), RiskOrders, Levels, OrdersPerLevel>>

SideTag == [Buy |-> 1, Sell |-> 2]
SideOf(tag) == IF tag = 1 THEN "Buy" ELSE "Sell"
Flag(b) == IF b THEN 1 ELSE 0
Optional(id) == <<Flag(id # 0), id>>
Ascending(S) == SetToSortSeq(S, <)

-----------------------------------------------------------------------------
(* encode_gateway_state                                                    *)

EncodeAccount(r, a) ==
  LET l == Limits[a]
      v == r.accounts[a]
  IN  <<a, l.max_quantity, l.max_notional, l.max_abs_position, l.max_open_orders,
        l.minimum_price, l.maximum_price, v.settled, v.buys, v.sells, v.open, Flag(v.killed)>>

EncodeReservation(r, id) ==
  LET v == r.reservations[id]
  IN  <<id, v.account, SideTag[v.side], v.quantity>>

EncodeLevel(b, side, p) ==
  <<SideTag[side], p, Len(b[side][p])>>
    \o FlattenSeq([i \in DOMAIN b[side][p] |->
         LET o == b[side][p][i]
         IN  <<o.id, o.account, SideTag[side], p, o.quantity, o.sequence>>])

\* Faulty variant: the levels of both sides are written by ascending price.
EncodeLevelsAscending(b, side) ==
  FlattenSeq([i \in DOMAIN BestFirst(b, side) |->
    EncodeLevel(b, side, Ascending(LevelPrices(b, side))[i])])

EncodeLevels(b, side) ==
  FlattenSeq([i \in DOMAIN BestFirst(b, side) |-> EncodeLevel(b, side, BestFirst(b, side)[i])])

EncodeState(s) ==
  LET accounts     == Ascending(Accounts)
      reservations == Ascending(Live(s.risk))
  IN  <<Instrument, s.expected>> \o Optional(s.received) \o Optional(s.risk.maximum_order_id)
        \o <<Flag(s.risk.killed), Len(accounts), Len(reservations),
             Len(BestFirst(s.book, "Buy")), Len(BestFirst(s.book, "Sell"))>>
        \o FlattenSeq([i \in DOMAIN accounts |-> EncodeAccount(s.risk, accounts[i])])
        \o FlattenSeq([i \in DOMAIN reservations |-> EncodeReservation(s.risk, reservations[i])])
        \o EncodeLevels(s.book, "Buy") \o EncodeLevels(s.book, "Sell")

\* Faulty variant: the digest covers the header alone.
SnapshotDigestOfHeader(header, payload) == <<[header EXCEPT ![DigestAt] = 0]>>

\* snapshot_digest: the header with no digest in it, and the payload
SnapshotDigest(header, payload) == <<[header EXCEPT ![DigestAt] = 0], payload>>

\* encode_snapshot of a gateway whose next sequence is the one after `applied'
EncodeSnapshot(s, applied) ==
  LET payload == EncodeState(s)
      header  == <<Magic, SnapshotVersion, HeaderSize, 0, HashAlgorithm, DigestSize,
                   Len(payload), applied>> \o Capacities \o <<0, 0>>
  IN  [header EXCEPT ![DigestAt] = SnapshotDigest(header, payload)] \o payload

-----------------------------------------------------------------------------
(* Input: the offset of the next token, the rows read and the first error.   *)

Reader(payload) == [payload |-> payload, offset |-> 0, rows |-> <<>>, error |-> Pass]

Plain(n) == [i \in 1 .. n |-> "number"]
StateFields == Plain(2) \o <<"flag", "number", "flag", "number", "flag">> \o Plain(4)
AccountFields == Plain(11) \o <<"flag">>
ReservationFields == <<"number", "number", "side", "number">>
LevelFields == <<"side", "number", "number">>
OrderFields == <<"number", "number", "side", "number", "number", "number">>

\* take, u8 .. i128, boolean and side
Read(in, kinds) ==
  LET at(i)    == in.offset + i
      wrong(i) == CASE at(i) > Len(in.payload) -> "Truncated"
                    [] kinds[i] = "flag" /\ in.payload[at(i)] \notin {0, 1} -> "InvalidBoolean"
                    [] kinds[i] = "side" /\ in.payload[at(i)] \notin {1, 2} -> "InvalidSide"
                    [] OTHER -> Pass
      bad      == {i \in DOMAIN kinds : wrong(i) # Pass}
  IN  IF in.error # Pass THEN in
      ELSE IF bad # {} THEN [in EXCEPT !.error = wrong(CHOOSE i \in bad : \A j \in bad : i <= j)]
      ELSE [in EXCEPT !.offset = @ + Len(kinds),
                      !.rows = Append(@, SubSeq(in.payload, at(1), at(Len(kinds))))]

ReadMany(in, kinds, n) ==
  FoldLeft(LAMBDA acc, i : Read(acc, kinds), in, [i \in 1 .. n |-> i])

Refuse(in, error) == IF in.error = Pass THEN [in EXCEPT !.error = error] ELSE in

\* level: its orders become part of its row
ReadLevel(in) ==
  LET head   == Read(in, LevelFields)
      count  == Last(head.rows)[3]
      orders == ReadMany(head, OrderFields, count)
      first  == Len(head.rows) + 1
  IN  IF head.error # Pass THEN head
      ELSE IF count > OrdersPerLevel THEN Refuse(head, "InvalidCount")
      ELSE IF orders.error # Pass THEN orders
      ELSE [orders EXCEPT !.rows =
              Append(in.rows, <<Last(head.rows), SubSeq(@, first, Len(@))>>)]

ReadLevels(in, n) == FoldLeft(LAMBDA acc, i : ReadLevel(acc), in, [i \in 1 .. n |-> i])

\* optional_order: an absent id is written as zero
NotCanonical(head) == (head[3] = 0 /\ head[4] # 0) \/ (head[5] = 0 /\ head[6] # 0)
TooMany(head) ==
  head[8] > Cardinality(Accounts) \/ head[9] > RiskOrders \/ head[10] > Levels
    \/ head[11] > Levels

\* decode_gateway_state up to the rows; a row of counts first
DecodeRows(payload) ==
  LET in   == Read(Reader(payload), StateFields)
      head == in.rows[1]
      all  == ReadLevels(ReadMany(ReadMany(in, AccountFields, head[8]),
                                  ReservationFields, head[9]), head[10] + head[11])
  IN  IF in.error # Pass THEN in
      ELSE IF NotCanonical(head) THEN Refuse(in, "NonCanonical")
      ELSE IF TooMany(head) THEN Refuse(in, "InvalidCount")
      ELSE IF all.offset # Len(payload) THEN Refuse(all, "TrailingBytes")
      ELSE all

\* The parts of what was read, by the counts in the first row
Rows(in, from, n) == SubSeq(in.rows, from + 1, from + n)
AccountRows(in) == Rows(in, 1, in.rows[1][8])
ReservationRows(in) == Rows(in, 1 + in.rows[1][8], in.rows[1][9])
LevelRows(in, side) ==
  LET from == 1 + in.rows[1][8] + in.rows[1][9]
  IN  IF side = "Buy" THEN Rows(in, from, in.rows[1][10])
      ELSE Rows(in, from + in.rows[1][10], in.rows[1][11])

\* The account definitions that restore compares with the configuration
Definitions(rows) == [i \in DOMAIN rows |-> SubSeq(rows[i], 1, 7)]

\* validate_side's demands on the order of levels and on what an order repeats of its
\* level.  A price outside the modelled ones counts as an invalid price.
SideWellFormed(rows, side) ==
  /\ \A i \in DOMAIN rows :
       /\ SideOf(rows[i][1][1]) = side /\ rows[i][1][2] \in Prices /\ rows[i][1][3] > 0
       /\ \A j \in DOMAIN rows[i][2] :
            rows[i][2][j][3] = rows[i][1][1] /\ rows[i][2][j][4] = rows[i][1][2]
  /\ \A i, j \in DOMAIN rows : i < j => Better(side, rows[i][1][2], rows[j][1][2])

Distinct(rows) == \A i, j \in DOMAIN rows : i # j => rows[i][1] # rows[j][1]

SideState(rows) ==
  [p \in Prices |->
    LET i == SelectInSeq(rows, LAMBDA row : row[1][2] = p)
    IN  IF i = 0 THEN <<>>
        ELSE [j \in DOMAIN rows[i][2] |->
               [id |-> rows[i][2][j][1], account |-> rows[i][2][j][2],
                quantity |-> rows[i][2][j][5], sequence |-> rows[i][2][j][6]]]]

RiskState(in) ==
  LET accounts     == AccountRows(in)
      reservations == ReservationRows(in)
      account(a)   == accounts[SelectInSeq(accounts, LAMBDA row : row[1] = a)]
      reservation(id) == reservations[SelectInSeq(reservations, LAMBDA row : row[1] = id)]
  IN  [accounts |-> [a \in {accounts[i][1] : i \in DOMAIN accounts} |->
          [settled |-> account(a)[8], buys |-> account(a)[9], sells |-> account(a)[10],
           open |-> account(a)[11], killed |-> account(a)[12] = 1]],
       reservations |-> [id \in {reservations[i][1] : i \in DOMAIN reservations} |->
          [account |-> reservation(id)[2], side |-> SideOf(reservation(id)[3]),
           quantity |-> reservation(id)[4]]],
       maximum_order_id |-> in.rows[1][6], killed |-> in.rows[1][7] = 1]

\* The gateway state decode_gateway_state returns
DecodedState(in) ==
  [book |-> [side \in Sides |-> SideState(LevelRows(in, side))], risk |-> RiskState(in),
   expected |-> in.rows[1][2], received |-> in.rows[1][4]]

-----------------------------------------------------------------------------
(* decode_snapshot: the first refusal, in three stages                       *)

HeaderReject(bytes) ==
  FirstReject(<<
    <<bytes[1] # Magic, "BadMagic">>,
    <<bytes[2] # SnapshotVersion, "UnsupportedVersion">>,
    <<bytes[3] # HeaderSize, "HeaderLength">>,
    <<bytes[4] # 0, "UnsupportedFlags">>,
    <<bytes[5] # HashAlgorithm, "UnsupportedHash">>,
    <<bytes[6] # DigestSize, "DigestLength">>,
    <<Len(bytes) < HeaderSize + bytes[7], "Truncated">>,
    <<Len(bytes) > HeaderSize + bytes[7], "TrailingBytes">>,
    <<SubSeq(bytes, 9, 12) # Capacities, "CapacityMismatch">>,
    <<bytes[14] # 0, "NonCanonical">>,
    <<SnapshotDigest(SubSeq(bytes, 1, HeaderSize), SubSeq(bytes, HeaderSize + 1, Len(bytes)))
        # bytes[DigestAt], "IntegrityMismatch">> >>)

Payload(bytes) == SubSeq(bytes, HeaderSize + 1, Len(bytes))

\* Gateway::from_state.  Whether the accounts are the configured ones is asked first
\* here; the code asks last, and refuses all the same.
StateReject(in, definitions) ==
  LET s == DecodedState(in)
  IN  IF Definitions(AccountRows(in)) # definitions THEN "Mismatch"
      ELSE IF ~(SideWellFormed(LevelRows(in, "Buy"), "Buy")
                  /\ SideWellFormed(LevelRows(in, "Sell"), "Sell")) THEN "Book"
      ELSE IF ~BookStateValid(s.book) THEN "Book"
      ELSE IF ~(Distinct(ReservationRows(in)) /\ RiskStateValid(s.risk)) THEN "Risk"
      ELSE IF ~CrossValid(s.book, s.risk, s.expected, s.received) THEN "Watermark"
      ELSE IF ~WithinLimits(s.book) THEN "OrderLimit"
      ELSE Pass

DecodeReject(bytes, definitions) ==
  IF Len(bytes) < HeaderSize THEN "Truncated"
  ELSE IF HeaderReject(bytes) # Pass THEN HeaderReject(bytes)
  ELSE LET in == DecodeRows(Payload(bytes))
       IN  IF in.error # Pass THEN in.error
           ELSE IF in.rows[1][2] # bytes[8] + 1 THEN "InvalidSequence"
           ELSE StateReject(in, definitions)
=============================================================================
