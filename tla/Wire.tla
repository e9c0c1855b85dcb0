-------------------------------- MODULE Wire --------------------------------
(***************************************************************************)
(* crates/hft-wire: commands as frames of bytes.  A frame is a length and  *)
(* the values found at byte offsets; a field wider than a byte is one      *)
(* value at its first byte.  Where encode_* writes a field and where       *)
(* to_owned reads it are separate tables, as they are in the code.         *)
(***************************************************************************)
EXTENDS Integers, Sequences

ProtocolVersion == 2
TypeCode == [New |-> 1, Cancel |-> 2, Replace |-> 3]
FrameLen == [New |-> 46, Cancel |-> 28, Replace |-> 44]
SideCode == [Buy |-> 1, Sell |-> 2]
TifCode == [Gtc |-> 1, Ioc |-> 2, Fok |-> 3, PostOnly |-> 4]

\* encode_new_order, encode_cancel_order, encode_replace_order
WrittenAt ==
  [New     |-> [id |-> 4, account |-> 12, instrument |-> 16, price |-> 20, quantity |-> 28,
                sequence |-> 36, side |-> 44, tif |-> 45],
   Cancel  |-> [id |-> 4, account |-> 12, instrument |-> 16, sequence |-> 20],
   Replace |-> [id |-> 4, account |-> 12, instrument |-> 16, sequence |-> 20, price |-> 28,
                quantity |-> 36]]

\* The to_owned of each message
ReadAt ==
  [New     |-> [id |-> 4, account |-> 12, instrument |-> 16, price |-> 20, quantity |-> 28,
                sequence |-> 36, side |-> 44, tif |-> 45],
   Cancel  |-> [id |-> 4, account |-> 12, instrument |-> 16, sequence |-> 20],
   Replace |-> [id |-> 4, account |-> 12, instrument |-> 16, sequence |-> 20, price |-> 28,
                quantity |-> 36]]

\* read_u64, read_i64, read_u32: a number of any width is one value at its first byte
ReadNumber(f, offset) == f.bytes[offset]

Coded(field, value) ==
  CASE field = "side" -> SideCode[value] [] field = "tif" -> TifCode[value] [] OTHER -> value
Decoded(field, byte) ==
  CASE field = "side" -> IF byte = SideCode.Buy THEN "Buy" ELSE "Sell"
    [] field = "tif"  -> CASE byte = TifCode.Gtc -> "Gtc" [] byte = TifCode.Ioc -> "Ioc"
                           [] byte = TifCode.Fok -> "Fok" [] OTHER -> "PostOnly"
    [] OTHER          -> byte

EncodeFrame(c) ==
  LET at    == WrittenAt[c.type]
      field(offset) == CHOOSE f \in DOMAIN at : at[f] = offset
  IN  [len |-> FrameLen[c.type],
       bytes |-> [offset \in {0, 1, 2} \cup {at[f] : f \in DOMAIN at} |->
                   CASE offset = 0 -> ProtocolVersion
                     [] offset = 1 -> TypeCode[c.type]
                     [] offset = 2 -> FrameLen[c.type]
                     [] OTHER -> Coded(field(offset), c[field(offset)])]]

\* What is left of a frame that is cut after `n' bytes
CutFrame(f, n) ==
  IF n >= f.len THEN f
  ELSE [len |-> n, bytes |-> [offset \in {x \in DOMAIN f.bytes : x < n} |-> f.bytes[offset]]]

\* parse_message: the first refusal.  The side and the time in force are looked at last.
ParseError(f) ==
  LET type == CHOOSE t \in DOMAIN TypeCode : TypeCode[t] = f.bytes[1]
  IN  IF f.len < 4 THEN "TruncatedHeader"
      ELSE IF f.bytes[0] # ProtocolVersion THEN "UnsupportedVersion"
      ELSE IF f.bytes[2] # f.len THEN "InvalidLength"
      ELSE IF \A t \in DOMAIN TypeCode : TypeCode[t] # f.bytes[1] THEN "UnknownMessageType"
      ELSE IF f.len # FrameLen[type] THEN "InvalidLength"
      ELSE IF type = "New" /\ f.bytes[44] \notin {1, 2} THEN "InvalidSide"
      ELSE IF type = "New" /\ f.bytes[45] \notin {1, 2, 3, 4} THEN "InvalidTimeInForce"
      ELSE "none"

\* BorrowedMessage::to_command, and sequence, which reads at offsets of its own
ToCommand(f) ==
  LET type == CHOOSE t \in DOMAIN TypeCode : TypeCode[t] = f.bytes[1]
      at   == ReadAt[type]
  IN  [x \in DOMAIN at \cup {"type"} |->
         IF x = "type" THEN type ELSE Decoded(x, ReadNumber(f, at[x]))]
FrameSequence(f) == ReadNumber(f, IF f.bytes[1] = TypeCode.New THEN 36 ELSE 20)
=============================================================================
