----------------------------- MODULE LinkProofs -----------------------------
(***************************************************************************)
(* Exactly-once delivery over a lossy link, for any payloads, window, ring *)
(* capacity, cuts and number of reconnects.                                *)
(***************************************************************************)
EXTENDS Link, SequenceTheorems, TLAPS

Numbers == 1 .. MaxSequence - 1
Frame(n) == EncodeFrame(Command(n))
Entry(n) == [sequence |-> n, frame |-> Frame(n)]
Commands == {Command(n) : n \in Numbers}
Entries == {Entry(n) : n \in Numbers}
Frames == {Frame(n) : n \in Numbers}

\* What may come out of the ring: a frame, or a frame that was cut
CutFrames == {CutFrame(f, n) : f \in Frames, n \in Nat}
ShortOf(g, n) == \E k \in Nat : k < Frame(n).len /\ g = CutFrame(Frame(n), k)
CameFrom(g, n) == g = Frame(n) \/ ShortOf(g, n)

\* Both ends count from one: the n-th command is the one with sequence n.
HistoryInv ==
  /\ issued \in Seq(Commands) /\ delivered \in Seq(Commands)
  /\ Len(delivered) <= Len(issued) /\ Len(issued) < MaxSequence
  /\ \A i \in 1 .. Len(issued) : issued[i] = Command(i)
  /\ \A i \in 1 .. Len(delivered) : delivered[i] = Command(i)

\* The number of frames the window has let go
Base == Len(issued) - Len(buffer.entries)

\* The window holds what was issued after them, and all of them were accepted.
WindowInv ==
  /\ buffer \in [entries : Seq(Entries), next_sequence : Nat]
  /\ buffer.next_sequence = Len(issued) + 1
  /\ Base \in 0 .. Len(delivered)
  /\ \A i \in 1 .. Len(buffer.entries) : buffer.entries[i] = Entry(Base + i)

\* Only what was issued is on its way, and only what was accepted is confirmed.
FlightInv ==
  /\ \A f \in network : \E n \in 1 .. Len(issued) : f = Frame(n)
  /\ rx \in Seq(Frames \cup CutFrames)
  /\ \A i \in 1 .. Len(rx) : \E n \in 1 .. Len(issued) : CameFrom(rx[i], n)
  /\ confirms \subseteq 1 .. Len(delivered)

\* A session that is up expects the command after the last it accepted, and one that
\* is down resumes there.
ResumeInv ==
  /\ session.state \in {"Active", "Recovering", "Disconnected", "Failed"}
  /\ session.state \in {"Active", "Recovering"} => session.next = Len(delivered) + 1
  /\ session.state \in {"Disconnected", "Failed"} => session.deadline = NoDeadline
  /\ session.state = "Disconnected" => resume = Len(delivered) + 1

LinkInv == HistoryInv /\ WindowInv /\ FlightInv /\ ResumeInv
-----------------------------------------------------------------------------
(* The codec.                                                              *)

Types == {"New", "Cancel", "Replace"}

\* A command as the encoders take it
Encodable(c) ==
  /\ c.type \in Types
  /\ DOMAIN c = {"type"} \cup DOMAIN WrittenAt[c.type]
  /\ c = [x \in DOMAIN c |-> c[x]]
  /\ c.type = "New" => c.side \in {"Buy", "Sell"} /\ c.tif \in {"Gtc", "Ioc", "Fok", "PostOnly"}

\* No two fields share an offset, and none lies in the header.
LEMMA Offsets ==
  ASSUME NEW t \in Types
  PROVE  /\ "sequence" \in DOMAIN WrittenAt[t]
         /\ \A f \in DOMAIN WrittenAt[t] : WrittenAt[t][f] \in Nat \ {0, 1, 2}
         /\ \A f, g \in DOMAIN WrittenAt[t] : WrittenAt[t][f] = WrittenAt[t][g] => f = g
         /\ ReadAt[t] = WrittenAt[t]
         /\ WrittenAt[t]["sequence"] = IF t = "New" THEN 36 ELSE 20
         /\ TypeCode[t] = 1 <=> t = "New"
         /\ "type" \notin DOMAIN WrittenAt[t]
<1>1. CASE t = "New"
  BY <1>1 DEF WrittenAt, ReadAt, TypeCode
<1>2. CASE t = "Cancel"
  BY <1>2 DEF WrittenAt, ReadAt, TypeCode
<1>3. CASE t = "Replace"
  BY <1>3 DEF WrittenAt, ReadAt, TypeCode
<1> QED BY <1>1, <1>2, <1>3 DEF Types

\* The header of an encoded frame, and each field at its offset
LEMMA Encoded ==
  ASSUME NEW c, Encodable(c)
  PROVE  LET f == EncodeFrame(c)  at == WrittenAt[c.type]
         IN  /\ f.len = FrameLen[c.type]
             /\ {0, 1, 2} \subseteq DOMAIN f.bytes
             /\ f.bytes[0] = ProtocolVersion
             /\ f.bytes[1] = TypeCode[c.type]
             /\ f.bytes[2] = FrameLen[c.type]
             /\ \A x \in DOMAIN at : at[x] \in DOMAIN f.bytes
                                     /\ f.bytes[at[x]] = Coded(x, c[x])
<1> DEFINE at == WrittenAt[c.type]
           field(offset) == CHOOSE x \in DOMAIN at : at[x] = offset
           dom == {0, 1, 2} \cup {at[x] : x \in DOMAIN at}
           byte(offset) == CASE offset = 0 -> ProtocolVersion
                             [] offset = 1 -> TypeCode[c.type]
                             [] offset = 2 -> FrameLen[c.type]
                             [] OTHER -> Coded(field(offset), c[field(offset)])
           body == [offset \in dom |-> byte(offset)]
<1>1. EncodeFrame(c) = [len |-> FrameLen[c.type], bytes |-> body]
  BY DEF EncodeFrame
<1>2. EncodeFrame(c).len = FrameLen[c.type] /\ EncodeFrame(c).bytes = body
  BY <1>1
<1>3. DOMAIN body = dom /\ \A o \in dom : body[o] = byte(o)
  OBVIOUS
<1>4. /\ \A x \in DOMAIN at : at[x] \notin {0, 1, 2}
      /\ \A x, y \in DOMAIN at : at[x] = at[y] => x = y
  BY Offsets DEF Encodable
<1>5. ASSUME NEW x \in DOMAIN at
      PROVE  at[x] \in dom /\ byte(at[x]) = Coded(x, c[x])
  <2>1. field(at[x]) = x
    <3> HIDE DEF at
    <3> QED BY <1>4
  <2>2. byte(at[x]) = Coded(field(at[x]), c[field(at[x])])
    <3> HIDE DEF at, field
    <3> QED BY <1>4
  <2> QED BY <2>1, <2>2
<1>6. byte(0) = ProtocolVersion /\ byte(1) = TypeCode[c.type] /\ byte(2) = FrameLen[c.type]
  OBVIOUS
<1>7. 0 \in dom /\ 1 \in dom /\ 2 \in dom
  OBVIOUS
<1> HIDE DEF dom, byte, body
<1> QED BY <1>2, <1>3, <1>5, <1>6, <1>7

\* The type a frame is read as is the type that was encoded.
LEMMA TypeIsRead ==
  ASSUME NEW t \in Types
  PROVE  /\ (CHOOSE u \in DOMAIN TypeCode : TypeCode[u] = TypeCode[t]) = t
         /\ t \in DOMAIN TypeCode
BY DEF Types, TypeCode

\* Coding and decoding a side, a time in force or a number gives it back.
LEMMA CodeRoundTrip ==
  ASSUME NEW x, NEW v,
         x = "side" => v \in {"Buy", "Sell"},
         x = "tif" => v \in {"Gtc", "Ioc", "Fok", "PostOnly"}
  PROVE  /\ Decoded(x, Coded(x, v)) = v
         /\ x = "side" => Coded(x, v) \in {1, 2}
         /\ x = "tif" => Coded(x, v) \in {1, 2, 3, 4}
<1>1. CASE x = "side"
  BY <1>1 DEF Decoded, Coded, SideCode
<1>2. CASE x = "tif"
  BY <1>2 DEF Decoded, Coded, TifCode
<1>3. CASE x # "side" /\ x # "tif"
  BY <1>3 DEF Decoded, Coded
<1> QED BY <1>1, <1>2, <1>3
\* hft-wire: the frame of every command is parsed, and to_command and sequence give
\* back every field as it was encoded.
THEOREM RoundTrip ==
  ASSUME NEW c, Encodable(c)
  PROVE  /\ ParseError(EncodeFrame(c)) = "none"
         /\ ToCommand(EncodeFrame(c)) = c
         /\ FrameSequence(EncodeFrame(c)) = c.sequence
<1> DEFINE f == EncodeFrame(c)
           t == c.type
           at == WrittenAt[t]
<1>1. /\ f.len = FrameLen[t] /\ f.bytes[0] = ProtocolVersion
      /\ f.bytes[1] = TypeCode[t] /\ f.bytes[2] = FrameLen[t]
  BY Encoded
<1>2. \A x \in DOMAIN at : f.bytes[at[x]] = Coded(x, c[x])
  BY Encoded
<1>3. t \in Types /\ DOMAIN c = {"type"} \cup DOMAIN at /\ c = [x \in DOMAIN c |-> c[x]]
  BY DEF Encodable
<1>4. t = "New" => c.side \in {"Buy", "Sell"} /\ c.tif \in {"Gtc", "Ioc", "Fok", "PostOnly"}
  BY DEF Encodable
<1>5. (CHOOSE u \in DOMAIN TypeCode : TypeCode[u] = f.bytes[1]) = t /\ t \in DOMAIN TypeCode
  BY <1>1, <1>3, TypeIsRead
<1>6. \A x \in DOMAIN at : x \in {"side", "tif"} => t = "New"
  BY <1>3 DEF WrittenAt, Types
<1>7. \A x \in DOMAIN at : Decoded(x, f.bytes[at[x]]) = c[x]
  <2> TAKE x \in DOMAIN at
  <2>1. /\ x = "side" => c[x] \in {"Buy", "Sell"}
        /\ x = "tif" => c[x] \in {"Gtc", "Ioc", "Fok", "PostOnly"}
    BY <1>4, <1>6
  <2>2. Decoded(x, Coded(x, c[x])) = c[x]
    BY <2>1, CodeRoundTrip
  <2> QED BY <2>2, <1>2
<1>8. ReadAt[t] = at /\ "type" \notin DOMAIN at
  BY <1>3, Offsets
<1>9. ToCommand(f) = c
  <2>1. ToCommand(f) = [x \in DOMAIN at \cup {"type"} |->
                          IF x = "type" THEN t ELSE Decoded(x, f.bytes[at[x]])]
    <3> DEFINE type == CHOOSE u \in DOMAIN TypeCode : TypeCode[u] = f.bytes[1]
               read(u) == [x \in DOMAIN ReadAt[u] \cup {"type"} |->
                             IF x = "type" THEN u ELSE Decoded(x, f.bytes[ReadAt[u][x]])]
    <3>1. ToCommand(f) = read(type)
      BY Zenon DEF ToCommand, ReadNumber
    <3>2. read(type) = read(t)
      <4>1. type = t
        BY <1>5
      <4> HIDE DEF f, type, t
      <4> QED BY <4>1
    <3>3. read(t) = [x \in DOMAIN at \cup {"type"} |->
                       IF x = "type" THEN t ELSE Decoded(x, f.bytes[at[x]])]
      <4> HIDE DEF f, at, t
      <4> QED BY <1>8
    <3> QED BY <3>1, <3>2, <3>3
  <2>2. \A x \in DOMAIN at \cup {"type"} :
          (IF x = "type" THEN t ELSE Decoded(x, f.bytes[at[x]])) = c[x]
    <3> HIDE DEF f, at
    <3> QED BY <1>7, <1>8
  <2>3. ToCommand(f) = [x \in DOMAIN at \cup {"type"} |-> c[x]]
    <3> HIDE DEF f, at
    <3> QED BY <2>1, <2>2
  <2> QED BY <2>3, <1>3
<1>10. FrameSequence(f) = c.sequence
  <2>1. /\ at["sequence"] = IF t = "New" THEN 36 ELSE 20
        /\ "sequence" \in DOMAIN at
        /\ TypeCode[t] = 1 <=> t = "New"
    BY <1>3, Offsets
  <2>2. f.bytes[at["sequence"]] = c.sequence
    BY <2>1, <1>2 DEF Coded
  <2>3. TypeCode.New = 1
    BY DEF TypeCode
  <2> HIDE DEF f, at
  <2> QED BY <2>1, <2>2, <2>3, <1>1 DEF FrameSequence, ReadNumber
<1>11. ParseError(f) = "none"
  <2>1. f.len >= 4 /\ f.bytes[0] = ProtocolVersion /\ f.bytes[2] = f.len
    <3>1. FrameLen[t] \in {46, 28, 44}
      BY <1>3 DEF FrameLen, Types
    <3> HIDE DEF f, at
    <3> QED BY <3>1, <1>1
  <2>2. t = "New" => f.bytes[44] \in {1, 2} /\ f.bytes[45] \in {1, 2, 3, 4}
    <3> SUFFICES ASSUME t = "New"
                 PROVE  f.bytes[44] \in {1, 2} /\ f.bytes[45] \in {1, 2, 3, 4}
      OBVIOUS
    <3>1. /\ "side" \in DOMAIN at /\ at["side"] = 44
          /\ "tif" \in DOMAIN at /\ at["tif"] = 45
      BY DEF WrittenAt
    <3>2. Coded("side", c.side) \in {1, 2} /\ Coded("tif", c.tif) \in {1, 2, 3, 4}
      BY <1>4, CodeRoundTrip
    <3> HIDE DEF f, at
    <3> QED BY <3>1, <3>2, <1>2
  <2>3. ~(f.len < 4)
    <3>1. FrameLen[t] \in {46, 28, 44}
      BY <1>3 DEF FrameLen, Types
    <3> HIDE DEF f, at
    <3> QED BY <3>1, <1>1
  <2>4. ~(\A u \in DOMAIN TypeCode : TypeCode[u] # f.bytes[1])
    BY <1>1, <1>5
  <2> HIDE DEF f, at, t
  <2> QED BY <2>1, <2>2, <2>3, <2>4, <1>1, <1>5 DEF ParseError
<1> QED BY <1>9, <1>10, <1>11

\* hft-wire: a frame cut to any length is refused by parse_message, since its length
\* field still says how long it was.
THEOREM CutIsRefused ==
  ASSUME NEW c, Encodable(c), NEW k \in Nat, k < EncodeFrame(c).len
  PROVE  ParseError(CutFrame(EncodeFrame(c), k)) # "none"
<1> DEFINE f == EncodeFrame(c)
           g == CutFrame(f, k)
<1>1. /\ f.len = FrameLen[c.type] /\ {0, 1, 2} \subseteq DOMAIN f.bytes
      /\ f.bytes[2] = FrameLen[c.type]
  BY Encoded
<1>2. FrameLen[c.type] \in {46, 28, 44}
  BY DEF FrameLen, Types, Encodable
<1>3. g = [len |-> k,
           bytes |-> [offset \in {x \in DOMAIN f.bytes : x < k} |-> f.bytes[offset]]]
  <2>1. k < f.len
    OBVIOUS
  <2> HIDE DEF f
  <2> QED BY <2>1, <1>1, <1>2 DEF CutFrame
<1> HIDE DEF f, g
<1>4. g.len = k /\ (2 < k => g.bytes[2] = f.bytes[2])
  BY <1>1, <1>3
<1>5. k < f.len
  BY DEF f
<1>6. k < 4 => ParseError(g) # "none"
  BY <1>4 DEF ParseError
<1>7. ~(k < 4) => ParseError(g) # "none"
  <2>1. ~(k < 4) => g.bytes[2] # g.len
    BY <1>1, <1>2, <1>4, <1>5
  <2> QED BY <2>1 DEF ParseError
<1>8. ParseError(g) # "none"
  BY <1>6, <1>7
<1> QED BY <1>8 DEF f, g

-----------------------------------------------------------------------------
(* The commands of the peer.                                               *)

LEMMA CommandIsEncodable ==
  ASSUME NEW n \in Numbers
  PROVE  Encodable(Command(n)) /\ Command(n).sequence = n
<1> DEFINE p == Payloads[n]
           c == Command(n)
<1>1. /\ p.type \in {"New", "Cancel", "Replace"}
      /\ DOMAIN p = {"type"} \cup (DOMAIN WrittenAt[p.type] \ {"sequence"})
      /\ p.type = "New" => p.side \in {"Buy", "Sell"}
                           /\ p.tif \in {"Gtc", "Ioc", "Fok", "PostOnly"}
  BY LinkAssumption DEF Numbers
<1>2. c = [x \in DOMAIN p \cup {"sequence"} |-> IF x = "sequence" THEN n ELSE p[x]]
  BY DEF Command
<1> HIDE DEF p, c
<1>3. c.sequence = n /\ c.type = p.type /\ DOMAIN c = DOMAIN p \cup {"sequence"}
  BY <1>1, <1>2
<1>4. "sequence" \in DOMAIN WrittenAt[p.type]
  BY <1>1, Offsets DEF Types
<1>5. p.type = "New" => "side" \in DOMAIN p /\ "tif" \in DOMAIN p
  BY <1>1 DEF WrittenAt
<1>6. p.type = "New" => c.side = p.side /\ c.tif = p.tif
  BY <1>2, <1>5
<1>7. c = [x \in DOMAIN c |-> c[x]]
  BY <1>2
<1>8. DOMAIN c = {"type"} \cup DOMAIN WrittenAt[c.type]
  BY <1>1, <1>3, <1>4
<1>9. Encodable(c)
  BY <1>1, <1>3, <1>6, <1>7, <1>8 DEF Encodable, Types
<1> QED BY <1>3, <1>9 DEF c

\* A frame of the peer is read as its command.
LEMMA FrameIsRead ==
  ASSUME NEW n \in Numbers
  PROVE  ToCommand(Frame(n)) = Command(n) /\ FrameSequence(Frame(n)) = n
BY CommandIsEncodable, RoundTrip DEF Frame

\* What is read from the ring without an error is a whole frame.
LEMMA ParsedIsWhole ==
  ASSUME NEW n \in Numbers, NEW g, CameFrom(g, n), ParseError(g) = "none"
  PROVE  g = Frame(n)
BY CommandIsEncodable, CutIsRefused DEF CameFrom, ShortOf, Frame
-----------------------------------------------------------------------------
(* The window and the session.                                             *)

LEMMA EntryFields == \A n : Entry(n).sequence = n /\ Entry(n).frame = Frame(n)
BY DEF Entry

\* A confirmation pops frames up to the number it names, and no other.
LEMMA ConfirmDrops ==
  ASSUME NEW es \in Seq(Entries), NEW b \in Nat, NEW c \in Nat,
         \A i \in 1 .. Len(es) : es[i] = Entry(b + i)
  PROVE  LET d    == Dropped(es, c)
             rest == SubSeq(es, d + 1, Len(es))
         IN  /\ d \in 0 .. Len(es)
             /\ d > 0 => b + d <= c
             /\ d < Len(es) => b + d + 1 > c
             /\ rest \in Seq(Entries)
             /\ Len(rest) = Len(es) - d
             /\ \A i \in 1 .. Len(rest) : rest[i] = Entry(b + d + i)
<1> DEFINE P(d) == /\ \A i \in 1 .. d : es[i].sequence <= c
                   /\ d < Len(es) => es[d + 1].sequence > c
           d == Dropped(es, c)
           rest == SubSeq(es, d + 1, Len(es))
<1>1. Len(es) \in Nat /\ \A i \in 1 .. Len(es) : es[i].sequence = b + i
  BY EntryFields
<1>2. \E k \in 0 .. Len(es) : P(k)
  <2>1. CASE c <= b
    <3>1. 0 \in 0 .. Len(es) /\ \A i \in 1 .. 0 : es[i].sequence <= c
      BY <1>1
    <3>2. 0 < Len(es) => es[0 + 1].sequence > c
      <4>1. 0 < Len(es) => 0 + 1 \in 1 .. Len(es) /\ b + (0 + 1) > c
        BY <1>1, <2>1
      <4> QED BY <4>1, <1>1
    <3> QED BY <3>1, <3>2
  <2>2. CASE c > b /\ c <= b + Len(es)
    <3> DEFINE k == c - b
    <3>1. k \in 0 .. Len(es) /\ b + k = c
      BY <1>1, <2>2
    <3> HIDE DEF k
    <3>2. \A i \in 1 .. k : es[i].sequence <= c
      <4>1. \A i \in 1 .. k : i \in 1 .. Len(es) /\ b + i <= c
        BY <1>1, <3>1
      <4> QED BY <4>1, <1>1
    <3>3. k < Len(es) => es[k + 1].sequence > c
      <4>1. k < Len(es) => k + 1 \in 1 .. Len(es) /\ b + (k + 1) > c
        BY <1>1, <3>1
      <4> QED BY <4>1, <1>1
    <3> QED BY <3>1, <3>2, <3>3
  <2>3. CASE c > b + Len(es)
    <3>1. Len(es) \in 0 .. Len(es) /\ \A i \in 1 .. Len(es) : b + i <= c
      BY <1>1, <2>3
    <3>2. \A i \in 1 .. Len(es) : es[i].sequence <= c
      BY <3>1, <1>1
    <3>3. ~(Len(es) < Len(es))
      BY <1>1
    <3> QED BY <3>1, <3>2, <3>3
  <2>4. c <= b \/ (c > b /\ c <= b + Len(es)) \/ c > b + Len(es)
    BY <1>1
  <2> HIDE DEF P
  <2> QED BY <2>1, <2>2, <2>3, <2>4
<1>3. d = CHOOSE k \in 0 .. Len(es) : P(k)
  BY DEF Dropped
<1> HIDE DEF d
<1>4. d \in 0 .. Len(es) /\ P(d)
  <2> HIDE DEF P
  <2> QED BY <1>2, <1>3
<1>5. (d > 0 => b + d <= c) /\ (d < Len(es) => b + d + 1 > c)
  <2>1. d > 0 => b + d <= c
    BY <1>1, <1>4
  <2>2. d < Len(es) => d + 1 \in 1 .. Len(es) /\ b + (d + 1) = b + d + 1
    BY <1>1, <1>4
  <2>3. d < Len(es) => es[d + 1].sequence > c
    BY <1>4
  <2>4. d < Len(es) => es[d + 1].sequence = b + (d + 1)
    BY <1>1, <2>2
  <2> QED BY <2>1, <2>2, <2>3, <2>4
<1>6. rest \in Seq(Entries) /\ Len(rest) = Len(es) - d
      /\ \A i \in 1 .. Len(rest) : rest[i] = es[d + i]
  <2>1. /\ d + 1 \in 1 .. Len(es) + 1
        /\ Len(es) \in d .. Len(es)
    BY <1>1, <1>4
  <2>2. /\ rest \in Seq(Entries)
        /\ Len(rest) = IF d + 1 <= Len(es) THEN Len(es) - (d + 1) + 1 ELSE 0
        /\ \A i \in 1 .. Len(es) - (d + 1) + 1 : rest[i] = es[(d + 1) + i - 1]
    BY <2>1, SubSeqProperties, <1>1, <1>4
  <2>3. /\ Len(rest) = Len(es) - d
        /\ Len(es) - (d + 1) + 1 = Len(es) - d
        /\ \A i \in 1 .. Len(es) - d : (d + 1) + i - 1 = d + i
    <3> HIDE DEF rest
    <3> QED BY <2>2, <1>1, <1>4
  <2> HIDE DEF rest
  <2> QED BY <2>2, <2>3
<1>7. \A i \in 1 .. Len(rest) : rest[i] = Entry(b + d + i)
  <2> HIDE DEF rest
  <2> SUFFICES ASSUME NEW i \in 1 .. Len(rest) PROVE rest[i] = Entry(b + d + i)
    OBVIOUS
  <2>1. d + i \in 1 .. Len(es) /\ b + (d + i) = b + d + i
    BY <1>1, <1>4, <1>6
  <2> QED BY <2>1, <1>6
<1> QED BY <1>4, <1>5, <1>6, <1>7 DEF d

\* A logon makes the session active at the number it was given.
LEMMA ActivateIs ==
  ASSUME NEW s, NEW first
  PROVE  Activate(s, first) = Fields("Active", first, Now + HeartbeatTimeout, 0)
<1> DEFINE e(kind, n) == [kind |-> kind, seq |-> n]
           s1 == After(s, e("Connect", 0), Now)
           s2 == After(s1, e("LogonSent", 0), Now)
<1>1. Activate(s, first) = After(s2, e("LogonAccepted", first), Now)
  BY DEF Activate
<1> HIDE DEF s1, s2
<1>3. After(s2, e("LogonAccepted", first), Now) =
        Counting(Arm(s2, "Active", HeartbeatTimeout, Now), first)
  BY DEF After
<1> QED BY <1>1, <1>3 DEF Counting, Arm, Fields

\* An accepted command advances the session by one; the rest of handle and tick.
LEMMA SessionSteps ==
  ASSUME NEW s, NEW n
  PROVE  /\ Accepts(s, CommandEvent(n), Now) =>
              s.state \in {"Active", "Recovering"} /\ n = s.next
         /\ After(s, CommandEvent(n), Now) =
              Fields("Active", s.next + 1, Now + HeartbeatTimeout, 0)
         /\ After(s, [kind |-> "Disconnect", seq |-> 0], Now) =
              Fields("Disconnected", 1, NoDeadline, 0)
         /\ Expired(s, s.deadline) /\ s.state = "Active" =>
              Ticked(s, s.deadline) = Fields("Recovering", s.next,
                                             s.deadline + HeartbeatTimeout, s.timeouts + 1)
         /\ Expired(s, s.deadline) /\ s.state = "Recovering" =>
              Ticked(s, s.deadline) = Fields("Failed", 1, NoDeadline, 0)
<1>1. Accepts(s, CommandEvent(n), Now) => s.state \in {"Active", "Recovering"} /\ n = s.next
  BY DEF Accepts, CommandEvent
<1>2. After(s, CommandEvent(n), Now) = Fields("Active", s.next + 1, Now + HeartbeatTimeout, 0)
  BY DEF After, CommandEvent, Counting, Arm, Fields
<1>3. After(s, [kind |-> "Disconnect", seq |-> 0], Now) = Fields("Disconnected", 1, NoDeadline, 0)
  BY DEF After, Enter, Reset, Fields
<1>4. Expired(s, s.deadline) /\ s.state = "Active" =>
        Ticked(s, s.deadline) = Fields("Recovering", s.next,
                                       s.deadline + HeartbeatTimeout, s.timeouts + 1)
  BY DEF Ticked
<1>5. Expired(s, s.deadline) /\ s.state = "Recovering" =>
        Ticked(s, s.deadline) = Fields("Failed", 1, NoDeadline, 0)
  BY DEF Ticked, Enter, Reset, Fields
<1> QED BY <1>1, <1>2, <1>3, <1>4, <1>5

LEMMA FieldsAre ==
  ASSUME NEW state, NEW next, NEW deadline, NEW timeouts
  PROVE  LET s == Fields(state, next, deadline, timeouts)
         IN  s.state = state /\ s.next = next /\ s.deadline = deadline
BY DEF Fields

-----------------------------------------------------------------------------
(* The steps.                                                              *)

\* Nothing is issued, on its way or accepted.
LEMMA LinkInitInv == LinkInit => LinkInv
<1> SUFFICES ASSUME LinkInit PROVE LinkInv
  OBVIOUS
<1>1. session = Fields("Active", 1, Now + HeartbeatTimeout, 0)
  BY ActivateIs DEF LinkInit
<1>2. ResumeInv
  BY <1>1, FieldsAre DEF ResumeInv, LinkInit
<1>3. HistoryInv
  BY RetransmitAssumption DEF HistoryInv, LinkInit
<1>4. WindowInv
  BY DEF WindowInv, LinkInit, NewBuffer, Base
<1>5. FlightInv
  BY DEF FlightInv, LinkInit
<1> QED BY <1>2, <1>3, <1>4, <1>5 DEF LinkInv
\* What the invariants say of the lengths
LEMMA Lengths ==
  ASSUME LinkInv
  PROVE  /\ Len(issued) \in Nat /\ Len(delivered) \in Nat /\ Len(buffer.entries) \in Nat
         /\ Len(delivered) <= Len(issued) /\ Len(issued) < MaxSequence
         /\ 1 .. Len(issued) \subseteq Numbers
         /\ Base \in 0 .. Len(delivered) /\ buffer.next_sequence = Len(issued) + 1
         /\ MaxSequence \in Nat
<1>1. issued \in Seq(Commands) /\ delivered \in Seq(Commands)
      /\ Len(delivered) <= Len(issued) /\ Len(issued) < MaxSequence
  BY DEF LinkInv, HistoryInv
<1>2. buffer.entries \in Seq(Entries) /\ buffer.next_sequence = Len(issued) + 1
      /\ Base \in 0 .. Len(delivered)
  BY DEF LinkInv, WindowInv
<1>3. MaxSequence \in Nat
  BY RetransmitAssumption
<1>4. Len(issued) \in Nat /\ Len(delivered) \in Nat /\ Len(buffer.entries) \in Nat
  BY <1>1, <1>2
<1>5. 1 .. Len(issued) \subseteq Numbers
  BY <1>1, <1>3, <1>4 DEF Numbers
<1> QED BY <1>1, <1>2, <1>3, <1>4, <1>5

\* A frame that was issued stays issued when more is.
LEMMA FlightStays ==
  ASSUME LinkInv, network' \subseteq network, UNCHANGED <<issued, rx, delivered>>,
         confirms' \subseteq confirms
  PROVE  FlightInv'
BY DEF LinkInv, FlightInv

LEMMA SendInv == LinkInv /\ Send => LinkInv'
<1> SUFFICES ASSUME LinkInv, Send PROVE LinkInv'
  OBVIOUS
<1> DEFINE n == Len(issued) + 1
<1>1. buffer.next_sequence = n
  BY Lengths
<1>2. /\ n < MaxSequence
      /\ buffer' = [entries |-> Append(buffer.entries, [sequence |-> n, frame |-> Frame(n)]),
                    next_sequence |-> n + 1]
      /\ issued' = Append(issued, Command(n))
      /\ network' = network \cup {Frame(n)}
      /\ UNCHANGED <<rx, session, resume, delivered, confirms, reconnects>>
  BY <1>1 DEF Send, CanRetain, Retain, Frame
<1>3. n \in Numbers /\ Command(n) \in Commands /\ Entry(n) \in Entries
  BY <1>2, Lengths DEF Numbers, Commands, Entries
<1>4. /\ issued \in Seq(Commands) /\ delivered \in Seq(Commands)
      /\ \A i \in 1 .. Len(issued) : issued[i] = Command(i)
      /\ \A i \in 1 .. Len(delivered) : delivered[i] = Command(i)
  BY DEF LinkInv, HistoryInv
<1>5. /\ issued' \in Seq(Commands) /\ Len(issued') = n
      /\ \A i \in 1 .. n : issued'[i] = Command(i)
  <2>1. /\ issued' \in Seq(Commands) /\ Len(issued') = Len(issued) + 1
        /\ \A i \in 1 .. Len(issued) : issued'[i] = issued[i]
        /\ issued'[Len(issued) + 1] = Command(n)
    BY <1>2, <1>3, <1>4, AppendProperties
  <2> QED BY <2>1, <1>4, Lengths
<1>6. HistoryInv'
  BY <1>5, <1>4, <1>2, Lengths DEF HistoryInv
<1>7. WindowInv'
  <2>1. /\ buffer.entries \in Seq(Entries)
        /\ \A i \in 1 .. Len(buffer.entries) : buffer.entries[i] = Entry(Base + i)
    BY DEF LinkInv, WindowInv
  <2>2. buffer'.entries = Append(buffer.entries, Entry(n)) /\ buffer'.next_sequence = n + 1
    BY <1>2 DEF Entry
  <2>3. /\ buffer'.entries \in Seq(Entries)
        /\ Len(buffer'.entries) = Len(buffer.entries) + 1
        /\ \A i \in 1 .. Len(buffer.entries) : buffer'.entries[i] = buffer.entries[i]
        /\ buffer'.entries[Len(buffer.entries) + 1] = Entry(n)
    BY <2>1, <2>2, <1>3, AppendProperties
  <2>4. Base' = Base /\ Base + (Len(buffer.entries) + 1) = n
    <3>1. /\ Base = Len(issued) - Len(buffer.entries)
          /\ Base' = Len(issued') - Len(buffer'.entries)
      BY DEF Base
    <3>2. Len(issued) \in Nat /\ Len(buffer.entries) \in Nat
      BY Lengths
    <3>3. Len(issued') = Len(issued) + 1 /\ Len(buffer'.entries) = Len(buffer.entries) + 1
      BY <2>3, <1>5
    <3>4. \A a, b \in Nat : (a + 1) - (b + 1) = a - b /\ (a - b) + (b + 1) = a + 1
      OBVIOUS
    <3>5. Base' = Base
      BY <3>1, <3>2, <3>3, <3>4, Zenon
    <3>6. Base + (Len(buffer.entries) + 1) = Len(issued) + 1
      BY <3>1, <3>2, <3>4, Zenon
    <3> QED BY <3>5, <3>6
  <2>5. \A i \in 1 .. Len(buffer'.entries) : buffer'.entries[i] = Entry(Base' + i)
    <3>1. Len(buffer.entries) \in Nat
      BY Lengths
    <3> QED BY <3>1, <2>1, <2>3, <2>4
  <2>6. buffer' \in [entries : Seq(Entries), next_sequence : Nat]
    BY <1>2, <2>2, <2>3, Lengths
  <2>7. buffer'.next_sequence = Len(issued') + 1 /\ Base' \in 0 .. Len(delivered')
    BY <2>2, <2>4, <1>5, <1>2, Lengths
  <2> QED BY <2>5, <2>6, <2>7 DEF WindowInv
<1>8. FlightInv'
  <2>1. \A k \in 1 .. Len(issued) : k \in 1 .. Len(issued')
    BY <1>5, Lengths
  <2>2. n \in 1 .. Len(issued')
    BY <1>5, Lengths
  <2> QED BY <2>1, <2>2, <1>2 DEF LinkInv, FlightInv
<1>9. ResumeInv'
  BY <1>2 DEF LinkInv, ResumeInv
<1> QED BY <1>6, <1>7, <1>8, <1>9 DEF LinkInv

\* A confirmation of what was accepted leaves the window as it should be.
LEMMA ConfirmWindow ==
  ASSUME LinkInv, NEW c \in 0 .. Len(delivered), buffer' = ConfirmThrough(buffer, c),
         UNCHANGED <<issued, delivered>>
  PROVE  WindowInv'
<1> DEFINE es == buffer.entries
           d == Dropped(es, c)
           rest == SubSeq(es, d + 1, Len(es))
<1>1. /\ buffer \in [entries : Seq(Entries), next_sequence : Nat]
      /\ buffer.next_sequence = Len(issued) + 1
      /\ \A i \in 1 .. Len(es) : es[i] = Entry(Base + i)
  BY DEF LinkInv, WindowInv
<1>2. Base \in Nat /\ c \in Nat
  BY Lengths
<1>3. /\ d \in 0 .. Len(es)
      /\ d > 0 => Base + d <= c
      /\ rest \in Seq(Entries)
      /\ Len(rest) = Len(es) - d
      /\ \A i \in 1 .. Len(rest) : rest[i] = Entry(Base + d + i)
  <2> HIDE DEF es
  <2>1. es \in Seq(Entries)
    BY <1>1 DEF es
  <2> QED BY <1>1, <1>2, <2>1, ConfirmDrops
<1>4. buffer' = [buffer EXCEPT !.entries = rest]
  BY DEF ConfirmThrough
<1> HIDE DEF d, rest
<1>5. buffer'.entries = rest /\ buffer'.next_sequence = buffer.next_sequence
      /\ buffer' \in [entries : Seq(Entries), next_sequence : Nat]
  BY <1>1, <1>3, <1>4
<1>6. Base' = Base + d
  <2>1. /\ Base = Len(issued) - Len(es)
        /\ Base' = Len(issued) - Len(buffer'.entries)
    BY DEF Base
  <2>2. Len(issued) \in Nat /\ Len(es) \in Nat
    BY Lengths
  <2>3. Len(buffer'.entries) = Len(es) - d /\ d \in Int
    BY <1>3, <1>5
  <2> QED BY <2>1, <2>2, <2>3
<1>7. Base' \in 0 .. Len(delivered')
  BY <1>2, <1>3, <1>6, Lengths
<1>8. \A i \in 1 .. Len(buffer'.entries) : buffer'.entries[i] = Entry(Base' + i)
  BY <1>3, <1>5, <1>6
<1> QED BY <1>1, <1>5, <1>7, <1>8 DEF WindowInv

LEMMA TakeConfirmInv == LinkInv /\ TakeConfirm => LinkInv'
<1> SUFFICES ASSUME LinkInv, TakeConfirm PROVE LinkInv'
  OBVIOUS
<1>1. PICK n \in confirms : buffer' = ConfirmThrough(buffer, n)
  BY DEF TakeConfirm
<1>2. /\ confirms' \subseteq confirms
      /\ UNCHANGED <<issued, network, rx, session, resume, delivered, reconnects>>
  BY DEF TakeConfirm
<1>3. n \in 0 .. Len(delivered)
  BY Lengths DEF LinkInv, FlightInv
<1>4. WindowInv'
  BY <1>1, <1>2, <1>3, ConfirmWindow
<1>5. FlightInv'
  BY <1>2, FlightStays
<1>6. HistoryInv' /\ ResumeInv'
  BY <1>2 DEF LinkInv, HistoryInv, ResumeInv
<1> QED BY <1>4, <1>5, <1>6 DEF LinkInv

\* What the window replays was issued.
LEMMA ResendInv == LinkInv /\ Resend => LinkInv'
<1> SUFFICES ASSUME LinkInv, Resend PROVE LinkInv'
  OBVIOUS
<1>1. /\ network' = network \cup {e.frame : e \in Since(buffer, 1)}
      /\ UNCHANGED <<issued, buffer, rx, session, resume, delivered, confirms, reconnects>>
  BY DEF Resend
<1>2. HistoryInv' /\ WindowInv' /\ ResumeInv'
  BY <1>1 DEF LinkInv, HistoryInv, WindowInv, ResumeInv, Base
<1>3. ASSUME NEW e \in Since(buffer, 1)
      PROVE  \E n \in 1 .. Len(issued) : e.frame = Frame(n)
  <2>1. PICK i \in DOMAIN buffer.entries : e = buffer.entries[i]
    BY DEF Since
  <2>2. buffer.entries \in Seq(Entries)
    BY DEF LinkInv, WindowInv
  <2>3. i \in 1 .. Len(buffer.entries)
    BY <2>1, <2>2
  <2>4. e = Entry(Base + i)
    BY <2>1, <2>3 DEF LinkInv, WindowInv
  <2>5. Base + i \in 1 .. Len(issued)
    BY <2>3, Lengths DEF Base
  <2> QED BY <2>4, <2>5, EntryFields
<1>4. FlightInv'
  BY <1>1, <1>3 DEF LinkInv, FlightInv
<1> QED BY <1>2, <1>4 DEF LinkInv

LEMMA ForgetInv == LinkInv /\ Forget => LinkInv'
<1> SUFFICES ASSUME LinkInv, Forget PROVE LinkInv'
  OBVIOUS
<1>1. /\ network' \subseteq network /\ confirms' \subseteq confirms
      /\ UNCHANGED <<issued, buffer, rx, session, resume, delivered, reconnects>>
  BY DEF Forget, Lose, LoseConfirm
<1>2. FlightInv'
  BY <1>1, FlightStays
<1>3. HistoryInv' /\ WindowInv' /\ ResumeInv'
  BY <1>1 DEF LinkInv, HistoryInv, WindowInv, ResumeInv, Base
<1> QED BY <1>2, <1>3 DEF LinkInv
\* A frame that was issued, whole or cut, may enter the ring.
LEMMA PushKeeps ==
  ASSUME LinkInv, NEW g \in Frames \cup CutFrames, NEW n \in 1 .. Len(issued),
         CameFrom(g, n), Push(g), network' \subseteq network,
         UNCHANGED <<issued, delivered, confirms>>
  PROVE  FlightInv'
<1>1. /\ rx \in Seq(Frames \cup CutFrames)
      /\ \A i \in 1 .. Len(rx) : \E k \in 1 .. Len(issued) : CameFrom(rx[i], k)
      /\ \A f \in network : \E k \in 1 .. Len(issued) : f = Frame(k)
      /\ confirms \subseteq 1 .. Len(delivered)
  BY DEF LinkInv, FlightInv
<1>2. CASE rx' = rx
  BY <1>1, <1>2 DEF FlightInv
<1>3. CASE rx' = Append(rx, g)
  <2>1. /\ rx' \in Seq(Frames \cup CutFrames) /\ Len(rx') = Len(rx) + 1
        /\ \A i \in 1 .. Len(rx) : rx'[i] = rx[i]
        /\ rx'[Len(rx) + 1] = g
    BY <1>1, <1>3, AppendProperties
  <2>2. Len(rx) \in Nat
    BY <1>1
  <2>3. \A i \in 1 .. Len(rx') : \E k \in 1 .. Len(issued) : CameFrom(rx'[i], k)
    <3> SUFFICES ASSUME NEW i \in 1 .. Len(rx')
                 PROVE  \E k \in 1 .. Len(issued) : CameFrom(rx'[i], k)
      OBVIOUS
    <3>1. CASE i \in 1 .. Len(rx)
      BY <3>1, <2>1, <1>1
    <3>2. CASE i = Len(rx) + 1
      BY <3>2, <2>1
    <3> QED BY <3>1, <3>2, <2>1, <2>2
  <2>4. \A i \in 1 .. Len(rx') : \E k \in 1 .. Len(issued') : CameFrom(rx'[i], k)
    BY <2>3
  <2>5. \A f \in network' : \E k \in 1 .. Len(issued') : f = Frame(k)
    BY <1>1
  <2>6. confirms' \subseteq 1 .. Len(delivered')
    BY <1>1
  <2> QED BY <2>1, <2>4, <2>5, <2>6 DEF FlightInv
<1> QED BY <1>2, <1>3 DEF Push

LEMMA ArriveInv == ASSUME LinkInv, NEW f \in network, Arrive(f) \/ ArriveCut(f)
                   PROVE  LinkInv'
<1>1. PICK n \in 1 .. Len(issued) : f = Frame(n)
  BY DEF LinkInv, FlightInv
<1>2. n \in Numbers /\ f \in Frames
  BY <1>1, Lengths DEF Frames
<1>3. /\ network' \subseteq network
      /\ UNCHANGED <<issued, buffer, session, resume, delivered, confirms, reconnects>>
  BY DEF Arrive, ArriveCut
<1>4. PICK g \in Frames \cup CutFrames : CameFrom(g, n) /\ Push(g)
  <2>1. CASE Arrive(f)
    BY <2>1, <1>1, <1>2 DEF Arrive, CameFrom
  <2>2. CASE ArriveCut(f)
    <3>1. PICK k \in Cuts : k < f.len /\ Push(CutFrame(f, k))
      BY <2>2 DEF ArriveCut
    <3>2. k \in Nat
      BY LinkAssumption
    <3>3. CameFrom(CutFrame(f, k), n)
      BY <3>1, <3>2, <1>1 DEF CameFrom, ShortOf
    <3>4. CutFrame(f, k) \in CutFrames
      BY <3>2, <1>2 DEF CutFrames
    <3> QED BY <3>1, <3>3, <3>4
  <2> QED BY <2>1, <2>2
<1>5. FlightInv'
  BY <1>3, <1>4, PushKeeps
<1>6. HistoryInv' /\ WindowInv' /\ ResumeInv'
  BY <1>3 DEF LinkInv, HistoryInv, WindowInv, ResumeInv, Base
<1> QED BY <1>5, <1>6 DEF LinkInv

\* What the session accepts is the next command, as it was issued.
LEMMA AcceptedIsNext ==
  ASSUME LinkInv, rx # <<>>, ParseError(Head(rx)) = "none",
         Accepts(session, CommandEvent(FrameSequence(Head(rx))), Now)
  PROVE  LET n == Len(delivered) + 1
         IN  /\ FrameSequence(Head(rx)) = n /\ n <= Len(issued)
             /\ ToCommand(Head(rx)) = Command(n)
             /\ session.next = n
<1> DEFINE f == Head(rx)
<1>1. rx \in Seq(Frames \cup CutFrames) /\ 1 \in 1 .. Len(rx) /\ f = rx[1]
  BY DEF LinkInv, FlightInv
<1>2. PICK m \in 1 .. Len(issued) : CameFrom(f, m)
  BY <1>1 DEF LinkInv, FlightInv
<1>3. m \in Numbers
  BY <1>2, Lengths
<1>4. f = Frame(m)
  BY <1>2, <1>3, ParsedIsWhole
<1>5. ToCommand(f) = Command(m) /\ FrameSequence(f) = m
  BY <1>3, <1>4, FrameIsRead
<1>6. session.state \in {"Active", "Recovering"} /\ m = session.next
  BY <1>5, SessionSteps
<1>7. session.next = Len(delivered) + 1
  BY <1>6 DEF LinkInv, ResumeInv
<1> QED BY <1>5, <1>6, <1>7, <1>2, Lengths

LEMMA ReceiveInv == LinkInv /\ Receive => LinkInv'
<1> SUFFICES ASSUME LinkInv, Receive PROVE LinkInv'
  OBVIOUS
<1> DEFINE f == Head(rx)
           event == CommandEvent(FrameSequence(f))
           n == Len(delivered) + 1
<1>1. rx # <<>> /\ rx' = Tail(rx) /\ UNCHANGED <<issued, buffer, network, resume, reconnects>>
  BY DEF Receive
<1>2. /\ rx \in Seq(Frames \cup CutFrames)
      /\ \A i \in 1 .. Len(rx) : \E k \in 1 .. Len(issued) : CameFrom(rx[i], k)
      /\ confirms \subseteq 1 .. Len(delivered)
      /\ \A g \in network : \E k \in 1 .. Len(issued) : g = Frame(k)
  BY DEF LinkInv, FlightInv
<1>3. /\ rx' \in Seq(Frames \cup CutFrames)
      /\ \A i \in 1 .. Len(rx') : \E k \in 1 .. Len(issued') : CameFrom(rx'[i], k)
  <2>1. /\ Tail(rx) \in Seq(Frames \cup CutFrames) /\ Len(Tail(rx)) = Len(rx) - 1
        /\ \A i \in 1 .. Len(Tail(rx)) : Tail(rx)[i] = rx[i + 1]
    BY <1>1, <1>2, HeadTailProperties
  <2>2. \A i \in 1 .. Len(Tail(rx)) : i + 1 \in 1 .. Len(rx)
    BY <2>1, <1>2
  <2> QED BY <2>1, <2>2, <1>1, <1>2
<1>4. CASE UNCHANGED <<session, delivered, confirms>>
  <2>1. FlightInv'
    BY <1>4, <1>1, <1>2, <1>3 DEF FlightInv
  <2>2. HistoryInv' /\ WindowInv' /\ ResumeInv'
    BY <1>1, <1>4 DEF LinkInv, HistoryInv, WindowInv, ResumeInv, Base
  <2> QED BY <2>1, <2>2 DEF LinkInv
<1>5. CASE /\ ParseError(f) = "none" /\ Accepts(session, event, Now)
           /\ session' = After(session, event, Now)
           /\ delivered' = Append(delivered, ToCommand(f))
           /\ confirms' = confirms \cup {FrameSequence(f)}
  <2>1. FrameSequence(f) = n /\ n <= Len(issued) /\ ToCommand(f) = Command(n) /\ session.next = n
    BY <1>1, <1>5, AcceptedIsNext
  <2>2. n \in Numbers /\ Command(n) \in Commands
    BY <2>1, Lengths DEF Commands
  <2>3. delivered \in Seq(Commands) /\ \A i \in 1 .. Len(delivered) : delivered[i] = Command(i)
    BY DEF LinkInv, HistoryInv
  <2>4. /\ delivered' \in Seq(Commands) /\ Len(delivered') = n
        /\ \A i \in 1 .. Len(delivered) : delivered'[i] = delivered[i]
        /\ delivered'[Len(delivered) + 1] = Command(n)
    BY <2>1, <2>2, <2>3, <1>5, AppendProperties
  <2>5. \A i \in 1 .. Len(delivered') : delivered'[i] = Command(i)
    BY <2>3, <2>4, Lengths
  <2>6. HistoryInv'
    BY <2>1, <2>4, <2>5, <1>1 DEF LinkInv, HistoryInv
  <2>7. WindowInv'
    <3>1. Base' = Base /\ Base' \in 0 .. Len(delivered')
      <4>1. Base' = Base
        BY <1>1 DEF Base
      <4> QED BY <4>1, <2>4, Lengths
    <3> QED BY <3>1, <1>1 DEF LinkInv, WindowInv
  <2>8. FlightInv'
    <3>1. confirms' \subseteq 1 .. Len(delivered')
      <4>1. Len(delivered) \in Nat /\ Len(delivered') = Len(delivered) + 1
        BY <2>4, Lengths
      <4>2. confirms' = confirms \cup {Len(delivered) + 1}
        BY <1>5, <2>1
      <4>3. confirms \subseteq 1 .. Len(delivered)
        BY <1>2
      <4>4. \A l \in Nat : 1 .. l \subseteq 1 .. l + 1 /\ l + 1 \in 1 .. l + 1
        OBVIOUS
      <4>5. /\ 1 .. Len(delivered) \subseteq 1 .. Len(delivered')
            /\ Len(delivered) + 1 \in 1 .. Len(delivered')
        BY <4>1, <4>4, Zenon
      <4> QED BY <4>2, <4>3, <4>5, Zenon
    <3> QED BY <3>1, <1>1, <1>2, <1>3 DEF FlightInv
  <2>9. session' = Fields("Active", n + 1, Now + HeartbeatTimeout, 0)
    BY <1>5, <2>1, SessionSteps
  <2>10. ResumeInv'
    BY <2>9, <2>4, FieldsAre DEF ResumeInv
  <2> QED BY <2>6, <2>7, <2>8, <2>10 DEF LinkInv
<1> QED BY <1>4, <1>5 DEF Receive

LEMMA TimeoutInv == LinkInv /\ Timeout => LinkInv'
<1> SUFFICES ASSUME LinkInv, Timeout PROVE LinkInv'
  OBVIOUS
<1>1. /\ Expired(session, session.deadline)
      /\ session' = Ticked(session, session.deadline)
      /\ UNCHANGED <<issued, buffer, network, rx, resume, delivered, confirms, reconnects>>
  BY DEF Timeout
<1>2. session.state \in {"Active", "Recovering"}
  BY <1>1 DEF LinkInv, ResumeInv, Expired
<1>3. ResumeInv'
  <2>1. CASE session.state = "Active"
    <3>1. session' = Fields("Recovering", session.next,
                            session.deadline + HeartbeatTimeout, session.timeouts + 1)
      BY <1>1, <2>1, SessionSteps
    <3> QED BY <3>1, <2>1, <1>1, FieldsAre DEF LinkInv, ResumeInv
  <2>2. CASE session.state = "Recovering"
    <3>1. session' = Fields("Failed", 1, NoDeadline, 0)
      BY <1>1, <2>2, SessionSteps
    <3> QED BY <3>1, FieldsAre DEF ResumeInv
  <2> QED BY <1>2, <2>1, <2>2
<1>4. HistoryInv' /\ WindowInv' /\ FlightInv'
  BY <1>1 DEF LinkInv, HistoryInv, WindowInv, FlightInv, Base
<1> QED BY <1>3, <1>4 DEF LinkInv

LEMMA DisconnectInv == LinkInv /\ Disconnect => LinkInv'
<1> SUFFICES ASSUME LinkInv, Disconnect PROVE LinkInv'
  OBVIOUS
<1>1. /\ session.state \in {"Active", "Recovering"}
      /\ resume' = session.next
      /\ UNCHANGED <<issued, buffer, network, rx, delivered, confirms>>
  BY DEF Disconnect
<1>2. session' = Fields("Disconnected", 1, NoDeadline, 0)
  BY SessionSteps DEF Disconnect
<1>3. resume' = Len(delivered') + 1
  BY <1>1 DEF LinkInv, ResumeInv
<1>4. ResumeInv'
  BY <1>2, <1>3, FieldsAre DEF ResumeInv
<1>5. HistoryInv' /\ WindowInv' /\ FlightInv'
  BY <1>1 DEF LinkInv, HistoryInv, WindowInv, FlightInv, Base
<1> QED BY <1>4, <1>5 DEF LinkInv

LEMMA ReconnectInv == LinkInv /\ Reconnect => LinkInv'
<1> SUFFICES ASSUME LinkInv, Reconnect PROVE LinkInv'
  OBVIOUS
<1>1. /\ session.state = "Disconnected"
      /\ UNCHANGED <<issued, buffer, network, rx, resume, delivered, confirms, reconnects>>
  BY DEF Reconnect
<1>2. resume = Len(delivered) + 1
  BY <1>1 DEF LinkInv, ResumeInv
<1>3. session' = Fields("Active", resume, Now + HeartbeatTimeout, 0)
  BY ActivateIs DEF Reconnect, Logon
<1>4. ResumeInv'
  BY <1>1, <1>2, <1>3, FieldsAre DEF ResumeInv
<1>5. HistoryInv' /\ WindowInv' /\ FlightInv'
  BY <1>1 DEF LinkInv, HistoryInv, WindowInv, FlightInv, Base
<1> QED BY <1>4, <1>5 DEF LinkInv

LEMMA LinkNextInv == LinkInv /\ [LinkNext]_linkVars => LinkInv'
<1> SUFFICES ASSUME LinkInv, [LinkNext]_linkVars PROVE LinkInv'
  OBVIOUS
<1>1. CASE UNCHANGED linkVars
  BY <1>1 DEF linkVars, LinkInv, HistoryInv, WindowInv, FlightInv, ResumeInv, Base
<1>2. CASE LinkNext
  BY <1>2, SendInv, TakeConfirmInv, ResendInv, ForgetInv, ArriveInv, ReceiveInv, TimeoutInv,
     DisconnectInv, ReconnectInv DEF LinkNext
<1> QED BY <1>1, <1>2

\* The inductive invariant of the link: both ends count alike, the window holds every
\* frame after the last that was let go, which was accepted, and only issued frames fly.
THEOREM LinkInductive == LinkSpec => []LinkInv
<1>1. LinkInit => LinkInv
  BY LinkInitInv
<1>2. LinkInv /\ [LinkNext]_linkVars => LinkInv'
  BY LinkNextInv
<1> QED BY <1>1, <1>2, PTL DEF LinkSpec

\* What the session accepted is always a prefix of what the peer issued, whatever the
\* network loses, repeats, cuts or reorders and however often the session resumes
\* (SessionStateMachine::handle, parse_message, RetransmitBuffer).
THEOREM LinkDeliversExactlyOnce == LinkSpec => []ExactlyOnceInOrder
<1>1. LinkInv => ExactlyOnceInOrder
  <2> SUFFICES ASSUME LinkInv PROVE IsPrefix(delivered, issued)
    BY DEF ExactlyOnceInOrder
  <2> DEFINE k == Len(delivered)
  <2>1. /\ issued \in Seq(Commands) /\ delivered \in Seq(Commands)
        /\ \A i \in 1 .. Len(issued) : issued[i] = Command(i)
        /\ \A i \in 1 .. k : delivered[i] = Command(i)
        /\ k \in Nat /\ Len(issued) \in Nat /\ k <= Len(issued)
    BY Lengths DEF LinkInv, HistoryInv
  <2>2. \A i \in 1 .. k : delivered[i] \in Commands /\ issued[i] \in Commands
    BY <2>1
  <2>3. /\ SubSeq(delivered, 1, k) \in Seq(Commands)
        /\ Len(SubSeq(delivered, 1, k)) = IF 1 <= k THEN k - 1 + 1 ELSE 0
        /\ \A i \in 1 .. k - 1 + 1 : SubSeq(delivered, 1, k)[i] = delivered[1 + i - 1]
    BY <2>1, <2>2, SubSeqProperties
  <2>4. /\ SubSeq(issued, 1, k) \in Seq(Commands)
        /\ Len(SubSeq(issued, 1, k)) = IF 1 <= k THEN k - 1 + 1 ELSE 0
        /\ \A i \in 1 .. k - 1 + 1 : SubSeq(issued, 1, k)[i] = issued[1 + i - 1]
    BY <2>1, <2>2, SubSeqProperties
  <2> HIDE DEF k
  <2>5. SubSeq(delivered, 1, k) = SubSeq(issued, 1, k)
    <3>1. Len(SubSeq(delivered, 1, k)) = k /\ Len(SubSeq(issued, 1, k)) = k
      BY <2>1, <2>3, <2>4
    <3>2. \A i \in 1 .. k : SubSeq(delivered, 1, k)[i] = SubSeq(issued, 1, k)[i]
      BY <2>1, <2>3, <2>4
    <3> QED BY <3>1, <3>2, <2>3, <2>4, SeqEqual
  <2> QED BY <2>1, <2>5 DEF IsPrefix, k
<1> QED BY <1>1, LinkInductive, PTL

\* What the window would replay to a session that is up is always exactly what the
\* session has not accepted, in order and without a gap (confirm_through, since).
THEOREM WindowAlwaysCovers == LinkSpec => []WindowCovers
<1>1. LinkInv => WindowCovers
  <2> SUFFICES ASSUME LinkInv, session.state \in {"Active", "Recovering"}
               PROVE  /\ Since(buffer, session.next) =
                           {[sequence |-> n, frame |-> EncodeFrame(issued[n])] :
                              n \in Len(delivered) + 1 .. Len(issued)}
                      /\ \A i, j \in DOMAIN buffer.entries :
                           i < j => buffer.entries[i].sequence < buffer.entries[j].sequence
    BY DEF WindowCovers
  <2> DEFINE es == buffer.entries
             next == Len(delivered) + 1
             wanted == {[sequence |-> n, frame |-> EncodeFrame(issued[n])] :
                          n \in next .. Len(issued)}
  <2>1. session.next = next
    BY DEF LinkInv, ResumeInv
  <2>2. /\ es \in Seq(Entries) /\ DOMAIN es = 1 .. Len(es)
        /\ \A i \in 1 .. Len(es) : es[i] = Entry(Base + i)
    BY DEF LinkInv, WindowInv
  <2>3. /\ Len(es) \in Nat /\ Len(issued) \in Nat /\ Len(delivered) \in Nat
        /\ Base \in 0 .. Len(delivered)
    BY Lengths
  <2>4. Base + Len(es) = Len(issued)
    BY <2>3 DEF Base
  <2>5. \A n \in next .. Len(issued) :
          [sequence |-> n, frame |-> EncodeFrame(issued[n])] = Entry(n)
    BY <2>3 DEF LinkInv, HistoryInv, Entry, Frame
  <2>6. Since(buffer, next) = {e \in {es[i] : i \in 1 .. Len(es)} : e.sequence >= next}
    BY <2>2 DEF Since
  <2> HIDE DEF es, next
  <2>7. next \in Nat /\ Base < next
    BY <2>3 DEF next
  <2>8. ASSUME NEW e \in Since(buffer, next)
        PROVE  e \in wanted
    <3>1. PICK i \in 1 .. Len(es) : e = es[i] /\ e.sequence >= next
      BY <2>6
    <3>2. e = Entry(Base + i) /\ e.sequence = Base + i
      BY <3>1, <2>2, EntryFields
    <3>3. Base + i \in next .. Len(issued)
      BY <3>1, <3>2, <2>3, <2>4, <2>7
    <3> QED BY <3>2, <3>3, <2>5
  <2>9. ASSUME NEW e \in wanted
        PROVE  e \in Since(buffer, next)
    <3>1. PICK n \in next .. Len(issued) : e = Entry(n)
      BY <2>5
    <3>2. n - Base \in 1 .. Len(es) /\ Base + (n - Base) = n
      BY <2>3, <2>4, <2>7
    <3>3. e = es[n - Base]
      BY <3>1, <3>2, <2>2
    <3>4. e.sequence >= next
      BY <3>1, <2>7, EntryFields
    <3> QED BY <3>2, <3>3, <3>4, <2>6
  <2>10. Since(buffer, next) = wanted
    <3> HIDE DEF wanted
    <3> QED BY <2>8, <2>9
  <2>11. \A i, j \in DOMAIN es : i < j => es[i].sequence < es[j].sequence
    BY <2>2, <2>3, EntryFields
  <2> QED BY <2>1, <2>10, <2>11 DEF es, next
<1> QED BY <1>1, LinkInductive, PTL

\* Once the session's own position is confirmed the window holds as many frames as the
\* session lacks, and the session accepts the first of them as it is: a full window and
\* a waiting session never each need the other to move first (confirm_through, handle).
THEOREM LinkNeverStandsOff == LinkSpec => []NoStandoff
<1>1. LinkInv => NoStandoff
  <2> DEFINE es == buffer.entries
             c == session.next - 1
             d == Dropped(es, c)
             kept == SubSeq(es, d + 1, Len(es))
             next == Len(delivered) + 1
  <2> SUFFICES ASSUME LinkInv, session.state \in {"Active", "Recovering"}
               PROVE  /\ Len(kept) = Len(issued) - Len(delivered)
                      /\ kept # <<>> =>
                           /\ ParseError(kept[1].frame) = "none"
                           /\ Accepts(session, CommandEvent(FrameSequence(kept[1].frame)), Now)
    <3>1. buffer \in [entries : Seq(Entries), next_sequence : Nat] =>
            ConfirmThrough(buffer, c).entries = kept
      BY DEF ConfirmThrough
    <3>2. LinkInv => ConfirmThrough(buffer, c).entries = kept
      BY <3>1 DEF LinkInv, WindowInv
    <3> HIDE DEF kept
    <3> QED BY <3>2 DEF NoStandoff
  <2>1. session.next = next /\ c = Len(delivered)
    <3>1. session.next = next
      BY DEF LinkInv, ResumeInv
    <3> QED BY <3>1, Lengths
  <2>2. es \in Seq(Entries) /\ \A i \in 1 .. Len(es) : es[i] = Entry(Base + i)
    BY DEF LinkInv, WindowInv
  <2>3. /\ Len(es) \in Nat /\ Len(issued) \in Nat /\ Len(delivered) \in Nat
        /\ Base \in 0 .. Len(delivered) /\ Len(delivered) <= Len(issued)
        /\ Len(issued) < MaxSequence
    BY Lengths
  <2>4. Base \in Nat /\ Base + Len(es) = Len(issued)
    BY <2>3 DEF Base
  <2>5. c \in Nat
    BY <2>1, <2>3
  <2> HIDE DEF es, c
  <2>6. /\ d \in 0 .. Len(es) /\ (d > 0 => Base + d <= c)
        /\ (d < Len(es) => Base + d + 1 > c) /\ Len(kept) = Len(es) - d
        /\ kept \in Seq(Entries)
        /\ \A i \in 1 .. Len(kept) : kept[i] = Entry(Base + d + i)
    BY <2>2, <2>4, <2>5, ConfirmDrops
  <2> HIDE DEF d, kept
  <2>7. Base + d = Len(delivered)
    BY <2>1, <2>3, <2>4, <2>6
  <2>8. Len(kept) = Len(issued) - Len(delivered)
    <3>1. d \in Int /\ Len(es) \in Int /\ Base \in Int
      BY <2>3, <2>4, <2>6
    <3>2. Len(es) - d = (Base + Len(es)) - (Base + d)
      BY <3>1
    <3> QED BY <3>2, <2>4, <2>6, <2>7
  <2>9. ASSUME kept # <<>>
        PROVE  /\ ParseError(kept[1].frame) = "none"
               /\ Accepts(session, CommandEvent(FrameSequence(kept[1].frame)), Now)
    <3>1. 1 \in 1 .. Len(kept) /\ next \in Numbers
      <4>1. Len(kept) \in Nat /\ Len(kept) # 0
        BY <2>6, <2>9
      <4> QED BY <4>1, <2>3, <2>8, RetransmitAssumption DEF Numbers
    <3>2. kept[1].frame = Frame(next)
      BY <3>1, <2>6, <2>7, EntryFields
    <3>3. ParseError(Frame(next)) = "none"
      BY <3>1, CommandIsEncodable, RoundTrip DEF Frame
    <3>4. FrameSequence(Frame(next)) = next
      BY <3>1, FrameIsRead
    <3>5. Accepts(session, CommandEvent(next), Now)
      <4>1. next < MaxSession
        BY <3>1, LinkAssumption, RetransmitAssumption DEF Numbers
      <4>2. CanArm(HeartbeatTimeout, Now)
        BY LinkAssumption, SessionAssumption DEF CanArm, Now
      <4> HIDE DEF next
      <4> QED BY <4>1, <4>2, <2>1 DEF Accepts, CommandEvent
    <3> QED BY <3>2, <3>3, <3>4, <3>5
  <2> QED BY <2>8, <2>9
<1> QED BY <1>1, LinkInductive, PTL
=============================================================================
