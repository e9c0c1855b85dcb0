---------------------------- MODULE SpscProofs ----------------------------
(***************************************************************************)
(* Proofs about the ring of Spsc, for every capacity N, every word size    *)
(* that N divides and every bound on the pushes: no data race, the slot    *)
(* discipline, and the refinement of BoundedFifo.                          *)
(*                                                                         *)
(* The inductive invariant unwraps the cursors.  The lengths of the two    *)
(* histories are the unbounded counts of which head and tail are the       *)
(* wrapped images; each endpoint's cached cursor is the image of a count   *)
(* at most N away, so that a wrapping subtraction of cursors is the        *)
(* subtraction of counts.  What the ring holds is then said with counts    *)
(* alone, and an index into it is a count modulo N.                        *)
(***************************************************************************)
EXTENDS Spsc, SequenceTheorems, TLAPS

\* A count as a cursor, and as an index of the ring.
Cursor(x) == x % Word
Slot(x) == x % N

\* How many values have been published, and how many handed out.
Pushes == Len(pushed)
Pops == Len(taken)

\* The values written, and how many were read, counting the slot access whose
\* cursor store is outstanding.
Written == IF ppc = "publish" THEN Append(pushed, pval) ELSE pushed
Consumed == IF cpc = "publish" THEN Pops + 1 ELSE Pops

Rings == [0 .. N - 1 -> Values \cup {Uninit}]

\* The type invariant of the ring.
RingTypeOK ==
  /\ mode \in Modes
  /\ ppc \in {"idle", "load", "write", "publish"}
  /\ cpc \in {"idle", "load", "read", "publish"}
  /\ promise \in BOOLEAN
  /\ slots \in Rings
  /\ pushed \in Seq(Values) /\ taken \in Seq(Values)
  /\ tailView \in Seq(Nat) /\ headView \in Seq(Nat)
  /\ writes \in Nat /\ reads \in Nat
  /\ prodSees \in Nat /\ consSees \in Nat
  /\ ppc # "idle" => pval \in Values
  /\ cpc = "publish" => cval \in Values

(* The shared cursors are the counts, wrapped; no endpoint is at work while  *)
(* the owner holds the queue.                                                *)
CursorInv ==
  /\ head = Cursor(Pops) /\ tail = Cursor(Pushes)
  /\ Pops <= Pushes /\ Pushes <= Pops + N
  /\ mode # "split" => ppc = "idle" /\ cpc = "idle"

(* What the stores publish: the k-th store of a cursor carries k accesses.   *)
ViewInv ==
  /\ Len(tailView) = Pushes /\ Len(headView) = Pops
  /\ writes = Len(Written) /\ reads = Consumed
  /\ \A i \in 1 .. Pushes : tailView[i] = i
  /\ mode \in {"owned", "split"} => \A i \in 1 .. Pops : headView[i] = i

(* The producer's cached head is the wrapped image of an earlier count c     *)
(* whose slot accesses it has learned of, and a slot it is about to write is *)
(* free already as far as c tells.                                           *)
ProducerAt(c) ==
  /\ c <= Pops /\ Pushes <= c + N
  /\ ptail = tail /\ chead = Cursor(c)
  /\ c <= prodSees
  /\ ppc \in {"write", "publish"} => Pushes < c + N
  /\ promise => Pushes < c + N /\ ppc # "load"

(* The consumer's cached tail is the wrapped image of a count t between what *)
(* was taken and what is published.                                          *)
ConsumerAt(t) ==
  /\ Pops <= t /\ t <= Pushes
  /\ chd = head /\ ctail = Cursor(t)
  /\ t <= consSees
  /\ cpc \in {"read", "publish"} => Pops < t
  /\ cpc = "publish" => cval = pushed[Pops + 1]

EndpointInv ==
  mode = "split" => /\ \E c \in Nat : ProducerAt(c)
                    /\ \E t \in Nat : ConsumerAt(t)

(* The ring holds the values of seq from position lo on, each in its slot,   *)
(* and every other slot is reclaimed.                                        *)
Holds(ring, seq, lo) ==
  /\ \A p \in lo .. Len(seq) - 1 : ring[Slot(p)] = seq[p + 1]
  /\ \A j \in 0 .. N - 1 :
       ring[j] # Uninit => \E p \in lo .. Len(seq) - 1 : j = Slot(p)

\* Drop's loop has reclaimed the slots before position d.
DropAt(d) ==
  /\ Pops <= d /\ d <= Pushes
  /\ dpos = Cursor(d)
  /\ Holds(slots, pushed, d)

RingInv ==
  /\ mode \in {"owned", "split", "draining"} => Holds(slots, Written, Consumed)
  /\ mode = "dropping" => \E d \in Nat : DropAt(d)
  /\ mode = "gone" => \A j \in 0 .. N - 1 : slots[j] = Uninit

\* The inductive invariant.
SpscInv == RingTypeOK /\ CursorInv /\ ViewInv /\ EndpointInv /\ RingInv

-----------------------------------------------------------------------------
\* Arithmetic of the wrapping cursors.
LEMMA ModWitness ==
  ASSUME NEW a \in Int, NEW m \in Nat \ {0}
  PROVE  \E q \in Int, r \in 0 .. m - 1 : a = q * m + r /\ a % m = r
<1>1. a \div m \in Int /\ a % m \in 0 .. m - 1
  OBVIOUS
<1>2. a = m * (a \div m) + (a % m)
  OBVIOUS
<1>3. a = (a \div m) * m + (a % m)
  BY <1>1, <1>2
<1>. QED BY <1>1, <1>3, Zenon

\* The remainder of q * m + r is r.
LEMMA ModUnique ==
  ASSUME NEW m \in Nat \ {0}, NEW q \in Int, NEW r \in 0 .. m - 1
  PROVE  (q * m + r) % m = r
OBVIOUS

LEMMA Distribute ==
  ASSUME NEW m \in Int, NEW q \in Int, NEW p \in Int
  PROVE  q * m + p * m = (q + p) * m /\ q * m - p * m = (q - p) * m
OBVIOUS

\* wrapping_sub of two wrapped counts is their distance.
LEMMA ModSub ==
  ASSUME NEW a \in Int, NEW b \in Int, NEW m \in Nat \ {0}, 0 <= a - b, a - b < m
  PROVE  ((a % m) - (b % m)) % m = a - b
<1>1. PICK p \in Int, r \in 0 .. m - 1 : a = p * m + r /\ a % m = r
  BY ModWitness
<1>2. PICK q \in Int, s \in 0 .. m - 1 : b = q * m + s /\ b % m = s
  BY ModWitness
<1>3. PICK k \in Int : k = q - p
  OBVIOUS
<1>4. r - s = k * m + (a - b)
  <2>1. q * m - p * m = k * m
    BY <1>3, Distribute
  <2>. QED BY <1>1, <1>2, <2>1
<1>5. PICK d \in 0 .. m - 1 : d = a - b
  OBVIOUS
<1>6. (k * m + d) % m = d
  BY ModUnique
<1>. QED BY <1>1, <1>2, <1>4, <1>5, <1>6

(* A remainder modulo a multiple w of n keeps its remainder modulo n: the    *)
(* slot of a cursor is the slot of the count, also when the cursor wraps.    *)
LEMMA ModMod ==
  ASSUME NEW x \in Int, NEW k \in Int, NEW w \in Nat \ {0}, NEW n \in Nat \ {0},
         w % n = 0
  PROVE  ((x % w) + k) % n = (x + k) % n
<1>1. PICK p \in Int, r \in 0 .. w - 1 : x = p * w + r /\ x % w = r
  BY ModWitness
<1>2. PICK t \in Int : w = t * n
  BY ModWitness
<1>3. PICK s \in Int : s = p * t
  OBVIOUS
<1>4. p * w = s * n
  BY <1>2, <1>3
<1>5. PICK u \in Int, v \in Int : u = r + k /\ v = x + k /\ v = u + s * n
  BY <1>1, <1>4
<1>6. PICK z \in Int, e \in 0 .. n - 1 : u = z * n + e /\ u % n = e
  BY ModWitness, ZenonT(30)
<1>7. PICK y \in Int : y = z + s
  OBVIOUS
<1>8. v = y * n + e
  <2>1. z * n + s * n = y * n
    BY <1>7, Distribute
  <2>. QED BY <1>5, <1>6, <2>1
<1>9. (y * n + e) % n = e
  BY ModUnique
<1>. QED BY <1>1, <1>5, <1>6, <1>8, <1>9

\* Counts less than m apart have different remainders.
LEMMA ModDistinct ==
  ASSUME NEW a \in Int, NEW b \in Int, NEW m \in Nat \ {0}, 0 < a - b, a - b < m
  PROVE  a % m # b % m
<1>1. ((a % m) - (b % m)) % m = a - b
  BY ModSub
<1>2. 0 % m = 0
  OBVIOUS
<1>3. a % m \in Int /\ b % m \in Int
  OBVIOUS
<1>. QED BY <1>1, <1>2, <1>3

-----------------------------------------------------------------------------
LEMMA CursorType ==
  ASSUME NEW x \in Nat
  PROVE  Cursor(x) \in Nat /\ Slot(x) \in 0 .. N - 1
BY SpscAssumption DEF Cursor, Slot

LEMMA CursorZero == Cursor(0) = 0
BY SpscAssumption DEF Cursor

LEMMA CursorDistance ==
  ASSUME NEW a \in Nat, NEW b \in Nat, b <= a, a <= b + N
  PROVE  WrapSub(Cursor(a), Cursor(b)) = a - b
<1>1. 0 <= a - b /\ a - b < Word /\ Word \in Nat \ {0}
  BY SpscAssumption
<1>. QED BY <1>1, ModSub DEF WrapSub, Cursor

LEMMA CursorAdvance ==
  ASSUME NEW a \in Nat, NEW k \in Nat
  PROVE  WrapAdd(Cursor(a), k) = Cursor(a + k)
<1>1. Word \in Nat \ {0} /\ Word % Word = 0
  BY SpscAssumption
<1>2. ((a % Word) + k) % Word = (a + k) % Word
  BY <1>1, a \in Int, k \in Int, ModMod, ZenonT(30)
<1>. QED BY <1>2 DEF WrapAdd, Cursor

LEMMA CursorSame ==
  ASSUME NEW a \in Nat, NEW b \in Nat, b <= a, a <= b + N
  PROVE  Cursor(a) = Cursor(b) <=> a = b
<1>1. Word \in Nat \ {0} /\ (a # b => 0 < a - b /\ a - b < Word)
  BY SpscAssumption
<1>2. a # b => a % Word # b % Word
  BY <1>1, a \in Int, b \in Int, ModDistinct, Zenon
<1>. QED BY <1>2 DEF Cursor

LEMMA SlotOfCursor ==
  ASSUME NEW a \in Nat, NEW k \in Nat
  PROVE  Index(Cursor(a) + k) = Slot(a + k)
<1>1. Word \in Nat \ {0} /\ N \in Nat \ {0} /\ Word % N = 0
  BY SpscAssumption
<1>2. ((a % Word) + k) % N = (a + k) % N
  BY <1>1, a \in Int, k \in Int, ModMod, ZenonT(30)
<1>. QED BY <1>2 DEF Index, Cursor, Slot

LEMMA SlotHere ==
  ASSUME NEW a \in Nat
  PROVE  Index(Cursor(a)) = Slot(a)
<1>1. Index(Cursor(a) + 0) = Slot(a + 0)
  BY SlotOfCursor
<1>2. Cursor(a) + 0 = Cursor(a) /\ a + 0 = a
  BY CursorType
<1>. QED BY <1>1, <1>2

LEMMA SlotsDistinct ==
  ASSUME NEW a \in Nat, NEW b \in Nat, b < a, a < b + N
  PROVE  Slot(a) # Slot(b)
<1>1. 0 < a - b /\ a - b < N /\ N \in Nat \ {0}
  BY SpscAssumption
<1>2. a % N # b % N
  BY <1>1, a \in Int, b \in Int, ModDistinct, Zenon
<1>. QED BY <1>2 DEF Slot

-----------------------------------------------------------------------------
\* Slot::write: the slot after the last value is free, and then holds the next.
LEMMA HoldsWrite ==
  ASSUME NEW ring \in Rings, NEW seq \in Seq(Values), NEW lo \in Nat, NEW v \in Values,
         lo <= Len(seq), Len(seq) < lo + N, Holds(ring, seq, lo)
  PROVE  /\ ring[Slot(Len(seq))] = Uninit
         /\ Holds([ring EXCEPT ![Slot(Len(seq))] = v], Append(seq, v), lo)
<1>. DEFINE n == Len(seq)
            new == [ring EXCEPT ![Slot(n)] = v]
            longer == Append(seq, v)
<1>1. n \in Nat /\ Slot(n) \in 0 .. N - 1 /\ N \in Nat
  BY CursorType, SpscAssumption
<1>2. \A p \in lo .. n - 1 : Slot(n) # Slot(p)
  BY <1>1, SlotsDistinct
<1>3. Len(longer) = n + 1 /\ longer[n + 1] = v /\ \A p \in lo .. n - 1 : longer[p + 1] = seq[p + 1]
  OBVIOUS
<1>4. ring[Slot(n)] = Uninit
  BY <1>1, <1>2 DEF Holds
<1>5. \A j \in 0 .. N - 1 : new[j] = IF j = Slot(n) THEN v ELSE ring[j]
  BY DEF Rings
<1>. HIDE DEF new, longer, n
<1>6. ASSUME NEW p \in lo .. n PROVE new[Slot(p)] = longer[p + 1]
  <2>1. CASE p = n
    BY <1>1, <1>3, <1>5, <2>1
  <2>2. CASE p # n
    <3>1. p \in lo .. n - 1 /\ p \in Nat
      BY <1>1, <2>2
    <3>2. Slot(p) \in 0 .. N - 1 /\ ring[Slot(p)] = seq[p + 1]
      BY <3>1, CursorType DEF Holds, n
    <3>. QED BY <1>2, <1>3, <1>5, <3>1, <3>2
  <2>. QED BY <2>1, <2>2
<1>7. ASSUME NEW j \in 0 .. N - 1, new[j] # Uninit PROVE \E p \in lo .. n : j = Slot(p)
  <2>1. CASE j = Slot(n)
    BY <1>1, <2>1 DEF n
  <2>2. CASE j # Slot(n)
    <3>1. PICK p \in lo .. n - 1 : j = Slot(p)
      BY <1>5, <1>7, <2>2 DEF Holds, n
    <3>. QED BY <1>1, <3>1
  <2>. QED BY <2>1, <2>2
<1>8. Holds(new, longer, lo)
  <2>1. lo .. Len(longer) - 1 = lo .. n
    BY <1>1, <1>3
  <2>. QED BY <1>6, <1>7, <2>1 DEF Holds
<1>. QED BY <1>4, <1>8 DEF new, longer, n

\* Slot::read and Slot::drop_value: the first value is there, and its slot is
\* reclaimed.
LEMMA HoldsRead ==
  ASSUME NEW ring \in Rings, NEW seq \in Seq(Values), NEW lo \in Nat,
         lo < Len(seq), Len(seq) <= lo + N, Holds(ring, seq, lo)
  PROVE  /\ ring[Slot(lo)] = seq[lo + 1]
         /\ Holds([ring EXCEPT ![Slot(lo)] = Uninit], seq, lo + 1)
<1>. DEFINE n == Len(seq)
            new == [ring EXCEPT ![Slot(lo)] = Uninit]
<1>1. n \in Nat /\ Slot(lo) \in 0 .. N - 1 /\ N \in Nat
  BY CursorType, SpscAssumption
<1>2. \A p \in (lo + 1) .. n - 1 : Slot(p) # Slot(lo)
  BY <1>1, SlotsDistinct
<1>3. ring[Slot(lo)] = seq[lo + 1]
  BY <1>1 DEF Holds
<1>4. \A j \in 0 .. N - 1 : new[j] = IF j = Slot(lo) THEN Uninit ELSE ring[j]
  BY DEF Rings
<1>. HIDE DEF new, n
<1>5. ASSUME NEW p \in (lo + 1) .. n - 1 PROVE new[Slot(p)] = seq[p + 1]
  <2>1. p \in lo .. n - 1 /\ p \in Nat
    BY <1>1
  <2>2. Slot(p) \in 0 .. N - 1 /\ ring[Slot(p)] = seq[p + 1]
    BY <2>1, CursorType DEF Holds, n
  <2>. QED BY <1>2, <1>4, <2>2
<1>6. ASSUME NEW j \in 0 .. N - 1, new[j] # Uninit
      PROVE  \E p \in (lo + 1) .. n - 1 : j = Slot(p)
  <2>1. j # Slot(lo) /\ ring[j] # Uninit
    BY <1>4, <1>6
  <2>2. PICK p \in lo .. n - 1 : j = Slot(p)
    BY <2>1 DEF Holds, n
  <2>3. p \in (lo + 1) .. n - 1
    BY <1>1, <2>1, <2>2
  <2>. QED BY <2>2, <2>3
<1>7. Holds(new, seq, lo + 1)
  BY <1>5, <1>6 DEF Holds, n
<1>. QED BY <1>3, <1>7 DEF new

\* A ring that holds nothing has no initialised slot.
LEMMA HoldsNothing ==
  ASSUME NEW ring \in Rings, NEW seq \in Seq(Values), Holds(ring, seq, Len(seq))
  PROVE  \A j \in 0 .. N - 1 : ring[j] = Uninit
BY DEF Holds

-----------------------------------------------------------------------------
LEMMA Counts ==
  ASSUME RingTypeOK
  PROVE  /\ Pushes \in Nat /\ Pops \in Nat /\ Consumed \in Nat
         /\ Written \in Seq(Values)
         /\ Len(Written) = IF ppc = "publish" THEN Pushes + 1 ELSE Pushes
BY DEF RingTypeOK, Pushes, Pops, Written, Consumed

LEMMA SpscInitial == Init => SpscInv
<1>. SUFFICES ASSUME Init PROVE SpscInv
  OBVIOUS
<1>. USE SpscAssumption DEF Init
<1>1. Pushes = 0 /\ Pops = 0 /\ Written = <<>> /\ Consumed = 0
  BY DEF Pushes, Pops, Written, Consumed
<1>2. RingTypeOK
  BY DEF RingTypeOK, Rings, Modes
<1>3. CursorInv /\ ViewInv
  BY <1>1, CursorZero DEF CursorInv, ViewInv
<1>4. EndpointInv
  BY DEF EndpointInv
<1>5. RingInv
  BY <1>1 DEF RingInv, Holds
<1>. QED BY <1>2, <1>3, <1>4, <1>5 DEF SpscInv

\* A step that moves no cursor and touches no slot keeps what the ring holds.
LEMMA QuietStep ==
  ASSUME SpscInv, UNCHANGED <<head, tail, slots, mode, dpos, histVars>>,
         ppc' = "publish" <=> ppc = "publish",
         cpc' = "publish" <=> cpc = "publish",
         ppc = "publish" => pval' = pval,
         mode # "split" => ppc' = "idle" /\ cpc' = "idle"
  PROVE  CursorInv' /\ ViewInv' /\ RingInv'
<1>1. /\ Pushes' = Pushes /\ Pops' = Pops
      /\ Written' = Written /\ Consumed' = Consumed
  BY DEF Pushes, Pops, Written, Consumed, histVars
<1>2. CursorInv'
  BY <1>1 DEF SpscInv, CursorInv
<1>3. ViewInv'
  BY <1>1 DEF SpscInv, ViewInv, histVars
<1>4. pushed' = pushed /\ slots' = slots
  BY DEF histVars
<1>5. RingInv'
  BY <1>1, <1>4 DEF SpscInv, RingInv, DropAt
<1>. QED BY <1>2, <1>3, <1>5

LEMMA PushStartStep ==
  ASSUME SpscInv, NEW v \in Values, PushStart(v)
  PROVE  SpscInv'
<1>. USE DEF PushStart
<1>1. ppc = "idle" /\ mode = "split" /\ ppc' \in {"load", "write"} /\ cpc' = cpc
  BY DEF consVars
<1>2. CursorInv' /\ ViewInv' /\ RingInv'
  BY <1>1, QuietStep
<1>3. RingTypeOK'
  BY <1>1 DEF SpscInv, RingTypeOK, histVars, consVars
<1>4. /\ Pushes' = Pushes /\ Pops' = Pops /\ pushed' = pushed
      /\ Pushes \in Nat /\ Pops \in Nat
  BY Counts DEF Pushes, Pops, histVars, SpscInv
<1>5. \E c \in Nat : ProducerAt(c)'
  <2>1. PICK c \in Nat : ProducerAt(c)
    BY <1>1 DEF SpscInv, EndpointInv
  <2>2. WrapSub(ptail, chead) = Pushes - c
    BY <1>4, <2>1, CursorDistance, SpscAssumption DEF ProducerAt, SpscInv, CursorInv
  <2>3. ppc' = "load" <=> Pushes - c = N
    BY <1>1, <2>2
  <2>4. ProducerAt(c)'
    BY <1>1, <1>4, <2>1, <2>3, SpscAssumption DEF ProducerAt
  <2>. QED BY <2>4
<1>6. \E t \in Nat : ConsumerAt(t)'
  BY <1>1, <1>4 DEF SpscInv, EndpointInv, ConsumerAt, consVars
<1>. QED BY <1>2, <1>3, <1>5, <1>6 DEF SpscInv, EndpointInv

\* The happens-before knowledge a load of head or tail brings.
LEMMA LearnHeadIs ==
  ASSUME SpscInv, mode = "split", NEW c \in Nat, ProducerAt(c), NEW k \in HeadLoads
  PROVE  /\ k \in Nat /\ c + k <= Pops
         /\ LearnHead(k) \in Nat /\ c + k <= LearnHead(k)
         /\ WrapAdd(chead, k) = Cursor(c + k)
<1>1. Pushes \in Nat /\ Pops \in Nat /\ N \in Nat
  BY Counts, SpscAssumption DEF SpscInv
<1>2. c <= Pops /\ Pops <= c + N
  BY <1>1 DEF ProducerAt, SpscInv, CursorInv
<1>3. WrapSub(head, chead) = Pops - c
  BY <1>1, <1>2, CursorDistance DEF ProducerAt, SpscInv, CursorInv
<1>4. k \in Nat /\ c + k <= Pops
  BY <1>1, <1>2, <1>3 DEF HeadLoads
<1>5. Len(headView) - WrapSub(head, chead) + k = c + k
  BY <1>1, <1>2, <1>3, <1>4 DEF SpscInv, ViewInv
<1>6. c + k # 0 => headView[c + k] = c + k
  BY <1>1, <1>4 DEF SpscInv, ViewInv
<1>7. c <= prodSees /\ prodSees \in Nat
  BY DEF ProducerAt, SpscInv, RingTypeOK
<1>8. LearnHead(k) \in Nat /\ c + k <= LearnHead(k)
  BY <1>4, <1>5, <1>6, <1>7 DEF LearnHead
<1>9. WrapAdd(chead, k) = Cursor(c + k)
  BY <1>4, CursorAdvance DEF ProducerAt
<1>. QED BY <1>4, <1>8, <1>9

LEMMA LearnTailIs ==
  ASSUME SpscInv, mode = "split", NEW t \in Nat, ConsumerAt(t), NEW k \in TailLoads
  PROVE  /\ k \in Nat /\ t + k <= Pushes
         /\ LearnTail(k) \in Nat /\ t + k <= LearnTail(k)
         /\ WrapAdd(ctail, k) = Cursor(t + k)
<1>1. Pushes \in Nat /\ Pops \in Nat /\ N \in Nat
  BY Counts, SpscAssumption DEF SpscInv
<1>2. t <= Pushes /\ Pushes <= t + N
  BY <1>1 DEF ConsumerAt, SpscInv, CursorInv
<1>3. WrapSub(tail, ctail) = Pushes - t
  BY <1>1, <1>2, CursorDistance DEF ConsumerAt, SpscInv, CursorInv
<1>4. k \in Nat /\ t + k <= Pushes
  BY <1>1, <1>2, <1>3 DEF TailLoads
<1>5. Len(tailView) - WrapSub(tail, ctail) + k = t + k
  BY <1>1, <1>2, <1>3, <1>4 DEF SpscInv, ViewInv
<1>6. t + k # 0 => tailView[t + k] = t + k
  BY <1>1, <1>4 DEF SpscInv, ViewInv
<1>7. t <= consSees /\ consSees \in Nat
  BY DEF ConsumerAt, SpscInv, RingTypeOK
<1>8. LearnTail(k) \in Nat /\ t + k <= LearnTail(k)
  BY <1>4, <1>5, <1>6, <1>7 DEF LearnTail
<1>9. WrapAdd(ctail, k) = Cursor(t + k)
  BY <1>4, CursorAdvance DEF ConsumerAt
<1>. QED BY <1>4, <1>8, <1>9

LEMMA PushLoadHeadStep ==
  ASSUME SpscInv, NEW k, PushLoadHead(k)
  PROVE  SpscInv'
<1>. USE DEF PushLoadHead
<1>1. /\ ppc = "load" /\ mode = "split" /\ ppc' \in {"idle", "write"} /\ cpc' = cpc
      /\ k \in HeadLoads /\ ptail' = ptail
  BY DEF consVars, SpscInv, CursorInv
<1>2. CursorInv' /\ ViewInv' /\ RingInv'
  BY <1>1, QuietStep
<1>3. /\ Pushes' = Pushes /\ Pops' = Pops /\ pushed' = pushed
      /\ Pushes \in Nat /\ Pops \in Nat
  BY Counts DEF Pushes, Pops, histVars, SpscInv
<1>4. PICK c \in Nat : ProducerAt(c)
  BY <1>1 DEF SpscInv, EndpointInv
<1>5. /\ k \in Nat /\ c + k <= Pops
      /\ prodSees' \in Nat /\ c + k <= prodSees'
      /\ chead' = Cursor(c + k)
  BY <1>1, <1>4, LearnHeadIs
<1>6. RingTypeOK'
  BY <1>1, <1>5 DEF SpscInv, RingTypeOK, histVars, consVars
<1>7. ProducerAt(c + k)'
  <2>1. c + k <= Pops /\ Pops <= Pushes /\ Pushes <= c + N /\ c + k \in Nat /\ N \in Nat
    BY <1>3, <1>4, <1>5, SpscAssumption DEF ProducerAt, SpscInv, CursorInv
  <2>2. c + k <= Pushes /\ Pushes <= (c + k) + N
    BY <1>3, <1>5, <2>1
  <2>3. WrapSub(ptail, chead') = Pushes - (c + k)
    BY <1>3, <1>4, <1>5, <2>1, <2>2, CursorDistance DEF ProducerAt, SpscInv, CursorInv
  <2>4. ppc' = "write" => Pushes < (c + k) + N
    BY <1>3, <2>1, <2>2, <2>3
  <2>5. ~promise'
    BY <1>1, <1>4 DEF ProducerAt
  <2>6. ptail' = tail'
    BY <1>1, <1>4 DEF ProducerAt
  <2>. QED BY <1>1, <1>3, <1>5, <2>2, <2>4, <2>5, <2>6 DEF ProducerAt
<1>8. \E t \in Nat : ConsumerAt(t)'
  BY <1>1, <1>3 DEF SpscInv, EndpointInv, ConsumerAt, consVars
<1>. QED BY <1>2, <1>5, <1>6, <1>7, <1>8 DEF SpscInv, EndpointInv

LEMMA HasCapacityStep ==
  ASSUME SpscInv, HasCapacity
  PROVE  SpscInv'
<1>. USE DEF HasCapacity
<1>1. /\ ppc = "idle" /\ mode = "split" /\ ppc' = "idle" /\ cpc' = cpc
      /\ ptail' = ptail
  BY DEF consVars
<1>2. CursorInv' /\ ViewInv' /\ RingInv'
  BY <1>1, QuietStep
<1>3. /\ Pushes' = Pushes /\ Pops' = Pops /\ pushed' = pushed
      /\ Pushes \in Nat /\ Pops \in Nat
  BY Counts DEF Pushes, Pops, histVars, SpscInv
<1>4. PICK c \in Nat : ProducerAt(c)
  BY <1>1 DEF SpscInv, EndpointInv
<1>5. 0 \in HeadLoads
  <2>1. c <= Pops /\ Pops <= c + N /\ N \in Nat
    BY <1>3, <1>4, SpscAssumption DEF ProducerAt, SpscInv, CursorInv
  <2>2. WrapSub(head, chead) = Pops - c
    BY <1>3, <1>4, <2>1, CursorDistance DEF ProducerAt, SpscInv, CursorInv
  <2>. QED BY <1>3, <2>1, <2>2 DEF HeadLoads
<1>6. PICK k \in HeadLoads : /\ chead' = WrapAdd(chead, k)
                             /\ prodSees' = LearnHead(k)
                             /\ promise' = (WrapSub(ptail, chead') # N)
  BY <1>5
<1>7. /\ k \in Nat /\ c + k <= Pops
      /\ prodSees' \in Nat /\ c + k <= prodSees'
      /\ chead' = Cursor(c + k)
  BY <1>1, <1>4, <1>6, LearnHeadIs
<1>8. RingTypeOK'
  BY <1>1, <1>6, <1>7 DEF SpscInv, RingTypeOK, histVars, consVars
<1>9. ProducerAt(c + k)'
  <2>1. c + k <= Pops /\ Pops <= Pushes /\ Pushes <= c + N /\ c + k \in Nat /\ N \in Nat
    BY <1>3, <1>4, <1>7, SpscAssumption DEF ProducerAt, SpscInv, CursorInv
  <2>2. c + k <= Pushes /\ Pushes <= (c + k) + N
    BY <1>3, <1>7, <2>1
  <2>3. WrapSub(ptail, chead') = Pushes - (c + k)
    BY <1>3, <1>4, <1>7, <2>1, <2>2, CursorDistance DEF ProducerAt, SpscInv, CursorInv
  <2>4. promise' => Pushes < (c + k) + N
    <3>1. promise' => WrapSub(ptail, chead') # N
      BY <1>6, Zenon
    <3>. QED BY <1>3, <2>1, <2>2, <2>3, <3>1
  <2>5. ptail' = tail'
    BY <1>1, <1>4 DEF ProducerAt
  <2>. QED BY <1>1, <1>3, <1>7, <2>2, <2>4, <2>5 DEF ProducerAt
<1>10. \E t \in Nat : ConsumerAt(t)'
  BY <1>1, <1>3 DEF SpscInv, EndpointInv, ConsumerAt, consVars
<1>. QED BY <1>2, <1>7, <1>8, <1>9, <1>10 DEF SpscInv, EndpointInv

LEMMA PushWriteStep ==
  ASSUME SpscInv, PushWrite
  PROVE  SpscInv' /\ slots[Index(ptail)] = Uninit
<1>. USE DEF PushWrite
<1>1. /\ ppc = "write" /\ mode = "split" /\ mode' = "split" /\ ppc' = "publish"
      /\ cpc' = cpc /\ pval \in Values /\ pval' = pval
      /\ pushed' = pushed /\ taken' = taken /\ head' = head /\ tail' = tail
  BY DEF consVars, SpscInv, CursorInv, RingTypeOK
<1>2. /\ Pushes \in Nat /\ Pops \in Nat /\ Consumed \in Nat /\ N \in Nat
      /\ Pushes' = Pushes /\ Pops' = Pops /\ Consumed' = Consumed
      /\ Written = pushed /\ pushed \in Seq(Values) /\ Len(pushed) = Pushes
      /\ Written' = Append(pushed, pval) /\ Len(Written') = Pushes + 1
  BY <1>1, Counts, SpscAssumption
     DEF SpscInv, RingTypeOK, Pushes, Pops, Consumed, Written
<1>3. PICK c \in Nat : ProducerAt(c)
  BY <1>1 DEF SpscInv, EndpointInv
<1>4. Pushes < c + N /\ c <= Pops /\ Pops <= Consumed /\ Consumed <= Pushes
  <2>1. PICK t \in Nat : ConsumerAt(t)
    BY <1>1 DEF SpscInv, EndpointInv
  <2>2. Pops <= Pushes /\ (cpc = "publish" => Pops < Pushes)
    BY <1>2, <2>1 DEF ConsumerAt
  <2>. QED BY <1>1, <1>2, <1>3, <2>2 DEF ProducerAt, Consumed
<1>5. Index(ptail) = Slot(Pushes)
  BY <1>2, <1>3, SlotHere DEF ProducerAt, SpscInv, CursorInv
<1>6. /\ slots[Slot(Pushes)] = Uninit
      /\ Holds([slots EXCEPT ![Slot(Pushes)] = pval], Append(pushed, pval), Consumed)
  <2>1. slots \in Rings /\ Holds(slots, pushed, Consumed)
    BY <1>1, <1>2 DEF SpscInv, RingTypeOK, RingInv
  <2>2. Consumed <= Len(pushed) /\ Len(pushed) < Consumed + N
    BY <1>2, <1>4
  <2>. QED BY <1>1, <1>2, <2>1, <2>2, HoldsWrite
<1>7. RingInv'
  BY <1>1, <1>2, <1>5, <1>6 DEF RingInv
<1>8. RingTypeOK'
  <2>1. slots' \in Rings
    BY <1>1 DEF SpscInv, RingTypeOK, Rings
  <2>. QED BY <1>1, <2>1 DEF SpscInv, RingTypeOK, consVars
<1>9. CursorInv'
  BY <1>1, <1>2 DEF SpscInv, CursorInv
<1>10. ViewInv'
  BY <1>1, <1>2 DEF SpscInv, ViewInv
<1>11. ProducerAt(c)'
  BY <1>1, <1>2, <1>3, <1>4 DEF ProducerAt
<1>12. \E t \in Nat : ConsumerAt(t)'
  BY <1>1, <1>2 DEF SpscInv, EndpointInv, ConsumerAt, consVars
<1>13. EndpointInv'
  BY <1>11, <1>12 DEF EndpointInv
<1>. QED BY <1>5, <1>6, <1>7, <1>8, <1>9, <1>10, <1>13 DEF SpscInv

LEMMA PushPublishStep ==
  ASSUME SpscInv, PushPublish
  PROVE  SpscInv'
<1>. USE DEF PushPublish
<1>1. /\ ppc = "publish" /\ mode = "split" /\ mode' = "split" /\ ppc' = "idle"
      /\ cpc' = cpc /\ pval \in Values /\ cval' = cval
      /\ pushed' = Append(pushed, pval) /\ taken' = taken /\ head' = head
      /\ slots' = slots
  BY DEF consVars, SpscInv, CursorInv, RingTypeOK
<1>2. /\ Pushes \in Nat /\ Pops \in Nat /\ Consumed \in Nat /\ N \in Nat
      /\ Pushes' = Pushes + 1 /\ Pops' = Pops /\ Consumed' = Consumed
      /\ Written' = Written /\ Len(Written) = Pushes + 1
      /\ pushed' \in Seq(Values)
      /\ \A i \in 1 .. Pushes : pushed'[i] = pushed[i]
  BY <1>1, Counts, SpscAssumption
     DEF SpscInv, RingTypeOK, Pushes, Pops, Consumed, Written
<1>3. PICK c \in Nat : ProducerAt(c)
  BY <1>1 DEF SpscInv, EndpointInv
<1>4. PICK t \in Nat : ConsumerAt(t)
  BY <1>1 DEF SpscInv, EndpointInv
<1>5. ptail' = Cursor(Pushes + 1) /\ tail' = Cursor(Pushes + 1)
  BY <1>2, <1>3, CursorAdvance DEF ProducerAt, SpscInv, CursorInv
<1>6. RingInv'
  BY <1>1, <1>2 DEF SpscInv, RingInv
<1>7. writes = Pushes + 1
  BY <1>2 DEF SpscInv, ViewInv
<1>8. RingTypeOK'
  <2>1. tailView' \in Seq(Nat)
    BY <1>2, <1>7 DEF SpscInv, RingTypeOK
  <2>2. promise' = FALSE
    OBVIOUS
  <2>. QED BY <1>1, <1>2, <2>1, <2>2 DEF SpscInv, RingTypeOK, consVars
<1>9. Pushes < c + N /\ c <= Pops /\ Pops <= Pushes
  BY <1>1, <1>3 DEF ProducerAt, SpscInv, CursorInv
<1>10. CursorInv'
  <2>1. Pops <= Pushes + 1 /\ Pushes + 1 <= Pops + N
    BY <1>2, <1>9
  <2>. QED BY <1>1, <1>2, <1>5, <2>1 DEF SpscInv, CursorInv
<1>11. ViewInv'
  <2>1. Len(tailView') = Pushes + 1 /\ \A i \in 1 .. Pushes + 1 : tailView'[i] = i
    BY <1>2, <1>7 DEF SpscInv, ViewInv, RingTypeOK
  <2>. QED BY <1>1, <1>2, <2>1 DEF SpscInv, ViewInv
<1>12. ProducerAt(c)'
  <2>1. Pushes + 1 <= c + N
    BY <1>2, <1>9
  <2>2. promise' = FALSE
    OBVIOUS
  <2>. QED BY <1>1, <1>2, <1>3, <1>5, <1>9, <2>1, <2>2 DEF ProducerAt
<1>13. ConsumerAt(t)'
  <2>1. t <= Pushes + 1 /\ (cpc = "publish" => Pops + 1 \in 1 .. Pushes)
    BY <1>2, <1>4 DEF ConsumerAt
  <2>2. cpc = "publish" => pushed'[Pops + 1] = pushed[Pops + 1]
    BY <1>2, <2>1
  <2>. QED BY <1>1, <1>2, <1>4, <2>1, <2>2 DEF ConsumerAt, consVars
<1>14. EndpointInv'
  BY <1>12, <1>13 DEF EndpointInv
<1>. QED BY <1>6, <1>8, <1>10, <1>11, <1>14 DEF SpscInv

LEMMA PopStartStep ==
  ASSUME SpscInv, PopStart
  PROVE  SpscInv'
<1>. USE DEF PopStart
<1>1. /\ cpc = "idle" /\ mode = "split" /\ cpc' \in {"load", "read"}
      /\ ppc' = ppc /\ pval' = pval /\ chd' = chd /\ head' = head /\ tail' = tail
  BY DEF prodVars
<1>2. CursorInv' /\ ViewInv' /\ RingInv'
  BY <1>1, QuietStep
<1>3. RingTypeOK'
  BY <1>1 DEF SpscInv, RingTypeOK, histVars, prodVars
<1>4. /\ Pushes' = Pushes /\ Pops' = Pops /\ pushed' = pushed
      /\ Pushes \in Nat /\ Pops \in Nat /\ N \in Nat
  BY Counts, SpscAssumption DEF Pushes, Pops, histVars, SpscInv
<1>5. \E t \in Nat : ConsumerAt(t)'
  <2>1. PICK t \in Nat : ConsumerAt(t)
    BY <1>1 DEF SpscInv, EndpointInv
  <2>2. Pops <= t /\ t <= Pops + N
    BY <1>4, <2>1 DEF ConsumerAt, SpscInv, CursorInv
  <2>3. chd = ctail <=> t = Pops
    BY <1>4, <2>1, <2>2, CursorSame DEF ConsumerAt, SpscInv, CursorInv
  <2>4. cpc' = "read" => Pops < t
    BY <1>4, <2>2, <2>3
  <2>5. ConsumerAt(t)'
    BY <1>1, <1>4, <2>1, <2>4 DEF ConsumerAt
  <2>. QED BY <2>5
<1>6. \E c \in Nat : ProducerAt(c)'
  BY <1>1, <1>4 DEF SpscInv, EndpointInv, ProducerAt, prodVars
<1>. QED BY <1>2, <1>3, <1>5, <1>6 DEF SpscInv, EndpointInv

LEMMA PopLoadTailStep ==
  ASSUME SpscInv, NEW k, PopLoadTail(k)
  PROVE  SpscInv'
<1>. USE DEF PopLoadTail
<1>1. /\ cpc = "load" /\ mode = "split" /\ cpc' \in {"idle", "read"}
      /\ ppc' = ppc /\ pval' = pval /\ chd' = chd /\ head' = head /\ tail' = tail
      /\ k \in TailLoads
  BY DEF prodVars, SpscInv, CursorInv
<1>2. CursorInv' /\ ViewInv' /\ RingInv'
  BY <1>1, QuietStep
<1>3. /\ Pushes' = Pushes /\ Pops' = Pops /\ pushed' = pushed
      /\ Pushes \in Nat /\ Pops \in Nat /\ N \in Nat
  BY Counts, SpscAssumption DEF Pushes, Pops, histVars, SpscInv
<1>4. PICK t \in Nat : ConsumerAt(t)
  BY <1>1 DEF SpscInv, EndpointInv
<1>5. /\ k \in Nat /\ t + k <= Pushes
      /\ consSees' \in Nat /\ t + k <= consSees'
      /\ ctail' = Cursor(t + k)
  BY <1>1, <1>4, LearnTailIs
<1>6. RingTypeOK'
  BY <1>1, <1>5 DEF SpscInv, RingTypeOK, histVars, prodVars
<1>7. ConsumerAt(t + k)'
  <2>1. Pops <= t /\ Pushes <= Pops + N
    BY <1>3, <1>4 DEF ConsumerAt, SpscInv, CursorInv
  <2>2. Pops <= t + k /\ t + k <= Pops + N /\ t + k \in Nat
    BY <1>3, <1>5, <2>1
  <2>3. chd = ctail' <=> t + k = Pops
    BY <1>3, <1>4, <1>5, <2>2, CursorSame DEF ConsumerAt, SpscInv, CursorInv
  <2>4. cpc' = "read" => Pops < t + k
    BY <1>3, <2>2, <2>3
  <2>5. chd' = head'
    BY <1>1, <1>4 DEF ConsumerAt
  <2>. QED BY <1>1, <1>3, <1>5, <2>2, <2>4, <2>5 DEF ConsumerAt
<1>8. \E c \in Nat : ProducerAt(c)'
  BY <1>1, <1>3 DEF SpscInv, EndpointInv, ProducerAt, prodVars
<1>. QED BY <1>2, <1>5, <1>6, <1>7, <1>8 DEF SpscInv, EndpointInv

LEMMA PopReadStep ==
  ASSUME SpscInv, PopRead
  PROVE  SpscInv' /\ slots[Index(chd)] = pushed[Pops + 1]
<1>. USE DEF PopRead
<1>1. /\ cpc = "read" /\ mode = "split" /\ mode' = "split" /\ cpc' = "publish"
      /\ ppc' = ppc /\ pval' = pval /\ chd' = chd
      /\ pushed' = pushed /\ taken' = taken /\ head' = head /\ tail' = tail
  BY DEF prodVars, SpscInv, CursorInv
<1>2. /\ Pushes \in Nat /\ Pops \in Nat /\ N \in Nat
      /\ Pushes' = Pushes /\ Pops' = Pops /\ Consumed = Pops /\ Consumed' = Pops + 1
      /\ Written \in Seq(Values) /\ Written' = Written /\ pushed \in Seq(Values)
      /\ Len(Written) = IF ppc = "publish" THEN Pushes + 1 ELSE Pushes
  BY <1>1, Counts, SpscAssumption
     DEF SpscInv, RingTypeOK, Pushes, Pops, Consumed, Written
<1>3. PICK c \in Nat : ProducerAt(c)
  BY <1>1 DEF SpscInv, EndpointInv
<1>4. PICK t \in Nat : ConsumerAt(t)
  BY <1>1 DEF SpscInv, EndpointInv
<1>5. Pops < t /\ t <= Pushes /\ Pops < Len(Written) /\ Len(Written) <= Pops + N
  <2>1. Pops < t /\ t <= Pushes
    BY <1>1, <1>4 DEF ConsumerAt
  <2>2. c <= Pops /\ Pushes <= c + N /\ (ppc = "publish" => Pushes < c + N)
    BY <1>3 DEF ProducerAt
  <2>. QED BY <1>2, <2>1, <2>2
<1>6. Index(chd) = Slot(Pops)
  BY <1>2, <1>4, SlotHere DEF ConsumerAt, SpscInv, CursorInv
<1>7. /\ slots[Slot(Pops)] = Written[Pops + 1]
      /\ Holds([slots EXCEPT ![Slot(Pops)] = Uninit], Written, Pops + 1)
  <2>1. slots \in Rings /\ Holds(slots, Written, Pops)
    BY <1>1, <1>2 DEF SpscInv, RingTypeOK, RingInv
  <2>. QED BY <1>2, <1>5, <2>1, HoldsRead
<1>8. Written[Pops + 1] = pushed[Pops + 1] /\ pushed[Pops + 1] \in Values
  BY <1>2, <1>5 DEF Written, Pushes
<1>9. cval' = pushed[Pops + 1]
  <2>1. slots[Index(chd)] = pushed[Pops + 1]
    BY <1>6, <1>7, <1>8
  <2>2. pushed[Pops + 1] # Uninit
    BY <1>8, SpscAssumption
  <2>. QED BY <2>1, <2>2 DEF SlotRead
<1>10. RingInv'
  BY <1>1, <1>2, <1>6, <1>7 DEF RingInv
<1>11. RingTypeOK'
  <2>1. slots' \in Rings
    BY DEF SpscInv, RingTypeOK, Rings
  <2>. QED BY <1>1, <1>8, <1>9, <2>1 DEF SpscInv, RingTypeOK, prodVars
<1>12. CursorInv'
  BY <1>1, <1>2 DEF SpscInv, CursorInv
<1>13. ViewInv'
  BY <1>1, <1>2 DEF SpscInv, ViewInv
<1>14. ProducerAt(c)'
  BY <1>1, <1>2, <1>3 DEF ProducerAt, prodVars
<1>15. ConsumerAt(t)'
  BY <1>1, <1>2, <1>4, <1>5, <1>9 DEF ConsumerAt
<1>16. EndpointInv'
  BY <1>14, <1>15 DEF EndpointInv
<1>. QED BY <1>6, <1>7, <1>8, <1>10, <1>11, <1>12, <1>13, <1>16 DEF SpscInv

LEMMA PopPublishStep ==
  ASSUME SpscInv, PopPublish
  PROVE  SpscInv'
<1>. USE DEF PopPublish
<1>1. /\ cpc = "publish" /\ mode = "split" /\ mode' = "split" /\ cpc' = "idle"
      /\ ppc' = ppc /\ pval' = pval /\ cval \in Values
      /\ pushed' = pushed /\ taken' = Append(taken, cval) /\ tail' = tail
      /\ slots' = slots
  BY DEF prodVars, SpscInv, CursorInv, RingTypeOK
<1>2. /\ Pushes \in Nat /\ Pops \in Nat /\ N \in Nat
      /\ Pushes' = Pushes /\ Pops' = Pops + 1 /\ Consumed = Pops + 1 /\ Consumed' = Consumed
      /\ Written' = Written /\ taken' \in Seq(Values)
  BY <1>1, Counts, SpscAssumption
     DEF SpscInv, RingTypeOK, Pushes, Pops, Consumed, Written
<1>3. PICK c \in Nat : ProducerAt(c)
  BY <1>1 DEF SpscInv, EndpointInv
<1>4. PICK t \in Nat : ConsumerAt(t)
  BY <1>1 DEF SpscInv, EndpointInv
<1>5. chd' = Cursor(Pops + 1) /\ head' = Cursor(Pops + 1)
  BY <1>2, <1>4, CursorAdvance DEF ConsumerAt, SpscInv, CursorInv
<1>6. RingInv'
  BY <1>1, <1>2 DEF SpscInv, RingInv
<1>7. reads = Pops + 1
  BY <1>2 DEF SpscInv, ViewInv
<1>8. RingTypeOK'
  <2>1. headView' \in Seq(Nat)
    BY <1>2, <1>7 DEF SpscInv, RingTypeOK
  <2>. QED BY <1>1, <1>2, <2>1 DEF SpscInv, RingTypeOK, prodVars
<1>9. Pops < t /\ t <= Pushes /\ c <= Pops /\ Pushes <= Pops + N
  BY <1>1, <1>3, <1>4 DEF ConsumerAt, ProducerAt, SpscInv, CursorInv
<1>10. CursorInv'
  <2>1. Pops + 1 <= Pushes /\ Pushes <= (Pops + 1) + N
    BY <1>2, <1>9
  <2>. QED BY <1>1, <1>2, <1>5, <2>1 DEF SpscInv, CursorInv
<1>11. ViewInv'
  <2>1. Len(headView') = Pops + 1 /\ \A i \in 1 .. Pops + 1 : headView'[i] = i
    BY <1>1, <1>2, <1>7 DEF SpscInv, ViewInv, RingTypeOK
  <2>. QED BY <1>1, <1>2, <2>1 DEF SpscInv, ViewInv
<1>12. ProducerAt(c)'
  <2>1. c <= Pops + 1
    BY <1>2, <1>9
  <2>. QED BY <1>1, <1>2, <1>3, <2>1 DEF ProducerAt, prodVars
<1>13. ConsumerAt(t)'
  <2>1. Pops + 1 <= t
    BY <1>2, <1>9
  <2>. QED BY <1>1, <1>2, <1>4, <1>5, <2>1 DEF ConsumerAt
<1>14. EndpointInv'
  BY <1>12, <1>13 DEF EndpointInv
<1>. QED BY <1>6, <1>8, <1>10, <1>11, <1>14 DEF SpscInv

-----------------------------------------------------------------------------
LEMMA SplitStep ==
  ASSUME SpscInv, Split
  PROVE  SpscInv'
<1>. USE DEF Split
<1>1. /\ mode = "owned" /\ mode' = "split" /\ ppc = "idle" /\ cpc = "idle"
      /\ ppc' = ppc /\ cpc' = cpc /\ slots' = slots /\ head' = head /\ tail' = tail
      /\ promise' = FALSE
  BY DEF SpscInv, CursorInv
<1>2. /\ Pushes \in Nat /\ Pops \in Nat /\ N \in Nat
      /\ Pushes' = Pushes /\ Pops' = Pops /\ Consumed' = Consumed /\ Consumed = Pops
      /\ Written' = Written /\ Len(Written) = Pushes
  BY <1>1, Counts, SpscAssumption DEF SpscInv, Pushes, Pops, Consumed, Written, histVars
<1>3. RingTypeOK'
  BY <1>1 DEF SpscInv, RingTypeOK, histVars, Modes
<1>4. CursorInv' /\ ViewInv' /\ RingInv'
  BY <1>1, <1>2 DEF SpscInv, CursorInv, ViewInv, RingInv, histVars
<1>5. reads = Pops /\ writes = Pushes
  BY <1>2 DEF SpscInv, ViewInv
<1>6. ProducerAt(Pops)'
  BY <1>1, <1>2, <1>5 DEF ProducerAt, SpscInv, CursorInv
<1>7. ConsumerAt(Pushes)'
  BY <1>1, <1>2, <1>5 DEF ConsumerAt, SpscInv, CursorInv
<1>. QED BY <1>2, <1>3, <1>4, <1>6, <1>7 DEF SpscInv, EndpointInv

\* Join and IntoInner only pass the queue from one holder to the next.
LEMMA HandOverStep ==
  ASSUME SpscInv, Join \/ IntoInner
  PROVE  SpscInv'
<1>1. /\ mode \in {"owned", "split"} /\ mode' \in {"owned", "draining"}
      /\ ppc = "idle" /\ cpc = "idle"
      /\ UNCHANGED <<head, tail, slots, prodVars, consVars, dpos, histVars>>
  BY DEF Join, IntoInner, SpscInv, CursorInv
<1>2. ppc' = ppc /\ cpc' = cpc /\ pval' = pval
  BY <1>1 DEF prodVars, consVars
<1>3. /\ Pushes' = Pushes /\ Pops' = Pops /\ Consumed' = Consumed /\ Written' = Written
  BY <1>1, <1>2 DEF Pushes, Pops, Consumed, Written, histVars
<1>4. RingTypeOK'
  BY <1>1, <1>2 DEF SpscInv, RingTypeOK, histVars, prodVars, consVars, Modes
<1>5. CursorInv' /\ RingInv'
  BY <1>1, <1>2, <1>3 DEF SpscInv, CursorInv, RingInv
<1>6. ViewInv'
  BY <1>1, <1>2, <1>3 DEF SpscInv, ViewInv, histVars
<1>. QED BY <1>1, <1>4, <1>5, <1>6 DEF SpscInv, EndpointInv

LEMMA DrainStepStep ==
  ASSUME SpscInv, DrainStep
  PROVE  /\ SpscInv'
         /\ Pops < Pushes
         /\ taken' = Append(taken, pushed[Pops + 1])
         /\ slots[Index(head)] = pushed[Pops + 1]
<1>. USE DEF DrainStep
<1>1. /\ mode = "draining" /\ mode' = "draining" /\ head # tail
      /\ ppc = "idle" /\ cpc = "idle" /\ ppc' = "idle" /\ cpc' = "idle"
      /\ pushed' = pushed /\ tail' = tail
  BY DEF SpscInv, CursorInv, prodVars, consVars
<1>2. /\ Pushes \in Nat /\ Pops \in Nat /\ N \in Nat
      /\ Pushes' = Pushes /\ Consumed = Pops /\ Consumed' = Pops'
      /\ Written = pushed /\ Written' = pushed /\ Len(pushed) = Pushes
      /\ pushed \in Seq(Values)
  BY <1>1, Counts, SpscAssumption
     DEF SpscInv, RingTypeOK, Pushes, Pops, Consumed, Written
<1>3. /\ head = Cursor(Pops) /\ tail = Cursor(Pushes)
      /\ Pops < Pushes /\ Pushes <= Pops + N
  <2>1. Pops <= Pushes /\ Pushes <= Pops + N /\ Cursor(Pops) # Cursor(Pushes)
    BY <1>1 DEF SpscInv, CursorInv
  <2>. QED BY <1>2, <2>1 DEF SpscInv, CursorInv
<1>4. Index(head) = Slot(Pops) /\ head' = Cursor(Pops + 1)
  BY <1>2, <1>3, SlotHere, CursorAdvance
<1>5. /\ slots[Slot(Pops)] = pushed[Pops + 1]
      /\ Holds([slots EXCEPT ![Slot(Pops)] = Uninit], pushed, Pops + 1)
  <2>1. slots \in Rings /\ Holds(slots, pushed, Pops)
    BY <1>1, <1>2 DEF SpscInv, RingTypeOK, RingInv
  <2>. QED BY <1>2, <1>3, <2>1, HoldsRead
<1>6. pushed[Pops + 1] \in Values /\ pushed[Pops + 1] # Uninit
  BY <1>2, <1>3, SpscAssumption
<1>7. taken' = Append(taken, pushed[Pops + 1])
  BY <1>4, <1>5, <1>6 DEF SlotRead
<1>8. Pops' = Pops + 1 /\ taken' \in Seq(Values)
  BY <1>6, <1>7 DEF Pops, SpscInv, RingTypeOK
<1>9. RingInv'
  BY <1>1, <1>2, <1>4, <1>5, <1>8 DEF RingInv
<1>10. reads = Pops
  BY <1>2 DEF SpscInv, ViewInv
<1>11. RingTypeOK'
  <2>1. slots' \in Rings
    BY DEF SpscInv, RingTypeOK, Rings
  <2>2. headView' \in Seq(Nat) /\ reads' \in Nat
    BY <1>2, <1>10 DEF SpscInv, RingTypeOK
  <2>. QED BY <1>1, <1>8, <2>1, <2>2 DEF SpscInv, RingTypeOK, prodVars, consVars
<1>12. CursorInv'
  <2>1. Pops + 1 <= Pushes /\ Pushes <= (Pops + 1) + N
    BY <1>2, <1>3
  <2>. QED BY <1>1, <1>2, <1>3, <1>4, <1>8, <2>1 DEF CursorInv
<1>13. ViewInv'
  <2>1. Len(headView') = Pops + 1 /\ reads' = Pops + 1
    BY <1>2, <1>10 DEF SpscInv, ViewInv, RingTypeOK
  <2>. QED BY <1>1, <1>2, <1>8, <2>1 DEF SpscInv, ViewInv
<1>14. EndpointInv'
  BY <1>1 DEF EndpointInv
<1>. QED BY <1>3, <1>4, <1>5, <1>7, <1>9, <1>11, <1>12, <1>13, <1>14 DEF SpscInv

LEMMA DropQueueStep ==
  ASSUME SpscInv, DropQueue
  PROVE  SpscInv' /\ DropAt(Pops)'
<1>. USE DEF DropQueue
<1>1. /\ mode \in {"owned", "draining"} /\ mode' = "dropping"
      /\ ppc = "idle" /\ cpc = "idle" /\ ppc' = "idle" /\ cpc' = "idle"
      /\ pushed' = pushed /\ taken' = taken /\ slots' = slots
  BY DEF SpscInv, CursorInv, prodVars, consVars, histVars
<1>2. /\ Pushes \in Nat /\ Pops \in Nat /\ Pushes' = Pushes /\ Pops' = Pops
      /\ Consumed = Pops /\ Consumed' = Pops /\ Written = pushed /\ Written' = pushed
  BY <1>1, Counts DEF SpscInv, Pushes, Pops, Consumed, Written
<1>3. RingTypeOK'
  BY <1>1 DEF SpscInv, RingTypeOK, histVars, prodVars, consVars, Modes
<1>4. CursorInv'
  BY <1>1, <1>2 DEF SpscInv, CursorInv
<1>5. ViewInv'
  BY <1>1, <1>2 DEF SpscInv, ViewInv, histVars
<1>6. DropAt(Pops)'
  BY <1>1, <1>2 DEF SpscInv, CursorInv, RingInv, DropAt
<1>7. RingInv'
  BY <1>1, <1>2, <1>6 DEF RingInv
<1>. QED BY <1>1, <1>3, <1>4, <1>5, <1>6, <1>7 DEF SpscInv, EndpointInv

\* One iteration of Drop's loop, from position d.
LEMMA DropStepStep ==
  ASSUME SpscInv, DropStep, NEW d \in Nat, DropAt(d)
  PROVE  /\ SpscInv'
         /\ d = Pushes => mode' = "gone"
         /\ d < Pushes => /\ mode' = "dropping" /\ DropAt(d + 1)'
                          /\ slots[Index(dpos)] = pushed[d + 1]
<1>. USE DEF DropStep
<1>1. /\ mode = "dropping" /\ ppc = "idle" /\ cpc = "idle" /\ ppc' = "idle" /\ cpc' = "idle"
      /\ pushed' = pushed /\ taken' = taken /\ tail' = tail /\ head' = head
  BY DEF SpscInv, CursorInv, prodVars, consVars, histVars
<1>2. /\ Pushes \in Nat /\ Pops \in Nat /\ Pushes' = Pushes /\ Pops' = Pops /\ N \in Nat
      /\ Consumed' = Consumed /\ Written' = Written
      /\ Len(pushed) = Pushes /\ pushed \in Seq(Values)
  BY <1>1, Counts, SpscAssumption DEF SpscInv, RingTypeOK, Pushes, Pops, Consumed, Written
<1>3. /\ dpos = Cursor(d) /\ tail = Cursor(Pushes) /\ Pops <= d /\ d <= Pushes
      /\ Pushes <= Pops + N /\ Holds(slots, pushed, d) /\ slots \in Rings
  BY DEF SpscInv, CursorInv, RingTypeOK, DropAt
<1>4. dpos = tail <=> d = Pushes
  <2>1. Pushes <= d + N
    BY <1>2, <1>3
  <2>2. Cursor(Pushes) = Cursor(d) <=> Pushes = d
    BY <1>2, <1>3, <2>1, CursorSame
  <2>. QED BY <1>3, <2>2
<1>5. CursorInv' /\ ViewInv' /\ EndpointInv' /\ (RingTypeOK' <=> slots' \in Rings)
  <2>1. mode' \in {"dropping", "gone"}
    BY <1>1
  <2>2. CursorInv' /\ EndpointInv'
    BY <1>1, <1>2, <2>1 DEF SpscInv, CursorInv, EndpointInv
  <2>3. ViewInv'
    BY <1>1, <1>2, <2>1 DEF SpscInv, ViewInv, histVars
  <2>4. RingTypeOK' <=> slots' \in Rings
    BY <1>1, <2>1 DEF SpscInv, RingTypeOK, histVars, prodVars, consVars, Modes
  <2>. QED BY <2>2, <2>3, <2>4
<1>6. CASE d = Pushes
  <2>1. mode' = "gone" /\ slots' = slots
    BY <1>4, <1>6
  <2>2. \A j \in 0 .. N - 1 : slots[j] = Uninit
    BY <1>2, <1>3, <1>6, HoldsNothing
  <2>3. RingInv'
    BY <2>1, <2>2 DEF RingInv
  <2>. QED BY <1>2, <1>3, <1>5, <1>6, <2>1, <2>3 DEF SpscInv
<1>7. CASE d # Pushes
  <2>1. d < Pushes /\ Pushes <= d + N /\ d + 1 <= Pushes /\ Pops <= d + 1 /\ d + 1 \in Nat
    BY <1>2, <1>3, <1>7
  <2>2. Index(dpos) = Slot(d) /\ WrapAdd(dpos, 1) = Cursor(d + 1)
    BY <1>3, SlotHere, CursorAdvance
  <2>3. /\ mode' = "dropping" /\ dpos' = Cursor(d + 1)
        /\ slots' = [slots EXCEPT ![Slot(d)] = Uninit]
    BY <1>1, <1>4, <1>7, <2>2
  <2>4. slots[Slot(d)] = pushed[d + 1] /\ Holds(slots', pushed, d + 1)
    BY <1>2, <1>3, <2>1, <2>3, HoldsRead
  <2>5. DropAt(d + 1)'
    BY <1>1, <1>2, <2>1, <2>3, <2>4 DEF DropAt
  <2>6. RingInv'
    BY <2>1, <2>3, <2>5 DEF RingInv
  <2>7. slots' \in Rings
    BY <1>3, <2>3 DEF Rings
  <2>. QED BY <1>5, <1>7, <2>2, <2>3, <2>4, <2>5, <2>6, <2>7 DEF SpscInv
<1>. QED BY <1>6, <1>7

LEMMA SpscStep == SpscInv /\ [Next]_vars => SpscInv'
<1>. SUFFICES ASSUME SpscInv, [Next]_vars PROVE SpscInv'
  OBVIOUS
<1>1. CASE UNCHANGED vars
  <2>1. Pushes' = Pushes /\ Pops' = Pops /\ Consumed' = Consumed /\ Written' = Written
    BY <1>1 DEF vars, Pushes, Pops, Consumed, Written, histVars, prodVars, consVars
  <2>2. RingTypeOK'
    BY <1>1 DEF SpscInv, RingTypeOK, vars, histVars, prodVars, consVars
  <2>3. CursorInv' /\ ViewInv'
    BY <1>1, <2>1 DEF SpscInv, CursorInv, ViewInv, vars, histVars, prodVars, consVars
  <2>4. EndpointInv'
    BY <1>1, <2>1 DEF SpscInv, EndpointInv, ProducerAt, ConsumerAt, vars, histVars,
                      prodVars, consVars
  <2>5. RingInv'
    BY <1>1, <2>1 DEF SpscInv, RingInv, DropAt, vars, histVars, prodVars, consVars
  <2>. QED BY <2>2, <2>3, <2>4, <2>5 DEF SpscInv
<1>2. CASE Produce
  BY <1>2, PushStartStep, PushLoadHeadStep, PushWriteStep, PushPublishStep,
     HasCapacityStep DEF Produce
<1>3. CASE Consume
  BY <1>3, PopStartStep, PopLoadTailStep, PopReadStep, PopPublishStep DEF Consume
<1>4. CASE Own
  <2>1. CASE DropStep
    <3>1. PICK d \in Nat : DropAt(d)
      BY <2>1 DEF SpscInv, RingInv, DropStep
    <3>. QED BY <2>1, <3>1, DropStepStep
  <2>. QED BY <1>4, <2>1, SplitStep, HandOverStep, DrainStepStep, DropQueueStep DEF Own
<1>. QED BY <1>1, <1>2, <1>3, <1>4 DEF Next

(* SpscInv holds in every state the split endpoints, into_inner and Drop can *)
(* reach.                                                                    *)
THEOREM SpscInductive == Spec => []SpscInv
<1>. QED BY SpscInitial, SpscStep, PTL DEF Spec

-----------------------------------------------------------------------------
(* Every slot access of an endpoint is ordered after the peer's previous     *)
(* access to that slot (push_impl and pop_impl), for every capacity, word    *)
(* size and interleaving.                                                    *)
THEOREM RingHasNoDataRace == Spec => []NoDataRace
<1>1. SpscInv => NoDataRace
  <2>. SUFFICES ASSUME SpscInv PROVE NoDataRace
    OBVIOUS
  <2>0. /\ Pushes \in Nat /\ Pops \in Nat /\ N \in Nat /\ prodSees \in Nat /\ consSees \in Nat
    BY Counts, SpscAssumption DEF SpscInv, RingTypeOK
  <2>1. ASSUME cpc = "read" PROVE Pops + 1 <= consSees
    <3>1. PICK t \in Nat : ConsumerAt(t)
      BY <2>1 DEF SpscInv, CursorInv, EndpointInv
    <3>. QED BY <2>0, <2>1, <3>1 DEF ConsumerAt
  <2>2. ASSUME ppc = "write" PROVE Pushes + 1 <= prodSees + N
    <3>1. PICK c \in Nat : ProducerAt(c)
      BY <2>2 DEF SpscInv, CursorInv, EndpointInv
    <3>. QED BY <2>0, <2>2, <3>1 DEF ProducerAt
  <2>. QED BY <2>1, <2>2 DEF NoDataRace, Pushes, Pops
<1>. QED BY <1>1, SpscInductive, PTL

(* No slot is overwritten, read twice, dropped twice or left initialised by  *)
(* Drop, and a slot has_capacity promised stays free until the next push.    *)
THEOREM SlotsAreDisciplined == Spec => []SlotDiscipline
<1>1. SpscInv => SlotDiscipline
  <2>. SUFFICES ASSUME SpscInv PROVE SlotDiscipline
    OBVIOUS
  <2>0. /\ Pushes \in Nat /\ Pops \in Nat /\ N \in Nat /\ slots \in Rings
        /\ pushed \in Seq(Values) /\ Len(pushed) = Pushes
        /\ Written \in Seq(Values) /\ Consumed \in Nat
        /\ Len(Written) = IF ppc = "publish" THEN Pushes + 1 ELSE Pushes
        /\ head = Cursor(Pops) /\ tail = Cursor(Pushes)
        /\ Pops <= Pushes /\ Pushes <= Pops + N
        /\ mode # "split" => ppc = "idle" /\ cpc = "idle"
    BY Counts, SpscAssumption DEF SpscInv, RingTypeOK, CursorInv, Pushes
  <2>1. promise => ppc # "load"
    <3>1. CASE mode = "split"
      BY <3>1 DEF SpscInv, EndpointInv, ProducerAt
    <3>2. CASE mode # "split"
      BY <2>0, <3>2
    <3>. QED BY <3>1, <3>2
  <2>2. ASSUME ppc = "write" PROVE slots[Index(ptail)] = Uninit
    <3>1. mode = "split" /\ Written = pushed
      BY <2>0, <2>2 DEF Written
    <3>2. PICK c \in Nat : ProducerAt(c)
      BY <3>1 DEF SpscInv, EndpointInv
    <3>3. PICK t \in Nat : ConsumerAt(t)
      BY <3>1 DEF SpscInv, EndpointInv
    <3>4. Pushes < c + N /\ c <= Pops /\ (cpc = "publish" => Pops + 1 <= Pushes)
      BY <2>0, <2>2, <3>2, <3>3 DEF ProducerAt, ConsumerAt
    <3>5. Consumed <= Pushes /\ Pushes < Consumed + N
      BY <2>0, <3>4 DEF Consumed
    <3>6. Holds(slots, pushed, Consumed)
      BY <3>1 DEF SpscInv, RingInv
    <3>7. slots[Slot(Pushes)] = Uninit
      <4>1. PICK v \in Values : TRUE
        BY <2>2 DEF SpscInv, RingTypeOK
      <4>. QED BY <2>0, <3>5, <3>6, <4>1, HoldsWrite
    <3>8. Index(ptail) = Slot(Pushes)
      BY <2>0, <3>2, SlotHere DEF ProducerAt
    <3>. QED BY <3>7, <3>8
  <2>3. ASSUME cpc = "read" PROVE slots[Index(chd)] # Uninit
    <3>1. mode = "split" /\ Consumed = Pops
      BY <2>0, <2>3 DEF Consumed
    <3>2. PICK t \in Nat : ConsumerAt(t)
      BY <3>1 DEF SpscInv, EndpointInv
    <3>3. PICK c \in Nat : ProducerAt(c)
      BY <3>1 DEF SpscInv, EndpointInv
    <3>4. Pops < Len(Written) /\ Len(Written) <= Pops + N
      <4>1. Pops < Pushes
        BY <2>0, <2>3, <3>2 DEF ConsumerAt
      <4>2. ppc = "publish" => Pushes + 1 <= Pops + N
        BY <2>0, <3>3 DEF ProducerAt
      <4>. QED BY <2>0, <4>1, <4>2
    <3>5. slots[Slot(Pops)] = Written[Pops + 1]
      BY <2>0, <3>1, <3>4, HoldsRead DEF SpscInv, RingInv
    <3>6. Written[Pops + 1] \in Values
      BY <2>0, <3>4
    <3>7. Index(chd) = Slot(Pops)
      BY <2>0, <3>2, SlotHere DEF ConsumerAt
    <3>. QED BY <3>5, <3>6, <3>7, SpscAssumption
  <2>4. ASSUME mode = "draining", head # tail PROVE slots[Index(head)] # Uninit
    <3>1. Consumed = Pops /\ Written = pushed
      BY <2>0, <2>4 DEF Consumed, Written
    <3>2. Pops < Pushes
      BY <2>0, <2>4
    <3>3. slots[Slot(Pops)] = pushed[Pops + 1]
      BY <2>0, <2>4, <3>1, <3>2, HoldsRead DEF SpscInv, RingInv
    <3>4. pushed[Pops + 1] \in Values
      BY <2>0, <3>2
    <3>. QED BY <2>0, <3>3, <3>4, SlotHere, SpscAssumption
  <2>5. ASSUME mode = "dropping", dpos # tail PROVE slots[Index(dpos)] # Uninit
    <3>1. PICK d \in Nat : DropAt(d)
      BY <2>5 DEF SpscInv, RingInv
    <3>2. d < Pushes /\ Pushes <= d + N
      BY <2>0, <2>5, <3>1 DEF DropAt
    <3>3. slots[Slot(d)] = pushed[d + 1]
      BY <2>0, <3>1, <3>2, HoldsRead DEF DropAt
    <3>4. pushed[d + 1] \in Values
      BY <2>0, <3>2
    <3>. QED BY <3>1, <3>3, <3>4, SlotHere, SpscAssumption DEF DropAt
  <2>6. mode = "gone" => \A i \in DOMAIN slots : slots[i] = Uninit
    BY <2>0 DEF SpscInv, RingInv, Rings
  <2>. QED BY <2>1, <2>2, <2>3, <2>4, <2>5, <2>6 DEF SlotDiscipline
<1>. QED BY <1>1, SpscInductive, PTL

-----------------------------------------------------------------------------
(* The refinement.  The abstract queue is what was pushed and not yet taken  *)
(* or reclaimed.                                                             *)
Rest(seq, d) == [i \in 1 .. Len(seq) - d |-> seq[d + i]]

LEMMA RestLaws ==
  ASSUME NEW seq \in Seq(Values), NEW d \in Nat, d <= Len(seq)
  PROVE  /\ Rest(seq, d) \in Seq(Values) /\ Len(Rest(seq, d)) = Len(seq) - d
         /\ \A v \in Values : Rest(Append(seq, v), d) = Append(Rest(seq, d), v)
         /\ d = Len(seq) => Rest(seq, d) = <<>>
         /\ d < Len(seq) => /\ Rest(seq, d) # <<>>
                            /\ Head(Rest(seq, d)) = seq[d + 1]
                            /\ Tail(Rest(seq, d)) = Rest(seq, d + 1)
<1>1. /\ Rest(seq, d) \in Seq(Values) /\ Len(Rest(seq, d)) = Len(seq) - d
      /\ \A i \in 1 .. Len(seq) - d : Rest(seq, d)[i] = seq[d + i]
  BY DEF Rest
<1>2. ASSUME NEW v \in Values PROVE Rest(Append(seq, v), d) = Append(Rest(seq, d), v)
  <2>. DEFINE s == Rest(seq, d)
              longer == Append(seq, v)
  <2>1. /\ longer \in Seq(Values) /\ Len(longer) = Len(seq) + 1
        /\ longer[Len(seq) + 1] = v /\ \A i \in 1 .. Len(seq) : longer[i] = seq[i]
    OBVIOUS
  <2>2. /\ Append(s, v) \in Seq(Values) /\ Len(Append(s, v)) = Len(seq) + 1 - d
        /\ \A i \in 1 .. Len(seq) - d : Append(s, v)[i] = seq[d + i]
        /\ Append(s, v)[Len(seq) + 1 - d] = v
    <3>1. Len(s) + 1 = Len(seq) + 1 - d
      BY <1>1
    <3>. QED BY <1>1, <3>1
  <2>3. /\ Rest(longer, d) \in Seq(Values) /\ Len(Rest(longer, d)) = Len(seq) + 1 - d
        /\ \A i \in 1 .. Len(seq) + 1 - d : Rest(longer, d)[i] = longer[d + i]
    BY <2>1 DEF Rest
  <2>4. ASSUME NEW i \in 1 .. Len(seq) + 1 - d PROVE longer[d + i] = Append(s, v)[i]
    <3>1. CASE i <= Len(seq) - d
      <4>1. d + i \in 1 .. Len(seq) /\ i \in 1 .. Len(seq) - d
        BY <3>1
      <4>. QED BY <2>1, <2>2, <4>1
    <3>2. CASE ~ (i <= Len(seq) - d)
      <4>1. d + i = Len(seq) + 1 /\ i = Len(seq) + 1 - d
        BY <3>2
      <4>. QED BY <2>1, <2>2, <4>1
    <3>. QED BY <3>1, <3>2
  <2>. HIDE DEF s, longer
  <2>5. Rest(longer, d) = Append(s, v)
    BY <2>2, <2>3, <2>4, SeqEqual
  <2>. QED BY <2>5 DEF s, longer
<1>3. d = Len(seq) => Rest(seq, d) = <<>>
  BY <1>1
<1>4. ASSUME d < Len(seq)
      PROVE  /\ Rest(seq, d) # <<>>
             /\ Head(Rest(seq, d)) = seq[d + 1]
             /\ Tail(Rest(seq, d)) = Rest(seq, d + 1)
  <2>. DEFINE s == Rest(seq, d)
  <2>0. 1 \in 1 .. Len(seq) - d
    BY <1>4
  <2>1. s # <<>> /\ Head(s) = seq[d + 1]
    BY <1>1, <1>4, <2>0
  <2>2. /\ Tail(s) \in Seq(Values) /\ Len(Tail(s)) = Len(seq) - (d + 1)
        /\ \A i \in 1 .. Len(seq) - (d + 1) : Tail(s)[i] = s[i + 1]
    <3>1. Len(s) - 1 = Len(seq) - (d + 1)
      BY <1>1
    <3>. QED BY <1>1, <2>1, <3>1, HeadTailProperties
  <2>3. ASSUME NEW i \in 1 .. Len(seq) - (d + 1) PROVE s[i + 1] = seq[(d + 1) + i]
    <3>1. i + 1 \in 1 .. Len(seq) - d /\ d + (i + 1) = (d + 1) + i
      OBVIOUS
    <3>. QED BY <1>1, <3>1
  <2>4. /\ Rest(seq, d + 1) \in Seq(Values) /\ Len(Rest(seq, d + 1)) = Len(seq) - (d + 1)
        /\ \A i \in 1 .. Len(seq) - (d + 1) : Rest(seq, d + 1)[i] = seq[(d + 1) + i]
    BY <1>4 DEF Rest
  <2>. HIDE DEF s
  <2>5. Tail(s) = Rest(seq, d + 1)
    BY <2>2, <2>3, <2>4, SeqEqual
  <2>. QED BY <2>1, <2>5 DEF s
<1>. QED BY <1>1, <1>2, <1>3, <1>4

\* The content of the ring, and what is left of it while it is dropped.
LEMMA ContentIs ==
  ASSUME SpscInv, mode # "gone", NEW f \in Nat,
         mode = "dropping" => DropAt(f),
         mode # "dropping" => f = Pops
  PROVE  Content = Rest(pushed, f)
<1>0. /\ Pushes \in Nat /\ Pops \in Nat /\ N \in Nat
      /\ pushed \in Seq(Values) /\ Len(pushed) = Pushes
      /\ head = Cursor(Pops) /\ tail = Cursor(Pushes)
      /\ Pops <= Pushes /\ Pushes <= Pops + N
      /\ mode # "split" => ppc = "idle" /\ cpc = "idle"
  BY Counts, SpscAssumption DEF SpscInv, RingTypeOK, CursorInv, Pushes
<1>. DEFINE first == IF mode = "dropping" THEN dpos ELSE head
<1>1. first = Cursor(f) /\ f <= Pushes /\ Pushes <= f + N
  BY <1>0 DEF DropAt
<1>2. WrapSub(tail, first) = Pushes - f
  BY <1>0, <1>1, CursorDistance
<1>3. cpc = "publish" => f = Pops /\ cval = pushed[Pops + 1]
  BY <1>0 DEF SpscInv, EndpointInv, ConsumerAt
<1>4. ASSUME NEW i \in 1 .. Pushes - f, ~ (i = 1 /\ cpc = "publish")
      PROVE  slots[Index(first + i - 1)] = pushed[f + i]
  <2>1. i - 1 \in Nat /\ f + (i - 1) \in Nat
    BY <1>0
  <2>0. first + i - 1 = Cursor(f) + (i - 1)
    <3>1. Cursor(f) \in Nat
      BY CursorType
    <3>2. i \in Int
      BY <1>0
    <3>. QED BY <1>1, <3>1, <3>2
  <2>2. Index(first + i - 1) = Slot(f + (i - 1))
    BY <2>0, <2>1, SlotOfCursor
  <2>3. slots[Slot(f + (i - 1))] = pushed[f + i]
    <3>1. CASE mode = "dropping"
      <4>1. f + (i - 1) \in f .. Len(pushed) - 1 /\ (f + (i - 1)) + 1 = f + i
        BY <1>0, <1>1
      <4>. QED BY <3>1, <4>1 DEF DropAt, Holds
    <3>2. CASE mode # "dropping"
      <4>1. Holds(slots, Written, Consumed)
        BY <3>2 DEF SpscInv, RingTypeOK, Modes, RingInv
      <4>2. /\ f + (i - 1) \in Consumed .. Len(Written) - 1 /\ (f + (i - 1)) + 1 = f + i
            /\ Written[f + i] = pushed[f + i]
        BY <1>0, <1>1, <1>4, <3>2 DEF Consumed, Written, SpscInv, RingTypeOK
      <4>. QED BY <4>1, <4>2 DEF Holds
    <3>. QED BY <3>1, <3>2
  <2>. QED BY <2>2, <2>3
<1>5. Content = [i \in 1 .. Pushes - f |-> pushed[f + i]]
  <2>1. Content = [i \in 1 .. WrapSub(tail, first) |->
                     IF i = 1 /\ cpc = "publish" THEN cval ELSE slots[Index(first + i - 1)]]
    BY DEF Content
  <2>. HIDE DEF first
  <2>. QED BY <1>0, <1>2, <1>3, <1>4, <2>1
<1>6. Rest(pushed, f) = [i \in 1 .. Pushes - f |-> pushed[f + i]]
  BY <1>0 DEF Rest
<1>. QED BY <1>5, <1>6

\* The refinement mapping, as counts: the two values BoundedFifo's variables take.
Queue == IF mode = "gone" THEN <<>> ELSE Content
Live == mode \in {"owned", "split", "draining"}

LEMMA QueueWhileLive == SpscInv /\ Live => Queue = Rest(pushed, Pops)
<1>. SUFFICES ASSUME SpscInv, Live PROVE Queue = Rest(pushed, Pops)
  OBVIOUS
<1>1. Pops \in Nat /\ mode # "gone" /\ mode # "dropping"
  BY Counts DEF SpscInv, Live
<1>. QED BY <1>1, ContentIs DEF Queue

QueueFollowsDrop == \A d \in Nat : mode = "dropping" /\ DropAt(d) => Queue = Rest(pushed, d)

LEMMA QueueWhileDropping == SpscInv => QueueFollowsDrop
BY ContentIs DEF Queue, QueueFollowsDrop

\* A step that publishes nothing and hands out nothing does not change the queue.
LEMMA QuietQueue ==
  ASSUME SpscInv, SpscInv', Live, Live', pushed' = pushed, taken' = taken
  PROVE  Queue' = Queue
<1>1. (SpscInv /\ Live => Queue = Rest(pushed, Pops))'
  BY QueueWhileLive, PTL
<1>2. Pops' = Pops
  BY DEF Pops
<1>. QED BY <1>1, <1>2, QueueWhileLive

(* Handing out the oldest value, by pop_impl's store of head or by an        *)
(* iteration of into_inner, is the abstract Pop.                             *)
LEMMA TakeIsPop ==
  ASSUME SpscInv, SpscInv', Live, Live', pushed' = pushed, Pops < Pushes,
         taken' = Append(taken, pushed[Pops + 1])
  PROVE  /\ Queue # <<>> /\ Queue' = Tail(Queue)
         /\ taken' = Append(taken, Head(Queue))
<1>1. (SpscInv /\ Live => Queue = Rest(pushed, Pops))'
  BY QueueWhileLive, PTL
<1>2. Pops \in Nat /\ Pops' = Pops + 1 /\ pushed \in Seq(Values) /\ Len(pushed) = Pushes
  BY Counts DEF SpscInv, RingTypeOK, Pops, Pushes
<1>3. Queue = Rest(pushed, Pops) /\ Queue' = Rest(pushed, Pops + 1)
  BY <1>1, <1>2, QueueWhileLive
<1>4. /\ Rest(pushed, Pops) # <<>> /\ Head(Rest(pushed, Pops)) = pushed[Pops + 1]
      /\ Tail(Rest(pushed, Pops)) = Rest(pushed, Pops + 1)
  <2>1. Pops < Len(pushed) /\ Pops <= Len(pushed)
    BY <1>2
  <2>. QED BY <1>2, <2>1, RestLaws
<1>. QED BY <1>3, <1>4

LEMMA PublishIsPush ==
  ASSUME SpscInv, SpscInv', PushPublish
  PROVE  Live /\ Live' /\ pval \in Values /\ Len(Queue) < N /\ Queue' = Append(Queue, pval)
<1>1. /\ mode = "split" /\ mode' = "split" /\ pval \in Values /\ taken' = taken
      /\ pushed' = Append(pushed, pval)
  BY DEF PushPublish, SpscInv, CursorInv, RingTypeOK
<1>2. Live /\ Live'
  BY <1>1 DEF Live
<1>3. (SpscInv /\ Live => Queue = Rest(pushed, Pops))'
  BY QueueWhileLive, PTL
<1>4. /\ Pops \in Nat /\ Pops' = Pops /\ Pops <= Pushes
      /\ pushed \in Seq(Values) /\ Len(pushed) = Pushes /\ Pushes \in Nat /\ N \in Nat
  BY <1>1, Counts, SpscAssumption DEF SpscInv, RingTypeOK, CursorInv, Pops, Pushes
<1>5. Queue = Rest(pushed, Pops) /\ Queue' = Rest(Append(pushed, pval), Pops)
  BY <1>1, <1>2, <1>3, <1>4, QueueWhileLive
<1>6. /\ Len(Rest(pushed, Pops)) = Pushes - Pops
      /\ Rest(Append(pushed, pval), Pops) = Append(Rest(pushed, Pops), pval)
  BY <1>1, <1>4, RestLaws
<1>7. Pushes - Pops < N
  <2>1. PICK c \in Nat : ProducerAt(c)
    BY <1>1 DEF SpscInv, EndpointInv
  <2>2. Pushes < c + N /\ c <= Pops
    BY <2>1 DEF ProducerAt, PushPublish
  <2>. QED BY <1>4, <2>2
<1>. QED BY <1>1, <1>2, <1>5, <1>6, <1>7

(* One iteration of Drop discards the oldest value; the last one, which finds *)
(* nothing to drop, changes nothing.                                          *)
LEMMA DropIsDiscard ==
  ASSUME SpscInv, SpscInv', DropStep
  PROVE  /\ mode = "dropping" /\ mode' \in {"dropping", "gone"} /\ taken' = taken
         /\ Queue' = Queue \/ (Queue # <<>> /\ Queue' = Tail(Queue))
<1>1. /\ mode = "dropping" /\ mode' \in {"dropping", "gone"}
      /\ taken' = taken /\ pushed' = pushed
  BY DEF DropStep, histVars
<1>2. PICK d \in Nat : DropAt(d)
  BY <1>1 DEF SpscInv, RingInv
<1>3. pushed \in Seq(Values) /\ Len(pushed) = Pushes /\ Pushes \in Nat /\ d <= Pushes
  BY <1>2, Counts DEF SpscInv, RingTypeOK, Pushes, DropAt
<1>4. Queue = Rest(pushed, d)
  BY <1>1, <1>2, QueueWhileDropping DEF QueueFollowsDrop
<1>5. CASE d = Pushes
  <2>1. mode' = "gone"
    BY <1>2, <1>5, DropStepStep
  <2>2. Queue' = <<>>
    BY <2>1 DEF Queue
  <2>3. Queue = <<>>
    BY <1>3, <1>4, <1>5, RestLaws
  <2>. QED BY <1>1, <2>2, <2>3
<1>6. CASE d < Pushes
  <2>1. mode' = "dropping" /\ DropAt(d + 1)'
    BY <1>2, <1>6, DropStepStep
  <2>2. (SpscInv => QueueFollowsDrop)'
    BY QueueWhileDropping, PTL
  <2>3. d + 1 \in Nat
    OBVIOUS
  <2>4. Queue' = Rest(pushed', d + 1)
    BY <2>1, <2>2, <2>3 DEF QueueFollowsDrop
  <2>5. Rest(pushed, d) # <<>> /\ Tail(Rest(pushed, d)) = Rest(pushed, d + 1)
    BY <1>3, <1>6, RestLaws
  <2>. QED BY <1>1, <1>4, <2>4, <2>5
<1>. QED BY <1>3, <1>5, <1>6

LEMMA FifoStep == SpscInv /\ SpscInv' /\ [Next]_vars => [Fifo!Next]_(Fifo!vars)
<1>. SUFFICES ASSUME SpscInv, SpscInv', [Next]_vars
              PROVE  Fifo!Next \/ UNCHANGED Fifo!vars
  OBVIOUS
<1>. DEFINE dead == mode \in {"dropping", "gone"}
<1>1. ASSUME Queue' = Queue, taken' = taken, dead' = dead
      PROVE  UNCHANGED Fifo!vars
  BY <1>1 DEF Fifo!vars, Queue
<1>2. ASSUME Live, Live', pushed' = pushed, taken' = taken
      PROVE  UNCHANGED Fifo!vars
  <2>1. Queue' = Queue
    BY <1>2, QuietQueue
  <2>. QED BY <1>1, <1>2, <2>1 DEF Live
<1>3. ASSUME UNCHANGED vars PROVE UNCHANGED Fifo!vars
  BY <1>3 DEF Fifo!vars, Content, vars, prodVars, consVars, histVars
<1>4. ASSUME Produce PROVE Fifo!Next \/ UNCHANGED Fifo!vars
  <2>1. CASE PushPublish
    <3>1. /\ Live /\ Live' /\ pval \in Values /\ Len(Queue) < N
          /\ Queue' = Append(Queue, pval) /\ taken' = taken
      BY <2>1, PublishIsPush DEF PushPublish
    <3>2. ~dead /\ ~dead'
      BY <3>1 DEF Live
    <3>3. Fifo!Push(pval)
      BY <3>1, <3>2 DEF Fifo!Push, Queue
    <3>. QED BY <3>1, <3>3 DEF Fifo!Next
  <2>2. CASE ~PushPublish
    <3>1. Live /\ Live' /\ pushed' = pushed /\ taken' = taken
      BY <1>4, <2>2
         DEF Produce, PushStart, PushLoadHead, PushWrite, HasCapacity, histVars, Live,
             SpscInv, CursorInv
    <3>. QED BY <1>2, <3>1
  <2>. QED BY <2>1, <2>2
<1>5. ASSUME NEW x, Live, Live', pushed' = pushed, Pops < Pushes, x = pushed[Pops + 1],
             taken' = Append(taken, x)
      PROVE  Fifo!Next
  <2>1. /\ Queue # <<>> /\ Queue' = Tail(Queue)
        /\ taken' = Append(taken, Head(Queue))
    BY <1>5, TakeIsPop
  <2>2. ~dead /\ ~dead'
    BY <1>5 DEF Live
  <2>3. Fifo!Pop
    BY <2>1, <2>2 DEF Fifo!Pop, Queue
  <2>. QED BY <2>3 DEF Fifo!Next
<1>6. ASSUME Consume PROVE Fifo!Next \/ UNCHANGED Fifo!vars
  <2>1. CASE PopPublish
    <3>1. mode = "split" /\ mode' = "split" /\ pushed' = pushed /\ taken' = Append(taken, cval)
      BY <2>1 DEF PopPublish, SpscInv, CursorInv
    <3>2. PICK t \in Nat : ConsumerAt(t)
      BY <3>1 DEF SpscInv, EndpointInv
    <3>3. Pops < Pushes /\ cval = pushed[Pops + 1]
      <4>1. Pops \in Nat /\ Pushes \in Nat
        BY Counts DEF SpscInv
      <4>. QED BY <2>1, <3>2, <4>1 DEF ConsumerAt, PopPublish
    <3>. QED BY <1>5, <3>1, <3>3 DEF Live
  <2>2. CASE ~PopPublish
    <3>1. Live /\ Live' /\ pushed' = pushed /\ taken' = taken
      BY <1>6, <2>2
         DEF Consume, PopStart, PopLoadTail, PopRead, histVars, Live, SpscInv, CursorInv
    <3>. QED BY <1>2, <3>1
  <2>. QED BY <2>1, <2>2
<1>7. ASSUME Own PROVE Fifo!Next \/ UNCHANGED Fifo!vars
  <2>1. CASE Split \/ Join \/ IntoInner
    <3>1. Live /\ Live' /\ pushed' = pushed /\ taken' = taken
      BY <2>1 DEF Split, Join, IntoInner, histVars, Live
    <3>. QED BY <1>2, <3>1
  <2>2. CASE DrainStep
    <3>1. Live /\ Live' /\ pushed' = pushed
      BY <2>2 DEF DrainStep, Live
    <3>. QED BY <1>5, <2>2, <3>1, DrainStepStep
  <2>3. CASE DropQueue
    <3>1. /\ Live /\ mode' = "dropping" /\ pushed' = pushed /\ taken' = taken
      BY <2>3 DEF DropQueue, histVars, Live
    <3>2. DropAt(Pops)' /\ Pops' = Pops /\ Pops \in Nat
      BY <2>3, <3>1, DropQueueStep, Counts DEF Pops, SpscInv
    <3>3. (SpscInv => QueueFollowsDrop)'
      BY QueueWhileDropping, PTL
    <3>4. Queue' = Rest(pushed, Pops)
      BY <3>1, <3>2, <3>3 DEF QueueFollowsDrop
    <3>5. Queue' = Queue
      BY <3>1, <3>4, QueueWhileLive
    <3>6. ~dead /\ dead'
      BY <3>1 DEF Live
    <3>7. Fifo!Destroy
      BY <3>1, <3>5, <3>6 DEF Fifo!Destroy, Queue
    <3>. QED BY <3>7 DEF Fifo!Next
  <2>4. CASE DropStep
    <3>1. /\ dead /\ dead' /\ taken' = taken
          /\ Queue' = Queue \/ (Queue # <<>> /\ Queue' = Tail(Queue))
      BY <2>4, DropIsDiscard
    <3>2. CASE Queue' = Queue
      BY <1>1, <3>1, <3>2
    <3>3. CASE Queue # <<>> /\ Queue' = Tail(Queue)
      <4>1. Fifo!Discard
        BY <3>1, <3>3 DEF Fifo!Discard, Queue
      <4>. QED BY <4>1 DEF Fifo!Next
    <3>. QED BY <3>1, <3>2, <3>3
  <2>. QED BY <1>7, <2>1, <2>2, <2>3, <2>4 DEF Own
<1>. QED BY <1>3, <1>4, <1>6, <1>7 DEF Next

(* The ring of atomic accesses implements the bounded FIFO of BoundedFifo:   *)
(* values leave exactly once, in the order of their tail stores, and at most *)
(* N are held, for every capacity, word size and interleaving.               *)
THEOREM RingImplementsFifo == Spec => ImplementsBoundedFifo
<1>1. Init => Fifo!Init
  <2>. SUFFICES ASSUME Init PROVE Fifo!Init
    OBVIOUS
  <2>1. SpscInv /\ Live /\ Pops = 0 /\ pushed = <<>> /\ taken = <<>>
        /\ mode = "owned"
    BY SpscInitial DEF Init, Live, Pops
  <2>2. Queue = Rest(<<>>, 0)
    BY <2>1, QueueWhileLive
  <2>3. Rest(<<>>, 0) = <<>>
    BY DEF Rest
  <2>. QED BY <2>1, <2>2, <2>3 DEF Fifo!Init, Queue
<1>. QED BY <1>1, SpscInductive, FifoStep, PTL DEF Spec, ImplementsBoundedFifo, Fifo!Spec

=============================================================================
