------------------------------- MODULE Spsc -------------------------------
(***************************************************************************)
(* The lock-free ring of crates/hft-spsc at the granularity of its atomic  *)
(* accesses.  Cursors are machine words that wrap; each endpoint keeps a   *)
(* private cursor and a cached copy of its peer's cursor and reloads that  *)
(* copy only when the ring looks full (producer) or empty (consumer).      *)
(*                                                                         *)
(* Memory model.  An Acquire load may return any value of the peer's       *)
(* cursor that is not older than the one last read (coherence), so a load  *)
(* chooses how far it advances.  Happens-before is kept explicitly: the    *)
(* k-th store to a cursor carries the number of slot accesses sequenced    *)
(* before it, and a load that reads it learns that number.  A slot access  *)
(* is free of a data race when the peer's previous access to that slot is  *)
(* among the ones the endpoint has learned of.                             *)
(***************************************************************************)
EXTENDS Integers, Sequences, FiniteSets

CONSTANTS
  Values,    \* the payloads; an uninitialised slot holds Uninit
  Uninit,
  N,         \* the capacity of the ring
  Word,      \* the number of values of a cursor (2^64 in a 64-bit build)
  MaxPush    \* bound: pushes of one behaviour (and its length)

\* try_new accepts only powers of two, so N divides every larger power of two.
ASSUME SpscAssumption ==
  /\ N \in Nat \ {0}
  /\ Word \in Nat
  /\ N < Word
  /\ Word % N = 0
  /\ MaxPush \in Nat
  /\ Uninit \notin Values

VARIABLES
  head, tail,          \* the shared cursors
  slots,               \* the ring
  mode,                \* who may touch the queue: see Modes
  ppc, ptail, chead, pval,      \* Producer: control, tail, cached_head, value
  cpc, chd, ctail, cval,        \* Consumer: control, head, cached_tail, value
  dpos,                \* the cursor of Drop's loop
  promise,             \* has_capacity returned true and nothing was pushed since
  pushed, taken,       \* history: values published, values handed out
  writes, reads,       \* history: slot accesses made by each side
  tailView, headView,  \* history: the slot accesses each store of a cursor publishes
  prodSees, consSees   \* peer slot accesses that happen before the endpoint's next step

prodVars == <<ppc, ptail, chead, pval, prodSees, promise>>
consVars == <<cpc, chd, ctail, cval, consSees>>
histVars == <<pushed, taken, writes, reads, tailView, headView>>
vars == <<head, tail, slots, mode, prodVars, consVars, dpos, histVars>>

Modes == {"owned", "split", "draining", "dropping", "gone"}
Positions == 0 .. Word - 1
WrapAdd(p, k) == (p + k) % Word
WrapSub(a, b) == (a - b) % Word
Index(p) == p % N

-----------------------------------------------------------------------------
\* SpscQueue::try_new
Init ==
  /\ head = 0 /\ tail = 0
  /\ slots = [i \in 0 .. N - 1 |-> Uninit]
  /\ mode = "owned"
  /\ ppc = "idle" /\ ptail = 0 /\ chead = 0 /\ pval = Uninit
  /\ cpc = "idle" /\ chd = 0 /\ ctail = 0 /\ cval = Uninit
  /\ dpos = 0 /\ promise = FALSE
  /\ pushed = <<>> /\ taken = <<>>
  /\ writes = 0 /\ reads = 0
  /\ tailView = <<>> /\ headView = <<>>
  /\ prodSees = 0 /\ consSees = 0

\* Faulty variant: the consumer of a second split starts at position zero.
SplitFromZero ==
  /\ mode = "owned"
  /\ mode' = "split"
  /\ ptail' = tail /\ chead' = head
  /\ chd' = 0 /\ ctail' = tail
  /\ prodSees' = reads /\ consSees' = writes
  /\ promise' = FALSE
  /\ UNCHANGED <<head, tail, slots, ppc, pval, cpc, cval, dpos, histVars>>

\* split: both endpoints start from the published positions.
Split ==
  /\ mode = "owned"
  /\ mode' = "split"
  /\ ptail' = tail /\ chead' = head
  /\ chd' = head /\ ctail' = tail
  /\ prodSees' = reads /\ consSees' = writes
  /\ promise' = FALSE
  /\ UNCHANGED <<head, tail, slots, ppc, pval, cpc, cval, dpos, histVars>>

\* The borrows of the endpoints end; their threads have been joined.
Join ==
  /\ mode = "split" /\ ppc = "idle" /\ cpc = "idle"
  /\ mode' = "owned"
  /\ UNCHANGED <<head, tail, slots, prodVars, consVars, dpos, histVars>>

-----------------------------------------------------------------------------
\* The stores of head a load by the producer may read, as a distance from the
\* cached value, and the happens-before knowledge the load brings.
HeadLoads == 0 .. WrapSub(head, chead)
LearnHead(k) ==
  LET stores == Len(headView) - WrapSub(head, chead) + k
  IN  IF stores = 0 \/ headView[stores] < prodSees THEN prodSees ELSE headView[stores]
TailLoads == 0 .. WrapSub(tail, ctail)
\* Faulty variant: the consumer loads tail with Relaxed ordering.
LearnTailRelaxed(k) == consSees

LearnTail(k) ==
  LET stores == Len(tailView) - WrapSub(tail, ctail) + k
  IN  IF stores = 0 \/ tailView[stores] < consSees THEN consSees ELSE tailView[stores]

\* push_impl, up to the first capacity test
PushStart(v) ==
  /\ mode = "split" /\ ppc = "idle"
  /\ Len(pushed) < MaxPush
  /\ pval' = v
  /\ ppc' = IF WrapSub(ptail, chead) = N THEN "load" ELSE "write"
  /\ UNCHANGED <<head, tail, slots, mode, ptail, chead, prodSees, promise, consVars,
                 dpos, histVars>>

\* push_impl: reload head; return Err(value) when the ring is still full
PushLoadHead(k) ==
  /\ ppc = "load" /\ k \in HeadLoads
  /\ chead' = WrapAdd(chead, k)
  /\ prodSees' = LearnHead(k)
  /\ ppc' = IF WrapSub(ptail, chead') = N THEN "idle" ELSE "write"
  /\ UNCHANGED <<head, tail, slots, mode, ptail, pval, promise, consVars, dpos,
                 histVars>>

PushWrite ==
  /\ ppc = "write"
  /\ slots' = [slots EXCEPT ![Index(ptail)] = pval]
  /\ ppc' = "publish"
  /\ writes' = writes + 1
  /\ UNCHANGED <<head, tail, mode, ptail, chead, pval, prodSees, promise, consVars,
                 dpos, pushed, taken, reads, tailView, headView>>

\* push_impl: the Release store of tail
PushPublish ==
  /\ ppc = "publish"
  /\ ptail' = WrapAdd(ptail, 1)
  /\ tail' = ptail'
  /\ tailView' = Append(tailView, writes)
  /\ pushed' = Append(pushed, pval)
  /\ pval' = Uninit
  /\ promise' = FALSE
  /\ ppc' = "idle"
  /\ UNCHANGED <<head, slots, mode, chead, prodSees, consVars, dpos, taken,
                 writes, reads, headView>>

\* Producer::has_capacity
HasCapacity ==
  /\ mode = "split" /\ ppc = "idle"
  /\ \E k \in IF WrapSub(ptail, chead) = N THEN HeadLoads ELSE {0} :
       /\ chead' = WrapAdd(chead, k)
       /\ prodSees' = LearnHead(k)
       /\ promise' = (WrapSub(ptail, chead') # N)
  /\ UNCHANGED <<head, tail, slots, mode, ppc, ptail, pval, consVars, dpos, histVars>>

-----------------------------------------------------------------------------
\* pop_impl, up to the first emptiness test
PopStart ==
  /\ mode = "split" /\ cpc = "idle"
  /\ cpc' = IF chd = ctail THEN "load" ELSE "read"
  /\ UNCHANGED <<head, tail, slots, mode, prodVars, chd, ctail, cval, consSees, dpos,
                 histVars>>

\* Faulty variant: the reloaded tail is tested but not kept.
PopLoadTailForgets(k) ==
  /\ cpc = "load" /\ k \in TailLoads
  /\ cpc' = "idle"
  /\ UNCHANGED <<head, tail, slots, mode, prodVars, chd, ctail, cval, consSees, dpos,
                 histVars>>

\* pop_impl: reload tail; return None when the ring is still empty
PopLoadTail(k) ==
  /\ cpc = "load" /\ k \in TailLoads
  /\ ctail' = WrapAdd(ctail, k)
  /\ consSees' = LearnTail(k)
  /\ cpc' = IF chd = ctail' THEN "idle" ELSE "read"
  /\ UNCHANGED <<head, tail, slots, mode, prodVars, chd, cval, dpos, histVars>>

\* Reading an uninitialised slot would return an arbitrary value.
SlotRead(i) == IF slots[i] = Uninit THEN Values ELSE {slots[i]}

PopRead ==
  /\ cpc = "read"
  /\ cval' \in SlotRead(Index(chd))
  /\ slots' = [slots EXCEPT ![Index(chd)] = Uninit]
  /\ cpc' = "publish"
  /\ reads' = reads + 1
  /\ UNCHANGED <<head, tail, mode, prodVars, chd, ctail, consSees, dpos, pushed, taken,
                 writes, tailView, headView>>

\* pop_impl: the Release store of head
PopPublish ==
  /\ cpc = "publish"
  /\ chd' = WrapAdd(chd, 1)
  /\ head' = chd'
  /\ headView' = Append(headView, reads)
  /\ taken' = Append(taken, cval)
  /\ cval' = Uninit
  /\ cpc' = "idle"
  /\ UNCHANGED <<tail, slots, mode, prodVars, ctail, consSees, dpos, pushed, writes,
                 reads, tailView>>

-----------------------------------------------------------------------------
\* SpscQueue::into_inner; DrainStep is one iteration of its loop.
IntoInner ==
  /\ mode = "owned"
  /\ mode' = "draining"
  /\ UNCHANGED <<head, tail, slots, prodVars, consVars, dpos, histVars>>

DrainStep ==
  /\ mode = "draining" /\ head # tail
  /\ head' = WrapAdd(head, 1)
  /\ \E v \in SlotRead(Index(head)) : taken' = Append(taken, v)
  /\ slots' = [slots EXCEPT ![Index(head)] = Uninit]
  /\ headView' = Append(headView, reads)
  /\ reads' = reads + 1
  /\ UNCHANGED <<tail, mode, prodVars, consVars, dpos, pushed, writes, tailView>>

\* Faulty variant: the queue has no Drop.
DropQueueLeaks ==
  /\ mode \in {"owned", "draining"}
  /\ mode' = "gone"
  /\ UNCHANGED <<head, tail, slots, dpos, prodVars, consVars, histVars>>

\* Drop: the owner lets go of the queue, or into_inner returns or unwinds.
DropQueue ==
  /\ mode \in {"owned", "draining"}
  /\ mode' = "dropping"
  /\ dpos' = head
  /\ UNCHANGED <<head, tail, slots, prodVars, consVars, histVars>>

DropStep ==
  /\ mode = "dropping"
  /\ IF dpos = tail
     THEN mode' = "gone" /\ UNCHANGED <<slots, dpos>>
     ELSE /\ slots' = [slots EXCEPT ![Index(dpos)] = Uninit]
          /\ dpos' = WrapAdd(dpos, 1)
          /\ UNCHANGED mode
  /\ UNCHANGED <<head, tail, prodVars, consVars, histVars>>

-----------------------------------------------------------------------------
Produce ==
  \/ \E v \in Values : PushStart(v)
  \/ \E k \in 0 .. N : PushLoadHead(k)
  \/ PushWrite
  \/ PushPublish
  \/ HasCapacity

Consume ==
  \/ PopStart
  \/ \E k \in 0 .. N : PopLoadTail(k)
  \/ PopRead
  \/ PopPublish

Own == Split \/ Join \/ IntoInner \/ DrainStep \/ DropQueue \/ DropStep

Next == Produce \/ Consume \/ Own

Spec == Init /\ [][Next]_vars

\* The consumer's thread keeps polling and, once the borrow ends, the queue is
\* dropped; a store becomes visible to a reader that keeps loading.
FairSpec ==
  /\ Spec
  /\ WF_vars(PushWrite) /\ WF_vars(PushPublish)
  /\ WF_vars(PopStart) /\ SF_vars(PopLoadTail(WrapSub(tail, ctail)))
  /\ WF_vars(PopRead) /\ WF_vars(PopPublish)

-----------------------------------------------------------------------------
(* Every slot access is ordered after the peer's previous access to that    *)
(* slot by a Release store and the Acquire load that read it: the write of  *)
(* push k before its read, the read of push k - N before the write of k     *)
(* (SAFETY comments of push_impl and pop_impl).                             *)
NoDataRace ==
  /\ cpc = "read" => Len(taken) + 1 <= consSees
  /\ ppc = "write" => Len(pushed) + 1 <= prodSees + N

(* Slot::write finds its slot reclaimed, Slot::read and Slot::drop_value    *)
(* find theirs initialised: no value is overwritten, read twice or dropped  *)
(* twice, whatever the wrapping of the cursors; and Drop leaves none behind *)
(* that is still initialised, also after into_inner stopped half way.  And  *)
(* a slot has_capacity promised stays free ("A true result remains valid    *)
(* until this producer publishes a value"): the next push never takes the   *)
(* path that can return Full, on which Engine::apply_journaled relies.      *)
SlotDiscipline ==
  /\ promise => ppc # "load"
  /\ ppc = "write" => slots[Index(ptail)] = Uninit
  /\ cpc = "read" => slots[Index(chd)] # Uninit
  /\ mode = "draining" /\ head # tail => slots[Index(head)] # Uninit
  /\ mode = "dropping" /\ dpos # tail => slots[Index(dpos)] # Uninit
  /\ mode = "gone" => \A i \in DOMAIN slots : slots[i] = Uninit

\* What the ring holds: the published values whose head store is outstanding.
Content ==
  LET first == IF mode = "dropping" THEN dpos ELSE head
  IN  [i \in 1 .. WrapSub(tail, first) |->
         IF i = 1 /\ cpc = "publish" THEN cval ELSE slots[Index(first + i - 1)]]

Fifo == INSTANCE BoundedFifo WITH
          queue <- IF mode = "gone" THEN <<>> ELSE Content,
          destroyed <- mode \in {"dropping", "gone"}

(* The ring implements the bounded FIFO: values leave exactly once, in the  *)
(* order of their tail stores, and at most N are held.                      *)
ImplementsBoundedFifo == Fifo!Spec

(* A published value is handed to the consumer unless the owner takes the   *)
(* queue back first.                                                        *)
PublishedIsDelivered ==
  \A k \in 1 .. MaxPush :
    (Len(pushed) >= k /\ mode = "split") ~> (Len(taken) >= k \/ mode # "split")
=============================================================================
