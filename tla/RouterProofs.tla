--------------------------- MODULE RouterProofs ---------------------------
(***************************************************************************)
(* Proofs about Router, for every number of shards, every array of routes, *)
(* every capacity and every interleaving of the routing thread with the    *)
(* shards' threads: nothing that was accepted is lost, repeated or         *)
(* reordered, and the route table answers as the array it was built from.  *)
(*                                                                         *)
(* The first rests on an invariant of each shard alone (Flow, Batches),    *)
(* the second on what sorting promises: an accepted array has an ascending *)
(* arrangement, which holds every route, and a dense one is consecutive.   *)
(***************************************************************************)
EXTENDS Router, SequenceTheorems, FiniteSetTheorems, WellFoundedInduction,
        NaturalsInduction, TLAPS

Answers == [command : Commands, how : {"refused", "processed", "fault"}]

\* The type invariant of the router.
RouterTypeOK ==
  /\ commands \in [ShardIds -> Seq(Commands)]
  /\ pending \in [ShardIds -> Commands \cup {NoCommand}]
  /\ expected \in [ShardIds -> 1 .. MaxSeq]
  /\ events \in [ShardIds -> Seq(Nat)]
  /\ delivered \in [ShardIds -> Seq(Nat)]
  /\ accepted \in [ShardIds -> Seq(Commands)]
  /\ settled \in [ShardIds -> Seq(Answers)]

\* One shard's commands: what was accepted is answered, retained or queued.
Answered(answers) == [k \in 1 .. Len(answers) |-> answers[k].command]
Retained(p) == IF p = NoCommand THEN <<>> ELSE <<p>>
Flow(acc, answers, p, queue) == acc = Answered(answers) \o Retained(p) \o queue

\* One shard's batches: those out, against the processed commands among the
\* answers, with `next' the number its gateway expects.
By(answers) == {k \in 1 .. Len(answers) : answers[k].how = "processed"}
Batches(out, answers, next) ==
  /\ \A k \in By(answers) : answers[k].command.sequence < next
  /\ \A j, k \in By(answers) : j < k => answers[j].command.sequence < answers[k].command.sequence
  /\ \A j, k \in 1 .. Len(out) : j < k => out[j] < out[k]
  /\ \A n \in Nat : (\E k \in 1 .. Len(out) : out[k] = n)
                      <=> (\E k \in By(answers) : answers[k].command.sequence = n)

FlowInv == \A s \in ShardIds : Flow(accepted[s], settled[s], pending[s], commands[s])
BatchInv == \A s \in ShardIds : Batches(delivered[s] \o events[s], settled[s], expected[s])

\* The inductive invariant.
RouterInv == RouterTypeOK /\ FlowInv /\ BatchInv

-----------------------------------------------------------------------------
(* Sequences.                                                              *)

LEMMA AnsweredType ==
  ASSUME NEW answers \in Seq(Answers)
  PROVE  /\ Answered(answers) \in Seq(Commands)
         /\ Len(Answered(answers)) = Len(answers)
         /\ \A k \in 1 .. Len(answers) : Answered(answers)[k] = answers[k].command
<1>1. \A a \in Answers : a.command \in Commands
  BY DEF Answers
<1>2. \A k \in 1 .. Len(answers) : answers[k].command \in Commands
  BY <1>1
<1>. QED BY <1>2 DEF Answered

LEMMA AnsweredAppend ==
  ASSUME NEW answers \in Seq(Answers), NEW c \in Commands,
         NEW how \in {"refused", "processed", "fault"}
  PROVE  /\ Append(answers, [command |-> c, how |-> how]) \in Seq(Answers)
         /\ Answered(Append(answers, [command |-> c, how |-> how])) = Append(Answered(answers), c)
<1>. DEFINE a == [command |-> c, how |-> how]
            longer == Append(answers, a)
<1>1. a \in Answers /\ a.command = c
  BY DEF Answers
<1>. HIDE DEF a
<1>2. /\ longer \in Seq(Answers) /\ Len(longer) = Len(answers) + 1
      /\ longer[Len(answers) + 1] = a
      /\ \A k \in 1 .. Len(answers) : longer[k] = answers[k]
  BY <1>1
<1>. HIDE DEF longer
<1>3. /\ Answered(answers) \in Seq(Commands) /\ Len(Answered(answers)) = Len(answers)
      /\ \A k \in 1 .. Len(answers) : Answered(answers)[k] = answers[k].command
  BY AnsweredType
<1>4. /\ Answered(longer) \in Seq(Commands) /\ Len(Answered(longer)) = Len(answers) + 1
      /\ \A k \in 1 .. Len(answers) + 1 : Answered(longer)[k] = longer[k].command
  BY <1>2, AnsweredType
<1>. DEFINE s == Answered(answers)
            t == Answered(longer)
<1>5. /\ Append(s, c) \in Seq(Commands) /\ Len(Append(s, c)) = Len(answers) + 1
      /\ Append(s, c)[Len(answers) + 1] = c
      /\ \A k \in 1 .. Len(answers) : Append(s, c)[k] = s[k]
  BY <1>3, AppendProperties
<1>6. \A k \in 1 .. Len(answers) + 1 : t[k] = Append(s, c)[k]
  BY <1>1, <1>2, <1>3, <1>4, <1>5
<1>. HIDE DEF s, t
<1>7. t = Append(s, c)
  BY <1>4, <1>5, <1>6, SeqEqual DEF t
<1>. QED BY <1>2, <1>7 DEF s, t, longer, a

\* What leaves the front of a queue joins what stands before it.
LEMMA ShiftHead ==
  ASSUME NEW S, NEW before \in Seq(S), NEW queue \in Seq(S), queue # <<>>
  PROVE  /\ before \o queue = (before \o <<Head(queue)>>) \o Tail(queue)
         /\ before \o queue = Append(before, Head(queue)) \o Tail(queue)
<1>1. Head(queue) \in S /\ Tail(queue) \in Seq(S)
  BY HeadTailProperties
<1>2. <<Head(queue)>> \in Seq(S)
  BY <1>1
<1>3. queue = <<Head(queue)>> \o Tail(queue)
  <2>1. Len(<<Head(queue)>> \o Tail(queue)) = Len(queue)
    BY <1>1
  <2>2. \A i \in 1 .. Len(queue) : (<<Head(queue)>> \o Tail(queue))[i] = queue[i]
    BY <1>1
  <2>3. <<Head(queue)>> \o Tail(queue) \in Seq(S)
    BY <1>1, <1>2, ConcatProperties
  <2>. QED BY <2>1, <2>2, <2>3, SeqEqual
<1>4. before \o queue = (before \o <<Head(queue)>>) \o Tail(queue)
  BY <1>1, <1>2, <1>3, ConcatAssociative
<1>5. Append(before, Head(queue)) = before \o <<Head(queue)>>
  BY <1>1, AppendIsConcat
<1>. QED BY <1>4, <1>5

LEMMA AppendLast ==
  ASSUME NEW S, NEW before \in Seq(S), NEW queue \in Seq(S), NEW x \in S
  PROVE  before \o Append(queue, x) = Append(before \o queue, x)
<1>1. <<x>> \in Seq(S) /\ before \o queue \in Seq(S)
  BY ConcatProperties
<1>2. Append(queue, x) = queue \o <<x>> /\ Append(before \o queue, x) = (before \o queue) \o <<x>>
  BY <1>1, AppendIsConcat
<1>. QED BY <1>1, <1>2, ConcatAssociative

-----------------------------------------------------------------------------
(* One shard.                                                              *)

LEMMA RetainedType ==
  ASSUME NEW p \in Commands \cup {NoCommand}
  PROVE  Retained(p) \in Seq(Commands)
BY DEF Retained

\* route_command: the command joins the queue.
LEMMA FlowRoute ==
  ASSUME NEW acc \in Seq(Commands), NEW answers \in Seq(Answers),
         NEW p \in Commands \cup {NoCommand}, NEW queue \in Seq(Commands),
         NEW c \in Commands, Flow(acc, answers, p, queue)
  PROVE  Flow(Append(acc, c), answers, p, Append(queue, c))
<1>. DEFINE before == Answered(answers) \o Retained(p)
<1>1. before \in Seq(Commands)
  BY AnsweredType, RetainedType, ConcatProperties
<1>2. acc = before \o queue
  BY DEF Flow
<1>. HIDE DEF before
<1>3. Append(acc, c) = before \o Append(queue, c)
  BY <1>1, <1>2, AppendLast
<1>. QED BY <1>3 DEF Flow, before

\* The command the shard takes next, and the queue it leaves.
Front(p, queue) == IF p # NoCommand THEN p ELSE Head(queue)
Behind(p, queue) == IF p # NoCommand THEN queue ELSE Tail(queue)

\* try_process_one takes a command: it is retained, or answered.
LEMMA FlowTake ==
  ASSUME NEW acc \in Seq(Commands), NEW answers \in Seq(Answers),
         NEW p \in Commands \cup {NoCommand}, NEW queue \in Seq(Commands),
         p # NoCommand \/ queue # <<>>, Flow(acc, answers, p, queue)
  PROVE  /\ Front(p, queue) \in Commands
         /\ Behind(p, queue) \in Seq(Commands)
         /\ Flow(acc, answers, Front(p, queue), Behind(p, queue))
         /\ \A how \in {"refused", "processed", "fault"} :
              Flow(acc, Append(answers, [command |-> Front(p, queue), how |-> how]),
                   NoCommand, Behind(p, queue))
<1>. DEFINE c == Front(p, queue)
            q == Behind(p, queue)
            done == Answered(answers)
<1>1. done \in Seq(Commands)
  BY AnsweredType
<1>2. c \in Commands /\ q \in Seq(Commands) /\ c # NoCommand
  BY NoCommandAssumption, HeadTailProperties DEF Front, Behind
<1>3. acc = (done \o <<c>>) \o q
  <2>1. CASE p # NoCommand
    BY <2>1 DEF Flow, Retained, Front, Behind
  <2>2. CASE p = NoCommand
    <3>1. acc = (done \o <<>>) \o queue /\ queue # <<>> /\ c = Head(queue) /\ q = Tail(queue)
      BY <2>2 DEF Flow, Retained, Front, Behind
    <3>2. done \o <<>> = done
      BY <1>1, ConcatEmptySeq
    <3>3. done \o queue = (done \o <<Head(queue)>>) \o Tail(queue)
      BY <1>1, <3>1, ShiftHead
    <3>. QED BY <3>1, <3>2, <3>3
  <2>. QED BY <2>1, <2>2
<1>4. Flow(acc, answers, c, q)
  BY <1>2, <1>3 DEF Flow, Retained
<1>5. ASSUME NEW how \in {"refused", "processed", "fault"}
      PROVE  Flow(acc, Append(answers, [command |-> c, how |-> how]), NoCommand, q)
  <2>1. Answered(Append(answers, [command |-> c, how |-> how])) = Append(done, c)
    BY <1>2, AnsweredAppend
  <2>2. Append(done, c) = done \o <<c>>
    BY <1>1, <1>2, AppendIsConcat
  <2>3. Append(done, c) \in Seq(Commands)
    BY <1>1, <1>2
  <2>4. Append(done, c) \o <<>> = Append(done, c)
    BY <2>3, ConcatEmptySeq
  <2>. HIDE DEF c, q, done
  <2>5. acc = (Append(done, c) \o <<>>) \o q
    BY <1>3, <2>2, <2>4
  <2>. QED BY <2>1, <2>5 DEF Flow, Retained
<1>. QED BY <1>2, <1>4, <1>5

LEMMA NumberType ==
  ASSUME NEW answers \in Seq(Answers)
  PROVE  \A k \in By(answers) : answers[k].command.sequence \in Nat
<1>1. \A c \in Commands : c.sequence \in Nat
  BY RouterAssumption DEF Commands
<1>2. \A a \in Answers : a.command \in Commands
  BY DEF Answers
<1>3. \A k \in By(answers) : answers[k] \in Answers
  BY DEF By
<1>. QED BY <1>1, <1>2, <1>3

LEMMA ByAppend ==
  ASSUME NEW answers \in Seq(Answers), NEW a \in Answers
  PROVE  LET longer == Append(answers, a)
         IN  /\ longer \in Seq(Answers)
             /\ \A k \in By(answers) : longer[k] = answers[k] /\ k < Len(answers) + 1
             /\ longer[Len(answers) + 1] = a
             /\ By(longer) = IF a.how = "processed" THEN By(answers) \cup {Len(answers) + 1}
                             ELSE By(answers)
BY DEF By

\* An answer that is not "processed" leaves the batches as they are.
LEMMA BatchesSilent ==
  ASSUME NEW out \in Seq(Nat), NEW answers \in Seq(Answers), NEW next \in Nat,
         NEW later \in Nat, next <= later, NEW a \in Answers, a.how # "processed",
         Batches(out, answers, next)
  PROVE  Batches(out, Append(answers, a), later)
<1>. DEFINE longer == Append(answers, a)
<1>1. /\ By(longer) = By(answers)
      /\ \A k \in By(answers) : longer[k] = answers[k]
  BY ByAppend
<1>2. \A k \in By(answers) : answers[k].command.sequence \in Nat
  BY NumberType
<1>. HIDE DEF longer
<1>3. \A k \in By(longer) : longer[k].command.sequence < later
  BY <1>1, <1>2 DEF Batches
<1>4. Batches(out, longer, later)
  BY <1>1, <1>3 DEF Batches
<1>. QED BY <1>4 DEF longer

\* A processed command publishes the batch of its number, the largest so far.
LEMMA BatchesProcess ==
  ASSUME NEW out \in Seq(Nat), NEW answers \in Seq(Answers), NEW next \in Nat,
         NEW a \in Answers, a.how = "processed", a.command.sequence = next,
         Batches(out, answers, next)
  PROVE  Batches(Append(out, next), Append(answers, a), next + 1)
<1>. DEFINE longer == Append(answers, a)
            more == Append(out, next)
            last == Len(answers) + 1
<1>1. /\ By(longer) = By(answers) \cup {last} /\ longer[last] = a
      /\ \A k \in By(answers) : longer[k] = answers[k] /\ k \in Nat /\ k < last
  BY ByAppend DEF By
<1>2. \A k \in By(answers) : answers[k].command.sequence \in Nat
  BY NumberType
<1>3. /\ Len(more) = Len(out) + 1 /\ more[Len(out) + 1] = next
      /\ \A k \in 1 .. Len(out) : more[k] = out[k] /\ out[k] \in Nat
  OBVIOUS
<1>4. last \in Nat /\ last \notin By(answers)
  BY DEF By
<1>. HIDE DEF longer, more, last
<1>5. \A k \in By(longer) : longer[k].command.sequence < next + 1
  BY <1>1, <1>2 DEF Batches
<1>6. ASSUME NEW j \in By(longer), NEW k \in By(longer), j < k
      PROVE  longer[j].command.sequence < longer[k].command.sequence
  BY <1>1, <1>2, <1>4, <1>6 DEF Batches
<1>7. \A k \in 1 .. Len(out) : out[k] < next
  <2>. SUFFICES ASSUME NEW k \in 1 .. Len(out) PROVE out[k] < next
    OBVIOUS
  <2>1. out[k] \in Nat
    BY <1>3
  <2>2. PICK j \in By(answers) : answers[j].command.sequence = out[k]
    BY <2>1 DEF Batches
  <2>. QED BY <2>2 DEF Batches
<1>8. ASSUME NEW j \in 1 .. Len(more), NEW k \in 1 .. Len(more), j < k
      PROVE  more[j] < more[k]
  <2>1. j \in 1 .. Len(out) /\ more[j] = out[j] /\ out[j] \in Nat
    BY <1>3, <1>8
  <2>2. CASE k = Len(out) + 1
    BY <1>3, <1>7, <2>1, <2>2
  <2>3. CASE k # Len(out) + 1
    <3>1. k \in 1 .. Len(out)
      BY <1>3, <2>3
    <3>2. out[j] < out[k]
      BY <1>8, <2>1, <3>1 DEF Batches
    <3>. QED BY <1>3, <2>1, <3>1, <3>2
  <2>. QED BY <2>2, <2>3
<1>9. ASSUME NEW n \in Nat
      PROVE  (\E k \in 1 .. Len(more) : more[k] = n)
               <=> (\E k \in By(longer) : longer[k].command.sequence = n)
  <2>1. (\E k \in 1 .. Len(more) : more[k] = n) <=> (n = next \/ \E k \in 1 .. Len(out) : out[k] = n)
    <3>1. 1 .. Len(more) = (1 .. Len(out)) \cup {Len(out) + 1}
      BY <1>3
    <3>. QED BY <1>3, <3>1
  <2>2. (\E k \in By(longer) : longer[k].command.sequence = n)
          <=> (n = next \/ \E k \in By(answers) : answers[k].command.sequence = n)
    BY <1>1
  <2>. QED BY <2>1, <2>2 DEF Batches
<1>10. Batches(more, longer, next + 1)
  BY <1>5, <1>6, <1>8, <1>9 DEF Batches
<1>. QED BY <1>10 DEF longer, more

-----------------------------------------------------------------------------
(* The steps of the router and of the shards.                              *)

LEMMA RouterInitial == Init => RouterInv
<1>. SUFFICES ASSUME Init PROVE RouterInv
  OBVIOUS
<1>1. RouterTypeOK
  BY RouterAssumption DEF Init, RouterTypeOK
<1>2. <<>> \in Seq(Commands) /\ <<>> \o <<>> \o <<>> = <<>> /\ Answered(<<>>) = <<>>
  BY ConcatEmptySeq DEF Answered
<1>3. FlowInv
  BY <1>2 DEF Init, FlowInv, Flow, Retained
<1>4. Len(<<>> \o <<>>) = 0 /\ By(<<>>) = {}
  BY DEF By
<1>5. BatchInv
  BY <1>4 DEF Init, BatchInv, Batches
<1>. QED BY <1>1, <1>3, <1>5 DEF RouterInv

LEMMA RouteCommandStep ==
  ASSUME RouterInv, NEW c \in Commands, RouteCommand(c)
  PROVE  RouterInv'
<1>. DEFINE s == ShardFor(c.instrument)
<1>1. /\ s \in ShardIds
      /\ commands' = [commands EXCEPT ![s] = Append(@, c)]
      /\ accepted' = [accepted EXCEPT ![s] = Append(@, c)]
      /\ events' = events /\ delivered' = delivered
      /\ pending' = pending /\ expected' = expected /\ settled' = settled
  BY DEF RouteCommand, shardVars
<1>. HIDE DEF s
<1>2. RouterTypeOK'
  BY <1>1 DEF RouterInv, RouterTypeOK
<1>3. FlowInv'
  <2>. SUFFICES ASSUME NEW r \in ShardIds
                PROVE  Flow(accepted'[r], settled'[r], pending'[r], commands'[r])
    BY DEF FlowInv
  <2>1. Flow(accepted[r], settled[r], pending[r], commands[r])
    BY DEF RouterInv, FlowInv
  <2>2. CASE r = s
    <3>1. /\ accepted[r] \in Seq(Commands) /\ settled[r] \in Seq(Answers)
          /\ pending[r] \in Commands \cup {NoCommand} /\ commands[r] \in Seq(Commands)
      BY DEF RouterInv, RouterTypeOK
    <3>2. accepted'[r] = Append(accepted[r], c) /\ commands'[r] = Append(commands[r], c)
      BY <1>1, <2>2 DEF RouterInv, RouterTypeOK
    <3>. QED BY <1>1, <2>1, <3>1, <3>2, FlowRoute
  <2>3. CASE r # s
    <3>1. accepted'[r] = accepted[r] /\ commands'[r] = commands[r]
      BY <1>1, <2>3 DEF RouterInv, RouterTypeOK
    <3>. QED BY <1>1, <2>1, <3>1
  <2>. QED BY <2>2, <2>3
<1>4. BatchInv'
  BY <1>1 DEF RouterInv, BatchInv
<1>. QED BY <1>2, <1>3, <1>4 DEF RouterInv

LEMMA TryEventStep ==
  ASSUME RouterInv, NEW s \in ShardIds, TryEvent(s)
  PROVE  RouterInv'
<1>1. /\ events[s] # <<>>
      /\ delivered' = [delivered EXCEPT ![s] = Append(@, Head(events[s]))]
      /\ events' = [events EXCEPT ![s] = Tail(@)]
      /\ commands' = commands /\ accepted' = accepted
      /\ pending' = pending /\ expected' = expected /\ settled' = settled
  BY DEF TryEvent, shardVars
<1>2. delivered[s] \in Seq(Nat) /\ events[s] \in Seq(Nat)
  BY DEF RouterInv, RouterTypeOK
<1>3. Head(events[s]) \in Nat /\ Tail(events[s]) \in Seq(Nat)
  BY <1>1, <1>2, HeadTailProperties
<1>4. RouterTypeOK'
  BY <1>1, <1>2, <1>3 DEF RouterInv, RouterTypeOK
<1>5. FlowInv'
  BY <1>1 DEF RouterInv, FlowInv
<1>6. \A r \in ShardIds : delivered'[r] \o events'[r] = delivered[r] \o events[r]
  <2>. SUFFICES ASSUME NEW r \in ShardIds
                PROVE  delivered'[r] \o events'[r] = delivered[r] \o events[r]
    OBVIOUS
  <2>1. CASE r = s
    <3>1. /\ delivered'[r] = Append(delivered[s], Head(events[s]))
          /\ events'[r] = Tail(events[s])
      BY <1>1, <2>1 DEF RouterInv, RouterTypeOK
    <3>2. delivered[s] \o events[s] = Append(delivered[s], Head(events[s])) \o Tail(events[s])
      BY <1>1, <1>2, ShiftHead
    <3>. QED BY <2>1, <3>1, <3>2
  <2>2. CASE r # s
    BY <1>1, <2>2 DEF RouterInv, RouterTypeOK
  <2>. QED BY <2>1, <2>2
<1>7. BatchInv'
  BY <1>1, <1>6 DEF RouterInv, BatchInv
<1>. QED BY <1>4, <1>5, <1>7 DEF RouterInv

\* What every outcome of try_process_one does to the commands of its shard.
LEMMA TakeFacts ==
  ASSUME RouterInv, NEW s \in ShardIds, NEW kept, Take(s, kept)
  PROVE  /\ NextCommand(s) \in Commands
         /\ NextCommand(s) = Front(pending[s], commands[s])
         /\ commands' \in [ShardIds -> Seq(Commands)]
         /\ commands'[s] = Behind(pending[s], commands[s])
         /\ pending'[s] = kept
         /\ \A r \in ShardIds \ {s} : commands'[r] = commands[r] /\ pending'[r] = pending[r]
         /\ accepted' = accepted /\ delivered' = delivered
         /\ Flow(accepted[s], settled[s], NextCommand(s), commands'[s])
         /\ \A how \in {"refused", "processed", "fault"} :
              Flow(accepted[s], Append(settled[s], [command |-> NextCommand(s), how |-> how]),
                   NoCommand, commands'[s])
<1>1. /\ accepted[s] \in Seq(Commands) /\ settled[s] \in Seq(Answers)
      /\ pending[s] \in Commands \cup {NoCommand} /\ commands[s] \in Seq(Commands)
      /\ Flow(accepted[s], settled[s], pending[s], commands[s])
      /\ commands \in [ShardIds -> Seq(Commands)]
      /\ pending \in [ShardIds -> Commands \cup {NoCommand}]
  BY DEF RouterInv, RouterTypeOK, FlowInv
<1>2. /\ pending[s] # NoCommand \/ commands[s] # <<>>
      /\ commands' = IF pending[s] # NoCommand THEN commands
                     ELSE [commands EXCEPT ![s] = Tail(@)]
      /\ pending' = [pending EXCEPT ![s] = kept]
      /\ accepted' = accepted /\ delivered' = delivered
  BY DEF Take, HasCommand
<1>3. NextCommand(s) = Front(pending[s], commands[s])
  BY DEF NextCommand, Front
<1>4. commands'[s] = Behind(pending[s], commands[s]) /\ pending'[s] = kept
  BY <1>1, <1>2 DEF Behind
<1>5. \A r \in ShardIds \ {s} : commands'[r] = commands[r] /\ pending'[r] = pending[r]
  BY <1>1, <1>2
<1>6. /\ Front(pending[s], commands[s]) \in Commands
      /\ Behind(pending[s], commands[s]) \in Seq(Commands)
      /\ Flow(accepted[s], settled[s], Front(pending[s], commands[s]),
              Behind(pending[s], commands[s]))
      /\ \A how \in {"refused", "processed", "fault"} :
           Flow(accepted[s],
                Append(settled[s], [command |-> Front(pending[s], commands[s]), how |-> how]),
                NoCommand, Behind(pending[s], commands[s]))
  BY <1>1, <1>2, FlowTake
<1>7. commands' \in [ShardIds -> Seq(Commands)]
  BY <1>1, <1>2, <1>6 DEF Behind
<1>. QED BY <1>2, <1>3, <1>4, <1>5, <1>6, <1>7

\* An answer of kind `how' that moves `expected' by `up' and publishes `more'.
LEMMA AnswerStep ==
  ASSUME RouterInv, NEW s \in ShardIds, NEW how \in {"refused", "processed", "fault"},
         Take(s, NoCommand), Settle(s, how),
         \/ /\ how = "refused"
            /\ expected' = expected /\ events' = events
         \/ /\ how # "refused" /\ Sound(s)
            /\ expected' = [expected EXCEPT ![s] = @ + 1]
            /\ events' = IF how = "processed"
                         THEN [events EXCEPT ![s] = Append(@, expected[s])] ELSE events
  PROVE  RouterInv'
<1>. DEFINE c == NextCommand(s)
            a == [command |-> c, how |-> how]
<1>1. /\ c \in Commands
      /\ commands' \in [ShardIds -> Seq(Commands)] /\ pending'[s] = NoCommand
      /\ \A r \in ShardIds \ {s} : commands'[r] = commands[r] /\ pending'[r] = pending[r]
      /\ accepted' = accepted /\ delivered' = delivered
      /\ Flow(accepted[s], Append(settled[s], a), NoCommand, commands'[s])
  BY TakeFacts
<1>2. pending' \in [ShardIds -> Commands \cup {NoCommand}]
  BY DEF Take, RouterInv, RouterTypeOK
<1>3. /\ settled[s] \in Seq(Answers) /\ settled \in [ShardIds -> Seq(Answers)]
      /\ expected \in [ShardIds -> 1 .. MaxSeq] /\ expected[s] \in 1 .. MaxSeq
      /\ events \in [ShardIds -> Seq(Nat)] /\ delivered \in [ShardIds -> Seq(Nat)]
      /\ delivered[s] \in Seq(Nat) /\ events[s] \in Seq(Nat) /\ MaxSeq \in Nat
  BY RouterAssumption DEF RouterInv, RouterTypeOK
<1>4. settled' = [settled EXCEPT ![s] = Append(@, a)]
  BY DEF Settle
<1>5. a \in Answers /\ a.how = how /\ a.command = c
  BY <1>1 DEF Answers
<1>. HIDE DEF c, a
<1>6. settled' \in [ShardIds -> Seq(Answers)]
  BY <1>3, <1>4, <1>5
<1>7. expected' \in [ShardIds -> 1 .. MaxSeq]
  <2>1. CASE expected' = expected
    BY <1>3, <2>1
  <2>2. CASE Sound(s) /\ expected' = [expected EXCEPT ![s] = @ + 1]
    <3>1. expected[s] + 1 \in 1 .. MaxSeq
      BY <1>3, <2>2 DEF Sound
    <3>. QED BY <1>3, <2>2, <3>1
  <2>. QED BY <2>1, <2>2
<1>8. events' \in [ShardIds -> Seq(Nat)]
  <2>1. Append(events[s], expected[s]) \in Seq(Nat)
    BY <1>3
  <2>. QED BY <1>3, <2>1
<1>9. RouterTypeOK'
  BY <1>1, <1>2, <1>6, <1>7, <1>8 DEF RouterInv, RouterTypeOK
<1>10. FlowInv'
  <2>. SUFFICES ASSUME NEW r \in ShardIds
                PROVE  Flow(accepted'[r], settled'[r], pending'[r], commands'[r])
    BY DEF FlowInv
  <2>1. CASE r = s
    BY <1>1, <1>3, <1>4, <2>1
  <2>2. CASE r # s
    <3>1. settled'[r] = settled[r] /\ Flow(accepted[r], settled[r], pending[r], commands[r])
      BY <1>3, <1>4, <2>2 DEF RouterInv, FlowInv
    <3>. QED BY <1>1, <2>2, <3>1
  <2>. QED BY <2>1, <2>2
<1>11. BatchInv'
  <2>. SUFFICES ASSUME NEW r \in ShardIds
                PROVE  Batches(delivered'[r] \o events'[r], settled'[r], expected'[r])
    BY DEF BatchInv
  <2>1. Batches(delivered[r] \o events[r], settled[r], expected[r])
    BY DEF RouterInv, BatchInv
  <2>2. CASE r # s
    <3>1. settled'[r] = settled[r] /\ expected'[r] = expected[r] /\ events'[r] = events[r]
      BY <1>3, <1>4, <2>2
    <3>. QED BY <1>1, <2>1, <3>1
  <2>3. CASE r = s
    <3>1. settled'[r] = Append(settled[s], a) /\ expected[s] \in Nat
      BY <1>3, <1>4, <2>3
    <3>2. delivered[s] \o events[s] \in Seq(Nat)
      BY <1>3, ConcatProperties
    <3>3. CASE how # "processed"
      <4>1. events'[r] = events[r] /\ expected'[r] \in Nat /\ expected[s] <= expected'[r]
        BY <1>3, <2>3, <3>3
      <4>2. Batches(delivered[s] \o events[s], settled[s], expected[s])
        BY <2>1, <2>3
      <4>3. a.how # "processed"
        BY <1>5, <3>3
      <4>4. Batches(delivered[s] \o events[s], Append(settled[s], a), expected'[r])
        BY <1>3, <1>5, <3>1, <3>2, <4>1, <4>2, <4>3, BatchesSilent, Zenon
      <4>. QED BY <1>1, <2>3, <3>1, <4>1, <4>4
    <3>4. CASE how = "processed"
      <4>1. /\ events'[r] = Append(events[s], expected[s])
            /\ expected'[r] = expected[s] + 1 /\ Sound(s)
        BY <1>3, <2>3, <3>4
      <4>2. a.command.sequence = expected[s]
        BY <1>5, <4>1 DEF Sound, c
      <4>3. delivered[s] \o Append(events[s], expected[s])
              = Append(delivered[s] \o events[s], expected[s])
        <5>1. \A d, e \in Seq(Nat), n \in Nat : d \o Append(e, n) = Append(d \o e, n)
          BY AppendLast
        <5>. QED BY <1>3, <3>1, <5>1
      <4>4. Batches(Append(delivered[s] \o events[s], expected[s]), Append(settled[s], a),
                    expected[s] + 1)
        BY <1>3, <1>5, <2>1, <2>3, <3>1, <3>2, <3>4, <4>2, BatchesProcess
      <4>. QED BY <1>1, <2>3, <3>1, <4>1, <4>3, <4>4
    <3>. QED BY <3>3, <3>4
  <2>. QED BY <2>2, <2>3
<1>. QED BY <1>9, <1>10, <1>11 DEF RouterInv

LEMMA HoldCommandStep ==
  ASSUME RouterInv, NEW s \in ShardIds, HoldCommand(s)
  PROVE  RouterInv'
<1>1. /\ NextCommand(s) \in Commands
      /\ commands' \in [ShardIds -> Seq(Commands)] /\ pending'[s] = NextCommand(s)
      /\ \A r \in ShardIds \ {s} : commands'[r] = commands[r] /\ pending'[r] = pending[r]
      /\ accepted' = accepted /\ delivered' = delivered
      /\ Flow(accepted[s], settled[s], NextCommand(s), commands'[s])
  BY TakeFacts DEF HoldCommand
<1>2. events' = events /\ expected' = expected /\ settled' = settled
  BY DEF HoldCommand
<1>3. pending' \in [ShardIds -> Commands \cup {NoCommand}]
  BY <1>1 DEF HoldCommand, Take, RouterInv, RouterTypeOK
<1>4. RouterTypeOK'
  BY <1>1, <1>2, <1>3 DEF RouterInv, RouterTypeOK
<1>5. FlowInv'
  <2>. SUFFICES ASSUME NEW r \in ShardIds
                PROVE  Flow(accepted'[r], settled'[r], pending'[r], commands'[r])
    BY DEF FlowInv
  <2>1. CASE r = s
    BY <1>1, <1>2, <2>1
  <2>2. CASE r # s
    BY <1>1, <1>2, <2>2 DEF RouterInv, FlowInv
  <2>. QED BY <2>1, <2>2
<1>6. BatchInv'
  BY <1>1, <1>2 DEF RouterInv, BatchInv
<1>. QED BY <1>4, <1>5, <1>6 DEF RouterInv

LEMMA RouterStep == RouterInv /\ [Next]_vars => RouterInv'
<1>. SUFFICES ASSUME RouterInv, [Next]_vars PROVE RouterInv'
  OBVIOUS
<1>1. CASE UNCHANGED vars
  BY <1>1 DEF vars, shardVars, RouterInv, RouterTypeOK, FlowInv, BatchInv
<1>2. ASSUME NEW c \in Commands, RouteCommand(c) PROVE RouterInv'
  BY <1>2, RouteCommandStep
<1>3. ASSUME NEW s \in ShardIds, TryEvent(s) PROVE RouterInv'
  BY <1>3, TryEventStep
<1>4. ASSUME NEW s \in ShardIds, TryProcessOne(s) PROVE RouterInv'
  <2>1. CASE RefuseCommand(s)
    BY <2>1, AnswerStep DEF RefuseCommand
  <2>2. CASE HoldCommand(s)
    BY <2>2, HoldCommandStep
  <2>3. CASE ProcessCommand(s)
    BY <2>3, AnswerStep DEF ProcessCommand
  <2>4. CASE FaultCommand(s)
    BY <2>4, AnswerStep DEF FaultCommand
  <2>. QED BY <1>4, <2>1, <2>2, <2>3, <2>4 DEF TryProcessOne
<1>. QED BY <1>1, <1>2, <1>3, <1>4 DEF Next

(* Whatever route_command accepted is answered, retained or queued, once and *)
(* in order, and the host gets one batch per processed command, for every    *)
(* number of shards, every capacity and every interleaving.                  *)
THEOREM RouterLosesNothing == Spec => []NothingVanishes
<1>1. RouterInv => NothingVanishes
  <2>. SUFFICES ASSUME RouterInv, NEW s \in ShardIds
                PROVE
    /\ accepted[s] = SettledCommands(s) \o Held(s) \o commands[s]
    /\ \A j, k \in ProcessedAt(s) : j < k => SequenceAt(s, j) < SequenceAt(s, k)
    /\ \A j, k \in 1 .. Len(Published(s)) : j < k => Published(s)[j] < Published(s)[k]
    /\ {Published(s)[k] : k \in 1 .. Len(Published(s))} =
         {SequenceAt(s, k) : k \in ProcessedAt(s)}
    BY DEF NothingVanishes
  <2>1. accepted[s] = SettledCommands(s) \o Held(s) \o commands[s]
    BY DEF RouterInv, FlowInv, Flow, SettledCommands, Held, Answered, Retained
  <2>2. Batches(Published(s), settled[s], expected[s]) /\ ProcessedAt(s) = By(settled[s])
    BY DEF RouterInv, BatchInv, Published, ProcessedAt, By
  <2>3. \A j, k \in ProcessedAt(s) : j < k => SequenceAt(s, j) < SequenceAt(s, k)
    BY <2>2 DEF Batches, SequenceAt
  <2>4. \A j, k \in 1 .. Len(Published(s)) : j < k => Published(s)[j] < Published(s)[k]
    BY <2>2 DEF Batches
  <2>5. \A k \in 1 .. Len(Published(s)) : Published(s)[k] \in Nat
    <3>1. delivered[s] \in Seq(Nat) /\ events[s] \in Seq(Nat)
      BY DEF RouterInv, RouterTypeOK
    <3>2. Published(s) \in Seq(Nat)
      BY <3>1, ConcatProperties DEF Published
    <3>. QED BY <3>2
  <2>6. \A k \in ProcessedAt(s) : SequenceAt(s, k) \in Nat
    BY <2>2, NumberType DEF RouterInv, RouterTypeOK, SequenceAt
  <2>7. {Published(s)[k] : k \in 1 .. Len(Published(s))} =
          {SequenceAt(s, k) : k \in ProcessedAt(s)}
    BY <2>2, <2>5, <2>6 DEF Batches, SequenceAt
  <2>. QED BY <2>1, <2>3, <2>4, <2>7
<1>. QED BY <1>1, RouterInitial, RouterStep, PTL DEF Spec

-----------------------------------------------------------------------------
(* The route table.                                                        *)

\* The least-number principle.
LEMMA Least ==
  ASSUME NEW T \in SUBSET Nat, T # {}
  PROVE  \E m \in T : \A k \in T : m <= k
<1>1. IsWellFoundedOn(OpToRel(<, Nat), Nat)
  BY NatLessThanWellFounded
<1>2. \E x \in T : \A y \in T : ~ (<<y, x>> \in OpToRel(<, Nat))
  BY <1>1, WFMin, Zenon
<1>3. OpToRel(<, Nat) = {ss \in Nat \X Nat : ss[1] < ss[2]}
  BY Zenon DEF OpToRel
<1>4. PICK x \in T : \A y \in T : ~ (<<y, x>> \in {ss \in Nat \X Nat : ss[1] < ss[2]})
  BY <1>2, <1>3, Zenon
<1>5. ASSUME NEW y \in T PROVE x <= y
  <2>1. ~ (<<y, x>> \in {ss \in Nat \X Nat : ss[1] < ss[2]})
    BY <1>4
  <2>2. <<y, x>> \in Nat \X Nat /\ <<y, x>>[1] = y /\ <<y, x>>[2] = x
    OBVIOUS
  <2>3. ~ (y < x)
    BY <2>1, <2>2
  <2>. QED BY <2>3
<1>. QED BY <1>5

\* An injection between finite sets of the same size misses nothing.
LEMMA InjectionIsOnto ==
  ASSUME NEW S, NEW T, IsFiniteSet(T), Cardinality(S) = Cardinality(T), NEW f \in [S -> T],
         \A x, y \in S : f[x] = f[y] => x = y
  PROVE  \A t \in T : \E x \in S : f[x] = t
<1>1. f \in Injection(S, T)
  BY DEF Injection, IsInjective
<1>2. f \in Surjection(S, T)
  BY <1>1, FS_Injection
<1>. QED BY <1>2 DEF Surjection

Slots == 1 .. SHARDS
Routes == [instrument : Instruments, shard : Nat]

LEMMA SlotsFinite ==
  /\ SHARDS \in Nat
  /\ IsFiniteSet(Slots) /\ Cardinality(Slots) = SHARDS
  /\ IsFiniteSet(ShardIds) /\ Cardinality(ShardIds) = SHARDS
<1>1. SHARDS \in Nat
  BY RouterAssumption
<1>2. IsFiniteSet(Slots) /\ Cardinality(Slots) = SHARDS
  BY <1>1, FS_Interval DEF Slots
<1>3. IsFiniteSet(ShardIds) /\ Cardinality(ShardIds) = SHARDS
  <2>1. 0 \in Int /\ SHARDS - 1 \in Int
    BY <1>1
  <2>2. IsFiniteSet(0 .. SHARDS - 1)
    BY <2>1, FS_Interval
  <2>3. Cardinality(0 .. SHARDS - 1) = IF 0 > SHARDS - 1 THEN 0 ELSE (SHARDS - 1) - 0 + 1
    BY <2>1, FS_Interval
  <2>. QED BY <1>1, <2>2, <2>3 DEF ShardIds
<1>. QED BY <1>1, <1>2, <1>3

\* Ascending along the slots.
Ascends(a) == \A j, k \in Slots : j < k => a[j].instrument < a[k].instrument

(* sort_unstable_by_key has something to return: the routes of an accepted   *)
(* array can be put in ascending order, each at its rank.                    *)
LEMMA SortedExists ==
  ASSUME NEW array \in [Slots -> Routes], TryNewAccepts(array)
  PROVE  \E a \in [Slots -> {array[k] : k \in Slots}] : Ascends(a)
<1>. DEFINE Below(k) == {j \in Slots : array[j].instrument < array[k].instrument}
            rank == [k \in Slots |-> Cardinality(Below(k)) + 1]
<1>0. \A k \in Slots : array[k].instrument \in Nat
  <2>1. \A x \in Routes : x.instrument \in Nat
    BY RouterAssumption DEF Routes
  <2>. QED BY <2>1
<1>1. ASSUME NEW k \in Slots
      PROVE  IsFiniteSet(Below(k)) /\ Cardinality(Below(k)) \in 0 .. SHARDS - 1
  <2>1. Below(k) \in SUBSET Slots /\ k \notin Below(k)
    BY <1>0
  <2>2. /\ IsFiniteSet(Below(k)) /\ Cardinality(Below(k)) <= Cardinality(Slots)
        /\ Cardinality(Slots) = Cardinality(Below(k)) => Slots = Below(k)
    BY <2>1, SlotsFinite, FS_Subset
  <2>3. Cardinality(Below(k)) \in Nat
    BY <2>2, FS_CardinalityType
  <2>. QED BY <2>1, <2>2, <2>3, SlotsFinite
<1>2. ASSUME NEW j \in Slots, NEW k \in Slots, array[j].instrument < array[k].instrument
      PROVE  Cardinality(Below(j)) < Cardinality(Below(k))
  <2>1. Below(j) \in SUBSET Below(k) /\ j \in Below(k) /\ j \notin Below(j)
    BY <1>0, <1>2
  <2>2. /\ Cardinality(Below(j)) <= Cardinality(Below(k))
        /\ Cardinality(Below(k)) = Cardinality(Below(j)) => Below(k) = Below(j)
    BY <1>1, <2>1, FS_Subset
  <2>3. Below(j) # Below(k)
    BY <2>1
  <2>4. Cardinality(Below(j)) \in Nat /\ Cardinality(Below(k)) \in Nat
    BY <1>1, FS_CardinalityType
  <2>. HIDE DEF Below
  <2>. QED BY <2>2, <2>3, <2>4
<1>. HIDE DEF Below
<1>3. rank \in [Slots -> Slots]
  <2>1. \A k \in Slots : Cardinality(Below(k)) + 1 \in Slots
    BY <1>1, SlotsFinite DEF Slots
  <2>. QED BY <2>1
<1>4. \A j, k \in Slots : array[j].instrument < array[k].instrument => rank[j] < rank[k]
  <2>1. \A k \in Slots : rank[k] = Cardinality(Below(k)) + 1 /\ Cardinality(Below(k)) \in Nat
    BY <1>1, FS_CardinalityType
  <2>. HIDE DEF rank
  <2>. QED BY <1>2, <2>1
<1>5. \A j, k \in Slots : j # k => array[j].instrument # array[k].instrument
  BY DEF TryNewAccepts, Slots
<1>. HIDE DEF rank
<1>6. \A j, k \in Slots : rank[j] \in Nat
  BY <1>3, SlotsFinite DEF Slots
<1>7. \A j, k \in Slots : rank[j] = rank[k] => j = k
  BY <1>0, <1>4, <1>5, <1>6
<1>8. \A r \in Slots : \E k \in Slots : rank[k] = r
  BY <1>3, <1>7, SlotsFinite, InjectionIsOnto
<1>. DEFINE at == [r \in Slots |-> CHOOSE k \in Slots : rank[k] = r]
            a == [r \in Slots |-> array[at[r]]]
<1>9. \A r \in Slots : at[r] \in Slots /\ rank[at[r]] = r
  BY <1>8
<1>. HIDE DEF at
<1>10. a \in [Slots -> {array[k] : k \in Slots}]
  BY <1>9
<1>11. ASSUME NEW j \in Slots, NEW k \in Slots, j < k
       PROVE  a[j].instrument < a[k].instrument
  <2>1. at[j] \in Slots /\ at[k] \in Slots /\ rank[at[j]] = j /\ rank[at[k]] = k
    BY <1>9
  <2>2. j \in Nat /\ k \in Nat
    BY DEF Slots
  <2>3. ~ (rank[at[k]] < rank[at[j]]) /\ at[j] # at[k]
    BY <1>11, <2>1, <2>2
  <2>4. array[at[j]].instrument < array[at[k]].instrument
    BY <1>0, <1>4, <1>5, <2>1, <2>3
  <2>. QED BY <2>4
<1>. HIDE DEF a
<1>12. Ascends(a)
  BY <1>11 DEF Ascends
<1>. QED BY <1>10, <1>12

(* by_instrument: ascending, and it holds the routes of the array, all of    *)
(* them.                                                                     *)
LEMMA SortedIs ==
  ASSUME NEW array \in [Slots -> Routes], TryNewAccepts(array)
  PROVE  LET a == SortedByInstrument(array)
         IN  /\ a \in [Slots -> Routes] /\ Ascends(a)
             /\ \A k \in Slots : \E m \in Slots : a[k] = array[m]
             /\ \A m \in Slots : \E k \in Slots : a[k] = array[m]
<1>. DEFINE a == SortedByInstrument(array)
            from == [k \in Slots |-> CHOOSE m \in Slots : a[k] = array[m]]
<1>1. a \in [Slots -> {array[k] : k \in Slots}] /\ Ascends(a)
  BY SortedExists DEF SortedByInstrument, Ascends, Slots
<1>. HIDE DEF a
<1>2. \A k \in Slots : \E m \in Slots : a[k] = array[m]
  BY <1>1
<1>3. a \in [Slots -> Routes]
  BY <1>1
<1>4. \A k \in Slots : from[k] \in Slots /\ a[k] = array[from[k]]
  BY <1>2
<1>. HIDE DEF from
<1>5. \A k \in Slots : a[k].instrument \in Nat
  <2>1. \A x \in Routes : x.instrument \in Nat
    BY RouterAssumption DEF Routes
  <2>. QED BY <1>3, <2>1
<1>6. \A j, k \in Slots : from[j] = from[k] => j = k
  <2>. SUFFICES ASSUME NEW j \in Slots, NEW k \in Slots, from[j] = from[k], j # k
                PROVE  FALSE
    OBVIOUS
  <2>1. a[j].instrument = a[k].instrument
    BY <1>4
  <2>2. j < k \/ k < j
    BY DEF Slots
  <2>3. a[j].instrument < a[k].instrument \/ a[k].instrument < a[j].instrument
    BY <1>1, <2>2 DEF Ascends
  <2>. QED BY <1>5, <2>1, <2>3
<1>7. from \in [Slots -> Slots]
  BY <1>4 DEF from
<1>8. \A m \in Slots : \E k \in Slots : from[k] = m
  BY <1>6, <1>7, SlotsFinite, InjectionIsOnto
<1>9. \A m \in Slots : \E k \in Slots : a[k] = array[m]
  BY <1>4, <1>8
<1>. QED BY <1>1, <1>2, <1>3, <1>9 DEF a

\* Every shard number has its route: they are distinct and below SHARDS.
LEMMA EveryShardRouted ==
  ASSUME NEW array \in [Slots -> Routes], TryNewAccepts(array)
  PROVE  \A s \in ShardIds : \E m \in Slots : array[m].shard = s
<1>. DEFINE f == [m \in Slots |-> array[m].shard]
<1>1. f \in [Slots -> ShardIds]
  BY DEF TryNewAccepts, Slots
<1>2. \A j, k \in Slots : f[j] = f[k] => j = k
  BY DEF TryNewAccepts, Slots
<1>3. \A s \in ShardIds : \E m \in Slots : f[m] = s
  <2>. HIDE DEF f
  <2>. QED BY <1>1, <1>2, SlotsFinite, InjectionIsOnto
<1>. QED BY <1>3

(* The dense test: an ascending table whose ends are SHARDS - 1 apart has    *)
(* every number between them, each at its offset.                            *)
LEMMA DenseIsConsecutive ==
  ASSUME NEW a \in [Slots -> Routes], Ascends(a), SHARDS > 0,
         a[SHARDS].instrument - a[1].instrument = SHARDS - 1
  PROVE  \A k \in Slots : a[k].instrument = a[1].instrument + (k - 1)
<1>. DEFINE v == [k \in Slots |-> a[k].instrument]
<1>0. SHARDS \in Nat /\ 1 \in Slots /\ SHARDS \in Slots
  BY SlotsFinite DEF Slots
<1>1. \A k \in Slots : v[k] \in Nat
  <2>1. \A x \in Routes : x.instrument \in Nat
    BY RouterAssumption DEF Routes
  <2>. QED BY <2>1
<1>2. \A j, k \in Slots : j < k => v[j] < v[k]
  BY DEF Ascends
<1>3. v[SHARDS] - v[1] = SHARDS - 1 /\ \A k \in Slots : v[k] = a[k].instrument
  BY <1>0
<1>. HIDE DEF v
<1>4. \A k \in Slots : v[1] + (k - 1) <= v[k]
  <2>. DEFINE bad == {k \in Slots : v[k] < v[1] + (k - 1)}
  <2>1. ASSUME bad # {} PROVE FALSE
    <3>1. bad \in SUBSET Nat
      BY DEF Slots
    <3>2. PICK m \in bad : \A k \in bad : m <= k
      BY <2>1, <3>1, Least
    <3>3. m \in Slots /\ v[m] < v[1] + (m - 1)
      BY <3>2
    <3>4. m # 1
      BY <1>0, <1>1, <3>3
    <3>5. m - 1 \in Slots /\ m - 1 < m /\ m \in Nat
      BY <1>0, <3>3, <3>4 DEF Slots
    <3>6. ~ (v[m - 1] < v[1] + ((m - 1) - 1))
      BY <3>2, <3>5
    <3>7. v[m - 1] < v[m]
      BY <1>2, <3>3, <3>5
    <3>8. v[m - 1] \in Nat /\ v[m] \in Nat /\ v[1] \in Nat
      BY <1>0, <1>1, <3>3, <3>5
    <3>. QED BY <3>3, <3>5, <3>6, <3>7, <3>8
  <2>2. \A k \in Slots : k \in Nat /\ v[k] \in Nat /\ v[1] \in Nat /\ ~ (v[k] < v[1] + (k - 1))
    BY <1>0, <1>1, <2>1, SMTT(30) DEF Slots
  <2>. HIDE DEF bad
  <2>. QED BY <2>2
<1>5. \A k \in Slots : v[k] <= v[SHARDS] - (SHARDS - k)
  <2>. DEFINE bad == {d \in 0 .. SHARDS - 1 : v[SHARDS - d] > v[SHARDS] - d}
  <2>1. ASSUME bad # {} PROVE FALSE
    <3>1. bad \in SUBSET Nat
      OBVIOUS
    <3>2. PICK m \in bad : \A k \in bad : m <= k
      BY <2>1, <3>1, Least
    <3>3. m \in 0 .. SHARDS - 1 /\ v[SHARDS - m] > v[SHARDS] - m
      BY <3>2
    <3>4. m # 0
      <4>1. ASSUME m = 0 PROVE FALSE
        <5>1. SHARDS - m = SHARDS /\ v[SHARDS] \in Nat
          BY <1>0, <1>1, <4>1
        <5>. QED BY <3>3, <4>1, <5>1
      <4>. QED BY <4>1
    <3>5. /\ m - 1 \in 0 .. SHARDS - 1 /\ m - 1 < m /\ m \in Nat
          /\ SHARDS - m \in Slots /\ SHARDS - (m - 1) \in Slots
          /\ SHARDS - m < SHARDS - (m - 1)
      BY <1>0, <3>3, <3>4 DEF Slots
    <3>6. ~ (v[SHARDS - (m - 1)] > v[SHARDS] - (m - 1))
      BY <3>2, <3>5
    <3>7. v[SHARDS - m] < v[SHARDS - (m - 1)]
      BY <1>2, <3>5
    <3>8. v[SHARDS - m] \in Nat /\ v[SHARDS - (m - 1)] \in Nat /\ v[SHARDS] \in Nat
      BY <1>0, <1>1, <3>5
    <3>. QED BY <3>3, <3>5, <3>6, <3>7, <3>8
  <2>2. ASSUME NEW k \in Slots PROVE v[k] <= v[SHARDS] - (SHARDS - k)
    <3>1. SHARDS - k \in 0 .. SHARDS - 1 /\ SHARDS - (SHARDS - k) = k
      BY <1>0 DEF Slots
    <3>2. ~ (v[SHARDS - (SHARDS - k)] > v[SHARDS] - (SHARDS - k))
      BY <2>1, <3>1
    <3>3. v[k] \in Nat /\ v[SHARDS] \in Nat /\ k \in Nat
      BY <1>0, <1>1 DEF Slots
    <3>. QED BY <1>0, <3>1, <3>2, <3>3
  <2>. QED BY <2>2
<1>6. \A k \in Slots : v[k] = v[1] + (k - 1)
  <2>. SUFFICES ASSUME NEW k \in Slots PROVE v[k] = v[1] + (k - 1)
    OBVIOUS
  <2>1. v[k] \in Nat /\ v[1] \in Nat /\ v[SHARDS] \in Nat /\ k \in Nat
    BY <1>0, <1>1 DEF Slots
  <2>2. v[1] + (k - 1) <= v[k] /\ v[k] <= v[SHARDS] - (SHARDS - k)
    BY <1>4, <1>5
  <2>. QED BY <1>0, <1>3, <2>1, <2>2
<1>. QED BY <1>0, <1>3, <1>6

\* The table is the one try_new built, and it accepted the array.
TableInv ==
  /\ routes \in [Slots -> Routes]
  /\ TryNewAccepts(routes)
  /\ table = NewTable(routes)

LEMMA TableAnswers == TableInv => TableIsTheArray
<1>. SUFFICES ASSUME TableInv PROVE TableIsTheArray
  OBVIOUS
<1>. DEFINE a == SortedByInstrument(routes)
<1>1. /\ table.by_instrument = a
      /\ table.by_shard = [s \in ShardIds |-> CHOOSE k \in Slots : a[k].shard = s]
      /\ table.dense = (a[SHARDS].instrument - a[1].instrument = SHARDS - 1)
  BY DEF TableInv, NewTable, Slots
<1>2. /\ a \in [Slots -> Routes] /\ Ascends(a)
      /\ \A k \in Slots : \E m \in Slots : a[k] = routes[m]
      /\ \A m \in Slots : \E k \in Slots : a[k] = routes[m]
  BY SortedIs DEF TableInv
<1>. HIDE DEF a
<1>3. /\ SHARDS > 0 /\ SHARDS \in Nat /\ 1 \in Slots
      /\ \A k \in Slots : routes[k].shard \in ShardIds
      /\ \A j, k \in Slots : j # k => /\ routes[j].shard # routes[k].shard
                                      /\ routes[j].instrument # routes[k].instrument
  BY SlotsFinite DEF TableInv, TryNewAccepts, Slots
<1>4. \A k \in Slots : a[k].instrument \in Nat
  <2>1. \A x \in Routes : x.instrument \in Nat
    BY RouterAssumption DEF Routes
  <2>. QED BY <1>2, <2>1
<1>5. \A j, k \in Slots : a[j].instrument = a[k].instrument => j = k
  <2>. SUFFICES ASSUME NEW j \in Slots, NEW k \in Slots, j # k,
                       a[j].instrument = a[k].instrument
                PROVE  FALSE
    OBVIOUS
  <2>1. j < k \/ k < j
    BY DEF Slots
  <2>2. a[j].instrument < a[k].instrument \/ a[k].instrument < a[j].instrument
    BY <1>2, <2>1 DEF Ascends
  <2>. QED BY <1>4, <2>2
<1>0. table.dense => \A k \in Slots : a[k].instrument = a[1].instrument + (k - 1)
  <2>. SUFFICES ASSUME table.dense
                PROVE  \A k \in Slots : a[k].instrument = a[1].instrument + (k - 1)
    OBVIOUS
  <2>1. a[SHARDS].instrument - a[1].instrument = SHARDS - 1
    BY <1>1, Zenon
  <2>. QED BY <1>2, <1>3, <2>1, DenseIsConsecutive
\* Both lookups: an instrument of the table gives its shard, any other gives None.
<1>6. ASSUME NEW k \in Slots PROVE ShardFor(a[k].instrument) = a[k].shard
  <2>1. CASE table.dense
    <3>1. a[k].instrument = a[1].instrument + (k - 1)
      BY <1>0, <2>1
    <3>2. /\ a[k].instrument - a[1].instrument = k - 1
          /\ k - 1 \in ShardIds /\ (k - 1) + 1 = k
      BY <1>3, <1>4, <3>1 DEF Slots, ShardIds
    <3>. QED BY <1>1, <2>1, <3>2 DEF ShardFor
  <2>2. CASE ~table.dense
    <3>. DEFINE found == {m \in Slots : a[m].instrument = a[k].instrument}
    <3>1. found = {k}
      BY <1>5
    <3>2. ShardFor(a[k].instrument) = a[CHOOSE m \in found : TRUE].shard
      BY <1>1, <2>2, <3>1 DEF ShardFor, Slots
    <3>3. (CHOOSE m \in found : TRUE) = k
      BY <3>1
    <3>. QED BY <3>2, <3>3
  <2>. QED BY <2>1, <2>2
<1>7. ASSUME NEW i \in Instruments, ShardFor(i) # NoShard
      PROVE  \E k \in Slots : a[k].instrument = i
  <2>1. CASE table.dense
    <3>. DEFINE offset == i - a[1].instrument
    <3>1. offset \in ShardIds
      BY <1>1, <1>7, <2>1 DEF ShardFor
    <3>2. i \in Nat
      BY RouterAssumption
    <3>3. offset + 1 \in Slots /\ a[1].instrument + ((offset + 1) - 1) = i
      BY <1>3, <1>4, <3>1, <3>2 DEF ShardIds, Slots
    <3>4. a[offset + 1].instrument = a[1].instrument + ((offset + 1) - 1)
      BY <1>0, <2>1, <3>3
    <3>. QED BY <3>3, <3>4
  <2>2. CASE ~table.dense
    BY <1>1, <1>7, <2>2 DEF ShardFor, Slots
  <2>. QED BY <2>1, <2>2
<1>8. ASSUME NEW m \in Slots
      PROVE  /\ ShardFor(routes[m].instrument) = routes[m].shard
             /\ InstrumentFor(routes[m].shard) = routes[m].instrument
  <2>1. PICK k \in Slots : a[k] = routes[m]
    BY <1>2
  <2>2. ShardFor(routes[m].instrument) = routes[m].shard
    BY <1>6, <2>1
  <2>. DEFINE s == routes[m].shard
              at == CHOOSE j \in Slots : a[j].shard = s
  <2>3. s \in ShardIds /\ a[k].shard = s
    BY <1>3, <2>1
  <2>4. at \in Slots /\ a[at].shard = s
    BY <2>3
  <2>5. InstrumentFor(s) = a[at].instrument
    BY <1>1, <2>3 DEF InstrumentFor
  <2>. HIDE DEF at
  <2>6. PICK n \in Slots : a[at] = routes[n]
    BY <1>2, <2>4
  <2>7. n = m
    BY <1>3, <2>4, <2>6
  <2>. QED BY <2>2, <2>5, <2>6, <2>7
<1>9. \A i \in Instruments :
        ShardFor(i) # NoShard => \E k \in Slots : routes[k].instrument = i
  BY <1>2, <1>7
<1>. QED BY <1>8, <1>9 DEF TableIsTheArray, Slots

(* The table answers as the array that try_new accepted, in both directions  *)
(* and by either lookup, for every number of shards and every array.         *)
THEOREM RouteTableIsTheArray == Spec => []TableIsTheArray
<1>1. Init => TableInv
  BY RouterAssumption DEF Init, TableInv, Slots, Routes
<1>2. TableInv /\ [Next]_vars => TableInv'
  <2>. SUFFICES ASSUME TableInv, [Next]_vars PROVE TableInv'
    OBVIOUS
  <2>1. routes' = routes /\ table' = table
    BY DEF Next, vars, RouteCommand, TryEvent, TryProcessOne, RefuseCommand, HoldCommand,
           ProcessCommand, FaultCommand, Take
  <2>. QED BY <2>1 DEF TableInv
<1>. QED BY <1>1, <1>2, TableAnswers, PTL DEF Spec

=============================================================================
