------------------------------- MODULE Router -------------------------------
(***************************************************************************)
(* crates/hft-router: one routing thread and one thread per shard, which   *)
(* share nothing but a command queue and an event queue per shard.  The    *)
(* queues are those of module Spsc, here the bounded FIFOs that it         *)
(* implements.  A queue that was full is never seen as full once the       *)
(* thread could know better, so refusals are exact.                        *)
(*                                                                         *)
(* What the shard's engine does with a command it takes is in Gateway and  *)
(* EventEngine; here it takes the next sequence number and publishes one   *)
(* batch, named by that number.                                            *)
(***************************************************************************)
EXTENDS Integers, Sequences, FiniteSets

CONSTANTS
  SHARDS,         \* the number of shards
  Instruments,    \* instrument numbers, the ones without a route included
  RouteArrays,    \* the arrays of routes given to RouteTable::try_new
  CommandCap,     \* COMMAND_QUEUE
  EventCap,       \* EVENT_QUEUE
  MaxSeq,         \* the largest sequence number
  NoCommand, NoShard, NoInstrument,     \* None
  Faults,         \* whether a gateway may report a broken internal state
  Drained,        \* the shards whose events the host keeps taking
  MaxSend         \* bound: commands accepted by one shard

ASSUME RouterAssumption ==
  /\ SHARDS \in Nat
  /\ Instruments \subseteq Nat
  /\ RouteArrays \subseteq [1 .. SHARDS -> [instrument : Instruments, shard : Nat]]
  /\ CommandCap \in Nat \ {0} /\ EventCap \in Nat \ {0}
  /\ MaxSeq \in Nat \ {0} /\ MaxSend \in Nat
  /\ Faults \in BOOLEAN
  /\ Drained \subseteq 0 .. SHARDS - 1
  /\ NoShard \notin Nat /\ NoInstrument \notin Instruments

ShardIds == 0 .. SHARDS - 1
Commands == [instrument : Instruments, sequence : 1 .. MaxSeq]

ASSUME NoCommandAssumption == NoCommand \notin Commands

VARIABLES
  routes,      \* the array the table was built from
  table,       \* RouteTable
  commands,    \* the command queues
  pending,     \* MatchingShard.pending
  expected,    \* the expected sequence number of each shard's gateway
  events,      \* the event queues
  accepted,    \* history: the commands route_command accepted for each shard
  settled,     \* history: what each shard answered, in order
  delivered    \* history: the batches try_event returned, per shard

shardVars == <<pending, expected, settled>>
vars == <<routes, table, commands, events, accepted, delivered, shardVars>>

-----------------------------------------------------------------------------
(* The route table.                                                        *)

TryNewAccepts(array) ==
  /\ SHARDS > 0
  /\ \A k \in 1 .. SHARDS : array[k].shard \in ShardIds
  /\ \A j, k \in 1 .. SHARDS :
       j # k => array[j].shard # array[k].shard /\ array[j].instrument # array[k].instrument

SortedByInstrument(array) ==
  CHOOSE a \in [1 .. SHARDS -> {array[k] : k \in 1 .. SHARDS}] :
    \A j, k \in 1 .. SHARDS : j < k => a[j].instrument < a[k].instrument

\* Faulty variant: the width of the table is compared with the number of shards.
NewTableOffByOne(array) ==
  LET sorted == SortedByInstrument(array)
  IN [by_instrument |-> sorted,
      by_shard |-> [s \in ShardIds |-> CHOOSE k \in 1 .. SHARDS : sorted[k].shard = s],
      dense |-> sorted[SHARDS].instrument - sorted[1].instrument = SHARDS]

NewTable(array) ==
  LET sorted == SortedByInstrument(array)
  IN [by_instrument |-> sorted,
      by_shard |-> [s \in ShardIds |-> CHOOSE k \in 1 .. SHARDS : sorted[k].shard = s],
      dense |-> sorted[SHARDS].instrument - sorted[1].instrument = SHARDS - 1]

\* Consecutive instruments are found by their offset, others by binary search.
ShardFor(i) ==
  LET by == table.by_instrument
      offset == i - by[1].instrument
      found == {k \in 1 .. SHARDS : by[k].instrument = i}
  IN IF table.dense
     THEN IF offset \in ShardIds THEN by[offset + 1].shard ELSE NoShard
     ELSE IF found # {} THEN by[CHOOSE k \in found : TRUE].shard ELSE NoShard

InstrumentFor(s) ==
  IF s \in ShardIds THEN table.by_instrument[table.by_shard[s]].instrument
  ELSE NoInstrument

-----------------------------------------------------------------------------
Init ==
  /\ routes \in {array \in RouteArrays : TryNewAccepts(array)}
  /\ table = NewTable(routes)
  /\ commands = [s \in ShardIds |-> <<>>]
  /\ pending = [s \in ShardIds |-> NoCommand]
  /\ expected = [s \in ShardIds |-> 1]
  /\ events = [s \in ShardIds |-> <<>>]
  /\ accepted = [s \in ShardIds |-> <<>>]
  /\ settled = [s \in ShardIds |-> <<>>]
  /\ delivered = [s \in ShardIds |-> <<>>]

\* MultiInstrumentRouter::route_command; an unknown instrument and a full queue
\* refuse and change nothing.
RouteCommand(c) ==
  LET s == ShardFor(c.instrument)
  IN /\ s \in ShardIds
     /\ Len(commands[s]) < CommandCap
     /\ Len(accepted[s]) < MaxSend
     /\ commands' = [commands EXCEPT ![s] = Append(@, c)]
     /\ accepted' = [accepted EXCEPT ![s] = Append(@, c)]
     /\ UNCHANGED <<routes, table, events, delivered, shardVars>>

\* MultiInstrumentRouter::try_event
TryEvent(s) ==
  /\ events[s] # <<>>
  /\ delivered' = [delivered EXCEPT ![s] = Append(@, Head(events[s]))]
  /\ events' = [events EXCEPT ![s] = Tail(@)]
  /\ UNCHANGED <<routes, table, commands, accepted, shardVars>>

-----------------------------------------------------------------------------
(* MatchingShard::try_process_one, in the thread of shard s.               *)

\* Faulty variant: a retained command waits for the next one to arrive.
HasFreshCommand(s) == commands[s] # <<>>

HasCommand(s) == pending[s] # NoCommand \/ commands[s] # <<>>

\* Faulty variant: the queue is asked before the retained command.
NextCommandFromQueue(s) ==
  IF commands[s] # <<>> THEN Head(commands[s]) ELSE pending[s]

\* The retained command comes before the queue.
NextCommand(s) == IF pending[s] # NoCommand THEN pending[s] ELSE Head(commands[s])

\* The command is taken, and kept if `kept' says so.
Take(s, kept) ==
  /\ HasCommand(s)
  /\ commands' = IF pending[s] # NoCommand THEN commands
                 ELSE [commands EXCEPT ![s] = Tail(@)]
  /\ pending' = [pending EXCEPT ![s] = kept]
  /\ UNCHANGED <<routes, table, accepted, delivered>>

Settle(s, how) ==
  settled' = [settled EXCEPT ![s] = Append(@, [command |-> NextCommand(s), how |-> how])]

\* The checks in the order of the code: the instrument, the sequence number, its
\* successor (Gateway::check_sequence).
Sound(s) ==
  /\ NextCommand(s).instrument = InstrumentFor(s)
  /\ NextCommand(s).sequence = expected[s]
  /\ expected[s] < MaxSeq

RefuseCommand(s) ==
  /\ Take(s, NoCommand)
  /\ ~Sound(s)
  /\ Settle(s, "refused")
  /\ UNCHANGED <<events, expected>>

HoldCommand(s) ==
  /\ Take(s, NextCommand(s))
  /\ Sound(s)
  /\ Len(events[s]) = EventCap
  /\ UNCHANGED <<events, expected, settled>>

ProcessCommand(s) ==
  /\ Take(s, NoCommand)
  /\ Sound(s)
  /\ Len(events[s]) < EventCap
  /\ expected' = [expected EXCEPT ![s] = @ + 1]
  /\ events' = [events EXCEPT ![s] = Append(@, expected[s])]
  /\ Settle(s, "processed")

\* The gateway breaks while it applies the command: consumed, nothing published
FaultCommand(s) ==
  /\ Faults
  /\ Take(s, NoCommand)
  /\ Sound(s)
  /\ Len(events[s]) < EventCap
  /\ expected' = [expected EXCEPT ![s] = @ + 1]
  /\ Settle(s, "fault")
  /\ UNCHANGED events

TryProcessOne(s) ==
  RefuseCommand(s) \/ HoldCommand(s) \/ ProcessCommand(s) \/ FaultCommand(s)

Next ==
  \/ \E c \in Commands : RouteCommand(c)
  \/ \E s \in ShardIds : TryEvent(s) \/ TryProcessOne(s)

Spec == Init /\ [][Next]_vars

\* Every shard has a thread of its own that keeps polling; the host takes the events
\* of the shards in Drained and may ignore the others for ever.
Fairness ==
  /\ \A s \in ShardIds : WF_vars(TryProcessOne(s))
  /\ \A s \in Drained : WF_vars(TryEvent(s))

LiveSpec == Spec /\ Fairness

-----------------------------------------------------------------------------
(* Properties.                                                             *)

SettledCommands(s) == [k \in 1 .. Len(settled[s]) |-> settled[s][k].command]
Held(s) == IF pending[s] = NoCommand THEN <<>> ELSE <<pending[s]>>

\* What shard s published, and where it answered by processing a command.
Published(s) == delivered[s] \o events[s]
ProcessedAt(s) == {k \in 1 .. Len(settled[s]) : settled[s][k].how = "processed"}
SequenceAt(s, k) == settled[s][k].command.sequence

(* Whatever route_command accepted has been answered, is retained or is      *)
(* queued, once and in the order it was accepted, however often the shard    *)
(* was held up by its event queue; and the host gets one batch per processed *)
(* command, in order and nothing else (both run through the same numbers,    *)
(* upwards): neither a retry nor a full event queue loses or repeats one.    *)
NothingVanishes ==
  \A s \in ShardIds :
    /\ accepted[s] = SettledCommands(s) \o Held(s) \o commands[s]
    /\ \A j, k \in ProcessedAt(s) : j < k => SequenceAt(s, j) < SequenceAt(s, k)
    /\ \A j, k \in 1 .. Len(Published(s)) : j < k => Published(s)[j] < Published(s)[k]
    /\ {Published(s)[k] : k \in 1 .. Len(Published(s))} =
         {SequenceAt(s, k) : k \in ProcessedAt(s)}

(* The table built by try_new answers as the array it was given, in both     *)
(* directions and by either lookup, and knows nothing else; so no command    *)
(* reaches a shard of another instrument.                                    *)
TableIsTheArray ==
  /\ \A k \in 1 .. SHARDS : /\ ShardFor(routes[k].instrument) = routes[k].shard
                            /\ InstrumentFor(routes[k].shard) = routes[k].instrument
  /\ \A i \in Instruments :
       ShardFor(i) # NoShard => \E k \in 1 .. SHARDS : routes[k].instrument = i

(* Shards do not wait for one another: a shard whose events are taken        *)
(* answers every command it was given, even if the events of another shard   *)
(* are never taken and that shard is stuck.                                  *)
DrainedShardsAnswer ==
  \A s \in Drained : \A n \in 1 .. MaxSend :
    Len(accepted[s]) >= n ~> Len(settled[s]) >= n
=============================================================================
