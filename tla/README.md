# Verification of deterministic-exchange-rs

TLA+ models of the exchange core, checked with TLC on small instances, and
theorems proved with TLAPS for every value of the constants. Module and
definition names follow the Rust names; `PROJECT.json` maps every definition to
the lines it models, and names for every property a plausible bug (`mutants`)
that TLC detects with it.

## The system

One instrument is traded by one single-threaded gateway: a command carries a
sequence number, is checked by risk, applied to the book and settled with risk.
Around that core there are two execution paths.

*Routed path.* A routing thread hands commands to one thread per shard through
an SPSC queue; the shard thread runs the gateway and publishes one batch of
events per command into a second SPSC queue.

*Journaled path.* An engine puts the command into a journal queue before it
applies it; a persistence worker on another thread drains the queue, writes and
flushes. `RoutedEngine` holds one such engine per instrument and
`SessionEngine` puts a session state machine in front of them. Snapshots,
journal tail and configuration are saved as a recovery bundle.

### Inventory

| Component | State | Operations | Interacts with | What makes it hard | What makes it correct |
|---|---|---|---|---|---|
| `hft-spsc` | slots, two published cursors, private and cached cursors per endpoint | split, try_push, try_pop, has_capacity, into_inner, Drop | two threads, through the cursors only | stale loads, wrap-around, ownership of slots | a bounded FIFO without data races or leaks |
| `hft-journal` | queue, watermarks, closed/poisoned/complete flags, worker buffer, sink | enqueue, close, read, drain_batch, shutdown, into_sink, status snapshot, recover | engine thread, worker thread, status readers, file | three threads, sink failures, shutdown racing an enqueue | durable ≤ written ≤ accepted; complete means everything is durable |
| `hft-engine` (`lib`, `builder`) | gateway, journal writer, event producer, failed flag | process_command (apply_journaled), health, stop_admission, snapshot, restore | journal, event queue, recovery | journal-before-apply with a worker that may fail in between; crash | the journal is the history; recovery gives a prefix of it that covers all that was durable |
| `hft-book` | per side, levels with a FIFO of orders, order index | submit, cancel, replace, from_state | gateway | all-or-nothing matching with bounded levels, orders and reports | price-time priority; a refused order leaves no trace |
| `hft-risk` | accounts (position, reserved, open orders), reservations, kill switches | check_and_reserve, record_fill, settle, adjust_reservation, cancel_reservation, kill switches, from_state | gateway | accounts for what the book does, without seeing it | sums agree with the book at every step |
| `hft-gateway` | book, risk, next sequence, watermark of order ids | process_command (new order, cancel, replace), kill switches, export_state, from_state | risk, book, event engine | refusal half way through a command | book and risk agree; every reachable state can be restored |
| `hft-events` | gateway, queue of batches | process_command (preflight, event building), apply | consumer of the queue | bounded queue, diff of the top of book | a consumer can rebuild the book from the batches |
| `hft-router` | route table, per shard two queues and one pending command | try_new, route_command, try_process_one, try_event | routing thread, shard threads | retry after a full event queue | no command lost, repeated or reordered; shards independent |
| `hft-session` | state, next sequence, deadline, timeouts | handle, tick | virtual clock of the caller | timers, overflow refusals | a timer is armed exactly where one is awaited |
| `hft-engine` (`session`, `routed`) | session, engines | handle_session, tick, process_command, stop_admission | session, engines, workers | a staged copy committed after another component succeeded; failure of any shard | session and shards count the same commands; failure is shared |
| `hft-engine` (`operations`) | a directory with three members and a marker | publish_new, read, backup_new, restore | file system | crash between any two calls | a marker means a whole bundle; a published bundle survives |
| `hft-recovery` | snapshot bytes, snapshot file | encode_snapshot, decode_snapshot, persist_snapshot_new, recover_snapshot_and_tail | file system, gateway, journal | racing writers, crash | the destination is whole and never replaced |
| `hft-session::retransmit` | window of unconfirmed frames | retain, confirm_through, since | the peer's link to a session | a bounded window between a sender and a session that reconnects | what the session has not accepted can still be sent |
| `hft-wire` | none | encoding of three frames, parse_message, to_command | journal, router, link, recovery | fields at fixed offsets, cut frames | parsing undoes encoding and refuses anything else |
| `hft-engine` (`config`) | instrument, capacities, account limits | encode, decode, validate, check_compatible | bundle, builder | text that is nearly right | a stored configuration is the engine's or is refused |
| `hft-model` | a second, naive gateway; a command generator | process_command, assert_consistent, next_command | property tests of the gateway | it must be right where the engine is | it agrees with the engine after every command |
| `hft-soak` (`routed`, `events`, `session_faults`) | table of live orders built from events, command generator, session under faults | validate each batch, drain, replay | event queue, session, retransmission | it sees the batches only, late | every batch validates against the command it answers |
| `hft-io` | receive ring; UDP sockets | push, receive, recycle | wire, gateway | a full ring | no unread frame is overwritten |

Not modelled, and listed as such in `PROJECT.json`: the vendor interface
(`hft-ffi`), the replay digest (`hft-replay`), the benchmarks and the command
line.

## Modules

| Module | Models | How state and actions correspond |
|---|---|---|
| `BoundedFifo` | what the ring promises | a sequence of values with push, pop, discard, destroy |
| `Spsc` | `hft-spsc` | `tail`, `head` are the published cursors modulo a word, `ptail`/`chead`, … the private and cached ones; each atomic access is one action, an Acquire load may return any value not older than the last one read, and happens-before is carried explicitly so that a data race is a state predicate |
| `Journal` | `hft-journal` | the worker's loop one step per queue operation, status store and sink call; the sink keeps what was synchronised and any part of the rest |
| `JournaledEngine` | `hft-engine`, `builder`, replay in `hft-recovery` | extends `Journal` with the engine thread, the event consumer, a status reader, crash and recovery |
| `Book`, `Risk` | what `hft-book` and `hft-risk` promise | operators on a book and a risk value: conditions and results of each method, on maps and FIFOs |
| `ProbeTable` | the open-addressed indexes of both | linear probing, insertion, lookup, removal that shifts later entries back |
| `BookStore` | how `hft-book` keeps its book | slots with prev/next links, free lists, the sorted level index and the order index; one action per method, beside the abstract book |
| `RiskStore` | how `hft-risk` keeps accounts and reservations | slots, free list, two probe tables; one action per method, beside the abstract risk value |
| `Storage` | both stores | one or the other at work: they share no state |
| `Gateway` | `hft-gateway` | one action per command; composes `Book` and `Risk` |
| `EventEngine` | `hft-events` | extends `Gateway` with preflight, event building and the bounded queue |
| `ReferenceModel` | `hft-model` | ModelEngine as operators on a model value, written as the naive code is: sorted lists, its own accounts |
| `LiveOrders` | event checks of `hft-soak` | the table of live orders and the checks of one batch |
| `Oracles` | `hft-gateway`'s property test and the soak harness | one action drives engine and model with the same command; another takes a batch and checks it |
| `Router` | `hft-router` | one action per call of the routing thread, a shard thread or a host; `routes` is the array given to `try_new` |
| `Session` | `hft-session` | `Accepts`/`After` for handle, `TickAccepts`/`Ticked` for tick |
| `SessionEngine` | `session.rs`, `routed.rs` | process_command in four steps so that workers may fail in between; a shard is the interface of `JournaledEngine` |
| `Wire` | `hft-wire` | a frame is a length and a function from offsets to fields; parsing with its refusals in their order |
| `Retransmit` | `retransmit.rs` | operators on the buffer |
| `Link` | `hft-io`'s ring, a session, and a peer that keeps its frames in a `RetransmitBuffer` | composes `Retransmit`, `Wire` and `Session`. The composition is this project's: the repository has the parts, and its tests use two of them at a time. Peer and network are external; the peer may send and take confirmations at any time and replays its window to a session in Recovering, as `tests/recovery.rs` does; the network loses, repeats, reorders and cuts. Nothing obliges either to act |
| `EngineConfig` | `config.rs` | the text as lines of fields |
| `RecordCodec` | a stored journal record, `read_file`'s scan | fields of the record with their checks |
| `SnapshotCodec` | encode_snapshot, decode_snapshot | a snapshot is a sequence of tokens, one per fixed-width field |
| `Recovery` | `RecoveryBundle`, `EngineBuilder`, recover_snapshot_and_tail | a live gateway, storing, a medium (external) that alters one thing, opening, replay record by record through the same `Apply` |
| `FileSystem` | the operating system (external) | what a crash keeps |
| `Bundle` | `operations.rs` publish_new, read | the straight line of file system calls as data (`PublishNew`), with or without the parent's synchronisation; one action per kind of call |
| `SnapshotFile` | persist_snapshot_new | one action per file system call, several writers |
| `Publication` | both ways of publishing | one or the other at work on one file system |

The `MC*` modules, where values need definitions, and the configurations give the
constants. `JournalProofs`,
`JournaledEngineProofs`, `SessionEngineProofs`, `SpscProofs`, `RouterProofs`,
`PublicationProofs`, `LinkProofs` and `GatewayProofs` hold theorems.

Operators whose comment starts with "Faulty variant" are the mutants: they are
used by no specification.

## Runs

| Run | Question | Bounds, and why they are enough |
|---|---|---|
| `spsc` | Is the ring a bounded FIFO with no race or leak, and is a published value delivered although loads may be stale? | 2 slots, word of 4 so that cursors wrap within 5 pushes and every slot is reused at least twice; two values tell order apart |
| `engine` | Do journal, gateway and recovery agree at every interleaving with failing sinks and a crash, and does a closed journal end? | two commands, 3 sequence numbers, a ring of 1 and an event queue of 1 so that both fill, batches of up to 2, both flush policies, one crash, after which the engine runs again |
| `gateway` | Do book and risk stay valid and agree, and are refusals clean? | every sequence of 4 commands of two symmetric accounts with kill switches: 2 levels under 4 prices so that levels run out, 2 orders per level, 2 reports and an order that may meet three makers, so that a sweep is refused for want of them, room in risk for all four (`storage` lets reservations run out), prices on and off the limits, all times in force, one input of every invalid kind |
| `gateway_restore` | Can every reachable state be restored? No: see Findings | as `gateway`, without kill switches, with a smaller quantity limit |
| `storage` | Do the arrays, links and indexes hold exactly the book and the risk state of `Book` and `Risk`? | 3 order ids whose probes all start at the last slot or wrap to the first, so that clusters form, wrap and are shifted back; 2 levels of 3 orders; 5 reservation ids in 3 slots with two patterns of collisions; a restore from the exported state at any point |
| `oracles` | Does the naive model agree with the engine after every command, and can a consumer of the batches rebuild the book? | every sequence of 4 generated commands, two accounts of which one crosses itself, queue of 2 so that the engine is refused and the harness is late, 2 reports |
| `session` | Timers, failure sharing, counting | two shards, one instrument without a route, ticks to 6 and timeouts 1 and 2 so that both expiries and overflow happen, sequences to 3 |
| `session_zero` | Does zero disable a deadline? No: see Findings | as `session`, heartbeat timeout 0 |
| `router` | Is every accepted command answered once, in order, by the shard its array names, and does a drained shard answer although the other is stuck? | two shards, one never drained, queues of 2 and 1, three commands sent per shard, wrong sequences and gateway faults; a dense, a sparse and a reversed dense table with foreign instruments on every side, and two refused arrays |
| `link` | Are commands accepted exactly once and in order over a bad network, and is a full window always one that a confirmation or a replay moves? | one command of each type, a window of 2 so that it fills, a ring of 1 so that it overflows, frames cut within the header and to the length of another frame type, two reconnects, both timeouts |
| `recovery` | Is every restore that succeeds a state of the live engine, and is every sound archive restored? | 3 commands that rest on several levels, trade, move and leave; a snapshot at any point, any stretch of the journal as its tail; any one token, field, record or line altered, removed, repeated or cut; read as a bundle or as parts |
| `publication` | Is what readers can find whole, does a bundle published at a destination given with its parent survive, and do errors tell the truth? | three racing publishers, one of which gives the destination by its bare name, or two racing writers; two crashes, any call may fail, retries |

`MaxSeq`, `MaxId`, `MaxTick`, `MaxSession`, `MaxSequence`, `MaxPush`, `MaxSend`,
`MaxReconnects` and `MaxCrash` bound the models. The first five stand for the
largest value of the machine integer, where the code refuses, so that the
boundary itself is checked; the others only bound the exploration. Deadlock
checking is off where the bound, or a process that really ends (a journal, a
publication, a restore, a dropped ring), stops the system.

`storage` checks an implementation against its specification state by state
rather than with `INSTANCE ... WITH`: every action runs the method on the arrays
and the operation of `Book` or `Risk` on the abstract value, and `StoreIsBook`
and `ReservationsFound` say that reading the arrays back gives that value.
`StoreIsBook` also says that the store accepts what the book accepts.
`recovery` and `link` compose modules that other runs take as atomic:
`JournaledEngine` restores a snapshot and a tail in one step, `Recovery` shows
what that step is made of; `SessionEngine` is given commands in any order,
`Link` shows how they come to it.

### Fairness

* `spsc`: weak fairness of each endpoint's own steps, that is, both threads
  keep running; strong fairness of the load that returns the newest cursor, since
  C11 requires stores to become visible in finite time.
* `engine`: weak fairness of engine and worker steps, and strong fairness of
  the worker's shutdown, since the caller ends its `drain_batch` polling with
  `shutdown` once admission is closed. Nothing is assumed of the sink: it may fail.
* `router`: weak fairness of every shard thread and of the host that takes
  the events of the drained shard, and none for the other host.

The other specifications have none, and their properties are safety properties.

## Proofs

Every theorem holds for all values of the constants that the named `ASSUME`s of
the modules allow: capacities and limits are natural numbers, and positive where
the code refuses zero; the capacity of a ring divides the range of its cursors;
`RouteTable::try_new` has accepted the routes of `SessionEngine`; the payloads of
the link have the fields of their type, its timeouts are ticks, and session and
window count to the same largest number; the commands
given to the gateway have the fields of theirs, with any account, instrument and
price, valid or not; the prices tried and the accounts are finitely many, the
limits of an account are numbers.
None of the properties is inductive
alone; each proof names the invariant it needs, has one lemma per action and
combines them in the theorem. TLC checked each invariant on a small instance
before it was proved.

| Module | Theorems (property of a run) |
|---|---|
| `JournaledEngineProofs` | `TypeCorrect`, `WatermarksHold` (`Watermarks`), `CountersStayAligned`, `EventsAlwaysFit` (`EventsFit`), `CompletionIsTotal` (`CompleteMeansAll`), `JournalSpellsHistory` (`JournalIsHistory`), `StatusAlwaysCoherent` (`StatusCoherent`), `SnapshotAlwaysCovered` (`SnapshotCovered`), `DurableAlwaysSurvives` (`DurableSurvives`), `RecoveryIsPrefix` (`RecoveryRestoresPrefix`) |
| `SessionEngineProofs` | `SessionTypeCorrect`, `TimersAlwaysMatch` (`TimersMatchState`), `FailureAlwaysShared` (`FailureIsShared`), `LateAtMostOnce` (`AtMostOneLate`), `SequencesAdvanceTogether` (`SequencesMoveTogether`) |
| `SpscProofs` | `RingHasNoDataRace` (`NoDataRace`), `SlotsAreDisciplined` (`SlotDiscipline`), `RingImplementsFifo` (`ImplementsBoundedFifo`) |
| `RouterProofs` | `RouterLosesNothing` (`NothingVanishes`), `RouteTableIsTheArray` (`TableIsTheArray`) |
| `PublicationProofs` | `CommittedBundleIsWhole` (`CommittedIsWhole`), `PublishedBundleSurvives` (`PublishedSurvives`), `DestinationAlwaysWhole` (`DestinationIsWhole`), `ReportsAreTrue` (`ReportIsTrue`) |
| `GatewayProofs` | `StateStaysValid` (`StateValidates`), `RiskAlwaysFollows` (`NoStateError`), `RefusalsLeaveNoTrace` (`RefusalLeavesNoTrace`), `PriorityStaysEarned` (`PriorityIsEarned`), `TradesByPriority` (`PriceTimePriority`) |
| `LinkProofs` | `LinkDeliversExactlyOnce` (`ExactlyOnceInOrder`), `WindowAlwaysCovers` (`WindowCovers`), `LinkNeverStandsOff` (`NoStandoff`), `RoundTrip`, `CutIsRefused` |

*Journal and engine.* The watermarks hold because the records in the ring, in the
worker's batch and in the sink are contiguous and end at the accepted count.
Completion is total because shutdown starts only after the writer has closed,
*and then* drains to an empty queue before it flushes and stores `complete`; the
invariant `IInv` states where the worker is for each of its steps and what it
knows there. `JournalProofs` has the part about the journal alone, which
`JournaledEngineProofs` uses for every step of the worker. `HistoryInv` adds
what the records say: position by position the journal is the history, the
snapshot and everything promised durable are prefixes of the synced part, and a
status reader that is half way through its loads has seen watermarks that the
present ones have not fallen below. A crash keeps the synced part, so all three
prefixes survive it, and recovery rebuilds the history from what they cover.
`CountersAligned` is proved and in no run: it is part of the invariant that the
other theorems rest on, and TLC agrees with it.

*Session over engines.* The strengthening is `InFlight` (while a command is under
way the staged copy is the session plus one command, no engine has failed except,
once refused, the command's own, and nothing was applied late) and
`LateIsPoisoned` (a late command leaves a poisoned journal behind, which the next
health scan finds). `FailureIsShared` needs the first, because the session only
asks the command's own shard after a refusal; `AtMostOneLate` needs both.

*Ring.* The code's cursors wrap, so they say nothing by themselves about how far
apart the endpoints are. `SpscInv` relates each of them to the number of pushes or
pops done so far (`CursorInv`), bounds every cached or stale view by what it was
and what it is (`ViewInv`), says what each endpoint knows between two of its
accesses (`EndpointInv`) and which slots hold which values (`RingInv`). Two
counts less than a word apart are equal when they are equal modulo the word, and
two counts less than N apart are in different slots; those two lemmas on `%`
carry the argument. The refinement maps the values from the popped count to the
pushed count to the abstract queue, and each step to a push, pop, discard,
destroy or stutter.

*Router.* `FlowInv` splits what a shard accepted into answered, pending and queued;
`BatchInv` says that the batches published, taken or not, and the commands
processed carry the same ascending numbers up to the expected one. For the table,
`try_new` chooses the dense form when the instruments, sorted, are consecutive;
`RouteTableIsTheArray` proves that indexing then finds the entry a scan would. The
sorted order of a finite set of numbers and the least-number principle are proved
there from the well-foundedness of the naturals.

*Publication.* `BundleInv` gives for each position in `publish_new` what the calls
before it have made durable (`Progress`): the marker is created only when every
member would survive a crash (`CommitInv`), whoever is past mkdir owns the
directory (`OwnerInv`). `FileInv` does the same for the calls of
persist_snapshot_new.

*Gateway.* All five properties follow from one invariant, `GatewayInv`: the book is
one `validate_state` accepts (restated by side, price and place as `BookOK`), so is
the risk state (`RiskOK`), every resting order has its reservation and no
reservation is without an order (`Agree`), sequences and ids are below their
watermarks, settled positions sum to zero, and the last result is no state error.
What makes a new order work is that `build_plan` and the fast path
`try_single_fill` both return a plan (`IsPlan`): distinct makers, best first, each
for no more than it has and all but the last used up, so that the fast path is an
optimisation and not another rule (`FillsIsPlan`). Book and risk then go through the
plan side by side: `Trading` holds after each fill, says that maker and taker both
still have reservations for what remains of them, and so `record_fill` cannot fail
half way (`RiskAlwaysFollows`). What remains rests, where admission has made sure
there is room and nothing to cross, or is settled away. A refusal by the book comes
after risk has reserved or adjusted; settling the new reservation
(`ReserveSettle`), and setting an adjusted one back (`SetReservationBack`), give the
old accounts and reservations exactly. For price-time priority, the fills are put in
one-to-one correspondence with the orders that lost something. The sums of
`validate_account_state` and the recursive functions of the model (what is left after
each maker, the book after each fill) need induction over numbers and finite sets,
which is derived from the well-foundedness of the naturals with sets in place of
predicates (`SetInduction`, `FiniteInduction`).

*Link.* `LinkInv` says that both ends count from one (`HistoryInv`), the window
holds every frame after the last it let go, and all it let go was accepted
(`WindowInv`), whatever is in the network or the ring is an issued frame or a cut
one and only accepted commands are confirmed (`FlightInv`), and a session that is
up, or resumes, expects the command after the last it accepted (`ResumeInv`).
`LinkNeverStandsOff` follows: confirming that position leaves in the window the
frames after it, of which the first is the one the session accepts. That
a cut or repeated frame does no harm rests on two theorems about `hft-wire`:
parsing gives back every field of every command, because no two fields of a type
share an offset and none lies in the header (`RoundTrip`), and a frame of any type
cut anywhere is refused (`CutIsRefused`).

### Only model-checked

* Liveness (`PublishedIsDelivered`, `ClosedEnds`, `DrainedShardsAnswer`): the proof
  system does not cover fairness or `ENABLED`.
* `Storage`: `ProbeTable` probes with recursive operators, which the proof system
  does not take.
* `Oracles`: the naive model and the checks of a batch are folds with operator
  parameters over sorted sequences, for which the provers have no theory. `Gateway`
  and `Router` show that recursive functions can be reasoned about with induction
  over sets; these definitions would have to be rewritten in that form.
* `Recovery`: the snapshot codec likewise, where every token has a position that
  depends on all before it.
* `WithinLimits`, the part of restoration that a replace may break (see Findings),
  is no invariant; that it is the only part follows from `StateStaysValid` for the
  state, and from `SoundArchiveRestores`, by TLC, for the archive.

## Findings

* `gateway_restore`: a replace is measured against fewer limits than a new
  order (`adjust_reservation`), so an accepted replace may leave an order that
  `validate_cross_component_state` refuses; a snapshot taken then cannot be
  restored. `SoundArchiveRestores` shows that this is the only such state.
* `session_zero`: the documentation of `SessionConfig` says zero disables a
  deadline; `arm` arms one that expires at once.

Observations that have no run of their own:

* `crates/hft-session/src/lib.rs:5` says commands are accepted exclusively in
  Active; `handle` also accepts them in Recovering (`Session.Accepts`).
* `publish_new` synchronises the parent of a destination only if its path is not empty
  (`operations.rs:51`), and for a bare name it is; it returns `Ok` all the same, and a
  crash may then take the bundle away. `docs/CONFIGURATION.md:60` and
  `docs/OPERATIONS.md:106` say without condition that the directories are synchronised
  on Unix. In `Bundle` such a publisher is one outside `Named`; `PublishedSurvives` is
  claimed, and proved, of those in `Named`, and TLC refutes it at once for the others.
* `hft-model`'s `adjust_reservation` adds an increase to the account's total
  before it checks the limits and leaves it there when it refuses.
  `Oracles.drifted` marks such a behaviour, after which `ModelAgrees` compares
  the two no more.
* The digest of a risk engine depends on the slots its reservations are in, so a
  restored engine with the same content may have another one.

## Not modelled

* That a command issued is delivered in the end. It would rest on a peer and a network
  that are not in this repository; what the repository's parts contribute, that
  neither side is ever stuck for want of the other, is `NoStandoff`. An active session
  cannot notice that the last frame was lost: heartbeats carry no sequence, so
  replay waits for a timeout.
* A crash of the process alone. `JournaledEngine.Crash` is one of the machine: what
  is left of the file afterwards is what is on the disk. Bytes that only the page
  cache holds would survive a process crash and be read back like durable ones.
* Widths: 128-bit sums of risk cannot overflow under 64-bit limits; sequence
  numbers, ids and ticks have a largest value instead of a width.
* Bytes within a field, digits within a number, and SHA-256, which is taken to be
  injective (`SnapshotDigest`, `MarkerOf`).
* `hft-ffi`: a handle that calls a table of C functions; what it must keep to is
  on the foreign side.
* `hft-io`'s UDP adapters: system calls around a buffer.
* `hft-replay`: hashes the result of running a gateway on a list of frames; it
  has no state of its own. The stable digests of book and risk belong to it.
* `hft-bench` and the scenarios of `hft-soak` other than those named above: fixed
  seeds and schedules over components that have modules here, whose runs include
  those schedules.
* `hft-cli`: argument parsing and calls of the bundle and the snapshot validator.
* In `SessionEngine` a shard's journal is reduced to what the session sees of it.

## Plan

1. Done: the modules, runs and theorems above. Every safety property of the ring,
   the journal, the engine, the gateway, the router, the session, the link and the
   publications is a theorem.
2. Left: `Oracles`, whose naive model could be related to `Gateway` by the lemmas
   of `GatewayProofs` once its folds are recursive functions; the snapshot codec of
   `Recovery`; `Storage`, once the probe table is stated without recursive operators.
