------------------------------ MODULE Recovery ------------------------------
(***************************************************************************)
(* Snapshot, journal tail and configuration are put together, stored,      *)
(* perhaps damaged, and restored: hft-engine's EngineBuilder and           *)
(* RecoveryBundle over hft-recovery's recover_snapshot_and_tail.  A        *)
(* gateway runs commands and journals them; an operator picks a snapshot   *)
(* and a stretch of the journal, rightly or not; the medium may alter what *)
(* was stored; the restored gateway then replays the tail record by record *)
(* through the same process_command that made it.                          *)
(***************************************************************************)
EXTENDS SnapshotCodec, EngineConfig, RecordCodec

VARIABLES
  phase,      \* live, stored, replaying, restored or refused
  past,       \* past[n]: the live gateway's state when it expected sequence n
  journal,    \* the records of the commands it applied
  snapshot,   \* the last snapshot taken, and the sequence it covers
  archive,    \* what was stored, and then what was read: configuration, snapshot, tail, marker
  intact,     \* what was read is what was stored
  bundled,    \* it was read as a bundle, with its marker
  replayed    \* records of the tail applied so far

recoveryVars ==
  <<gatewayVars, phase, past, journal, snapshot, archive, intact, bundled, replayed>>

State ==
  [book |-> book, risk |-> risk, expected |-> expected_sequence,
   received |-> maximum_received_order_id]

\* EngineBuilder::new
AccountDefinitions ==
  LET ids == Ascending(Accounts)
  IN  [i \in DOMAIN ids |-> SubSeq(EncodeAccount(NewRisk(FALSE, {}), ids[i]), 1, 7)]
Config ==
  [instrument |-> Instrument, capacities |-> Capacities \o <<Reports>>,
   accounts |-> AccountDefinitions]

\* RecoveryBundle::marker
MarkerOf(config, bytes, tail) == <<"HFTBUNDLE 1", config, bytes, tail>>

NoArchive == [config |-> EncodeConfig(Config), snapshot |-> <<>>,
              tail |-> [records |-> <<>>, partial |-> FALSE], marker |-> <<>>, cut |-> 0]

RecoveryInit ==
  /\ GatewayInit
  /\ ConfigReject(Config) = Pass
  /\ phase = "live"
  /\ past = <<State>>
  /\ journal = <<>>
  /\ snapshot = [bytes |-> EncodeSnapshot(State, 0), applied |-> 0]
  /\ archive = NoArchive /\ intact = TRUE /\ bundled = FALSE
  /\ replayed = 0

-----------------------------------------------------------------------------
(* The live engine.                                                        *)

Command(c) ==
  /\ phase = "live"
  /\ Apply(c)
  /\ past' = Append(past, State')
  /\ LET frame == EncodeFrame([f \in DOMAIN c \cup {"sequence"} |->
                                 IF f = "sequence" THEN expected_sequence ELSE c[f]])
     IN  journal' = Append(journal, NewRecord(expected_sequence, frame))
  /\ UNCHANGED <<phase, snapshot, archive, intact, bundled, replayed>>

TakeSnapshot ==
  /\ phase = "live"
  /\ snapshot' = [bytes |-> EncodeSnapshot(State, expected_sequence - 1),
                  applied |-> expected_sequence - 1]
  /\ snapshot' # snapshot
  /\ UNCHANGED <<gatewayVars, phase, past, journal, archive, intact, bundled, replayed>>

\* RecoveryBundle::checkpoint and publish_new, with the records first .. last as the tail
Store(first, last) ==
  /\ phase = "live"
  /\ LET tail == [records |-> SubSeq(journal, first, last), partial |-> FALSE]
     IN  archive' = [config |-> EncodeConfig(Config), snapshot |-> snapshot.bytes,
                     tail |-> tail,
                     marker |-> MarkerOf(EncodeConfig(Config), snapshot.bytes, tail),
                     cut |-> snapshot.applied]
  /\ phase' = "stored"
  /\ UNCHANGED <<gatewayVars, past, journal, snapshot, intact, bundled, replayed>>

-----------------------------------------------------------------------------
(* The medium: what is read back may differ from what was stored in one thing. *)

Altered(n) == {n + 1}
At(seq, i, values) == {[seq EXCEPT ![i] = v] : v \in values}
AlteredSnapshots(b) ==
  UNION {At(b, i, IF i = DigestAt THEN {<<>>} ELSE Altered(b[i])) : i \in DOMAIN b}
    \cup {Front(b), Append(b, 0)}
AlteredRecords(r) ==
  UNION {{[r EXCEPT ![f] = v] : v \in Altered(r[f])} : f \in {"version", "sequence", "len"}}
    \cup {[r EXCEPT !.payload.bytes[4] = v] : v \in Altered(r.payload.bytes[4])}
AlteredTails(t) ==
  {[t EXCEPT !.partial = TRUE]}
    \cup {[t EXCEPT !.records = RemoveAt(@, i)] : i \in DOMAIN t.records}
    \cup {[t EXCEPT !.records = Append(@, @[i])] : i \in DOMAIN t.records}
    \cup UNION {{[t EXCEPT !.records[i] = r] : r \in AlteredRecords(t.records[i])} :
                i \in DOMAIN t.records}
AlteredTexts(c) ==
  {[c EXCEPT !.exact = FALSE], [c EXCEPT !.lines = Front(@)]}
    \cup UNION {UNION {{[c EXCEPT !.lines[i][j] = v] : v \in Altered(c.lines[i][j])} :
                       j \in DOMAIN c.lines[i]} : i \in DOMAIN c.lines}
Damages(a) ==
  {[a EXCEPT !.snapshot = b] : b \in AlteredSnapshots(a.snapshot)}
    \cup {[a EXCEPT !.tail = t] : t \in AlteredTails(a.tail)}
    \cup {[a EXCEPT !.config = c] : c \in AlteredTexts(a.config)}
    \cup {[a EXCEPT !.marker = <<>>]}

\* A stretch of the journal that does not continue the snapshot is a fault of its own.
Continues(a) ==
  \A i \in DOMAIN a.tail.records : a.tail.records[i].sequence = a.cut + i
ReadBack(a) == {a} \cup (IF Continues(a) THEN Damages(a) ELSE {})

-----------------------------------------------------------------------------
(* restore_configured, after RecoveryBundle::read or on the parts alone.    *)

\* RecoveryBundle::read
ReadReject(a) ==
  IF a.marker = <<>> THEN "Incomplete"
  ELSE IF DecodeConfigReject(a.config) # Pass THEN DecodeConfigReject(a.config)
  ELSE IF a.marker # MarkerOf(EncodeConfig(ConfigOf(a.config)), a.snapshot, a.tail)
  THEN "IntegrityMismatch"
  ELSE Pass

\* restore_configured up to the replay of the tail
RestoreReject(a) ==
  IF DecodeConfigReject(a.config) # Pass THEN DecodeConfigReject(a.config)
  ELSE LET stored == ConfigOf(a.config)
       IN  IF CompatibleReject(stored, Config) # Pass THEN CompatibleReject(stored, Config)
           ELSE IF DecodeReject(a.snapshot, stored.accounts) # Pass
           THEN DecodeReject(a.snapshot, stored.accounts)
           ELSE IF Payload(a.snapshot)[1] # stored.instrument THEN "InstrumentMismatch"
           ELSE IF a.tail.partial THEN "TruncatedJournal"
           ELSE Pass

\* What is refused is dropped.
Drop ==
  /\ phase' = "refused"
  /\ UNCHANGED <<gatewayVars, past, journal, snapshot, archive, replayed>>

Open(a, asBundle) ==
  /\ phase = "stored"
  /\ bundled' = asBundle /\ intact' = (a = archive)
  /\ IF (asBundle /\ ReadReject(a) # Pass) \/ RestoreReject(a) # Pass THEN Drop
     ELSE LET s == DecodedState(DecodeRows(Payload(a.snapshot)))
          IN  /\ book' = s.book /\ risk' = s.risk
              /\ expected_sequence' = s.expected
              /\ maximum_received_order_id' = s.received
              /\ result' = NoResult
              /\ phase' = "replaying" /\ archive' = a /\ replayed' = 0
              /\ UNCHANGED <<past, journal, snapshot>>

NextRecord == archive.tail.records[replayed + 1]

\* The checks recover_snapshot_and_tail makes of a record before it is applied
RecordRefused(r) ==
  \/ RecordReject(r) # Pass
  \/ r.sequence # archive.snapshot[8] + 1 + replayed
  \/ ParseError(r.payload) # "none"
  \/ FrameSequence(r.payload) # r.sequence

\* A business refusal consumes its sequence as it did when it was live.
Replay ==
  /\ phase = "replaying" /\ replayed < Len(archive.tail.records)
  /\ ~RecordRefused(NextRecord)
  /\ Apply(ToCommand(NextRecord.payload))
  /\ replayed' = replayed + 1
  /\ phase' = IF result'.kind = "RiskState" THEN "refused" ELSE phase
  /\ UNCHANGED <<past, journal, snapshot, archive, intact, bundled>>

ReplayRefused ==
  /\ phase = "replaying" /\ replayed < Len(archive.tail.records)
  /\ RecordRefused(NextRecord)
  /\ Drop /\ UNCHANGED <<intact, bundled>>

Restored ==
  /\ phase = "replaying" /\ replayed = Len(archive.tail.records)
  /\ phase' = "restored"
  /\ UNCHANGED <<gatewayVars, past, journal, snapshot, archive, intact, bundled, replayed>>

RecoveryNext ==
  \/ \E c \in Offered : Command(c)
  \/ TakeSnapshot
  \/ \E first \in 1 .. Len(journal) + 1, last \in 0 .. Len(journal) : Store(first, last)
  \/ phase = "stored" /\ \E a \in ReadBack(archive), asBundle \in BOOLEAN : Open(a, asBundle)
  \/ Replay \/ ReplayRefused \/ Restored

RecoverySpec == RecoveryInit /\ [][RecoveryNext]_recoveryVars

-----------------------------------------------------------------------------
(* Whatever was stored and whatever became of it, a restore that succeeds    *)
(* ends in a state the live gateway was in: exactly the one after the        *)
(* snapshot and the records of the tail, under the same configuration, and   *)
(* the journal scan agrees where that is.  What was read as a bundle is what *)
(* was stored.                                                               *)
RestoredIsHistory ==
  phase = "restored" =>
    /\ expected_sequence \in DOMAIN past /\ State = past[expected_sequence]
    /\ ConfigOf(archive.config) = Config
    /\ Scan(archive.tail, archive.cut + 1) = [next |-> expected_sequence, error |-> Pass]
    /\ bundled => intact

(* An archive that is intact, with a tail that starts right after its        *)
(* snapshot, is never refused: decoding undoes encoding, what validation     *)
(* demands holds of every state but for orders outside their limits (see     *)
(* SnapshotRestores), and no record of the tail is refused.                  *)
SoundArchiveRestores ==
  phase = "refused" /\ intact =>
    \/ ~WithinLimits(past[archive.cut + 1].book)
    \/ ~Continues(archive)
=============================================================================
