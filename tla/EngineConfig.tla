---------------------------- MODULE EngineConfig ----------------------------
(***************************************************************************)
(* crates/hft-engine, config.rs: the sidecar text that fixes what a replay *)
(* means.  A configuration has an instrument, five capacities and the      *)
(* account definitions <<id, six limits>>.  A text is its lines of fields; *)
(* `exact' is false when the same fields are written in another way (white *)
(* space, leading zeros, a missing last newline).                          *)
(***************************************************************************)
EXTENDS Integers, Sequences, SequencesExt

MaxReports == 65534
Versions == <<2, 1, 1>>     \* wire, journal and snapshot format

ConfigReject(c) ==
  LET a == c.accounts
  IN  IF (\E i \in DOMAIN c.capacities : c.capacities[i] = 0) \/ c.capacities[5] > MaxReports
      THEN "InvalidCapacity"
      ELSE IF \/ Len(a) > c.capacities[1]
              \/ \E i \in DOMAIN a : i < Len(a) /\ a[i][1] >= a[i + 1][1]
              \/ \E i \in DOMAIN a : a[i][2] = 0 \/ a[i][5] = 0 \/ a[i][6] > a[i][7]
           THEN "InvalidAccounts"
      ELSE "pass"

EncodeConfig(c) ==
  [lines |-> <<Versions, <<c.instrument>> \o c.capacities>> \o c.accounts, exact |-> TRUE]

ConfigOf(text) ==
  [instrument |-> text.lines[2][1], capacities |-> SubSeq(text.lines[2], 2, 6),
   accounts |-> SubSeq(text.lines, 3, Len(text.lines))]

\* EngineConfig::decode.  `field' refuses a line that ends too soon.
DecodeConfigReject(text) ==
  IF text.lines = <<>> THEN "Encoding"
  ELSE IF text.lines[1] # Versions THEN "UnsupportedVersion"
  ELSE IF Len(text.lines) < 2 \/ Len(text.lines[2]) # 6 THEN "Encoding"
  ELSE IF \E i \in 3 .. Len(text.lines) : Len(text.lines[i]) # 7 THEN "Encoding"
  ELSE IF ConfigReject(ConfigOf(text)) # "pass" THEN ConfigReject(ConfigOf(text))
  ELSE IF EncodeConfig(ConfigOf(text)) # text THEN "NonCanonical"
  ELSE "pass"

CompatibleReject(c, candidate) ==
  IF ConfigReject(c) # "pass" THEN ConfigReject(c)
  ELSE IF ConfigReject(candidate) # "pass" THEN ConfigReject(candidate)
  ELSE IF c # candidate THEN "Mismatch"
  ELSE "pass"
=============================================================================
