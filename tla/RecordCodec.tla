---------------------------- MODULE RecordCodec ----------------------------
(***************************************************************************)
(* crates/hft-journal: a record on disk, a frame of module Wire with its   *)
(* journal sequence.  A record has the fields of the 64 bytes; CRC32C is   *)
(* taken to tell an altered field from the one written, so the checksum of *)
(* a record is its other fields.  A journal is its whole records and       *)
(* whether a part of another follows them.                                 *)
(***************************************************************************)
EXTENDS Wire, SequencesExt

RecordMagic == 19026     \* 0x4a52
RecordVersion == 1
MaxPayload == 46

\* record_checksum of bytes_without_checksum
RecordChecksum(r) == <<r.magic, r.version, r.flags, r.sequence, r.len, r.payload>>

NewRecord(sequence, frame) ==
  LET r == [magic |-> RecordMagic, version |-> RecordVersion, flags |-> 0,
            sequence |-> sequence, len |-> frame.len, payload |-> frame, checksum |-> <<>>]
  IN  [r EXCEPT !.checksum = RecordChecksum(r)]

\* JournalRecord::decode and verify
RecordReject(r) ==
  IF r.magic # RecordMagic THEN "BadMagic"
  ELSE IF r.version # RecordVersion THEN "UnsupportedVersion"
  ELSE IF r.flags # 0 THEN "UnsupportedFlags"
  ELSE IF r.len > MaxPayload THEN "PayloadLength"
  ELSE IF r.checksum # RecordChecksum(r) THEN "ChecksumMismatch"
  ELSE "pass"

\* recover: the sequence after the last record, or the first error
Scan(journal, first) ==
  LET step(acc, r) ==
        IF acc.error # "pass" THEN acc
        ELSE IF RecordReject(r) # "pass" THEN [acc EXCEPT !.error = RecordReject(r)]
        ELSE IF r.sequence # acc.next THEN [acc EXCEPT !.error = "Sequence"]
        ELSE [acc EXCEPT !.next = @ + 1]
      all == FoldLeft(step, [next |-> first, error |-> "pass"], journal.records)
  IN  IF all.error = "pass" /\ journal.partial THEN [all EXCEPT !.error = "Truncated"] ELSE all
=============================================================================
