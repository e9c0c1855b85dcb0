----------------------------- MODULE FileSystem -----------------------------
(***************************************************************************)
(* What the publication of files assumes of the file system (external).    *)
(* What a process reads and writes is in memory.  sync_all makes the       *)
(* contents of a file, or the entries of a directory, durable.  A crash    *)
(* keeps what is durable; of the rest it keeps any part: an entry or not,  *)
(* and any prefix of a file.                                               *)
(***************************************************************************)
EXTENDS Integers

CONSTANTS
  Nobody,     \* no process
  MaxCrash    \* bound: crashes of one behaviour

ASSUME FileSystemAssumption == MaxCrash \in Nat

\* Contents of a file: a prefix of what was to be written
Empty == 0
Torn == 1
Whole == 2

VARIABLES
  crashes

CountCrash == crashes < MaxCrash /\ crashes' = crashes + 1
=============================================================================
