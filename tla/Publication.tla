---------------------------- MODULE Publication ----------------------------
(***************************************************************************)
(* The two ways of publishing files on one file system: a recovery bundle  *)
(* in a directory of its own, or a snapshot as a single file.  They are    *)
(* never at work in the same place, so a behaviour shows one of them.      *)
(***************************************************************************)
EXTENDS Bundle, SnapshotFile

VARIABLES
  publishing

PublicationInit ==
  /\ BundleInit /\ FileInit
  /\ crashes = 0
  /\ publishing \in {"bundle", "snapshot"}

PublicationNext ==
  /\ \/ publishing = "bundle" /\ BundleNext /\ UNCHANGED fileVars
     \/ publishing = "snapshot" /\ FileNext /\ UNCHANGED bundleVars
  /\ UNCHANGED publishing

PublicationSpec ==
  PublicationInit /\ [][PublicationNext]_<<bundleVars, fileVars, crashes, publishing>>
=============================================================================
