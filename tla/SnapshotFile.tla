---------------------------- MODULE SnapshotFile ----------------------------
(***************************************************************************)
(* crates/hft-recovery, persist_snapshot_new: write and sync a temporary   *)
(* file, link it to the destination, remove the temporary name, sync the   *)
(* directory.  Writers race for one destination, every call may fail, and  *)
(* the machine may crash between any two calls.  Temporary names are not   *)
(* tracked: each is its writer's own and nothing reads them.               *)
(***************************************************************************)
EXTENDS FileSystem

CONSTANTS
  Writers     \* callers, each with a snapshot of its own

ASSUME WritersAssumption == Nobody \notin Writers

VARIABLES
  step,     \* per writer: the next call, or how persist_snapshot_new ended
  data,     \* per writer: contents of its file
  safe,     \* per writer: the part of them that is durable
  dest,     \* whose file the destination names
  kept      \* whose file the durable directory has at the destination

fileVars == <<step, data, safe, dest, kept>>

Running == {"exists", "create", "write", "sync", "link", "unlink", "syncdir"}

FileInit ==
  /\ step = [w \in Writers |-> "exists"]
  /\ data = [w \in Writers |-> Empty]
  /\ safe = [w \in Writers |-> Empty]
  /\ dest = Nobody /\ kept = Nobody

Goto(w, next) == step' = [step EXCEPT ![w] = next]

-----------------------------------------------------------------------------
CheckAbsent(w) ==
  /\ step[w] = "exists"
  /\ Goto(w, IF dest = Nobody THEN "create" ELSE "before_publication")
  /\ UNCHANGED <<data, safe, dest, kept, crashes>>

\* create_new; the process id and TEMP_SEQUENCE make the name the writer's own
CreateTemp(w) ==
  /\ step[w] = "create"
  /\ Goto(w, "write")
  /\ UNCHANGED <<data, safe, dest, kept, crashes>>

WriteTemp(w) ==
  /\ step[w] = "write"
  /\ \/ data[w] = Empty /\ data' = [data EXCEPT ![w] = Torn] /\ UNCHANGED step
     \/ data' = [data EXCEPT ![w] = Whole] /\ Goto(w, "sync")
  /\ UNCHANGED <<safe, dest, kept, crashes>>

\* Faulty variant: the file is linked before it is synchronised.
SkipSync(w) ==
  /\ step[w] = "sync"
  /\ Goto(w, "link")
  /\ UNCHANGED <<data, safe, dest, kept, crashes>>

SyncTemp(w) ==
  /\ step[w] = "sync"
  /\ safe' = [safe EXCEPT ![w] = data[w]]
  /\ Goto(w, "link")
  /\ UNCHANGED <<data, dest, kept, crashes>>

\* hard_link fails if the destination has come to exist
LinkDestination(w) ==
  /\ step[w] = "link" /\ dest = Nobody
  /\ dest' = w
  /\ Goto(w, "unlink")
  /\ UNCHANGED <<data, safe, kept, crashes>>

RemoveTemp(w) ==
  /\ step[w] = "unlink"
  /\ Goto(w, "syncdir")
  /\ UNCHANGED <<data, safe, dest, kept, crashes>>

\* Everybody's entries become durable.
SyncParent(w) ==
  /\ step[w] = "syncdir"
  /\ kept' = dest
  /\ Goto(w, "ok")
  /\ UNCHANGED <<data, safe, dest, crashes>>

\* Faulty variant: one result for every error.
FailUniformly(w) ==
  /\ step[w] \in Running
  /\ Goto(w, "before_publication")
  /\ UNCHANGED <<data, safe, dest, kept, crashes>>

\* A call fails: before publication, or after it
FailWriter(w) ==
  /\ step[w] \in Running
  /\ Goto(w, IF step[w] \in {"unlink", "syncdir"} THEN "published" ELSE "before_publication")
  /\ UNCHANGED <<data, safe, dest, kept, crashes>>

CrashWriters ==
  /\ CountCrash
  /\ step' = [w \in Writers |-> IF step[w] \in Running THEN "interrupted" ELSE step[w]]
  /\ dest' \in {dest, kept} /\ kept' = dest'
  /\ data' \in {d \in [Writers -> Empty .. Whole] :
                  \A w \in Writers : d[w] \in safe[w] .. data[w]}
  /\ safe' = data'

FileNext ==
  \/ \E w \in Writers :
       \/ CheckAbsent(w) \/ CreateTemp(w) \/ WriteTemp(w) \/ SyncTemp(w)
       \/ LinkDestination(w) \/ RemoveTemp(w) \/ SyncParent(w) \/ FailWriter(w)
  \/ CrashWriters

-----------------------------------------------------------------------------
(* Properties.                                                             *)

(* The destination never names a file that is not complete: not while it is  *)
(* being published and not after a crash.                                    *)
DestinationIsWhole == dest # Nobody => data[dest] = Whole

(* What persist_snapshot_new returns is true, and stays true: after Ok the    *)
(* writer's own snapshot is at the destination over every crash, so at most  *)
(* one writer is told Ok; BeforePublication is never reported for a snapshot *)
(* that readers can find, and Published always for one they found before a   *)
(* crash.                                                                    *)
ReportIsTrue ==
  \A w \in Writers : /\ step[w] = "ok" => dest = w
                     /\ step[w] = "before_publication" => dest # w
                     /\ step[w] = "published" /\ crashes = 0 => dest = w
=============================================================================
