------------------------------- MODULE Bundle -------------------------------
(***************************************************************************)
(* crates/hft-engine, operations.rs: RecoveryBundle::publish_new writes    *)
(* three members and a completion marker into a new directory, and         *)
(* RecoveryBundle::read refuses what is not complete.  publish_new is a    *)
(* straight line of file system calls, each of which may fail, and the     *)
(* machine may crash between any two of them.                              *)
(***************************************************************************)
EXTENDS FileSystem, Sequences

CONSTANTS
  Publishers,   \* processes that publish, each a different bundle, at one destination
  Named         \* those of them that give the destination with its parent directory;
                \* the others run there and give its bare name

ASSUME BundleAssumption ==
  /\ Nobody \notin Publishers
  /\ Named \subseteq Publishers

Members == {"config.v1", "snapshot.v1", "tail.v1"}
Marker == "COMMITTED"
Files == Members \cup {Marker}

VARIABLES
  owner,      \* who created the directory that exists, or Nobody
  anchored,   \* its entry in the parent directory is durable
  file,       \* per file: entry, durable entry, contents, durable contents
  pc          \* per publisher: the next call of publish_new, or how it ended

bundleVars == <<owner, anchored, file, pc>>

NoFile == [there |-> FALSE, kept |-> FALSE, data |-> Empty, safe |-> Empty]

-----------------------------------------------------------------------------
(* publish_new as the sequence of its calls.                               *)

Call(op, f) == [op |-> op, on |-> f]
WriteNew(f) == <<Call("create", f), Call("write", f), Call("sync", f)>>
SyncDirectory == <<Call("syncdir", "destination")>>

\* Faulty variant: the marker is written with the members.
PublishTogether(p) ==
  <<Call("mkdir", "destination")>>
    \o WriteNew("config.v1") \o WriteNew("snapshot.v1") \o WriteNew("tail.v1")
    \o WriteNew(Marker) \o SyncDirectory
    \o (IF p \in Named THEN <<Call("syncdir", "parent")>> ELSE <<>>)

\* Faulty variant: the last two synchronisations are left out.
PublishUnanchored(p) ==
  <<Call("mkdir", "destination")>>
    \o WriteNew("config.v1") \o WriteNew("snapshot.v1") \o WriteNew("tail.v1")
    \o SyncDirectory \o WriteNew(Marker)

PublishNew(p) ==
  <<Call("mkdir", "destination")>>
    \o WriteNew("config.v1") \o WriteNew("snapshot.v1") \o WriteNew("tail.v1")
    \o SyncDirectory
    \o WriteNew(Marker)
    \o SyncDirectory
    \o (IF p \in Named THEN <<Call("syncdir", "parent")>> ELSE <<>>)

Ok(p) == Len(PublishNew(p)) + 1
Failed == 0

BundleInit ==
  /\ owner = Nobody /\ anchored = FALSE
  /\ file = [f \in Files |-> NoFile]
  /\ pc = [p \in Publishers |-> 1]

-----------------------------------------------------------------------------
At(p, op) == pc[p] \in 1 .. Len(PublishNew(p)) /\ PublishNew(p)[pc[p]].op = op
On(p) == PublishNew(p)[pc[p]].on
Advance(p) == pc' = [pc EXCEPT ![p] = @ + 1]

\* fs::create_dir fails if there is a directory
MakeDirectory(p) ==
  /\ At(p, "mkdir") /\ owner = Nobody
  /\ owner' = p /\ anchored' = FALSE
  /\ file' = [f \in Files |-> NoFile]
  /\ Advance(p) /\ UNCHANGED crashes

\* create_new fails if there is a file
CreateFile(p) ==
  /\ At(p, "create") /\ ~file[On(p)].there
  /\ file' = [file EXCEPT ![On(p)].there = TRUE]
  /\ Advance(p) /\ UNCHANGED <<owner, anchored, crashes>>

\* write_all: a part and then the rest, or all at once
WriteFile(p) ==
  /\ At(p, "write")
  /\ \/ /\ file[On(p)].data = Empty
        /\ file' = [file EXCEPT ![On(p)].data = Torn] /\ UNCHANGED pc
     \/ file' = [file EXCEPT ![On(p)].data = Whole] /\ Advance(p)
  /\ UNCHANGED <<owner, anchored, crashes>>

SyncFile(p) ==
  /\ At(p, "sync")
  /\ file' = [file EXCEPT ![On(p)].safe = file[On(p)].data]
  /\ Advance(p) /\ UNCHANGED <<owner, anchored, crashes>>

SyncEntries(p) ==
  /\ At(p, "syncdir")
  /\ IF On(p) = "parent"
     THEN anchored' = TRUE /\ UNCHANGED file
     ELSE /\ file' = [f \in Files |-> [file[f] EXCEPT !.kept = file[f].there]]
          /\ UNCHANGED anchored
  /\ Advance(p) /\ UNCHANGED <<owner, crashes>>

\* Any call may fail; publish_new returns the error and leaves what it has made.
FailPublisher(p) ==
  /\ pc[p] \in 1 .. Len(PublishNew(p))
  /\ pc' = [pc EXCEPT ![p] = Failed]
  /\ UNCHANGED <<owner, anchored, file, crashes>>

\* The calls under way never return; those that returned keep their result.
CrashPublishers ==
  /\ CountCrash
  /\ pc' = [p \in Publishers |-> IF pc[p] = Ok(p) THEN Ok(p) ELSE Failed]
  /\ \E lost \in IF anchored THEN {FALSE} ELSE BOOLEAN :
       IF lost
       THEN owner' = Nobody /\ anchored' = FALSE /\ file' = [f \in Files |-> NoFile]
       ELSE /\ UNCHANGED owner
            /\ anchored' = (owner # Nobody)
            /\ \E there \in [Files -> BOOLEAN], data \in [Files -> Empty .. Whole] :
                 /\ \A f \in Files : /\ file[f].kept => there[f]
                                     /\ there[f] => file[f].there
                                     /\ data[f] \in file[f].safe .. file[f].data
                                     /\ ~there[f] => data[f] = file[f].safe
                 /\ file' = [f \in Files |->
                       IF there[f] THEN [there |-> TRUE, kept |-> TRUE, data |-> data[f],
                                         safe |-> data[f]]
                       ELSE NoFile]

\* A publisher that failed tries again at the same destination
Retry(p) ==
  /\ pc[p] = Failed
  /\ pc' = [pc EXCEPT ![p] = 1]
  /\ UNCHANGED <<owner, anchored, file, crashes>>

BundleNext ==
  \/ \E p \in Publishers :
       \/ MakeDirectory(p) \/ CreateFile(p) \/ WriteFile(p) \/ SyncFile(p)
       \/ SyncEntries(p) \/ FailPublisher(p) \/ Retry(p)
  \/ CrashPublishers

-----------------------------------------------------------------------------
\* RecoveryBundle::read: the marker must be there, and its hash is the members' only
\* if marker and members are what one publisher meant to write.
Complete(f) == file[f].there /\ file[f].data = Whole
Readable == owner # Nobody /\ Complete(Marker) /\ \A f \in Members : Complete(f)

(* The marker is the commit point: wherever a complete marker can be seen,   *)
(* while publish_new runs, after it failed or after a crash, every member is *)
(* complete, so that a committed bundle is never found damaged.              *)
CommittedIsWhole == Complete(Marker) => Readable

(* A bundle whose publish_new returned Ok is read back whole ever after, over *)
(* any crash and whatever another publisher attempts at the same place, if    *)
(* its destination was given with its parent.  A bare name has an empty       *)
(* parent, which publish_new does not synchronise (operations.rs:51): a crash *)
(* may take that bundle away after Ok, so nothing is claimed of it.           *)
PublishedSurvives == \A p \in Named : pc[p] = Ok(p) => Readable /\ owner = p
=============================================================================
