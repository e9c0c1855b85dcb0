------------------------- MODULE PublicationProofs -------------------------
(***************************************************************************)
(* Proofs about Publication, for any number of publishers and writers and  *)
(* any number of crashes: what a reader finds at either destination.       *)
(***************************************************************************)
EXTENDS Publication, TLAPS

pubVars == <<bundleVars, fileVars, crashes, publishing>>

FileRecord == [there : BOOLEAN, kept : BOOLEAN, data : Empty .. Whole, safe : Empty .. Whole]

\* Where the calls on one file begin in PublishNew
Start(f) == CASE f = "config.v1" -> 2
              [] f = "snapshot.v1" -> 5
              [] f = "tail.v1" -> 8
              [] f = Marker -> 12

\* Written and synchronised, as after the three calls of WriteNew
Written(f) == file[f].there /\ file[f].data = Whole /\ file[f].safe = Whole
Sealed(f) == Written(f) /\ file[f].kept

BundleTypeOK ==
  /\ owner \in Publishers \cup {Nobody}
  /\ anchored \in BOOLEAN
  /\ file \in [Files -> FileRecord]
  /\ pc \in [Publishers -> 0 .. 17]
  /\ \A p \in Publishers : pc[p] <= Ok(p)

\* What is durable of a file is a prefix of what is in it.
EntriesInv == \A f \in Files : file[f].safe <= file[f].data

\* p has returned from the calls before position n, and no crash can take that back:
\* a result Ok is final only where the parent directory is synchronised too.
Past(p, n) == pc[p] >= n /\ (pc[p] = Ok(p) => p \in Named)

\* Whoever is past mkdir owns the directory.
OwnerInv ==
  /\ \A p \in Publishers : Past(p, 2) => owner = p
  /\ owner = Nobody => file = [f \in Files |-> NoFile]

\* What the calls that have returned have established
Progress(p) ==
  /\ pc[p] \in 2 .. 12 => ~file[Marker].there
  /\ \A f \in Files :
       /\ pc[p] = Start(f) + 1 => file[f].there
       /\ pc[p] = Start(f) + 2 => file[f].there /\ file[f].data = Whole
       /\ Past(p, Start(f) + 3) => Written(f)
  /\ Past(p, 12) => \A f \in Members : file[f].kept
  /\ Past(p, 16) => file[Marker].kept
  /\ Past(p, 17) => anchored

\* The commit point: the marker is made only when every member would survive a crash.
CommitInv == file[Marker].there => \A f \in Members : Sealed(f)

BundleInv == BundleTypeOK /\ EntriesInv /\ OwnerInv /\ CommitInv
             /\ \A p \in Publishers : Progress(p)

(* The calls of publish_new by position.                                   *)
CallAt(p, i, op, f) == PublishNew(p)[i].op = op /\ PublishNew(p)[i].on = f

LEMMA Layout ==
  ASSUME NEW p \in Publishers
  PROVE  /\ p \in Named => Len(PublishNew(p)) = 16
         /\ p \notin Named => Len(PublishNew(p)) = 15
         /\ CallAt(p, 1, "mkdir", "destination")
         /\ \A f \in Files : /\ CallAt(p, Start(f), "create", f)
                             /\ CallAt(p, Start(f) + 1, "write", f)
                             /\ CallAt(p, Start(f) + 2, "sync", f)
         /\ CallAt(p, 11, "syncdir", "destination") /\ CallAt(p, 15, "syncdir", "destination")
         /\ p \in Named => CallAt(p, 16, "syncdir", "parent")
<1>1. CASE p \in Named
  BY <1>1 DEF PublishNew, WriteNew, SyncDirectory, Files, Members, Marker, Start, Call, CallAt
<1>2. CASE p \notin Named
  BY <1>2 DEF PublishNew, WriteNew, SyncDirectory, Files, Members, Marker, Start, Call, CallAt
<1> QED
  BY <1>1, <1>2

(* Where publish_new has returned Ok                                       *)
LEMMA OkValue ==
  ASSUME NEW p \in Publishers
  PROVE  Ok(p) \in {16, 17} /\ (Ok(p) = 17 <=> p \in Named)
<1> DEFINE n == Len(PublishNew(p))
<1>1. (p \in Named => n = 16) /\ (p \notin Named => n = 15)
  BY Layout
<1>2. Ok(p) = n + 1
  BY DEF Ok
<1> HIDE DEF n
<1> QED
  BY <1>1, <1>2

(* What a publisher is about to call fixes where it is.                    *)
LEMMA Position ==
  ASSUME BundleTypeOK, NEW p \in Publishers
  PROVE  /\ Ok(p) \in {16, 17} /\ (Ok(p) = 17 <=> p \in Named)
         /\ At(p, "mkdir") => pc[p] = 1
         /\ At(p, "create") => On(p) \in Files /\ pc[p] = Start(On(p))
         /\ At(p, "write") => On(p) \in Files /\ pc[p] = Start(On(p)) + 1
         /\ At(p, "sync") => On(p) \in Files /\ pc[p] = Start(On(p)) + 2
         /\ At(p, "syncdir") => \/ pc[p] = 11 /\ On(p) = "destination"
                                \/ pc[p] = 15 /\ On(p) = "destination"
                                \/ pc[p] = 16 /\ p \in Named /\ On(p) = "parent"
<1>1. Ok(p) \in {16, 17} /\ (Ok(p) = 17 <=> p \in Named)
  BY OkValue
<1>2. ASSUME NEW i \in 1 .. Len(PublishNew(p))
      PROVE  \/ i \in {1, 11, 15}
             \/ i = 16 /\ p \in Named
             \/ \E f \in Files : i \in {Start(f), Start(f) + 1, Start(f) + 2}
  <2>1. i \in 1 .. 16 /\ (i = 16 => p \in Named)
    <3> DEFINE n == Len(PublishNew(p))
    <3>1. (p \in Named => n = 16) /\ (p \notin Named => n = 15) /\ i \in 1 .. n
      BY Layout
    <3> HIDE DEF n
    <3> QED
      BY <3>1
  <2> QED
    BY <2>1 DEF Files, Members, Marker, Start
<1>3. ASSUME pc[p] \in 1 .. Len(PublishNew(p)), NEW f \in Files,
             pc[p] \in {Start(f), Start(f) + 1, Start(f) + 2}
      PROVE  /\ On(p) = f
             /\ At(p, "create") => pc[p] = Start(f)
             /\ At(p, "write") => pc[p] = Start(f) + 1
             /\ At(p, "sync") => pc[p] = Start(f) + 2
             /\ ~At(p, "mkdir") /\ ~At(p, "syncdir")
  BY <1>3, Layout DEF At, On, CallAt
<1>4. ASSUME pc[p] \in 1 .. Len(PublishNew(p)), pc[p] \in {1, 11, 15} \/ (pc[p] = 16 /\ p \in Named)
      PROVE  /\ ~At(p, "create") /\ ~At(p, "write") /\ ~At(p, "sync")
             /\ At(p, "mkdir") => pc[p] = 1
             /\ At(p, "syncdir") => \/ pc[p] = 11 /\ On(p) = "destination"
                                    \/ pc[p] = 15 /\ On(p) = "destination"
                                    \/ pc[p] = 16 /\ p \in Named /\ On(p) = "parent"
  BY <1>4, Layout DEF At, On, CallAt
<1>5. CASE pc[p] \in 1 .. Len(PublishNew(p))
  <2>1. CASE \E f \in Files : pc[p] \in {Start(f), Start(f) + 1, Start(f) + 2}
    BY <2>1, <1>1, <1>3, <1>5
  <2> QED
    BY <2>1, <1>1, <1>2, <1>4, <1>5
<1> QED
  BY <1>1, <1>5 DEF At

(* Only the owner of the directory is past mkdir.                          *)
LEMMA OwnerAlone ==
  ASSUME BundleInv, NEW p \in Publishers, Past(p, 2), NEW q \in Publishers, q # p
  PROVE  ~Past(q, 2)
BY DEF BundleInv, OwnerInv

LEMMA BundleInitInv == BundleInit => BundleInv
<1> SUFFICES ASSUME BundleInit PROVE BundleInv
  OBVIOUS
<1>1. \A f \in Files : file[f] = NoFile
  BY DEF BundleInit
<1>2. BundleTypeOK
  <2>2. NoFile \in FileRecord
    BY DEF FileRecord, NoFile, Empty, Whole
  <2>3. pc \in [Publishers -> 0 .. 17] /\ \A p \in Publishers : pc[p] <= Ok(p)
    BY OkValue DEF BundleInit
  <2>4. file \in [Files -> FileRecord]
    BY <2>2 DEF BundleInit
  <2>5. owner \in Publishers \cup {Nobody} /\ anchored \in BOOLEAN
    BY DEF BundleInit
  <2> QED
    BY <2>3, <2>4, <2>5 DEF BundleTypeOK
<1>3. EntriesInv /\ CommitInv
  BY <1>1 DEF EntriesInv, CommitInv, NoFile, Files, Empty
<1>4. OwnerInv /\ \A p \in Publishers : Progress(p)
  BY <1>1, OkValue DEF BundleInit, OwnerInv, Progress, Past, Start, Files, Members, Marker
<1> QED
  BY <1>2, <1>3, <1>4 DEF BundleInv

(* A call inside the directory is made by its owner, and the others are not   *)
(* past mkdir before or after it.                                             *)
LEMMA OthersStay ==
  ASSUME BundleInv, NEW p \in Publishers, Past(p, 2), BundleTypeOK', UNCHANGED owner,
         NEW q \in Publishers, q # p, pc'[q] = pc[q]
  PROVE  Progress(q)' /\ ~Past(q, 2)'
<1>1. ~Past(q, 2) /\ pc[q] \in 0 .. Ok(q) /\ Ok(q) \in {16, 17} /\ (Ok(q) = 17 <=> q \in Named)
  BY OwnerAlone, OkValue DEF BundleInv, BundleTypeOK
<1>2. ~Past(q, 2)'
  BY <1>1 DEF Past
<1>3. \A f \in Files : Start(f) \in 2 .. 12
  BY DEF Start, Files, Members, Marker
<1> QED
  BY <1>1, <1>2, <1>3 DEF Progress, Past

(* create_new, write_all and sync_all on one file: a call on f is made and     *)
(* leaves f as r; j calls have returned then.                                 *)
LEMMA FileCallInv ==
  ASSUME BundleInv, NEW p \in Publishers, NEW f \in Files, NEW j \in 1 .. 3,
         pc[p] \in Start(f) .. Start(f) + 2, Start(f) + j \in {pc[p], pc[p] + 1},
         NEW r \in FileRecord, r.there, r.kept = file[f].kept, r.safe <= r.data,
         j >= 2 => r.data = Whole, j = 3 => r.safe = Whole,
         file' = [file EXCEPT ![f] = r], pc' = [pc EXCEPT ![p] = Start(f) + j],
         UNCHANGED <<owner, anchored>>
  PROVE  BundleInv'
<1>1. /\ Start(f) \in {2, 5, 8, 12} /\ (f = Marker <=> Start(f) = 12)
      /\ Ok(p) \in {16, 17} /\ (Ok(p) = 17 <=> p \in Named) /\ Start(f) + j \in 0 .. Ok(p)
  BY OkValue DEF Start, Files, Members, Marker
<1>2. /\ file'[f] = r /\ \A g \in Files : g # f => file'[g] = file[g]
      /\ pc'[p] = Start(f) + j /\ \A q \in Publishers : q # p => pc'[q] = pc[q]
  BY DEF BundleInv, BundleTypeOK
<1>3. BundleTypeOK'
  <2>1. file' \in [Files -> FileRecord]
    BY DEF BundleInv, BundleTypeOK
  <2>2. pc' \in [Publishers -> 0 .. 17] /\ \A q \in Publishers : pc'[q] <= Ok(q)
    BY <1>1, <1>2 DEF BundleInv, BundleTypeOK
  <2> QED
    BY <2>1, <2>2 DEF BundleInv, BundleTypeOK
<1>4. EntriesInv'
  BY <1>2 DEF BundleInv, EntriesInv
<1>5. Past(p, 2) /\ owner = p
  BY <1>1 DEF Past, BundleInv, OwnerInv
<1>6. OwnerInv'
  BY <1>2, <1>3, <1>5, OthersStay, BundleAssumption DEF OwnerInv
<1>7. CommitInv'
  <2>1. CASE f = Marker
    <3>1. Past(p, 12)
      BY <1>1, <2>1 DEF Past
    <3>2. \A g \in Members : g \in Files /\ g # f /\ Past(p, Start(g) + 3)
      BY <1>1, <2>1 DEF Start, Marker, Past, Members, Files
    <3> QED
      BY <3>1, <3>2, <1>2 DEF CommitInv, Sealed, Written, BundleInv, Progress
  <2>2. CASE f # Marker
    <3>1. pc[p] \in 2 .. 12
      BY <1>1, <2>2
    <3>2. ~file'[Marker].there
      BY <2>2, <3>1, <1>2 DEF BundleInv, Progress, Files
    <3> QED
      BY <3>2 DEF CommitInv
  <2> QED
    BY <2>1, <2>2
<1>8. Progress(p)'
  <2>1. ASSUME NEW g \in Files
        PROVE  /\ pc'[p] = Start(g) + 1 => file'[g].there
               /\ pc'[p] = Start(g) + 2 => file'[g].there /\ file'[g].data = Whole
               /\ Past(p, Start(g) + 3)' => Written(g)'
    <3>1. CASE g = f
      <4>1. r.data \in Empty .. Whole /\ r.safe \in Empty .. Whole
        BY DEF FileRecord
      <4> QED
        BY <3>1, <4>1, <1>1, <1>2 DEF Past, Written, Empty, Whole
    <3>2. CASE g # f
      <4>1. /\ pc'[p] \notin {Start(g) + 1, Start(g) + 2}
            /\ Past(p, Start(g) + 3)' => Past(p, Start(g) + 3)
        BY <1>1, <1>2, <3>2 DEF Start, Files, Members, Marker, Past
      <4> QED
        BY <4>1, <1>2, <3>2 DEF BundleInv, Progress, Written
    <3> QED
      BY <3>1, <3>2
  <2>2. pc'[p] \in 2 .. 12 => ~file'[Marker].there
    <3>1. pc'[p] \in 2 .. 12 => f # Marker /\ pc[p] \in 2 .. 12
      BY <1>1, <1>2
    <3> QED
      BY <3>1, <1>2 DEF BundleInv, Progress, Files
  <2>3. Past(p, 12)' => \A g \in Members : file'[g].kept
    <3>1. Past(p, 12)' => f = Marker /\ Past(p, 12)
      BY <1>1, <1>2 DEF Past
    <3> QED
      BY <3>1, <1>2 DEF BundleInv, Progress, Files, Members, Marker
  <2>4. ~Past(p, 16)' /\ ~Past(p, 17)'
    BY <1>1, <1>2 DEF Past
  <2> QED
    BY <2>1, <2>2, <2>3, <2>4 DEF Progress
<1>9. \A q \in Publishers : Progress(q)'
  BY <1>2, <1>3, <1>5, <1>8, OthersStay
<1> QED
  BY <1>3, <1>4, <1>6, <1>7, <1>9 DEF BundleInv

(* The three calls on one file keep the invariant.                         *)
LEMMA CreateFileInv ==
  ASSUME BundleInv, NEW p \in Publishers, CreateFile(p)
  PROVE  BundleInv'
<1> DEFINE f == On(p)
           r == [file[f] EXCEPT !.there = TRUE]
<1>1. f \in Files /\ pc[p] = Start(f) /\ Start(f) \in Nat
  BY Position DEF CreateFile, BundleInv, Start, Files, Members, Marker
<1>2. file[f] \in FileRecord /\ file[f].safe <= file[f].data
  BY <1>1 DEF BundleInv, BundleTypeOK, EntriesInv
<1>3. r \in FileRecord /\ r.there /\ r.kept = file[f].kept /\ r.safe <= r.data
  BY <1>2 DEF FileRecord
<1>4. /\ file' = [file EXCEPT ![f] = r] /\ pc' = [pc EXCEPT ![p] = pc[p] + 1]
      /\ UNCHANGED <<owner, anchored>>
  BY <1>1 DEF CreateFile, Advance
<1>5. /\ 1 \in 1 .. 3 /\ pc[p] \in Start(f) .. Start(f) + 2 /\ pc[p] + 1 = Start(f) + 1
      /\ ~(1 >= 2) /\ 1 # 3
  BY <1>1
<1> HIDE DEF f, r
<1> QED
  BY <1>1, <1>3, <1>4, <1>5, FileCallInv, Zenon

LEMMA WriteFileInv ==
  ASSUME BundleInv, NEW p \in Publishers, WriteFile(p)
  PROVE  BundleInv'
<1> DEFINE f == On(p)
           r(d) == [file[f] EXCEPT !.data = d]
<1>1. f \in Files /\ pc[p] = Start(f) + 1 /\ Start(f) \in Nat
  BY Position DEF WriteFile, BundleInv, Start, Files, Members, Marker
<1>2. file[f] \in FileRecord /\ file[f].safe <= file[f].data /\ file[f].there
  BY <1>1 DEF BundleInv, BundleTypeOK, EntriesInv, Progress
<1>3. UNCHANGED <<owner, anchored>>
  BY DEF WriteFile
<1>4. CASE file[f].data = Empty /\ file' = [file EXCEPT ![f].data = Torn] /\ UNCHANGED pc
  <2>1. /\ r(Torn) \in FileRecord /\ r(Torn).there /\ r(Torn).kept = file[f].kept
        /\ r(Torn).safe <= r(Torn).data
    BY <1>2, <1>4 DEF FileRecord, Empty, Torn, Whole
  <2>2. file' = [file EXCEPT ![f] = r(Torn)] /\ pc' = [pc EXCEPT ![p] = pc[p]]
    BY <1>1, <1>4 DEF BundleInv, BundleTypeOK
  <2>3. /\ 1 \in 1 .. 3 /\ pc[p] \in Start(f) .. Start(f) + 2 /\ pc[p] = Start(f) + 1
        /\ ~(1 >= 2) /\ 1 # 3
    BY <1>1
  <2> HIDE DEF f, r
  <2> QED
    BY <1>1, <1>3, <2>1, <2>2, <2>3, FileCallInv, Zenon
<1>5. CASE file' = [file EXCEPT ![f].data = Whole] /\ Advance(p)
  <2>1. /\ r(Whole) \in FileRecord /\ r(Whole).there /\ r(Whole).kept = file[f].kept
        /\ r(Whole).safe <= r(Whole).data /\ r(Whole).data = Whole
    BY <1>2 DEF FileRecord, Empty, Whole
  <2>2. file' = [file EXCEPT ![f] = r(Whole)] /\ pc' = [pc EXCEPT ![p] = pc[p] + 1]
    BY <1>1, <1>5 DEF Advance
  <2>3. /\ 2 \in 1 .. 3 /\ pc[p] \in Start(f) .. Start(f) + 2 /\ pc[p] + 1 = Start(f) + 2
        /\ 2 # 3
    BY <1>1
  <2> HIDE DEF f, r
  <2> QED
    BY <1>1, <1>3, <2>1, <2>2, <2>3, FileCallInv, Zenon
<1> QED
  BY <1>4, <1>5 DEF WriteFile

LEMMA SyncFileInv ==
  ASSUME BundleInv, NEW p \in Publishers, SyncFile(p)
  PROVE  BundleInv'
<1> DEFINE f == On(p)
           r == [file[f] EXCEPT !.safe = file[f].data]
<1>1. f \in Files /\ pc[p] = Start(f) + 2 /\ Start(f) \in Nat
  BY Position DEF SyncFile, BundleInv, Start, Files, Members, Marker
<1>2. file[f] \in FileRecord /\ file[f].there /\ file[f].data = Whole
  BY <1>1 DEF BundleInv, BundleTypeOK, Progress
<1>3. /\ r \in FileRecord /\ r.there /\ r.kept = file[f].kept /\ r.safe <= r.data
      /\ r.data = Whole /\ r.safe = Whole
  BY <1>2 DEF FileRecord, Whole, Empty
<1>4. /\ file' = [file EXCEPT ![f] = r] /\ pc' = [pc EXCEPT ![p] = pc[p] + 1]
      /\ UNCHANGED <<owner, anchored>>
  BY <1>1 DEF SyncFile, Advance
<1>5. 3 \in 1 .. 3 /\ pc[p] \in Start(f) .. Start(f) + 2 /\ pc[p] + 1 = Start(f) + 3
  BY <1>1
<1> HIDE DEF f, r
<1> QED
  BY <1>1, <1>3, <1>4, <1>5, FileCallInv, Zenon

(* sync_all on a directory, the bundle's or its parent, keeps the invariant. *)
LEMMA SyncEntriesInv ==
  ASSUME BundleInv, NEW p \in Publishers, SyncEntries(p)
  PROVE  BundleInv'
<1>1. /\ \/ pc[p] = 11 /\ On(p) = "destination"
         \/ pc[p] = 15 /\ On(p) = "destination"
         \/ pc[p] = 16 /\ p \in Named /\ On(p) = "parent"
      /\ Ok(p) \in {16, 17} /\ (Ok(p) = 17 <=> p \in Named) /\ pc[p] + 1 \in 0 .. Ok(p)
  BY Position, OkValue DEF SyncEntries, BundleInv
<1>2. /\ pc' = [pc EXCEPT ![p] = pc[p] + 1] /\ owner' = owner
      /\ pc'[p] = pc[p] + 1 /\ \A q \in Publishers : q # p => pc'[q] = pc[q]
  BY DEF SyncEntries, Advance, BundleInv, BundleTypeOK
<1>3. Past(p, 2) /\ owner = p
  BY <1>1 DEF Past, BundleInv, OwnerInv
<1>4. pc' \in [Publishers -> 0 .. 17] /\ \A q \in Publishers : pc'[q] <= Ok(q)
  BY <1>1, <1>2 DEF BundleInv, BundleTypeOK
<1>5. CASE On(p) = "parent"
  <2>1. anchored' = TRUE /\ file' = file /\ pc[p] = 16 /\ p \in Named
    BY <1>1, <1>5 DEF SyncEntries
  <2>2. BundleTypeOK'
    BY <1>2, <1>4, <2>1 DEF BundleInv, BundleTypeOK
  <2>3. EntriesInv' /\ CommitInv'
    BY <2>1 DEF BundleInv, EntriesInv, CommitInv, Sealed, Written
  <2>4. OwnerInv'
    BY <1>2, <1>3, <2>1, <2>2, OthersStay, BundleAssumption DEF OwnerInv
  <2>5. Progress(p)'
    <3>1. \A f \in Files : Start(f) \in 2 .. 12 /\ Past(p, Start(f) + 3)
      BY <2>1, <1>1 DEF Past, Start, Files, Members, Marker
    <3>2. Past(p, 16) /\ Past(p, 12) /\ pc'[p] = 17
      BY <2>1, <1>1, <1>2 DEF Past
    <3>3. \A f \in Files : pc'[p] # Start(f) + 1 /\ pc'[p] # Start(f) + 2
      BY <3>1, <3>2
    <3> QED
      BY <2>1, <3>1, <3>2, <3>3 DEF BundleInv, Progress, Written
  <2>6. \A q \in Publishers : Progress(q)'
    BY <1>2, <1>3, <2>2, <2>5, OthersStay
  <2> QED
    BY <2>2, <2>3, <2>4, <2>6 DEF BundleInv
<1>6. CASE On(p) # "parent"
  <2>1. /\ anchored' = anchored /\ pc[p] \in {11, 15}
        /\ file' = [f \in Files |-> [file[f] EXCEPT !.kept = file[f].there]]
    BY <1>1, <1>6 DEF SyncEntries
  <2>2. ASSUME NEW f \in Files
        PROVE  /\ file'[f] \in FileRecord
               /\ file'[f].there = file[f].there /\ file'[f].kept = file[f].there
               /\ file'[f].data = file[f].data /\ file'[f].safe = file[f].safe
    <3>1. file[f] \in FileRecord
      BY DEF BundleInv, BundleTypeOK
    <3> QED
      BY <2>1, <3>1 DEF FileRecord
  <2>3. BundleTypeOK'
    <3>1. file' \in [Files -> FileRecord]
      BY <2>1, <2>2
    <3> QED
      BY <1>2, <1>4, <2>1, <3>1 DEF BundleInv, BundleTypeOK
  <2>4. EntriesInv'
    BY <2>2 DEF BundleInv, EntriesInv
  <2>5. CommitInv'
    BY <2>2 DEF BundleInv, CommitInv, Sealed, Written, Files
  <2>6. OwnerInv'
    BY <1>2, <1>3, <2>3, OthersStay, BundleAssumption DEF OwnerInv
  <2>7. Progress(p)'
    <3>1. \A f \in Files : pc'[p] # Start(f) + 1 /\ pc'[p] # Start(f) + 2
      BY <1>2, <2>1 DEF Start, Files, Members, Marker
    <3>2. \A f \in Files : Past(p, Start(f) + 3)' => Past(p, Start(f) + 3)
      BY <1>1, <1>2, <2>1 DEF Past, Start, Files, Members, Marker
    <3>3. pc'[p] \in 2 .. 12 => pc[p] \in 2 .. 12
      BY <1>2, <2>1
    <3>4. \A f \in Members : f \in Files /\ Past(p, Start(f) + 3)
      BY <1>1, <2>1 DEF Past, Start, Files, Members, Marker
    <3>5. Past(p, 16)' => Past(p, Start(Marker) + 3)
      BY <1>1, <1>2, <2>1 DEF Past, Start, Marker
    <3>6. ~Past(p, 17)'
      BY <1>1, <1>2, <2>1 DEF Past
    <3> QED
      BY <2>2, <3>1, <3>2, <3>3, <3>4, <3>5, <3>6 DEF BundleInv, Progress, Written, Files
  <2>8. \A q \in Publishers : Progress(q)'
    BY <1>2, <1>3, <2>3, <2>7, OthersStay
  <2> QED
    BY <2>3, <2>4, <2>5, <2>6, <2>8 DEF BundleInv
<1> QED
  BY <1>5, <1>6

(* create_dir starts from nothing: no publisher is past it.                *)
LEMMA MakeDirectoryInv ==
  ASSUME BundleInv, NEW p \in Publishers, MakeDirectory(p)
  PROVE  BundleInv'
<1>1. pc[p] = 1 /\ \A q \in Publishers : Ok(q) \in {16, 17} /\ (Ok(q) = 17 <=> q \in Named)
  BY Position, OkValue DEF MakeDirectory, BundleInv
<1>2. /\ pc' = [pc EXCEPT ![p] = pc[p] + 1] /\ owner' = p /\ anchored' = FALSE
      /\ file' = [f \in Files |-> NoFile]
  BY DEF MakeDirectory, Advance
<1>3. pc'[p] = 2 /\ \A q \in Publishers : q # p => pc'[q] = pc[q]
  BY <1>1, <1>2 DEF BundleInv, BundleTypeOK
<1>4. \A q \in Publishers : ~Past(q, 2) /\ pc[q] \in 0 .. 17 /\ pc[q] <= Ok(q)
  BY BundleAssumption DEF MakeDirectory, BundleInv, OwnerInv, BundleTypeOK
<1>5. NoFile \in FileRecord /\ ~NoFile.there /\ NoFile.safe <= NoFile.data
  BY DEF NoFile, FileRecord, Empty, Whole
<1>6. BundleTypeOK'
  <2>1. pc' \in [Publishers -> 0 .. 17] /\ \A q \in Publishers : pc'[q] <= Ok(q)
    BY <1>1, <1>2, <1>3 DEF BundleInv, BundleTypeOK
  <2>2. file' \in [Files -> FileRecord]
    BY <1>2, <1>5
  <2> QED
    BY <1>2, <2>1, <2>2 DEF BundleTypeOK
<1>7. EntriesInv' /\ CommitInv'
  BY <1>2, <1>5 DEF EntriesInv, CommitInv, Files
<1>8. OwnerInv'
  BY <1>2, <1>3, <1>4, BundleAssumption DEF OwnerInv, Past
<1>9. ASSUME NEW q \in Publishers
      PROVE  Progress(q)'
  <2>1. \A f \in Files : Start(f) \in 2 .. 12
    BY DEF Start, Files, Members, Marker
  <2>2. pc'[q] \in 0 .. 2 \/ (pc'[q] = Ok(q) /\ q \notin Named)
    BY <1>1, <1>3, <1>4 DEF Past
  <2>3. ~file'[Marker].there
    BY <1>2, <1>5 DEF Files
  <2> QED
    BY <1>1, <2>1, <2>2, <2>3 DEF Progress, Past
<1> QED
  BY <1>6, <1>7, <1>8, <1>9 DEF BundleInv

(* A publisher that gives up, or starts again, leaves the directory alone.  *)
LEMMA GiveUpInv ==
  ASSUME BundleInv, NEW p \in Publishers, NEW n \in {0, 1}, pc' = [pc EXCEPT ![p] = n],
         UNCHANGED <<owner, anchored, file>>
  PROVE  BundleInv'
<1>1. \A q \in Publishers : Ok(q) \in {16, 17}
  BY OkValue
<1>2. BundleTypeOK'
  <2>1. pc' \in [Publishers -> 0 .. 17] /\ \A q \in Publishers : pc'[q] <= Ok(q)
    BY <1>1 DEF BundleInv, BundleTypeOK
  <2> QED
    BY <2>1 DEF BundleInv, BundleTypeOK
<1>3. pc'[p] = n /\ \A q \in Publishers : q # p => pc'[q] = pc[q]
  BY DEF BundleInv, BundleTypeOK
<1>4. EntriesInv' /\ CommitInv'
  BY DEF BundleInv, EntriesInv, CommitInv, Sealed, Written
<1>5. \A m \in 2 .. 17 : ~Past(p, m)'
  BY <1>1, <1>3 DEF Past
<1>6. OwnerInv'
  BY <1>3, <1>5 DEF BundleInv, OwnerInv, Past
<1>7. Progress(p)'
  <2>1. \A f \in Files : Start(f) \in 2 .. 12
    BY DEF Start, Files, Members, Marker
  <2> QED
    BY <1>3, <1>5, <2>1 DEF Progress
<1>8. \A q \in Publishers : q # p => Progress(q)'
  BY <1>3 DEF BundleInv, Progress, Past, Written
<1> QED
  BY <1>2, <1>4, <1>6, <1>7, <1>8 DEF BundleInv

(* A crash keeps what is durable, and any part of the rest.                *)
LEMMA CrashPublishersInv ==
  ASSUME BundleInv, CrashPublishers
  PROVE  BundleInv'
<1>1. \A q \in Publishers : Ok(q) \in {16, 17} /\ (Ok(q) = 17 <=> q \in Named)
  BY OkValue
<1>2. /\ pc' = [p \in Publishers |-> IF pc[p] = Ok(p) THEN Ok(p) ELSE Failed]
      /\ pc' \in [Publishers -> 0 .. 17] /\ \A q \in Publishers : pc'[q] <= Ok(q)
  BY <1>1 DEF CrashPublishers, Failed
<1>3. \A q \in Publishers, n \in 2 .. 17 :
        /\ Past(q, n)' => n <= Ok(q) /\ pc[q] = Ok(q) /\ q \in Named /\ Past(q, n)
        /\ pc'[q] \in {0, Ok(q)}
  BY <1>1, <1>2 DEF Past, Failed
<1>4. \A f \in Files : Start(f) \in 2 .. 12
  BY DEF Start, Files, Members, Marker
<1>5. NoFile \in FileRecord /\ ~NoFile.there /\ NoFile.safe <= NoFile.data
  BY DEF NoFile, FileRecord, Empty, Whole
<1>6. CASE ~anchored /\ owner' = Nobody /\ anchored' = FALSE /\ file' = [f \in Files |-> NoFile]
  <2>1. BundleTypeOK'
    <3>1. file' \in [Files -> FileRecord]
      BY <1>5, <1>6
    <3> QED
      BY <1>2, <1>6, <3>1 DEF BundleTypeOK
  <2>2. EntriesInv' /\ CommitInv'
    BY <1>5, <1>6 DEF EntriesInv, CommitInv, Files
  <2>3. ASSUME NEW q \in Publishers, NEW n \in 2 .. 17
        PROVE  ~Past(q, n)'
    <3>1. SUFFICES ASSUME Past(q, n)' PROVE FALSE
      OBVIOUS
    <3>2. Past(q, 17)
      BY <1>1, <1>3, <3>1 DEF Past
    <3> QED
      BY <1>6, <3>2 DEF BundleInv, Progress
  <2>4. OwnerInv'
    BY <1>6, <2>3 DEF OwnerInv
  <2>5. \A q \in Publishers : Progress(q)'
    BY <1>1, <1>3, <1>4, <2>3 DEF Progress
  <2> QED
    BY <2>1, <2>2, <2>4, <2>5 DEF BundleInv
<1>7. ASSUME NEW there \in [Files -> BOOLEAN], NEW now \in [Files -> Empty .. Whole],
             \A f \in Files : /\ file[f].kept => there[f]
                              /\ there[f] => file[f].there
                              /\ now[f] \in file[f].safe .. file[f].data
                              /\ ~there[f] => now[f] = file[f].safe,
             owner' = owner, anchored' = (owner # Nobody),
             file' = [f \in Files |->
                IF there[f] THEN [there |-> TRUE, kept |-> TRUE, data |-> now[f], safe |-> now[f]]
                ELSE NoFile]
      PROVE  BundleInv'
  <2>1. ASSUME NEW f \in Files
        PROVE  /\ file'[f] \in FileRecord /\ file'[f].safe <= file'[f].data
               /\ file'[f].there => file[f].there
               /\ Sealed(f) => Sealed(f)'
    <3>1. CASE there[f]
      <4>1. file'[f] = [there |-> TRUE, kept |-> TRUE, data |-> now[f], safe |-> now[f]]
        BY <1>7, <3>1
      <4>2. now[f] \in Empty .. Whole /\ now[f] \in file[f].safe .. file[f].data /\ file[f].there
        BY <1>7, <3>1
      <4> QED
        BY <4>1, <4>2 DEF FileRecord, Sealed, Written, Empty, Whole
    <3>2. CASE ~there[f]
      <4>1. file'[f] = NoFile /\ ~file[f].kept
        BY <1>7, <3>2
      <4> QED
        BY <1>5, <4>1 DEF Sealed
    <3> QED
      BY <3>1, <3>2
  <2>2. BundleTypeOK'
    <3>1. file' \in [Files -> FileRecord]
      BY <1>7, <2>1
    <3>2. anchored' \in BOOLEAN
      BY <1>7
    <3> QED
      BY <1>2, <1>7, <3>1, <3>2 DEF BundleTypeOK, BundleInv
  <2>3. EntriesInv' /\ CommitInv'
    BY <2>1 DEF EntriesInv, CommitInv, BundleInv, Files
  <2>4. OwnerInv'
    <3>1. owner = Nobody => file' = [f \in Files |-> NoFile]
      <4>1. SUFFICES ASSUME owner = Nobody PROVE \A f \in Files : ~there[f]
        BY <1>7
      <4>2. \A f \in Files : ~file[f].there
        BY <1>5, <4>1 DEF BundleInv, OwnerInv
      <4> QED
        BY <1>7, <4>2
    <3> QED
      BY <1>3, <1>7, <3>1 DEF BundleInv, OwnerInv
  <2>5. ASSUME NEW q \in Publishers
        PROVE  Progress(q)'
    <3>1. CASE ~Past(q, 2)'
      <4>1. \A n \in 2 .. 17 : ~Past(q, n)'
        BY <1>1, <1>2, <3>1 DEF Past, Failed
      <4> QED
        BY <1>1, <1>3, <1>4, <4>1 DEF Progress
    <3>2. CASE Past(q, 2)'
      <4>1. pc[q] = 17 /\ pc'[q] = 17 /\ q \in Named /\ Past(q, 2) /\ Past(q, 12) /\ Past(q, 16)
        BY <1>1, <1>2, <1>3, <3>2 DEF Past
      <4>2. \A f \in Files : Past(q, Start(f) + 3)
        BY <1>4, <4>1, <1>1 DEF Past
      <4>3. \A f \in Files : Sealed(f)
        BY <4>1, <4>2 DEF BundleInv, Progress, Sealed, Files
      <4>4. \A f \in Files : Sealed(f)'
        BY <2>1, <4>3
      <4>5. anchored'
        BY <1>7, <4>1, BundleAssumption DEF BundleInv, OwnerInv
      <4> QED
        BY <1>4, <4>1, <4>4, <4>5 DEF Progress, Sealed, Written, Files
    <3> QED
      BY <3>1, <3>2
  <2> QED
    BY <2>2, <2>3, <2>4, <2>5 DEF BundleInv
<1> QED
  BY <1>6, <1>7 DEF CrashPublishers

(* Every step of the publishers and every crash keeps the bundle's invariant. *)
LEMMA BundleNextInv == BundleInv /\ BundleNext => BundleInv'
<1>1. ASSUME BundleInv, NEW p \in Publishers, FailPublisher(p) \/ Retry(p)
      PROVE  BundleInv'
  BY <1>1, GiveUpInv DEF FailPublisher, Retry, Failed
<1> QED
  BY <1>1, MakeDirectoryInv, CreateFileInv, WriteFileInv, SyncFileInv, SyncEntriesInv,
     CrashPublishersInv DEF BundleNext

-----------------------------------------------------------------------------
Ended == {"ok", "before_publication", "published", "interrupted"}

FileTypeOK ==
  /\ step \in [Writers -> Running \cup Ended]
  /\ data \in [Writers -> Empty .. Whole]
  /\ safe \in [Writers -> Empty .. Whole]
  /\ dest \in Writers \cup {Nobody}
  /\ kept \in {Nobody, dest}

DurableInv(w) ==
  /\ safe[w] <= data[w]
  /\ step[w] = "sync" => data[w] = Whole
  /\ step[w] = "link" \/ dest = w => data[w] = Whole /\ safe[w] = Whole

StageInv(w) ==
  /\ step[w] \in {"unlink", "syncdir"} => dest = w
  /\ step[w] = "ok" => dest = w /\ kept = w
  /\ step[w] = "published" /\ crashes = 0 => dest = w
  /\ dest = w => step[w] \in {"unlink", "syncdir", "ok", "published", "interrupted"}

FileInv == FileTypeOK /\ \A w \in Writers : DurableInv(w) /\ StageInv(w)

PublicationInv == crashes \in Nat /\ BundleInv /\ FileInv

LEMMA FileInitInv == FileInit => FileInv
<1> SUFFICES ASSUME FileInit PROVE FileInv
  OBVIOUS
<1>1. FileTypeOK
  BY DEF FileInit, FileTypeOK, Running, Ended, Empty, Whole
<1>2. \A w \in Writers : DurableInv(w) /\ StageInv(w)
  BY WritersAssumption DEF FileInit, DurableInv, StageInv, Empty
<1> QED
  BY <1>1, <1>2 DEF FileInv

(* A call that moves one writer on, within its file.                       *)
LEMMA WriterStepInv ==
  ASSUME FileInv, crashes \in Nat, NEW w \in Writers, UNCHANGED crashes,
         \/ CheckAbsent(w) \/ CreateTemp(w) \/ WriteTemp(w) \/ SyncTemp(w)
         \/ RemoveTemp(w) \/ FailWriter(w)
  PROVE  FileInv'
<1> USE DEF FileInv, FileTypeOK, Goto, Empty, Torn, Whole
<1>1. dest' = dest /\ kept' = kept
  BY DEF CheckAbsent, CreateTemp, WriteTemp, SyncTemp, RemoveTemp, FailWriter
<1>2. PICK next \in Running \cup Ended : step' = [step EXCEPT ![w] = next]
  <2>1. CASE WriteTemp(w) /\ UNCHANGED step
    BY <2>1
  <2> QED
    BY <2>1 DEF CheckAbsent, CreateTemp, WriteTemp, SyncTemp, RemoveTemp, FailWriter, Running, Ended
<1>3. /\ data' \in [Writers -> Empty .. Whole] /\ safe' \in [Writers -> Empty .. Whole]
      /\ \A v \in Writers : v # w => data'[v] = data[v] /\ safe'[v] = safe[v]
  BY DEF CheckAbsent, CreateTemp, WriteTemp, SyncTemp, RemoveTemp, FailWriter
<1>4. FileTypeOK'
  BY <1>1, <1>2, <1>3
<1>5. ASSUME NEW v \in Writers, v # w
      PROVE  DurableInv(v)' /\ StageInv(v)'
  BY <1>1, <1>2, <1>3, <1>5 DEF DurableInv, StageInv
<1>6. DurableInv(w)'
  BY <1>1 DEF DurableInv, StageInv, CheckAbsent, CreateTemp, WriteTemp, SyncTemp, RemoveTemp,
     FailWriter, Running
<1>7. StageInv(w)'
  BY <1>1 DEF DurableInv, StageInv, CheckAbsent, CreateTemp, WriteTemp, SyncTemp, RemoveTemp,
     FailWriter, Running
<1> QED
  BY <1>4, <1>5, <1>6, <1>7

(* The two calls that change the directory: hard_link and its sync_all.    *)
LEMMA LinkDestinationInv ==
  ASSUME FileInv, crashes \in Nat, NEW w \in Writers, LinkDestination(w)
  PROVE  FileInv'
BY WritersAssumption DEF FileInv, FileTypeOK, DurableInv, StageInv, LinkDestination, Goto, Running, Ended

LEMMA SyncParentInv ==
  ASSUME FileInv, crashes \in Nat, NEW w \in Writers, SyncParent(w)
  PROVE  FileInv'
BY WritersAssumption DEF FileInv, FileTypeOK, DurableInv, StageInv, SyncParent, Goto, Running, Ended

(* A crash may take the destination back to the durable entry, and a file   *)
(* back to its durable prefix.                                             *)
LEMMA CrashWritersInv ==
  ASSUME FileInv, crashes \in Nat, CrashWriters
  PROVE  FileInv'
<1> USE DEF FileInv, FileTypeOK, Empty, Whole
<1>1. /\ dest' \in {dest, kept} /\ kept' = dest' /\ crashes' # 0
      /\ dest' \in Writers \cup {Nobody}
      /\ dest' # Nobody => dest' = dest
      /\ \A w \in Writers : kept = w => dest' = w
  BY WritersAssumption DEF CrashWriters, CountCrash
<1>2. /\ data' \in [Writers -> Empty .. Whole] /\ safe' = data'
      /\ \A w \in Writers : data'[w] \in safe[w] .. data[w]
  BY DEF CrashWriters
<1>3. step' \in [Writers -> Running \cup Ended]
  BY DEF CrashWriters, Running, Ended
<1>4. ASSUME NEW w \in Writers
      PROVE  /\ step'[w] \notin Running
             /\ step'[w] \in {"ok", "published", "before_publication"} => step'[w] = step[w]
             /\ step[w] \in {"unlink", "syncdir"} => step'[w] = "interrupted"
             /\ step[w] \in {"ok", "published", "interrupted"} => step'[w] = step[w]
  BY DEF CrashWriters, Running, Ended
<1>5. ASSUME NEW w \in Writers
      PROVE  DurableInv(w)' /\ StageInv(w)'
  <2>1. DurableInv(w)'
    BY <1>1, <1>2, <1>4, WritersAssumption DEF DurableInv, Running
  <2>2. StageInv(w)'
    BY <1>1, <1>4, WritersAssumption DEF StageInv, Running
  <2> QED
    BY <2>1, <2>2
<1> QED
  BY <1>1, <1>2, <1>3, <1>5

LEMMA FileNextInv == FileInv /\ crashes \in Nat /\ FileNext => FileInv'
<1>1. ASSUME FileInv, crashes \in Nat, NEW w \in Writers,
             \/ CheckAbsent(w) \/ CreateTemp(w) \/ WriteTemp(w) \/ SyncTemp(w)
             \/ RemoveTemp(w) \/ FailWriter(w)
      PROVE  FileInv'
  <2>1. UNCHANGED crashes
    BY <1>1 DEF CheckAbsent, CreateTemp, WriteTemp, SyncTemp, RemoveTemp, FailWriter
  <2> QED
    BY <1>1, <2>1, WriterStepInv
<1> QED
  BY <1>1, LinkDestinationInv, SyncParentInv, CrashWritersInv DEF FileNext

-----------------------------------------------------------------------------
(* Every step of either way of publishing keeps both invariants.           *)
LEMMA PublicationStep == PublicationInv /\ [PublicationNext]_pubVars => PublicationInv'
<1> SUFFICES ASSUME PublicationInv, [PublicationNext]_pubVars PROVE PublicationInv'
  OBVIOUS
<1>1. CASE BundleNext /\ UNCHANGED fileVars
  <2>1. crashes' = crashes \/ crashes' = crashes + 1
    BY <1>1 DEF BundleNext, MakeDirectory, CreateFile, WriteFile, SyncFile, SyncEntries,
       FailPublisher, Retry, CrashPublishers, CountCrash
  <2>2. crashes' \in Nat /\ (crashes' = 0 => crashes = 0)
    BY <2>1 DEF PublicationInv
  <2>3. FileInv'
    BY <1>1, <2>2 DEF PublicationInv, fileVars, FileInv, FileTypeOK, DurableInv, StageInv
  <2> QED
    BY <1>1, <2>2, <2>3, BundleNextInv DEF PublicationInv
<1>2. CASE FileNext /\ UNCHANGED bundleVars
  <2>1. crashes' \in Nat
    BY <1>2 DEF PublicationInv, FileNext, CheckAbsent, CreateTemp, WriteTemp, SyncTemp, LinkDestination,
       RemoveTemp, SyncParent, FailWriter, CrashWriters, CountCrash
  <2>2. BundleInv'
    BY <1>2 DEF PublicationInv, bundleVars, BundleInv, BundleTypeOK, EntriesInv, OwnerInv, CommitInv,
       Progress, Past, Written, Sealed
  <2> QED
    BY <1>2, <2>1, <2>2, FileNextInv DEF PublicationInv
<1>3. CASE UNCHANGED pubVars
  BY <1>3 DEF pubVars, bundleVars, fileVars, PublicationInv, BundleInv, BundleTypeOK, EntriesInv, OwnerInv,
     CommitInv, Progress, Past, Written, Sealed, FileInv, FileTypeOK, DurableInv, StageInv
<1> QED
  BY <1>1, <1>2, <1>3 DEF PublicationNext

(* The inductive invariant holds of every behaviour.                       *)
LEMMA PublicationInvariant == PublicationSpec => []PublicationInv
<1>1. PublicationInit => PublicationInv
  BY BundleInitInv, FileInitInv DEF PublicationInit, PublicationInv
<1> QED
  BY <1>1, PublicationStep, PTL DEF PublicationSpec, pubVars

(* RecoveryBundle: wherever a complete marker can be seen, publish_new's   *)
(* members are complete, for any number of publishers and crashes.         *)
THEOREM CommittedBundleIsWhole == PublicationSpec => []CommittedIsWhole
<1>1. PublicationInv => CommittedIsWhole
  <2> SUFFICES ASSUME PublicationInv, Complete(Marker) PROVE Readable
    BY DEF CommittedIsWhole
  <2>1. \A f \in Members : Complete(f)
    BY DEF PublicationInv, BundleInv, CommitInv, Complete, Sealed, Written
  <2>2. owner # Nobody
    BY DEF PublicationInv, BundleInv, OwnerInv, Complete, NoFile, Files
  <2> QED
    BY <2>1, <2>2 DEF Readable
<1> QED
  BY <1>1, PublicationInvariant, PTL

(* RecoveryBundle: a bundle whose destination was given with its parent and  *)
(* whose publish_new returned Ok is read back whole over any crash, whatever *)
(* the other publishers attempt, under this name or the bare one.           *)
THEOREM PublishedBundleSurvives == PublicationSpec => []PublishedSurvives
<1>1. PublicationInv => PublishedSurvives
  <2> SUFFICES ASSUME PublicationInv, NEW p \in Named, pc[p] = Ok(p)
               PROVE  Readable /\ owner = p
    BY DEF PublishedSurvives
  <2>1. Ok(p) = 17 /\ p \in Publishers
    BY OkValue, BundleAssumption
  <2>2. \A f \in Files : Past(p, Start(f) + 3)
    BY <2>1 DEF Past, Start, Files, Members, Marker
  <2>3. owner = p
    BY <2>1 DEF PublicationInv, BundleInv, OwnerInv, Past
  <2> QED
    BY <2>2, <2>3, BundleAssumption DEF PublicationInv, BundleInv, Progress, Written, Readable, Complete, Files
<1> QED
  BY <1>1, PublicationInvariant, PTL

(* persist_snapshot_new: the destination never names an incomplete file, for *)
(* any number of writers that race for it and any number of crashes.        *)
THEOREM DestinationAlwaysWhole == PublicationSpec => []DestinationIsWhole
<1>1. PublicationInv => DestinationIsWhole
  BY DEF PublicationInv, FileInv, FileTypeOK, DurableInv, DestinationIsWhole
<1> QED
  BY <1>1, PublicationInvariant, PTL

(* persist_snapshot_new: what it reports is true and stays true.           *)
THEOREM ReportsAreTrue == PublicationSpec => []ReportIsTrue
<1>1. PublicationInv => ReportIsTrue
  BY DEF PublicationInv, FileInv, StageInv, ReportIsTrue
<1> QED
  BY <1>1, PublicationInvariant, PTL
=============================================================================
