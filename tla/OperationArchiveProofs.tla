------------------------ MODULE OperationArchiveProofs ------------------------
(***************************************************************************)
(* Proofs about OperationArchive: for any number of processes, any faults  *)
(* and any mix of commands that the operator keeps apart as archive.cfg    *)
(* does, the index leads to a copy of the Operation that can be used.  The *)
(* invariant says for each step of each command what the file system holds *)
(* and what the process remembers of it.                                   *)
(***************************************************************************)
EXTENDS OperationArchive, TLAPS

\* The pairs of commands the operator never runs at the same time: with any of them an
\* Operation may be lost.
KeptApart ==
  {{"archive"}, {"archive", "restore"}, {"create", "archive"}, {"create", "restore"},
   {"create", "delete"}, {"create", "missing"}} \subseteq Apart

Alive == existed /\ ~discarded
IndexSays(state) == index # None /\ index.state = state
Final(life) == inspection \/ life \in ARCHIVABLE_OPERATION_STATES

\* While one process archives no other archives, restores or creates, and while one
\* creates no other does anything else to where the Operation is.
ApartInv ==
  \A p, q \in Procs : p # q =>
    /\ pc[q] \in StepsOf.archive =>
         pc[p] \notin StepsOf.archive \cup StepsOf.restore \cup StepsOf.create
    /\ pc[q] \in StepsOf.create =>
         pc[p] \notin StepsOf.create \cup StepsOf.restore \cup StepsOf.delete
                        \cup StepsOf.missing

\* The lock lies in the live directory, and whoever ends his work under it began it.
LockInv ==
  /\ live = None => lockFile = None
  /\ \A p \in Procs :
       At(p, "work_end") /\ lockFile = p /\ ~inspection =>
         live.life \in {"created", "running"}

CreateInv ==
  \A p \in Procs : pc[p] \in StepsOf.create =>
    /\ index = None /\ live # None
    /\ At(p, "create_index") => Whole(live)

\* Archive has the lock of a whole directory that nobody changes, up to its removal.
Holding ==
  {"archive_list", "archive_write", "archive_verify", "archive_checksum",
   "archive_index", "archive_remove"}

ArchiveInv ==
  \A p \in Procs : pc[p] \in StepsOf.archive =>
    /\ existed
    /\ At(p, "archive_lock") /\ live # None => Whole(live) /\ Final(live.life)
    /\ pc[p] \in Holding => lockFile = p /\ Whole(live) /\ Final(live.life)
    /\ Alive => IF pc[p] \in {"archive_remove", "archive_rmdir"}
                THEN IndexSays("archived") ELSE IndexSays("live")
    /\ Alive /\ pc[p] \in {"archive_checksum", "archive_index"} =>
         archive # None /\ archive.sum = mem[p].sum
    /\ Alive /\ At(p, "archive_index") => checksum = mem[p].sum

\* What restore publishes stays, and no other restore publishes meanwhile.
RestoreInv ==
  \A p \in Procs : pc[p] \in StepsOf.restore =>
    /\ existed
    /\ mem[p].loc # None /\ mem[p].loc.state = "archived" /\ Final(mem[p].seen.life)
    /\ Alive /\ At(p, "restore_index") =>
         Whole(live) /\ \A q \in Procs : At(q, "restore_index") => q = p
    /\ Alive /\ pc[p] \in {"restore_unlink", "restore_checksum"} => IndexSays("live")

\* delete and the repair of the index remove the index of an Operation that was
\* discarded, only.
RemoveInv ==
  \A p \in Procs :
    /\ pc[p] \in StepsOf.delete \cup StepsOf.missing => existed
    /\ pc[p] \in {"delete_checksum", "delete_index", "missing_unlink"} => discarded
    /\ pc[p] \in StepsOf.missing =>
         mem[p].loc # None /\ mem[p].loc.state = "live" /\ mem[p].loc.sum <= clock
    /\ At(p, "missing_reread") /\ Alive => index # mem[p].loc

\* A live index document is told from all earlier ones by its stamp.
IndexInv == index # None => existed /\ (index.state = "live" => index.sum <= clock)

ContentInv == archive # None => archive.content.whole /\ Final(archive.content.life)

IInv ==
  /\ TypeOK /\ ApartInv
  /\ LockInv /\ CreateInv /\ ArchiveInv /\ RestoreInv /\ RemoveInv
  /\ IndexInv /\ ContentInv /\ IndexLeads

-----------------------------------------------------------------------------

\* No process is free to start a command next to one it is kept apart from.
LEMMA Started ==
  ASSUME KeptApart, NEW p \in Procs, NEW job, MayStart(p, job)
  PROVE  /\ pc[p] = "idle"
         /\ job = "archive" =>
              \A q \in Procs : pc[q] \notin StepsOf.archive \cup StepsOf.restore
                                              \cup StepsOf.create
         /\ job = "restore" =>
              \A q \in Procs : pc[q] \notin StepsOf.archive \cup StepsOf.create
         /\ job = "create" =>
              \A q \in Procs : pc[q] \notin StepsOf.archive \cup StepsOf.restore
                                              \cup StepsOf.delete \cup StepsOf.missing
         /\ job \in {"delete", "missing"} => \A q \in Procs : pc[q] \notin StepsOf.create
<1> DEFINE Pair(a, b) == {a, b} \in Apart
<1>1. /\ Pair("archive", "archive") /\ Pair("archive", "restore")
      /\ Pair("archive", "create") /\ Pair("restore", "archive")
      /\ Pair("restore", "create") /\ Pair("create", "archive")
      /\ Pair("create", "restore") /\ Pair("create", "delete")
      /\ Pair("create", "missing") /\ Pair("delete", "create")
      /\ Pair("missing", "create")
  BY DEF KeptApart
<1>2. \A q \in Procs : \A other \in Commands :
        Pair(job, other) => pc[q] \notin StepsOf[other]
  BY DEF MayStart
<1> HIDE DEF Pair
<1>3. StepsOf.archive = StepsOf["archive"] /\ StepsOf.restore = StepsOf["restore"]
      /\ StepsOf.create = StepsOf["create"] /\ StepsOf.delete = StepsOf["delete"]
      /\ StepsOf.missing = StepsOf["missing"]
  OBVIOUS
<1> QED
  BY <1>1, <1>2, <1>3 DEF Commands, MayStart, At

\* Process p goes on, and the others stay where they are; what they remember they keep.
Moves(p, there) ==
  /\ pc' \in [Procs -> Steps]
  /\ \A q \in Procs : pc'[q] = IF q = p THEN there ELSE pc[q]
Keeps(p) ==
  /\ mem' \in [Procs -> Memories]
  /\ \A q \in Procs : q # p => mem'[q] = mem[q]

\* Where a process goes is one of its steps.
LEMMA Going ==
  ASSUME TypeOK, NEW p \in Procs, NEW there \in Steps, Goto(p, there)
  PROVE  /\ Moves(p, there)
         /\ mem' = mem => Keeps(p)
BY DEF TypeOK, Goto, Moves, Keeps

\* A process that ends is idle and remembers nothing.
LEMMA Ending ==
  ASSUME TypeOK, NEW p \in Procs, End(p)
  PROVE  Moves(p, "idle") /\ Keeps(p)
<1>1. Forgotten \in Memories
  BY ArchiveBoundAssumption DEF Forgotten, Blank, Stamps, Content, Lives, Memories
<1>2. "idle" \in Steps
  BY DEF Steps
<1> QED
  BY <1>1, <1>2 DEF TypeOK, End, Moves, Keeps

\* No live index document is written twice.
LEMMA Stamped ==
  ASSUME TypeOK, RemoveInv, NEW p \in Procs, pc[p] \in StepsOf.missing, clock' = clock + 1
  PROVE  /\ mem[p].loc.sum <= clock'
         /\ \A i \in Locations : i.sum = clock' => i # mem[p].loc
<1>1. mem[p].loc \in Locations /\ mem[p].loc.sum <= clock
  BY DEF TypeOK, RemoveInv, Memories
<1>2. clock \in Nat /\ \A i \in Locations : i.sum \in Nat
  BY ArchiveBoundAssumption DEF TypeOK, Locations, Stamps
<1> QED
  BY <1>1, <1>2

\* A directory of which another part is there keeps its lifecycle.
LEMMA PartOf ==
  ASSUME live \in Directories, NEW part \in Parts
  PROVE  /\ [live EXCEPT !.part = part] \in Directories
         /\ [live EXCEPT !.part = part].part = part
         /\ [live EXCEPT !.part = part].life = live.life
BY DEF Directories

\* What is written is not None.
LEMMA NoneApart ==
  \A d \in Directories \cup Locations \cup Archives \cup Stamps : d # None
BY ArchiveNoneAssumption

\* create_operation_workspace keeps the invariant.
LEMMA CreateKeeps ==
  ASSUME IInv, KeptApart, NEW p \in Procs,
         CreateDirectory(p) \/ CreateMetadata(p) \/ CreateExecution(p) \/
           CreateIndex(p) \/ CreateFails(p)
  PROVE  IInv'
<1> USE ArchiveProcsAssumption, NoneApart
    DEF IInv, At, files, history, Moves, Keeps, StepsOf, Holding, Whole, Final, Alive,
        IndexSays
<1>1. CASE CreateDirectory(p)
  <2> USE <1>1 DEF CreateDirectory
  <2>1. Moves(p, "create_metadata") /\ Keeps(p)
    BY Started, Going DEF Steps
  <2>2. live' \in Directories /\ live'.life = "created"
    BY ArchiveBoundAssumption DEF Directories, Parts, Lives
  <2>3. TypeOK'
    BY <2>1, <2>2 DEF TypeOK
  <2>4. ApartInv' /\ CreateInv' /\ ArchiveInv' /\ RestoreInv' /\ RemoveInv'
    BY <2>1, <2>2, Started DEF ApartInv, CreateInv, ArchiveInv, RestoreInv, RemoveInv
  <2>5. LockInv' /\ IndexInv' /\ ContentInv' /\ IndexLeads'
    BY <2>1, <2>2 DEF TypeOK, LockInv, IndexInv, ContentInv, IndexLeads, ArchiveVerified
  <2> QED
    BY <2>3, <2>4, <2>5
<1>2. CASE CreateMetadata(p)
  <2> USE <1>2 DEF CreateMetadata
  <2>1. Moves(p, "create_execution") /\ Keeps(p)
    BY Going DEF Steps
  <2>2. live' \in Directories /\ live'.life = live.life
    BY PartOf DEF TypeOK, Parts
  <2>3. TypeOK'
    BY <2>1, <2>2 DEF TypeOK
  <2>4. ApartInv' /\ CreateInv' /\ ArchiveInv' /\ RestoreInv' /\ RemoveInv'
    BY <2>1, <2>2 DEF ApartInv, CreateInv, ArchiveInv, RestoreInv, RemoveInv
  <2>5. LockInv' /\ IndexInv' /\ ContentInv' /\ IndexLeads'
    BY <2>1, <2>2 DEF TypeOK, LockInv, IndexInv, ContentInv, IndexLeads,
       ArchiveVerified, CreateInv
  <2> QED
    BY <2>3, <2>4, <2>5
<1>3. CASE CreateExecution(p)
  <2> USE <1>3 DEF CreateExecution
  <2>1. Moves(p, "create_index") /\ Keeps(p)
    BY Going DEF Steps
  <2>2. live' \in Directories /\ live'.life = live.life /\ live'.part = "whole"
    BY PartOf DEF TypeOK, Parts
  <2>3. TypeOK'
    BY <2>1, <2>2 DEF TypeOK
  <2>4. ApartInv' /\ CreateInv' /\ ArchiveInv' /\ RestoreInv' /\ RemoveInv'
    BY <2>1, <2>2 DEF ApartInv, CreateInv, ArchiveInv, RestoreInv, RemoveInv
  <2>5. LockInv' /\ IndexInv' /\ ContentInv' /\ IndexLeads'
    BY <2>1, <2>2 DEF TypeOK, LockInv, IndexInv, ContentInv, IndexLeads, ArchiveVerified
  <2> QED
    BY <2>3, <2>4, <2>5
<1>4. CASE CreateIndex(p)
  <2> USE <1>4 DEF CreateIndex
  <2>1. Moves(p, "idle") /\ Keeps(p)
    BY Ending DEF Steps
  <2>2. /\ index' \in Locations /\ index'.state = "live"
        /\ index'.sum = clock' /\ clock' \in Stamps
    BY ArchiveBoundAssumption DEF TypeOK, Locations, Stamps
  <2>3. TypeOK'
    BY <2>1, <2>2 DEF TypeOK
  <2>4. ApartInv' /\ CreateInv' /\ ArchiveInv' /\ RestoreInv' /\ RemoveInv'
    BY <2>1, <2>2 DEF ApartInv, CreateInv, ArchiveInv, RestoreInv, RemoveInv
  <2>5. LockInv' /\ IndexInv' /\ ContentInv' /\ IndexLeads'
    BY <2>1, <2>2 DEF TypeOK, LockInv, IndexInv, ContentInv, IndexLeads,
       ArchiveVerified, CreateInv
  <2> QED
    BY <2>3, <2>4, <2>5
<1>5. CASE CreateFails(p)
  <2> USE <1>5 DEF CreateFails
  <2>1. Moves(p, "idle") /\ Keeps(p)
    BY Ending DEF Steps
  <2>2. IF lockFile = None THEN live' = None
                           ELSE live' \in Directories /\ live'.life = live.life
    BY PartOf DEF TypeOK, CreateInv, Parts
  <2>3. TypeOK'
    BY <2>1, <2>2 DEF TypeOK
  <2>4. ApartInv' /\ CreateInv' /\ ArchiveInv' /\ RestoreInv' /\ RemoveInv'
    BY <2>1, <2>2 DEF ApartInv, CreateInv, ArchiveInv, RestoreInv, RemoveInv
  <2>5. LockInv' /\ IndexInv' /\ ContentInv' /\ IndexLeads'
    BY <2>1, <2>2 DEF TypeOK, LockInv, IndexInv, ContentInv, IndexLeads,
       ArchiveVerified, CreateInv
  <2> QED
    BY <2>3, <2>4, <2>5
<1> QED
  BY <1>1, <1>2, <1>3, <1>4, <1>5

\* The commands that work on the Operation keep the invariant.
LEMMA WorkKeeps ==
  ASSUME IInv, KeptApart, NEW p \in Procs,
         WorkOpen(p) \/ WorkLock(p) \/ WorkStart(p) \/ WorkEnd(p) \/ WorkPublish(p)
  PROVE  IInv'
<1> USE ArchiveProcsAssumption, NoneApart
    DEF IInv, At, files, history, Moves, Keeps, StepsOf, Holding, Whole, Final, Alive,
        IndexSays
<1>1. CASE WorkOpen(p)
  <2> USE <1>1 DEF WorkOpen
  <2>1. Moves(p, "work_lock") /\ Keeps(p)
    BY Started, Going DEF Steps
  <2>2. TypeOK'
    BY <2>1 DEF TypeOK
  <2>3. ApartInv' /\ CreateInv' /\ ArchiveInv' /\ RestoreInv' /\ RemoveInv'
    BY <2>1, Started DEF ApartInv, CreateInv, ArchiveInv, RestoreInv, RemoveInv
  <2>4. LockInv' /\ IndexInv' /\ ContentInv' /\ IndexLeads'
    BY <2>1 DEF TypeOK, LockInv, IndexInv, ContentInv, IndexLeads, ArchiveVerified
  <2> QED
    BY <2>2, <2>3, <2>4
<1>2. CASE WorkLock(p)
  <2> USE <1>2 DEF WorkLock
  <2>1. (IF Acquirable THEN Moves(p, "work_start") ELSE Moves(p, "idle")) /\ Keeps(p)
    BY Going, Ending DEF Steps
  <2>2. TypeOK'
    BY <2>1 DEF TypeOK
  <2>3. ApartInv' /\ CreateInv' /\ ArchiveInv' /\ RestoreInv' /\ RemoveInv'
    BY <2>1 DEF ApartInv, CreateInv, ArchiveInv, RestoreInv, RemoveInv, Acquirable
  <2>4. LockInv' /\ IndexInv' /\ ContentInv' /\ IndexLeads'
    BY <2>1 DEF TypeOK, LockInv, IndexInv, ContentInv, IndexLeads, ArchiveVerified,
       Acquirable
  <2> QED
    BY <2>2, <2>3, <2>4
<1>3. CASE WorkStart(p)
  <2> USE <1>3 DEF WorkStart
  <2>1. (Moves(p, "work_end") \/ Moves(p, "idle")) /\ Keeps(p)
    BY Going, Ending DEF Steps
  <2>2. \/ live' = live /\ Moves(p, "idle")
        \/ /\ live # None /\ lockFile = p /\ lockFile' = p /\ live' \in Directories
           /\ live'.part = live.part /\ live'.life = "running"
           /\ (inspection \/ live.life \in {"created", "running"})
    BY Going, Ending DEF TypeOK, Whole, Lives, Directories, Steps, StepsOf
  <2>3. TypeOK'
    BY <2>1, <2>2 DEF TypeOK, LockReleased
  <2>4. ApartInv' /\ CreateInv' /\ ArchiveInv' /\ RestoreInv' /\ RemoveInv'
    BY <2>1, <2>2 DEF ApartInv, CreateInv, ArchiveInv, RestoreInv, RemoveInv,
       LockReleased, ARCHIVABLE_OPERATION_STATES
  <2>5. LockInv' /\ IndexInv' /\ ContentInv' /\ IndexLeads'
    BY <2>1, <2>2 DEF TypeOK, LockInv, IndexInv, ContentInv, IndexLeads,
       ArchiveVerified, LockReleased
  <2> QED
    BY <2>3, <2>4, <2>5
<1>4. CASE WorkEnd(p)
  <2> USE <1>4 DEF WorkEnd
  <2>1. (Moves(p, "work_publish") \/ Moves(p, "idle")) /\ Keeps(p)
    BY Going, Ending DEF Steps
  <2>2. \/ live' = live
        \/ /\ live # None /\ lockFile = p /\ live' \in Directories
           /\ live'.part = live.part /\ (inspection \/ live.life \in {"created", "running"})
    BY DEF TypeOK, LockInv, Whole, Lives, Directories
  <2>3. TypeOK'
    BY <2>1, <2>2 DEF TypeOK, LockReleased
  <2>4. ApartInv' /\ CreateInv' /\ ArchiveInv' /\ RestoreInv' /\ RemoveInv'
    BY <2>1, <2>2 DEF ApartInv, CreateInv, ArchiveInv, RestoreInv, RemoveInv,
       LockReleased, ARCHIVABLE_OPERATION_STATES
  <2>5. LockInv' /\ IndexInv' /\ ContentInv' /\ IndexLeads'
    BY <2>1, <2>2 DEF TypeOK, LockInv, IndexInv, ContentInv, IndexLeads,
       ArchiveVerified, LockReleased
  <2> QED
    BY <2>3, <2>4, <2>5
<1>5. CASE WorkPublish(p)
  <2> USE <1>5 DEF WorkPublish
  <2>1. Moves(p, "idle") /\ Keeps(p)
    BY Ending DEF Steps
  <2>2. \/ live' = live
        \/ /\ live # None /\ live' \in Directories
           /\ live'.part = live.part /\ live'.life = live.life
    BY ArchiveBoundAssumption DEF TypeOK, Opens, Whole, Directories
  <2>3. TypeOK'
    BY <2>1, <2>2 DEF TypeOK
  <2>4. ApartInv' /\ CreateInv' /\ ArchiveInv' /\ RestoreInv' /\ RemoveInv'
    BY <2>1, <2>2 DEF ApartInv, CreateInv, ArchiveInv, RestoreInv, RemoveInv
  <2>5. LockInv' /\ IndexInv' /\ ContentInv' /\ IndexLeads'
    BY <2>1, <2>2 DEF TypeOK, LockInv, IndexInv, ContentInv, IndexLeads, ArchiveVerified
  <2> QED
    BY <2>3, <2>4, <2>5
<1> QED
  BY <1>1, <1>2, <1>3, <1>4, <1>5

\* archive_operation_workspace keeps the invariant.
LEMMA ArchiveKeeps ==
  ASSUME IInv, KeptApart, NEW p \in Procs,
         ArchiveCheck(p) \/ ArchiveLock(p) \/ ArchiveList(p) \/ ArchiveWrite(p) \/
           ArchiveVerify(p) \/ ArchiveChecksum(p) \/ ArchiveIndex(p) \/
           ArchiveRemove(p) \/ ArchiveRmdir(p) \/ ArchiveFails(p)
  PROVE  IInv'
<1> USE ArchiveProcsAssumption, NoneApart
    DEF IInv, At, files, history, Moves, Keeps, StepsOf, Holding, Whole, Final, Alive,
        IndexSays
<1>1. CASE ArchiveCheck(p)
  <2> USE <1>1 DEF ArchiveCheck
  <2>1. Moves(p, "archive_lock") /\ Keeps(p)
    BY Started, Going DEF Steps
  <2>2. index # None /\ index.state = "live" /\ Whole(live) /\ Final(live.life)
    BY DEF Opens, Final
  <2>3. TypeOK'
    BY <2>1, <2>2 DEF TypeOK
  <2>4. ApartInv' /\ CreateInv' /\ ArchiveInv' /\ RestoreInv' /\ RemoveInv'
    BY <2>1, <2>2, Started DEF ApartInv, CreateInv, ArchiveInv, RestoreInv, RemoveInv,
       IndexInv
  <2>5. LockInv' /\ IndexInv' /\ ContentInv' /\ IndexLeads'
    BY <2>1, <2>2 DEF TypeOK, LockInv, IndexInv, ContentInv, IndexLeads, ArchiveVerified
  <2> QED
    BY <2>3, <2>4, <2>5
<1>2. CASE ArchiveLock(p)
  <2> USE <1>2 DEF ArchiveLock
  <2>1. (IF Acquirable THEN Moves(p, "archive_list") ELSE Moves(p, "idle")) /\ Keeps(p)
    BY Going, Ending DEF Steps
  <2>2. TypeOK'
    BY <2>1 DEF TypeOK
  <2>3. ApartInv' /\ CreateInv' /\ ArchiveInv' /\ RestoreInv' /\ RemoveInv'
    BY <2>1 DEF ApartInv, CreateInv, ArchiveInv, RestoreInv, RemoveInv, Acquirable
  <2>4. LockInv' /\ IndexInv' /\ ContentInv' /\ IndexLeads'
    BY <2>1 DEF TypeOK, LockInv, IndexInv, ContentInv, IndexLeads, ArchiveVerified,
       Acquirable
  <2> QED
    BY <2>2, <2>3, <2>4
<1>3. CASE ArchiveList(p)
  <2> USE <1>3 DEF ArchiveList
  <2>1. ContentOf(live) \in Content
    BY DEF TypeOK, Content, ContentOf, Directories
  <2>2. Moves(p, "archive_write")
    BY Going DEF Steps
  <2>3. Keeps(p)
    BY <2>1 DEF TypeOK, Memories
  <2>4. TypeOK'
    BY <2>1, <2>2, <2>3 DEF TypeOK
  <2>5. ApartInv' /\ CreateInv' /\ ArchiveInv' /\ RestoreInv' /\ RemoveInv'
    BY <2>1, <2>2, <2>3 DEF ApartInv, CreateInv, ArchiveInv, RestoreInv, RemoveInv
  <2>6. LockInv' /\ IndexInv' /\ ContentInv' /\ IndexLeads'
    BY <2>1, <2>2, <2>3 DEF TypeOK, LockInv, IndexInv, ContentInv, IndexLeads,
       ArchiveVerified
  <2> QED
    BY <2>4, <2>5, <2>6
<1>4. CASE ArchiveWrite(p)
  <2> USE <1>4 DEF ArchiveWrite
  <2>1. Moves(p, "archive_verify") /\ Keeps(p)
    BY Going DEF Steps
  <2>2. /\ archive' \in Archives /\ clock' \in Stamps
        /\ archive'.content.whole /\ archive'.content.life = live.life
    BY ArchiveBoundAssumption DEF TypeOK, ArchiveInv, Holding, StepsOf, Whole, Archives,
       Content, ContentOf, Directories, Stamps, Memories
  <2>3. TypeOK'
    BY <2>1, <2>2 DEF TypeOK
  <2>4. ApartInv'
    BY <2>1, <2>2 DEF ApartInv, TypeOK, Stamps
  <2>5. CreateInv'
    BY <2>1, <2>2 DEF CreateInv, ApartInv, TypeOK, Stamps
  <2>6. ArchiveInv'
    BY <2>1, <2>2 DEF ArchiveInv, ApartInv, TypeOK, Stamps
  <2>7. RestoreInv'
    BY <2>1, <2>2 DEF RestoreInv, ApartInv, TypeOK, Stamps
  <2>8. RemoveInv'
    BY <2>1, <2>2, Stamped DEF RemoveInv, ApartInv, TypeOK, Stamps
  <2>9. LockInv' /\ ContentInv' /\ IndexLeads'
    BY <2>1, <2>2 DEF TypeOK, LockInv, ContentInv, IndexLeads, ArchiveVerified,
       ArchiveInv
  <2>10. IndexInv'
    BY <2>1, <2>2, ArchiveBoundAssumption DEF TypeOK, IndexInv, Locations, Stamps
  <2> QED
    BY <2>3, <2>4, <2>5, <2>6, <2>7, <2>8, <2>9, <2>10
<1>5. CASE ArchiveVerify(p)
  <2> USE <1>5 DEF ArchiveVerify
  <2>1. archive # None /\ archive.sum \in Stamps
    BY DEF Matches, TypeOK, Archives
  <2>2. Moves(p, "archive_checksum")
    BY Going DEF Steps
  <2>3. Keeps(p) /\ mem'[p].sum = archive.sum
    BY <2>1 DEF TypeOK, Memories
  <2>4. TypeOK'
    BY <2>1, <2>2, <2>3 DEF TypeOK
  <2>5. ApartInv' /\ CreateInv' /\ ArchiveInv' /\ RestoreInv' /\ RemoveInv'
    BY <2>1, <2>2, <2>3 DEF ApartInv, CreateInv, ArchiveInv, RestoreInv, RemoveInv
  <2>6. LockInv' /\ IndexInv' /\ ContentInv' /\ IndexLeads'
    BY <2>1, <2>2, <2>3 DEF TypeOK, LockInv, IndexInv, ContentInv, IndexLeads,
       ArchiveVerified
  <2> QED
    BY <2>4, <2>5, <2>6
<1>6. CASE ArchiveChecksum(p)
  <2> USE <1>6 DEF ArchiveChecksum
  <2>1. Moves(p, "archive_index") /\ Keeps(p)
    BY Going DEF Steps
  <2>2. checksum' \in Stamps
    BY DEF TypeOK, Memories
  <2>3. TypeOK'
    BY <2>1, <2>2 DEF TypeOK
  <2>4. ApartInv' /\ CreateInv' /\ ArchiveInv' /\ RestoreInv' /\ RemoveInv'
    BY <2>1, <2>2 DEF ApartInv, CreateInv, ArchiveInv, RestoreInv, RemoveInv
  <2>5. LockInv' /\ IndexInv' /\ ContentInv' /\ IndexLeads'
    BY <2>1, <2>2 DEF TypeOK, LockInv, IndexInv, ContentInv, IndexLeads,
       ArchiveVerified, ArchiveInv
  <2> QED
    BY <2>3, <2>4, <2>5
<1>7. CASE ArchiveIndex(p)
  <2> USE <1>7 DEF ArchiveIndex
  <2>1. Moves(p, "archive_remove") /\ Keeps(p)
    BY Going DEF Steps
  <2>2. index' \in Locations /\ index'.state = "archived" /\ index'.sum = mem[p].sum
    BY DEF TypeOK, Memories, Locations
  <2>3. TypeOK'
    BY <2>1, <2>2 DEF TypeOK
  <2>4. ApartInv' /\ CreateInv' /\ ArchiveInv' /\ RestoreInv' /\ RemoveInv'
    BY <2>1, <2>2 DEF ApartInv, CreateInv, ArchiveInv, RestoreInv, RemoveInv
  <2>5. LockInv' /\ IndexInv' /\ ContentInv' /\ IndexLeads'
    BY <2>1, <2>2 DEF TypeOK, LockInv, IndexInv, ContentInv, IndexLeads,
       ArchiveVerified, ArchiveInv
  <2> QED
    BY <2>3, <2>4, <2>5
<1>8. CASE ArchiveRemove(p)
  <2> USE <1>8 DEF ArchiveRemove
  <2>1. Moves(p, "archive_rmdir") /\ Keeps(p)
    BY Going DEF Steps
  <2>2. live' \in Directories /\ live'.life = live.life
    BY PartOf DEF TypeOK, Parts
  <2>3. TypeOK'
    BY <2>1, <2>2 DEF TypeOK
  <2>4. ApartInv' /\ CreateInv' /\ ArchiveInv' /\ RestoreInv' /\ RemoveInv'
    BY <2>1, <2>2 DEF ApartInv, CreateInv, ArchiveInv, RestoreInv, RemoveInv
  <2>5. LockInv' /\ IndexInv' /\ ContentInv' /\ IndexLeads'
    BY <2>1, <2>2 DEF TypeOK, LockInv, IndexInv, ContentInv, IndexLeads,
       ArchiveVerified, ArchiveInv
  <2> QED
    BY <2>3, <2>4, <2>5
<1>9. CASE ArchiveRmdir(p)
  <2> USE <1>9 DEF ArchiveRmdir
  <2>1. Moves(p, "idle") /\ Keeps(p)
    BY Ending DEF Steps
  <2>2. TypeOK'
    BY <2>1 DEF TypeOK
  <2>3. ApartInv' /\ CreateInv' /\ ArchiveInv' /\ RestoreInv' /\ RemoveInv'
    BY <2>1 DEF ApartInv, CreateInv, ArchiveInv, RestoreInv, RemoveInv
  <2>4. LockInv' /\ IndexInv' /\ ContentInv' /\ IndexLeads'
    BY <2>1 DEF TypeOK, LockInv, IndexInv, ContentInv, IndexLeads, ArchiveVerified,
       ArchiveInv
  <2> QED
    BY <2>2, <2>3, <2>4
<1>10. CASE ArchiveFails(p)
  <2> USE <1>10 DEF ArchiveFails
  <2>1. Moves(p, "idle") /\ Keeps(p)
    BY Ending DEF Steps
  <2>2. TypeOK'
    BY <2>1 DEF TypeOK, LockReleased
  <2>3. ApartInv' /\ CreateInv' /\ ArchiveInv' /\ RestoreInv' /\ RemoveInv'
    BY <2>1 DEF ApartInv, CreateInv, ArchiveInv, RestoreInv, RemoveInv, ArchiveSteps,
       LockReleased
  <2>4. LockInv' /\ IndexInv' /\ ContentInv' /\ IndexLeads'
    BY <2>1 DEF TypeOK, LockInv, IndexInv, ContentInv, IndexLeads, ArchiveVerified,
       LockReleased, ArchiveSteps
  <2> QED
    BY <2>2, <2>3, <2>4
<1> QED
  BY <1>1, <1>2, <1>3, <1>4, <1>5, <1>6, <1>7, <1>8, <1>9, <1>10

\* restore_operation_archive keeps the invariant.
LEMMA RestoreKeeps ==
  ASSUME IInv, KeptApart, NEW p \in Procs,
         RestoreCheck(p) \/ RestoreExtract(p) \/ RestorePublish(p) \/
           RestoreIndex(p) \/ RestoreUnlink(p) \/ RestoreChecksum(p) \/ RestoreFails(p)
  PROVE  IInv'
<1> USE ArchiveProcsAssumption, NoneApart
    DEF IInv, At, files, history, Moves, Keeps, StepsOf, Holding, Whole, Final, Alive,
        IndexSays
<1>1. CASE RestoreCheck(p)
  <2> USE <1>1 DEF RestoreCheck
  <2>1. /\ index # None /\ index \in Locations /\ index.state = "archived"
        /\ archive.content \in Content /\ Final(archive.content.life)
    BY DEF TypeOK, Archives, ArchiveVerified, ContentInv
  <2>2. Moves(p, "restore_extract")
    BY Started, Going DEF Steps
  <2>3. Keeps(p) /\ mem'[p].loc = index /\ mem'[p].seen = archive.content
    BY <2>1 DEF TypeOK, Memories
  <2>4. TypeOK'
    BY <2>1, <2>2, <2>3 DEF TypeOK
  <2>5. ApartInv' /\ CreateInv' /\ ArchiveInv' /\ RestoreInv' /\ RemoveInv'
    BY <2>1, <2>2, <2>3, Started DEF ApartInv, CreateInv, ArchiveInv, RestoreInv,
       RemoveInv, IndexInv
  <2>6. LockInv' /\ IndexInv' /\ ContentInv' /\ IndexLeads'
    BY <2>1, <2>2, <2>3 DEF TypeOK, LockInv, IndexInv, ContentInv, IndexLeads,
       ArchiveVerified
  <2> QED
    BY <2>4, <2>5, <2>6
<1>2. CASE RestoreExtract(p)
  <2> USE <1>2 DEF RestoreExtract
  <2>1. Moves(p, "restore_publish") /\ Keeps(p)
    BY Going DEF Steps
  <2>2. TypeOK'
    BY <2>1 DEF TypeOK
  <2>3. ApartInv' /\ CreateInv' /\ ArchiveInv' /\ RestoreInv' /\ RemoveInv'
    BY <2>1 DEF ApartInv, CreateInv, ArchiveInv, RestoreInv, RemoveInv
  <2>4. LockInv' /\ IndexInv' /\ ContentInv' /\ IndexLeads'
    BY <2>1 DEF TypeOK, LockInv, IndexInv, ContentInv, IndexLeads, ArchiveVerified
  <2> QED
    BY <2>2, <2>3, <2>4
<1>3. CASE RestorePublish(p)
  <2> USE <1>3 DEF RestorePublish
  <2>1. Moves(p, "restore_index") /\ Keeps(p)
    BY Going DEF Steps
  <2>2. live' \in Directories /\ live'.part = "whole" /\ live'.life = mem[p].seen.life
    BY DEF TypeOK, Directories, Parts, Memories, Content
  <2>3. TypeOK'
    BY <2>1, <2>2 DEF TypeOK
  <2>4. ApartInv' /\ CreateInv' /\ ArchiveInv' /\ RestoreInv' /\ RemoveInv'
    BY <2>1, <2>2 DEF ApartInv, CreateInv, ArchiveInv, RestoreInv, RemoveInv
  <2>5. LockInv' /\ IndexInv' /\ ContentInv' /\ IndexLeads'
    BY <2>1, <2>2 DEF TypeOK, LockInv, IndexInv, ContentInv, IndexLeads, ArchiveVerified
  <2> QED
    BY <2>3, <2>4, <2>5
<1>4. CASE RestoreIndex(p)
  <2> USE <1>4 DEF RestoreIndex
  <2>1. Moves(p, "restore_unlink") /\ Keeps(p)
    BY Going DEF Steps
  <2>2. /\ index' \in Locations /\ index'.state = "live"
        /\ index'.sum = clock' /\ clock' \in Stamps
    BY ArchiveBoundAssumption DEF TypeOK, Locations, Stamps
  <2>3. TypeOK'
    BY <2>1, <2>2 DEF TypeOK
  <2>4. ApartInv'
    BY <2>1, <2>2 DEF ApartInv, TypeOK, Stamps
  <2>5. CreateInv'
    BY <2>1, <2>2 DEF CreateInv, ApartInv, TypeOK, Stamps
  <2>6. ArchiveInv'
    BY <2>1, <2>2 DEF ArchiveInv, ApartInv, TypeOK, Stamps
  <2>7. RestoreInv'
    BY <2>1, <2>2 DEF RestoreInv, ApartInv, TypeOK, Stamps
  <2>8. RemoveInv'
    BY <2>1, <2>2, Stamped DEF RemoveInv, ApartInv, TypeOK, Stamps
  <2>9. LockInv' /\ ContentInv' /\ IndexLeads'
    BY <2>1, <2>2 DEF TypeOK, LockInv, ContentInv, IndexLeads, ArchiveVerified,
       RestoreInv
  <2>10. IndexInv'
    BY <2>1, <2>2, ArchiveBoundAssumption DEF TypeOK, IndexInv, Locations, Stamps,
       RestoreInv
  <2> QED
    BY <2>3, <2>4, <2>5, <2>6, <2>7, <2>8, <2>9, <2>10
<1>5. CASE RestoreUnlink(p)
  <2> USE <1>5 DEF RestoreUnlink
  <2>1. Moves(p, "restore_checksum") /\ Keeps(p)
    BY Going DEF Steps
  <2>2. TypeOK'
    BY <2>1 DEF TypeOK
  <2>3. ApartInv' /\ CreateInv' /\ ArchiveInv' /\ RestoreInv' /\ RemoveInv'
    BY <2>1 DEF ApartInv, CreateInv, ArchiveInv, RestoreInv, RemoveInv
  <2>4. LockInv' /\ IndexInv' /\ ContentInv' /\ IndexLeads'
    BY <2>1 DEF TypeOK, LockInv, IndexInv, ContentInv, IndexLeads, ArchiveVerified,
       RestoreInv
  <2> QED
    BY <2>2, <2>3, <2>4
<1>6. CASE RestoreChecksum(p)
  <2> USE <1>6 DEF RestoreChecksum
  <2>1. Moves(p, "idle") /\ Keeps(p)
    BY Ending DEF Steps
  <2>2. TypeOK'
    BY <2>1 DEF TypeOK
  <2>3. ApartInv' /\ CreateInv' /\ ArchiveInv' /\ RestoreInv' /\ RemoveInv'
    BY <2>1 DEF ApartInv, CreateInv, ArchiveInv, RestoreInv, RemoveInv
  <2>4. LockInv' /\ IndexInv' /\ ContentInv' /\ IndexLeads'
    BY <2>1 DEF TypeOK, LockInv, IndexInv, ContentInv, IndexLeads, ArchiveVerified,
       RestoreInv
  <2> QED
    BY <2>2, <2>3, <2>4
<1>7. CASE RestoreFails(p)
  <2> USE <1>7 DEF RestoreFails
  <2>1. Moves(p, "idle") /\ Keeps(p)
    BY Ending DEF Steps
  <2>2. TypeOK'
    BY <2>1 DEF TypeOK
  <2>3. ApartInv' /\ CreateInv' /\ ArchiveInv' /\ RestoreInv' /\ RemoveInv'
    BY <2>1 DEF ApartInv, CreateInv, ArchiveInv, RestoreInv, RemoveInv
  <2>4. LockInv' /\ IndexInv' /\ ContentInv' /\ IndexLeads'
    BY <2>1 DEF TypeOK, LockInv, IndexInv, ContentInv, IndexLeads, ArchiveVerified,
       RestoreInv
  <2> QED
    BY <2>2, <2>3, <2>4
<1> QED
  BY <1>1, <1>2, <1>3, <1>4, <1>5, <1>6, <1>7

\* delete_archived_operation keeps the invariant.
LEMMA DeleteKeeps ==
  ASSUME IInv, KeptApart, NEW p \in Procs,
         DeleteCheck(p) \/ DeleteArchive(p) \/ DeleteChecksum(p) \/ DeleteIndex(p) \/
           DeleteFails(p)
  PROVE  IInv'
<1> USE ArchiveProcsAssumption, NoneApart
    DEF IInv, At, files, history, Moves, Keeps, StepsOf, Holding, Whole, Final, Alive,
        IndexSays
<1>1. CASE DeleteCheck(p)
  <2> USE <1>1 DEF DeleteCheck
  <2>1. Moves(p, "delete_archive") /\ Keeps(p)
    BY Started, Going DEF Steps
  <2>2. index # None
    BY DEF ArchiveVerified
  <2>3. TypeOK'
    BY <2>1, <2>2 DEF TypeOK
  <2>4. ApartInv' /\ CreateInv' /\ ArchiveInv' /\ RestoreInv' /\ RemoveInv'
    BY <2>1, <2>2, Started DEF ApartInv, CreateInv, ArchiveInv, RestoreInv, RemoveInv,
       IndexInv
  <2>5. LockInv' /\ IndexInv' /\ ContentInv' /\ IndexLeads'
    BY <2>1, <2>2 DEF TypeOK, LockInv, IndexInv, ContentInv, IndexLeads, ArchiveVerified
  <2> QED
    BY <2>3, <2>4, <2>5
<1>2. CASE DeleteArchive(p)
  <2> USE <1>2 DEF DeleteArchive
  <2>1. /\ IF archive # None THEN Moves(p, "delete_checksum") ELSE Moves(p, "idle")
        /\ Keeps(p)
    BY Going, Ending DEF Steps
  <2>2. TypeOK'
    BY <2>1 DEF TypeOK
  <2>3. ApartInv'
    BY <2>1 DEF ApartInv
  <2>4. CreateInv'
    BY <2>1 DEF CreateInv, ApartInv
  <2>5. ArchiveInv'
    BY <2>1 DEF ArchiveInv, ApartInv
  <2>6. RestoreInv'
    BY <2>1 DEF RestoreInv, ApartInv
  <2>7. RemoveInv'
    BY <2>1 DEF RemoveInv, ApartInv
  <2>8. LockInv' /\ IndexInv' /\ ContentInv' /\ IndexLeads'
    BY <2>1 DEF TypeOK, LockInv, IndexInv, ContentInv, IndexLeads, ArchiveVerified
  <2> QED
    BY <2>2, <2>3, <2>4, <2>5, <2>6, <2>7, <2>8
<1>3. CASE DeleteChecksum(p)
  <2> USE <1>3 DEF DeleteChecksum
  <2>1. (IF checksum # None THEN Moves(p, "delete_index") ELSE Moves(p, "idle")) /\ Keeps(p)
    BY Going, Ending DEF Steps
  <2>2. TypeOK'
    BY <2>1 DEF TypeOK
  <2>3. ApartInv' /\ CreateInv' /\ ArchiveInv' /\ RestoreInv' /\ RemoveInv'
    BY <2>1 DEF ApartInv, CreateInv, ArchiveInv, RestoreInv, RemoveInv
  <2>4. LockInv' /\ IndexInv' /\ ContentInv' /\ IndexLeads'
    BY <2>1 DEF TypeOK, LockInv, IndexInv, ContentInv, IndexLeads, ArchiveVerified,
       RemoveInv
  <2> QED
    BY <2>2, <2>3, <2>4
<1>4. CASE DeleteIndex(p)
  <2> USE <1>4 DEF DeleteIndex
  <2>1. Moves(p, "idle") /\ Keeps(p)
    BY Ending DEF Steps
  <2>2. TypeOK'
    BY <2>1 DEF TypeOK
  <2>3. ApartInv' /\ CreateInv' /\ ArchiveInv' /\ RestoreInv' /\ RemoveInv'
    BY <2>1 DEF ApartInv, CreateInv, ArchiveInv, RestoreInv, RemoveInv
  <2>4. LockInv' /\ IndexInv' /\ ContentInv' /\ IndexLeads'
    BY <2>1 DEF TypeOK, LockInv, IndexInv, ContentInv, IndexLeads, ArchiveVerified,
       RemoveInv
  <2> QED
    BY <2>2, <2>3, <2>4
<1>5. CASE DeleteFails(p)
  <2> USE <1>5 DEF DeleteFails
  <2>1. Moves(p, "idle") /\ Keeps(p)
    BY Ending DEF Steps
  <2>2. TypeOK'
    BY <2>1 DEF TypeOK
  <2>3. ApartInv' /\ CreateInv' /\ ArchiveInv' /\ RestoreInv' /\ RemoveInv'
    BY <2>1 DEF ApartInv, CreateInv, ArchiveInv, RestoreInv, RemoveInv
  <2>4. LockInv' /\ IndexInv' /\ ContentInv' /\ IndexLeads'
    BY <2>1 DEF TypeOK, LockInv, IndexInv, ContentInv, IndexLeads, ArchiveVerified
  <2> QED
    BY <2>2, <2>3, <2>4
<1> QED
  BY <1>1, <1>2, <1>3, <1>4, <1>5

\* remove_missing_live_operation_index keeps the invariant.
LEMMA MissingKeeps ==
  ASSUME IInv, KeptApart, NEW p \in Procs,
         MissingRead(p) \/ MissingLook(p) \/ MissingReread(p) \/ MissingUnlink(p)
  PROVE  IInv'
<1> USE ArchiveProcsAssumption, NoneApart
    DEF IInv, At, files, history, Moves, Keeps, StepsOf, Holding, Whole, Final, Alive,
        IndexSays
<1>1. CASE MissingRead(p)
  <2> USE <1>1 DEF MissingRead
  <2>1. index # None /\ index \in Locations
    BY DEF TypeOK
  <2>2. Moves(p, "missing_look")
    BY Started, Going DEF Steps
  <2>3. Keeps(p) /\ mem'[p].loc = index
    BY <2>1 DEF TypeOK, Memories
  <2>4. TypeOK'
    BY <2>1, <2>2, <2>3 DEF TypeOK
  <2>5. ApartInv' /\ CreateInv' /\ ArchiveInv' /\ RestoreInv' /\ RemoveInv'
    BY <2>1, <2>2, <2>3, Started DEF ApartInv, CreateInv, ArchiveInv, RestoreInv,
       RemoveInv, IndexInv
  <2>6. LockInv' /\ IndexInv' /\ ContentInv' /\ IndexLeads'
    BY <2>1, <2>2, <2>3 DEF TypeOK, LockInv, IndexInv, ContentInv, IndexLeads,
       ArchiveVerified
  <2> QED
    BY <2>4, <2>5, <2>6
<1>2. CASE MissingLook(p)
  <2> USE <1>2 DEF MissingLook
  <2>1. (IF live = None THEN Moves(p, "missing_reread") ELSE Moves(p, "idle")) /\ Keeps(p)
    BY Going, Ending DEF Steps
  <2>2. TypeOK'
    BY <2>1 DEF TypeOK
  <2>3. ApartInv'
    BY <2>1 DEF ApartInv, IndexLeads
  <2>4. CreateInv'
    BY <2>1 DEF CreateInv, ApartInv, IndexLeads
  <2>5. ArchiveInv'
    BY <2>1 DEF ArchiveInv, ApartInv, IndexLeads
  <2>6. RestoreInv'
    BY <2>1 DEF RestoreInv, ApartInv, IndexLeads
  <2>7. RemoveInv'
    BY <2>1 DEF RemoveInv, ApartInv, IndexLeads
  <2>8. LockInv' /\ IndexInv' /\ ContentInv' /\ IndexLeads'
    BY <2>1 DEF TypeOK, LockInv, IndexInv, ContentInv, IndexLeads, ArchiveVerified
  <2> QED
    BY <2>2, <2>3, <2>4, <2>5, <2>6, <2>7, <2>8
<1>3. CASE MissingReread(p)
  <2> USE <1>3 DEF MissingReread
  <2>1. /\ IF index = mem[p].loc THEN Moves(p, "missing_unlink") ELSE Moves(p, "idle")
        /\ Keeps(p)
    BY Going, Ending DEF Steps
  <2>2. TypeOK'
    BY <2>1 DEF TypeOK
  <2>3. ApartInv'
    BY <2>1 DEF ApartInv
  <2>4. CreateInv'
    BY <2>1 DEF CreateInv, ApartInv
  <2>5. ArchiveInv'
    BY <2>1 DEF ArchiveInv, ApartInv
  <2>6. RestoreInv'
    BY <2>1 DEF RestoreInv, ApartInv
  <2>7. RemoveInv'
    BY <2>1 DEF RemoveInv, ApartInv
  <2>8. LockInv' /\ IndexInv' /\ ContentInv' /\ IndexLeads'
    BY <2>1 DEF TypeOK, LockInv, IndexInv, ContentInv, IndexLeads, ArchiveVerified
  <2> QED
    BY <2>2, <2>3, <2>4, <2>5, <2>6, <2>7, <2>8
<1>4. CASE MissingUnlink(p)
  <2> USE <1>4 DEF MissingUnlink
  <2>1. Moves(p, "idle") /\ Keeps(p)
    BY Ending DEF Steps
  <2>2. TypeOK'
    BY <2>1 DEF TypeOK
  <2>3. ApartInv' /\ CreateInv' /\ ArchiveInv' /\ RestoreInv' /\ RemoveInv'
    BY <2>1 DEF ApartInv, CreateInv, ArchiveInv, RestoreInv, RemoveInv
  <2>4. LockInv' /\ IndexInv' /\ ContentInv' /\ IndexLeads'
    BY <2>1 DEF TypeOK, LockInv, IndexInv, ContentInv, IndexLeads, ArchiveVerified,
       RemoveInv
  <2> QED
    BY <2>2, <2>3, <2>4
<1> QED
  BY <1>1, <1>2, <1>3, <1>4

\* Faults keep the invariant.
LEMMA FaultKeeps ==
  ASSUME IInv, KeptApart, NEW p \in Procs,
         Kill(p) \/ Interrupt(p)
  PROVE  IInv'
<1> USE ArchiveProcsAssumption, NoneApart
    DEF IInv, At, files, history, Moves, Keeps, StepsOf, Holding, Whole, Final, Alive,
        IndexSays
<1>1. CASE Kill(p)
  <2> USE <1>1 DEF Kill
  <2>1. Moves(p, "idle") /\ Keeps(p)
    BY Ending DEF Steps
  <2>2. TypeOK'
    BY <2>1 DEF TypeOK
  <2>3. ApartInv' /\ CreateInv' /\ ArchiveInv' /\ RestoreInv' /\ RemoveInv'
    BY <2>1 DEF ApartInv, CreateInv, ArchiveInv, RestoreInv, RemoveInv
  <2>4. LockInv' /\ IndexInv' /\ ContentInv' /\ IndexLeads'
    BY <2>1 DEF TypeOK, LockInv, IndexInv, ContentInv, IndexLeads, ArchiveVerified
  <2> QED
    BY <2>2, <2>3, <2>4
<1>2. CASE Interrupt(p)
  <2> USE <1>2 DEF Interrupt
  <2>1. Moves(p, "idle") /\ Keeps(p)
    BY Ending DEF Steps
  <2>2. TypeOK'
    BY <2>1 DEF TypeOK, LockReleased
  <2>3. ApartInv' /\ CreateInv' /\ ArchiveInv' /\ RestoreInv' /\ RemoveInv'
    BY <2>1 DEF ApartInv, CreateInv, ArchiveInv, RestoreInv, RemoveInv, LockReleased
  <2>4. LockInv' /\ IndexInv' /\ ContentInv' /\ IndexLeads'
    BY <2>1 DEF TypeOK, LockInv, IndexInv, ContentInv, IndexLeads, ArchiveVerified,
       LockReleased
  <2> QED
    BY <2>2, <2>3, <2>4
<1> QED
  BY <1>1, <1>2

\* The operator's own steps keep the invariant.
LEMMA OperatorKeeps ==
  ASSUME IInv, RemoveStaleLock \/ RemoveDirectory
  PROVE  IInv'
<1> USE ArchiveProcsAssumption, NoneApart
    DEF IInv, At, files, history, StepsOf, Holding, Whole, Final, Alive, IndexSays
<1>1. CASE RemoveStaleLock
  <2> USE <1>1 DEF RemoveStaleLock
  <2>1. TypeOK'
    BY DEF TypeOK
  <2>2. ApartInv' /\ CreateInv' /\ ArchiveInv' /\ RestoreInv' /\ RemoveInv'
    BY DEF ApartInv, CreateInv, ArchiveInv, RestoreInv, RemoveInv
  <2>3. LockInv' /\ IndexInv' /\ ContentInv' /\ IndexLeads'
    BY DEF LockInv, IndexInv, ContentInv, IndexLeads, ArchiveVerified
  <2> QED
    BY <2>1, <2>2, <2>3
<1>2. CASE RemoveDirectory
  <2> USE <1>2 DEF RemoveDirectory
  <2>1. TypeOK'
    BY DEF TypeOK
  <2>2. ApartInv' /\ CreateInv' /\ ArchiveInv' /\ RestoreInv' /\ RemoveInv'
    BY DEF ApartInv, CreateInv, ArchiveInv, RestoreInv, RemoveInv, Opens
  <2>3. LockInv' /\ IndexInv' /\ ContentInv' /\ IndexLeads'
    BY DEF LockInv, IndexInv, ContentInv, IndexLeads, ArchiveVerified
  <2> QED
    BY <2>1, <2>2, <2>3
<1> QED
  BY <1>1, <1>2

\* At first there is nothing, and every process is idle.
LEMMA Beginning ==
  ASSUME Init PROVE IInv
<1> USE DEF Init
<1>1. Forgotten \in Memories /\ 0 \in Stamps
  BY ArchiveBoundAssumption DEF Forgotten, Blank, Stamps, Content, Lives, Memories
<1>2. "idle" \in Steps
  BY DEF Steps
<1>3. TypeOK
  BY <1>1, <1>2 DEF TypeOK
<1>4. ApartInv /\ CreateInv /\ ArchiveInv /\ RestoreInv /\ RemoveInv
  BY DEF ApartInv, CreateInv, ArchiveInv, RestoreInv, RemoveInv, StepsOf, At, Holding
<1>5. LockInv /\ IndexInv /\ ContentInv /\ IndexLeads
  BY DEF LockInv, IndexInv, ContentInv, IndexLeads, At
<1> QED
  BY <1>3, <1>4, <1>5 DEF IInv

\* Every step, and a stuttering one, keeps the invariant.
LEMMA Stepping ==
  ASSUME IInv, KeptApart, [Next]_vars
  PROVE  IInv'
<1>1. ASSUME NEW p \in Procs, Step(p) PROVE IInv'
  BY <1>1, CreateKeeps, WorkKeeps, ArchiveKeeps, RestoreKeeps, DeleteKeeps,
     MissingKeeps, FaultKeeps DEF Step
<1>2. CASE UNCHANGED vars
  <2> USE <1>2 DEF vars
  <2>1. TypeOK' /\ ApartInv' /\ CreateInv' /\ ArchiveInv' /\ RestoreInv' /\ RemoveInv'
    BY DEF IInv, TypeOK, ApartInv, CreateInv, ArchiveInv, RestoreInv, RemoveInv, At,
           Alive, IndexSays, Whole, Final
  <2>2. LockInv' /\ IndexInv' /\ ContentInv' /\ IndexLeads'
    BY DEF IInv, LockInv, IndexInv, ContentInv, IndexLeads, ArchiveVerified, At, Whole,
           Final
  <2> QED
    BY <2>1, <2>2 DEF IInv
<1> QED
  BY <1>1, <1>2, OperatorKeeps DEF Next

\* Where an Operation is stored, and what each process is about to do to it, always
\* agree.
THEOREM Invariance ==
  ASSUME KeptApart
  PROVE  Spec => []IInv
<1>1. Init => IInv
  BY Beginning
<1>2. IInv /\ [Next]_vars => IInv'
  BY Stepping
<1> QED
  BY <1>1, <1>2, PTL DEF Spec

\* Every variable has its type.
THEOREM TypeCorrect ==
  ASSUME KeptApart
  PROVE  Spec => []TypeOK
<1>1. IInv => TypeOK
  BY DEF IInv
<1> QED
  BY <1>1, Invariance, PTL

\* The index of an Operation nobody deleted leads to a whole directory, or to a complete
\* archive that has the recorded hash: after any kill, interrupt and failed write.
THEOREM IndexTrue ==
  ASSUME KeptApart
  PROVE  Spec => []IndexLeads
<1>1. IInv => IndexLeads
  BY DEF IInv
<1> QED
  BY <1>1, Invariance, PTL

\* So the Operation itself is never lost.
THEOREM NothingLost ==
  ASSUME KeptApart
  PROVE  Spec => []NeverLost
<1>1. IInv => NeverLost
  BY DEF IInv, TypeOK, IndexLeads, NeverLost, ArchiveVerified, Locations
<1> QED
  BY <1>1, Invariance, PTL

\* What is archived is final, however late the archive command reads it.
THEOREM FinalArchived ==
  ASSUME KeptApart
  PROVE  Spec => []ArchivedIsFinal
<1>1. IInv => ArchivedIsFinal
  BY DEF IInv, ContentInv, ArchivedIsFinal, ArchiveVerified, Final
<1> QED
  BY <1>1, Invariance, PTL

=============================================================================
