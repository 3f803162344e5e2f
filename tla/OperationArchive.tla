--------------------------- MODULE OperationArchive ---------------------------
(***************************************************************************)
(* Where one Operation is stored (alred/operation.py): a live directory,   *)
(* or an archive file with its checksum file, and an index that says which *)
(* of the two the commands resolve the change ID to.  create, archive,     *)
(* restore and delete move it between them in several file operations;     *)
(* only archive and the commands that work on the Operation take its lock, *)
(* which lies inside the live directory.  Any process may be killed, be    *)
(* interrupted or fail between two of its file operations.                 *)
(***************************************************************************)
EXTENDS OperationStates, Naturals

CONSTANTS
  Procs,       \* the alred processes that may run at the same time
  None,        \* Python's None, and a file that is absent
  Gone,        \* the owner of a lock file whose process died
  Faults,      \* the faults of this instance, among "kill", "interrupt", "fail"
  MaxClock,    \* bound: archives and live index documents written
  MaxFiles,    \* bound: attempts published
  Jobs,        \* the commands of this instance
  Apart        \* pairs of commands the operator never runs at the same time

Commands == {"create", "work", "archive", "restore", "delete", "missing"}

ASSUME ArchiveProcsAssumption == Gone \notin Procs /\ None \notin Procs \cup {Gone}
ASSUME ArchiveBoundAssumption == MaxClock \in Nat /\ MaxFiles \in Nat
ASSUME ArchiveFaultsAssumption ==
  Faults \subseteq {"kill", "interrupt", "fail"}
ASSUME ArchiveJobsAssumption == Jobs \subseteq Commands /\ Apart \subseteq SUBSET Commands

\* The lifecycles told apart; completed_with_warnings and cancelled are
\* archived as completed is, state_unknown is refused as failed is.
Lives == {"created", "running", "completed", "failed"}

Stamps == 0..MaxClock

\* What the Operation's directory holds: its documents and how many published
\* attempts.  part tells how much of the directory is there.
Content == [whole : BOOLEAN, life : Lives, files : 0..MaxFiles]
Parts == {"empty", "metadata", "whole", "torn"}
Blank == [whole |-> FALSE, life |-> "created", files |-> 0]
ContentOf(dir) ==
  [whole |-> dir.part = "whole", life |-> dir.life, files |-> dir.files]

\* The file operations of each command, named for what comes next.
StepsOf ==
  [create  |-> {"create_metadata", "create_execution", "create_index"},
   work    |-> {"work_lock", "work_start", "work_end", "work_publish"},
   archive |-> {"archive_lock", "archive_list", "archive_write",
                "archive_verify", "archive_checksum", "archive_index",
                "archive_remove", "archive_rmdir"},
   restore |-> {"restore_extract", "restore_publish", "restore_index",
                "restore_unlink", "restore_checksum"},
   delete  |-> {"delete_archive", "delete_checksum", "delete_index"},
   missing |-> {"missing_look", "missing_reread", "missing_unlink"}]
Steps == {"idle"} \cup StepsOf.create \cup StepsOf.work \cup StepsOf.archive
           \cup StepsOf.restore \cup StepsOf.delete \cup StepsOf.missing

VARIABLES
  \* the file system
  live,      \* None, or the live directory: part of it and its content
  lockFile,  \* None, or the process that created .operation.lock
  index,     \* None, or the OperationLocation document
  archive,   \* None, or <change-id>.tar.gz: its SHA-256 and its content
  checksum,  \* None, or the SHA-256 in <change-id>.tar.gz.sha256
  \* the processes
  pc,        \* the next file operation of each process
  mem,       \* what it read: the location, the hash and the listed content
  inspection, \* is this an inspection, whose final lifecycle a retry reopens?
  \* history
  clock,     \* archives and live index documents so far: each has its own
             \* SHA-256 or updated_at
  existed,   \* the Operation has been created
  discarded  \* the operator had it deleted, or removed the directory by hand

files == <<live, lockFile, index, archive, checksum>>
history == <<inspection, clock, existed, discarded>>
vars == <<live, lockFile, index, archive, checksum, pc, mem, inspection,
          clock, existed, discarded>>

Directories == [part : Parts, life : Lives, files : 0..MaxFiles]
Locations == [state : {"live", "archived"}, sum : Stamps]
Archives == [sum : Stamps, content : Content]
Memories == [loc : Locations \cup {None}, sum : Stamps, seen : Content]
Forgotten == [loc |-> None, sum |-> 0, seen |-> Blank]

ASSUME ArchiveNoneAssumption ==
  None \notin Directories \cup Locations \cup Archives \cup Stamps

Init ==
  /\ live = None /\ lockFile = None /\ index = None
  /\ archive = None /\ checksum = None
  /\ pc = [p \in Procs |-> "idle"]
  /\ mem = [p \in Procs |-> Forgotten]
  /\ inspection \in BOOLEAN
  /\ clock = 0 /\ existed = FALSE /\ discarded = FALSE

-----------------------------------------------------------------------------
(* Shared steps                                                            *)

Whole(dir) == dir # None /\ dir.part = "whole"

At(p, here) == pc[p] = here
Goto(p, there) == pc' = [pc EXCEPT ![p] = there]

\* A process is free to run the command, and the operator does not keep it
\* apart from one that is running.
MayStart(p, job) ==
  /\ job \in Jobs /\ At(p, "idle")
  /\ \A q \in Procs, other \in Commands :
       {job, other} \in Apart => pc[q] \notin StepsOf[other]

\* The process ends, with or without an error.
End(p) ==
  /\ pc' = [pc EXCEPT ![p] = "idle"]
  /\ mem' = [mem EXCEPT ![p] = Forgotten]

\* open_operation_workspace: the index must not say archived and must lead to
\* a directory with metadata.  Without an index the legacy path is tried.
Opens == index # None /\ index.state = "live" /\ Whole(live)

\* OperationLock.acquire: O_EXCL inside the live directory, which must exist.
Acquirable == live # None /\ lockFile = None

\* The with block, or finally, gives up a lock that is still this process's.
LockReleased(p) == lockFile' = IF lockFile = p THEN None ELSE lockFile

-----------------------------------------------------------------------------
(* create_operation_workspace                                              *)

\* operation_location_exists is false and mkdir does not find the directory.
CreateDirectory(p) ==
  /\ MayStart(p, "create")
  /\ index = None /\ live = None
  /\ live' = [part |-> "empty", life |-> "created", files |-> 0]
  /\ Goto(p, "create_metadata")
  /\ UNCHANGED <<lockFile, index, archive, checksum, mem, history>>

CreateMetadata(p) ==
  /\ At(p, "create_metadata") /\ live # None
  /\ live' = [live EXCEPT !.part = "metadata"]
  /\ Goto(p, "create_execution")
  /\ UNCHANGED <<lockFile, index, archive, checksum, mem, history>>

CreateExecution(p) ==
  /\ At(p, "create_execution") /\ live # None
  /\ live' = [live EXCEPT !.part = "whole"]
  /\ Goto(p, "create_index")
  /\ UNCHANGED <<lockFile, index, archive, checksum, mem, history>>

CreateIndex(p) ==
  /\ At(p, "create_index") /\ clock < MaxClock
  /\ index' = [state |-> "live", sum |-> clock + 1]
  /\ clock' = clock + 1
  /\ existed' = TRUE /\ discarded' = FALSE
  /\ End(p)
  /\ UNCHANGED <<live, lockFile, archive, checksum, inspection>>

\* A failing write: the two documents are unlinked, and the directory removed
\* unless another process has its lock there.
CreateFails(p) ==
  /\ pc[p] \in StepsOf.create
  /\ "fail" \in Faults
  /\ live' = IF lockFile = None THEN None ELSE [live EXCEPT !.part = "empty"]
  /\ End(p)
  /\ UNCHANGED <<lockFile, index, archive, checksum, history>>

-----------------------------------------------------------------------------
(* A command that works on the Operation: a health attempt or a managed    *)
(* command.  It takes the lock for its transitions, and health attempts    *)
(* publish their artifacts after they have released it.                    *)

WorkOpen(p) ==
  /\ MayStart(p, "work")
  /\ Opens
  /\ Goto(p, "work_lock")
  /\ UNCHANGED <<files, mem, history>>

WorkLock(p) ==
  /\ At(p, "work_lock")
  /\ IF Acquirable
     THEN lockFile' = p /\ Goto(p, "work_start") /\ UNCHANGED mem
     ELSE UNCHANGED lockFile /\ End(p)
  /\ UNCHANGED <<live, index, archive, checksum, history>>

\* transition_operation to running, from created or by an inspection retry;
\* any other lifecycle but running is refused, and the lock released.
WorkStart(p) ==
  /\ At(p, "work_start")
  /\ IF /\ lockFile = p /\ Whole(live)
        /\ \/ live.life \in {"created", "running"}
           \/ inspection /\ live.life = "completed"
     THEN /\ live' = [live EXCEPT !.life = "running"]
          /\ Goto(p, "work_end")
          /\ UNCHANGED <<lockFile, mem>>
     ELSE UNCHANGED live /\ LockReleased(p) /\ End(p)
  /\ UNCHANGED <<index, archive, checksum, history>>

\* The work ends and the with block is left.  The attempt of an inspection
\* completes the Operation before its artifacts are published, that of a change
\* leaves it open, as a failed attempt does; other commands end it.
WorkEnd(p) ==
  /\ At(p, "work_end")
  /\ LockReleased(p)
  /\ IF lockFile = p /\ Whole(live)
     THEN \/ /\ live' = [live EXCEPT !.life = IF inspection THEN "completed" ELSE @]
             /\ Goto(p, "work_publish")
             /\ UNCHANGED mem
          \/ /\ ~inspection
             /\ \E life \in {"completed", "failed"} :
                  live' = [live EXCEPT !.life = life]
             /\ End(p)
          \/ UNCHANGED live /\ End(p)
     ELSE UNCHANGED live /\ End(p)
  /\ UNCHANGED <<index, archive, checksum, history>>

\* The command opens the workspace again and publishes without the lock.
WorkPublish(p) ==
  /\ At(p, "work_publish")
  /\ IF Opens
     THEN /\ live.files < MaxFiles
          /\ live' = [live EXCEPT !.files = @ + 1]
     ELSE UNCHANGED live
  /\ End(p)
  /\ UNCHANGED <<lockFile, index, archive, checksum, history>>

-----------------------------------------------------------------------------
(* archive_operation_workspace                                             *)

\* MUTANT of ArchiveCheck: the lifecycle is not looked at.
ArchiveCheckAnyState(p) ==
  /\ MayStart(p, "archive")
  /\ Opens
  /\ lockFile = None
  /\ archive = None
  /\ Goto(p, "archive_lock")
  /\ UNCHANGED <<files, mem, history>>

\* The checks, on the metadata as it is before the lock is taken.  The age
\* threshold is zero days.
ArchiveCheck(p) ==
  /\ MayStart(p, "archive")
  /\ Opens
  /\ live.life \in ARCHIVABLE_OPERATION_STATES
  /\ lockFile = None
  /\ archive = None
  /\ Goto(p, "archive_lock")
  /\ UNCHANGED <<files, mem, history>>

ArchiveLock(p) ==
  /\ At(p, "archive_lock")
  /\ IF Acquirable
     THEN lockFile' = p /\ Goto(p, "archive_list") /\ UNCHANGED mem
     ELSE UNCHANGED lockFile /\ End(p)
  /\ UNCHANGED <<live, index, archive, checksum, history>>

\* _archive_members: every file with its size and hash.
ArchiveList(p) ==
  /\ At(p, "archive_list")
  /\ live # None
  /\ mem' = [mem EXCEPT ![p].seen = ContentOf(live)]
  /\ Goto(p, "archive_write")
  /\ UNCHANGED <<files, history>>

\* _write_operation_archive: the listed files are read a second time into a
\* temporary file, which then replaces the archive path.
ArchiveWrite(p) ==
  /\ At(p, "archive_write")
  /\ live # None /\ clock < MaxClock
  /\ archive' = [sum |-> clock + 1,
                 content |-> [ContentOf(live) EXCEPT !.files = mem[p].seen.files]]
  /\ clock' = clock + 1
  /\ Goto(p, "archive_verify")
  /\ UNCHANGED <<live, lockFile, index, checksum, mem, inspection, existed,
                 discarded>>

\* The archive's members are those listed, or those of the Manifest.
Matches(p) == archive # None /\ archive.content = mem[p].seen

\* _file_sha256 and read_operation_archive with verify_files.
ArchiveVerify(p) ==
  /\ At(p, "archive_verify")
  /\ Matches(p)
  /\ mem' = [mem EXCEPT ![p].sum = archive.sum]
  /\ Goto(p, "archive_checksum")
  /\ UNCHANGED <<files, history>>

ArchiveChecksum(p) ==
  /\ At(p, "archive_checksum")
  /\ checksum' = mem[p].sum
  /\ Goto(p, "archive_index")
  /\ UNCHANGED <<live, lockFile, index, archive, mem, history>>

\* _write_operation_location; remove_latest_operation_link_for follows.
ArchiveIndex(p) ==
  /\ At(p, "archive_index")
  /\ index' = [state |-> "archived", sum |-> mem[p].sum]
  /\ Goto(p, "archive_remove")
  /\ UNCHANGED <<live, lockFile, archive, checksum, mem, history>>

\* shutil.rmtree, in the order the directory lists its entries: the lock file
\* may go before or after the rest.
ArchiveRemove(p) ==
  /\ At(p, "archive_remove")
  /\ live # None
  /\ live' = [live EXCEPT !.part = "torn"]
  /\ lockFile' \in {lockFile, None}
  /\ Goto(p, "archive_rmdir")
  /\ UNCHANGED <<index, archive, checksum, mem, history>>

ArchiveRmdir(p) ==
  /\ At(p, "archive_rmdir")
  /\ live' = None /\ lockFile' = None
  /\ End(p)
  /\ UNCHANGED <<index, archive, checksum, history>>

\* The archive command has the lock, in its try block.
ArchiveSteps == StepsOf.archive \ {"archive_lock"}

\* MUTANT of ArchiveFails: the index is not read before the archive is removed.
ArchiveFailsBlind(p) ==
  /\ pc[p] \in ArchiveSteps
  /\ \/ "fail" \in Faults
     \/ live = None
     \/ At(p, "archive_verify") /\ ~Matches(p)
  /\ archive' = None /\ checksum' = None
  /\ LockReleased(p)
  /\ End(p)
  /\ UNCHANGED <<live, index, history>>

\* except Exception: an archive no index leads to yet is removed again; and
\* finally: the lock is released if its file is still there.
ArchiveFails(p) ==
  /\ pc[p] \in ArchiveSteps
  /\ \/ "fail" \in Faults
     \/ live = None
     \/ At(p, "archive_verify") /\ ~Matches(p)
  /\ IF index = None \/ index.state = "live"
     THEN archive' = None /\ checksum' = None
     ELSE UNCHANGED <<archive, checksum>>
  /\ LockReleased(p)
  /\ End(p)
  /\ UNCHANGED <<live, index, history>>

-----------------------------------------------------------------------------
(* restore_operation_archive                                               *)

\* The index and the files it leads to agree.
ArchiveVerified ==
  /\ index # None /\ index.state = "archived"
  /\ archive # None /\ archive.sum = index.sum
  /\ checksum = index.sum

RestoreCheck(p) ==
  /\ MayStart(p, "restore")
  /\ ArchiveVerified
  /\ live = None
  /\ mem' = [mem EXCEPT ![p].loc = index, ![p].seen = archive.content]
  /\ Goto(p, "restore_extract")
  /\ UNCHANGED <<files, history>>

\* Into a staging directory of this process, every member checked against the
\* Manifest read before.
RestoreExtract(p) ==
  /\ At(p, "restore_extract")
  /\ Matches(p)
  /\ Goto(p, "restore_publish")
  /\ UNCHANGED <<files, mem, history>>

\* MUTANT of RestorePublish: nothing asks whether the staging directory is whole.
RestorePublishStaging(p) ==
  /\ At(p, "restore_publish")
  /\ live = None
  /\ live' = [part |-> "staging", life |-> mem[p].seen.life,
              files |-> mem[p].seen.files]
  /\ Goto(p, "restore_index")
  /\ UNCHANGED <<lockFile, index, archive, checksum, mem, history>>

\* staging.rename(target): fails on a directory that is not empty.
RestorePublish(p) ==
  /\ At(p, "restore_publish")
  /\ live = None
  /\ live' = [part |-> "whole", life |-> mem[p].seen.life,
              files |-> mem[p].seen.files]
  /\ Goto(p, "restore_index")
  /\ UNCHANGED <<lockFile, index, archive, checksum, mem, history>>

\* MUTANT of RestoreIndex: the archive is removed before the index is written.
RestoreIndexLast(p) ==
  /\ At(p, "restore_index")
  /\ archive' = None
  /\ Goto(p, "restore_unlink")
  /\ UNCHANGED <<live, lockFile, index, checksum, mem, history>>

RestoreIndex(p) ==
  /\ At(p, "restore_index") /\ clock < MaxClock
  /\ index' = [state |-> "live", sum |-> clock + 1]
  /\ clock' = clock + 1
  /\ Goto(p, "restore_unlink")
  /\ UNCHANGED <<live, lockFile, archive, checksum, mem, inspection, existed,
                 discarded>>

RestoreUnlink(p) ==
  /\ At(p, "restore_unlink")
  /\ archive # None
  /\ archive' = None
  /\ Goto(p, "restore_checksum")
  /\ UNCHANGED <<live, lockFile, index, checksum, mem, history>>

RestoreChecksum(p) ==
  /\ At(p, "restore_checksum")
  /\ checksum' = None
  /\ End(p)
  /\ UNCHANGED <<live, lockFile, index, archive, history>>

\* An error.  Once the directory is published it is removed again if the index
\* is still the one read at the start.
RestoreFails(p) ==
  /\ \/ /\ "fail" \in Faults
        /\ pc[p] \in StepsOf.restore
     \/ At(p, "restore_extract") /\ ~Matches(p)
     \/ At(p, "restore_publish") /\ live # None
     \/ At(p, "restore_unlink") /\ archive = None
  /\ IF pc[p] \in {"restore_index", "restore_unlink", "restore_checksum"}
        /\ index = mem[p].loc
     THEN live' = None /\ lockFile' = None
     ELSE UNCHANGED <<live, lockFile>>
  /\ End(p)
  /\ UNCHANGED <<index, archive, checksum, history>>

-----------------------------------------------------------------------------
(* delete_archived_operation, by ID for each retention candidate           *)

DeleteCheck(p) ==
  /\ MayStart(p, "delete")
  /\ ArchiveVerified
  /\ Goto(p, "delete_archive")
  /\ UNCHANGED <<files, mem, history>>

DeleteArchive(p) ==
  /\ At(p, "delete_archive")
  /\ IF archive # None
     THEN archive' = None /\ discarded' = TRUE /\ Goto(p, "delete_checksum")
          /\ UNCHANGED mem
     ELSE UNCHANGED <<archive, discarded>> /\ End(p)
  /\ UNCHANGED <<live, lockFile, index, checksum, inspection, clock, existed>>

DeleteChecksum(p) ==
  /\ At(p, "delete_checksum")
  /\ IF checksum # None
     THEN checksum' = None /\ Goto(p, "delete_index") /\ UNCHANGED mem
     ELSE UNCHANGED checksum /\ End(p)
  /\ UNCHANGED <<live, lockFile, index, archive, history>>

DeleteIndex(p) ==
  /\ At(p, "delete_index")
  /\ index' = None
  /\ End(p)
  /\ UNCHANGED <<live, lockFile, archive, checksum, history>>

DeleteFails(p) ==
  /\ pc[p] \in StepsOf.delete
  /\ "fail" \in Faults
  /\ End(p)
  /\ UNCHANGED <<files, history>>

-----------------------------------------------------------------------------
(* remove_missing_live_operation_index                                     *)

MissingRead(p) ==
  /\ MayStart(p, "missing")
  /\ index # None /\ index.state = "live"
  /\ mem' = [mem EXCEPT ![p].loc = index]
  /\ Goto(p, "missing_look")
  /\ UNCHANGED <<files, history>>

MissingLook(p) ==
  /\ At(p, "missing_look")
  /\ IF live = None THEN Goto(p, "missing_reread") /\ UNCHANGED mem ELSE End(p)
  /\ UNCHANGED <<files, history>>

MissingReread(p) ==
  /\ At(p, "missing_reread")
  /\ IF index = mem[p].loc THEN Goto(p, "missing_unlink") /\ UNCHANGED mem
                           ELSE End(p)
  /\ UNCHANGED <<files, history>>

MissingUnlink(p) ==
  /\ At(p, "missing_unlink")
  /\ index' = None
  /\ End(p)
  /\ UNCHANGED <<live, lockFile, archive, checksum, history>>

-----------------------------------------------------------------------------
(* Faults and the operator                                                 *)

\* The process is killed between two file operations.
Kill(p) ==
  /\ "kill" \in Faults /\ ~At(p, "idle")
  /\ lockFile' = IF lockFile = p THEN Gone ELSE lockFile
  /\ End(p)
  /\ UNCHANGED <<live, index, archive, checksum, history>>

\* Ctrl-C: KeyboardInterrupt is no Exception, so only finally and the with
\* blocks run and nothing else is undone.
Interrupt(p) ==
  /\ "interrupt" \in Faults /\ ~At(p, "idle")
  /\ LockReleased(p)
  /\ End(p)
  /\ UNCHANGED <<live, index, archive, checksum, history>>

\* The operator removes a lock whose process died.
RemoveStaleLock ==
  /\ lockFile = Gone
  /\ lockFile' = None
  /\ UNCHANGED <<live, index, archive, checksum, pc, mem, history>>

\* The operator removes the live directory by hand.
RemoveDirectory ==
  /\ "missing" \in Jobs
  /\ Opens /\ lockFile = None /\ ~discarded
  /\ live' = None
  /\ discarded' = TRUE
  /\ UNCHANGED <<lockFile, index, archive, checksum, pc, mem, inspection, clock,
                 existed>>

Step(p) ==
  \/ CreateDirectory(p) \/ CreateMetadata(p) \/ CreateExecution(p)
  \/ CreateIndex(p) \/ CreateFails(p)
  \/ WorkOpen(p) \/ WorkLock(p) \/ WorkStart(p) \/ WorkEnd(p) \/ WorkPublish(p)
  \/ ArchiveCheck(p) \/ ArchiveLock(p) \/ ArchiveList(p) \/ ArchiveWrite(p)
  \/ ArchiveVerify(p) \/ ArchiveChecksum(p) \/ ArchiveIndex(p)
  \/ ArchiveRemove(p) \/ ArchiveRmdir(p) \/ ArchiveFails(p)
  \/ RestoreCheck(p) \/ RestoreExtract(p) \/ RestorePublish(p)
  \/ RestoreIndex(p) \/ RestoreUnlink(p) \/ RestoreChecksum(p)
  \/ RestoreFails(p)
  \/ DeleteCheck(p) \/ DeleteArchive(p) \/ DeleteChecksum(p) \/ DeleteIndex(p)
  \/ DeleteFails(p)
  \/ MissingRead(p) \/ MissingLook(p) \/ MissingReread(p) \/ MissingUnlink(p)
  \/ Kill(p) \/ Interrupt(p)

Next == RemoveStaleLock \/ RemoveDirectory \/ \E p \in Procs : Step(p)

Spec == Init /\ [][Next]_vars

-----------------------------------------------------------------------------
(* Properties                                                              *)

\* Every variable has its type.
TypeOK ==
  /\ live \in Directories \cup {None}
  /\ lockFile \in Procs \cup {None, Gone}
  /\ index \in Locations \cup {None}
  /\ archive \in Archives \cup {None}
  /\ checksum \in Stamps \cup {None}
  /\ pc \in [Procs -> Steps] /\ mem \in [Procs -> Memories]
  /\ inspection \in BOOLEAN /\ clock \in Stamps
  /\ existed \in BOOLEAN /\ discarded \in BOOLEAN

\* Whatever is killed or fails, and whichever commands run together, an
\* Operation nobody deleted is still there: as a whole live directory or as a
\* complete archive.
NeverLost ==
  existed /\ ~discarded =>
    Whole(live) \/ (archive # None /\ archive.content.whole)

\* ... and the index leads to a copy that can be used: a whole live directory,
\* or an archive whose hash is that of the index and the checksum file.
IndexLeads ==
  existed /\ ~discarded =>
    /\ index # None
    /\ index.state = "live" => Whole(live)
    /\ index.state = "archived" => ArchiveVerified /\ archive.content.whole

\* The archive the index leads to holds a final Operation.  Not that of an
\* inspection, which an attempt may reopen between the check and the lock.
ArchivedIsFinal ==
  ArchiveVerified /\ ~inspection =>
    archive.content.life \in ARCHIVABLE_OPERATION_STATES
=============================================================================
