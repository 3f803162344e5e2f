---------------------------- MODULE EvidencePackages ----------------------------
(***************************************************************************)
(* Portable evidence (alred/portable_evidence.py): packages are an archive *)
(* and a checksum file, written one after the other; an import publishes a *)
(* directory and then moves the link "latest" to it.  create and import    *)
(* end with a retention that removes older generations, and prune and      *)
(* prune-imports are that retention alone.  No lock is taken: the commands *)
(* run in processes that share the two directories.                        *)
(***************************************************************************)
EXTENDS Naturals, FiniteSets, Sequences, Functions

CONSTANTS
  MaxPackages, \* bound on the packages; they are numbered in order of created_at
  Sensitive,   \* the packages with verbatim configurations: a group of their own
  KeepLatest,  \* --keep-latest-packages
  Procs,       \* processes
  MaxImports,  \* bound on the imports
  MaxKills     \* bound on the processes killed

Packages == 1 .. MaxPackages
None == 0

VARIABLES
  created,   \* package IDs given out so far
  archives,  \* packages with an archive in the output directory
  checksums, \* packages with a .sha256 there
  dirs,      \* per package: its import directory, "none", "whole" or "part"
  imports,   \* the packages imported, in order of imported_at
  latest,    \* package the link "latest" names
  kills,     \* (bound) processes killed so far
  jobs       \* per process: the command it runs

vars == <<created, archives, checksums, dirs, imports, latest, kills, jobs>>
packageFiles == <<created, archives, checksums>>
importFiles == <<dirs, imports, latest>>

\* A command: where it is, its package, and what its retention has still to remove.
Stages == {"none", "archive", "checksum", "prune", "unlink", "unlink checksum", "verify",
           "publish", "link", "prune imports", "remove", "remove rest"}
NoJob == [stage |-> "none", package |-> None, remove |-> {}]

Init ==
  /\ created = 0 /\ archives = {} /\ checksums = {}
  /\ dirs = [x \in Packages |-> "none"] /\ imports = <<>> /\ latest = None
  /\ kills = 0 /\ jobs = [p \in Procs |-> NoJob]

At(p, stage) == jobs[p].stage = stage
Goto(p, stage) == jobs' = [jobs EXCEPT ![p].stage = stage]
End(p) == jobs' = [jobs EXCEPT ![p] = NoJob]

SameGroup(x, y) == x \in Sensitive <=> y \in Sensitive

-----------------------------------------------------------------------------
(* evidence-package create                                                 *)

\* The package has been built in memory and scanned; its ID has the time in it.
BeginCreate(p) ==
  /\ At(p, "none") /\ created < MaxPackages
  /\ created' = created + 1
  /\ jobs' = [jobs EXCEPT ![p] = [NoJob EXCEPT !.stage = "archive",
                                               !.package = created + 1]]
  /\ UNCHANGED <<archives, checksums, importFiles, kills>>

PublishArchive(p) ==
  /\ At(p, "archive")
  /\ archives' = archives \cup {jobs[p].package}
  /\ Goto(p, "checksum")
  /\ UNCHANGED <<created, checksums, importFiles, kills>>

PublishChecksum(p) ==
  /\ At(p, "checksum")
  /\ checksums' = checksums \cup {jobs[p].package}
  /\ Goto(p, "prune")
  /\ UNCHANGED <<created, archives, importFiles, kills>>

-----------------------------------------------------------------------------
(* Retention of packages                                                   *)

BeginPrune(p) ==
  /\ At(p, "none") /\ Goto(p, "prune")
  /\ UNCHANGED <<packageFiles, importFiles, kills>>

\* Archives with their checksum, which verify.
Verified == archives \cap checksums

\* MUTANT of Superseded: the oldest are kept.
SupersededByOlder ==
  {x \in Verified :
     Cardinality({y \in Verified : SameGroup(x, y) /\ y < x}) >= KeepLatest}

\* All but the newest of their group; keep_latest 0 removes nothing.
Superseded ==
  {x \in Verified :
     /\ KeepLatest > 0
     /\ Cardinality({y \in Verified : SameGroup(x, y) /\ y > x}) >= KeepLatest}

Oldest(S) == {x \in S : \A y \in S : x <= y}

\* The directory is listed and every package verified; then they go, the oldest first.
ScanPackages(p) ==
  /\ At(p, "prune")
  /\ jobs' = [jobs EXCEPT
       ![p] = [NoJob EXCEPT !.stage = "unlink", !.remove = Superseded]]
  /\ UNCHANGED <<packageFiles, importFiles, kills>>

\* The package is verified again before its archive goes; a package that went in the
\* meantime ends the command.
UnlinkArchive(p) ==
  /\ At(p, "unlink")
  /\ \E x \in Oldest(jobs[p].remove) :
       IF x \in Verified
       THEN archives' = archives \ {x} /\ Goto(p, "unlink checksum")
       ELSE End(p) /\ UNCHANGED archives
  /\ UNCHANGED <<created, checksums, importFiles, kills>>

UnlinkChecksum(p) ==
  /\ At(p, "unlink checksum")
  /\ \E x \in Oldest(jobs[p].remove) :
       /\ checksums' = checksums \ {x}
       /\ jobs' = [jobs EXCEPT ![p].stage = "unlink", ![p].remove = @ \ {x}]
  /\ UNCHANGED <<created, archives, importFiles, kills>>

EndPrune(p) ==
  /\ At(p, "unlink") /\ jobs[p].remove = {} /\ End(p)
  /\ UNCHANGED <<packageFiles, importFiles, kills>>

-----------------------------------------------------------------------------
(* evidence-package import                                                 *)

Newest(S) == {x \in S : \A y \in S : y <= x}

\* resolve_latest_evidence_package: an archive without its checksum refuses all.
Selected ==
  IF archives \subseteq checksums THEN Newest(archives) ELSE {}

Importing(p) == jobs[p].stage \in {"verify", "publish", "link"}
Pruning(p) == jobs[p].stage \in {"prune imports", "remove", "remove rest"}

\* The package p imports has been imported before.
Repeats(p) ==
  LET earlier == IF At(p, "link") THEN Len(imports) - 1 ELSE Len(imports)
  IN Importing(p) /\ \E i \in 1 .. earlier : imports[i] = jobs[p].package

\* The bundle named, or the newest.  Imports run one at a time, and none imports a
\* package again beside a prune-imports: what follows when they do is in the README.
BeginImport(p) ==
  /\ At(p, "none") /\ Len(imports) < MaxImports
  /\ ~\E q \in Procs : Importing(q)
  /\ \E x \in archives \cup Selected :
       /\ x \in Range(imports) => ~\E q \in Procs : Pruning(q)
       /\ jobs' = [jobs EXCEPT ![p] = [NoJob EXCEPT !.stage = "verify", !.package = x]]
  /\ UNCHANGED <<packageFiles, importFiles, kills>>

\* verify_evidence_package and _read_archive; refused when the archive went, or the
\* directory is there.
Materialize(p) ==
  /\ At(p, "verify")
  /\ LET x == jobs[p].package
     IN IF x \in archives /\ dirs[x] = "none" THEN Goto(p, "publish") ELSE End(p)
  /\ UNCHANGED <<packageFiles, importFiles, kills>>

\* The staging directory, with the import record in it, becomes the import directory.
PublishImport(p) ==
  /\ At(p, "publish")
  /\ imports' = Append(imports, jobs[p].package)
  /\ dirs' = [dirs EXCEPT ![jobs[p].package] = "whole"]
  /\ Goto(p, "link")
  /\ UNCHANGED <<packageFiles, latest, kills>>

\* atomic_update_relative_directory_symlink, whose target must be there.
UpdateLatest(p) ==
  /\ At(p, "link")
  /\ IF dirs[jobs[p].package] # "none"
     THEN latest' = jobs[p].package /\ Goto(p, "prune imports")
     ELSE End(p) /\ UNCHANGED latest
  /\ UNCHANGED <<packageFiles, dirs, imports, kills>>

-----------------------------------------------------------------------------
(* Retention of imports                                                    *)

BeginPruneImports(p) ==
  /\ At(p, "none") /\ Goto(p, "prune imports")
  /\ ~\E q \in Procs : Repeats(q)
  /\ UNCHANGED <<packageFiles, importFiles, kills>>

\* imported_at in the import record of the directories: that of y is later than that of x.
ImportedAfter(y, x) ==
  \E j \in DOMAIN imports :
    imports[j] = y /\ \A i \in DOMAIN imports : imports[i] = x => i < j

Whole == {x \in Packages : dirs[x] = "whole"}

\* MUTANT of Outdated: the target of latest is not protected.
OutdatedUnprotected ==
  {x \in Whole :
     /\ KeepLatest > 0
     /\ Cardinality({y \in Whole : SameGroup(x, y) /\ ImportedAfter(y, x)})
          >= KeepLatest}

\* All but the last imported of their group and the target of latest.
Outdated ==
  {x \in Whole \ {latest} :
     /\ KeepLatest > 0
     /\ Cardinality({y \in Whole : SameGroup(x, y) /\ ImportedAfter(y, x)})
          >= KeepLatest}

FirstImported(S) == {x \in S : ~\E y \in S : ImportedAfter(x, y)}

\* The link is read, every directory inspected; incomplete ones are passed over.
ScanImports(p) ==
  /\ At(p, "prune imports")
  /\ jobs' = [jobs EXCEPT
       ![p] = [NoJob EXCEPT !.stage = "remove", !.remove = Outdated]]
  /\ UNCHANGED <<packageFiles, importFiles, kills>>

\* shutil.rmtree after another inspection.
BeginRemove(p) ==
  /\ At(p, "remove")
  /\ \E x \in FirstImported(jobs[p].remove) :
       IF dirs[x] = "whole"
       THEN dirs' = [dirs EXCEPT ![x] = "part"] /\ Goto(p, "remove rest")
       ELSE End(p) /\ UNCHANGED dirs
  /\ UNCHANGED <<packageFiles, imports, latest, kills>>

EndRemove(p) ==
  /\ At(p, "remove rest")
  /\ \E x \in FirstImported(jobs[p].remove) :
       /\ dirs' = [dirs EXCEPT ![x] = "none"]
       /\ jobs' = [jobs EXCEPT ![p].stage = "remove", ![p].remove = @ \ {x}]
  /\ UNCHANGED <<packageFiles, imports, latest, kills>>

EndPruneImports(p) ==
  /\ At(p, "remove") /\ jobs[p].remove = {} /\ End(p)
  /\ UNCHANGED <<packageFiles, importFiles, kills>>

-----------------------------------------------------------------------------

\* The process is killed, or its next file operation fails.
Kill(p) ==
  /\ jobs[p] # NoJob /\ kills < MaxKills
  /\ kills' = kills + 1 /\ End(p)
  /\ UNCHANGED <<packageFiles, importFiles>>

Next ==
  \E p \in Procs :
    \/ BeginCreate(p) \/ PublishArchive(p) \/ PublishChecksum(p)
    \/ BeginPrune(p) \/ ScanPackages(p) \/ UnlinkArchive(p) \/ UnlinkChecksum(p)
    \/ EndPrune(p)
    \/ BeginImport(p) \/ Materialize(p) \/ PublishImport(p) \/ UpdateLatest(p)
    \/ BeginPruneImports(p) \/ ScanImports(p) \/ BeginRemove(p) \/ EndRemove(p)
    \/ EndPruneImports(p)
    \/ Kill(p)

Spec == Init /\ [][Next]_vars

-----------------------------------------------------------------------------
(* Properties                                                              *)

\* Every variable has its type.
TypeOK ==
  /\ created \in 0 .. MaxPackages
  /\ archives \subseteq 1 .. created /\ checksums \subseteq 1 .. created
  /\ dirs \in [Packages -> {"none", "whole", "part"}]
  /\ imports \in Seq(Packages) /\ latest \in Packages \cup {None}
  /\ kills \in 0 .. MaxKills
  /\ jobs \in [Procs -> [stage : Stages, package : Packages \cup {None},
                         remove : SUBSET Packages]]

\* "latest" is never broken and never leads to half a directory, wherever the import or
\* a retention beside it is killed.  (Two imports at once, and an import of a package that
\* prune-imports is removing, are kept apart by the guards: the code does not do it.)
LatestComplete == latest # None => dirs[latest] = "whole"

\* Retention never leaves a group without a verified package: when an archive goes, a
\* newer one of its group is there with its checksum.
NewestKept ==
  [][\A x \in archives \ archives' :
       \E y \in archives' \cap checksums' : SameGroup(x, y) /\ y > x]_vars
=============================================================================
