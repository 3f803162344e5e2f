----------------------------- MODULE EvidenceProofs -----------------------------
(***************************************************************************)
(* The retention of packages leaves every group a verified package, and    *)
(* the link "latest" leads to a whole directory: for every number of       *)
(* processes, of packages, imports and kills.                              *)
(*                                                                         *)
(* Neither property is inductive.  Two retentions may interleave, so the   *)
(* archive that one of them keeps may be on the list of the other: the     *)
(* newer package a removal relies on is found again after each archive     *)
(* that goes, by going one step up the order of the group.  And the link   *)
(* is right because the package of an import is on no list of directories  *)
(* to remove, which holds from before the import has its directory.        *)
(***************************************************************************)
EXTENDS EvidencePackages, TLAPS, FiniteSetTheorems

\* The bounds on the commands are numbers.
Bounds ==
  /\ MaxPackages \in Nat /\ KeepLatest \in Nat
  /\ MaxImports \in Nat /\ MaxKills \in Nat

\* Commands that write a package, and commands that remove some.
Creating(p) == jobs[p].stage \in {"archive", "checksum"}
Unlinking(p) == jobs[p].stage \in {"unlink", "unlink checksum"}

\* A package has one creator, and nobody removes it before its archive is there.
CreateInv ==
  \A p \in Procs :
    /\ Creating(p) => jobs[p].package \in 1 .. created
    /\ At(p, "archive") => /\ jobs[p].package \notin checksums
                           /\ \A q \in Procs :
                                Unlinking(q) => jobs[p].package \notin jobs[q].remove
    /\ \A q \in Procs :
         Creating(p) /\ Creating(q) /\ p # q => jobs[p].package # jobs[q].package

\* Each package a retention is about to remove is followed by a verified one.
Kept(x) == \E y \in Verified : SameGroup(x, y) /\ y > x
RetentionInv ==
  \A p \in Procs :
    /\ Unlinking(p) => \A x \in jobs[p].remove : x \in 1 .. created /\ Kept(x)
    /\ At(p, "unlink checksum") => \A x \in Oldest(jobs[p].remove) : x \notin archives

\* An import has no rival: no other import, and no retention that would take its
\* directory.
Imported == {imports[i] : i \in DOMAIN imports}
Removing(p) == jobs[p].stage \in {"remove", "remove rest"}
ImportInv ==
  /\ \A x \in Packages : dirs[x] # "none" => x \in Imported
  /\ \A p, q \in Procs : Importing(p) /\ Importing(q) => p = q
  /\ \A p, q \in Procs : Repeats(p) => ~Pruning(q)
  /\ \A p \in Procs :
       /\ Importing(p) => jobs[p].package \in Packages
       /\ At(p, "link") => /\ imports # <<>> /\ imports[Len(imports)] = jobs[p].package
                           /\ dirs[jobs[p].package] = "whole"
       /\ At(p, "publish") => dirs[jobs[p].package] = "none"
       /\ Removing(p) => /\ jobs[p].remove \subseteq Imported
                         /\ latest \notin jobs[p].remove
                         /\ \A q \in Procs :
                              Importing(q) => jobs[q].package \notin jobs[p].remove

\* The inductive invariant.
IInv == TypeOK /\ CreateInv /\ RetentionInv /\ ImportInv /\ LatestComplete

\* The other commands stay, and that of p goes on.
Others(p) == \A q \in Procs : q # p => jobs'[q] = jobs[q]
Becomes(p, stage, package, remove) ==
  /\ jobs'[p].stage = stage /\ jobs'[p].package = package /\ jobs'[p].remove = remove
  /\ Others(p)

\* The type of a command.
Job == [stage : Stages, package : Packages \cup {None}, remove : SUBSET Packages]

\* How the operators of the model change a command.
LEMMA Moves ==
  ASSUME jobs \in [Procs -> Job], NEW p \in Procs
  PROVE  /\ End(p) => jobs' \in [Procs -> Job] /\ Becomes(p, "none", None, {})
         /\ \A s \in Stages : Goto(p, s) =>
              jobs' \in [Procs -> Job] /\ Becomes(p, s, jobs[p].package, jobs[p].remove)
         /\ \A s \in Stages, x \in Packages :
              jobs' = [jobs EXCEPT ![p] = [NoJob EXCEPT !.stage = s, !.package = x]] =>
                jobs' \in [Procs -> Job] /\ Becomes(p, s, x, {})
         /\ \A s \in Stages, r \in SUBSET Packages :
              jobs' = [jobs EXCEPT ![p] = [NoJob EXCEPT !.stage = s, !.remove = r]] =>
                jobs' \in [Procs -> Job] /\ Becomes(p, s, None, r)
         /\ \A x : \A s \in Stages :
              jobs' = [jobs EXCEPT ![p].stage = s, ![p].remove = @ \ {x}] =>
                /\ jobs' \in [Procs -> Job]
                /\ Becomes(p, s, jobs[p].package, jobs[p].remove \ {x})
<1>1. NoJob \in Job
  BY DEF NoJob, Job, Stages
<1>2. jobs[p] \in Job
  OBVIOUS
<1>3. End(p) => jobs' \in [Procs -> Job] /\ Becomes(p, "none", None, {})
  BY <1>1 DEF End, NoJob, Becomes, Others
<1>4. ASSUME NEW s \in Stages, Goto(p, s)
      PROVE  jobs' \in [Procs -> Job] /\ Becomes(p, s, jobs[p].package, jobs[p].remove)
  <2> DEFINE j == [jobs[p] EXCEPT !.stage = s]
  <2>1. j \in Job /\ j.stage = s /\ j.package = jobs[p].package /\ j.remove = jobs[p].remove
    BY <1>2 DEF Job
  <2>2. jobs' = [jobs EXCEPT ![p] = j]
    BY <1>4 DEF Goto
  <2> HIDE DEF j
  <2> QED
    BY <2>1, <2>2 DEF Becomes, Others
<1>5. ASSUME NEW s \in Stages, NEW x \in Packages,
             jobs' = [jobs EXCEPT ![p] = [NoJob EXCEPT !.stage = s, !.package = x]]
      PROVE  jobs' \in [Procs -> Job] /\ Becomes(p, s, x, {})
  <2> DEFINE j == [NoJob EXCEPT !.stage = s, !.package = x]
  <2>1. j \in Job /\ j.stage = s /\ j.package = x /\ j.remove = {}
    BY DEF NoJob, Job
  <2>2. jobs' = [jobs EXCEPT ![p] = j]
    BY <1>5
  <2> HIDE DEF j
  <2> QED
    BY <2>1, <2>2 DEF Becomes, Others
<1>6. ASSUME NEW s \in Stages, NEW r \in SUBSET Packages,
             jobs' = [jobs EXCEPT ![p] = [NoJob EXCEPT !.stage = s, !.remove = r]]
      PROVE  jobs' \in [Procs -> Job] /\ Becomes(p, s, None, r)
  <2> DEFINE j == [NoJob EXCEPT !.stage = s, !.remove = r]
  <2>1. j \in Job /\ j.stage = s /\ j.package = None /\ j.remove = r
    BY DEF NoJob, Job
  <2>2. jobs' = [jobs EXCEPT ![p] = j]
    BY <1>6
  <2> HIDE DEF j
  <2> QED
    BY <2>1, <2>2 DEF Becomes, Others
<1>7. ASSUME NEW s \in Stages, NEW x,
             jobs' = [jobs EXCEPT ![p].stage = s, ![p].remove = @ \ {x}]
      PROVE  /\ jobs' \in [Procs -> Job]
             /\ Becomes(p, s, jobs[p].package, jobs[p].remove \ {x})
  <2> DEFINE j == [jobs[p] EXCEPT !.stage = s, !.remove = @ \ {x}]
  <2>1. /\ j \in Job /\ j.stage = s /\ j.package = jobs[p].package
        /\ j.remove = jobs[p].remove \ {x}
    BY <1>2 DEF Job
  <2>2. jobs' = [jobs EXCEPT ![p] = j]
    BY <1>7
  <2> HIDE DEF j
  <2> QED
    BY <2>1, <2>2 DEF Becomes, Others
<1> QED
  BY <1>3, <1>4, <1>5, <1>6, <1>7

\* A command that is not about packages, or no longer, leaves what is said of them.
LEMMA PackagesQuiet ==
  ASSUME IInv, UNCHANGED packageFiles, NEW p \in Procs, Others(p),
         jobs'[p].stage \notin {"archive", "checksum", "unlink", "unlink checksum"}
  PROVE  CreateInv' /\ RetentionInv'
<1>1. \A q \in Procs : (Creating(q)' \/ Unlinking(q)') => q # p /\ jobs'[q] = jobs[q]
  BY DEF Others, Creating, Unlinking
<1>2. CreateInv'
  BY <1>1 DEF IInv, CreateInv, Creating, Unlinking, At, packageFiles
<1>3. RetentionInv'
  BY <1>1 DEF IInv, RetentionInv, Kept, Verified, Unlinking, At, packageFiles
<1> QED
  BY <1>2, <1>3

\* A command that is not about imports, or no longer, leaves what is said of them.
LEMMA ImportsQuiet ==
  ASSUME IInv, UNCHANGED importFiles, NEW p \in Procs, Others(p),
         jobs'[p].stage \notin
           {"verify", "publish", "link", "prune imports", "remove", "remove rest"}
  PROVE  ImportInv' /\ LatestComplete'
<1>1. \A q \in Procs : (Importing(q)' \/ Pruning(q)') => q # p /\ jobs'[q] = jobs[q]
  BY DEF Others, Importing, Pruning
<1>2. \A q \in Procs : Repeats(q)' => Repeats(q)
  BY <1>1 DEF Repeats, Importing, At, importFiles
<1>3. \A q \in Procs : /\ Importing(q)' => Importing(q)
                       /\ Pruning(q)' => Pruning(q)
                       /\ Removing(q)' => Removing(q) /\ Pruning(q)'
  BY <1>1 DEF Importing, Pruning, Removing
<1>4. LatestComplete' /\ Imported' = Imported
  BY DEF IInv, LatestComplete, importFiles, Imported
<1> QED
  BY <1>1, <1>2, <1>3, <1>4 DEF IInv, ImportInv, importFiles, Importing, At

-----------------------------------------------------------------------------
(* The commands about packages                                             *)

\* A creation keeps the invariant: its package is new to every list of a retention.
LEMMA CreateKeeps ==
  ASSUME Bounds, IInv, NEW p \in Procs,
         BeginCreate(p) \/ PublishArchive(p) \/ PublishChecksum(p)
  PROVE  IInv'
<1>1. /\ jobs \in [Procs -> Job] /\ created \in 0 .. MaxPackages
      /\ archives \subseteq 1 .. created /\ checksums \subseteq 1 .. created
  BY DEF IInv, TypeOK, Job
<1>2. CASE BeginCreate(p)
  <2>1. created + 1 \in Packages /\ created' = created + 1
    BY <1>1, <1>2 DEF BeginCreate, Packages, Bounds
  <2>2. jobs' \in [Procs -> Job] /\ Becomes(p, "archive", created + 1, {})
    BY <1>1, <1>2, <2>1, Moves DEF BeginCreate, Stages
  <2>3. TypeOK'
    BY <1>1, <1>2, <2>1, <2>2
    DEF BeginCreate, IInv, TypeOK, Job, Packages, importFiles, Bounds
  <2>4. ImportInv' /\ LatestComplete'
    BY <1>2, <2>2, ImportsQuiet DEF Becomes, BeginCreate
  <2>5. \A q \in Procs : q # p => created + 1 # jobs[q].package \/ ~Creating(q)
    BY <1>1 DEF IInv, CreateInv
  <2>6. \A q \in Procs : Unlinking(q) => created + 1 \notin jobs[q].remove
    <3>1. \A y \in 1 .. created : y # created + 1
      BY <1>1 DEF Bounds
    <3> QED
      BY <3>1 DEF IInv, RetentionInv
  <2>7. CreateInv'
    <3>1. \A q \in Procs : Unlinking(q)' => q # p /\ Unlinking(q)
      BY <2>2 DEF Becomes, Others, Unlinking
    <3>2. \A q \in Procs : q # p => (Creating(q)' <=> Creating(q))
      BY <2>2 DEF Becomes, Others, Creating
    <3>3. checksums' = checksums
      BY <1>2 DEF BeginCreate
    <3>4. \A q \in Procs : Creating(q)' => jobs'[q].package \in 1 .. created'
      BY <1>1, <2>1, <2>2, <3>2 DEF Becomes, Others, IInv, CreateInv
    <3>5. \A q \in Procs : At(q, "archive")' =>
            /\ jobs'[q].package \notin checksums'
            /\ \A o \in Procs : Unlinking(o)' => jobs'[q].package \notin jobs'[o].remove
      BY <1>1, <2>1, <2>2, <2>6, <3>1, <3>3 DEF Becomes, Others, IInv, CreateInv, At
    <3>6. \A q, o \in Procs : Creating(q)' /\ Creating(o)' /\ q # o =>
            jobs'[q].package # jobs'[o].package
      BY <2>2, <2>5, <3>2 DEF Becomes, Others, IInv, CreateInv
    <3> QED
      BY <3>4, <3>5, <3>6 DEF CreateInv
  <2>8. RetentionInv'
    <3>1. \A q \in Procs : Unlinking(q)' => q # p /\ jobs'[q] = jobs[q] /\ Unlinking(q)
      BY <2>2 DEF Becomes, Others, Unlinking
    <3>2. \A x : Kept(x)' <=> Kept(x)
      BY <1>2 DEF BeginCreate, Kept, Verified
    <3>3. archives' = archives
      BY <1>2 DEF BeginCreate
    <3> QED
      <4>1. \A y \in 1 .. created : y \in 1 .. created'
        BY <1>1, <2>1 DEF Bounds
      <4>2. \A q \in Procs : At(q, "unlink checksum")' => Unlinking(q)'
        BY DEF At, Unlinking
      <4> QED
        BY <3>1, <3>2, <3>3, <4>1, <4>2 DEF IInv, RetentionInv, At
  <2> QED
    BY <2>3, <2>4, <2>7, <2>8 DEF IInv
<1>3. CASE PublishArchive(p)
  <2>1. jobs' \in [Procs -> Job] /\ Becomes(p, "checksum", jobs[p].package, jobs[p].remove)
    BY <1>1, <1>3, Moves DEF PublishArchive, Stages
  <2>2. jobs[p].package \in 1 .. created /\ archives' = archives \cup {jobs[p].package}
    BY <1>3 DEF PublishArchive, At, Creating, IInv, CreateInv
  <2>3. TypeOK'
    BY <1>1, <1>3, <2>1, <2>2 DEF PublishArchive, IInv, TypeOK, Job, importFiles
  <2>4. ImportInv' /\ LatestComplete'
    BY <1>3, <2>1, ImportsQuiet DEF Becomes, PublishArchive
  <2>5. \A q \in Procs : /\ Unlinking(q)' => jobs'[q] = jobs[q] /\ Unlinking(q)
                         /\ Creating(q)' <=> Creating(q)
                         /\ jobs'[q].package = jobs[q].package
                         /\ At(q, "archive")' => At(q, "archive")
    BY <1>3, <2>1 DEF PublishArchive, Becomes, Others, Unlinking, Creating, At
  <2>6. CreateInv'
    BY <1>3, <2>5 DEF PublishArchive, IInv, CreateInv
  <2>7. RetentionInv'
    <3>1. \A x : Kept(x) => Kept(x)'
      BY <1>3, <2>2 DEF PublishArchive, Kept, Verified
    <3>2. \A q \in Procs : Unlinking(q) => jobs[p].package \notin jobs[q].remove
      BY <1>3 DEF PublishArchive, IInv, CreateInv
    <3>3. ASSUME NEW q \in Procs, At(q, "unlink checksum")',
                 NEW x \in Oldest(jobs'[q].remove)
          PROVE  x \notin archives'
      BY <2>2, <2>5, <3>2, <3>3 DEF Unlinking, At, Oldest, IInv, RetentionInv
    <3> QED
      BY <1>3, <2>5, <3>1, <3>3 DEF PublishArchive, IInv, RetentionInv
  <2> QED
    BY <2>3, <2>4, <2>6, <2>7 DEF IInv
<1>4. CASE PublishChecksum(p)
  <2>1. jobs' \in [Procs -> Job] /\ Becomes(p, "prune", jobs[p].package, jobs[p].remove)
    BY <1>1, <1>4, Moves DEF PublishChecksum, Stages
  <2>2. /\ jobs[p].package \in 1 .. created /\ Creating(p)
        /\ checksums' = checksums \cup {jobs[p].package}
    BY <1>4 DEF PublishChecksum, At, Creating, IInv, CreateInv
  <2>3. TypeOK'
    BY <1>1, <1>4, <2>1, <2>2 DEF PublishChecksum, IInv, TypeOK, Job, importFiles
  <2>4. ImportInv' /\ LatestComplete'
    BY <1>4, <2>1, ImportsQuiet DEF Becomes, PublishChecksum
  <2>5. \A q \in Procs : /\ Unlinking(q)' => jobs'[q] = jobs[q] /\ Unlinking(q)
                         /\ Creating(q)' => q # p /\ Creating(q)
                         /\ jobs'[q].package = jobs[q].package
                         /\ At(q, "archive")' => q # p /\ At(q, "archive") /\ Creating(q)
                         /\ At(q, "unlink checksum")' => At(q, "unlink checksum")
    BY <1>4, <2>1 DEF PublishChecksum, Becomes, Others, Unlinking, Creating, At
  <2>6. CreateInv'
    BY <1>4, <2>2, <2>5 DEF PublishChecksum, IInv, CreateInv
  <2>7. RetentionInv'
    <3>1. \A x : Kept(x) => Kept(x)'
      BY <1>4, <2>2 DEF PublishChecksum, Kept, Verified
    <3> QED
      BY <1>4, <2>5, <3>1 DEF PublishChecksum, IInv, RetentionInv, Unlinking, At
  <2> QED
    BY <2>3, <2>4, <2>6, <2>7 DEF IInv
<1> QED
  BY <1>2, <1>3, <1>4

\* What is superseded is followed by a package that is not removed with it.
LEMMA SupersededKept ==
  ASSUME Bounds, TypeOK, NEW x \in Superseded
  PROVE  x \in 1 .. created /\ Kept(x)
<1>1. x \in Verified /\ KeepLatest > 0
      /\ Cardinality({y \in Verified : SameGroup(x, y) /\ y > x}) >= KeepLatest
  BY DEF Superseded
<1>2. Cardinality({y \in Verified : SameGroup(x, y) /\ y > x}) # 0
  BY <1>1 DEF Bounds
<1>3. {y \in Verified : SameGroup(x, y) /\ y > x} # {}
  BY <1>2, FS_EmptySet
<1> QED
  BY <1>1, <1>3 DEF Kept, Verified, TypeOK

\* So does a retention: what another one kept for its sake is kept for the sake of what
\* this one keeps.
LEMMA RetentionKeeps ==
  ASSUME Bounds, IInv, NEW p \in Procs,
         ScanPackages(p) \/ UnlinkArchive(p) \/ UnlinkChecksum(p)
  PROVE  IInv'
<1>1. /\ jobs \in [Procs -> Job] /\ created \in 0 .. MaxPackages
      /\ archives \subseteq 1 .. created /\ checksums \subseteq 1 .. created
      /\ 1 .. created \subseteq Packages
  BY DEF IInv, TypeOK, Job, Packages, Bounds
<1>2. CASE ScanPackages(p)
  <2>1. Superseded \subseteq Packages
    BY <1>1, SupersededKept DEF IInv
  <2>2. jobs' \in [Procs -> Job] /\ Becomes(p, "unlink", None, Superseded)
    BY <1>1, <1>2, <2>1, Moves DEF ScanPackages, Stages
  <2>3. UNCHANGED <<packageFiles, importFiles, kills>>
    BY <1>2 DEF ScanPackages
  <2>4. TypeOK'
    BY <2>2, <2>3 DEF IInv, TypeOK, Job, packageFiles, importFiles
  <2>5. ImportInv' /\ LatestComplete'
    BY <2>2, <2>3, ImportsQuiet DEF Becomes
  <2>6. \A q \in Procs : /\ q # p => jobs'[q] = jobs[q]
                         /\ Unlinking(q)' => q = p \/ Unlinking(q)
                         /\ Creating(q)' => q # p /\ Creating(q)
                         /\ At(q, "archive")' => q # p /\ At(q, "archive") /\ Creating(q)
                         /\ At(q, "unlink checksum")' => q # p /\ At(q, "unlink checksum")
    BY <2>2 DEF Becomes, Others, Unlinking, Creating, At
  <2>7. Superseded \subseteq checksums /\ jobs'[p].remove = Superseded
    BY <2>2 DEF Superseded, Verified, Becomes
  <2>8. CreateInv'
    BY <2>3, <2>6, <2>7 DEF IInv, CreateInv, packageFiles
  <2>9. RetentionInv'
    BY <2>3, <2>6, <2>7, SupersededKept DEF IInv, RetentionInv, packageFiles, Kept, Verified
  <2> QED
    BY <2>4, <2>5, <2>8, <2>9 DEF IInv
<1>3. CASE UnlinkArchive(p)
  <2>1. PICK x \in Oldest(jobs[p].remove) :
          IF x \in Verified
          THEN archives' = archives \ {x} /\ Goto(p, "unlink checksum")
          ELSE End(p) /\ UNCHANGED archives
    BY <1>3 DEF UnlinkArchive
  <2>2. UNCHANGED <<created, checksums, importFiles, kills>>
    BY <1>3 DEF UnlinkArchive
  <2>3. CASE x \notin Verified
    <3>1. jobs' \in [Procs -> Job] /\ Becomes(p, "none", None, {}) /\ archives' = archives
      BY <1>1, <2>1, <2>3, Moves
    <3>2. TypeOK'
      BY <2>2, <3>1 DEF IInv, TypeOK, Job, importFiles
    <3> QED
      BY <2>2, <3>1, <3>2, ImportsQuiet, PackagesQuiet DEF Becomes, IInv, packageFiles
  <2>4. CASE x \in Verified
    <3>1. /\ jobs' \in [Procs -> Job] /\ archives' = archives \ {x}
          /\ Becomes(p, "unlink checksum", jobs[p].package, jobs[p].remove)
      BY <1>1, <2>1, <2>4, Moves DEF Stages
    <3>2. TypeOK'
      BY <1>1, <2>2, <3>1 DEF IInv, TypeOK, Job, importFiles
    <3>3. ImportInv' /\ LatestComplete'
      BY <2>2, <3>1, ImportsQuiet DEF Becomes
    <3>4. \A q \in Procs : /\ jobs'[q].remove = jobs[q].remove
                           /\ jobs'[q].package = jobs[q].package
                           /\ Unlinking(q)' => Unlinking(q)
                           /\ Creating(q)' => Creating(q)
                           /\ At(q, "archive")' => At(q, "archive")
                           /\ At(q, "unlink checksum")' => q = p \/ At(q, "unlink checksum")
      BY <1>3, <3>1 DEF UnlinkArchive, Becomes, Others, Unlinking, Creating, At
    <3>5. CreateInv'
      BY <2>2, <3>4 DEF IInv, CreateInv
    <3>6. x \in jobs[p].remove /\ Unlinking(p) /\ x \in 1 .. created
      BY <1>3, <2>1 DEF UnlinkArchive, At, Unlinking, Oldest, IInv, RetentionInv
    <3>7. PICK z \in Verified : SameGroup(x, z) /\ z > x
      BY <3>6 DEF IInv, RetentionInv, Kept
    <3>8. ASSUME NEW y \in 1 .. created, Kept(y) PROVE Kept(y)'
      <4>1. PICK w \in Verified : SameGroup(y, w) /\ w > y
        BY <3>8 DEF Kept
      <4>2. w \in 1 .. created /\ z \in 1 .. created /\ z # x
        BY <1>1, <3>6, <3>7 DEF Verified
      <4>3. \A v \in Verified : v # x => v \in Verified'
        BY <2>2, <3>1 DEF Verified
      <4>4. CASE w # x
        BY <4>1, <4>3, <4>4 DEF Kept, SameGroup
      <4>5. CASE w = x
        <5>1. z \in Verified' /\ z > y /\ SameGroup(y, z)
          BY <3>6, <3>7, <4>1, <4>2, <4>3, <4>5 DEF SameGroup
        <5> QED
          BY <5>1 DEF Kept, SameGroup
      <4> QED
        BY <4>4, <4>5
    <3>9. \A y \in Oldest(jobs[p].remove) : y = x
      <4>1. \A y \in jobs[p].remove : y \in 1 .. created
        BY <3>6 DEF IInv, RetentionInv
      <4>2. \A y \in Oldest(jobs[p].remove) : y \in 1 .. created /\ x <= y /\ y <= x
        BY <2>1, <4>1 DEF Oldest
      <4> QED
        BY <1>1, <3>6, <4>2
    <3>10. RetentionInv'
      <4>1. \A q \in Procs : Oldest(jobs[q].remove)' = Oldest(jobs[q].remove)
        BY <3>4 DEF Oldest
      <4> QED
        BY <2>2, <3>1, <3>4, <3>8, <3>9, <4>1 DEF IInv, RetentionInv
    <3> QED
      BY <3>2, <3>3, <3>5, <3>10 DEF IInv
  <2> QED
    BY <2>3, <2>4
<1>4. CASE UnlinkChecksum(p)
  <2>1. PICK x \in Oldest(jobs[p].remove) :
          /\ checksums' = checksums \ {x}
          /\ jobs' = [jobs EXCEPT ![p].stage = "unlink", ![p].remove = @ \ {x}]
    BY <1>4 DEF UnlinkChecksum
  <2>2. UNCHANGED <<created, archives, importFiles, kills>> /\ At(p, "unlink checksum")
    BY <1>4 DEF UnlinkChecksum
  <2>3. /\ jobs' \in [Procs -> Job]
        /\ Becomes(p, "unlink", jobs[p].package, jobs[p].remove \ {x})
    BY <1>1, <2>1, Moves DEF Stages
  <2>4. TypeOK'
    BY <1>1, <2>1, <2>2, <2>3 DEF IInv, TypeOK, Job, importFiles
  <2>5. ImportInv' /\ LatestComplete'
    BY <2>2, <2>3, ImportsQuiet DEF Becomes
  <2>6. \A q \in Procs : /\ jobs'[q].remove \subseteq jobs[q].remove
                         /\ q # p => jobs'[q] = jobs[q]
                         /\ jobs'[q].package = jobs[q].package
                         /\ Unlinking(q)' => Unlinking(q)
                         /\ Creating(q)' => Creating(q)
                         /\ At(q, "archive")' => At(q, "archive")
                         /\ At(q, "unlink checksum")' => q # p /\ At(q, "unlink checksum")
    BY <2>2, <2>3 DEF Becomes, Others, Unlinking, Creating, At
  <2>7. CreateInv'
    <3>1. checksums' \subseteq checksums /\ created' = created
      BY <2>1, <2>2
    <3> QED
      BY <2>6, <3>1 DEF IInv, CreateInv
  <2>8. x \notin archives
    BY <2>1, <2>2 DEF IInv, RetentionInv
  <2>9. Verified' = Verified
    BY <2>1, <2>2, <2>8 DEF Verified
  <2>10. RetentionInv'
    BY <2>2, <2>6, <2>9 DEF IInv, RetentionInv, Kept, SameGroup
  <2> QED
    BY <2>4, <2>5, <2>7, <2>10 DEF IInv
<1> QED
  BY <1>2, <1>3, <1>4

-----------------------------------------------------------------------------
(* The commands about imports                                              *)

\* An import keeps the invariant: no list holds the package it takes.
LEMMA ImportKeeps ==
  ASSUME Bounds, IInv, NEW p \in Procs,
         BeginImport(p) \/ Materialize(p) \/ PublishImport(p) \/ UpdateLatest(p)
  PROVE  IInv'
<1>1. /\ jobs \in [Procs -> Job] /\ imports \in Seq(Packages) /\ None \notin Packages
      /\ archives \subseteq Packages /\ dirs \in [Packages -> {"none", "whole", "part"}]
  BY DEF IInv, TypeOK, Job, Packages, Bounds, None
<1>2. CASE BeginImport(p)
  <2>1. PICK x \in archives \cup Selected :
          /\ x \in Range(imports) => ~\E q \in Procs : Pruning(q)
          /\ jobs' = [jobs EXCEPT ![p] = [NoJob EXCEPT !.stage = "verify", !.package = x]]
    BY <1>2 DEF BeginImport
  <2>2. /\ UNCHANGED <<packageFiles, importFiles, kills>>
        /\ ~\E q \in Procs : Importing(q)
    BY <1>2 DEF BeginImport
  <2>3. x \in Packages
    BY <1>1, <2>1 DEF Selected, Newest
  <2>4. jobs' \in [Procs -> Job] /\ Becomes(p, "verify", x, {})
    BY <1>1, <2>1, <2>3, Moves DEF Stages
  <2>5. TypeOK'
    BY <2>2, <2>4 DEF IInv, TypeOK, Job, packageFiles, importFiles
  <2>6. CreateInv' /\ RetentionInv'
    BY <2>2, <2>4, PackagesQuiet DEF Becomes
  <2>7. \A q \in Procs : /\ Importing(q)' => q = p
                         /\ Pruning(q)' => Pruning(q) /\ jobs'[q] = jobs[q]
                         /\ Removing(q)' => Removing(q) /\ Pruning(q) /\ jobs'[q] = jobs[q]
                         /\ ~At(q, "link")' /\ ~At(q, "publish")'
    BY <2>2, <2>4 DEF Becomes, Others, Importing, Pruning, Removing, At
  <2>8. jobs'[p].package = x
    BY <2>4 DEF Becomes, Others
  <2>9. Imported = Range(imports) /\ Imported' = Imported
    BY <2>2 DEF Imported, Range, importFiles
  <2>10. Repeats(p)' => x \in Range(imports)
    <3>1. imports' = imports /\ ~At(p, "link")' /\ DOMAIN imports = 1 .. Len(imports)
      BY <1>1, <2>2, <2>7 DEF importFiles
    <3> QED
      BY <2>8, <3>1 DEF Repeats, Range
  <2>11. \A q, o \in Procs : Repeats(q)' => ~Pruning(o)'
    <3>1. \A q \in Procs : Repeats(q)' => q = p
      BY <2>7 DEF Repeats
    <3> QED
      BY <2>1, <2>7, <2>10, <3>1
  <2>12. \A q \in Procs : Removing(q) => x \notin jobs[q].remove
    BY <2>1, <2>9 DEF IInv, ImportInv, Removing, Pruning
  <2>13. ImportInv' /\ LatestComplete'
    <3>1. dirs' = dirs /\ latest' = latest
      BY <2>2 DEF importFiles
    <3> QED
      BY <2>3, <2>7, <2>8, <2>9, <2>11, <2>12, <3>1 DEF IInv, ImportInv, LatestComplete
  <2> QED
    BY <2>5, <2>6, <2>13 DEF IInv
<1>3. CASE Materialize(p)
  <2> DEFINE x == jobs[p].package
  <2>1. /\ UNCHANGED <<packageFiles, importFiles, kills>> /\ At(p, "verify")
        /\ IF x \in archives /\ dirs[x] = "none" THEN Goto(p, "publish") ELSE End(p)
    BY <1>3 DEF Materialize
  <2>2. CASE ~(x \in archives /\ dirs[x] = "none")
    <3>1. jobs' \in [Procs -> Job] /\ Becomes(p, "none", None, {})
      BY <1>1, <2>1, <2>2, Moves
    <3>2. TypeOK'
      BY <2>1, <3>1 DEF IInv, TypeOK, Job, packageFiles, importFiles
    <3> QED
      BY <2>1, <3>1, <3>2, ImportsQuiet, PackagesQuiet DEF Becomes, IInv
  <2>3. CASE x \in archives /\ dirs[x] = "none"
    <3>1. jobs' \in [Procs -> Job] /\ Becomes(p, "publish", x, jobs[p].remove)
      BY <1>1, <2>1, <2>3, Moves DEF Stages
    <3>2. TypeOK'
      BY <2>1, <3>1 DEF IInv, TypeOK, Job, packageFiles, importFiles
    <3>3. CreateInv' /\ RetentionInv'
      BY <2>1, <3>1, PackagesQuiet DEF Becomes
    <3>4. \A q \in Procs : /\ jobs'[q].package = jobs[q].package
                           /\ jobs'[q].remove = jobs[q].remove
                           /\ Importing(q)' => Importing(q)
                           /\ Pruning(q)' => Pruning(q)
                           /\ Removing(q)' => Removing(q)
                           /\ At(q, "link")' <=> At(q, "link")
                           /\ At(q, "publish")' => q = p \/ At(q, "publish")
      BY <2>1, <3>1 DEF Becomes, Others, Importing, Pruning, Removing, At
    <3>5. UNCHANGED <<dirs, imports, latest, Imported>>
      BY <2>1 DEF importFiles, Imported
    <3>6. \A q \in Procs : Repeats(q)' => Repeats(q)
      BY <3>4, <3>5 DEF Repeats
    <3>7. ImportInv' /\ LatestComplete'
      BY <2>3, <3>4, <3>5, <3>6 DEF IInv, ImportInv, LatestComplete
    <3> QED
      BY <3>2, <3>3, <3>7 DEF IInv
  <2> QED
    BY <2>2, <2>3
<1>4. CASE PublishImport(p)
  <2> DEFINE x == jobs[p].package
  <2>1. /\ UNCHANGED <<packageFiles, latest, kills>> /\ At(p, "publish")
        /\ imports' = Append(imports, x) /\ dirs' = [dirs EXCEPT ![x] = "whole"]
        /\ Goto(p, "link")
    BY <1>4 DEF PublishImport
  <2>2. jobs' \in [Procs -> Job] /\ Becomes(p, "link", x, jobs[p].remove)
    BY <1>1, <2>1, Moves DEF Stages
  <2>3. Importing(p) /\ x \in Packages /\ dirs[x] = "none"
    BY <2>1 DEF Importing, At, IInv, ImportInv
  <2>4. /\ imports' \in Seq(Packages) /\ imports' # <<>>
        /\ Len(imports') = Len(imports) + 1 /\ Len(imports) \in Nat
        /\ imports'[Len(imports')] = x
        /\ \A i \in 1 .. Len(imports) : imports'[i] = imports[i]
        /\ DOMAIN imports = 1 .. Len(imports) /\ DOMAIN imports' = 1 .. Len(imports')
    BY <1>1, <2>1, <2>3
  <2>5. Imported' = Imported \cup {x}
    <3>1. \A i \in DOMAIN imports' : i \in DOMAIN imports \/ i = Len(imports')
      BY <2>4
    <3>2. \A i \in DOMAIN imports : i \in DOMAIN imports' /\ imports'[i] = imports[i]
      BY <2>4
    <3>3. Len(imports') \in DOMAIN imports'
      BY <2>4
    <3> QED
      BY <2>4, <3>1, <3>2, <3>3 DEF Imported
  <2>6. TypeOK'
    BY <1>1, <2>1, <2>2, <2>3, <2>4 DEF IInv, TypeOK, Job, packageFiles
  <2>7. CreateInv' /\ RetentionInv'
    BY <2>1, <2>2, PackagesQuiet DEF Becomes
  <2>8. \A q \in Procs : /\ jobs'[q].package = jobs[q].package
                         /\ jobs'[q].remove = jobs[q].remove
                         /\ Importing(q)' <=> Importing(q)
                         /\ Pruning(q)' => Pruning(q)
                         /\ Removing(q)' => Removing(q)
                         /\ Importing(q) => q = p
                         /\ At(q, "link")' => q = p
                         /\ ~At(q, "publish")'
    BY <2>1, <2>2, <2>3
    DEF Becomes, Others, Importing, Pruning, Removing, At, IInv, ImportInv
  <2>9. \A q \in Procs : Repeats(q)' => Repeats(q)
    <3>1. At(p, "link")' /\ ~At(p, "link")
      BY <2>1, <2>2 DEF Becomes, Others, At
    <3>2. Len(imports') - 1 = Len(imports)
      BY <2>4
    <3>3. Repeats(p)' => Repeats(p)
      BY <2>3, <2>4, <2>8, <3>1, <3>2 DEF Repeats
    <3> QED
      BY <2>8, <3>3 DEF Repeats
  <2>10. LatestComplete'
    BY <1>1, <2>1, <2>3 DEF IInv, TypeOK, LatestComplete
  <2>11. ImportInv'
    BY <1>1, <2>1, <2>3, <2>4, <2>5, <2>8, <2>9 DEF IInv, ImportInv
  <2> QED
    BY <2>6, <2>7, <2>10, <2>11 DEF IInv
<1>5. CASE UpdateLatest(p)
  <2> DEFINE x == jobs[p].package
  <2>1. UNCHANGED <<packageFiles, dirs, imports, kills>> /\ At(p, "link")
    BY <1>5 DEF UpdateLatest
  <2>2. Importing(p) /\ x \in Packages /\ dirs[x] = "whole"
    BY <2>1 DEF Importing, At, IInv, ImportInv
  <2>3. latest' = x /\ Goto(p, "prune imports")
    BY <1>5, <2>2 DEF UpdateLatest
  <2>4. jobs' \in [Procs -> Job] /\ Becomes(p, "prune imports", x, jobs[p].remove)
    BY <1>1, <2>3, Moves DEF Stages
  <2>5. TypeOK'
    BY <1>1, <2>1, <2>2, <2>3, <2>4 DEF IInv, TypeOK, Job, packageFiles
  <2>6. CreateInv' /\ RetentionInv'
    BY <2>1, <2>4, PackagesQuiet DEF Becomes
  <2>7. \A q \in Procs : /\ ~Importing(q)' /\ ~At(q, "link")' /\ ~At(q, "publish")'
                         /\ ~Repeats(q)'
                         /\ jobs'[q].remove = jobs[q].remove
                         /\ Removing(q)' => Removing(q)
    BY <2>1, <2>2, <2>4
    DEF Becomes, Others, Importing, Removing, Repeats, At, IInv, ImportInv
  <2>8. \A q \in Procs : Removing(q) => x \notin jobs[q].remove
    BY <2>2 DEF IInv, ImportInv
  <2>9. Imported' = Imported /\ dirs' = dirs
    BY <2>1 DEF Imported
  <2>10. LatestComplete'
    BY <2>2, <2>3, <2>9 DEF LatestComplete
  <2>11. ImportInv'
    BY <2>3, <2>7, <2>8, <2>9 DEF IInv, ImportInv
  <2> QED
    BY <2>5, <2>6, <2>10, <2>11 DEF IInv
<1> QED
  BY <1>2, <1>3, <1>4, <1>5

\* The last import is nobody's to remove.
LEMMA LastIsKept ==
  ASSUME Bounds, TypeOK, imports # <<>> PROVE imports[Len(imports)] \notin Outdated
<1> DEFINE x == imports[Len(imports)]
<1> SUFFICES ASSUME x \in Outdated PROVE FALSE
  OBVIOUS
<1>1. DOMAIN imports = 1 .. Len(imports) /\ Len(imports) \in DOMAIN imports
  BY DEF TypeOK
<1>2. \A j \in DOMAIN imports : ~(Len(imports) < j)
  BY <1>1
<1>3. \A y : ~ImportedAfter(y, x)
  BY <1>1, <1>2 DEF ImportedAfter
<1>4. {y \in Whole : SameGroup(x, y) /\ ImportedAfter(y, x)} = {}
  BY <1>3
<1>5. Cardinality({}) = 0
  BY FS_EmptySet
<1> QED
  BY <1>4, <1>5 DEF Outdated, Bounds

\* So does the retention of imports, whose list the package of an import is not on.
LEMMA PruneImportsKeeps ==
  ASSUME Bounds, IInv, NEW p \in Procs,
         BeginPruneImports(p) \/ ScanImports(p) \/ BeginRemove(p) \/ EndRemove(p)
  PROVE  IInv'
<1>1. /\ jobs \in [Procs -> Job] /\ imports \in Seq(Packages)
      /\ dirs \in [Packages -> {"none", "whole", "part"}]
  BY DEF IInv, TypeOK, Job
<1>2. CASE BeginPruneImports(p)
  <2>1. /\ UNCHANGED <<packageFiles, importFiles, kills>> /\ At(p, "none")
        /\ Goto(p, "prune imports") /\ ~\E q \in Procs : Repeats(q)
    BY <1>2 DEF BeginPruneImports
  <2>2. /\ jobs' \in [Procs -> Job]
        /\ Becomes(p, "prune imports", jobs[p].package, jobs[p].remove)
    BY <1>1, <2>1, Moves DEF Stages
  <2>3. TypeOK'
    BY <2>1, <2>2 DEF IInv, TypeOK, Job, packageFiles, importFiles
  <2>4. CreateInv' /\ RetentionInv'
    BY <2>1, <2>2, PackagesQuiet DEF Becomes
  <2>5. \A q \in Procs : /\ jobs'[q].package = jobs[q].package
                         /\ jobs'[q].remove = jobs[q].remove
                         /\ Importing(q)' <=> Importing(q)
                         /\ Removing(q)' => Removing(q)
                         /\ At(q, "link")' <=> At(q, "link")
                         /\ At(q, "publish")' <=> At(q, "publish")
    BY <2>1, <2>2 DEF Becomes, Others, Importing, Removing, At
  <2>6. UNCHANGED <<dirs, imports, latest, Imported>>
    BY <2>1 DEF importFiles, Imported
  <2>7. \A q \in Procs : ~Repeats(q)'
    BY <2>1, <2>5, <2>6 DEF Repeats
  <2>8. ImportInv' /\ LatestComplete'
    BY <2>5, <2>6, <2>7 DEF IInv, ImportInv, LatestComplete
  <2> QED
    BY <2>3, <2>4, <2>8 DEF IInv
<1>3. CASE ScanImports(p)
  <2>1. UNCHANGED <<packageFiles, importFiles, kills>> /\ At(p, "prune imports")
    BY <1>3 DEF ScanImports
  <2>2. Outdated \subseteq Packages /\ latest \notin Outdated
        /\ \A x \in Outdated : dirs[x] = "whole"
    BY DEF Outdated, Whole
  <2>3. jobs' \in [Procs -> Job] /\ Becomes(p, "remove", None, Outdated)
    BY <1>1, <1>3, <2>2, Moves DEF ScanImports, Stages
  <2>4. TypeOK'
    BY <2>1, <2>3 DEF IInv, TypeOK, Job, packageFiles, importFiles
  <2>5. CreateInv' /\ RetentionInv'
    BY <2>1, <2>3, PackagesQuiet DEF Becomes
  <2>6. \A q \in Procs : /\ q # p => jobs'[q] = jobs[q]
                         /\ Importing(q)' => Importing(q) /\ q # p
                         /\ Pruning(q)' => Pruning(q)
                         /\ Removing(q)' => q = p \/ Removing(q)
                         /\ At(q, "link")' => At(q, "link") /\ q # p
                         /\ At(q, "publish")' => At(q, "publish") /\ q # p
    BY <2>1, <2>3 DEF Becomes, Others, Importing, Pruning, Removing, At
  <2>7. UNCHANGED <<dirs, imports, latest, Imported>>
    BY <2>1 DEF importFiles, Imported
  <2>8. \A q \in Procs : Repeats(q)' => Repeats(q)
    BY <2>6, <2>7 DEF Repeats, At
  <2>9. ASSUME NEW q \in Procs, Importing(q) PROVE jobs[q].package \notin Outdated
    <3>1. CASE At(q, "link")
      BY <3>1, LastIsKept DEF IInv, ImportInv
    <3>2. CASE ~At(q, "link")
      <4>1. ~Repeats(q)
        BY <2>1 DEF IInv, ImportInv, Pruning, At
      <4>2. jobs[q].package \notin Imported
        BY <1>1, <2>9, <3>2, <4>1 DEF Repeats, Imported
      <4> QED
        BY <2>2, <4>2 DEF IInv, ImportInv
    <3> QED
      BY <3>1, <3>2
  <2>10. Outdated \subseteq Imported /\ jobs'[p].remove = Outdated
    BY <2>2, <2>3 DEF IInv, ImportInv, Becomes
  <2>11. ImportInv' /\ LatestComplete'
    BY <2>2, <2>6, <2>7, <2>8, <2>9, <2>10 DEF IInv, ImportInv, LatestComplete
  <2> QED
    BY <2>4, <2>5, <2>11 DEF IInv
<1>4. CASE BeginRemove(p)
  <2>1. PICK x \in FirstImported(jobs[p].remove) :
          IF dirs[x] = "whole"
          THEN dirs' = [dirs EXCEPT ![x] = "part"] /\ Goto(p, "remove rest")
          ELSE End(p) /\ UNCHANGED dirs
    BY <1>4 DEF BeginRemove
  <2>2. UNCHANGED <<packageFiles, imports, latest, kills>> /\ At(p, "remove")
    BY <1>4 DEF BeginRemove
  <2>3. CASE dirs[x] # "whole"
    <3>1. jobs' \in [Procs -> Job] /\ Becomes(p, "none", None, {}) /\ dirs' = dirs
      BY <1>1, <2>1, <2>3, Moves
    <3>2. TypeOK'
      BY <2>2, <3>1 DEF IInv, TypeOK, Job, packageFiles
    <3> QED
      BY <2>2, <3>1, <3>2, ImportsQuiet, PackagesQuiet DEF Becomes, IInv, importFiles
  <2>4. CASE dirs[x] = "whole"
    <3>1. /\ jobs' \in [Procs -> Job] /\ dirs' = [dirs EXCEPT ![x] = "part"]
          /\ Becomes(p, "remove rest", jobs[p].package, jobs[p].remove)
      BY <1>1, <2>1, <2>4, Moves DEF Stages
    <3>2. /\ x \in jobs[p].remove /\ x \in Packages /\ x # latest /\ x \in Imported
          /\ \A q \in Procs : Importing(q) => jobs[q].package # x
      BY <1>1, <2>1, <2>2 DEF FirstImported, Job, At, Removing, IInv, ImportInv
    <3>3. TypeOK'
      BY <1>1, <2>2, <3>1 DEF IInv, TypeOK, Job, packageFiles
    <3>4. CreateInv' /\ RetentionInv'
      BY <2>2, <3>1, PackagesQuiet DEF Becomes
    <3>5. \A q \in Procs : /\ jobs'[q].package = jobs[q].package
                           /\ jobs'[q].remove = jobs[q].remove
                           /\ Importing(q)' <=> Importing(q)
                           /\ Pruning(q)' <=> Pruning(q)
                           /\ Removing(q)' <=> Removing(q)
                           /\ At(q, "link")' <=> At(q, "link")
                           /\ At(q, "link") => Importing(q)
                           /\ At(q, "publish")' => At(q, "publish") /\ Importing(q)
      BY <2>2, <3>1 DEF Becomes, Others, Importing, Pruning, Removing, At
    <3>6. UNCHANGED <<imports, latest, Imported>>
      BY <2>2 DEF Imported
    <3>7. \A q \in Procs : Repeats(q)' => Repeats(q)
      BY <2>2, <3>1, <3>5, <3>6 DEF Repeats
    <3>8. \A y \in Packages : y # x => dirs'[y] = dirs[y]
      BY <1>1, <3>1
    <3>9. LatestComplete'
      BY <3>2, <3>6, <3>8 DEF IInv, LatestComplete, TypeOK
    <3>10. ImportInv'
      BY <3>2, <3>5, <3>6, <3>7, <3>8 DEF IInv, ImportInv
    <3> QED
      BY <3>3, <3>4, <3>9, <3>10 DEF IInv
  <2> QED
    BY <2>3, <2>4
<1>5. CASE EndRemove(p)
  <2>1. PICK x \in FirstImported(jobs[p].remove) :
          /\ dirs' = [dirs EXCEPT ![x] = "none"]
          /\ jobs' = [jobs EXCEPT ![p].stage = "remove", ![p].remove = @ \ {x}]
    BY <1>5 DEF EndRemove
  <2>2. UNCHANGED <<packageFiles, imports, latest, kills>> /\ At(p, "remove rest")
    BY <1>5 DEF EndRemove
  <2>3. /\ jobs' \in [Procs -> Job]
        /\ Becomes(p, "remove", jobs[p].package, jobs[p].remove \ {x})
    BY <1>1, <2>1, Moves DEF Stages
  <2>4. /\ x \in jobs[p].remove /\ x \in Packages /\ x # latest
        /\ \A q \in Procs : Importing(q) => jobs[q].package # x
    BY <1>1, <2>1, <2>2 DEF FirstImported, Job, At, Removing, IInv, ImportInv
  <2>5. TypeOK'
    BY <1>1, <2>1, <2>2, <2>3 DEF IInv, TypeOK, Job, packageFiles
  <2>6. CreateInv' /\ RetentionInv'
    BY <2>2, <2>3, PackagesQuiet DEF Becomes
  <2>7. \A q \in Procs : /\ jobs'[q].package = jobs[q].package
                         /\ jobs'[q].remove \subseteq jobs[q].remove
                         /\ Importing(q)' <=> Importing(q)
                         /\ Pruning(q)' <=> Pruning(q)
                         /\ Removing(q)' <=> Removing(q)
                         /\ At(q, "link")' <=> At(q, "link")
                         /\ At(q, "link") => Importing(q)
                         /\ At(q, "publish")' => At(q, "publish") /\ Importing(q)
    BY <2>2, <2>3 DEF Becomes, Others, Importing, Pruning, Removing, At
  <2>8. UNCHANGED <<imports, latest, Imported>>
    BY <2>2 DEF Imported
  <2>9. \A q \in Procs : Repeats(q)' => Repeats(q)
    BY <2>2, <2>3, <2>7, <2>8 DEF Repeats
  <2>10. /\ \A y \in Packages : y # x => dirs'[y] = dirs[y]
         /\ dirs'[x] = "none"
    BY <1>1, <2>1, <2>4
  <2>11. LatestComplete'
    BY <2>4, <2>8, <2>10 DEF IInv, LatestComplete, TypeOK
  <2>12. ImportInv'
    BY <2>4, <2>7, <2>8, <2>9, <2>10 DEF IInv, ImportInv
  <2> QED
    BY <2>5, <2>6, <2>11, <2>12 DEF IInv
<1> QED
  BY <1>2, <1>3, <1>4, <1>5

\* A command that begins with its retention, ends, or is killed.
LEMMA EndsKeep ==
  ASSUME Bounds, IInv, NEW p \in Procs,
         BeginPrune(p) \/ EndPrune(p) \/ EndPruneImports(p) \/ Kill(p)
  PROVE  IInv'
<1>1. jobs \in [Procs -> Job]
  BY DEF IInv, TypeOK, Job
<1>2. jobs' \in [Procs -> Job] /\ Others(p) /\ jobs'[p].stage \in {"none", "prune"}
  <2>1. CASE BeginPrune(p)
    BY <1>1, <2>1, Moves DEF BeginPrune, Becomes, Stages
  <2>2. CASE EndPrune(p) \/ EndPruneImports(p) \/ Kill(p)
    BY <1>1, <2>2, Moves DEF EndPrune, EndPruneImports, Kill, Becomes
  <2> QED
    BY <2>1, <2>2
<1>3. UNCHANGED <<packageFiles, importFiles>> /\ kills' \in 0 .. MaxKills
  <2>1. kills \in 0 .. MaxKills
    BY DEF IInv, TypeOK
  <2>2. CASE Kill(p)
    BY <2>1, <2>2 DEF Kill, Bounds
  <2>3. CASE BeginPrune(p) \/ EndPrune(p) \/ EndPruneImports(p)
    BY <2>1, <2>3 DEF BeginPrune, EndPrune, EndPruneImports
  <2> QED
    BY <2>2, <2>3
<1>4. TypeOK'
  BY <1>2, <1>3 DEF IInv, TypeOK, Job, packageFiles, importFiles
<1> QED
  BY <1>2, <1>3, <1>4, ImportsQuiet, PackagesQuiet DEF Becomes, IInv

-----------------------------------------------------------------------------
(* The specification                                                       *)

\* It holds in the beginning, when nobody has begun a command.
LEMMA Beginning == ASSUME Bounds, Init PROVE IInv
<1>1. NoJob \in Job /\ NoJob.stage = "none"
  BY DEF NoJob, Job, Stages
<1>2. TypeOK
  BY <1>1 DEF Init, TypeOK, Job, Bounds
<1>3. CreateInv /\ RetentionInv
  BY <1>1 DEF Init, CreateInv, RetentionInv, Creating, Unlinking, At
<1>4. ImportInv /\ LatestComplete
  BY <1>1 DEF Init, ImportInv, LatestComplete, Importing, Removing, Repeats, At
<1> QED
  BY <1>2, <1>3, <1>4 DEF IInv

\* Every step keeps it.
LEMMA Stepping == ASSUME Bounds, IInv, [Next]_vars PROVE IInv'
<1>1. CASE UNCHANGED vars
  <2>1. /\ created' = created /\ archives' = archives /\ checksums' = checksums
        /\ dirs' = dirs /\ imports' = imports /\ latest' = latest /\ kills' = kills
        /\ jobs' = jobs
    BY <1>1 DEF vars
  <2>2. TypeOK' /\ LatestComplete'
    BY <2>1 DEF IInv, TypeOK, LatestComplete
  <2>3. CreateInv' /\ RetentionInv'
    BY <2>1 DEF IInv, CreateInv, RetentionInv, Creating, Unlinking, At, Kept, Verified
  <2>4. ImportInv'
    BY <2>1 DEF IInv, ImportInv, At, Imported, Importing, Repeats, Pruning, Removing
  <2> QED
    BY <2>2, <2>3, <2>4 DEF IInv
<1>2. CASE Next
  <2>1. PICK p \in Procs :
          \/ BeginCreate(p) \/ PublishArchive(p) \/ PublishChecksum(p)
          \/ ScanPackages(p) \/ UnlinkArchive(p) \/ UnlinkChecksum(p)
          \/ BeginImport(p) \/ Materialize(p) \/ PublishImport(p) \/ UpdateLatest(p)
          \/ BeginPruneImports(p) \/ ScanImports(p) \/ BeginRemove(p) \/ EndRemove(p)
          \/ BeginPrune(p) \/ EndPrune(p) \/ EndPruneImports(p) \/ Kill(p)
    BY <1>2 DEF Next
  <2> QED
    BY <2>1, CreateKeeps, RetentionKeeps, ImportKeeps, PruneImportsKeeps, EndsKeep
<1> QED
  BY <1>1, <1>2

\* The invariant holds in every reachable state.
THEOREM Inductive ==
  ASSUME Bounds PROVE Spec => []IInv
BY Beginning, Stepping, PTL DEF Spec

\* Every reachable state is well-typed.
THEOREM TypeCorrect ==
  ASSUME Bounds PROVE Spec => []TypeOK
<1>1. IInv => TypeOK
  BY DEF IInv
<1> QED
  BY <1>1, Inductive, PTL

\* The link "latest" leads to a whole directory, whatever retention runs beside an import
\* and wherever either is killed.
THEOREM Latest ==
  ASSUME Bounds PROVE Spec => []LatestComplete
<1>1. IInv => LatestComplete
  BY DEF IInv
<1> QED
  BY <1>1, Inductive, PTL

\* When an archive goes, a newer one of its group is there with its checksum.
THEOREM Newer ==
  ASSUME Bounds PROVE Spec => NewestKept
<1>1. ASSUME IInv, [Next]_vars, NEW x \in archives \ archives'
      PROVE  \E y \in archives' \cap checksums' : SameGroup(x, y) /\ y > x
  <2>1. PICK p \in Procs : UnlinkArchive(p)
    BY <1>1
    DEF Next, vars, packageFiles, BeginCreate, PublishArchive, PublishChecksum, BeginPrune,
        ScanPackages, UnlinkChecksum, EndPrune, BeginImport, Materialize, PublishImport,
        UpdateLatest, BeginPruneImports, ScanImports, BeginRemove, EndRemove,
        EndPruneImports, Kill
  <2>2. /\ x \in Oldest(jobs[p].remove) /\ archives' = archives \ {x}
        /\ checksums' = checksums /\ Unlinking(p)
    BY <1>1, <2>1 DEF UnlinkArchive, Unlinking, At
  <2>3. PICK y \in Verified : SameGroup(x, y) /\ y > x
    BY <1>1, <2>2 DEF IInv, RetentionInv, Kept, Oldest
  <2>4. x \in Nat
    BY <1>1 DEF IInv, TypeOK
  <2> QED
    BY <2>2, <2>3, <2>4 DEF Verified
<1>2. IInv /\ [Next]_vars =>
        [\A x \in archives \ archives' :
           \E y \in archives' \cap checksums' : SameGroup(x, y) /\ y > x]_vars
  BY <1>1
<1> QED
  BY <1>2, Inductive, PTL DEF Spec, NewestKept
=============================================================================
