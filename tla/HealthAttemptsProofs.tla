------------------------- MODULE HealthAttemptsProofs -------------------------
(***************************************************************************)
(* Proofs about HealthAttempts, for one health-check process at a time and *)
(* no plan or acceptance while it runs: what is published belongs          *)
(* together, a verified rollback has its evidence, be it a WARN the        *)
(* operator accepted, and the pointer never goes back; for any             *)
(* number of attempts, any profiles and any set of steps a process may be  *)
(* killed or interrupted at.                                               *)
(***************************************************************************)
EXTENDS HealthAttempts, TLAPS

\* The operator starts one health-check at a time, and no plan or acceptance while it
\* runs: starting and publishing an attempt take no lock.
OneAtATime == Overlap = FALSE /\ \A p, q \in Procs : p = q

Is(a, status) == a # None /\ dirs[a].status = status
HealthOf(a) == pub.health # None /\ pub.health.attempt = a

\* What the published documents and the pointers name is there.
RefInv ==
  /\ \A x \in {meta.attempt, pub.snapshot, current} : x = None \/ x \in 1..last
  /\ pub.health # None => pub.health.attempt \in 1..last
  /\ pub.snapshot # None => dirs[pub.snapshot].built
  /\ current # None => dirs[current].built

\* A process works on the last attempt, and what its step says is there.
AttemptInv ==
  \A p \in Procs : pc[p] # "idle" =>
    /\ pc[p] \in Steps /\ last \in 1..last /\ Mine(p) = last
    /\ pc[p] \in {"profile", "gate", "answer"} => phase = "before"
    /\ pc[p] \in {"verify", "conclusion", "conclude"} => phase = "rollback"
    /\ pc[p] \notin {"current", "gate", "answer", "conclusion", "conclude"} =>
         dirs[last].status # "COMPLETED"
    /\ pc[p] \notin {"collect", "collecting", "open", "build"} =>
         meta.attempt = last /\ meta.build # "not_started"
    /\ pc[p] \notin {"collect", "collecting", "open", "build", "building"} =>
         dirs[last].built
    /\ At(p, "verify") => mem[p].todo = {"snapshot", "health"}
    /\ At(p, "publish") =>
         /\ "snapshot" \notin mem[p].todo => pub.snapshot = last
         /\ "health" \notin mem[p].todo => HealthOf(last)
    /\ pc[p] \in {"profile", "result", "current", "gate", "conclusion", "conclude"} =>
         pub.snapshot = last /\ HealthOf(last)
    /\ pc[p] \in {"result", "current"} /\ phase = "before" =>
         pub.profile = dirs[last].profile
    /\ At(p, "answer") => mem[p].health # None /\ mem[p].health.attempt = last
    /\ pc[p] \in {"conclusion", "conclude"} => current = last
    /\ At(p, "conclude") => concluded = last

\* Once the attempt of the metadata is complete, everything published is of it.
PublishedInv ==
  Is(meta.attempt, "COMPLETED") =>
    /\ pub.snapshot = meta.attempt /\ HealthOf(meta.attempt)
    /\ phase = "before" => pub.profile = dirs[meta.attempt].profile

\* The planner has the phase for itself, and what it found is what is published; so
\* has an acceptance, and the WARN it is about is the one both pointers lead to.
PlannerInv ==
  pc[Planner] # "idle" =>
    /\ pc[Planner] \in PlanSteps \cup AcceptSteps
    /\ phase = IF pc[Planner] \in PlanSteps THEN "before" ELSE "rollback"
    /\ \A p \in Procs : At(p, "idle")
    /\ pc[Planner] \in AcceptSteps =>
         /\ current # None /\ concluded = current /\ Mine(Planner) = current
         /\ dirs[current].verdict = "WARN"
    /\ At(Planner, "accept") => accepted = current
    /\ At(Planner, "check") => Mine(Planner) = meta.attempt
    /\ At(Planner, "ready") =>
         /\ Mine(Planner) # None /\ mem[Planner].health # None
         /\ current # None =>
              /\ Mine(Planner) = current /\ mem[Planner].health.attempt = current
              /\ dirs[current].status = "COMPLETED"
              /\ dirs[current].profile = pub.profile
              /\ Eligible(mem[Planner].health)

\* After the plan, and after a verified rollback, no attempt is started.
WorkflowInv ==
  /\ meta.workflow \in IF phase = "before" THEN {"none", "plan_ready"}
                       ELSE {"rolled_back", "rollback_health_failed",
                             "rolled_back_and_verified"}
  /\ plan # None => phase = "before" /\ meta.workflow = "plan_ready"
  /\ meta.workflow \in {"plan_ready", "rolled_back_and_verified"} =>
       \A p \in Procs : At(p, "idle")

\* A phase is in progress only while a process is at it, or after a cut that leaves no
\* way on.
PhaseInv ==
  /\ {meta.collect, meta.build} \subseteq
       {"not_started", "running", "completed", "failed", "cancelled"}
  /\ meta.build = "running" => stuck \/ \E p \in Procs : At(p, "building")
  /\ meta.collect = "running" /\ phase = "rollback" =>
       stuck \/ \E p \in Procs : At(p, "collecting")

\* Published files have a profile, and without a pointer they are those of the
\* metadata's attempt.
FilesInv ==
  /\ pub.snapshot # None => meta.attempt # None /\ meta.build # "not_started"
  /\ pub.profile = None =>
       /\ phase = "before"
       /\ pub.snapshot # None =>
            stuck \/ \E p \in Procs : pc[p] \in {"publish", "profile"}
  /\ current = None /\ pub.snapshot # None =>
       /\ dirs[meta.attempt].built
       /\ \A p \in Procs : pc[p] \in {"idle", "publish", "profile", "result", "current"}

IInv ==
  /\ TypeOK /\ RefInv /\ AttemptInv /\ PublishedInv /\ PlannerInv
  /\ WorkflowInv /\ PhaseInv /\ FilesInv
  /\ PlanCoherent /\ ConcludedOnEvidence

-----------------------------------------------------------------------------

\* Process p goes on, and the planner stays where it is.
Moves(p, there) ==
  /\ pc' \in [Procs \cup {Planner} -> {"idle"} \cup Steps \cup PlanSteps \cup AcceptSteps]
  /\ pc'[p] = there /\ pc'[Planner] = pc[Planner]
Keeps(p) ==
  /\ mem' \in [Procs \cup {Planner} -> Memories]
  /\ mem'[Planner] = mem[Planner]

\* An attempt's directory but for its status, and its status.
Content(dir) == <<dir.profile, dir.built, dir.verdict, dir.result, dir.gate>>
DirsTyped == dirs' \in [1..last -> Dirs]
Others == \A a \in 1..last : a # last => dirs'[a] = dirs[a]
Marked(status) ==
  /\ DirsTyped /\ Others /\ dirs'[last].status = status
  /\ Content(dirs'[last]) = Content(dirs[last])

\* Process p is at work on the last attempt, alone, and nothing is planned or concluded.
Sole(p) ==
  /\ p # Planner /\ \A q \in Procs : q = p
  /\ Mine(p) = last /\ last \in 1..last /\ last \in Attempts /\ last # None
  /\ pc[p] \in Steps /\ pc[Planner] = "idle" /\ plan = None
  /\ meta.workflow \notin {"plan_ready", "rolled_back_and_verified"}

\* A process that is not idle is.
LEMMA Busy ==
  ASSUME IInv, OneAtATime, NEW p \in Procs, pc[p] # "idle"
  PROVE  Sole(p)
BY AttemptProcsAssumption, AttemptBoundAssumption, AttemptNoneAssumption
   DEF IInv, TypeOK, WorkflowInv, PlannerInv, AttemptInv, OneAtATime, At, Attempts, Sole

\* Where a process goes is one of its steps.
LEMMA Going ==
  ASSUME TypeOK, NEW p \in Procs, NEW there \in Steps, Goto(p, there)
  PROVE  /\ Moves(p, there)
         /\ mem' = mem => Keeps(p)
BY AttemptProcsAssumption DEF TypeOK, Goto, Moves, Keeps

\* A process that ends is idle and remembers nothing.
LEMMA Ending ==
  ASSUME TypeOK, NEW p \in Procs, End(p)
  PROVE  Moves(p, "idle") /\ Keeps(p)
<1>1. Idle \in Memories
  BY DEF Idle, Memories
<1> QED
  BY <1>1, AttemptProcsAssumption DEF TypeOK, End, Moves, Keeps

\* What a process remembers, field by field.
LEMMA Remembering ==
  ASSUME TypeOK, NEW p \in Procs, p # Planner
  PROVE  /\ \A todo \in SUBSET {"snapshot", "health"} :
              mem' = [mem EXCEPT ![p].todo = todo] =>
                Keeps(p) /\ mem'[p].todo = todo /\ Mine(p)' = Mine(p)
         /\ \A retry \in BOOLEAN :
              mem' = [mem EXCEPT ![p].retry = retry] =>
                Keeps(p) /\ Mine(p)' = Mine(p)
         /\ \A health \in Healths :
              mem' = [mem EXCEPT ![p].health = health] =>
                Keeps(p) /\ mem'[p].health = health /\ Mine(p)' = Mine(p)
<1>1. mem[p] \in Memories
  BY DEF TypeOK
<1>2. ASSUME NEW m \in Memories, mem' = [mem EXCEPT ![p] = m]
      PROVE  Keeps(p) /\ mem'[p] = m
  BY <1>2 DEF TypeOK, Keeps
<1>3. ASSUME NEW todo \in SUBSET {"snapshot", "health"},
             mem' = [mem EXCEPT ![p].todo = todo]
      PROVE  Keeps(p) /\ mem'[p].todo = todo /\ Mine(p)' = Mine(p)
  <2> DEFINE m == [mem[p] EXCEPT !.todo = todo]
  <2>1. m \in Memories /\ m.todo = todo /\ m.attempt = mem[p].attempt
    BY <1>1 DEF Memories
  <2> QED
    BY <1>2, <1>3, <2>1 DEF Mine
<1>4. ASSUME NEW retry \in BOOLEAN, mem' = [mem EXCEPT ![p].retry = retry]
      PROVE  Keeps(p) /\ Mine(p)' = Mine(p)
  <2> DEFINE m == [mem[p] EXCEPT !.retry = retry]
  <2>1. m \in Memories /\ m.attempt = mem[p].attempt
    BY <1>1 DEF Memories
  <2> QED
    BY <1>2, <1>4, <2>1 DEF Mine
<1>5. ASSUME NEW health \in Healths, mem' = [mem EXCEPT ![p].health = health]
      PROVE  Keeps(p) /\ mem'[p].health = health /\ Mine(p)' = Mine(p)
  <2> DEFINE m == [mem[p] EXCEPT !.health = health]
  <2>1. m \in Memories /\ m.health = health /\ m.attempt = mem[p].attempt
    BY <1>1 DEF Memories
  <2> QED
    BY <1>2, <1>5, <2>1 DEF Mine
<1> QED
  BY <1>3, <1>4, <1>5

\* What the build adds to the directory of the attempt.
LEMMA Building ==
  ASSUME TypeOK, last \in 1..last, NEW result \in Results, NEW gate \in BOOLEAN,
         dirs' = [dirs EXCEPT ![last] = [@ EXCEPT !.built = TRUE, !.result = result,
                                                  !.gate = gate]]
  PROVE  /\ DirsTyped /\ Others /\ dirs'[last].built
         /\ dirs'[last].status = dirs[last].status
<1> DEFINE d == [dirs[last] EXCEPT !.built = TRUE, !.result = result, !.gate = gate]
<1>1. d \in Dirs /\ d.built /\ d.status = dirs[last].status
  BY DEF TypeOK, Dirs
<1>2. dirs' = [dirs EXCEPT ![last] = d]
  OBVIOUS
<1> HIDE DEF d
<1> QED
  BY <1>1, <1>2 DEF TypeOK, DirsTyped, Others

\* A new status leaves the rest of a directory as it is.
LEMMA Directory ==
  ASSUME NEW d \in Dirs, NEW status \in Statuses
  PROVE  LET e == [d EXCEPT !.status = status]
         IN  /\ e \in Dirs /\ e.status = status
             /\ e.profile = d.profile /\ e.built = d.built /\ e.verdict = d.verdict
             /\ e.result = d.result /\ e.gate = d.gate
BY DEF Dirs

\* What a process says of its attempt is its status, and nothing else.
LEMMA Marking ==
  ASSUME TypeOK, last \in 1..last, NEW status \in Statuses,
         dirs' = [dirs EXCEPT ![last].status = status]
  PROVE  Marked(status)
<1> DEFINE d == [dirs[last] EXCEPT !.status = status]
<1>1. dirs[last] \in Dirs
  BY DEF TypeOK
<1>2. /\ d \in Dirs /\ d.status = status
      /\ d.profile = dirs[last].profile /\ d.built = dirs[last].built
      /\ d.verdict = dirs[last].verdict /\ d.result = dirs[last].result
      /\ d.gate = dirs[last].gate
  BY <1>1, Directory
<1>3. dirs' = [dirs EXCEPT ![last] = d]
  OBVIOUS
<1> HIDE DEF d
<1> QED
  BY <1>2, <1>3 DEF TypeOK, Marked, DirsTyped, Others, Content

\* No attempt becomes complete by cancelling those cut off.
LEMMA Orphans ==
  ASSUME TypeOK, NEW p \in Procs, dirs' \in {dirs, OrphansCancelled(p)}
  PROVE  /\ DirsTyped
         /\ \A a \in 1..last :
              /\ Content(dirs'[a]) = Content(dirs[a])
              /\ dirs'[a].status = "COMPLETED" => dirs[a].status = "COMPLETED"
<1> DEFINE cancelled(a) == [dirs[a] EXCEPT !.status = "CANCELLED"]
<1>1. \A a \in 1..last :
        /\ cancelled(a) \in Dirs /\ cancelled(a).status # "COMPLETED"
        /\ Content(cancelled(a)) = Content(dirs[a])
  BY Directory DEF TypeOK, Content, Statuses
<1>2. CASE dirs' = OrphansCancelled(p)
  <2> HIDE DEF cancelled
  <2>1. DOMAIN dirs = 1..last /\ \A a \in 1..last : dirs[a] \in Dirs
    BY DEF TypeOK
  <2>2. dirs' = [a \in 1..last |-> IF a # Mine(p) /\ dirs[a].status = "RUNNING"
                                   THEN cancelled(a) ELSE dirs[a]]
    BY <1>2, <2>1 DEF OrphansCancelled, cancelled
  <2> QED
    BY <1>1, <2>1, <2>2 DEF DirsTyped
<1>3. CASE dirs' = dirs
  BY <1>3 DEF TypeOK, DirsTyped
<1> QED
  BY <1>2, <1>3

\* A file of the attempt is published; after the last one the attempt goes on.
LEMMA Publishing ==
  ASSUME TypeOK, NEW p \in Procs, p # Planner, Mine(p) = last, last \in Attempts, Publish(p)
  PROVE  /\ Keeps(p) /\ Mine(p)' = last
         /\ \/ Moves(p, "publish")
            \/ Moves(p, "profile") /\ phase = "before" /\ mem'[p].todo = {}
            \/ Moves(p, "result") /\ phase # "before" /\ mem'[p].todo = {}
         /\ pub' \in Published /\ pub'.profile = pub.profile
         /\ \/ /\ pub'.snapshot = last /\ pub'.health = pub.health
               /\ mem'[p].todo = mem[p].todo \ {"snapshot"}
            \/ /\ pub'.snapshot = pub.snapshot
               /\ pub'.health # None /\ pub'.health.attempt = last
               /\ mem'[p].todo = mem[p].todo \ {"health"}
<1>1. mem[p].todo \subseteq {"snapshot", "health"} /\ mem[p].attempt = last
  BY DEF TypeOK, Memories, Mine
<1>2. PICK file \in mem[p].todo :
        /\ pub' = IF file = "snapshot"
                  THEN [pub EXCEPT !.snapshot = last]
                  ELSE [pub EXCEPT !.health = [attempt |-> last, decision |-> None]]
        /\ mem' = [mem EXCEPT ![p].todo = mem[p].todo \ {file}]
        /\ Goto(p, IF mem[p].todo # {file} THEN "publish"
                   ELSE IF phase = "before" THEN "profile" ELSE "result")
  BY DEF Publish
<1>3. mem[p].todo \ {file} \in SUBSET {"snapshot", "health"}
  BY <1>1
<1>4. Keeps(p) /\ mem'[p].todo = mem[p].todo \ {file} /\ Mine(p)' = last
  BY <1>2, <1>3, Remembering
<1>5. IF mem[p].todo # {file} THEN Moves(p, "publish")
      ELSE IF phase = "before" THEN Moves(p, "profile") ELSE Moves(p, "result")
  BY <1>2, Going DEF Steps
<1>6. [attempt |-> last, decision |-> None] \in Healths
  BY DEF Healths, Decisions
<1>7. CASE file = "snapshot"
  <2>1. pub' \in Published /\ pub'.snapshot = last /\ pub'.health = pub.health
        /\ pub'.profile = pub.profile
    BY <1>2, <1>7 DEF TypeOK, Published
  <2> QED
    BY <1>2, <1>4, <1>5, <1>7, <2>1
<1>8. CASE file = "health"
  <2>1. /\ pub' \in Published /\ pub'.snapshot = pub.snapshot
        /\ pub'.health = [attempt |-> last, decision |-> None]
        /\ pub'.profile = pub.profile
    BY <1>2, <1>6, <1>8 DEF TypeOK, Published
  <2> QED
    BY <1>2, <1>4, <1>5, <1>6, <1>8, <2>1, AttemptNoneAssumption
<1> QED
  BY <1>1, <1>2, <1>7, <1>8

\* The decision is added to the health result that was read.
LEMMA Answering ==
  ASSUME TypeOK, NEW p \in Procs, mem[p].health # None, Answer(p)
  PROVE  /\ pub' \in Published /\ pub'.snapshot = pub.snapshot
         /\ pub'.profile = pub.profile
         /\ pub'.health # None /\ pub'.health.attempt = mem[p].health.attempt
<1>1. mem[p].health \in Healths
  BY DEF TypeOK, Memories
<1>2. PICK decision \in {"continue", "stop"} :
        pub' = [pub EXCEPT !.health = [mem[p].health EXCEPT !.decision = decision]]
  BY DEF Answer
<1> DEFINE health == [mem[p].health EXCEPT !.decision = decision]
<1>3. health \in Healths /\ health.attempt = mem[p].health.attempt
  BY <1>1 DEF Healths, Decisions
<1> HIDE DEF health
<1>4. pub' = [pub EXCEPT !.health = health]
  BY <1>2 DEF health
<1> QED
  BY <1>3, <1>4, AttemptNoneAssumption DEF TypeOK, Published

\* A verification changes the verdict only.
LEMMA Verifying ==
  ASSUME TypeOK, last \in 1..last, NEW verdict \in {"VERIFIED", "WARN", "NOT_VERIFIED"},
         dirs' = [dirs EXCEPT ![last].verdict = verdict]
  PROVE  /\ DirsTyped /\ Others /\ dirs'[last].built = dirs[last].built
         /\ dirs'[last].status = dirs[last].status
<1> DEFINE d == [dirs[last] EXCEPT !.verdict = verdict]
<1>1. d \in Dirs /\ d.built = dirs[last].built /\ d.status = dirs[last].status
  BY DEF TypeOK, Dirs
<1>2. dirs' = [dirs EXCEPT ![last] = d]
  OBVIOUS
<1> HIDE DEF d
<1> QED
  BY <1>1, <1>2 DEF TypeOK, DirsTyped, Others

\* Collection keeps the invariant.
LEMMA CollectKeeps ==
  ASSUME IInv, OneAtATime, NEW p \in Procs,
         Collect(p) \/ CollectRefused(p) \/ Collected(p) \/ CollectFails(p)
  PROVE  IInv'
<1> USE DEF IInv, At, Moves, Sole
<1>1. CASE Collect(p)
  <2> USE <1>1 DEF Collect
  <2>1. Sole(p)
    BY Busy
  <2>2. Moves(p, "collecting") /\ Keeps(p)
    BY <2>1, Going DEF Steps
  <2>3. /\ meta' \in Metadata /\ meta'.collect = "running"
        /\ meta'.build = meta.build /\ meta'.attempt = meta.attempt
        /\ meta'.workflow = meta.workflow
    BY <2>1 DEF TypeOK, Metadata, PHASE_STATES
  <2>4. /\ DirsTyped
        /\ \A a \in 1..last :
             /\ Content(dirs'[a]) = Content(dirs[a])
             /\ dirs'[a].status = "COMPLETED" => dirs[a].status = "COMPLETED"
    BY <2>1, Orphans
  <2>5. TypeOK'
    BY <2>1, <2>2, <2>3, <2>4 DEF TypeOK, Keeps, DirsTyped
  <2>6. RefInv' /\ PublishedInv'
    BY <2>1, <2>2, <2>3, <2>4 DEF RefInv, AttemptInv, PublishedInv, Is, HealthOf,
       DirsTyped, Content
  <2>7. AttemptInv'
    BY <2>1, <2>2, <2>3, <2>4 DEF AttemptInv, Steps, Mine, HealthOf, Keeps, DirsTyped,
       Content
  <2>8. PlannerInv' /\ WorkflowInv' /\ PlanCoherent' /\ ConcludedOnEvidence'
    BY <2>1, <2>2, <2>3, <2>4 DEF PlannerInv, WorkflowInv, PlanCoherent,
       ConcludedOnEvidence
  <2>9. PhaseInv'
    BY <2>1, <2>2, <2>3, <2>4 DEF PhaseInv, Blocking
  <2>10. FilesInv'
    BY <2>1, <2>2, <2>3, <2>4 DEF FilesInv, RefInv, AttemptInv, Blocking, DirsTyped,
       Content
  <2> QED
    BY <2>5, <2>6, <2>7, <2>8, <2>9, <2>10
<1>2. CASE CollectRefused(p)
  <2> USE <1>2 DEF CollectRefused
  <2>1. Sole(p)
    BY Busy
  <2>2. Moves(p, "idle") /\ Keeps(p)
    BY <2>1, Ending DEF EndsAs
  <2>3. Marked("FAILED")
    BY <2>1, Marking DEF EndsAs, Statuses
  <2>4. TypeOK'
    BY <2>1, <2>2, <2>3 DEF TypeOK, Keeps, Marked, DirsTyped
  <2>5. RefInv' /\ PublishedInv'
    BY <2>1, <2>2, <2>3 DEF RefInv, AttemptInv, PublishedInv, Is, HealthOf, Marked,
       DirsTyped, Others, Content
  <2>6. AttemptInv'
    BY <2>1, <2>2, <2>3 DEF AttemptInv, Steps, Mine, HealthOf, Keeps, Marked, DirsTyped,
       Others, Content
  <2>7. PlannerInv' /\ WorkflowInv' /\ PlanCoherent' /\ ConcludedOnEvidence'
    BY <2>1, <2>2, <2>3 DEF PlannerInv, WorkflowInv, PlanCoherent, ConcludedOnEvidence
  <2>8. PhaseInv'
    BY <2>1, <2>2, <2>3 DEF PhaseInv, Blocking
  <2>9. FilesInv'
    BY <2>1, <2>2, <2>3 DEF FilesInv, RefInv, AttemptInv, Blocking, Marked, DirsTyped,
       Others, Content
  <2> QED
    BY <2>4, <2>5, <2>6, <2>7, <2>8, <2>9
<1>3. CASE Collected(p)
  <2> USE <1>3 DEF Collected
  <2>1. Sole(p)
    BY Busy
  <2>2. Moves(p, "open") /\ Keeps(p)
    BY <2>1, Going DEF Steps
  <2>3. /\ meta' \in Metadata /\ meta'.collect = "completed"
        /\ meta'.build = meta.build /\ meta'.attempt = meta.attempt
        /\ meta'.workflow = meta.workflow
    BY <2>1 DEF TypeOK, Metadata, PHASE_STATES
  <2>4. TypeOK'
    BY <2>1, <2>2, <2>3 DEF TypeOK, Keeps
  <2>5. RefInv' /\ PublishedInv'
    BY <2>1, <2>2, <2>3 DEF RefInv, AttemptInv, PublishedInv, Is, HealthOf
  <2>6. AttemptInv'
    BY <2>1, <2>2, <2>3 DEF AttemptInv, Steps, Mine, HealthOf, Keeps
  <2>7. PlannerInv' /\ WorkflowInv' /\ PlanCoherent' /\ ConcludedOnEvidence'
    BY <2>1, <2>2, <2>3 DEF PlannerInv, WorkflowInv, PlanCoherent, ConcludedOnEvidence
  <2>8. PhaseInv'
    BY <2>1, <2>2, <2>3 DEF PhaseInv, Blocking
  <2>9. FilesInv'
    BY <2>1, <2>2, <2>3 DEF FilesInv, RefInv, AttemptInv, Blocking
  <2> QED
    BY <2>4, <2>5, <2>6, <2>7, <2>8, <2>9
<1>4. CASE CollectFails(p)
  <2> USE <1>4 DEF CollectFails
  <2>1. Sole(p)
    BY Busy
  <2>2. Moves(p, "idle") /\ Keeps(p)
    BY <2>1, Ending DEF EndsAs
  <2>3. /\ meta' \in Metadata /\ meta'.collect \in {"failed", "cancelled"}
        /\ meta'.build = meta.build /\ meta'.attempt = meta.attempt
        /\ meta'.workflow = meta.workflow
    BY <2>1 DEF TypeOK, Metadata, PHASE_STATES
  <2>4. Marked("FAILED") \/ Marked("CANCELLED")
    BY <2>1, Marking DEF EndsAs, Statuses
  <2>5. TypeOK'
    BY <2>1, <2>2, <2>3, <2>4 DEF TypeOK, Keeps, Marked, DirsTyped
  <2>6. RefInv' /\ PublishedInv'
    BY <2>1, <2>2, <2>3, <2>4 DEF RefInv, AttemptInv, PublishedInv, Is, HealthOf,
       Marked, DirsTyped, Others, Content
  <2>7. AttemptInv'
    BY <2>1, <2>2, <2>3, <2>4 DEF AttemptInv, Steps, Mine, HealthOf, Keeps, Marked,
       DirsTyped, Others, Content
  <2>8. PlannerInv' /\ WorkflowInv' /\ PlanCoherent' /\ ConcludedOnEvidence'
    BY <2>1, <2>2, <2>3, <2>4 DEF PlannerInv, WorkflowInv, PlanCoherent,
       ConcludedOnEvidence
  <2>9. PhaseInv'
    BY <2>1, <2>2, <2>3, <2>4 DEF PhaseInv, Blocking
  <2>10. FilesInv'
    BY <2>1, <2>2, <2>3, <2>4 DEF FilesInv, RefInv, AttemptInv, Blocking, Marked,
       DirsTyped, Others, Content
  <2> QED
    BY <2>5, <2>6, <2>7, <2>8, <2>9, <2>10
<1> QED
  BY <1>1, <1>2, <1>3, <1>4

\* The Snapshot and its evaluation keep the invariant.
LEMMA BuildKeeps ==
  ASSUME IInv, OneAtATime, NEW p \in Procs,
         Open(p) \/ Build(p) \/ BuildRefused(p) \/ Built(p) \/ BuildFails(p)
  PROVE  IInv'
<1> USE DEF IInv, At, Moves, Sole
<1>1. CASE Open(p)
  <2> USE <1>1 DEF Open
  <2>1. Sole(p)
    BY Busy
  <2>2. Moves(p, "build")
    BY <2>1, Going DEF Steps
  <2>3. Keeps(p) /\ Mine(p)' = last
    BY <2>1, Remembering
  <2>4. TypeOK'
    BY <2>1, <2>2, <2>3 DEF TypeOK, Keeps
  <2>5. RefInv' /\ PublishedInv'
    BY <2>1, <2>2, <2>3 DEF RefInv, AttemptInv, PublishedInv, Is, HealthOf
  <2>6. AttemptInv'
    BY <2>1, <2>2, <2>3 DEF AttemptInv, Steps, Mine, HealthOf, Keeps
  <2>7. PlannerInv' /\ WorkflowInv' /\ PlanCoherent' /\ ConcludedOnEvidence'
    BY <2>1, <2>2, <2>3 DEF PlannerInv, WorkflowInv, PlanCoherent, ConcludedOnEvidence
  <2>8. PhaseInv'
    BY <2>1, <2>2, <2>3 DEF PhaseInv, Blocking
  <2>9. FilesInv'
    BY <2>1, <2>2, <2>3 DEF FilesInv, RefInv, AttemptInv, Blocking
  <2> QED
    BY <2>4, <2>5, <2>6, <2>7, <2>8, <2>9
<1>2. CASE Build(p)
  <2> USE <1>2 DEF Build
  <2>1. Sole(p)
    BY Busy
  <2>2. Moves(p, "building") /\ Keeps(p)
    BY <2>1, Going DEF Steps
  <2>3. /\ meta' \in Metadata /\ meta'.collect = meta.collect
        /\ meta'.build = "running" /\ meta'.attempt = last
        /\ meta'.workflow = meta.workflow
    BY <2>1 DEF TypeOK, Metadata, PHASE_STATES
  <2>4. TypeOK'
    BY <2>1, <2>2, <2>3 DEF TypeOK, Keeps
  <2>5. RefInv' /\ PublishedInv'
    BY <2>1, <2>2, <2>3 DEF RefInv, AttemptInv, PublishedInv, Is, HealthOf
  <2>6. AttemptInv'
    BY <2>1, <2>2, <2>3 DEF AttemptInv, Steps, Mine, HealthOf, Keeps
  <2>7. PlannerInv' /\ WorkflowInv' /\ PlanCoherent' /\ ConcludedOnEvidence'
    BY <2>1, <2>2, <2>3 DEF PlannerInv, WorkflowInv, PlanCoherent, ConcludedOnEvidence
  <2>8. PhaseInv'
    BY <2>1, <2>2, <2>3 DEF PhaseInv, Blocking
  <2>9. FilesInv'
    BY <2>1, <2>2, <2>3 DEF FilesInv, RefInv, AttemptInv, Blocking
  <2> QED
    BY <2>4, <2>5, <2>6, <2>7, <2>8, <2>9
<1>3. CASE BuildRefused(p)
  <2> USE <1>3 DEF BuildRefused
  <2>1. Sole(p)
    BY Busy
  <2>2. Moves(p, "idle") /\ Keeps(p)
    BY <2>1, Ending DEF EndsAs
  <2>3. Marked("FAILED")
    BY <2>1, Marking DEF EndsAs, Statuses
  <2>4. TypeOK'
    BY <2>1, <2>2, <2>3 DEF TypeOK, Keeps, Marked, DirsTyped
  <2>5. RefInv' /\ PublishedInv'
    BY <2>1, <2>2, <2>3 DEF RefInv, AttemptInv, PublishedInv, Is, HealthOf, Marked,
       DirsTyped, Others, Content
  <2>6. AttemptInv'
    BY <2>1, <2>2, <2>3 DEF AttemptInv, Steps, Mine, HealthOf, Keeps, Marked, DirsTyped,
       Others, Content
  <2>7. PlannerInv' /\ WorkflowInv' /\ PlanCoherent' /\ ConcludedOnEvidence'
    BY <2>1, <2>2, <2>3 DEF PlannerInv, WorkflowInv, PlanCoherent, ConcludedOnEvidence
  <2>8. PhaseInv'
    BY <2>1, <2>2, <2>3 DEF PhaseInv, Blocking
  <2>9. FilesInv'
    BY <2>1, <2>2, <2>3 DEF FilesInv, RefInv, AttemptInv, Blocking, Marked, DirsTyped,
       Others, Content
  <2> QED
    BY <2>4, <2>5, <2>6, <2>7, <2>8, <2>9
<1>4. CASE Built(p)
  <2>1. Sole(p)
    BY <1>4, Busy DEF Built
  <2>2. /\ At(p, "building")
        /\ UNCHANGED <<phase, last, pub, current, concluded, accepted, plan, stuck>>
        /\ lock' = None
    BY <1>4, <2>1 DEF Built
  <2>3. \/ phase = "before" /\ Moves(p, "publish")
        \/ phase = "rollback" /\ Moves(p, "verify")
    BY <1>4, <2>1, Going DEF Steps, TypeOK, Built
  <2>4. /\ Keeps(p) /\ Mine(p)' = last
        /\ mem'[p].todo = {"snapshot", "health"}
    BY <1>4, <2>1, Remembering DEF Built
  <2>5. /\ meta' \in Metadata /\ meta'.collect = meta.collect
        /\ meta'.build = "completed" /\ meta'.attempt = meta.attempt
        /\ meta'.workflow = meta.workflow
    BY <1>4, <2>1 DEF TypeOK, Metadata, PHASE_STATES, Built
  <2>6. /\ DirsTyped /\ Others /\ dirs'[last].built
        /\ dirs'[last].status = dirs[last].status
    BY <1>4, <2>1, Building DEF Results, Built
  <2>7. TypeOK'
    BY <2>1, <2>2, <2>3, <2>4, <2>5, <2>6 DEF TypeOK, Keeps, DirsTyped
  <2>8. RefInv'
    BY <2>1, <2>2, <2>3, <2>4, <2>5, <2>6 DEF RefInv, DirsTyped, Others
  <2>9. PublishedInv'
    BY <2>1, <2>2, <2>3, <2>4, <2>5, <2>6 DEF AttemptInv, PublishedInv, DirsTyped,
       Others, Is, HealthOf
  <2>10. AttemptInv'
    BY <2>1, <2>2, <2>3, <2>4, <2>5, <2>6 DEF AttemptInv, Steps, Mine, HealthOf, Keeps,
       DirsTyped, Others
  <2>11. PlannerInv' /\ WorkflowInv' /\ PlanCoherent' /\ ConcludedOnEvidence'
    BY <2>1, <2>2, <2>3, <2>4, <2>5, <2>6 DEF PlannerInv, WorkflowInv, PlanCoherent,
       ConcludedOnEvidence
  <2>12. PhaseInv'
    BY <2>1, <2>2, <2>3, <2>4, <2>5, <2>6 DEF PhaseInv, Blocking
  <2>13. FilesInv'
    BY <2>1, <2>2, <2>3, <2>4, <2>5, <2>6 DEF FilesInv, RefInv, AttemptInv, Blocking,
       DirsTyped, Others
  <2> QED
    BY <2>7, <2>8, <2>9, <2>10, <2>11, <2>12, <2>13
<1>5. CASE BuildFails(p)
  <2> USE <1>5 DEF BuildFails
  <2>1. Sole(p)
    BY Busy
  <2>2. Moves(p, "idle") /\ Keeps(p)
    BY <2>1, Ending DEF EndsAs
  <2>3. /\ meta' \in Metadata /\ meta'.collect = meta.collect
        /\ meta'.build = "failed" /\ meta'.attempt = meta.attempt
        /\ meta'.workflow = meta.workflow
    BY <2>1 DEF TypeOK, Metadata, PHASE_STATES
  <2>4. Marked("FAILED")
    BY <2>1, Marking DEF EndsAs, Statuses
  <2>5. TypeOK'
    BY <2>1, <2>2, <2>3, <2>4 DEF TypeOK, Keeps, Marked, DirsTyped
  <2>6. RefInv' /\ PublishedInv'
    BY <2>1, <2>2, <2>3, <2>4 DEF RefInv, AttemptInv, PublishedInv, Is, HealthOf,
       Marked, DirsTyped, Others, Content
  <2>7. AttemptInv'
    BY <2>1, <2>2, <2>3, <2>4 DEF AttemptInv, Steps, Mine, HealthOf, Keeps, Marked,
       DirsTyped, Others, Content
  <2>8. PlannerInv' /\ WorkflowInv' /\ PlanCoherent' /\ ConcludedOnEvidence'
    BY <2>1, <2>2, <2>3, <2>4 DEF PlannerInv, WorkflowInv, PlanCoherent,
       ConcludedOnEvidence
  <2>9. PhaseInv'
    BY <2>1, <2>2, <2>3, <2>4 DEF PhaseInv, Blocking
  <2>10. FilesInv'
    BY <2>1, <2>2, <2>3, <2>4 DEF FilesInv, RefInv, AttemptInv, Blocking, Marked,
       DirsTyped, Others, Content
  <2> QED
    BY <2>5, <2>6, <2>7, <2>8, <2>9, <2>10
<1> QED
  BY <1>1, <1>2, <1>3, <1>4, <1>5

\* Verification and publication keep the invariant.
LEMMA PublishKeeps ==
  ASSUME IInv, OneAtATime, NEW p \in Procs,
         Verify(p) \/ Publish(p) \/ PublishProfile(p) \/ PublishResult(p) \/
           PublishCurrent(p) \/ Gate(p) \/ Answer(p)
  PROVE  IInv'
<1> USE DEF IInv, At, Moves, Sole
<1>1. CASE Verify(p)
  <2>1. Sole(p)
    BY <1>1, Busy DEF Verify
  <2>2. /\ At(p, "verify") /\ Moves(p, "publish") /\ Keeps(p) /\ Mine(p)' = last
        /\ mem'[p].todo = mem[p].todo
        /\ UNCHANGED <<phase, lock, meta, last, pub, current, concluded,
                       accepted, plan, stuck>>
    BY <1>1, <2>1, Going DEF Steps, Mine, Verify
  <2>3. /\ DirsTyped /\ Others /\ dirs'[last].built = dirs[last].built
        /\ dirs'[last].status = dirs[last].status
    BY <1>1, <2>1, Verifying DEF Verify
  <2>4. TypeOK'
    BY <2>1, <2>2, <2>3 DEF TypeOK, Keeps, DirsTyped
  <2>5. RefInv' /\ PublishedInv'
    BY <2>1, <2>2, <2>3 DEF RefInv, AttemptInv, PublishedInv, Is, HealthOf, DirsTyped,
       Others
  <2>6. AttemptInv'
    BY <2>1, <2>2, <2>3 DEF AttemptInv, Steps, Mine, HealthOf, Keeps, DirsTyped, Others
  <2>7. PlannerInv' /\ WorkflowInv' /\ PlanCoherent' /\ ConcludedOnEvidence'
    BY <2>1, <2>2, <2>3 DEF PlannerInv, WorkflowInv, PlanCoherent, ConcludedOnEvidence
  <2>8. PhaseInv'
    BY <2>1, <2>2, <2>3 DEF PhaseInv, Blocking
  <2>9. FilesInv'
    BY <2>1, <2>2, <2>3 DEF FilesInv, RefInv, AttemptInv, Blocking, DirsTyped, Others
  <2> QED
    BY <2>4, <2>5, <2>6, <2>7, <2>8, <2>9
<1>2. CASE Publish(p)
  <2>1. Sole(p)
    BY <1>2, Busy DEF Publish
  <2>2. /\ At(p, "publish")
        /\ UNCHANGED <<phase, lock, meta, dirs, last, current, concluded,
                       accepted, plan, stuck>>
    BY <1>2, <2>1 DEF Publish
  <2>3. /\ Keeps(p) /\ Mine(p)' = last
        /\ \/ Moves(p, "publish")
           \/ Moves(p, "profile") /\ phase = "before" /\ mem'[p].todo = {}
           \/ Moves(p, "result") /\ phase # "before" /\ mem'[p].todo = {}
        /\ pub' \in Published /\ pub'.profile = pub.profile
        /\ \/ /\ pub'.snapshot = last /\ pub'.health = pub.health
              /\ mem'[p].todo = mem[p].todo \ {"snapshot"}
           \/ /\ pub'.snapshot = pub.snapshot
              /\ pub'.health # None /\ pub'.health.attempt = last
              /\ mem'[p].todo = mem[p].todo \ {"health"}
    BY <1>2, <2>1, Publishing DEF Publish
  <2>4. TypeOK'
    BY <2>1, <2>2, <2>3 DEF TypeOK, Keeps
  <2>5. RefInv' /\ PublishedInv'
    BY <2>1, <2>2, <2>3 DEF RefInv, AttemptInv, PublishedInv, Is, HealthOf
  <2>6. AttemptInv'
    BY <2>1, <2>2, <2>3 DEF AttemptInv, Steps, Mine, HealthOf, Keeps
  <2>7. PlannerInv' /\ WorkflowInv' /\ PlanCoherent' /\ ConcludedOnEvidence'
    BY <2>1, <2>2, <2>3 DEF PlannerInv, WorkflowInv, PlanCoherent, ConcludedOnEvidence
  <2>8. PhaseInv'
    BY <2>1, <2>2, <2>3 DEF PhaseInv, Blocking
  <2>9. FilesInv'
    BY <2>1, <2>2, <2>3 DEF FilesInv, RefInv, AttemptInv, Blocking
  <2> QED
    BY <2>4, <2>5, <2>6, <2>7, <2>8, <2>9
<1>3. CASE PublishProfile(p)
  <2> USE <1>3 DEF PublishProfile
  <2>1. Sole(p)
    BY Busy
  <2>2. Moves(p, "result") /\ Keeps(p)
    BY <2>1, Going DEF Steps
  <2>3. /\ pub' \in Published /\ pub'.profile = dirs[last].profile
        /\ pub'.profile # None
        /\ pub'.snapshot = pub.snapshot /\ pub'.health = pub.health
    BY <2>1, AttemptProfilesAssumption DEF TypeOK, Published, Dirs
  <2>4. TypeOK'
    BY <2>1, <2>2, <2>3 DEF TypeOK, Keeps
  <2>5. RefInv' /\ PublishedInv'
    BY <2>1, <2>2, <2>3 DEF RefInv, AttemptInv, PublishedInv, Is, HealthOf
  <2>6. AttemptInv'
    BY <2>1, <2>2, <2>3 DEF AttemptInv, Steps, Mine, HealthOf, Keeps
  <2>7. PlannerInv' /\ WorkflowInv' /\ PlanCoherent' /\ ConcludedOnEvidence'
    BY <2>1, <2>2, <2>3 DEF PlannerInv, WorkflowInv, PlanCoherent, ConcludedOnEvidence
  <2>8. PhaseInv'
    BY <2>1, <2>2, <2>3 DEF PhaseInv, Blocking
  <2>9. FilesInv'
    BY <2>1, <2>2, <2>3 DEF FilesInv, RefInv, AttemptInv, Blocking
  <2> QED
    BY <2>4, <2>5, <2>6, <2>7, <2>8, <2>9
<1>4. CASE PublishResult(p)
  <2> USE <1>4 DEF PublishResult
  <2>1. Sole(p)
    BY Busy
  <2>2. Moves(p, "current") /\ Keeps(p)
    BY <2>1, Going DEF Steps
  <2>3. Marked("COMPLETED")
    BY <2>1, Marking DEF Statuses
  <2>4. TypeOK'
    BY <2>1, <2>2, <2>3 DEF TypeOK, Keeps, Marked, DirsTyped
  <2>5. RefInv' /\ PublishedInv'
    BY <2>1, <2>2, <2>3 DEF RefInv, AttemptInv, PublishedInv, Is, HealthOf, Marked,
       DirsTyped, Others, Content
  <2>6. AttemptInv'
    BY <2>1, <2>2, <2>3 DEF AttemptInv, Steps, Mine, HealthOf, Keeps, Marked, DirsTyped,
       Others, Content
  <2>7. PlannerInv' /\ WorkflowInv' /\ PlanCoherent' /\ ConcludedOnEvidence'
    BY <2>1, <2>2, <2>3 DEF PlannerInv, WorkflowInv, PlanCoherent, ConcludedOnEvidence
  <2>8. PhaseInv'
    BY <2>1, <2>2, <2>3 DEF PhaseInv, Blocking
  <2>9. FilesInv'
    BY <2>1, <2>2, <2>3 DEF FilesInv, RefInv, AttemptInv, Blocking, Marked, DirsTyped,
       Others, Content
  <2> QED
    BY <2>4, <2>5, <2>6, <2>7, <2>8, <2>9
<1>5. CASE PublishCurrent(p)
  <2> USE <1>5 DEF PublishCurrent
  <2>1. Sole(p)
    BY Busy
  <2>2. \/ phase = "before" /\ Moves(p, "gate") /\ Keeps(p)
        \/ phase = "rollback" /\ Moves(p, "conclusion") /\ Keeps(p)
    BY <2>1, Going DEF Steps, TypeOK
  <2>3. TypeOK'
    BY <2>1, <2>2 DEF TypeOK, Keeps
  <2>4. RefInv' /\ PublishedInv'
    BY <2>1, <2>2 DEF RefInv, AttemptInv, PublishedInv, Is, HealthOf
  <2>5. AttemptInv'
    BY <2>1, <2>2 DEF AttemptInv, Steps, Mine, HealthOf, Keeps
  <2>6. PlannerInv' /\ WorkflowInv' /\ PlanCoherent' /\ ConcludedOnEvidence'
    BY <2>1, <2>2 DEF PlannerInv, WorkflowInv, PlanCoherent, ConcludedOnEvidence
  <2>7. PhaseInv'
    BY <2>1, <2>2 DEF PhaseInv, Blocking
  <2>8. FilesInv'
    BY <2>1, <2>2 DEF FilesInv, RefInv, AttemptInv, Blocking
  <2> QED
    BY <2>3, <2>4, <2>5, <2>6, <2>7, <2>8
<1>6. CASE Gate(p)
  <2>1. Sole(p)
    BY <1>6, Busy DEF Gate
  <2>2. /\ At(p, "gate")
        /\ UNCHANGED <<phase, lock, meta, dirs, last, pub, current, concluded,
                       accepted, plan, stuck>>
    BY <1>6, <2>1 DEF Gate
  <2>3. pub.health # None /\ pub.health \in Healths /\ pub.health.attempt = last
    BY <1>6, <2>1 DEF TypeOK, AttemptInv, Published, HealthOf, Gate
  <2>4. \/ Moves(p, "idle") /\ Keeps(p)
        \/ /\ Moves(p, "answer") /\ Keeps(p)
           /\ mem'[p].health = pub.health /\ Mine(p)' = last
    BY <1>6, <2>1, <2>3, Going, Ending, Remembering DEF Steps, Gate
  <2>5. TypeOK'
    BY <2>1, <2>2, <2>3, <2>4 DEF TypeOK, Keeps
  <2>6. RefInv' /\ PublishedInv'
    BY <2>1, <2>2, <2>3, <2>4 DEF RefInv, AttemptInv, PublishedInv, Is, HealthOf
  <2>7. AttemptInv'
    BY <2>1, <2>2, <2>3, <2>4 DEF AttemptInv, Steps, Mine, HealthOf, Keeps
  <2>8. PlannerInv' /\ WorkflowInv' /\ PlanCoherent' /\ ConcludedOnEvidence'
    BY <2>1, <2>2, <2>3, <2>4 DEF PlannerInv, WorkflowInv, PlanCoherent,
       ConcludedOnEvidence
  <2>9. PhaseInv'
    BY <2>1, <2>2, <2>3, <2>4 DEF PhaseInv, Blocking
  <2>10. FilesInv'
    BY <2>1, <2>2, <2>3, <2>4 DEF FilesInv, RefInv, AttemptInv, Blocking
  <2> QED
    BY <2>5, <2>6, <2>7, <2>8, <2>9, <2>10
<1>7. CASE Answer(p)
  <2>1. Sole(p)
    BY <1>7, Busy DEF Answer
  <2>2. /\ At(p, "answer") /\ Moves(p, "idle") /\ Keeps(p)
        /\ UNCHANGED <<phase, lock, meta, dirs, last, current, concluded,
                       accepted, plan, stuck>>
    BY <1>7, <2>1, Ending DEF Answer
  <2>3. mem[p].health # None /\ mem[p].health.attempt = last
    BY <1>7, <2>1 DEF AttemptInv, Answer
  <2>4. /\ pub' \in Published /\ pub'.snapshot = pub.snapshot
        /\ pub'.profile = pub.profile
        /\ pub'.health # None /\ pub'.health.attempt = last
    BY <1>7, <2>1, <2>3, Answering DEF Answer
  <2>5. TypeOK'
    BY <2>1, <2>2, <2>3, <2>4 DEF TypeOK, Keeps
  <2>6. RefInv' /\ PublishedInv'
    BY <2>1, <2>2, <2>3, <2>4 DEF RefInv, AttemptInv, PublishedInv, Is, HealthOf
  <2>7. AttemptInv'
    BY <2>1, <2>2, <2>3, <2>4 DEF AttemptInv, Steps, Mine, HealthOf, Keeps
  <2>8. PlannerInv' /\ WorkflowInv' /\ PlanCoherent' /\ ConcludedOnEvidence'
    BY <2>1, <2>2, <2>3, <2>4 DEF PlannerInv, WorkflowInv, PlanCoherent,
       ConcludedOnEvidence
  <2>9. PhaseInv'
    BY <2>1, <2>2, <2>3, <2>4 DEF PhaseInv, Blocking
  <2>10. FilesInv'
    BY <2>1, <2>2, <2>3, <2>4 DEF FilesInv, RefInv, AttemptInv, Blocking
  <2> QED
    BY <2>5, <2>6, <2>7, <2>8, <2>9, <2>10
<1> QED
  BY <1>1, <1>2, <1>3, <1>4, <1>5, <1>6, <1>7

\* The conclusion of a rollback keeps the invariant.
LEMMA ConcludeKeeps ==
  ASSUME IInv, OneAtATime, NEW p \in Procs,
         PublishConclusion(p) \/ Conclude(p) \/ PublishFails(p)
  PROVE  IInv'
<1> USE DEF IInv, At, Moves, Sole
<1>1. CASE PublishConclusion(p)
  <2> USE <1>1 DEF PublishConclusion
  <2>1. Sole(p)
    BY Busy
  <2>2. Moves(p, "conclude") /\ Keeps(p)
    BY <2>1, Going DEF Steps
  <2>3. TypeOK'
    BY <2>1, <2>2 DEF TypeOK, Keeps
  <2>4. RefInv' /\ PublishedInv'
    BY <2>1, <2>2 DEF RefInv, AttemptInv, PublishedInv, Is, HealthOf
  <2>5. AttemptInv'
    BY <2>1, <2>2 DEF AttemptInv, Steps, Mine, HealthOf, Keeps
  <2>6. PlannerInv' /\ WorkflowInv' /\ PlanCoherent' /\ ConcludedOnEvidence'
    BY <2>1, <2>2 DEF PlannerInv, WorkflowInv, PlanCoherent, ConcludedOnEvidence
  <2>7. PhaseInv'
    BY <2>1, <2>2 DEF PhaseInv, Blocking
  <2>8. FilesInv'
    BY <2>1, <2>2 DEF FilesInv, RefInv, AttemptInv, Blocking
  <2> QED
    BY <2>3, <2>4, <2>5, <2>6, <2>7, <2>8
<1>2. CASE Conclude(p)
  <2> USE <1>2 DEF Conclude
  <2>1. Sole(p)
    BY Busy
  <2>2. Moves(p, "idle") /\ Keeps(p)
    BY <2>1, Ending
  <2>3. /\ meta' \in Metadata /\ meta'.collect = meta.collect
        /\ meta'.build = meta.build /\ meta'.attempt = meta.attempt
        /\ meta'.workflow = Outcome(last)
    BY <2>1 DEF TypeOK, Metadata, Outcome, WORKFLOW_STATES
  <2>4. TypeOK'
    BY <2>1, <2>2, <2>3 DEF TypeOK, Keeps, AttemptInv, Outcome
  <2>5. RefInv' /\ PublishedInv'
    BY <2>1, <2>2, <2>3 DEF RefInv, AttemptInv, PublishedInv, Is, HealthOf, Outcome
  <2>6. AttemptInv'
    BY <2>1, <2>2, <2>3 DEF AttemptInv, Steps, Mine, HealthOf, Keeps, Outcome
  <2>7. PlannerInv' /\ WorkflowInv' /\ PlanCoherent' /\ ConcludedOnEvidence'
    BY <2>1, <2>2, <2>3 DEF PlannerInv, WorkflowInv, PlanCoherent, ConcludedOnEvidence,
       AttemptInv, Outcome
  <2>8. PhaseInv'
    BY <2>1, <2>2, <2>3 DEF PhaseInv, Blocking, AttemptInv, Outcome
  <2>9. FilesInv'
    BY <2>1, <2>2, <2>3 DEF FilesInv, RefInv, AttemptInv, Blocking, Outcome
  <2> QED
    BY <2>4, <2>5, <2>6, <2>7, <2>8, <2>9
<1>3. CASE PublishFails(p)
  <2> USE <1>3 DEF PublishFails
  <2>1. Sole(p)
    BY Busy
  <2>2. Moves(p, "idle") /\ Keeps(p)
    BY <2>1, Ending DEF EndsAs
  <2>3. dirs' = dirs \/ Marked("FAILED")
    BY <2>1, Marking DEF EndsAs, Statuses
  <2>4. TypeOK'
    BY <2>1, <2>2, <2>3 DEF TypeOK, Keeps, Marked, DirsTyped
  <2>5. RefInv' /\ PublishedInv'
    BY <2>1, <2>2, <2>3 DEF RefInv, AttemptInv, PublishedInv, Is, HealthOf, Marked,
       DirsTyped, Others, Content
  <2>6. AttemptInv'
    BY <2>1, <2>2, <2>3 DEF AttemptInv, Steps, Mine, HealthOf, Keeps, Marked, DirsTyped,
       Others, Content
  <2>7. PlannerInv' /\ WorkflowInv' /\ PlanCoherent' /\ ConcludedOnEvidence'
    BY <2>1, <2>2, <2>3 DEF PlannerInv, WorkflowInv, PlanCoherent, ConcludedOnEvidence
  <2>8. PhaseInv'
    BY <2>1, <2>2, <2>3 DEF PhaseInv, Blocking
  <2>9. FilesInv'
    BY <2>1, <2>2, <2>3 DEF FilesInv, RefInv, AttemptInv, Blocking, Marked, DirsTyped,
       Others, Content
  <2> QED
    BY <2>4, <2>5, <2>6, <2>7, <2>8, <2>9
<1> QED
  BY <1>1, <1>2, <1>3

\* Being killed or interrupted keeps the invariant.
LEMMA CutKeeps ==
  ASSUME IInv, OneAtATime, NEW p \in Procs,
         Kill(p) \/ Interrupt(p)
  PROVE  IInv'
<1> USE DEF IInv, At, Moves, Sole
<1>1. CASE Kill(p)
  <2> USE <1>1 DEF Kill
  <2>1. Sole(p)
    BY Busy, AttemptCutsAssumption DEF Steps
  <2>2. Moves(p, "idle") /\ Keeps(p)
    BY <2>1, Ending
  <2>3. TypeOK'
    BY <2>1, <2>2 DEF TypeOK, Keeps
  <2>4. RefInv' /\ PublishedInv'
    BY <2>1, <2>2 DEF RefInv, AttemptInv, PublishedInv, Is, HealthOf
  <2>5. AttemptInv'
    BY <2>1, <2>2 DEF AttemptInv, Steps, Mine, HealthOf, Keeps
  <2>6. PlannerInv' /\ WorkflowInv' /\ PlanCoherent' /\ ConcludedOnEvidence'
    BY <2>1, <2>2 DEF PlannerInv, WorkflowInv, PlanCoherent, ConcludedOnEvidence
  <2>7. PhaseInv'
    BY <2>1, <2>2 DEF PhaseInv, Blocking
  <2>8. FilesInv'
    BY <2>1, <2>2 DEF FilesInv, RefInv, AttemptInv, Blocking
  <2> QED
    BY <2>3, <2>4, <2>5, <2>6, <2>7, <2>8
<1>2. CASE Interrupt(p)
  <2> USE <1>2 DEF Interrupt
  <2>1. Sole(p)
    BY Busy, AttemptCutsAssumption DEF Steps
  <2>2. Moves(p, "idle") /\ Keeps(p)
    BY <2>1, Ending DEF EndsAs
  <2>3. dirs' = dirs \/ Marked("FAILED") \/ Marked("CANCELLED")
    BY <2>1, Marking DEF EndsAs, Statuses
  <2>4. TypeOK'
    BY <2>1, <2>2, <2>3 DEF TypeOK, Keeps, Marked, DirsTyped
  <2>5. RefInv' /\ PublishedInv'
    BY <2>1, <2>2, <2>3 DEF RefInv, AttemptInv, PublishedInv, Is, HealthOf, Marked,
       DirsTyped, Others, Content
  <2>6. AttemptInv'
    BY <2>1, <2>2, <2>3 DEF AttemptInv, Steps, Mine, HealthOf, Keeps, Marked, DirsTyped,
       Others, Content
  <2>7. PlannerInv' /\ WorkflowInv' /\ PlanCoherent' /\ ConcludedOnEvidence'
    BY <2>1, <2>2, <2>3 DEF PlannerInv, WorkflowInv, PlanCoherent, ConcludedOnEvidence
  <2>8. PhaseInv'
    BY <2>1, <2>2, <2>3 DEF PhaseInv, Blocking
  <2>9. FilesInv'
    BY <2>1, <2>2, <2>3 DEF FilesInv, RefInv, AttemptInv, Blocking, Marked, DirsTyped,
       Others, Content
  <2> QED
    BY <2>4, <2>5, <2>6, <2>7, <2>8, <2>9
<1> QED
  BY <1>1, <1>2

\* The planner keeps the invariant.
LEMMA PlanKeeps ==
  ASSUME IInv, OneAtATime, Plan(Planner)
  PROVE  IInv'
<1> USE DEF IInv, At
<1> DEFINE q == Planner
<1>1. q \notin Procs
  BY AttemptProcsAssumption
<1>2. mem[q] \in Memories
  BY DEF TypeOK
<1>3. ASSUME NEW there \in {"idle"} \cup PlanSteps \cup AcceptSteps,
             pc' = [pc EXCEPT ![q] = there]
      PROVE  /\ pc' \in [Procs \cup {Planner} ->
                           {"idle"} \cup Steps \cup PlanSteps \cup AcceptSteps]
             /\ pc'[q] = there /\ \A p \in Procs : pc'[p] = pc[p]
  BY <1>1, <1>3 DEF TypeOK
<1>4. ASSUME NEW m \in Memories, mem' = [mem EXCEPT ![q] = m]
      PROVE  /\ mem' \in [Procs \cup {Planner} -> Memories]
             /\ mem'[q] = m /\ \A p \in Procs : mem'[p] = mem[p]
  BY <1>1, <1>4 DEF TypeOK
<1>5. Idle \in Memories
  BY DEF Idle, Memories
<1>6. CASE PlanRead(q)
  <2> DEFINE m == [mem[q] EXCEPT !.attempt = meta.attempt]
  <2>1. m \in Memories /\ m.attempt = meta.attempt
    BY <1>2 DEF TypeOK, Memories, Metadata
  <2>2. mem' = [mem EXCEPT ![q] = m] /\ pc' = [pc EXCEPT ![q] = "check"]
    BY <1>6 DEF PlanRead, Goto
  <2>3. /\ phase = "before" /\ \A p \in Procs : At(p, "idle")
        /\ UNCHANGED <<phase, lock, meta, dirs, last, pub, current, concluded,
                       accepted, plan, stuck>>
    BY <1>6 DEF PlanRead, Alone, OneAtATime
  <2> HIDE DEF m
  <2>4. /\ mem' \in [Procs \cup {Planner} -> Memories] /\ mem'[q] = m
        /\ pc' \in [Procs \cup {Planner} ->
                      {"idle"} \cup Steps \cup PlanSteps \cup AcceptSteps]
        /\ pc'[q] = "check" /\ \A p \in Procs : pc'[p] = "idle"
    BY <1>3, <1>4, <2>1, <2>2, <2>3 DEF PlanSteps
  <2>5. TypeOK' /\ RefInv' /\ AttemptInv' /\ PublishedInv'
    BY <2>3, <2>4 DEF TypeOK, RefInv, AttemptInv, PublishedInv, Is, HealthOf
  <2>6. PlannerInv' /\ WorkflowInv' /\ PhaseInv' /\ FilesInv'
    BY <2>1, <2>3, <2>4 DEF PlannerInv, WorkflowInv, PhaseInv, FilesInv, PlanSteps,
       AcceptSteps, Mine
  <2>7. PlanCoherent' /\ ConcludedOnEvidence'
    BY <2>3 DEF PlanCoherent, ConcludedOnEvidence, Eligible
  <2> QED
    BY <2>5, <2>6, <2>7
<1>7. CASE PlanCheck(q)
  <2>1. /\ phase = "before" /\ \A p \in Procs : At(p, "idle")
        /\ UNCHANGED <<phase, lock, meta, dirs, last, pub, current, concluded,
                       accepted, plan, stuck>>
    BY <1>7 DEF PlanCheck, PlannerInv, PlanSteps
  <2>2. CASE pub.health # None /\ Resolved(Mine(q)) /\ Eligible(pub.health)
    <3> DEFINE m == [mem[q] EXCEPT !.attempt = pub.snapshot, !.health = pub.health]
    <3>1. m \in Memories /\ m.attempt = pub.snapshot /\ m.health = pub.health
      BY <1>2 DEF TypeOK, Memories, Published
    <3>2. mem' = [mem EXCEPT ![q] = m] /\ pc' = [pc EXCEPT ![q] = "ready"]
      BY <1>7, <2>2 DEF PlanCheck, Goto
    <3> HIDE DEF m
    <3>3. /\ mem' \in [Procs \cup {Planner} -> Memories] /\ mem'[q] = m
          /\ pc' \in [Procs \cup {Planner} ->
                        {"idle"} \cup Steps \cup PlanSteps \cup AcceptSteps]
          /\ pc'[q] = "ready" /\ \A p \in Procs : pc'[p] = "idle"
      BY <1>3, <1>4, <2>1, <3>1, <3>2 DEF PlanSteps
    <3>4. pub.snapshot # None
      BY <2>2 DEF Resolved, RefInv
    <3>5. current # None =>
            /\ pub.snapshot = current /\ pub.health.attempt = current
            /\ dirs[current].status = "COMPLETED" /\ dirs[current].profile = pub.profile
      BY <1>7, <2>1, <2>2 DEF Resolved, PlanCheck, PlannerInv, PublishedInv, Is, HealthOf
    <3>6. TypeOK' /\ RefInv' /\ AttemptInv' /\ PublishedInv'
      BY <2>1, <3>3 DEF TypeOK, RefInv, AttemptInv, PublishedInv, Is, HealthOf
    <3>7. PlannerInv'
      BY <2>1, <2>2, <3>1, <3>3, <3>4, <3>5 DEF PlannerInv, PlanSteps, AcceptSteps, Mine,
         Eligible
    <3>8. WorkflowInv' /\ PhaseInv' /\ FilesInv'
      BY <2>1, <3>3 DEF WorkflowInv, PhaseInv, FilesInv
    <3>9. PlanCoherent' /\ ConcludedOnEvidence'
      BY <2>1 DEF PlanCoherent, ConcludedOnEvidence, Eligible
    <3> QED
      BY <3>6, <3>7, <3>8, <3>9
  <2>3. CASE ~(pub.health # None /\ Resolved(Mine(q)) /\ Eligible(pub.health))
    <3>1. mem' = [mem EXCEPT ![q] = Idle] /\ pc' = [pc EXCEPT ![q] = "idle"]
      BY <1>7, <2>3 DEF PlanCheck, End
    <3>2. /\ mem' \in [Procs \cup {Planner} -> Memories]
          /\ pc' \in [Procs \cup {Planner} ->
                        {"idle"} \cup Steps \cup PlanSteps \cup AcceptSteps]
          /\ pc'[q] = "idle" /\ \A p \in Procs : pc'[p] = "idle"
      BY <1>3, <1>4, <1>5, <2>1, <3>1
    <3>3. TypeOK' /\ RefInv' /\ AttemptInv' /\ PublishedInv'
      BY <2>1, <3>2 DEF TypeOK, RefInv, AttemptInv, PublishedInv, Is, HealthOf
    <3>4. PlannerInv' /\ WorkflowInv' /\ PhaseInv' /\ FilesInv'
      BY <2>1, <3>2 DEF PlannerInv, WorkflowInv, PhaseInv, FilesInv
    <3>5. PlanCoherent' /\ ConcludedOnEvidence'
      BY <2>1 DEF PlanCoherent, ConcludedOnEvidence, Eligible
    <3> QED
      BY <3>3, <3>4, <3>5
  <2> QED
    BY <2>2, <2>3
<1>8. CASE PlanReady(q)
  <2>1. /\ phase = "before" /\ \A p \in Procs : At(p, "idle")
        /\ UNCHANGED <<phase, lock, dirs, last, pub, current, concluded, accepted, stuck>>
        /\ mem' = [mem EXCEPT ![q] = Idle] /\ pc' = [pc EXCEPT ![q] = "idle"]
    BY <1>8 DEF PlanReady, PlannerInv, End, PlanSteps
  <2>2. /\ mem' \in [Procs \cup {Planner} -> Memories]
        /\ pc' \in [Procs \cup {Planner} ->
                      {"idle"} \cup Steps \cup PlanSteps \cup AcceptSteps]
        /\ pc'[q] = "idle" /\ \A p \in Procs : pc'[p] = "idle"
    BY <1>3, <1>4, <1>5, <2>1
  <2>3. CASE lock = None /\ meta.workflow = "none"
    <3>1. /\ meta' \in Metadata /\ meta'.collect = meta.collect
          /\ meta'.build = meta.build /\ meta'.attempt = meta.attempt
          /\ meta'.workflow = "plan_ready"
      BY <1>8, <2>3 DEF PlanReady, TypeOK, Metadata, WORKFLOW_STATES
    <3>2. plan' = [pointer |-> current, snapshot |-> Mine(q), health |-> mem[q].health]
      BY <1>8, <2>3 DEF PlanReady
    <3>3. /\ mem[q].attempt \in Attempts /\ mem[q].health \in Healths
          /\ current # None =>
               /\ mem[q].attempt = current /\ mem[q].health.attempt = current
               /\ dirs[current].status = "COMPLETED"
               /\ dirs[current].profile = pub.profile
               /\ Eligible(mem[q].health)
      BY <1>2, <1>8 DEF PlanReady, PlannerInv, Memories, Mine
    <3>4. plan' \in Plans
      BY <3>2, <3>3 DEF Plans, TypeOK, Mine
    <3>5. TypeOK'
      BY <2>1, <2>2, <3>1, <3>4 DEF TypeOK
    <3>6. RefInv' /\ AttemptInv' /\ PublishedInv'
      BY <2>1, <2>2, <3>1 DEF RefInv, AttemptInv, PublishedInv, Is, HealthOf
    <3>7. PlannerInv' /\ WorkflowInv' /\ PhaseInv' /\ FilesInv'
      BY <2>1, <2>2, <3>1 DEF PlannerInv, WorkflowInv, PhaseInv, FilesInv
    <3>8. PlanCoherent'
      BY <2>1, <3>2, <3>3 DEF PlanCoherent, Eligible, RefInv, Mine
    <3>9. ConcludedOnEvidence'
      BY <3>1 DEF ConcludedOnEvidence
    <3> QED
      BY <3>5, <3>6, <3>7, <3>8, <3>9
  <2>4. CASE ~(lock = None /\ meta.workflow = "none")
    <3>1. UNCHANGED <<meta, plan>>
      BY <1>8, <2>4 DEF PlanReady
    <3>2. TypeOK' /\ RefInv' /\ AttemptInv' /\ PublishedInv'
      BY <2>1, <2>2, <3>1 DEF TypeOK, RefInv, AttemptInv, PublishedInv, Is, HealthOf
    <3>3. PlannerInv' /\ WorkflowInv' /\ PhaseInv' /\ FilesInv'
      BY <2>1, <2>2, <3>1 DEF PlannerInv, WorkflowInv, PhaseInv, FilesInv
    <3>4. PlanCoherent' /\ ConcludedOnEvidence'
      BY <2>1, <3>1 DEF PlanCoherent, ConcludedOnEvidence, Eligible
    <3> QED
      BY <3>2, <3>3, <3>4
  <2> QED
    BY <2>3, <2>4
<1> QED
  BY <1>6, <1>7, <1>8 DEF Plan

\* The acceptance of a WARN keeps the invariant.
LEMMA AcceptKeeps ==
  ASSUME IInv, OneAtATime, Accept(Planner)
  PROVE  IInv'
<1> USE DEF IInv, At
<1> DEFINE q == Planner
<1>1. q \notin Procs /\ mem[q] \in Memories
  BY AttemptProcsAssumption DEF TypeOK
<1>2. ASSUME NEW there \in {"idle"} \cup AcceptSteps, pc' = [pc EXCEPT ![q] = there]
      PROVE  /\ pc' \in [Procs \cup {Planner} ->
                           {"idle"} \cup Steps \cup PlanSteps \cup AcceptSteps]
             /\ pc'[q] = there /\ \A p \in Procs : pc'[p] = pc[p]
  BY <1>1, <1>2 DEF TypeOK
<1>3. ASSUME NEW m \in Memories, mem' = [mem EXCEPT ![q] = m]
      PROVE  /\ mem' \in [Procs \cup {Planner} -> Memories]
             /\ mem'[q] = m /\ \A p \in Procs : mem'[p] = mem[p]
  BY <1>1, <1>3 DEF TypeOK
<1>4. ASSUME End(q)
      PROVE  /\ mem' \in [Procs \cup {Planner} -> Memories]
             /\ pc' \in [Procs \cup {Planner} ->
                           {"idle"} \cup Steps \cup PlanSteps \cup AcceptSteps]
             /\ pc'[q] = "idle" /\ \A p \in Procs : pc'[p] = pc[p] /\ mem'[p] = mem[p]
  <2>1. Idle \in Memories
    BY DEF Idle, Memories
  <2> QED
    BY <1>2, <1>3, <1>4, <2>1 DEF End
<1>5. Accept(q) => \A p \in Procs : pc[p] = "idle"
  BY DEF Accept, AcceptRead, AcceptWrite, AcceptConclude, AcceptCut, Alone, OneAtATime,
     PlannerInv, AcceptSteps
<1>6. UNCHANGED <<phase, dirs, last, pub, current, concluded, plan, stuck>>
  BY DEF Accept, AcceptRead, AcceptWrite, AcceptConclude, AcceptCut
<1>7. CASE AcceptRead(q)
  <2> DEFINE m == [mem[q] EXCEPT !.attempt = concluded]
  <2>1. m \in Memories /\ m.attempt = concluded
    BY <1>1 DEF TypeOK, Memories
  <2>2. /\ mem' = [mem EXCEPT ![q] = m] /\ pc' = [pc EXCEPT ![q] = "confirm"]
        /\ phase = "rollback" /\ WarnAcceptable /\ lock' = q
        /\ UNCHANGED <<meta, accepted>>
    BY <1>7 DEF AcceptRead, Goto
  <2> HIDE DEF m
  <2>3. /\ mem' \in [Procs \cup {Planner} -> Memories] /\ mem'[q] = m
        /\ pc' \in [Procs \cup {Planner} ->
                      {"idle"} \cup Steps \cup PlanSteps \cup AcceptSteps]
        /\ pc'[q] = "confirm" /\ \A p \in Procs : pc'[p] = "idle"
    BY <1>2, <1>3, <1>5, <2>1, <2>2 DEF AcceptSteps
  <2>4. TypeOK' /\ RefInv' /\ AttemptInv' /\ PublishedInv'
    BY <1>6, <2>2, <2>3 DEF TypeOK, RefInv, AttemptInv, PublishedInv, Is, HealthOf
  <2>5. PlannerInv'
    BY <1>6, <2>1, <2>2, <2>3 DEF PlannerInv, PlanSteps, AcceptSteps, Mine, WarnAcceptable
  <2>6. WorkflowInv' /\ PhaseInv' /\ FilesInv'
    BY <1>5, <1>6, <2>2, <2>3 DEF WorkflowInv, PhaseInv, FilesInv
  <2>7. PlanCoherent' /\ ConcludedOnEvidence'
    BY <1>6, <2>2 DEF PlanCoherent, ConcludedOnEvidence, Eligible
  <2> QED
    BY <2>4, <2>5, <2>6, <2>7
<1>8. CASE AcceptWrite(q)
  <2>1. /\ accepted' = Mine(q) /\ pc' = [pc EXCEPT ![q] = "accept"]
        /\ UNCHANGED <<lock, meta, mem>> /\ pc[q] = "confirm"
    BY <1>8 DEF AcceptWrite, Goto
  <2>2. /\ pc' \in [Procs \cup {Planner} ->
                      {"idle"} \cup Steps \cup PlanSteps \cup AcceptSteps]
        /\ pc'[q] = "accept" /\ \A p \in Procs : pc'[p] = "idle"
    BY <1>2, <1>5, <2>1 DEF AcceptSteps
  <2>3. /\ current # None /\ concluded = current /\ Mine(q) = current
        /\ dirs[current].verdict = "WARN" /\ phase = "rollback"
    BY <2>1 DEF PlannerInv, PlanSteps, AcceptSteps
  <2>4. TypeOK' /\ RefInv' /\ AttemptInv' /\ PublishedInv'
    BY <1>6, <2>1, <2>2, <2>3 DEF TypeOK, RefInv, AttemptInv, PublishedInv, Is, HealthOf
  <2>5. PlannerInv'
    BY <1>6, <2>1, <2>2, <2>3 DEF PlannerInv, PlanSteps, AcceptSteps, Mine
  <2>6. WorkflowInv' /\ PhaseInv' /\ FilesInv'
    BY <1>5, <1>6, <2>1, <2>2 DEF WorkflowInv, PhaseInv, FilesInv
  <2>7. PlanCoherent' /\ ConcludedOnEvidence'
    BY <1>6, <2>1, <2>3 DEF PlanCoherent, ConcludedOnEvidence, Eligible
  <2> QED
    BY <2>4, <2>5, <2>6, <2>7
<1>9. CASE AcceptConclude(q)
  <2>1. /\ End(q) /\ lock' = None /\ accepted' = accepted /\ pc[q] = "accept"
        /\ meta' = [meta EXCEPT !.workflow = "rolled_back_and_verified"]
    BY <1>9 DEF AcceptConclude
  <2>2. /\ meta' \in Metadata /\ meta'.collect = meta.collect
        /\ meta'.build = meta.build /\ meta'.attempt = meta.attempt
        /\ meta'.workflow = "rolled_back_and_verified"
    BY <2>1 DEF TypeOK, Metadata, WORKFLOW_STATES
  <2>3. /\ current # None /\ concluded = current /\ accepted = current
        /\ dirs[current].verdict = "WARN" /\ phase = "rollback"
    BY <2>1 DEF PlannerInv, PlanSteps, AcceptSteps
  <2>4. TypeOK' /\ RefInv' /\ AttemptInv' /\ PublishedInv'
    BY <1>4, <1>5, <1>6, <2>1, <2>2
       DEF TypeOK, RefInv, AttemptInv, PublishedInv, Is, HealthOf
  <2>5. PlannerInv' /\ PhaseInv' /\ FilesInv'
    BY <1>4, <1>5, <1>6, <2>1, <2>2 DEF PlannerInv, PhaseInv, FilesInv
  <2>6. WorkflowInv'
    BY <1>4, <1>5, <1>6, <2>1, <2>2, <2>3 DEF WorkflowInv
  <2>7. PlanCoherent'
    BY <1>6 DEF PlanCoherent, Eligible
  <2>8. ConcludedOnEvidence'
    BY <1>6, <2>1, <2>3 DEF ConcludedOnEvidence, RefInv
  <2> QED
    BY <2>4, <2>5, <2>6, <2>7, <2>8
<1>10. CASE AcceptCut(q)
  <2>1. End(q) /\ lock' \in {None, Gone} /\ UNCHANGED <<meta, accepted>>
    BY <1>10 DEF AcceptCut
  <2>2. TypeOK' /\ RefInv' /\ AttemptInv' /\ PublishedInv'
    BY <1>4, <1>5, <1>6, <2>1 DEF TypeOK, RefInv, AttemptInv, PublishedInv, Is, HealthOf
  <2>3. PlannerInv' /\ WorkflowInv' /\ PhaseInv' /\ FilesInv'
    BY <1>4, <1>5, <1>6, <2>1 DEF PlannerInv, WorkflowInv, PhaseInv, FilesInv
  <2>4. PlanCoherent' /\ ConcludedOnEvidence'
    BY <1>6, <2>1 DEF PlanCoherent, ConcludedOnEvidence, Eligible
  <2> QED
    BY <2>2, <2>3, <2>4
<1> QED
  BY <1>7, <1>8, <1>9, <1>10 DEF Accept

\* A new attempt keeps the invariant: files without a pointer get one first.
LEMMA StartKeeps ==
  ASSUME IInv, OneAtATime, NEW p \in Procs, Start(p)
  PROVE  IInv'
<1> USE DEF IInv, At
<1>1. /\ \A q \in Procs : q = p
      /\ p # Planner /\ pc[p] = "idle" /\ pc[Planner] = "idle"
  BY AttemptProcsAssumption DEF OneAtATime, Start, Alone
<1>2. /\ last + 1 \in Attempts /\ last + 1 # None /\ last \in 0..MaxAttempts
      /\ last + 1 \in 0..MaxAttempts /\ 1..(last + 1) = 1..last \cup {last + 1}
      /\ last + 1 \notin 1..last /\ last + 1 \in 1..(last + 1)
  BY AttemptBoundAssumption, AttemptNoneAssumption DEF Start, TypeOK, Attempts
<1>3. /\ UNCHANGED <<phase, lock, meta, pub, accepted, plan, stuck>>
      /\ last' = last + 1
      /\ Startable /\ Repoint
      /\ Unpointed => Recoverable
  BY DEF Start
<1>4. PICK profile \in AdmittedProfiles, direct \in BOOLEAN :
        /\ dirs' = [a \in DOMAIN dirs \cup {last + 1} |->
                      IF a \in DOMAIN dirs THEN dirs[a]
                      ELSE [status |-> "RUNNING", profile |-> profile,
                            built |-> FALSE, result |-> "FAIL",
                            gate |-> FALSE, verdict |-> None]]
        /\ Goto(p, IF direct THEN "collect" ELSE "open")
  BY DEF Start
<1> DEFINE d == [status |-> "RUNNING", profile |-> profile, built |-> FALSE,
                 result |-> "FAIL", gate |-> FALSE, verdict |-> None]
<1>5. d \in Dirs /\ d.status # "COMPLETED"
  <2>1. profile \in Profiles
    BY DEF AdmittedProfiles, FilesInv, TypeOK, Published
  <2> QED
    BY <2>1 DEF Dirs, Statuses, Results
<1>6. DOMAIN dirs = 1..last /\ \A a \in 1..last : dirs[a] \in Dirs
  BY DEF TypeOK
<1> HIDE DEF d
<1>7. dirs' = [a \in 1..(last + 1) |-> IF a \in 1..last THEN dirs[a] ELSE d]
  BY <1>2, <1>4, <1>6 DEF d
<1>8. /\ dirs' \in [1..(last + 1) -> Dirs]
      /\ dirs'[last + 1].status # "COMPLETED"
      /\ \A a \in 1..last : a \in 1..(last + 1) /\ dirs'[a] = dirs[a]
  BY <1>2, <1>5, <1>6, <1>7
<1>9. (Moves(p, "collect") \/ Moves(p, "open")) /\ pc'[p] \in {"collect", "open"}
  BY <1>4, Going DEF Steps, Moves
<1> DEFINE m == [attempt |-> last + 1, retry |-> Retries, todo |-> {}, health |-> None]
<1>10. m \in Memories /\ m.attempt = last + 1
  BY <1>2 DEF Memories, Retries
<1>11. mem' = [mem EXCEPT ![p] = m]
  BY DEF Start
<1> HIDE DEF m
<1>12. /\ mem' \in [Procs \cup {Planner} -> Memories]
       /\ mem'[p].attempt = last + 1 /\ mem'[Planner] = mem[Planner]
  BY <1>1, <1>10, <1>11 DEF TypeOK
<1>13. /\ pub.snapshot # None => current' # None
       /\ current' \in {current, meta.attempt}
       /\ current' # None => dirs[current'].built /\ current' \in 1..last
       /\ current # None => current' = current
  <2>1. current' = IF Unpointed THEN meta.attempt ELSE current
    BY <1>3 DEF Repoint
  <2>2. pub.snapshot # None /\ current = None => Unpointed
    BY DEF Unpointed, Retries, FilesInv
  <2>3. /\ Unpointed => current = None
        /\ Unpointed => meta.attempt # None /\ dirs[meta.attempt].built
    BY <1>3 DEF Unpointed, Recoverable
  <2>4. /\ meta.attempt # None => meta.attempt \in 1..last
        /\ current # None => current \in 1..last /\ dirs[current].built
    BY DEF RefInv
  <2> QED
    BY <2>1, <2>2, <2>3, <2>4
<1>14. concluded' \in Attempts \cup {None} /\ current' \in Attempts \cup {None}
  BY <1>13, <1>3 DEF Repoint, TypeOK, Metadata
<1>15. /\ plan = None
       /\ meta.workflow \notin {"plan_ready", "rolled_back_and_verified"}
       /\ phase = "before" => meta.workflow = "none"
  BY <1>3 DEF Startable, WorkflowInv
<1>16. TypeOK'
  BY <1>2, <1>3, <1>8, <1>9, <1>12, <1>14 DEF TypeOK, Moves
<1>17. RefInv'
  BY <1>3, <1>8, <1>13 DEF RefInv
<1>18. AttemptInv'
  BY <1>1, <1>2, <1>3, <1>8, <1>9, <1>12 DEF AttemptInv, Mine, Steps
<1>19. PublishedInv'
  BY <1>3, <1>8 DEF PublishedInv, RefInv, Is, HealthOf
<1>20. PlannerInv' /\ WorkflowInv' /\ PlanCoherent' /\ ConcludedOnEvidence'
  BY <1>1, <1>3, <1>9, <1>15
     DEF PlannerInv, WorkflowInv, PlanCoherent, ConcludedOnEvidence, Moves
<1>21. PhaseInv'
  BY <1>1, <1>3 DEF PhaseInv
<1>22. FilesInv'
  BY <1>1, <1>3, <1>13 DEF FilesInv
<1> QED
  BY <1>16, <1>17, <1>18, <1>19, <1>20, <1>21, <1>22

\* At first nothing is published and every process is idle.
LEMMA Beginning ==
  ASSUME Init PROVE IInv
<1> USE DEF Init
<1>1. Idle \in Memories
  BY DEF Idle, Memories
<1>2. meta \in Metadata
  BY DEF Metadata, PHASE_STATES, WORKFLOW_STATES
<1>3. pub \in Published /\ (phase = "rollback" => pub.profile # None)
  BY AttemptProfilesAssumption DEF Published
<1>4. dirs \in [1..0 -> Dirs] /\ 0 \in 0..MaxAttempts
  BY AttemptBoundAssumption
<1>5. TypeOK
  BY <1>1, <1>2, <1>3, <1>4 DEF TypeOK
<1>6. RefInv /\ AttemptInv /\ PublishedInv /\ PlannerInv
  BY DEF RefInv, AttemptInv, PublishedInv, PlannerInv, Is
<1>7. WorkflowInv /\ PhaseInv /\ FilesInv
  BY <1>3 DEF WorkflowInv, PhaseInv, FilesInv, At
<1>8. PlanCoherent /\ ConcludedOnEvidence
  BY DEF PlanCoherent, ConcludedOnEvidence
<1> QED
  BY <1>5, <1>6, <1>7, <1>8 DEF IInv

\* Every step, and a stuttering one, keeps the invariant.
LEMMA Stepping ==
  ASSUME IInv, OneAtATime, [Next]_vars
  PROVE  IInv'
<1>1. ASSUME NEW p \in Procs, Attempt(p) PROVE IInv'
  BY <1>1, StartKeeps, CollectKeeps, BuildKeeps, PublishKeeps, ConcludeKeeps, CutKeeps
     DEF Attempt
<1>2. CASE RemoveStaleLock \/ UNCHANGED vars
  <2>1. /\ UNCHANGED <<phase, meta, dirs, last, pub, current, concluded,
                       accepted, pc, mem, plan,
                       stuck>>
        /\ lock' \in {lock, None}
    BY <1>2 DEF RemoveStaleLock, vars
  <2>2. TypeOK' /\ RefInv' /\ AttemptInv' /\ PublishedInv'
    BY <2>1 DEF IInv, TypeOK, RefInv, AttemptInv, PublishedInv, Is, HealthOf, At, Mine
  <2>3. PlannerInv' /\ WorkflowInv' /\ PhaseInv' /\ FilesInv'
    BY <2>1 DEF IInv, PlannerInv, WorkflowInv, PhaseInv, FilesInv, At, Mine, Eligible
  <2>4. PlanCoherent' /\ ConcludedOnEvidence'
    BY <2>1 DEF IInv, PlanCoherent, ConcludedOnEvidence, Eligible
  <2> QED
    BY <2>2, <2>3, <2>4 DEF IInv
<1> QED
  BY <1>1, <1>2, PlanKeeps, AcceptKeeps DEF Next

\* What is published, what the metadata says and what each process is about to do agree.
THEOREM Invariance ==
  ASSUME OneAtATime
  PROVE  Spec => []IInv
<1>1. Init => IInv
  BY Beginning
<1>2. IInv /\ [Next]_vars => IInv'
  BY Stepping
<1> QED
  BY <1>1, <1>2, PTL DEF Spec

\* Every variable has its type.
THEOREM TypeCorrect ==
  ASSUME OneAtATime
  PROVE  Spec => []TypeOK
<1>1. IInv => TypeOK
  BY DEF IInv
<1> QED
  BY <1>1, Invariance, PTL

\* A plan that goes by the pointer is made from one attempt, which completed, its health
\* result and decision included.
THEOREM PlanOfOneAttempt ==
  ASSUME OneAtATime
  PROVE  Spec => []PlanCoherent
<1>1. IInv => PlanCoherent
  BY DEF IInv
<1> QED
  BY <1>1, Invariance, PTL

\* A rollback that the workflow calls verified has its evidence behind both pointers: a
\* verification that succeeded, or the WARN of that attempt that was accepted.
THEOREM VerifiedHasEvidence ==
  ASSUME OneAtATime
  PROVE  Spec => []ConcludedOnEvidence
<1>1. IInv => ConcludedOnEvidence
  BY DEF IInv
<1> QED
  BY <1>1, Invariance, PTL

\* Whatever was cut off, except at a blocking step, the next attempt can start, collect
\* and build.
THEOREM NextAttemptRuns ==
  ASSUME OneAtATime
  PROVE  Spec => []Retriable
<1>1. ASSUME IInv, \A p \in Procs : At(p, "idle"), ~stuck,
             meta.workflow \in {"none", "rolled_back", "rollback_health_failed"}
      PROVE  /\ Startable
             /\ Unpointed => Recoverable
             /\ MayRun(Reconciled(Retries), Retries)
             /\ MayRun(meta.build, TRUE)
  <2>1. /\ meta.build \in {"not_started", "completed", "failed", "cancelled"}
        /\ meta.collect \in {"not_started", "running", "completed", "failed", "cancelled"}
        /\ phase = "rollback" => meta.collect # "running"
    BY <1>1 DEF IInv, PhaseInv, At
  <2>2. Startable
    BY <1>1, <2>1 DEF IInv, TypeOK, Startable, InProgress, WorkflowInv
  <2>3. Unpointed => Recoverable
    BY <1>1 DEF IInv, Unpointed, Recoverable, FilesInv, At
  <2>4. MayRun(meta.build, TRUE)
    BY <2>1 DEF MayRun, PHASE_TRANSITIONS, RETRYABLE_PHASE_STATES
  <2>5. MayRun(Reconciled(Retries), Retries)
    BY <2>1 DEF MayRun, Reconciled, Retries, InProgress, PHASE_TRANSITIONS,
                RETRYABLE_PHASE_STATES
  <2> QED
    BY <2>2, <2>3, <2>4, <2>5
<1>2. IInv => Retriable
  BY <1>1 DEF Retriable
<1> QED
  BY <1>2, Invariance, PTL

\* current.json moves from an attempt to a later one only, and only to one whose
\* artifacts are all there.
THEOREM PointerForward ==
  ASSUME OneAtATime
  PROVE  Spec => PointerMovesOn
<1> DEFINE Moved == current' # current =>
                      /\ dirs'[current'].built
                      /\ current # None => current < current'
<1>1. ASSUME IInv, NEW p \in Procs, PublishCurrent(p) PROVE Moved
  <2>1. current' = last /\ dirs' = dirs /\ dirs[last].built /\ last \in 1..last
    BY <1>1, Busy DEF PublishCurrent, IInv, AttemptInv, At, Sole
  <2>2. current = None \/ current \in 1..last
    BY <1>1 DEF IInv, RefInv
  <2> QED
    BY <1>1, <2>1, <2>2 DEF IInv, TypeOK
<1>2. ASSUME IInv, NEW p \in Procs, Start(p) PROVE Moved
  <2>1. /\ current' = IF Unpointed THEN meta.attempt ELSE current
        /\ Unpointed => Recoverable
    BY <1>2 DEF Start, Repoint
  <2>2. /\ DOMAIN dirs = 1..last /\ \A a \in 1..last : dirs'[a] = dirs[a]
    BY <1>2 DEF Start, IInv, TypeOK
  <2>3. meta.attempt # None => meta.attempt \in 1..last
    BY <1>2 DEF IInv, RefInv
  <2> QED
    BY <2>1, <2>2, <2>3 DEF Unpointed, Recoverable
<1>3. ASSUME IInv, NEW p \in Procs, Attempt(p), ~Start(p), ~PublishCurrent(p)
      PROVE  current' = current
  BY <1>3 DEF Attempt, Collect, CollectRefused, Collected, CollectFails, Open, Build,
     BuildRefused, Built, BuildFails, Verify, Publish, PublishProfile, PublishResult,
     Gate, Answer, PublishConclusion, Conclude, PublishFails, Kill, Interrupt
<1>4. IInv /\ [Next]_vars => Moved
  BY <1>1, <1>2, <1>3 DEF Next, Plan, PlanRead, PlanCheck, PlanReady, Accept,
     AcceptRead, AcceptWrite, AcceptConclude, AcceptCut, RemoveStaleLock, vars
<1>5. IInv /\ [Next]_vars => [Moved]_vars
  BY <1>4
<1> QED
  BY <1>5, Invariance, PTL DEF Spec, PointerMovesOn

=============================================================================
