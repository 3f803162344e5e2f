---------------------------- MODULE HealthAttempts ----------------------------
(***************************************************************************)
(* The attempts of `health-check before` and `health-check rollback`       *)
(* (alred/cli.py).  An attempt collects and builds its Snapshot under the  *)
(* Operation's lock, each under a lock of its own, and is published        *)
(* without any: file by file to the paths every reader knows, then by the  *)
(* pointer current.json.  `overlay-change plan` reads what is published to *)
(* choose the Snapshot a change is planned from; a rollback attempt is     *)
(* verified, published, and then concludes the change, unless nothing but  *)
(* a WARN stands against it: `overlay-change accept-rollback-state-warn`   *)
(* may conclude it then.                                                   *)
(***************************************************************************)
EXTENDS OperationStates, Naturals, FiniteSets

CONSTANTS
  Procs,     \* the health-check processes that may run at the same time
  Planner,   \* the process that runs `overlay-change plan` and the acceptance
  None,      \* Python's None, and a file that is absent
  Gone,      \* the owner of a lock file whose process died
  Profiles,  \* hashes of effective profiles
  Cuts,      \* the steps at which a process may be killed or interrupted
  Overlap,   \* may a plan or an acceptance run while an attempt does?
  MaxAttempts  \* bound: attempts started

ASSUME AttemptProcsAssumption ==
  Planner \notin Procs /\ {None, Gone} \cap (Procs \cup {Planner}) = {}
ASSUME AttemptBoundAssumption == MaxAttempts \in Nat \ {0} /\ Overlap \in BOOLEAN
ASSUME AttemptProfilesAssumption == Profiles # {} /\ None \notin Profiles

Attempts == 1..MaxAttempts

\* The steps of an attempt, named for what comes next.  "collecting" and
\* "building" hold the lock.
Steps ==
  {"collect", "collecting", "open", "build", "building", "verify", "publish",
   "profile", "result", "current", "gate", "answer", "conclusion", "conclude"}
PlanSteps == {"check", "ready"}

\* The steps of an acceptance; both hold the lock.
AcceptSteps == {"confirm", "accept"}

ASSUME AttemptCutsAssumption == Cuts \subseteq Steps

VARIABLES
  phase,    \* the phase of this behaviour: "before" or "rollback"
  lock,     \* .operation.lock: None, Gone or the process that holds it
  meta,     \* the metadata: phases <phase>_collect and <phase>, workflow_state
  dirs,     \* health/<phase>/attempts/<id>: result.json and the artifacts
  last,     \* the attempts started so far
  pub,      \* the compatibility paths and the fixed profile
  current,  \* None, or the attempt current.json points to
  concluded,\* None, or the attempt verification-current.json points to
  accepted, \* None, or the attempt state-warn-acceptance.json is about
  pc,       \* the next step of each process
  mem,      \* what it keeps in memory
  plan,     \* None, or what the plan was made from: pointer, Snapshot, health
  stuck     \* history: an attempt was cut off at a Blocking step

vars == <<phase, lock, meta, dirs, last, pub, current, concluded, accepted, pc,
          mem, plan, stuck>>

\* PASS is not told apart from WARN.
Results == {"WARN", "FAIL"}
Statuses == {"RUNNING", "COMPLETED", "FAILED", "CANCELLED"}
Decisions == {None, "continue", "stop"}

\* profile: of resolved-profiles.yaml; built: snapshot.json and
\* health-result.json are there, with their result and whether the Operation
\* gate is required; verdict: of the rollback verification, "WARN" if nothing
\* but a state WARN that may be accepted keeps it from being verified.
Dirs == [status : Statuses, profile : Profiles, built : BOOLEAN,
         result : Results, gate : BOOLEAN,
         verdict : {None, "VERIFIED", "WARN", "NOT_VERIFIED"}]

Healths == [attempt : Attempts, decision : Decisions]

Metadata == [collect : PHASE_STATES, build : PHASE_STATES,
             attempt : Attempts \cup {None}, workflow : WORKFLOW_STATES]
Published == [snapshot : Attempts \cup {None}, health : Healths \cup {None},
              profile : Profiles \cup {None}]
Memories == [attempt : Attempts \cup {None}, retry : BOOLEAN,
             todo : SUBSET {"snapshot", "health"}, health : Healths \cup {None}]
Plans == [pointer : Attempts \cup {None}, snapshot : Attempts, health : Healths]

ASSUME AttemptNoneAssumption ==
  None \notin Attempts \cup Healths \cup Plans
             \cup {"VERIFIED", "WARN", "NOT_VERIFIED", "continue", "stop"}

Idle == [attempt |-> None, retry |-> FALSE, todo |-> {}, health |-> None]

Init ==
  /\ phase \in {"before", "rollback"}
  /\ lock = None
  /\ meta = [collect |-> "not_started", build |-> "not_started",
             attempt |-> None,
             workflow |-> IF phase = "before" THEN "none" ELSE "rolled_back"]
  /\ dirs = [a \in {} |-> a]
  /\ last = 0
  /\ pub = [snapshot |-> None, health |-> None,
            profile |-> IF phase = "before" THEN None
                        ELSE CHOOSE h \in Profiles : TRUE]
  /\ current = None /\ concluded = None /\ accepted = None
  /\ pc = [p \in Procs \cup {Planner} |-> "idle"]
  /\ mem = [p \in Procs \cup {Planner} |-> Idle]
  /\ plan = None /\ stuck = FALSE

-----------------------------------------------------------------------------
(* Shared steps                                                            *)

At(p, here) == pc[p] = here
Goto(p, there) == pc' = [pc EXCEPT ![p] = there]
Mine(p) == mem[p].attempt

\* The operator does not start a plan and an attempt at the same time.
Alone(p) == Overlap \/ At(p, "idle")

\* The process ends.
End(p) ==
  /\ pc' = [pc EXCEPT ![p] = "idle"]
  /\ mem' = [mem EXCEPT ![p] = Idle]

\* MUTANT of EndsAs: a status of its own.
EndsAsError(p, status) ==
  /\ dirs' = [dirs EXCEPT ![Mine(p)].status = "ERROR"]
  /\ End(p)

\* ... and says so in the attempt's result.json.
EndsAs(p, status) ==
  /\ dirs' = [dirs EXCEPT ![Mine(p)].status = status]
  /\ End(p)

\* transition_phase, with allow_retry for an attempt that retries.
MayRun(state, retry) ==
  \/ <<state, "running">> \in PHASE_TRANSITIONS
  \/ retry /\ state \in RETRYABLE_PHASE_STATES

InProgress(state) == state \in {"running", "waiting_for_user"}

\* The steps at which an attempt cut off may leave the phase where none starts.
Blocking ==
  IF phase = "before" THEN {"building", "publish", "profile"}
                      ELSE {"collecting", "building"}

-----------------------------------------------------------------------------
(* _start_before_attempt and _start_rollback_attempt: no lock is taken     *)

\* Another attempt may be started.
Startable ==
  IF phase = "before"
  THEN meta.workflow = "none" /\ ~InProgress(meta.build)
  ELSE /\ meta.workflow \in {"rolled_back", "rollback_health_failed"}
       /\ ~InProgress(meta.build) /\ ~InProgress(meta.collect)

Retries == meta.build # "not_started" \/ meta.collect # "not_started"

\* A retry finds published files without a pointer to their attempt.  An
\* attempt of the metadata without artifacts, or a missing profile, is an error.
Unpointed == Retries /\ current = None /\ pub.snapshot # None
Recoverable ==
  meta.attempt # None /\ dirs[meta.attempt].built /\ pub.profile # None

\* MUTANT of Repoint: the pointer is set to the metadata's attempt whether there
\* is one already or not.
RepointAlways ==
  /\ current' = IF Retries /\ pub.snapshot # None THEN meta.attempt ELSE current
  /\ UNCHANGED concluded

\* _archive_legacy_*_attempt: such files get a pointer.
Repoint ==
  /\ current' = IF Unpointed THEN meta.attempt ELSE current
  /\ concluded' =
       IF phase = "rollback" /\ Retries /\ pub.snapshot # None
            /\ dirs[current'].verdict # None
       THEN current' ELSE concluded

\* _prepare_before_profiles: any profile at first; then the fixed one, or with
\* --revision-reason another.
AdmittedProfiles ==
  IF phase = "before" THEN Profiles ELSE {pub.profile}

Start(p) ==
  /\ p \in Procs /\ At(p, "idle") /\ Alone(Planner)
  /\ last < MaxAttempts
  /\ Startable
  /\ Unpointed => Recoverable
  /\ Repoint
  /\ \E profile \in AdmittedProfiles, direct \in BOOLEAN :
       /\ dirs' = [a \in DOMAIN dirs \cup {last + 1} |->
                     IF a \in DOMAIN dirs THEN dirs[a]
                     ELSE [status |-> "RUNNING", profile |-> profile,
                           built |-> FALSE, result |-> "FAIL",
                           gate |-> FALSE, verdict |-> None]]
       /\ Goto(p, IF direct THEN "collect" ELSE "open")
  /\ last' = last + 1
  /\ mem' = [mem EXCEPT ![p] = [attempt |-> last + 1, retry |-> Retries,
                                todo |-> {}, health |-> None]]
  /\ UNCHANGED <<phase, lock, meta, pub, accepted, plan, stuck>>

-----------------------------------------------------------------------------
(* _direct_health_collect                                                  *)

\* MUTANT of Reconciled: a collection that was cut off is not reconciled.
ReconciledNever(retry) == meta.collect

\* A retry cancels a collection that never reached a final state.
Reconciled(retry) ==
  IF retry /\ InProgress(meta.collect) THEN "cancelled" ELSE meta.collect

\* _cancel_orphaned_before_attempts.
OrphansCancelled(p) ==
  [a \in DOMAIN dirs |->
     IF a # Mine(p) /\ dirs[a].status = "RUNNING"
     THEN [dirs[a] EXCEPT !.status = "CANCELLED"] ELSE dirs[a]]

Collect(p) ==
  /\ At(p, "collect") /\ lock = None
  /\ MayRun(Reconciled(mem[p].retry), mem[p].retry)
  /\ lock' = p
  /\ meta' = [meta EXCEPT !.collect = "running"]
  /\ dirs' = IF phase = "before" /\ Reconciled(mem[p].retry) # meta.collect
             THEN OrphansCancelled(p) ELSE dirs
  /\ Goto(p, "collecting")
  /\ UNCHANGED <<phase, last, pub, current, concluded, mem, accepted, plan,
                 stuck>>

\* The lock is taken by another process, or the transition refused.
CollectRefused(p) ==
  /\ At(p, "collect")
  /\ lock # None \/ ~MayRun(Reconciled(mem[p].retry), mem[p].retry)
  /\ EndsAs(p, "FAILED")
  /\ UNCHANGED <<phase, lock, meta, last, pub, current, concluded, accepted,
                 plan, stuck>>

Collected(p) ==
  /\ At(p, "collecting")
  /\ lock' = None
  /\ meta' = [meta EXCEPT !.collect = "completed"]
  /\ Goto(p, "open")
  /\ UNCHANGED <<phase, dirs, last, pub, current, concluded, mem, accepted,
                 plan, stuck>>

\* except BaseException: Ctrl-C included.
CollectFails(p) ==
  /\ At(p, "collecting")
  /\ lock' = None
  /\ \/ meta' = [meta EXCEPT !.collect = "failed"] /\ EndsAs(p, "FAILED")
     \/ /\ meta' = [meta EXCEPT !.collect = "cancelled"]
        /\ EndsAs(p, IF phase = "before" THEN "CANCELLED" ELSE "FAILED")
  /\ UNCHANGED <<phase, last, pub, current, concluded, accepted, plan, stuck>>

-----------------------------------------------------------------------------
(* cmd_health_check_snapshot                                               *)

\* Whether the phase exists is read before the lock is taken.
Open(p) ==
  /\ At(p, "open")
  /\ mem' = [mem EXCEPT ![p].retry = meta.build # "not_started"]
  /\ Goto(p, "build")
  /\ UNCHANGED <<phase, lock, meta, dirs, last, pub, current, concluded, accepted, plan,
                 stuck>>

Build(p) ==
  /\ At(p, "build") /\ lock = None
  /\ MayRun(meta.build, mem[p].retry)
  /\ lock' = p
  /\ meta' = [meta EXCEPT !.build = "running", !.attempt = Mine(p)]
  /\ Goto(p, "building")
  /\ UNCHANGED <<phase, dirs, last, pub, current, concluded, mem, accepted,
                 plan, stuck>>

BuildRefused(p) ==
  /\ At(p, "build")
  /\ lock # None \/ ~MayRun(meta.build, mem[p].retry)
  /\ EndsAs(p, "FAILED")
  /\ UNCHANGED <<phase, lock, meta, last, pub, current, concluded, accepted,
                 plan, stuck>>

\* The artifacts are in the attempt's directory before the phase completes.  For
\* a rollback attempt only the verdict counts.
Built(p) ==
  /\ At(p, "building")
  /\ lock' = None
  /\ meta' = [meta EXCEPT !.build = "completed"]
  /\ \E result \in Results, gate \in BOOLEAN :
       /\ phase = "rollback" => result = "WARN" /\ ~gate
       /\ dirs' = [dirs EXCEPT ![Mine(p)] = [@ EXCEPT !.built = TRUE,
                                                      !.result = result,
                                                      !.gate = gate]]
  /\ mem' = [mem EXCEPT ![p].todo = {"snapshot", "health"}]
  /\ Goto(p, IF phase = "before" THEN "publish" ELSE "verify")
  /\ UNCHANGED <<phase, last, pub, current, concluded, accepted, plan, stuck>>

BuildFails(p) ==
  /\ At(p, "building")
  /\ lock' = None
  /\ meta' = [meta EXCEPT !.build = "failed"]
  /\ EndsAs(p, "FAILED")
  /\ UNCHANGED <<phase, last, pub, current, concluded, accepted, plan, stuck>>

-----------------------------------------------------------------------------
(* _publish_before_attempt, _verify_and_publish_rollback_attempt           *)

\* The rollback attempt is verified, under a lock of its own.
Verify(p) ==
  /\ At(p, "verify") /\ lock = None
  /\ \E verdict \in {"VERIFIED", "WARN", "NOT_VERIFIED"} :
       dirs' = [dirs EXCEPT ![Mine(p)].verdict = verdict]
  /\ Goto(p, "publish")
  /\ UNCHANGED <<phase, lock, meta, last, pub, current, concluded, mem, accepted, plan,
                 stuck>>

\* The files of the attempt, in the order its directory lists them.
Publish(p) ==
  /\ At(p, "publish")
  /\ \E file \in mem[p].todo :
       /\ pub' = IF file = "snapshot"
                 THEN [pub EXCEPT !.snapshot = Mine(p)]
                 ELSE [pub EXCEPT !.health = [attempt |-> Mine(p),
                                              decision |-> None]]
       /\ mem' = [mem EXCEPT ![p].todo = @ \ {file}]
       /\ Goto(p, IF mem[p].todo # {file} THEN "publish"
                  ELSE IF phase = "before" THEN "profile" ELSE "result")
  /\ UNCHANGED <<phase, lock, meta, dirs, last, current, concluded, accepted,
                 plan, stuck>>

PublishProfile(p) ==
  /\ At(p, "profile")
  /\ pub' = [pub EXCEPT !.profile = dirs[Mine(p)].profile]
  /\ Goto(p, "result")
  /\ UNCHANGED <<phase, lock, meta, dirs, last, current, concluded, mem, accepted, plan,
                 stuck>>

PublishResult(p) ==
  /\ At(p, "result")
  /\ dirs' = [dirs EXCEPT ![Mine(p)].status = "COMPLETED"]
  /\ Goto(p, "current")
  /\ UNCHANGED <<phase, lock, meta, last, pub, current, concluded, mem, accepted, plan,
                 stuck>>

PublishCurrent(p) ==
  /\ At(p, "current")
  /\ current' = Mine(p)
  /\ Goto(p, IF phase = "before" THEN "gate" ELSE "conclusion")
  /\ UNCHANGED <<phase, lock, meta, dirs, last, pub, concluded, mem,
                 accepted, plan, stuck>>

\* The Operation gate: the published health result is read ...
Gate(p) ==
  /\ At(p, "gate")
  /\ IF dirs[pub.health.attempt].gate
     THEN /\ mem' = [mem EXCEPT ![p].health = pub.health]
          /\ Goto(p, "answer")
     ELSE End(p)
  /\ UNCHANGED <<phase, lock, meta, dirs, last, pub, current, concluded, accepted, plan,
                 stuck>>

\* ... the operator is asked, and it is written back with the decision.
Answer(p) ==
  /\ At(p, "answer")
  /\ \E decision \in {"continue", "stop"} :
       pub' = [pub EXCEPT !.health = [mem[p].health EXCEPT !.decision = decision]]
  /\ End(p)
  /\ UNCHANGED <<phase, lock, meta, dirs, last, current, concluded, accepted,
                 plan, stuck>>

\* verification-current.json.
PublishConclusion(p) ==
  /\ At(p, "conclusion")
  /\ concluded' = Mine(p)
  /\ Goto(p, "conclude")
  /\ UNCHANGED <<phase, lock, meta, dirs, last, pub, current, mem, accepted,
                 plan, stuck>>

Outcome(a) ==
  IF dirs[a].verdict = "VERIFIED" THEN "rolled_back_and_verified"
                                  ELSE "rollback_health_failed"

\* The workflow transition, under a third lock.
Conclude(p) ==
  /\ At(p, "conclude") /\ lock = None
  /\ <<meta.workflow, Outcome(Mine(p))>> \in WORKFLOW_TRANSITIONS
  /\ meta' = [meta EXCEPT !.workflow = Outcome(Mine(p))]
  /\ End(p)
  /\ UNCHANGED <<phase, lock, dirs, last, pub, current, concluded, accepted,
                 plan, stuck>>

\* An error after the Snapshot: _fail_rollback_attempt; a before attempt is
\* left as it is.
PublishFails(p) ==
  /\ pc[p] \in {"verify", "publish", "profile", "result", "current",
                "conclusion", "conclude"}
  /\ IF phase = "before" THEN End(p) /\ UNCHANGED dirs ELSE EndsAs(p, "FAILED")
  /\ stuck' = (stuck \/ pc[p] \in Blocking)
  /\ UNCHANGED <<phase, lock, meta, last, pub, current, concluded, accepted,
                 plan>>

-----------------------------------------------------------------------------
(* cmd_overlay_change_plan                                                 *)

\* _resolve_overlay_plan_before: the phase in the metadata ...
PlanRead(q) ==
  /\ q = Planner /\ phase = "before" /\ At(q, "idle")
  /\ \A p \in Procs : Alone(p)
  /\ meta.build = "completed" /\ meta.workflow = "none"
  /\ mem' = [mem EXCEPT ![q].attempt = meta.attempt]
  /\ Goto(q, "check")
  /\ UNCHANGED <<phase, lock, meta, dirs, last, pub, current, concluded, accepted, plan,
                 stuck>>

\* _validate_overlay_plan_health_result of the published health result.
Eligible(health) ==
  /\ dirs[health.attempt].result = "WARN"
  /\ dirs[health.attempt].gate => health.decision = "continue"

\* MUTANT of Resolved: the pointer is not compared with the metadata.
ResolvedAny(a) ==
  IF current # None
  THEN /\ dirs[current].status = "COMPLETED" /\ pub.snapshot = current
       /\ dirs[current].result = dirs[pub.health.attempt].result
  ELSE pub.snapshot # None

\* The pointer, if there is one, leads to the completed attempt of the
\* metadata, the published Snapshot is that attempt's, and so are the results.
Resolved(a) ==
  IF current # None
  THEN /\ current = a
       /\ dirs[current].status = "COMPLETED" /\ pub.snapshot = current
       /\ dirs[current].result = dirs[pub.health.attempt].result
  ELSE pub.snapshot # None

\* ... and then the files.
PlanCheck(q) ==
  /\ q = Planner /\ At(q, "check")
  /\ IF pub.health # None /\ Resolved(Mine(q)) /\ Eligible(pub.health)
     THEN /\ mem' = [mem EXCEPT ![q] = [@ EXCEPT !.attempt = pub.snapshot,
                                                 !.health = pub.health]]
          /\ Goto(q, "ready")
     ELSE End(q)
  /\ UNCHANGED <<phase, lock, meta, dirs, last, pub, current, concluded, accepted, plan,
                 stuck>>

\* The workflow starts under the lock.
PlanReady(q) ==
  /\ q = Planner /\ At(q, "ready")
  /\ IF lock = None /\ meta.workflow = "none"
     THEN /\ meta' = [meta EXCEPT !.workflow = "plan_ready"]
          /\ plan' = [pointer |-> current, snapshot |-> Mine(q),
                       health |-> mem[q].health]
     ELSE UNCHANGED <<meta, plan>>
  /\ End(q)
  /\ UNCHANGED <<phase, lock, dirs, last, pub, current, concluded, accepted,
                 stuck>>

-----------------------------------------------------------------------------
(* accept_rollback_state_warn, under the lock                              *)

\* MUTANT of WarnAcceptable: the rollback Snapshot is not compared with the
\* attempt that was verified.
WarnAcceptableAlone ==
  /\ meta.workflow = "rollback_health_failed" /\ accepted = None
  /\ concluded # None
  /\ dirs[concluded].verdict = "WARN"

\* build_rollback_state_warn_acceptance_summary: no acceptance yet, and the
\* verification last published, of the attempt the Snapshot is of, may be
\* accepted.  Records of an earlier version of the program are left out.
WarnAcceptable ==
  /\ meta.workflow = "rollback_health_failed" /\ accepted = None
  /\ concluded # None /\ current = concluded
  /\ dirs[concluded].verdict = "WARN"

\* The operator is shown the warnings, and asked for the phrase ...
AcceptRead(q) ==
  /\ q = Planner /\ phase = "rollback" /\ At(q, "idle") /\ lock = None
  /\ \A p \in Procs : Alone(p)
  /\ WarnAcceptable
  /\ lock' = q
  /\ mem' = [mem EXCEPT ![q].attempt = concluded]
  /\ Goto(q, "confirm")
  /\ UNCHANGED <<phase, meta, dirs, last, pub, current, concluded, accepted,
                 plan, stuck>>

\* ... the acceptance is written ...
AcceptWrite(q) ==
  /\ q = Planner /\ At(q, "confirm")
  /\ accepted' = Mine(q)
  /\ Goto(q, "accept")
  /\ UNCHANGED <<phase, lock, meta, dirs, last, pub, current, concluded, mem,
                 plan, stuck>>

\* ... and the workflow goes on.
AcceptConclude(q) ==
  /\ q = Planner /\ At(q, "accept")
  /\ <<meta.workflow, "rolled_back_and_verified">> \in WORKFLOW_TRANSITIONS
  /\ meta' = [meta EXCEPT !.workflow = "rolled_back_and_verified"]
  /\ lock' = None
  /\ End(q)
  /\ UNCHANGED <<phase, dirs, last, pub, current, concluded, accepted, plan,
                 stuck>>

\* Another phrase, a failing write, Ctrl-C; or the process is killed.
AcceptCut(q) ==
  /\ q = Planner /\ pc[q] \in AcceptSteps
  /\ lock' \in {None, Gone}
  /\ End(q)
  /\ UNCHANGED <<phase, meta, dirs, last, pub, current, concluded, accepted,
                 plan, stuck>>

-----------------------------------------------------------------------------
(* Faults                                                                  *)

Kill(p) ==
  /\ pc[p] \in Cuts
  /\ lock' = IF lock = p THEN Gone ELSE lock
  /\ stuck' = (stuck \/ pc[p] \in Blocking)
  /\ End(p)
  /\ UNCHANGED <<phase, meta, dirs, last, pub, current, concluded, accepted,
                 plan>>

\* Ctrl-C outside the collection: the locks are released; cmd_health_check_
\* phase records it until the Snapshot is there, and later nothing does.
Interrupt(p) ==
  /\ pc[p] \in Cuts \ {"collecting"}
  /\ lock' = IF lock = p THEN None ELSE lock
  /\ stuck' = (stuck \/ pc[p] \in Blocking)
  /\ IF pc[p] \in {"collect", "open", "build", "building"}
     THEN EndsAs(p, IF phase = "before" THEN "CANCELLED" ELSE "FAILED")
     ELSE End(p) /\ UNCHANGED dirs
  /\ UNCHANGED <<phase, meta, last, pub, current, concluded, accepted, plan>>

\* The operator removes the lock of a process that died.
RemoveStaleLock ==
  /\ lock = Gone
  /\ lock' = None
  /\ UNCHANGED <<phase, meta, dirs, last, pub, current, concluded, pc, mem,
                 accepted, plan, stuck>>

Attempt(p) ==
  \/ Start(p)
  \/ Collect(p) \/ CollectRefused(p) \/ Collected(p) \/ CollectFails(p)
  \/ Open(p) \/ Build(p) \/ BuildRefused(p) \/ Built(p) \/ BuildFails(p)
  \/ Verify(p) \/ Publish(p) \/ PublishProfile(p) \/ PublishResult(p)
  \/ PublishCurrent(p) \/ Gate(p) \/ Answer(p)
  \/ PublishConclusion(p) \/ Conclude(p) \/ PublishFails(p)
  \/ Kill(p) \/ Interrupt(p)

Plan(q) == PlanRead(q) \/ PlanCheck(q) \/ PlanReady(q)

Accept(q) == AcceptRead(q) \/ AcceptWrite(q) \/ AcceptConclude(q) \/ AcceptCut(q)

Next ==
  \/ RemoveStaleLock
  \/ Plan(Planner) \/ Accept(Planner)
  \/ \E p \in Procs : Attempt(p)

Spec == Init /\ [][Next]_vars

-----------------------------------------------------------------------------
(* Properties                                                              *)

\* Every variable has its type.
TypeOK ==
  /\ phase \in {"before", "rollback"}
  /\ lock \in Procs \cup {Planner, None, Gone}
  /\ meta \in Metadata
  /\ last \in 0..MaxAttempts /\ dirs \in [1..last -> Dirs]
  /\ pub \in Published
  /\ {current, concluded, accepted} \subseteq Attempts \cup {None}
  /\ pc \in [Procs \cup {Planner} -> {"idle"} \cup Steps \cup PlanSteps \cup AcceptSteps]
  /\ mem \in [Procs \cup {Planner} -> Memories]
  /\ plan \in Plans \cup {None}
  /\ stuck \in BOOLEAN

\* A plan that goes by the pointer is made from one attempt, which completed:
\* the health result and the gate decision it relies on are of that attempt, and
\* the profile the change goes on with is the one it was checked by.
PlanCoherent ==
  plan # None /\ plan.pointer # None =>
    /\ plan.snapshot = plan.pointer /\ plan.health.attempt = plan.pointer
    /\ dirs[plan.pointer].built /\ dirs[plan.pointer].status = "COMPLETED"
    /\ dirs[plan.pointer].profile = pub.profile
    /\ Eligible(plan.health)

\* Every plan is made from an attempt that completed.
PlanFromCompleted ==
  plan # None => dirs[plan.snapshot].status = "COMPLETED"

\* A workflow that says the rollback is verified has the evidence: the pointers
\* lead to one attempt, with its artifacts, whose verification succeeded, or
\* whose WARN, and no other attempt's, the operator accepted.
ConcludedOnEvidence ==
  meta.workflow = "rolled_back_and_verified" =>
    /\ current # None /\ concluded = current /\ dirs[current].built
    /\ \/ dirs[current].verdict = "VERIFIED"
       \/ dirs[current].verdict = "WARN" /\ accepted = current

\* Whatever attempt fails, is killed or interrupted, those steps apart: the
\* next one may start, collect and build.
Retriable ==
  (/\ \A p \in Procs : At(p, "idle")
   /\ lock = None /\ ~stuck
   /\ meta.workflow \in {"none", "rolled_back", "rollback_health_failed"})
  => /\ Startable /\ (Unpointed => Recoverable)
     /\ MayRun(Reconciled(Retries), Retries)
     /\ MayRun(meta.build, TRUE)

\* A pointer moves on only: to an attempt with all its artifacts, and never
\* back to an earlier one.
PointerMovesOn ==
  [][current' # current =>
       /\ dirs'[current'].built
       /\ current # None => current < current']_vars
=============================================================================
