----------------------------- MODULE Qualification -----------------------------
(***************************************************************************)
(* The qualification of a model and release in the lab                     *)
(* (alred/qualification.py): the candidate of a change that has no         *)
(* approval is applied, evaluated, rolled back and verified, and at last   *)
(* the baseline is saved, to show that saving works.  A command is a job   *)
(* of several steps under the Operation lock.  Between two steps it may be *)
(* killed or interrupted, and people edit and save the devices by hand.    *)
(***************************************************************************)
EXTENDS OperationStates, Integers

CONSTANTS
  N,         \* the devices of the candidate, in plan order: 1..N
  Lagging,   \* devices whose startup-config may be old at the start
  MaxEvents  \* bound on what people do to the devices, and on the crashes and signals

Hosts == 1 .. N

VARIABLES
  run,      \* per device: running-config
  start,    \* per device: startup-config
  events,   \* (bound) the edits and saves by hand, crashes and signals so far
  touched,  \* (ghost) devices somebody used since the save inspected them first
  wf,       \* workflow_state
  record,   \* qualification-record.json: "none", "valid" or "expired"
  raw,      \* show running-config captured from each device, Missing if not yet
  before,   \* before Snapshot
  after,    \* after Snapshot, and whether the apply was recorded before it
  evals,    \* the evaluation phases begun so far
  applied,  \* is there a qualification/apply/execution.json?
  restored, \* is there a qualification/rollback/execution.json?
  verified, \* result in qualification/rollback/verification.json
  job,      \* the command that holds the lock
  stale     \* is the lock file that of a dead process?

vars == <<run, start, events, touched, wf, record, raw, before, after, evals,
          applied, restored, verified, job, stale>>
devices == <<run, start, events, touched>>
evidence == <<raw, before, after, evals, verified>>
records == <<record, applied, restored>>

\* A running-config: does it have the candidate, and the version of the rest
\* (0: older than the qualification).
Config == [own : BOOLEAN, other : 0 .. MaxEvents + 1]
Missing == [own |-> FALSE, other |-> -1]
NoSnap == [h \in Hosts |-> Missing]
Snapshot == [Hosts -> Config \cup {Missing}]
Results == {"SUCCESS", "FAILED", "UNKNOWN"}

NoJob == [cmd |-> "none", stage |-> "none", i |-> 1, begun |-> FALSE, marked |-> FALSE,
          result |-> "SUCCESS"]

\* plan_ready: the plan and its before Snapshot are there.
Init ==
  /\ run = [h \in Hosts |-> [own |-> FALSE, other |-> 1]]
  /\ \E L \in SUBSET Lagging :
       start = [h \in Hosts |-> [own |-> FALSE, other |-> IF h \in L THEN 0 ELSE 1]]
  /\ events = 0 /\ touched = {}
  /\ wf = "plan_ready" /\ record = "none"
  /\ raw = NoSnap /\ before = run
  /\ after = [of |-> NoSnap, fresh |-> FALSE] /\ evals = {}
  /\ applied = FALSE /\ restored = FALSE /\ verified = "none"
  /\ job = NoJob /\ stale = FALSE

LockFree == job.cmd = "none" /\ ~stale
Take(cmd, stage) ==
  LockFree /\ job' = [NoJob EXCEPT !.cmd = cmd, !.stage = stage]
At(cmd, stage) == job.cmd = cmd /\ job.stage = stage
InSession(stage) == job.cmd \in {"apply", "rollback"} /\ job.stage = stage
Goto(stage) == job' = [job EXCEPT !.stage = stage]
Done == job' = NoJob
Event == events < MaxEvents /\ events' = events + 1
ToWorkflow(s) == <<wf, s>> \in WORKFLOW_TRANSITIONS /\ wf' = s

-----------------------------------------------------------------------------
(* What people do with the devices                                         *)

Edit(h) ==
  /\ Event
  /\ run' = [run EXCEPT ![h] = [own |-> run[h].own, other |-> events + 2]]
  /\ touched' = touched \cup {h}
  /\ UNCHANGED <<start, wf, records, evidence, job, stale>>

SaveByHand(h) ==
  /\ Event /\ start[h] # run[h]
  /\ start' = [start EXCEPT ![h] = run[h]]
  /\ touched' = touched \cup {h}
  /\ UNCHANGED <<run, wf, records, evidence, job, stale>>

\* May a Snapshot captured now be published?
Due ==
  \/ after.of = NoSnap
  \/ wf \in {"rollback_required", "rollback_running", "rolled_back",
             "rollback_health_failed"}

\* Output captured by hand for --input, from one device after the other (a bound), at
\* any time.
Capture(h) ==
  /\ raw[h] = Missing /\ Due
  /\ \A g \in Hosts : g < h => raw[g] # Missing
  /\ raw' = [raw EXCEPT ![h] = run[h]]
  /\ UNCHANGED <<devices, wf, records, before, after, evals, verified, job, stale>>

\* The record passes expires_at (before one of the commands that look at it).
Expire ==
  /\ wf \in {"approved", "rolled_back_and_verified"} /\ job = NoJob
  /\ record = "valid" /\ record' = "expired"
  /\ UNCHANGED <<devices, wf, applied, restored, evidence, job, stale>>

-----------------------------------------------------------------------------
(* qualify-approve                                                         *)

\* The record is written once, then the workflow follows.
BeginApprove ==
  /\ wf = "plan_ready" /\ record = "none"
  /\ Take("approve", "transition") /\ record' = "valid"
  /\ UNCHANGED <<devices, wf, applied, restored, evidence, stale>>

Approve ==
  /\ At("approve", "transition")
  /\ ToWorkflow("approved") /\ Done
  /\ UNCHANGED <<devices, records, evidence, stale>>

-----------------------------------------------------------------------------
(* qualify and qualify-rollback: one device after the other                *)

BeginApply ==
  /\ wf = "approved" /\ record = "valid"
  /\ Take("apply", "precheck")
  /\ UNCHANGED <<devices, wf, records, evidence, stale>>

\* The rollback runs with an expired record too, but never on an after Snapshot
\* older than the apply.
BeginRollback ==
  /\ wf \in {"after_completed", "rollback_required"}
  /\ record # "none"
  /\ after.of # NoSnap /\ after.fresh /\ applied
  /\ Take("rollback", "precheck")
  /\ wf' = "rollback_required"
  /\ UNCHANGED <<devices, records, evidence, stale>>

\* The plan's order, and the reverse of it.
Current == IF job.cmd = "rollback" THEN N + 1 - job.i ELSE job.i
Expected == IF job.cmd = "rollback" THEN after.of[Current] ELSE before[Current]

\* MUTANT of FinishDevice: the command goes on past the last device.
FinishDevicePastEnd(result) ==
  job' = [job EXCEPT
    !.result = result,
    !.i = IF result = "SUCCESS" THEN job.i + 1 ELSE job.i,
    !.stage = IF result = "SUCCESS" THEN "precheck" ELSE "record"]

\* The session of a device ends; the first failure ends the command.
FinishDevice(result) ==
  job' = [job EXCEPT
    !.result = result,
    !.i = IF result = "SUCCESS" /\ job.i < N THEN job.i + 1 ELSE job.i,
    !.stage = IF result = "SUCCESS" /\ job.i < N THEN "precheck" ELSE "record"]

\* No connection, or a running-config that is not the expected one.
Refuse ==
  /\ InSession("precheck")
  /\ \E r \in Results \ {"SUCCESS"} : FinishDevice(r)
  /\ UNCHANGED <<devices, wf, records, evidence, stale>>

Precheck ==
  /\ InSession("precheck")
  /\ run[Current] = Expected
  /\ Goto("begin")
  /\ UNCHANGED <<devices, wf, records, evidence, stale>>

\* Before the first command of all.
BeginCommands ==
  /\ InSession("begin") /\ ~job.begun
  /\ ToWorkflow(IF job.cmd = "apply" THEN "apply_running" ELSE "rollback_running")
  /\ job' = [job EXCEPT !.begun = TRUE]
  /\ UNCHANGED <<devices, records, evidence, stale>>

MarkStarted ==
  /\ InSession("begin") /\ job.begun
  /\ job' = [job EXCEPT !.marked = TRUE, !.stage = "send"]
  /\ UNCHANGED <<devices, wf, records, evidence, stale>>

\* The commands of a device.  Without SUCCESS it may have executed them, or not.
Send ==
  /\ InSession("send")
  /\ LET own == job.cmd = "apply"
     IN \E r \in Results : \E n \in {own, run[Current].own} :
          /\ r = "SUCCESS" => n = own
          /\ run' = [run EXCEPT ![Current].own = n]
          /\ FinishDevice(r)
  /\ UNCHANGED <<start, events, touched, wf, records, evidence, stale>>

\* An apply that sent nothing becomes apply_running all the same.
BeginLate ==
  /\ At("apply", "record") /\ ~job.begun
  /\ ToWorkflow("apply_running")
  /\ job' = [job EXCEPT !.begun = TRUE]
  /\ UNCHANGED <<devices, records, evidence, stale>>

\* execution.json.
Record ==
  /\ InSession("record") /\ (job.cmd = "apply" => job.begun)
  /\ IF job.cmd = "apply" THEN applied' = TRUE /\ UNCHANGED restored
     ELSE restored' = TRUE /\ UNCHANGED applied
  /\ Goto("result")
  /\ UNCHANGED <<devices, wf, record, evidence, stale>>

\* MUTANT of Outcome: an unknown device state counts as a success.
OutcomeKnown ==
  IF job.result # "FAILED" THEN "SUCCESS" ELSE job.result

Outcome == job.result

ApplyResult ==
  /\ At("apply", "result")
  /\ ToWorkflow(IF Outcome = "SUCCESS" THEN "apply_completed"
                ELSE IF Outcome = "UNKNOWN" THEN "device_state_unknown"
                ELSE "apply_failed")
  /\ IF Outcome = "SUCCESS" THEN Done ELSE Goto("escalate")
  /\ UNCHANGED <<devices, records, evidence, stale>>

Escalate ==
  /\ At("apply", "escalate")
  /\ ToWorkflow("rollback_required") /\ Done
  /\ UNCHANGED <<devices, records, evidence, stale>>

\* A rollback refused before its first command leaves the workflow alone.
RollbackResult ==
  /\ At("rollback", "result") /\ Done
  /\ IF Outcome = "SUCCESS" THEN ToWorkflow("rolled_back")
     ELSE IF job.begun THEN ToWorkflow("rollback_failed") ELSE UNCHANGED wf
  /\ UNCHANGED <<devices, records, evidence, stale>>

-----------------------------------------------------------------------------
(* Health: what health-check and overlay-check do to the qualification     *)

Captured == \A h \in Hosts : raw[h] # Missing

\* Direct collection, under the lock.
Collect ==
  /\ LockFree /\ raw = NoSnap /\ Due /\ raw' = run
  /\ UNCHANGED <<devices, wf, records, before, after, evals, verified, job, stale>>

\* One after Snapshot, in any workflow state.
PublishAfter ==
  /\ LockFree /\ Captured /\ after.of = NoSnap
  /\ after' = [of |-> raw, fresh |-> applied]
  /\ raw' = NoSnap
  /\ UNCHANGED <<devices, wf, records, before, evals, verified, job, stale>>

\* The evaluation and its recheck, each of them once; a cut may leave after_running,
\* or health_failed.
Evaluate(cmd) ==
  /\ LockFree /\ after.of # NoSnap /\ cmd \notin evals
  /\ evals' = evals \cup {cmd}
  /\ wf \in {"apply_completed", "after_running"}
       \cup (IF cmd = "recheck" THEN {"rollback_required"} ELSE {})
  /\ \/ wf' = "after_completed" /\ \A h \in Hosts : after.of[h].own
     \/ wf' \in {"rollback_required", "after_running", "health_failed"}
  /\ UNCHANGED <<devices, records, raw, before, after, verified, job, stale>>

\* health-check rollback: the Snapshot taken after the rollback is compared with
\* before, and the result published.  (A cut may leave the workflow as it was.)
VerifyRollback ==
  /\ LockFree /\ Captured /\ restored
  /\ wf \in {"rolled_back", "rollback_health_failed"}
  /\ \E r \in {"VERIFIED", "WARN", "FAILED"} :
       /\ r # "FAILED" => raw = before
       /\ verified' = r
       /\ wf' \in {wf, IF r = "VERIFIED" THEN "rolled_back_and_verified"
                       ELSE "rollback_health_failed"}
  /\ raw' = NoSnap
  /\ UNCHANGED <<devices, records, before, after, evals, job, stale>>

\* The workflow accepts a WARN; the baseline save does not.
AcceptWarn ==
  /\ LockFree /\ wf = "rollback_health_failed" /\ verified = "WARN"
  /\ ToWorkflow("rolled_back_and_verified")
  /\ UNCHANGED <<devices, records, evidence, job, stale>>

-----------------------------------------------------------------------------
(* qualify-save-baseline                                                   *)

BeginSave ==
  /\ wf = "rolled_back_and_verified"
  /\ record = "valid" /\ verified = "VERIFIED"
  /\ Take("save", "preflight")
  /\ UNCHANGED <<devices, wf, records, evidence, stale>>

\* MUTANT of Inspected: a clean diff is enough.
InspectedDiffOnly(h) == run[h] = start[h]

\* inspect_baseline: running-config is that of before, and is saved already.
Inspected(h) == run[h] = before[h] /\ run[h] = start[h]

\* All devices are inspected before the first is saved.
Preflight ==
  /\ At("save", "preflight") /\ Inspected(job.i)
  /\ job' = IF job.i < N THEN [job EXCEPT !.i = job.i + 1]
            ELSE [job EXCEPT !.i = 1, !.stage = "inspect"]
  /\ touched' = touched \ {job.i}
  /\ UNCHANGED <<run, start, events, wf, records, evidence, stale>>

\* Once more, in the session that saves.
Inspect ==
  /\ At("save", "inspect") /\ Inspected(job.i)
  /\ Goto("begin")
  /\ UNCHANGED <<devices, wf, records, evidence, stale>>

\* An inspection, a save or its second diff fails.
SaveFails ==
  /\ job.cmd = "save" /\ job.stage \in {"preflight", "inspect"}
  /\ job' = [job EXCEPT !.result = "FAILED", !.stage = "finish"]
  /\ UNCHANGED <<devices, wf, records, evidence, stale>>

BeginCopies ==
  /\ At("save", "begin") /\ ~job.begun
  /\ ToWorkflow("qualification_save_running")
  /\ job' = [job EXCEPT !.begun = TRUE]
  /\ UNCHANGED <<devices, records, evidence, stale>>

MarkSave ==
  /\ At("save", "begin") /\ job.begun
  /\ job' = [job EXCEPT !.marked = TRUE, !.stage = "copy"]
  /\ UNCHANGED <<devices, wf, records, evidence, stale>>

\* copy running-config startup-config.
Copy ==
  /\ At("save", "copy")
  /\ \E r \in Results :
       /\ \/ start' = [start EXCEPT ![job.i] = run[job.i]]
          \/ r # "SUCCESS" /\ UNCHANGED start
       /\ job' = [job EXCEPT !.result = r,
                             !.stage = IF r = "SUCCESS" THEN "postdiff" ELSE "finish"]
  /\ UNCHANGED <<run, events, touched, wf, records, evidence, stale>>

PostDiff ==
  /\ At("save", "postdiff")
  /\ \/ /\ run[job.i] = start[job.i]
        /\ job' = IF job.i < N THEN [job EXCEPT !.i = job.i + 1, !.stage = "inspect"]
                  ELSE [job EXCEPT !.stage = "finish"]
     \/ job' = [job EXCEPT !.result = "FAILED", !.stage = "finish"]
  /\ UNCHANGED <<devices, wf, records, evidence, stale>>

\* Nothing is concluded of a save that has not begun.
FinishSave ==
  /\ At("save", "finish") /\ Done
  /\ IF job.begun
     THEN ToWorkflow(IF job.result = "SUCCESS" THEN "qualification_completed"
                     ELSE "qualification_save_failed")
     ELSE UNCHANGED wf
  /\ UNCHANGED <<devices, records, evidence, stale>>

-----------------------------------------------------------------------------
(* Faults                                                                  *)

Fault == job.cmd # "none" /\ Event /\ Done

\* The process is killed; the lock file stays until people remove it.
Crash ==
  /\ Fault /\ stale' = TRUE
  /\ UNCHANGED <<run, start, touched, wf, records, evidence>>

Reconcile ==
  /\ stale /\ stale' = FALSE
  /\ UNCHANGED <<devices, wf, records, evidence, job>>

\* SIGINT or SIGTERM under the interrupt guard.
Signal ==
  /\ Fault /\ job.cmd \in {"apply", "rollback", "save"}
  /\ wf' = IF ~job.marked THEN wf
           ELSE IF wf = "apply_running" THEN "device_state_unknown"
           ELSE IF wf = "rollback_running" THEN "rollback_required" ELSE wf
  /\ UNCHANGED <<run, start, touched, records, evidence, stale>>

Next ==
  \/ \E h \in Hosts : Edit(h) \/ SaveByHand(h) \/ Capture(h)
  \/ Expire \/ BeginApprove \/ Approve
  \/ BeginApply \/ BeginRollback \/ Refuse \/ Precheck \/ BeginCommands \/ MarkStarted
  \/ Send \/ BeginLate \/ Record \/ ApplyResult \/ Escalate \/ RollbackResult
  \/ Collect \/ PublishAfter \/ Evaluate("evaluate") \/ Evaluate("recheck")
  \/ VerifyRollback \/ AcceptWarn
  \/ BeginSave \/ Preflight \/ Inspect \/ SaveFails \/ BeginCopies \/ MarkSave
  \/ Copy \/ PostDiff \/ FinishSave
  \/ Crash \/ Reconcile \/ Signal

Spec == Init /\ [][Next]_vars

-----------------------------------------------------------------------------
(* Properties                                                              *)

\* Every variable has its type.
TypeOK ==
  /\ run \in [Hosts -> Config] /\ start \in [Hosts -> Config]
  /\ events \in 0 .. MaxEvents /\ touched \subseteq Hosts
  /\ wf \in WORKFLOW_STATES /\ record \in {"none", "valid", "expired"}
  /\ raw \in Snapshot /\ before \in [Hosts -> Config]
  /\ after \in [of : Snapshot, fresh : BOOLEAN] /\ evals \subseteq {"evaluate", "recheck"}
  /\ applied \in BOOLEAN /\ restored \in BOOLEAN
  /\ verified \in {"none", "VERIFIED", "WARN", "FAILED"}
  /\ job \in [cmd : {"none", "approve", "apply", "rollback", "save"},
              stage : {"none", "transition", "precheck", "begin", "send", "record",
                       "result", "escalate", "preflight", "inspect", "copy", "postdiff",
                       "finish"},
              i : Hosts, begun : BOOLEAN, marked : BOOLEAN, result : Results]
  /\ stale \in BOOLEAN

\* A lab device is never left with a candidate nobody approved: no running-config has
\* it once the rollback is through, and no startup-config once the baseline is
\* being saved, whoever saved the candidate by hand in the meantime.
CandidateGone ==
  /\ wf \in {"rolled_back", "rollback_health_failed", "rolled_back_and_verified",
             "qualification_save_running", "qualification_completed"}
       => \A h \in Hosts : ~run[h].own
  /\ wf \in {"qualification_save_running", "qualification_completed"}
       => \A h \in Hosts : ~start[h].own

\* The baseline save is a save of nothing: when a device is saved, every device
\* nobody has used since its first inspection has, running and startup, the
\* configuration of the before Snapshot.
SaveKeepsBaseline ==
  [][At("save", "copy") /\ job'.stage \in {"postdiff", "finish"} =>
       \A h \in Hosts \ touched : run[h] = before[h] /\ start'[h] = before[h]]_vars
=============================================================================
