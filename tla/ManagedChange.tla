----------------------------- MODULE ManagedChange -----------------------------
(***************************************************************************)
(* An approved Overlay change from its before Snapshot to its save or      *)
(* rollback (alred/managed_operation.py, managed_config.py, approval.py    *)
(* and the commands of cli.py that call them), together with the devices   *)
(* it changes.  The Operation lock is taken as what OperationStore shows   *)
(* it to be: one command at a time runs under it.  A command is a job of   *)
(* several steps; between two of them it may be killed, fail, or be        *)
(* interrupted by a signal, and people edit the devices.                   *)
(***************************************************************************)
EXTENDS OperationStates, Integers, FiniteSets

CONSTANTS
  N,         \* the devices the plan marks PLANNED, in plan order: 1..N
  C,         \* configuration commands per device
  Seen,      \* the commands the Overlay evaluation looks for in the after Snapshot
  Lagging,   \* devices that may hold unsaved configuration at the start
  Offered,   \* the save policies operators approve
  Events,    \* what may happen besides the commands of the workflow
  MaxEdits,  \* bound on the out-of-band edits of the devices
  MaxFaults  \* bound on the crashes, failures and signals

ASSUME NAssumption == N \in Nat \ {0}
ASSUME CAssumption == C \in Nat \ {0}
ASSUME SeenAssumption == Seen # {} /\ Seen \subseteq 1 .. C
ASSUME MaxEditsAssumption == MaxEdits \in Nat
ASSUME LaggingAssumption == Lagging \subseteq 1 .. N
ASSUME OfferedAssumption == Offered \subseteq {"save", "nosave"}
ASSUME EventsAssumption ==
  Events \subseteq {"crash", "fail", "signal", "expire", "close", "import",
              "recheck", "recompare"}
ASSUME MaxFaultsAssumption == MaxFaults \in Nat

Hosts == 1 .. N
Steps == 1 .. C

VARIABLES
  run,       \* per device: running-config
  start,     \* per device: startup-config
  edits,     \* (bound) the out-of-band edits so far
  faults,    \* (bound) the crashes, failures and signals so far
  wf, life,  \* workflow_state and lifecycle of metadata.yaml
  planFiles, \* have the plan's input artifacts been written?
  approval,  \* save policy of approval-record.json, "none" if absent
  agreed,    \* save policy of the record written last (approval-record.<id>.json)
  expired,   \* is that record past expires_at?
  raw,       \* transcripts captured from each device, None if not yet
  snap,      \* the before, after and rollback Snapshots
  applied,   \* apply/execution.json: result, and pre_apply_diff per device
  restored,  \* rollback/execution.json: result
  common,    \* health/report, and health/report-recheck: HealthResult
  overlay,   \* overlay/health-result.json
  evals,     \* the overlay evaluation phases begun so far
  verified,  \* rollback/verification.json, and its WARN acceptance
  verdict,   \* the rollback attempt a process has verified, none if there is none
  errors,    \* error codes in the Operation's execution.json
  job,       \* the command that holds the lock
  stale,     \* is the lock file that of a dead process?
  closing,   \* has `operation close` passed its checks and not yet locked?
  sent       \* (ghost) has a configuration command been sent to a device?

devices == <<run, start, edits, faults, sent>>
evidence == <<raw, snap, common, overlay, evals, verified, verdict>>
records == <<planFiles, approval, agreed, expired, applied, restored, errors>>
vars == <<run, start, edits, faults, wf, life, planFiles, approval, agreed, expired, raw,
          snap, applied, restored, common, overlay, evals, verified, verdict, errors,
          job, stale, closing, sent>>

\* A configuration: the commands of the change that are in it, and the
\* version of everything else (0: older than the change began with).
Config == [own : SUBSET Steps, other : 0 .. MaxEdits + 1]
None == [own |-> {}, other |-> -1]
NoSnap == [h \in Hosts |-> None]
Snapshot == [Hosts -> Config \cup {None}]

NoVerdict == [result |-> "none", published |-> FALSE, of |-> NoSnap]

Policies == {"none", "save", "nosave"}
DeviceStatus == {"NOT_STARTED", "SUCCESS", "FAILED", "UNKNOWN"}
Diffs == {"absent", "clean", "dirty"}

NoJob ==
  [cmd |-> "none", stage |-> "none", i |-> 1, k |-> 1, begun |-> FALSE,
   marked |-> FALSE, ok |-> TRUE, dev |-> [h \in Hosts |-> "NOT_STARTED"],
   pre |-> [h \in Hosts |-> "absent"], target |-> NoSnap]

\* A change on devices some of which may hold configuration nobody saved.
Init ==
  /\ run = [h \in Hosts |-> [own |-> {}, other |-> 1]]
  /\ \E L \in SUBSET Lagging :
       start = [h \in Hosts |-> [own |-> {}, other |-> IF h \in L THEN 0 ELSE 1]]
  /\ edits = 0 /\ faults = 0
  /\ wf = "none" /\ life = "created"
  /\ planFiles = FALSE
  /\ approval = "none" /\ agreed = "none" /\ expired = FALSE
  /\ raw = NoSnap
  /\ snap = [p \in {"before", "after", "rollback"} |-> NoSnap]
  /\ applied = [result |-> "none", pre |-> [h \in Hosts |-> "absent"]]
  /\ restored = "none"
  /\ common = [first |-> "none", again |-> "none"]
  /\ overlay = "none" /\ evals = {}
  /\ verified = [result |-> "none", accepted |-> "no"] /\ verdict = NoVerdict
  /\ errors = {}
  /\ job = NoJob /\ stale = FALSE /\ closing = FALSE /\ sent = FALSE

-----------------------------------------------------------------------------
(* The lock and the job that holds it                                      *)

LockFree == job.cmd = "none" /\ ~stale

Take(cmd, stage) ==
  /\ LockFree
  /\ job' = [NoJob EXCEPT !.cmd = cmd, !.stage = stage]

At(cmd, stage) == job.cmd = cmd /\ job.stage = stage
AtAny(cmds, stage) == job.cmd \in cmds /\ job.stage = stage
Goto(stage) == job' = [job EXCEPT !.stage = stage]
Done == job' = NoJob

\* transition_workflow refuses what its table does.
ToWorkflow(s) == <<wf, s>> \in WORKFLOW_TRANSITIONS /\ wf' = s

-----------------------------------------------------------------------------
(* What happens outside alred                                              *)

\* Somebody edits a device by hand.
Edit(h) ==
  /\ edits < MaxEdits /\ edits' = edits + 1
  /\ run' = [run EXCEPT ![h] = [own |-> run[h].own, other |-> edits + 2]]
  /\ UNCHANGED <<start, faults, sent, wf, life, records, evidence, job, stale,
                 closing>>

\* The approval passes expires_at.
Expire ==
  /\ "expire" \in Events
  /\ approval # "none" /\ ~expired /\ expired' = TRUE
  /\ UNCHANGED <<devices, wf, life, planFiles, approval, agreed, applied,
                 restored, errors, evidence, job, stale, closing>>

\* The show commands of a later Snapshot, as somebody captures them by hand for
\* --input: device by device, at any time.
Capture(h) ==
  /\ "import" \in Events
  /\ raw[h] = None
  /\ \/ snap["before"] = NoSnap \/ snap["after"] = NoSnap
     \/ wf \in {"rollback_required", "rollback_running", "rolled_back",
               "rollback_health_failed"}
  /\ raw' = [raw EXCEPT ![h] = run[h]]
  /\ UNCHANGED <<devices, wf, life, records, snap, common, overlay, evals,
                 verified, verdict, job, stale, closing>>

-----------------------------------------------------------------------------
(* Snapshots and health results                                            *)

Captured == \A h \in Hosts : raw[h] # None

\* Direct collection, for the Snapshot that is due: all devices, and under the
\* lock, so that no other command runs meanwhile.
Collect ==
  /\ LockFree /\ raw = NoSnap
  /\ \/ snap["before"] = NoSnap \/ snap["after"] = NoSnap
     \/ wf \in {"rolled_back", "rollback_health_failed"} /\ verdict.result = "none"
  /\ raw' = run
  /\ UNCHANGED <<devices, wf, life, records, snap, common, overlay, evals,
                 verified, verdict, job, stale, closing>>

\* A Snapshot resumes the lifecycle.
Resumed == IF life \in {"created", "waiting_for_user"} THEN "running" ELSE life

\* health-check before: running, then waiting for the follow-up work.
PublishBefore ==
  /\ LockFree /\ Captured
  /\ wf = "none" /\ snap["before"] = NoSnap
  /\ life = "created" /\ life' = "waiting_for_user"
  /\ snap' = [snap EXCEPT !["before"] = raw]
  /\ raw' = NoSnap
  /\ UNCHANGED <<devices, wf, records, common, overlay, evals, verified, verdict,
                 job, stale, closing>>

\* health-check after: one Snapshot only, in any workflow state.  The offline
\* health-check snapshot completes a running lifecycle besides.
PublishAfter ==
  /\ LockFree /\ Captured
  /\ snap["before"] # NoSnap /\ snap["after"] = NoSnap
  /\ snap' = [snap EXCEPT !["after"] = raw]
  /\ raw' = NoSnap
  /\ \/ life' = Resumed
     \/ "import" \in Events /\ Resumed = "running" /\ life' = "completed"
  /\ UNCHANGED <<devices, wf, records, common, overlay, evals, verified, verdict,
                 job, stale, closing>>

\* health-check compare, once, and once more as a recheck; without a workflow
\* the standalone after ends the Operation.
Compare(which) ==
  /\ LockFree
  /\ which = "again" => "recompare" \in Events
  /\ snap["after"] # NoSnap /\ common[which] = "none"
  /\ \E r \in {"PASS", "WARN", "FAIL"} : common' = [common EXCEPT ![which] = r]
  /\ life' = IF which = "first" /\ wf = "none" /\ life = "running"
             THEN "completed" ELSE life
  /\ UNCHANGED <<devices, wf, records, raw, snap, overlay, evals, verified, verdict,
                 job, stale, closing>>

-----------------------------------------------------------------------------
(* overlay-check evaluate and its recheck                                  *)

\* The HealthResult the evaluation reads: that of the recheck if there is one.
CommonResult == IF common["again"] # "none" THEN common["again"] ELSE common["first"]

\* rollback_required can be left by a recheck for two reasons only.
Reconcilable ==
  \/ overlay = "UNKNOWN"
  \/ overlay = "VERIFIED" /\ common["first"] = "WARN"

BeginEvaluate(cmd) ==
  /\ LockFree
  /\ snap["after"] # NoSnap
  /\ cmd \notin evals
  /\ cmd = "recheck" => "recheck" \in Events
  /\ cmd = "evaluate" => overlay = "none"
  /\ cmd = "recheck" /\ wf = "rollback_required" => Reconcilable
  /\ LET completes == \/ wf \in {"apply_completed", "after_running"}
                      \/ cmd = "recheck" /\ wf = "rollback_required"
     IN /\ completes => CommonResult # "none"
        /\ wf' = IF completes THEN "after_running" ELSE wf
        /\ job' = [NoJob EXCEPT !.cmd = cmd, !.stage = "judge",
                                !.begun = completes]
  /\ evals' = evals \cup {cmd}
  /\ UNCHANGED <<devices, life, records, raw, snap, common, overlay, verified,
                 verdict, stale, closing>>

\* evaluate_overlay_change finds the change VERIFIED only if what it looks for is in
\* the after Snapshot of every device; of EVPN instances, BGP VRFs and address
\* families it looks for nothing.  Writing the summary may raise after the result
\* is written.
Judge ==
  /\ AtAny({"evaluate", "recheck"}, "judge")
  /\ \E r \in {"VERIFIED", "UNKNOWN", "FAIL"} :
       /\ r = "VERIFIED" => \A h \in Hosts : Seen \subseteq snap["after"][h].own
       /\ overlay' = IF job.cmd = "evaluate" THEN r ELSE overlay
       /\ IF job.begun
          THEN \E raises \in BOOLEAN :
                 job' = [job EXCEPT !.stage = "result",
                           !.ok = /\ r = "VERIFIED" /\ ~raises
                                  /\ CommonResult \in {"PASS", "WARN"}]
          ELSE Done
  /\ UNCHANGED <<devices, wf, life, records, raw, snap, common, evals, verified,
                 verdict, stale, closing>>

\* The evaluation raises: the workflow it began fails all the same.
JudgeFails ==
  /\ AtAny({"evaluate", "recheck"}, "judge")
  /\ IF job.begun THEN job' = [job EXCEPT !.stage = "result", !.ok = FALSE]
                  ELSE Done
  /\ UNCHANGED <<devices, wf, life, records, evidence, stale, closing>>

EvaluateResult ==
  /\ AtAny({"evaluate", "recheck"}, "result")
  /\ ToWorkflow(IF job.ok THEN "after_completed" ELSE "health_failed")
  /\ IF job.ok THEN Done ELSE Goto("escalate")
  /\ UNCHANGED <<devices, life, records, evidence, stale, closing>>

-----------------------------------------------------------------------------
(* overlay-change plan and approve                                         *)

\* The input artifacts are written before the lock is asked for, and a plan
\* that finds any refuses to start.
BeginPlan ==
  /\ snap["before"] # NoSnap /\ wf = "none" /\ ~planFiles
  /\ planFiles' = TRUE
  /\ IF LockFree
     THEN /\ Take("plan", "transition")
          /\ life' = IF life = "waiting_for_user" THEN "running" ELSE life
     ELSE UNCHANGED <<life, job>>
  /\ UNCHANGED <<devices, wf, approval, agreed, expired, applied, restored,
                 errors, evidence, stale, closing>>

Plan ==
  /\ At("plan", "transition")
  /\ \E s \in {"planned", "before_running", "before_completed", "plan_ready"} :
       /\ ToWorkflow(s)
       /\ IF s = "plan_ready" THEN Done ELSE Goto("transition")
  /\ UNCHANGED <<devices, life, records, evidence, stale, closing>>

\* The operator confirms a plan with a save policy.  A second record goes to a
\* file of its own; every later command reads the first (no --approval-record).
BeginApprove ==
  /\ wf = "plan_ready"
  /\ Take("approve", "transition")
  /\ \E policy \in Offered :
       /\ agreed' = policy
       /\ approval' = IF approval = "none" THEN policy ELSE approval
  /\ UNCHANGED <<devices, wf, life, planFiles, expired, applied, restored,
                 errors, evidence, stale, closing>>

Approve ==
  /\ At("approve", "transition")
  /\ ToWorkflow("approved") /\ Done
  /\ UNCHANGED <<devices, life, records, evidence, stale, closing>>

-----------------------------------------------------------------------------
(* Serial execution of apply and rollback                                  *)

Sessions == {"apply", "rollback"}

\* MUTANT of Current: a rollback in plan order.
CurrentInPlanOrder == job.i

\* The device a job works on: rollback takes them in reverse order.
Current == IF job.cmd = "rollback" THEN N + 1 - job.i ELSE job.i

\* What a command leaves on a device, and the Snapshot it must start from.
Effect(cmd, c, k) ==
  [own |-> IF cmd = "apply" THEN c.own \cup {k} ELSE c.own \ {C + 1 - k},
   other |-> c.other]
Expected(cmd) == IF cmd = "apply" THEN snap["before"] ELSE snap["after"]

\* MUTANT of Overall: an unknown result does not count as a failure.
OverallKnown ==
  IF \E h \in Hosts : job.dev[h] = "FAILED" THEN "FAILED" ELSE "SUCCESS"

\* execute_serial_devices: the result of the job from those of its devices.
Overall ==
  IF \E h \in Hosts : job.dev[h] = "UNKNOWN" THEN "UNKNOWN"
  ELSE IF \E h \in Hosts : job.dev[h] = "FAILED" THEN "FAILED" ELSE "SUCCESS"

\* MUTANT of FinishDevice: the index is advanced past the last device.
FinishDevicePastEnd(status, stage) ==
  job' = [job EXCEPT !.dev[Current] = status,
            !.i = IF status = "SUCCESS" THEN job.i + 1 ELSE job.i,
            !.k = 1,
            !.stage = IF status = "SUCCESS" /\ job.i < N THEN stage ELSE "finish"]

\* The current device gets a status; anything but SUCCESS ends the job.
FinishDevice(status, stage) ==
  job' = [job EXCEPT !.dev[Current] = status,
            !.i = IF status = "SUCCESS" /\ job.i < N THEN job.i + 1 ELSE job.i,
            !.k = 1,
            !.stage = IF status = "SUCCESS" /\ job.i < N THEN stage ELSE "finish"]

BeginApply ==
  /\ approval # "none" /\ ~expired /\ wf = "approved"
  /\ Take("apply", "connect")
  /\ UNCHANGED <<devices, wf, life, records, evidence, stale, closing>>

\* A rollback of a finished change first declares itself required.
BeginRollback ==
  /\ approval # "none" /\ snap["after"] # NoSnap
  /\ wf \in {"after_completed", "completed", "rollback_required"}
  /\ wf' = "rollback_required"
  /\ Take("rollback", "connect")
  /\ UNCHANGED <<devices, life, records, evidence, stale, closing>>

\* Connection and precheck fail: the device is unreachable or unreadable, its
\* running-config drifted, or it holds unsaved changes a save would persist.
RefuseDevice ==
  /\ AtAny(Sessions, "connect")
  /\ \/ \E s \in {"FAILED", "UNKNOWN"} : FinishDevice(s, "connect")
     \/ /\ job.cmd = "apply" /\ approval = "save"
        /\ run[Current] = Expected("apply")[Current]
        /\ run[Current] # start[Current]
        /\ job' = [job EXCEPT !.dev[Current] = "FAILED",
                     !.pre[Current] = "dirty", !.stage = "finish"]
  /\ UNCHANGED <<devices, wf, life, records, evidence, stale, closing>>

\* MUTANT of AcceptDevice: the apply reads the record written last.
AcceptDeviceLatest ==
  /\ AtAny(Sessions, "connect")
  /\ run[Current] = Expected(job.cmd)[Current]
  /\ IF job.cmd = "apply" /\ agreed = "save"
     THEN /\ run[Current] = start[Current]
          /\ job' = [job EXCEPT !.pre[Current] = "clean", !.stage = "begin"]
     ELSE Goto("begin")
  /\ UNCHANGED <<devices, wf, life, records, evidence, stale, closing>>

\* The precheck passes.
AcceptDevice ==
  /\ AtAny(Sessions, "connect")
  /\ run[Current] = Expected(job.cmd)[Current]
  /\ IF job.cmd = "apply" /\ approval = "save"
     THEN /\ run[Current] = start[Current]
          /\ job' = [job EXCEPT !.pre[Current] = "clean", !.stage = "begin"]
     ELSE Goto("begin")
  /\ UNCHANGED <<devices, wf, life, records, evidence, stale, closing>>

\* before_commands, and the end of a job that never reached it: the workflow
\* is in the running state of the session from here on.
BeginCommands ==
  /\ AtAny(Sessions, "begin") \/ AtAny(Sessions, "finish")
  /\ ~job.begun
  /\ ToWorkflow(IF job.cmd = "apply" THEN "apply_running" ELSE "rollback_running")
  /\ job' = [job EXCEPT !.begun = TRUE]
  /\ UNCHANGED <<devices, life, records, evidence, stale, closing>>

\* MUTANT of MarkStarted: commands may start before the workflow is told.
MarkStartedFirst ==
  /\ AtAny(Sessions, "begin")
  /\ job' = [job EXCEPT !.marked = TRUE, !.stage = "send"]
  /\ UNCHANGED <<devices, wf, life, records, evidence, stale, closing>>

\* mark_device_commands_started, under OperationInterruptGuard.
MarkStarted ==
  /\ AtAny(Sessions, "begin") /\ job.begun
  /\ job' = [job EXCEPT !.marked = TRUE, !.stage = "send"]
  /\ UNCHANGED <<devices, wf, life, records, evidence, stale, closing>>

\* One command: done, refused by the device, or lost on the way or back.
SendCommand ==
  /\ AtAny(Sessions, "send")
  /\ \E status \in {"SUCCESS", "FAILED", "UNKNOWN"} :
       /\ \/ /\ status # "FAILED"
             /\ run' = [run EXCEPT ![Current] = Effect(job.cmd, run[Current], job.k)]
          \/ status # "SUCCESS" /\ UNCHANGED run
       /\ IF status = "SUCCESS" /\ job.k < C
          THEN job' = [job EXCEPT !.k = job.k + 1]
          ELSE FinishDevice(status, "connect")
  /\ sent' = TRUE
  /\ UNCHANGED <<start, edits, faults, wf, life, records, evidence, stale, closing>>

\* build_execution_document, written to apply/ or rollback/execution.json.
RecordExecution ==
  /\ AtAny(Sessions, "finish") /\ job.begun
  /\ IF job.cmd = "apply"
     THEN /\ applied' = [result |-> IF Overall = "SUCCESS" THEN "APPLIED_PENDING_HEALTH"
                           ELSE IF Overall = "FAILED" THEN "APPLY_FAILED"
                           ELSE "DEVICE_STATE_UNKNOWN",
                         pre |-> job.pre]
          /\ UNCHANGED restored
     ELSE /\ restored' = IF Overall = "SUCCESS" THEN "ROLLED_BACK_PENDING_HEALTH"
                         ELSE "ROLLBACK_FAILED"
          /\ UNCHANGED applied
  /\ Goto("result")
  /\ UNCHANGED <<devices, wf, life, planFiles, approval, agreed, expired, errors,
                 evidence, stale, closing>>

\* MUTANT of SessionResult: a failed apply is left as it is.
SessionResultOnly ==
  /\ AtAny(Sessions, "result")
  /\ ToWorkflow(IF job.cmd = "apply"
                THEN IF Overall = "SUCCESS" THEN "apply_completed" ELSE "apply_failed"
                ELSE IF Overall = "SUCCESS" THEN "rolled_back" ELSE "rollback_failed")
  /\ Done
  /\ UNCHANGED <<devices, life, records, evidence, stale, closing>>

\* The workflow follows the result.
SessionResult ==
  /\ AtAny(Sessions, "result")
  /\ ToWorkflow(IF job.cmd = "apply"
                THEN IF Overall = "SUCCESS" THEN "apply_completed" ELSE "apply_failed"
                ELSE IF Overall = "SUCCESS" THEN "rolled_back" ELSE "rollback_failed")
  /\ IF job.cmd = "apply" /\ Overall # "SUCCESS" THEN Goto("escalate") ELSE Done
  /\ UNCHANGED <<devices, life, records, evidence, stale, closing>>

\* A failed apply or evaluation leaves the decision on rollback to people.
Escalate ==
  /\ job.stage = "escalate"
  /\ ToWorkflow("rollback_required") /\ Done
  /\ UNCHANGED <<devices, life, records, evidence, stale, closing>>

-----------------------------------------------------------------------------
(* save and save-rollback: every device is inspected before any is saved   *)

Saves == {"save", "save_rollback"}

\* validate_rollback_state_warn_acceptance.
RollbackTrusted ==
  verified.result = "VERIFIED" \/ verified.accepted = "current"

\* The checks of execute_approved_save, then the workflow.
BeginSave(cmd) ==
  /\ approval = "save"
  /\ \A h \in Hosts : applied.pre[h] # "dirty"
  /\ IF cmd = "save"
     THEN /\ ~expired /\ wf = "after_completed"
          /\ applied.result = "APPLIED_PENDING_HEALTH"
          /\ common["first"] \in {"PASS", "WARN"} /\ overlay = "VERIFIED"
     ELSE /\ wf = "rolled_back_and_verified" /\ RollbackTrusted
          /\ restored \in {"ROLLED_BACK_PENDING_HEALTH", "ROLLED_BACK_AND_VERIFIED"}
          /\ snap["rollback"] # NoSnap
  /\ LockFree
  /\ job' = [NoJob EXCEPT !.cmd = cmd, !.stage = "inspect",
               !.target = snap[IF cmd = "save" THEN "after" ELSE "rollback"]]
  /\ ToWorkflow("save_running")
  /\ UNCHANGED <<devices, life, records, evidence, stale, closing>>

\* inspect_after: the live configuration is that of the Snapshot loaded at the
\* beginning.
Matches(h) == run[h] = job.target[h]

\* MUTANT of Inspect: a device is saved as soon as it has been inspected.
InspectOne ==
  /\ AtAny(Saves, "inspect")
  /\ Matches(job.i)
  /\ job' = [job EXCEPT !.stage = "reinspect"]
  /\ UNCHANGED <<devices, wf, life, records, evidence, stale, closing>>

\* The read-only pass over all devices.
Inspect ==
  /\ AtAny(Saves, "inspect")
  /\ Matches(job.i)
  /\ job' = IF job.i < N THEN [job EXCEPT !.i = job.i + 1]
            ELSE [job EXCEPT !.i = 1, !.stage = "reinspect"]
  /\ UNCHANGED <<devices, wf, life, records, evidence, stale, closing>>

InspectFails ==
  /\ AtAny(Saves, "inspect") \/ AtAny(Saves, "reinspect")
  /\ \E s \in {"FAILED", "UNKNOWN"} :
       (job.stage = "reinspect" => s = "UNKNOWN") /\ FinishDevice(s, "none")
  /\ UNCHANGED <<devices, wf, life, records, evidence, stale, closing>>

\* The second inspection, in the session that saves.
Reinspect ==
  /\ AtAny(Saves, "reinspect")
  /\ Matches(job.i)
  /\ job' = [job EXCEPT !.marked = TRUE, !.stage = "copy"]
  /\ UNCHANGED <<devices, wf, life, records, evidence, stale, closing>>

\* execute_save_session: copy running-config startup-config.
CopyConfig ==
  /\ AtAny(Saves, "copy")
  /\ \E status \in {"SUCCESS", "FAILED", "UNKNOWN"} :
       /\ \/ start' = [start EXCEPT ![job.i] = run[job.i]]
          \/ status # "SUCCESS" /\ UNCHANGED start
       /\ IF status = "SUCCESS" THEN Goto("postdiff") ELSE FinishDevice(status, "none")
  /\ UNCHANGED <<run, edits, faults, sent, wf, life, records, evidence, stale,
                 closing>>

\* The diff after the save.
PostDiff ==
  /\ AtAny(Saves, "postdiff")
  /\ \E s \in {"SUCCESS", "FAILED", "UNKNOWN"} :
       /\ s = "SUCCESS" => run[job.i] = start[job.i]
       /\ s = "FAILED" => run[job.i] # start[job.i]
       /\ FinishDevice(s, "reinspect")
  /\ UNCHANGED <<devices, wf, life, records, evidence, stale, closing>>

RecordSave ==
  /\ AtAny(Saves, "finish")
  /\ IF job.cmd = "save"
     THEN /\ applied' = [result |-> IF Overall = "SUCCESS" THEN "APPLIED_AND_VERIFIED"
                                    ELSE "SAVE_FAILED",
                         pre |-> applied.pre]
          /\ UNCHANGED restored
     ELSE /\ restored' = IF Overall = "SUCCESS" THEN "ROLLED_BACK_AND_VERIFIED"
                         ELSE "SAVE_FAILED"
          /\ UNCHANGED applied
  /\ Goto("result")
  /\ UNCHANGED <<devices, wf, life, planFiles, approval, agreed, expired, errors,
                 evidence, stale, closing>>

\* MUTANT of SaveResult: the save is completed whatever the devices say.
SaveResultAlways ==
  /\ AtAny(Saves, "result")
  /\ ToWorkflow("completed") /\ Goto("complete")
  /\ UNCHANGED <<devices, life, records, evidence, stale, closing>>

SaveResult ==
  /\ AtAny(Saves, "result")
  /\ ToWorkflow(IF Overall = "SUCCESS" THEN "completed" ELSE "save_failed")
  /\ IF Overall = "SUCCESS" THEN Goto("complete") ELSE Done
  /\ UNCHANGED <<devices, life, records, evidence, stale, closing>>

CompleteLifecycle ==
  /\ AtAny(Saves, "complete")
  /\ life' = IF life = "running" THEN "completed" ELSE life
  /\ Done
  /\ UNCHANGED <<devices, wf, records, evidence, stale, closing>>

-----------------------------------------------------------------------------
(* health-check rollback and the acceptance of its WARN                    *)

\* Under the lock the new Snapshot is compared with before.  A WARN that may be
\* accepted has every configuration restored.  (One attempt at a time.)
VerifyRollback ==
  /\ LockFree /\ Captured /\ verdict.result = "none"
  /\ wf \in {"rolled_back", "rollback_health_failed"}
  /\ life' = Resumed
  /\ \E r \in {"VERIFIED", "WARN", "FAILED"} :
       /\ r # "FAILED" => raw = snap["before"]
       /\ verdict' = [result |-> r, published |-> FALSE, of |-> raw]
  /\ raw' = NoSnap
  /\ UNCHANGED <<devices, wf, records, snap, common, overlay, evals, verified, job,
                 stale, closing>>

\* The attempt becomes the current one, without the lock.
PublishRollback ==
  /\ verdict.result # "none" /\ ~verdict.published
  /\ verdict' = [verdict EXCEPT !.published = TRUE]
  /\ snap' = [snap EXCEPT !["rollback"] = verdict.of]
  /\ verified' = [result |-> verdict.result,
                  accepted |-> IF verified.accepted = "no" THEN "no" ELSE "outdated"]
  /\ UNCHANGED <<devices, wf, life, records, raw, common, overlay, evals, job,
                 stale, closing>>

\* With the lock again, the workflow follows, if its table still allows it.
ConcludeRollback ==
  /\ LockFree /\ verdict.published
  /\ LET s == IF verdict.result = "VERIFIED" THEN "rolled_back_and_verified"
              ELSE "rollback_health_failed"
     IN wf' = IF <<wf, s>> \in WORKFLOW_TRANSITIONS THEN s ELSE wf
  /\ verdict' = NoVerdict
  /\ UNCHANGED <<devices, life, records, raw, snap, common, overlay, evals, verified,
                 job, stale, closing>>

\* The process dies, or finds the lock taken, before it has come to its end.
AbandonRollback ==
  /\ verdict.result # "none"
  /\ \/ ~LockFree /\ verdict.published
     \/ "crash" \in Events
  /\ verdict' = NoVerdict
  /\ UNCHANGED <<devices, wf, life, records, raw, snap, common, overlay, evals,
                 verified, job, stale, closing>>

\* The acceptance is written once, then the workflow follows.
BeginAccept ==
  /\ wf = "rollback_health_failed"
  /\ verified.result = "WARN" /\ verified.accepted = "no"
  /\ Take("accept", "transition")
  /\ verified' = [result |-> "WARN", accepted |-> "current"]
  /\ UNCHANGED <<devices, wf, life, records, raw, snap, common, overlay, evals,
                 verdict, stale, closing>>

Accept ==
  /\ At("accept", "transition")
  /\ ToWorkflow("rolled_back_and_verified") /\ Done
  /\ UNCHANGED <<devices, life, records, evidence, stale, closing>>

-----------------------------------------------------------------------------
(* operation close                                                         *)

\* The lifecycle, the workflow state and the lock are looked at without the
\* lock, and not again.
CheckClose ==
  /\ "close" \in Events
  /\ ~closing /\ LockFree
  /\ life \in CLOSABLE_OPERATION_STATES
  /\ wf \in PRE_APPLY_CLOSABLE_WORKFLOW_STATES
  /\ closing' = TRUE
  /\ UNCHANGED <<devices, wf, life, records, evidence, job, stale>>

\* With the lock, only the lifecycle table can still refuse.
Close ==
  /\ closing /\ closing' = FALSE
  /\ IF LockFree /\ <<life, "cancelled">> \in OPERATION_TRANSITIONS
     THEN life' = "cancelled" ELSE UNCHANGED life
  /\ UNCHANGED <<devices, wf, records, evidence, job, stale>>

-----------------------------------------------------------------------------
(* Faults                                                                  *)

Running == job.cmd # "none"

Fault(kind) ==
  /\ kind \in Events
  /\ faults < MaxFaults /\ faults' = faults + 1
  /\ Running /\ Done
  /\ UNCHANGED <<run, start, edits, sent>>

\* The process is killed; the lock file stays until people remove it.
Crash ==
  /\ Fault("crash") /\ stale' = TRUE
  /\ UNCHANGED <<wf, life, records, evidence, closing>>

Reconcile ==
  /\ stale /\ stale' = FALSE
  /\ UNCHANGED <<devices, wf, life, records, evidence, job, closing>>

\* An exception (a full disk, a failing file system) or an interrupt without a
\* guard leaves the command, which releases the lock.
Fail ==
  /\ Fault("fail")
  /\ UNCHANGED <<wf, life, records, evidence, stale, closing>>

Guarded == Sessions \cup Saves

\* SIGINT or SIGTERM under OperationInterruptGuard, whose handler ends the
\* command.
Signal ==
  /\ Fault("signal") /\ job.cmd \in Guarded
  /\ IF job.marked
     THEN /\ wf' = IF wf = "apply_running" THEN "device_state_unknown"
                   ELSE IF wf = "rollback_running" THEN "rollback_required"
                   ELSE wf
          /\ life' = IF life = "running" THEN "state_unknown" ELSE life
          /\ errors' = errors \cup {"DEVICE_STATE_UNKNOWN"}
     ELSE /\ life' = IF life \in CLOSABLE_OPERATION_STATES THEN "cancelled" ELSE life
          /\ errors' = errors \cup {"CANCELLED_BEFORE_APPLY"}
          /\ UNCHANGED wf
  /\ UNCHANGED <<planFiles, approval, agreed, expired, applied, restored, evidence,
                 stale, closing>>

-----------------------------------------------------------------------------
\* The steps of the command that holds the lock.
Step ==
  \/ Plan \/ Approve \/ Judge \/ JudgeFails \/ EvaluateResult
  \/ RefuseDevice \/ AcceptDevice \/ BeginCommands \/ MarkStarted \/ SendCommand
  \/ RecordExecution \/ SessionResult \/ Escalate
  \/ Inspect \/ InspectFails \/ Reinspect \/ CopyConfig \/ PostDiff
  \/ RecordSave \/ SaveResult \/ CompleteLifecycle \/ Accept

\* What the operator asks for.
Request ==
  \/ Collect \/ PublishBefore \/ BeginPlan \/ BeginApprove \/ BeginApply
  \/ PublishAfter \/ Compare("first") \/ Compare("again")
  \/ BeginEvaluate("evaluate") \/ BeginEvaluate("recheck")
  \/ BeginSave("save") \/ BeginSave("save_rollback")
  \/ BeginRollback \/ VerifyRollback \/ PublishRollback \/ ConcludeRollback
  \/ AbandonRollback \/ BeginAccept
  \/ CheckClose \/ Close

Environment ==
  \/ \E h \in Hosts : Edit(h) \/ Capture(h)
  \/ Expire \/ Reconcile

Next == Step \/ Request \/ Environment \/ Crash \/ Fail \/ Signal

Spec == Init /\ [][Next]_vars

\* A running command goes on: alred itself never waits.
FairSpec == Spec /\ WF_vars(Step)

-----------------------------------------------------------------------------
(* Properties that hold                                                    *)

Commands == {"none", "plan", "approve", "accept", "evaluate", "recheck"} \cup Guarded

Stages ==
  {"none", "transition", "judge", "result", "escalate", "connect", "begin", "send",
   "finish", "inspect", "reinspect", "copy", "postdiff", "complete"}

Job ==
  [cmd : Commands, stage : Stages, i : Hosts, k : Steps, begun : BOOLEAN,
   marked : BOOLEAN, ok : BOOLEAN, dev : [Hosts -> DeviceStatus],
   pre : [Hosts -> Diffs], target : Snapshot]

DevicesOK ==
  /\ run \in [Hosts -> Config] /\ start \in [Hosts -> Config]
  /\ edits \in 0 .. MaxEdits /\ faults \in 0 .. MaxFaults /\ sent \in BOOLEAN

RecordsOK ==
  /\ planFiles \in BOOLEAN /\ expired \in BOOLEAN
  /\ approval \in Policies /\ agreed \in Policies
  /\ applied \in [result : {"none", "APPLIED_PENDING_HEALTH", "APPLY_FAILED",
                            "DEVICE_STATE_UNKNOWN", "APPLIED_AND_VERIFIED",
                            "SAVE_FAILED"},
                  pre : [Hosts -> Diffs]]
  /\ restored \in {"none", "ROLLED_BACK_PENDING_HEALTH", "ROLLBACK_FAILED",
                   "ROLLED_BACK_AND_VERIFIED", "SAVE_FAILED"}
  /\ errors \subseteq {"DEVICE_STATE_UNKNOWN", "CANCELLED_BEFORE_APPLY"}

EvidenceOK ==
  /\ raw \in Snapshot
  /\ snap \in [{"before", "after", "rollback"} -> Snapshot]
  /\ common \in [{"first", "again"} -> {"none", "PASS", "WARN", "FAIL"}]
  /\ overlay \in {"none", "VERIFIED", "UNKNOWN", "FAIL"}
  /\ evals \subseteq {"evaluate", "recheck"}
  /\ verified \in [result : {"none", "VERIFIED", "WARN", "FAILED"},
                   accepted : {"no", "current", "outdated"}]
  /\ verdict \in [result : {"none", "VERIFIED", "WARN", "FAILED"},
                  published : BOOLEAN, of : Snapshot]

\* Every variable has its type.
TypeOK ==
  /\ DevicesOK /\ RecordsOK /\ EvidenceOK
  /\ wf \in WORKFLOW_STATES /\ life \in OPERATION_STATES
  /\ job \in Job /\ stale \in BOOLEAN /\ closing \in BOOLEAN

\* Once a configuration command has been sent, the workflow state is never one
\* that `operation close` takes for "no device touched yet", whatever crashed.
MutationVisible ==
  sent => wf \notin PRE_APPLY_CLOSABLE_WORKFLOW_STATES

\* Serial execution that stops at the first failure, in opposite directions for
\* apply and rollback: what is on the devices is always a prefix of the plan.
PrefixApplied ==
  /\ \A h \in Hosts : \E n \in 0 .. C : run[h].own = 1 .. n
  /\ \A g, h \in Hosts : g < h /\ run[h].own # {} => run[g].own = Steps

\* The workflow states that claim something about all devices tell the truth,
\* unsure and failed commands and repeated sessions notwithstanding.
WorkflowTellsDevices ==
  /\ wf = "apply_completed" => \A h \in Hosts : run[h].own = Steps
  /\ wf \in {"rolled_back", "rollback_health_failed", "rolled_back_and_verified"} =>
       \A h \in Hosts : run[h].own = {}

\* All of the change is on every device, or nothing of it on any.
Uniform == \E own \in {{}, Steps} : \A h \in Hosts : run[h].own = own

\* A completed change is saved everywhere and, if the evaluation misses none of its
\* commands, the same on all devices: applied, or rolled back.
CompletedUniform ==
  wf = "completed" =>
    /\ \A h \in Hosts : start[h].own = run[h].own
    /\ Seen = Steps => Uniform

\* Because all devices are inspected first, no startup-config is written while
\* some device has the change and another has not (again if nothing is missed).
NoSaveWhileMixed == [][start' # start /\ Seen = Steps => Uniform]_vars

\* The save of a change never persists what was unsaved before the work: a device it
\* writes was found saved by the precheck of the apply, right before its first
\* command.  (The save itself takes a diff nobody looked at for a clean one, so apply
\* and save must go by the same policy though a killed approve leaves two records.)
UnsavedKeptOut ==
  [][job.cmd = "save" => \A h \in Hosts : start'[h] # start[h] =>
       applied.pre[h] = "clean" /\ start[h].other # 0]_vars

\* An apply that began comes to a state that says how it went, and to
\* rollback_required when it failed (no crash, failure or signal).
ApplySettles ==
  wf = "apply_running" ~> wf \in {"apply_completed", "rollback_required"}

-----------------------------------------------------------------------------
(* The abstract specification the workflow implements                      *)

\* What a workflow state says of the fleet.
Told ==
  IF wf = "apply_running" THEN "applying"
  ELSE IF wf = "apply_completed" THEN "applied"
  ELSE IF wf = "rollback_running" THEN "restoring"
  ELSE IF wf \in {"rolled_back", "rollback_health_failed", "rolled_back_and_verified"}
  THEN "restored"
  ELSE IF wf = "save_running" THEN "saving"
  ELSE IF wf = "completed" THEN "done" ELSE "open"

Serial ==
  INSTANCE SerialChange WITH own <- [h \in Hosts |-> run[h].own],
                             saved <- [h \in Hosts |-> start[h].own],
                             told <- Told

\* Jobs that fail, crash and are interrupted, sessions that are repeated and
\* rechecks of what failed never take the devices or the workflow state outside
\* of what SerialChange allows: one device at a time, forward and then back, no
\* save of a mixed fleet, no claim about the fleet that is not so (again if the
\* evaluation misses no command).
ImplementsSerial == Serial!SerialSpec

-----------------------------------------------------------------------------
(* Properties the documents state and the code does not have               *)

\* close: "operation cannot be closed after device mutation may have started".
CloseBeforeMutation ==
  [][closing /\ ~closing' /\ life' # life =>
       wf \in PRE_APPLY_CLOSABLE_WORKFLOW_STATES]_vars

\* What was unsaved before the work stays out of startup-config.
UnsavedStaysUnsaved ==
  [][\A h \in Hosts : start[h].other = 0 => start'[h].other = 0]_vars

\* A recheck does not turn a failed application into a success.
FailedApplyStays ==
  wf = "after_completed" => applied.result = "APPLIED_PENDING_HEALTH"
=============================================================================
