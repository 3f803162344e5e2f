-------------------------- MODULE QualificationProofs --------------------------
(***************************************************************************)
(* Proofs about Qualification, for any number of devices and whatever      *)
(* people, crashes and signals do: the candidate leaves the lab, and the   *)
(* baseline save saves the baseline.                                       *)
(***************************************************************************)
EXTENDS Qualification, TLAPS

\* The bounds of the model are natural numbers, and there is a device.
Bounds == N \in Nat \ {0} /\ MaxEvents \in Nat

-----------------------------------------------------------------------------
(* The inductive invariant                                                 *)

\* The before Snapshot is of a fleet without the candidate.
BaselineInv == \A h \in Hosts : ~before[h].own

\* Commands of an apply are sent while the workflow says so.
ApplyInv ==
  job.cmd = "apply" =>
    /\ job.stage \in {"precheck", "begin", "send", "record", "result", "escalate"}
    /\ job.stage \in {"send", "result"} => job.begun
    /\ IF job.stage = "escalate" THEN wf \in {"apply_failed", "device_state_unknown"}
       ELSE wf = IF job.begun THEN "apply_running" ELSE "approved"

\* A rollback goes backwards, and the devices it is through with are rid of the candidate.
RollbackInv ==
  job.cmd = "rollback" =>
    /\ job.stage \in {"precheck", "begin", "send", "record", "result"}
    /\ job.stage = "send" => job.begun
    /\ wf = IF job.begun THEN "rollback_running" ELSE "rollback_required"
    /\ \A h \in Hosts : h > N + 1 - job.i => ~run[h].own
    /\ job.stage \in {"record", "result"} /\ job.result = "SUCCESS" =>
         job.begun /\ \A h \in Hosts : ~run[h].own

\* Has the save found device h as it should be?
Seen(h) ==
  \/ job.stage \in {"inspect", "begin", "copy", "postdiff"}
  \/ job.stage = "preflight" /\ h < job.i

\* What the save has inspected still has no candidate saved, and is the baseline but for
\* what people do.
SaveInv ==
  job.cmd = "save" =>
    /\ job.stage \in {"preflight", "inspect", "begin", "copy", "postdiff", "finish"}
    /\ job.stage \in {"copy", "postdiff"} => job.begun
    /\ wf = IF job.begun THEN "qualification_save_running" ELSE "rolled_back_and_verified"
    /\ \A h \in Hosts : Seen(h) =>
         /\ ~start[h].own
         /\ h \notin touched => run[h] = before[h] /\ start[h] = before[h]

IInv ==
  TypeOK /\ BaselineInv /\ ApplyInv /\ RollbackInv /\ SaveInv /\ CandidateGone

-----------------------------------------------------------------------------
(* It is inductive                                                         *)

\* The targets of the transition table are workflow states.
LEMMA TableStates ==
  ASSUME NEW s, ToWorkflow(s)
  PROVE  wf' = s /\ s \in WORKFLOW_STATES
BY DEF ToWorkflow, WORKFLOW_TRANSITIONS, WORKFLOW_STATES

Stages ==
  {"none", "transition", "precheck", "begin", "send", "record", "result", "escalate",
   "preflight", "inspect", "copy", "postdiff", "finish"}
Jobs ==
  [cmd : {"none", "approve", "apply", "rollback", "save"},
   stage : Stages, i : Hosts, begun : BOOLEAN, marked : BOOLEAN, result : Results]

\* A new command, and none.
LEMMA NewJobs ==
  ASSUME Bounds
  PROVE  /\ NoJob \in Jobs /\ NoJob.cmd = "none"
         /\ \A cmd \in {"approve", "apply", "rollback", "save"}, stage \in Stages :
              Take(cmd, stage) =>
                /\ job' \in Jobs /\ job'.cmd = cmd /\ job'.stage = stage /\ job'.i = 1
                /\ job'.begun = FALSE /\ job'.result = "SUCCESS"
<1>1. 1 \in Hosts
  BY DEF Hosts, Bounds
<1>2. NoJob \in Jobs /\ NoJob.cmd = "none"
  BY <1>1 DEF NoJob, Jobs, Stages, Results
<1>3. ASSUME NEW cmd \in {"approve", "apply", "rollback", "save"}, NEW stage \in Stages,
             Take(cmd, stage)
      PROVE  /\ job' \in Jobs /\ job'.cmd = cmd /\ job'.stage = stage /\ job'.i = 1
             /\ job'.begun = FALSE /\ job'.result = "SUCCESS"
  <2>1. job' = [NoJob EXCEPT !.cmd = cmd, !.stage = stage]
    BY <1>3 DEF Take
  <2> QED
    BY <1>1, <2>1 DEF NoJob, Jobs, Results
<1> QED
  BY <1>2, <1>3

\* People leave the candidate where it is, and the commands too.
LEMMA PeopleKeep ==
  ASSUME Bounds, IInv, NEW h \in Hosts, Edit(h) \/ SaveByHand(h) \/ Capture(h) \/ Expire
  PROVE  IInv'
<1> DEFINE edited == [own |-> run[h].own, other |-> events + 2]
<1>7. ASSUME Edit(h) PROVE edited \in Config /\ edited.own = run[h].own
  <2>1. events \in 0 .. MaxEvents /\ events < MaxEvents
    BY <1>7 DEF Edit, Event, IInv, TypeOK
  <2>2. run[h] \in Config
    BY DEF IInv, TypeOK
  <2>3. run[h].own \in BOOLEAN
    BY <2>2 DEF Config
  <2> QED
    BY <2>1, <2>3 DEF Config, Bounds
<1>8. Edit(h) => run' = [run EXCEPT ![h] = edited]
  BY DEF Edit
<1> HIDE DEF edited
<1>1. TypeOK'
  <2>1. CASE Edit(h)
    BY <2>1, <1>7, <1>8 DEF Edit, Event, IInv, TypeOK, evidence, records, Bounds
  <2>2. CASE SaveByHand(h)
    BY <2>2 DEF SaveByHand, Event, IInv, TypeOK, evidence, records, Bounds
  <2>3. CASE Capture(h) \/ Expire
    <3>1. raw' \in Snapshot
      BY <2>3 DEF Capture, Expire, IInv, TypeOK, Snapshot, evidence
    <3> QED
      BY <2>3, <3>1 DEF Capture, Expire, IInv, TypeOK, evidence, devices, records
  <2> QED
    BY <2>1, <2>2, <2>3
<1>2. /\ run' \in [Hosts -> Config] /\ start' \in [Hosts -> Config] /\ before' = before
      /\ \A g \in Hosts : /\ run'[g].own = run[g].own
                          /\ start'[g] = start[g] \/ start'[g] = run[g]
                          /\ g \notin touched' => run'[g] = run[g] /\ start'[g] = start[g]
      /\ touched \subseteq touched' /\ job' = job /\ wf' = wf
  <2>1. CASE Edit(h)
    BY <1>7, <1>8, <2>1 DEF Edit, IInv, TypeOK, evidence
  <2>2. CASE SaveByHand(h)
    BY <2>2 DEF SaveByHand, IInv, TypeOK, evidence
  <2>3. CASE Capture(h) \/ Expire
    BY <2>3 DEF Capture, Expire, IInv, TypeOK, evidence, devices
  <2> QED
    BY <2>1, <2>2, <2>3
<1>3. BaselineInv'
  BY <1>2 DEF IInv, BaselineInv
<1>4. ApplyInv' /\ RollbackInv'
  BY <1>2 DEF IInv, ApplyInv, RollbackInv
<1>5. CandidateGone'
  BY <1>2 DEF IInv, CandidateGone
<1>6. SaveInv'
  BY <1>2 DEF IInv, SaveInv, Seen, CandidateGone
<1> QED
  BY <1>1, <1>3, <1>4, <1>5, <1>6 DEF IInv

\* Without a command there is nothing to show but types and the candidate.
LEMMA IdleKeeps ==
  ASSUME IInv, TypeOK', job'.cmd \in {"none", "approve"}, before' = before, CandidateGone'
  PROVE  IInv'
BY DEF IInv, BaselineInv, ApplyInv, RollbackInv, SaveInv

\* As long as the devices stay, no other workflow state claims that the candidate is gone.
LEMMA StillGone ==
  ASSUME IInv, UNCHANGED <<run, start>>,
         \/ wf' = wf
         \/ wf' \notin {"rolled_back", "rollback_health_failed", "rolled_back_and_verified",
                        "qualification_save_running", "qualification_completed"}
         \/ /\ wf \in {"rolled_back", "rollback_health_failed", "rolled_back_and_verified"}
            /\ wf' \in {"rollback_health_failed", "rolled_back_and_verified"}
  PROVE  CandidateGone'
BY DEF IInv, CandidateGone

\* Health and the approval change no device; a workflow state that says so follows one
\* that said so before.
LEMMA HealthKeeps ==
  ASSUME Bounds, IInv,
         \/ BeginApprove \/ Approve \/ Collect \/ PublishAfter \/ Evaluate("evaluate")
         \/ Evaluate("recheck") \/ VerifyRollback \/ AcceptWarn \/ Reconcile
  PROVE  IInv'
<1>1. CASE BeginApprove \/ Approve
  <2>1. job' \in Jobs /\ job'.cmd \in {"none", "approve"}
    BY <1>1, NewJobs DEF BeginApprove, Approve, Done, Stages
  <2>2. TypeOK'
    BY <1>1, <2>1, TableStates
    DEF BeginApprove, Approve, IInv, TypeOK, Jobs, Stages, devices, evidence, records
  <2>3. CandidateGone'
    BY <1>1, StillGone, TableStates DEF BeginApprove, Approve, devices
  <2> QED
    BY <1>1, <2>1, <2>2, <2>3, IdleKeeps DEF BeginApprove, Approve, evidence
<1>2. CASE Collect \/ PublishAfter
  <2>1. TypeOK'
    <3>1. CASE Collect
      <4>1. run \in Snapshot
        BY DEF IInv, TypeOK, Snapshot
      <4> QED
        BY <3>1, <4>1 DEF Collect, IInv, TypeOK, devices, records
    <3>2. CASE PublishAfter
      <4>1. NoSnap \in Snapshot
        BY DEF NoSnap, Snapshot
      <4> QED
        BY <3>2, <4>1 DEF PublishAfter, IInv, TypeOK, devices, records
    <3> QED
      BY <1>2, <3>1, <3>2
  <2>2. CandidateGone'
    BY <1>2, StillGone DEF Collect, PublishAfter, devices
  <2> QED
    BY <1>2, <2>1, <2>2, IdleKeeps DEF Collect, PublishAfter, LockFree
<1>3. CASE Evaluate("evaluate") \/ Evaluate("recheck")
  <2>1. wf' \in {"after_completed", "rollback_required", "after_running", "health_failed"}
    BY <1>3 DEF Evaluate
  <2>2. TypeOK'
    <3>1. wf' \in WORKFLOW_STATES /\ evals' \subseteq {"evaluate", "recheck"}
      BY <1>3, <2>1 DEF Evaluate, IInv, TypeOK, WORKFLOW_STATES
    <3> QED
      BY <1>3, <3>1 DEF Evaluate, IInv, TypeOK, devices, records
  <2>3. CandidateGone'
    BY <1>3, <2>1, StillGone DEF Evaluate, devices
  <2> QED
    BY <1>3, <2>2, <2>3, IdleKeeps DEF Evaluate, LockFree
<1>4. CASE VerifyRollback
  <2>1. /\ wf \in {"rolled_back", "rollback_health_failed"}
        /\ verified' \in {"VERIFIED", "WARN", "FAILED"}
        /\ wf' \in {wf, "rollback_health_failed", "rolled_back_and_verified"}
    BY <1>4 DEF VerifyRollback
  <2>2. TypeOK'
    BY <1>4, <2>1
    DEF VerifyRollback, IInv, TypeOK, Snapshot, NoSnap, devices, records, WORKFLOW_STATES
  <2>3. CandidateGone'
    BY <1>4, <2>1, StillGone DEF VerifyRollback, devices
  <2> QED
    BY <1>4, <2>2, <2>3, IdleKeeps DEF VerifyRollback, LockFree
<1>5. CASE AcceptWarn \/ Reconcile
  <2>1. TypeOK'
    BY <1>5, TableStates DEF AcceptWarn, Reconcile, IInv, TypeOK, devices, records, evidence
  <2>2. CandidateGone'
    BY <1>5, StillGone, TableStates DEF AcceptWarn, Reconcile, devices
  <2>3. CASE AcceptWarn
    BY <2>1, <2>2, <2>3, IdleKeeps DEF AcceptWarn, LockFree, evidence
  <2>4. CASE Reconcile
    BY <2>1, <2>2, <2>4
    DEF Reconcile, devices, evidence, IInv, BaselineInv, ApplyInv, RollbackInv, SaveInv,
        Seen
  <2> QED
    BY <1>5, <2>3, <2>4
<1> QED
  BY <1>1, <1>2, <1>3, <1>4, <1>5

\* The session of a device ends: the next device, or the end of the command.
LEMMA Finished ==
  ASSUME Bounds, job \in Jobs, NEW r \in Results, FinishDevice(r)
  PROVE  /\ job' \in Jobs /\ job'.cmd = job.cmd /\ job'.begun = job.begun
         /\ job'.result = r
         /\ \/ /\ r = "SUCCESS" /\ job.i < N
               /\ job'.i = job.i + 1 /\ job'.stage = "precheck"
            \/ /\ r # "SUCCESS" \/ job.i = N
               /\ job'.i = job.i /\ job'.stage = "record"
<1>1. job.i \in Hosts /\ (job.i < N => job.i + 1 \in Hosts) /\ (~(job.i < N) => job.i = N)
  BY DEF Jobs, Hosts, Bounds
<1>2. CASE r = "SUCCESS" /\ job.i < N
  <2>1. job' = [job EXCEPT !.result = r, !.i = job.i + 1, !.stage = "precheck"]
    BY <1>2 DEF FinishDevice
  <2> QED
    BY <1>1, <1>2, <2>1 DEF Jobs, Stages
<1>3. CASE ~(r = "SUCCESS" /\ job.i < N)
  <2>1. job' = [job EXCEPT !.result = r, !.i = job.i, !.stage = "record"]
    BY <1>3 DEF FinishDevice
  <2> QED
    BY <1>1, <1>3, <2>1 DEF Jobs, Stages
<1> QED
  BY <1>2, <1>3

\* A session begins with the workflow that allows it, and no device behind it.
LEMMA BeginSessionKeeps ==
  ASSUME Bounds, IInv, BeginApply \/ BeginRollback PROVE IInv'
<1>1. /\ job' \in Jobs /\ job'.stage = "precheck" /\ job'.i = 1 /\ job'.begun = FALSE
      /\ \/ job'.cmd = "apply" /\ wf' = "approved"
         \/ job'.cmd = "rollback" /\ wf' = "rollback_required"
  BY NewJobs DEF BeginApply, BeginRollback, Stages
<1>2. /\ UNCHANGED <<devices, records, evidence, stale>>
      /\ wf' = wf \/ wf' = "rollback_required"
  BY DEF BeginApply, BeginRollback
<1>3. TypeOK'
  BY <1>1, <1>2 DEF IInv, TypeOK, Jobs, Stages, devices, records, evidence, WORKFLOW_STATES
<1>4. CandidateGone'
  BY <1>2, StillGone DEF devices
<1>5. BaselineInv'
  BY <1>2 DEF IInv, BaselineInv, evidence
<1>6. ApplyInv' /\ SaveInv'
  BY <1>1 DEF ApplyInv, SaveInv
<1>7. RollbackInv'
  BY <1>1 DEF RollbackInv, Hosts, Bounds
<1> QED
  BY <1>3, <1>4, <1>5, <1>6, <1>7 DEF IInv

\* Between commands a session changes no device.
LEMMA SessionKeeps ==
  ASSUME Bounds, IInv,
         \/ Refuse \/ Precheck \/ BeginCommands \/ MarkStarted \/ BeginLate \/ Record
         \/ ApplyResult \/ Escalate \/ RollbackResult
  PROVE  IInv'
<1>1. job \in Jobs /\ wf \in WORKFLOW_STATES
  BY DEF IInv, TypeOK, Jobs, Stages
<1>2. /\ job' \in Jobs /\ wf' \in WORKFLOW_STATES
      /\ \/ job'.cmd = "none"
         \/ job'.cmd = job.cmd /\ job'.i = job.i
  <2>1. CASE Refuse
    BY <1>1, <2>1, Finished DEF Refuse
  <2>2. CASE Precheck \/ MarkStarted \/ Record
    BY <1>1, <2>2 DEF Precheck, MarkStarted, Record, Goto, Jobs, Stages
  <2>3. CASE BeginCommands \/ BeginLate
    BY <1>1, <2>3, TableStates DEF BeginCommands, BeginLate, Jobs
  <2>4. CASE ApplyResult \/ Escalate \/ RollbackResult
    BY <1>1, <2>4, NewJobs, TableStates
    DEF ApplyResult, Escalate, RollbackResult, Goto, Done, Jobs, Stages
  <2> QED
    BY <2>1, <2>2, <2>3, <2>4
<1>3. UNCHANGED <<run, start, events, touched, evidence, record, stale>>
      /\ applied' \in BOOLEAN /\ restored' \in BOOLEAN /\ job.cmd \in {"apply", "rollback"}
  BY DEF Refuse, Precheck, BeginCommands, MarkStarted, BeginLate, Record, ApplyResult,
         Escalate, RollbackResult, devices, records, InSession, At, IInv, TypeOK
<1>4. TypeOK'
  BY <1>2, <1>3 DEF IInv, TypeOK, Jobs, Stages, evidence
<1>5. CandidateGone'
  <2>1. CASE RollbackResult /\ wf' = "rolled_back"
    BY <1>3, <2>1
    DEF RollbackResult, Outcome, At, ToWorkflow, IInv, RollbackInv, CandidateGone
  <2>2. CASE ~(RollbackResult /\ wf' = "rolled_back")
    <3>1. \/ wf' = wf
          \/ wf' \notin {"rolled_back", "rollback_health_failed",
                        "rolled_back_and_verified", "qualification_save_running",
                        "qualification_completed"}
      BY <2>2
      DEF Refuse, Precheck, BeginCommands, MarkStarted, BeginLate, Record, ApplyResult,
          Escalate, RollbackResult, ToWorkflow
    <3> QED
      BY <1>3, <3>1, StillGone
  <2> QED
    BY <2>1, <2>2
<1>6. BaselineInv' /\ before' = before
  BY <1>3 DEF IInv, BaselineInv, evidence
<1>7. ApplyInv'
  <2>1. CASE Refuse
    BY <1>1, <2>1, Finished DEF Refuse, InSession, IInv, ApplyInv, Results
  <2>2. CASE Precheck \/ MarkStarted \/ Record
    BY <1>1, <2>2
    DEF Precheck, MarkStarted, Record, InSession, Goto, IInv, ApplyInv, Jobs
  <2>3. CASE BeginCommands \/ BeginLate
    BY <1>1, <2>3
    DEF BeginCommands, BeginLate, InSession, At, ToWorkflow, IInv, ApplyInv, Jobs
  <2>4. CASE ApplyResult
    BY <1>1, <2>4 DEF ApplyResult, At, ToWorkflow, Goto, Done, NoJob, ApplyInv, Jobs
  <2>5. CASE Escalate \/ RollbackResult
    BY <2>5 DEF Escalate, RollbackResult, Done, NoJob, ApplyInv
  <2> QED
    BY <2>1, <2>2, <2>3, <2>4, <2>5
<1>8. RollbackInv'
  <2>1. CASE Refuse
    BY <1>1, <1>3, <2>1, Finished DEF Refuse, InSession, IInv, RollbackInv, Results
  <2>2. CASE Precheck \/ MarkStarted \/ Record
    BY <1>1, <1>3, <2>2
    DEF Precheck, MarkStarted, Record, InSession, Goto, IInv, RollbackInv, Jobs
  <2>3. CASE BeginCommands \/ BeginLate
    BY <1>1, <1>3, <2>3
    DEF BeginCommands, BeginLate, InSession, At, ToWorkflow, IInv, RollbackInv, Jobs
  <2>4. CASE ApplyResult \/ Escalate \/ RollbackResult
    BY <1>1, <2>4
    DEF ApplyResult, Escalate, RollbackResult, Goto, Done, NoJob, At, RollbackInv, Jobs
  <2> QED
    BY <2>1, <2>2, <2>3, <2>4
<1>9. SaveInv'
  BY <1>2, <1>3 DEF SaveInv
<1> QED
  BY <1>4, <1>5, <1>6, <1>7, <1>8, <1>9 DEF IInv

\* A sent command leaves the candidate or takes it away, in a state that says so.
LEMMA SendKeeps == ASSUME Bounds, IInv, Send PROVE IInv'
<1>1. PICK r \in Results, n \in {job.cmd = "apply", run[Current].own} :
        /\ r = "SUCCESS" => n = (job.cmd = "apply")
        /\ run' = [run EXCEPT ![Current].own = n]
        /\ FinishDevice(r)
  BY DEF Send
<1>2. /\ UNCHANGED <<start, events, touched, wf, records, evidence, stale>>
      /\ InSession("send") /\ job \in Jobs /\ run \in [Hosts -> Config]
  BY DEF Send, IInv, TypeOK, Jobs, Stages
<1>3. Current \in Hosts
  BY <1>2 DEF Current, Jobs, Hosts, Bounds
<1>4. n \in BOOLEAN
  BY <1>2, <1>3 DEF Config
<1> DEFINE c == [run[Current] EXCEPT !.own = n]
<1>5. c \in Config /\ c.own = n /\ run' = [run EXCEPT ![Current] = c]
  BY <1>1, <1>2, <1>3, <1>4 DEF Config
<1> HIDE DEF c
<1>6. /\ job' \in Jobs /\ job'.cmd = job.cmd /\ job'.begun = job.begun /\ job'.result = r
      /\ \/ /\ r = "SUCCESS" /\ job.i < N
            /\ job'.i = job.i + 1 /\ job'.stage = "precheck"
         \/ /\ r # "SUCCESS" \/ job.i = N
            /\ job'.i = job.i /\ job'.stage = "record"
  BY <1>1, <1>2, Finished
<1>7. TypeOK'
  BY <1>2, <1>3, <1>5, <1>6 DEF IInv, TypeOK, Jobs, Stages, records, evidence
<1>8. job.begun /\ wf \in {"apply_running", "rollback_running"}
  BY <1>2 DEF InSession, IInv, ApplyInv, RollbackInv
<1>9. BaselineInv' /\ ApplyInv' /\ CandidateGone' /\ SaveInv'
  BY <1>2, <1>6, <1>8 DEF evidence, InSession, IInv, BaselineInv, ApplyInv, CandidateGone,
                          SaveInv
<1>10. RollbackInv'
  <2> SUFFICES ASSUME job.cmd = "rollback" PROVE RollbackInv'
    BY <1>6 DEF RollbackInv
  <2>1. /\ Current = N + 1 - job.i /\ job.i \in 1 .. N
        /\ \A h \in Hosts : h > N + 1 - job.i => ~run[h].own
    BY <1>2 DEF Current, Jobs, Hosts, IInv, RollbackInv
  <2>2. ~run[Current].own => ~run'[Current].own
    BY <1>1, <1>2, <1>3, <1>5
  <2>3. r = "SUCCESS" => ~run'[Current].own
    BY <1>1, <1>2, <1>3, <1>5
  <2>4. \A h \in Hosts : h # Current => run'[h] = run[h]
    BY <1>2, <1>5
  <2>5. \A h \in Hosts : h > N + 1 - job.i => ~run'[h].own
    BY <2>1, <2>2, <2>4 DEF Hosts
  <2>6. r = "SUCCESS" => \A h \in Hosts : h > N + 1 - (job.i + 1) => ~run'[h].own
    BY <2>1, <2>3, <2>5 DEF Hosts, Bounds
  <2>7. r = "SUCCESS" /\ job.i = N => \A h \in Hosts : ~run'[h].own
    BY <2>1, <2>6 DEF Hosts, Bounds
  <2> QED
    BY <1>2, <1>6, <1>8, <2>5, <2>6, <2>7 DEF RollbackInv, IInv
<1> QED
  BY <1>7, <1>9, <1>10 DEF IInv

\* The save begins with nothing inspected.
LEMMA BeginSaveKeeps == ASSUME Bounds, IInv, BeginSave PROVE IInv'
<1>1. /\ job' \in Jobs /\ job'.cmd = "save" /\ job'.stage = "preflight" /\ job'.i = 1
      /\ job'.begun = FALSE
  BY NewJobs DEF BeginSave, Stages
<1>2. UNCHANGED <<devices, wf, records, evidence, stale>> /\ wf = "rolled_back_and_verified"
  BY DEF BeginSave
<1>3. TypeOK'
  BY <1>1, <1>2 DEF IInv, TypeOK, Jobs, Stages, devices, records, evidence
<1>4. CandidateGone'
  BY <1>2, StillGone DEF devices
<1>5. BaselineInv' /\ ApplyInv' /\ RollbackInv'
  BY <1>1, <1>2 DEF IInv, BaselineInv, ApplyInv, RollbackInv, evidence
<1>6. SaveInv'
  BY <1>1, <1>2 DEF SaveInv, Seen, Hosts
<1> QED
  BY <1>3, <1>4, <1>5, <1>6 DEF IInv

\* An inspection finds the baseline, in running and in startup.
LEMMA PreflightKeeps == ASSUME Bounds, IInv, Preflight PROVE IInv'
<1>1. job \in Jobs /\ job.cmd = "save" /\ job.stage = "preflight" /\ job.i \in 1 .. N
  BY DEF Preflight, At, IInv, TypeOK, Jobs, Stages, Hosts
<1>2. /\ job' \in Jobs /\ job'.cmd = "save" /\ job'.begun = job.begun
      /\ \/ job.i < N /\ job'.i = job.i + 1 /\ job'.stage = "preflight"
         \/ job.i = N /\ job'.i = 1 /\ job'.stage = "inspect"
  <2>1. CASE job.i < N
    <3>1. job' = [job EXCEPT !.i = job.i + 1] /\ job.i + 1 \in Hosts
      BY <1>1, <2>1 DEF Preflight, Hosts, Bounds
    <3> QED
      BY <1>1, <2>1, <3>1 DEF Jobs
  <2>2. CASE ~(job.i < N)
    <3>1. job' = [job EXCEPT !.i = 1, !.stage = "inspect"] /\ 1 \in Hosts /\ job.i = N
      BY <1>1, <2>2 DEF Preflight, Hosts, Bounds
    <3> QED
      BY <1>1, <3>1 DEF Jobs, Stages
  <2> QED
    BY <2>1, <2>2
<1>3. /\ UNCHANGED <<run, start, events, wf, records, evidence, stale>>
      /\ touched' = touched \ {job.i}
      /\ run[job.i] = before[job.i] /\ start[job.i] = before[job.i]
  BY DEF Preflight, Inspected
<1>4. TypeOK'
  BY <1>2, <1>3 DEF IInv, TypeOK, Jobs, Stages, records, evidence
<1>5. CandidateGone'
  BY <1>3, StillGone
<1>6. BaselineInv' /\ ApplyInv' /\ RollbackInv'
  BY <1>2, <1>3 DEF IInv, BaselineInv, ApplyInv, RollbackInv, evidence
<1>7. SaveInv'
  <2>1. \A h \in Hosts : h < job.i => Seen(h)
    BY <1>1 DEF Seen
  <2>2. ~start[job.i].own
    BY <1>1, <1>3 DEF IInv, BaselineInv, Hosts
  <2>3. \A h \in Hosts : h < job.i \/ h = job.i =>
          /\ ~start[h].own
          /\ h \notin touched' => run[h] = before[h] /\ start[h] = before[h]
    BY <1>1, <1>3, <2>1, <2>2 DEF IInv, SaveInv
  <2>4. \A h \in Hosts : Seen(h)' => h < job.i \/ h = job.i
    BY <1>1, <1>2 DEF Seen, Hosts
  <2> QED
    BY <1>1, <1>2, <1>3, <2>3, <2>4 DEF SaveInv, IInv, evidence
<1> QED
  BY <1>4, <1>5, <1>6, <1>7 DEF IInv

\* The other steps of the save look at a device, or give up.
LEMMA SaveKeeps ==
  ASSUME Bounds, IInv, Inspect \/ SaveFails \/ BeginCopies \/ MarkSave \/ PostDiff
  PROVE  IInv'
<1>1. job \in Jobs /\ job.cmd = "save" /\ wf \in WORKFLOW_STATES /\ job.i \in 1 .. N
  BY DEF Inspect, SaveFails, BeginCopies, MarkSave, PostDiff, At, IInv, TypeOK, Jobs,
         Stages, Hosts
<1>2. /\ job' \in Jobs /\ job'.cmd = "save"
      /\ \/ job.stage \in {"inspect", "begin"} /\ job'.stage \in {"begin", "copy"}
         \/ job.stage = "postdiff" /\ job'.stage = "inspect"
         \/ job'.stage = "finish"
      /\ IF BeginCopies THEN job'.begun = TRUE ELSE job'.begun = job.begun
      /\ job'.stage \in {"copy", "postdiff"} => job'.begun
  <2>1. CASE Inspect
    <3>1. job' = [job EXCEPT !.stage = "begin"] /\ job.stage = "inspect" /\ ~BeginCopies
      BY <2>1 DEF Inspect, BeginCopies, At, Goto
    <3> QED
      BY <1>1, <3>1 DEF Jobs, Stages
  <2>4. CASE SaveFails
    <3>1. job' = [job EXCEPT !.result = "FAILED", !.stage = "finish"] /\ ~BeginCopies
      BY <2>4 DEF SaveFails, BeginCopies, At
    <3> QED
      BY <1>1, <3>1 DEF Jobs, Stages, Results
  <2>5. CASE MarkSave
    <3>1. /\ job' = [job EXCEPT !.marked = TRUE, !.stage = "copy"]
          /\ job.stage = "begin" /\ job.begun /\ ~BeginCopies
      BY <2>5 DEF MarkSave, BeginCopies, At
    <3> QED
      BY <1>1, <3>1 DEF Jobs, Stages
  <2>2. CASE BeginCopies
    BY <1>1, <2>2 DEF BeginCopies, At, Jobs, Stages
  <2>3. CASE PostDiff
    <3>1. job.i < N => job.i + 1 \in Hosts
      BY <1>1 DEF Hosts, Bounds
    <3>2. /\ job.stage = "postdiff" /\ ~BeginCopies
          /\ \/ job.i < N /\ job' = [job EXCEPT !.i = job.i + 1, !.stage = "inspect"]
             \/ job' = [job EXCEPT !.stage = "finish"]
             \/ job' = [job EXCEPT !.result = "FAILED", !.stage = "finish"]
      BY <2>3 DEF PostDiff, BeginCopies, At
    <3>3. CASE job.i < N /\ job' = [job EXCEPT !.i = job.i + 1, !.stage = "inspect"]
      BY <1>1, <3>1, <3>2, <3>3 DEF Jobs, Stages
    <3>4. CASE job' = [job EXCEPT !.stage = "finish"]
      BY <1>1, <3>2, <3>4 DEF Jobs, Stages
    <3>5. CASE job' = [job EXCEPT !.result = "FAILED", !.stage = "finish"]
      BY <1>1, <3>2, <3>5 DEF Jobs, Stages, Results
    <3> QED
      BY <3>2, <3>3, <3>4, <3>5
  <2> QED
    BY <2>1, <2>2, <2>3, <2>4, <2>5
<1>3. /\ UNCHANGED <<devices, records, evidence, stale>>
      /\ IF BeginCopies THEN ToWorkflow("qualification_save_running") /\ ~job.begun
         ELSE wf' = wf
  BY DEF Inspect, SaveFails, BeginCopies, MarkSave, PostDiff
<1>4. TypeOK'
  BY <1>1, <1>2, <1>3, TableStates
  DEF IInv, TypeOK, Jobs, Stages, devices, records, evidence
<1>5. BaselineInv' /\ ApplyInv' /\ RollbackInv'
  BY <1>2, <1>3 DEF IInv, BaselineInv, ApplyInv, RollbackInv, evidence
<1>6. \A h \in Hosts : Seen(h)' => Seen(h)
  BY <1>2 DEF Seen
<1>7. wf' = IF job'.begun THEN "qualification_save_running" ELSE "rolled_back_and_verified"
  BY <1>1, <1>2, <1>3 DEF ToWorkflow, IInv, SaveInv
<1>8. SaveInv'
  BY <1>1, <1>2, <1>3, <1>6, <1>7 DEF IInv, SaveInv, devices, evidence
<1>9. CandidateGone'
  <2>1. CASE ~BeginCopies
    BY <1>3, <2>1, StillGone DEF devices
  <2>2. CASE BeginCopies
    <3>1. \A h \in Hosts : Seen(h)
      BY <2>2 DEF BeginCopies, At, Seen
    <3> QED
      BY <1>1, <1>3, <2>2, <3>1 DEF devices, IInv, SaveInv, CandidateGone, ToWorkflow
  <2> QED
    BY <2>1, <2>2
<1> QED
  BY <1>4, <1>5, <1>8, <1>9 DEF IInv

\* A copy saves what has no candidate.
LEMMA CopyKeeps == ASSUME Bounds, IInv, Copy PROVE IInv'
<1>1. /\ job \in Jobs /\ job.cmd = "save" /\ job.stage = "copy" /\ job.i \in Hosts
      /\ run \in [Hosts -> Config] /\ start \in [Hosts -> Config]
  BY DEF Copy, At, IInv, TypeOK, Jobs, Stages
<1>2. /\ UNCHANGED <<run, events, touched, wf, records, evidence, stale>>
      /\ start' = [start EXCEPT ![job.i] = run[job.i]] \/ start' = start
      /\ job' \in Jobs /\ job'.cmd = "save" /\ job'.begun = job.begun
      /\ job'.stage \in {"postdiff", "finish"}
  BY <1>1 DEF Copy, Jobs, Stages
<1>3. /\ start' \in [Hosts -> Config]
      /\ \A h \in Hosts : start'[h] = start[h] \/ start'[h] = run[h]
  BY <1>1, <1>2
<1>4. TypeOK'
  BY <1>2, <1>3 DEF IInv, TypeOK, Jobs, Stages, records, evidence
<1>5. BaselineInv' /\ ApplyInv' /\ RollbackInv'
  BY <1>2 DEF IInv, BaselineInv, ApplyInv, RollbackInv, evidence
<1>6. job.begun /\ wf = "qualification_save_running"
  BY <1>1 DEF IInv, SaveInv
<1>7. CandidateGone'
  BY <1>2, <1>3, <1>6 DEF IInv, CandidateGone
<1>8. \A h \in Hosts : Seen(h)
  BY <1>1 DEF Seen
<1>9. SaveInv'
  BY <1>1, <1>2, <1>3, <1>6, <1>7, <1>8 DEF IInv, SaveInv, CandidateGone, evidence
<1> QED
  BY <1>4, <1>5, <1>7, <1>9 DEF IInv

\* A command that ends, or is cut off, claims nothing new but a save that has begun.
LEMMA EndKeeps ==
  ASSUME Bounds, IInv, FinishSave \/ Crash \/ Signal PROVE IInv'
<1>1. /\ job' \in Jobs /\ job'.cmd = "none"
      /\ UNCHANGED <<run, start, touched, evidence, records>>
  BY NewJobs DEF FinishSave, Crash, Signal, Fault, Done, devices
<1>2. wf \in WORKFLOW_STATES /\ wf' \in WORKFLOW_STATES
  BY TableStates DEF FinishSave, Crash, Signal, IInv, TypeOK, WORKFLOW_STATES
<1>3. events' \in 0 .. MaxEvents /\ stale' \in BOOLEAN
  <2>1. events \in 0 .. MaxEvents /\ stale \in BOOLEAN
    BY DEF IInv, TypeOK
  <2>2. CASE FinishSave
    BY <2>1, <2>2 DEF FinishSave, devices
  <2>3. CASE Crash \/ Signal
    <3>1. events < MaxEvents /\ events' = events + 1
      BY <2>3 DEF Crash, Signal, Fault, Event
    <3>2. stale' = TRUE \/ stale' = stale
      BY <2>3 DEF Crash, Signal
    <3>3. events' \in 0 .. MaxEvents
      BY <2>1, <3>1 DEF Bounds
    <3> QED
      BY <2>1, <3>2, <3>3
  <2> QED
    BY <2>2, <2>3
<1>4. TypeOK'
  BY <1>1, <1>2, <1>3 DEF IInv, TypeOK, Jobs, Stages, records, evidence
<1>5. CandidateGone'
  <2>1. CASE FinishSave
    BY <1>1, <2>1 DEF FinishSave, At, ToWorkflow, IInv, SaveInv, CandidateGone
  <2>2. CASE Crash \/ Signal
    <3>1. wf' = wf \/ wf' \in {"device_state_unknown", "rollback_required"}
      BY <2>2 DEF Crash, Signal
    <3> QED
      BY <1>1, <3>1, StillGone
  <2> QED
    BY <2>1, <2>2
<1> QED
  BY <1>1, <1>4, <1>5, IdleKeeps DEF evidence

-----------------------------------------------------------------------------
(* What it is for                                                          *)

\* At the start there is no candidate.
LEMMA Beginning == ASSUME Bounds, Init PROVE IInv
<1>1. \A o \in {0, 1} : [own |-> FALSE, other |-> o] \in Config
  BY DEF Config, Bounds
<1>2. run \in [Hosts -> Config] /\ start \in [Hosts -> Config]
  <2> PICK L \in SUBSET Lagging :
        start = [h \in Hosts |-> [own |-> FALSE, other |-> IF h \in L THEN 0 ELSE 1]]
    BY DEF Init
  <2> QED
    BY <1>1 DEF Init
<1>3. NoJob \in Jobs /\ NoJob.cmd = "none" /\ NoSnap \in Snapshot
  BY NewJobs DEF NoSnap, Snapshot
<1>4. TypeOK
  <2>1. events \in 0 .. MaxEvents /\ touched \subseteq Hosts
    BY DEF Init, Bounds
  <2>2. wf \in WORKFLOW_STATES /\ record \in {"none", "valid", "expired"}
    BY DEF Init, WORKFLOW_STATES
  <2>3. after \in [of : Snapshot, fresh : BOOLEAN] /\ raw \in Snapshot
    BY <1>3 DEF Init
  <2>4. before \in [Hosts -> Config] /\ job \in Jobs
    BY <1>2, <1>3 DEF Init
  <2>5. /\ evals \subseteq {"evaluate", "recheck"} /\ applied \in BOOLEAN
        /\ restored \in BOOLEAN /\ stale \in BOOLEAN
        /\ verified \in {"none", "VERIFIED", "WARN", "FAILED"}
    BY DEF Init
  <2> QED
    BY <1>2, <2>1, <2>2, <2>3, <2>4, <2>5 DEF TypeOK, Jobs, Stages
<1> QED
  BY <1>3, <1>4 DEF Init, IInv, BaselineInv, ApplyInv, RollbackInv, SaveInv, CandidateGone

\* Every step preserves the invariant.
LEMMA Stepping == ASSUME Bounds, IInv, [Next]_vars PROVE IInv'
<1>1. CASE UNCHANGED vars
  BY <1>1 DEF vars, IInv, TypeOK, BaselineInv, ApplyInv, RollbackInv, SaveInv, Seen,
              CandidateGone
<1>2. CASE (\E h \in Hosts : Edit(h) \/ SaveByHand(h) \/ Capture(h)) \/ Expire
  <2>1. 1 \in Hosts
    BY DEF Hosts, Bounds
  <2> QED
    BY <1>2, <2>1, PeopleKeep
<1>3. CASE \/ BeginApprove \/ Approve \/ Collect \/ PublishAfter \/ Evaluate("evaluate")
           \/ Evaluate("recheck") \/ VerifyRollback \/ AcceptWarn \/ Reconcile
  BY <1>3, HealthKeeps
<1>4. CASE BeginApply \/ BeginRollback
  BY <1>4, BeginSessionKeeps
<1>5. CASE \/ Refuse \/ Precheck \/ BeginCommands \/ MarkStarted \/ BeginLate \/ Record
           \/ ApplyResult \/ Escalate \/ RollbackResult
  BY <1>5, SessionKeeps
<1>6. CASE Send
  BY <1>6, SendKeeps
<1>7. CASE BeginSave \/ Preflight \/ Copy
  BY <1>7, BeginSaveKeeps, PreflightKeeps, CopyKeeps
<1>8. CASE Inspect \/ SaveFails \/ BeginCopies \/ MarkSave \/ PostDiff
  BY <1>8, SaveKeeps
<1>9. CASE FinishSave \/ Crash \/ Signal
  BY <1>9, EndKeeps
<1> QED
  BY <1>1, <1>2, <1>3, <1>4, <1>5, <1>6, <1>7, <1>8, <1>9 DEF Next

\* The invariant, of any number of devices.
THEOREM Inductive ==
  ASSUME Bounds
  PROVE  Spec => []IInv
BY Beginning, Stepping, PTL DEF Spec

\* Every variable has its type.
THEOREM TypeCorrect ==
  ASSUME Bounds
  PROVE  Spec => []TypeOK
<1>1. IInv => TypeOK
  BY DEF IInv
<1> QED
  BY <1>1, Inductive, PTL

\* CandidateGone, of any number of devices: qualify-rollback and the baseline save leave
\* no candidate, whoever saved it by hand.
THEOREM Gone ==
  ASSUME Bounds
  PROVE  Spec => []CandidateGone
<1>1. IInv => CandidateGone
  BY DEF IInv
<1> QED
  BY <1>1, Inductive, PTL

\* SaveKeepsBaseline, of any number of devices: qualify-save-baseline writes what before
\* has, on a fleet that has it.
THEOREM BaselineKept ==
  ASSUME Bounds
  PROVE  Spec => SaveKeepsBaseline
<1>1. ASSUME IInv, [Next]_vars, At("save", "copy"), job'.stage \in {"postdiff", "finish"}
      PROVE  \A h \in Hosts \ touched : run[h] = before[h] /\ start'[h] = before[h]
  <2>1. \A h \in Hosts \ touched : run[h] = before[h] /\ start[h] = before[h]
    BY <1>1 DEF At, IInv, SaveInv, Seen
  <2>2. \A h \in Hosts : start'[h] = start[h] \/ start'[h] = run[h]
    <3>1. start \in [Hosts -> Config]
      BY <1>1 DEF IInv, TypeOK
    <3>2. CASE Copy
      BY <3>1, <3>2 DEF Copy
    <3>3. CASE \E h \in Hosts : SaveByHand(h)
      BY <3>1, <3>3 DEF SaveByHand
    <3>4. CASE ~Copy /\ ~\E h \in Hosts : SaveByHand(h)
      BY <1>1, <3>4
      DEF Next, vars, Edit, Capture, Expire, BeginApprove, Approve, BeginApply,
          BeginRollback, Refuse, Precheck, BeginCommands, MarkStarted, Send, BeginLate,
          Record, ApplyResult, Escalate, RollbackResult, Collect, PublishAfter, Evaluate,
          VerifyRollback, AcceptWarn, BeginSave, Preflight, Inspect, SaveFails, BeginCopies,
          MarkSave, PostDiff, FinishSave, Crash, Reconcile, Signal, devices
    <3> QED
      BY <3>2, <3>3, <3>4
  <2> QED
    BY <2>1, <2>2
<1>2. IInv /\ [Next]_vars =>
        [At("save", "copy") /\ job'.stage \in {"postdiff", "finish"} =>
           \A h \in Hosts \ touched : run[h] = before[h] /\ start'[h] = before[h]]_vars
  BY <1>1
<1> QED
  BY <1>2, Inductive, PTL DEF Spec, SaveKeepsBaseline
================================================================================
