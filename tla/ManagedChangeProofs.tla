------------------------- MODULE ManagedChangeProofs -------------------------
(***************************************************************************)
(* Proofs about ManagedChange, for any number of devices and of commands,  *)
(* any number of faults and hand edits, and any set of events.             *)
(***************************************************************************)
EXTENDS ManagedChange, TLAPS

-----------------------------------------------------------------------------
(* Lemmas about the parts of a state                                       *)

\* A workflow transition stays within the states, and none leads back to a
\* state in which no device has been touched.
LEMMA WorkflowTable ==
  \A a, b : <<a, b>> \in WORKFLOW_TRANSITIONS =>
    /\ b \in WORKFLOW_STATES
    /\ b \in PRE_APPLY_CLOSABLE_WORKFLOW_STATES =>
         a \in PRE_APPLY_CLOSABLE_WORKFLOW_STATES
BY DEF WORKFLOW_TRANSITIONS, WORKFLOW_STATES, PRE_APPLY_CLOSABLE_WORKFLOW_STATES

\* An empty Snapshot is one.
LEMMA NoneIsSnapshot == NoSnap \in Snapshot /\ None \in Config \cup {None}
BY DEF NoSnap, Snapshot

\* The configurations of all devices make a Snapshot.
LEMMA ConfigIsSnapshot == \A f \in [Hosts -> Config] : f \in Snapshot
BY DEF Snapshot

\* There is a first device and a first command.
LEMMA FirstOfEach == 1 \in Hosts /\ 1 \in Steps
BY NAssumption, CAssumption DEF Hosts, Steps

\* The four ways a job begins, moves, finishes a device and ends keep its type.
LEMMA NoJobIsJob == NoJob \in Job
BY FirstOfEach, NoneIsSnapshot
   DEF NoJob, Job, Commands, Stages, DeviceStatus, Diffs

\* The device a job works on is one of the plan.
LEMMA CurrentIsHost == job \in Job => Current \in Hosts
BY NAssumption DEF Current, Hosts, Job

\* Taking the lock for a command begins a job.
LEMMA TakeKeepsJob ==
  \A cmd \in Commands, stage \in Stages : Take(cmd, stage) => job' \in Job
BY NoJobIsJob DEF Take, Job

\* Going to the next stage.
LEMMA GotoKeepsJob ==
  \A stage \in Stages : job \in Job /\ Goto(stage) => job' \in Job
BY DEF Goto, Job

\* The loop over the devices stays within the plan.
LEMMA NextIsHost == \A i \in Hosts : i < N => i + 1 \in Hosts
BY NAssumption DEF Hosts

\* Finishing a device.
LEMMA FinishKeepsJob ==
  \A status \in DeviceStatus, stage \in Stages :
    job \in Job /\ FinishDevice(status, stage) => job' \in Job
<1> SUFFICES ASSUME NEW status \in DeviceStatus, NEW stage \in Stages,
                    job \in Job, FinishDevice(status, stage)
             PROVE  job' \in Job
  OBVIOUS
<1> DEFINE i == IF status = "SUCCESS" /\ job.i < N THEN job.i + 1 ELSE job.i
           s == IF status = "SUCCESS" /\ job.i < N THEN stage ELSE "finish"
           dev == [job.dev EXCEPT ![Current] = status]
<1>1. job' = [job EXCEPT !.dev = dev, !.i = i, !.k = 1, !.stage = s]
  BY DEF FinishDevice, Job
<1>2. i \in Hosts
  BY NextIsHost DEF Job
<1>3. s \in Stages
  BY DEF Stages
<1>4. dev \in [Hosts -> DeviceStatus]
  BY DEF Job
<1> HIDE DEF i, s, dev
<1> QED
  BY <1>1, <1>2, <1>3, <1>4, FirstOfEach DEF Job

\* Ending the job.
LEMMA DoneKeepsJob == Done => job' \in Job
BY NoJobIsJob DEF Done

\* What an action leaves alone keeps its type.
LEMMA KeepDevices == DevicesOK /\ UNCHANGED devices => DevicesOK'
BY DEF DevicesOK, devices

\* The records likewise.
LEMMA KeepRecords == RecordsOK /\ UNCHANGED records => RecordsOK'
BY DEF RecordsOK, records

\* The evidence likewise.
LEMMA KeepEvidence == EvidenceOK /\ UNCHANGED evidence => EvidenceOK'
BY DEF EvidenceOK, evidence

-----------------------------------------------------------------------------
(* Type correctness                                                        *)

\* An evaluation that has judged is still a job.
LEMMA JudgedKeepsJob ==
  \A b \in BOOLEAN :
    job \in Job => [job EXCEPT !.stage = "result", !.ok = b] \in Job
BY DEF Job, Stages

\* The loop over the commands stays within the plan.
LEMMA NextCommandKeepsJob ==
  job \in Job /\ job.k < C => [job EXCEPT !.k = job.k + 1] \in Job
BY CAssumption DEF Job, Steps

\* A job that begins with its workflow state already set.
LEMMA BegunIsJob ==
  \A cmd \in Commands, s \in Stages, b \in BOOLEAN :
    [NoJob EXCEPT !.cmd = cmd, !.stage = s, !.begun = b] \in Job
BY NoJobIsJob DEF Job

\* What a command leaves on a device is a configuration.
LEMMA EffectIsConfig ==
  \A cmd \in Sessions, c \in Config, k \in Steps : Effect(cmd, c, k) \in Config
BY DEF Effect, Config

\* Whatever step a command takes.
LEMMA StepKeepsTypes == TypeOK /\ (Step) => TypeOK'
<1> SUFFICES ASSUME TypeOK, Step PROVE TypeOK'
  OBVIOUS
<1>t. /\ DevicesOK /\ RecordsOK /\ EvidenceOK
     /\ wf \in WORKFLOW_STATES /\ life \in OPERATION_STATES
     /\ job \in Job /\ stale \in BOOLEAN /\ closing \in BOOLEAN
  BY DEF TypeOK
<1> USE DEF TypeOK
<1>1. CASE Plan
  BY <1>t, KeepDevices, KeepRecords, KeepEvidence, <1>1, WorkflowTable, GotoKeepsJob,
     DoneKeepsJob
     DEF Plan, At, ToWorkflow, Stages
<1>2. CASE Approve
  BY <1>t, KeepDevices, KeepRecords, KeepEvidence, <1>2, WorkflowTable, GotoKeepsJob,
     DoneKeepsJob
     DEF Approve, ToWorkflow
<1>3. CASE Judge
  <2>1. EvidenceOK'
    BY <1>t, <1>3 DEF Judge, EvidenceOK
  <2>2. job' \in Job
    BY <1>t, <1>3, JudgedKeepsJob, DoneKeepsJob DEF Judge
  <2> QED
    BY <1>t, <1>3, <2>1, <2>2, KeepDevices, KeepRecords DEF Judge
<1>4. CASE JudgeFails
  BY <1>t, KeepDevices, KeepRecords, KeepEvidence, <1>4, DoneKeepsJob
     DEF JudgeFails, Job, Stages
<1>5. CASE EvaluateResult
  BY <1>t, KeepDevices, KeepRecords, KeepEvidence, <1>5, WorkflowTable, GotoKeepsJob,
     DoneKeepsJob
     DEF EvaluateResult, ToWorkflow, Stages
<1>6. CASE RefuseDevice
  <2>1. job' \in Job
    <3> DEFINE dev == [job.dev EXCEPT ![Current] = "FAILED"]
               pre == [job.pre EXCEPT ![Current] = "dirty"]
    <3>1. dev \in [Hosts -> DeviceStatus] /\ pre \in [Hosts -> Diffs]
      BY <1>t DEF Job, DeviceStatus, Diffs
    <3>2. CASE \E s \in {"FAILED", "UNKNOWN"} : FinishDevice(s, "connect")
      BY <1>t, <3>2, FinishKeepsJob DEF Stages, DeviceStatus
    <3>3. CASE job' = [job EXCEPT !.dev = dev, !.pre = pre, !.stage = "finish"]
      <4> HIDE DEF dev, pre
      <4> QED
        BY <1>t, <3>1, <3>3 DEF Job, Stages
    <3> QED
      BY <1>t, <1>6, <3>2, <3>3 DEF RefuseDevice, Job
  <2> QED
    BY <1>t, <1>6, <2>1, KeepDevices, KeepRecords, KeepEvidence DEF RefuseDevice
<1>7. CASE AcceptDevice
  <2>1. job' \in Job
    <3> DEFINE pre == [job.pre EXCEPT ![Current] = "clean"]
    <3>1. pre \in [Hosts -> Diffs]
      BY <1>t DEF Job, Diffs
    <3>2. CASE Goto("begin")
      BY <1>t, <3>2, GotoKeepsJob DEF Stages
    <3>3. CASE job' = [job EXCEPT !.pre = pre, !.stage = "begin"]
      <4> HIDE DEF pre
      <4> QED
        BY <1>t, <3>1, <3>3 DEF Job, Stages
    <3> QED
      BY <1>t, <1>7, <3>2, <3>3 DEF AcceptDevice, Job
  <2> QED
    BY <1>t, <1>7, <2>1, KeepDevices, KeepRecords, KeepEvidence DEF AcceptDevice
<1>8. CASE BeginCommands
  BY <1>t, KeepDevices, KeepRecords, KeepEvidence, <1>8, WorkflowTable
     DEF BeginCommands, ToWorkflow, Job
<1>9. CASE MarkStarted
  BY <1>t, KeepDevices, KeepRecords, KeepEvidence, <1>9
     DEF MarkStarted, Job, Stages
<1>10. CASE SendCommand
  <2>1. DevicesOK'
    BY <1>t, <1>10, CurrentIsHost, EffectIsConfig
       DEF SendCommand, DevicesOK, AtAny, Job
  <2>2. job' \in Job
    BY <1>t, <1>10, FinishKeepsJob, NextCommandKeepsJob
       DEF SendCommand, Stages, DeviceStatus
  <2> QED
    BY <1>t, <1>10, <2>1, <2>2, KeepRecords, KeepEvidence DEF SendCommand
<1>11. CASE RecordExecution
  BY <1>t, KeepDevices, KeepEvidence, <1>11, GotoKeepsJob, DoneKeepsJob
     DEF RecordExecution, RecordsOK, Stages, Job
<1>12. CASE SessionResult
  BY <1>t, KeepDevices, KeepRecords, KeepEvidence, <1>12, WorkflowTable, GotoKeepsJob,
     DoneKeepsJob
     DEF SessionResult, ToWorkflow, Stages
<1>13. CASE Escalate
  BY <1>t, KeepDevices, KeepRecords, KeepEvidence, <1>13, WorkflowTable, GotoKeepsJob,
     DoneKeepsJob
     DEF Escalate, ToWorkflow
<1>14. CASE Inspect
  BY <1>t, KeepDevices, KeepRecords, KeepEvidence, <1>14, NextIsHost, FirstOfEach
     DEF Inspect, Job, Stages
<1>15. CASE InspectFails
  BY <1>t, KeepDevices, KeepRecords, KeepEvidence, <1>15, FinishKeepsJob
     DEF InspectFails, Stages, DeviceStatus
<1>16. CASE Reinspect
  BY <1>t, KeepDevices, KeepRecords, KeepEvidence, <1>16
     DEF Reinspect, Job, Stages
<1>17. CASE CopyConfig
  BY <1>t, KeepRecords, KeepEvidence, <1>17, FinishKeepsJob, GotoKeepsJob
     DEF CopyConfig, Stages, DeviceStatus, DevicesOK
<1>18. CASE PostDiff
  BY <1>t, KeepDevices, KeepRecords, KeepEvidence, <1>18, FinishKeepsJob
     DEF PostDiff, Stages, DeviceStatus
<1>19. CASE RecordSave
  BY <1>t, KeepDevices, KeepEvidence, <1>19, GotoKeepsJob, DoneKeepsJob
     DEF RecordSave, RecordsOK, Stages, Job
<1>20. CASE SaveResult
  BY <1>t, KeepDevices, KeepRecords, KeepEvidence, <1>20, WorkflowTable, GotoKeepsJob,
     DoneKeepsJob
     DEF SaveResult, ToWorkflow, Stages
<1>21. CASE CompleteLifecycle
  BY <1>t, KeepDevices, KeepRecords, KeepEvidence, <1>21, WorkflowTable, GotoKeepsJob,
     DoneKeepsJob
     DEF CompleteLifecycle, OPERATION_STATES
<1>22. CASE Accept
  BY <1>t, KeepDevices, KeepRecords, KeepEvidence, <1>22, WorkflowTable, GotoKeepsJob,
     DoneKeepsJob
     DEF Accept, ToWorkflow
<1> QED
  BY <1>1, <1>2, <1>3, <1>4, <1>5, <1>6, <1>7, <1>8, <1>9, <1>10, <1>11, <1>12, <1>13,
     <1>14, <1>15, <1>16, <1>17, <1>18, <1>19, <1>20, <1>21, <1>22
     DEF Step

\* Whatever is asked for.
LEMMA RequestKeepsTypes == TypeOK /\ (Request) => TypeOK'
<1> SUFFICES ASSUME TypeOK, Request PROVE TypeOK'
  OBVIOUS
<1>t. /\ DevicesOK /\ RecordsOK /\ EvidenceOK
     /\ wf \in WORKFLOW_STATES /\ life \in OPERATION_STATES
     /\ job \in Job /\ stale \in BOOLEAN /\ closing \in BOOLEAN
  BY DEF TypeOK
<1> USE DEF TypeOK
<1>1. CASE Collect
  BY <1>t, KeepDevices, KeepRecords, <1>1, ConfigIsSnapshot
     DEF Collect, EvidenceOK, DevicesOK
<1>2. CASE PublishBefore
  BY <1>t, KeepDevices, KeepRecords, <1>2, NoneIsSnapshot
     DEF PublishBefore, EvidenceOK, OPERATION_STATES
<1>3. CASE BeginPlan
  BY <1>t, KeepDevices, KeepEvidence, <1>3, TakeKeepsJob
     DEF BeginPlan, RecordsOK, OPERATION_STATES, Commands, Stages
<1>4. CASE BeginApprove
  BY <1>t, KeepDevices, KeepEvidence, <1>4, TakeKeepsJob, OfferedAssumption
     DEF BeginApprove, RecordsOK, Policies, Commands, Stages
<1>5. CASE BeginApply
  BY <1>t, KeepDevices, KeepRecords, KeepEvidence, <1>5, TakeKeepsJob
     DEF BeginApply, Commands, Stages, Guarded, Sessions
<1>6. CASE PublishAfter
  BY <1>t, KeepDevices, KeepRecords, <1>6, NoneIsSnapshot
     DEF PublishAfter, EvidenceOK, Resumed, OPERATION_STATES
<1>7. CASE Compare("first")
  BY <1>t, KeepDevices, KeepRecords, <1>7
     DEF Compare, EvidenceOK, OPERATION_STATES
<1>8. CASE Compare("again")
  BY <1>t, KeepDevices, KeepRecords, <1>8
     DEF Compare, EvidenceOK, OPERATION_STATES
<1>9. CASE BeginEvaluate("evaluate")
  <2>1. job' \in Job
    BY <1>9, BegunIsJob DEF BeginEvaluate, Commands, Stages
  <2>2. EvidenceOK'
    BY <1>t, <1>9 DEF BeginEvaluate, EvidenceOK
  <2>3. wf' \in WORKFLOW_STATES
    BY <1>t, <1>9 DEF BeginEvaluate, WORKFLOW_STATES
  <2> QED
    BY <1>t, <1>9, <2>1, <2>2, <2>3, KeepDevices, KeepRecords DEF BeginEvaluate
<1>10. CASE BeginEvaluate("recheck")
  <2>1. job' \in Job
    BY <1>10, BegunIsJob DEF BeginEvaluate, Commands, Stages
  <2>2. EvidenceOK'
    BY <1>t, <1>10 DEF BeginEvaluate, EvidenceOK
  <2>3. wf' \in WORKFLOW_STATES
    BY <1>t, <1>10 DEF BeginEvaluate, WORKFLOW_STATES
  <2> QED
    BY <1>t, <1>10, <2>1, <2>2, <2>3, KeepDevices, KeepRecords DEF BeginEvaluate
<1>11. CASE BeginSave("save")
  BY <1>t, KeepDevices, KeepRecords, KeepEvidence, <1>11, NoJobIsJob, WorkflowTable
     DEF BeginSave, ToWorkflow, EvidenceOK, Job, Commands, Stages, Guarded, Saves
<1>12. CASE BeginSave("save_rollback")
  BY <1>t, KeepDevices, KeepRecords, KeepEvidence, <1>12, NoJobIsJob, WorkflowTable
     DEF BeginSave, ToWorkflow, EvidenceOK, Job, Commands, Stages, Guarded, Saves
<1>13. CASE BeginRollback
  BY <1>t, KeepDevices, KeepRecords, KeepEvidence, <1>13, TakeKeepsJob
     DEF BeginRollback, Commands, Stages, Guarded, Sessions, WORKFLOW_STATES
<1>14. CASE VerifyRollback
  BY <1>t, KeepDevices, KeepRecords, <1>14, NoneIsSnapshot
     DEF VerifyRollback, EvidenceOK, Resumed, OPERATION_STATES
<1>15. CASE PublishRollback
  BY <1>t, KeepDevices, KeepRecords, <1>15
     DEF PublishRollback, EvidenceOK
<1>16. CASE ConcludeRollback
  BY <1>t, KeepDevices, KeepRecords, <1>16, NoneIsSnapshot
     DEF ConcludeRollback, EvidenceOK, NoVerdict, WORKFLOW_STATES
<1>17. CASE AbandonRollback
  BY <1>t, KeepDevices, KeepRecords, <1>17, NoneIsSnapshot
     DEF AbandonRollback, EvidenceOK, NoVerdict
<1>18. CASE BeginAccept
  BY <1>t, KeepDevices, KeepRecords, <1>18, TakeKeepsJob
     DEF BeginAccept, EvidenceOK, Commands, Stages
<1>19. CASE CheckClose
  BY <1>t, KeepDevices, KeepRecords, KeepEvidence, <1>19
     DEF CheckClose
<1>20. CASE Close
  BY <1>t, KeepDevices, KeepRecords, KeepEvidence, <1>20
     DEF Close, OPERATION_STATES
<1> QED
  BY <1>1, <1>2, <1>3, <1>4, <1>5, <1>6, <1>7, <1>8, <1>9, <1>10, <1>11, <1>12, <1>13,
     <1>14, <1>15, <1>16, <1>17, <1>18, <1>19, <1>20
     DEF Request

\* Whatever happens besides.
LEMMA EnvironmentKeepsTypes == TypeOK /\ (Environment \/ Crash \/ Fail \/ Signal) => TypeOK'
<1> SUFFICES ASSUME TypeOK, Environment \/ Crash \/ Fail \/ Signal PROVE TypeOK'
  OBVIOUS
<1>t. /\ DevicesOK /\ RecordsOK /\ EvidenceOK
     /\ wf \in WORKFLOW_STATES /\ life \in OPERATION_STATES
     /\ job \in Job /\ stale \in BOOLEAN /\ closing \in BOOLEAN
  BY DEF TypeOK
<1> USE DEF TypeOK
<1>1. CASE \E h \in Hosts : Edit(h)
  <2>1. DevicesOK'
    BY <1>t, <1>1, MaxEditsAssumption DEF Edit, DevicesOK, Config
  <2> QED
    BY <1>t, <1>1, <2>1, KeepRecords, KeepEvidence DEF Edit
<1>2. CASE \E h \in Hosts : Capture(h)
  BY <1>t, KeepDevices, KeepRecords, <1>2, ConfigIsSnapshot
     DEF Capture, EvidenceOK, DevicesOK, Snapshot
<1>3. CASE Expire
  BY <1>t, KeepDevices, KeepEvidence, <1>3
     DEF Expire, RecordsOK
<1>4. CASE Reconcile
  BY <1>t, KeepDevices, KeepRecords, KeepEvidence, <1>4
     DEF Reconcile
<1>5. CASE Crash
  BY <1>t, KeepRecords, KeepEvidence, <1>5, DoneKeepsJob, MaxFaultsAssumption
     DEF Crash, Fault, DevicesOK
<1>6. CASE Fail
  BY <1>t, KeepRecords, KeepEvidence, <1>6, DoneKeepsJob, MaxFaultsAssumption
     DEF Fail, Fault, DevicesOK
<1>7. CASE Signal
  <2>1. DevicesOK'
    BY <1>t, <1>7, MaxFaultsAssumption DEF Signal, Fault, DevicesOK
  <2>2. RecordsOK'
    BY <1>t, <1>7 DEF Signal, RecordsOK
  <2>3. wf' \in WORKFLOW_STATES /\ life' \in OPERATION_STATES
    BY <1>t, <1>7 DEF Signal, WORKFLOW_STATES, OPERATION_STATES
  <2> QED
    BY <1>t, <1>7, <2>1, <2>2, <2>3, KeepEvidence, DoneKeepsJob DEF Signal, Fault
<1> QED
  BY <1>1, <1>2, <1>3, <1>4, <1>5, <1>6, <1>7 DEF Environment

\* The types hold at the start.
LEMMA InitTypes == Init => TypeOK
<1> SUFFICES ASSUME Init PROVE TypeOK
  OBVIOUS
<1>1. DevicesOK
  <2>1. \A d \in {0, 1} : [own |-> {}, other |-> d] \in Config
    BY MaxEditsAssumption DEF Config
  <2>2. run \in [Hosts -> Config]
    BY <2>1 DEF Init
  <2>3. PICK L \in SUBSET Lagging :
          start = [h \in Hosts |-> [own |-> {}, other |-> IF h \in L THEN 0 ELSE 1]]
    BY DEF Init
  <2>4. \A h \in Hosts : [own |-> {}, other |-> IF h \in L THEN 0 ELSE 1] \in Config
    BY <2>1
  <2>5. start \in [Hosts -> Config]
    BY <2>3, <2>4
  <2>6. edits = 0 /\ faults = 0 /\ sent \in BOOLEAN
    BY DEF Init
  <2> QED
    BY <2>2, <2>5, <2>6, MaxEditsAssumption, MaxFaultsAssumption DEF DevicesOK
<1>2. RecordsOK
  BY DEF Init, RecordsOK, Policies, Diffs
<1>3. EvidenceOK
  BY NoneIsSnapshot DEF Init, EvidenceOK, NoVerdict
<1> QED
  BY <1>1, <1>2, <1>3, NoJobIsJob DEF Init, TypeOK, WORKFLOW_STATES, OPERATION_STATES

\* Every step keeps the types.
LEMMA NextKeepsTypes == TypeOK /\ [Next]_vars => TypeOK'
<1> SUFFICES ASSUME TypeOK, [Next]_vars PROVE TypeOK'
  OBVIOUS
<1>1. CASE Next
  BY <1>1, StepKeepsTypes, RequestKeepsTypes, EnvironmentKeepsTypes DEF Next
<1>2. CASE UNCHANGED vars
  BY <1>2 DEF vars, TypeOK, DevicesOK, RecordsOK, EvidenceOK
<1> QED
  BY <1>1, <1>2

\* Every variable keeps its type (TypeOK).
THEOREM TypeCorrect == Spec => []TypeOK
BY InitTypes, NextKeepsTypes, PTL DEF Spec

-----------------------------------------------------------------------------
(* The inductive invariant                                                 *)

AllHold(own) == \A h \in Hosts : run[h].own = own

\* Some device of the job has not succeeded.
SomeFailed == \E h \in Hosts : job.dev[h] \in {"FAILED", "UNKNOWN"}

SessionStages == {"connect", "begin", "send", "finish", "result"}

\* While a job works on devices, the workflow state is the one it set.
WorkflowInv ==
  /\ job.stage = "send" => job.cmd \in Sessions /\ job.begun
  /\ job.cmd = "apply" /\ job.stage \in SessionStages =>
       wf = IF job.begun THEN "apply_running" ELSE "approved"
  /\ job.cmd = "rollback" /\ job.stage \in SessionStages =>
       wf = IF job.begun THEN "rollback_running" ELSE "rollback_required"
  /\ job.cmd \in Saves /\ job.stage # "complete" => wf = "save_running"

\* Before the apply nothing of the change is on a device or in a transcript.
PristineInv ==
  wf \in PRE_APPLY_CLOSABLE_WORKFLOW_STATES =>
    ~sent /\ AllHold({}) /\ \A h \in Hosts : raw[h].own = {}

\* What the evidence says of the devices it was taken from.
EvidenceInv ==
  /\ \A h \in Hosts : snap["before"][h].own = {}
  /\ overlay = "VERIFIED" => \A h \in Hosts : Seen \subseteq snap["after"][h].own
  /\ verdict.result \in {"VERIFIED", "WARN"} =>
       \A h \in Hosts : verdict.of[h].own = {}
  /\ verified.result \in {"VERIFIED", "WARN"} =>
       \A h \in Hosts : snap["rollback"][h].own = {}
  /\ verified.accepted = "current" => verified.result = "WARN"

\* An apply has done the devices before the current one, and k - 1 commands of it.
ApplyInv ==
  job.cmd = "apply" =>
    /\ job.stage \in {"connect", "begin", "send"} =>
         /\ \A h \in Hosts : /\ h < job.i => run[h].own = Steps
                             /\ h > job.i => run[h].own = {}
         /\ run[job.i].own = 1 .. job.k - 1
         /\ job.stage # "send" => job.k = 1
    /\ job.stage \in {"finish", "result"} => SomeFailed \/ AllHold(Steps)

\* A rollback has cleared the devices after the current one, and its last commands.
RollbackInv ==
  job.cmd = "rollback" =>
    /\ job.stage \in {"connect", "begin", "send"} =>
         /\ \A h \in Hosts : h > Current => run[h].own = {}
         /\ run[Current].own \subseteq 1 .. C + 1 - job.k
         /\ job.stage # "send" => job.k = 1
    /\ job.stage \in {"finish", "result"} => SomeFailed \/ AllHold({})

\* A save has found all devices like its Snapshot, and has saved those before
\* the current one.
SaveInv ==
  job.cmd \in Saves =>
    /\ Seen = Steps =>
         \E own \in {{}, Steps} : \A h \in Hosts : job.target[h].own = own
    /\ \A h \in Hosts :
         \/ job.stage \in {"reinspect", "copy", "postdiff"}
         \/ job.stage = "inspect" /\ h < job.i
         =>
           run[h].own = job.target[h].own
    /\ job.stage \in {"reinspect", "copy", "postdiff"} =>
         \A h \in Hosts : h < job.i => start[h].own = run[h].own
    /\ job.stage \in {"finish", "result"} =>
         SomeFailed \/ \A h \in Hosts : /\ run[h].own = job.target[h].own
                                        /\ start[h].own = run[h].own

LoopInv == ApplyInv /\ RollbackInv /\ SaveInv

DeviceInv ==
  PristineInv /\ PrefixApplied /\ WorkflowTellsDevices /\ CompletedUniform

IInv == TypeOK /\ WorkflowInv /\ EvidenceInv /\ LoopInv /\ DeviceInv

-----------------------------------------------------------------------------
(* What leaves the parts of the invariant as they are                      *)

Claims == {"apply_completed", "rolled_back", "completed"}

\* The workflow moves, but not to a state that claims something of all devices.
Unclaiming ==
  \/ wf' = wf
  \/ <<wf, wf'>> \in WORKFLOW_TRANSITIONS /\ wf' \notin Claims
  \/ wf' \in {"after_running", "rollback_required", "device_state_unknown"}

\* The later rolled back states are reached from rolled back states only.
LEMMA ClaimTable ==
  \A a, b :
    /\ <<a, b>> \in WORKFLOW_TRANSITIONS
    /\ b \in {"rollback_health_failed", "rolled_back_and_verified"}
    => a \in {"rolled_back", "rollback_health_failed"}
BY DEF WORKFLOW_TRANSITIONS

\* Nothing is asked of a job that does not work on devices.
LEMMA IdleKeeps ==
  job'.cmd \notin Guarded /\ job'.stage # "send" => WorkflowInv' /\ LoopInv'
BY DEF WorkflowInv, LoopInv, ApplyInv, RollbackInv, SaveInv, Guarded, Sessions, Saves

\* No job is such a job.
LEMMA NoJobIsIdle == NoJob.cmd \notin Guarded /\ NoJob.stage # "send"
BY DEF NoJob, Guarded, Sessions, Saves

\* The frame of each part of the invariant: the variables it reads.
LEMMA WorkflowFrame == WorkflowInv /\ UNCHANGED <<wf, job>> => WorkflowInv'
BY DEF WorkflowInv

\* The loops read the devices and the job.
LEMMA LoopFrame == LoopInv /\ UNCHANGED <<devices, job>> => LoopInv'
BY DEF LoopInv, ApplyInv, RollbackInv, SaveInv, SomeFailed, AllHold, Current, devices

\* The evidence reads nothing else.
LEMMA EvidenceFrame == EvidenceInv /\ UNCHANGED evidence => EvidenceInv'
BY DEF EvidenceInv, evidence

\* The claims about the devices survive any move of the workflow that makes no
\* new one.
LEMMA DeviceFrame ==
  /\ DeviceInv /\ Unclaiming
  /\ UNCHANGED <<run, start, sent>> /\ (raw' = raw \/ raw' = NoSnap)
  => DeviceInv'
<1> SUFFICES ASSUME DeviceInv, UNCHANGED <<run, start, sent>>, Unclaiming,
                    raw' = raw \/ raw' = NoSnap
             PROVE  DeviceInv'
  OBVIOUS
<1>2. PristineInv'
  BY WorkflowTable
     DEF DeviceInv, PristineInv, Unclaiming, AllHold, NoSnap, None,
         PRE_APPLY_CLOSABLE_WORKFLOW_STATES
<1>3. PrefixApplied'
  BY DEF DeviceInv, PrefixApplied
<1>4. WorkflowTellsDevices'
  BY ClaimTable DEF DeviceInv, WorkflowTellsDevices, Unclaiming, Claims
<1>5. CompletedUniform'
  BY DEF DeviceInv, CompletedUniform, Uniform, Unclaiming, Claims
<1> QED
  BY <1>2, <1>3, <1>4, <1>5 DEF DeviceInv

-----------------------------------------------------------------------------
(* Every step keeps the invariant                                          *)

\* What is asked for: the jobs begin.
LEMMA RequestKeeps ==
  IInv /\ (Request) => WorkflowInv' /\ EvidenceInv' /\ LoopInv' /\ DeviceInv'
<1> SUFFICES ASSUME IInv, Request
             PROVE  WorkflowInv' /\ EvidenceInv' /\ LoopInv' /\ DeviceInv'
  OBVIOUS
<1>i. TypeOK /\ WorkflowInv /\ EvidenceInv /\ LoopInv /\ DeviceInv
  BY DEF IInv
<1>1. CASE Collect
  <2>1. EvidenceInv'
    BY <1>i, <1>1 DEF Collect, EvidenceInv
  <2>2. DeviceInv'
    BY <1>i, <1>1 DEF Collect, DeviceInv, PristineInv, PrefixApplied,
       WorkflowTellsDevices, CompletedUniform, Uniform, AllHold, devices
  <2> QED
    BY <1>i, <1>1, <2>1, <2>2, WorkflowFrame, LoopFrame DEF Collect
<1>2. CASE PublishBefore
  <2>1. EvidenceInv'
    BY <1>i, <1>2
       DEF PublishBefore, EvidenceInv, TypeOK, EvidenceOK, DeviceInv, PristineInv,
       PRE_APPLY_CLOSABLE_WORKFLOW_STATES
  <2> QED
    BY <1>i, <1>2, <2>1, WorkflowFrame, LoopFrame, DeviceFrame
       DEF PublishBefore, Unclaiming, devices
<1>3. CASE PublishAfter
  <2>1. overlay # "VERIFIED"
    <3>1. snap["after"][1].own = {}
      BY <1>3, FirstOfEach DEF PublishAfter, NoSnap, None
    <3> QED
      BY <1>i, <3>1, FirstOfEach, SeenAssumption DEF EvidenceInv
  <2>2. EvidenceInv'
    BY <1>i, <1>3, <2>1 DEF PublishAfter, EvidenceInv, TypeOK, EvidenceOK
  <2> QED
    BY <1>i, <1>3, <2>2, WorkflowFrame, LoopFrame, DeviceFrame
       DEF PublishAfter, Unclaiming, devices
<1>4. CASE Compare("first")
  <2>1. EvidenceInv'
    BY <1>i, <1>4 DEF Compare, EvidenceInv
  <2> QED
    BY <1>i, <1>4, <2>1, WorkflowFrame, LoopFrame, DeviceFrame
       DEF Compare, Unclaiming, devices
<1>5. CASE Compare("again")
  <2>1. EvidenceInv'
    BY <1>i, <1>5 DEF Compare, EvidenceInv
  <2> QED
    BY <1>i, <1>5, <2>1, WorkflowFrame, LoopFrame, DeviceFrame
       DEF Compare, Unclaiming, devices
<1>6. CASE BeginPlan
  <2>1. CASE job' = job
    BY <1>i, <1>6, <2>1, WorkflowFrame, LoopFrame, EvidenceFrame, DeviceFrame
       DEF BeginPlan, Unclaiming, evidence, devices
  <2>2. CASE Take("plan", "transition")
    BY <1>i, <1>6, <2>2, IdleKeeps, EvidenceFrame, DeviceFrame
       DEF BeginPlan, Take, NoJob, Unclaiming, evidence, Guarded, Sessions, Saves, devices
  <2> QED
    BY <1>6, <2>1, <2>2 DEF BeginPlan
<1>7. CASE BeginApprove
  BY <1>i, <1>7, IdleKeeps, NoJobIsIdle, EvidenceFrame, DeviceFrame
     DEF BeginApprove, Take, Done, ToWorkflow, Claims, Unclaiming, evidence, Guarded,
         Sessions, Saves, NoJob, devices
<1>8. CASE BeginApply
  <2>1. WorkflowInv'
    BY <1>8 DEF BeginApply, Take, NoJob, WorkflowInv, Saves
  <2>2. /\ job'.cmd = "apply" /\ job'.stage = "connect" /\ job'.i = 1 /\ job'.k = 1
        /\ run' = run /\ AllHold({})
    BY <1>i, <1>8 DEF BeginApply, Take, NoJob, DeviceInv, PristineInv, devices,
       PRE_APPLY_CLOSABLE_WORKFLOW_STATES
  <2>3. LoopInv'
    BY <2>2, NAssumption
       DEF LoopInv, ApplyInv, RollbackInv, SaveInv, Saves, AllHold, Hosts
  <2> QED
    BY <1>i, <1>8, <2>1, <2>3, EvidenceFrame, DeviceFrame
       DEF BeginApply, Unclaiming, evidence, devices
<1>9. CASE BeginRollback
  <2>1. WorkflowInv'
    BY <1>9 DEF BeginRollback, Take, NoJob, WorkflowInv, Saves
  <2>2. /\ job'.cmd = "rollback" /\ job'.stage = "connect" /\ job'.i = 1 /\ job'.k = 1
        /\ Current' = N /\ run' = run
    BY <1>9, NAssumption DEF BeginRollback, Take, NoJob, Current, devices
  <2>3. run[N].own \subseteq 1 .. C
    <3>1. PICK n \in 0 .. C : run[N].own = 1 .. n
      BY <1>i, NAssumption DEF DeviceInv, PrefixApplied, Hosts
    <3> QED
      BY <3>1, CAssumption
  <2>4. LoopInv'
    BY <2>2, <2>3, NAssumption, CAssumption
       DEF LoopInv, ApplyInv, RollbackInv, SaveInv, Saves, Hosts
  <2> QED
    BY <1>i, <1>9, <2>1, <2>4, EvidenceFrame, DeviceFrame
       DEF BeginRollback, Unclaiming, evidence, devices
<1>10. CASE BeginEvaluate("evaluate")
  <2>1. EvidenceInv'
    BY <1>i, <1>10 DEF BeginEvaluate, EvidenceInv
  <2>2. job'.cmd \notin Guarded /\ job'.stage # "send"
    BY <1>10 DEF BeginEvaluate, NoJob, Guarded, Sessions, Saves
  <2>3. Unclaiming /\ UNCHANGED <<run, start, sent, raw>>
    BY <1>10 DEF BeginEvaluate, Unclaiming, devices
  <2> QED
    BY <1>i, <2>1, <2>2, <2>3, IdleKeeps, DeviceFrame
<1>11. CASE BeginEvaluate("recheck")
  <2>1. EvidenceInv'
    BY <1>i, <1>11 DEF BeginEvaluate, EvidenceInv
  <2>2. job'.cmd \notin Guarded /\ job'.stage # "send"
    BY <1>11 DEF BeginEvaluate, NoJob, Guarded, Sessions, Saves
  <2>3. Unclaiming /\ UNCHANGED <<run, start, sent, raw>>
    BY <1>11 DEF BeginEvaluate, Unclaiming, devices
  <2> QED
    BY <1>i, <2>1, <2>2, <2>3, IdleKeeps, DeviceFrame
<1>12. CASE BeginSave("save")
  <2>1. WorkflowInv'
    BY <1>12 DEF BeginSave, ToWorkflow, NoJob, WorkflowInv, Saves, Sessions
  <2>2. Seen = Steps => \A h \in Hosts : snap["after"][h].own = Steps
    <3>1. \A h \in Hosts : Seen \subseteq snap["after"][h].own
      BY <1>i, <1>12 DEF BeginSave, RollbackTrusted, EvidenceInv
    <3>2. \A h \in Hosts : snap["after"][h].own \subseteq Steps
      BY <1>i DEF TypeOK, EvidenceOK, Snapshot, Config, None
    <3> QED
      BY <3>1, <3>2
  <2>3. /\ job'.cmd = "save" /\ job'.stage = "inspect" /\ job'.i = 1
        /\ job'.target = snap["after"]
    BY <1>12 DEF BeginSave, NoJob
  <2>4. LoopInv'
    BY <2>2, <2>3, NAssumption DEF LoopInv, ApplyInv, RollbackInv, SaveInv, Saves, Hosts
  <2> QED
    BY <1>i, <1>12, <2>1, <2>4, EvidenceFrame, DeviceFrame
       DEF BeginSave, ToWorkflow, Unclaiming, Claims, evidence, devices
<1>13. CASE BeginSave("save_rollback")
  <2>1. WorkflowInv'
    BY <1>13 DEF BeginSave, ToWorkflow, NoJob, WorkflowInv, Saves, Sessions
  <2>2. Seen = Steps =>
          \E own \in {{}, Steps} : \A h \in Hosts : snap["rollback"][h].own = own
    BY <1>i, <1>13 DEF BeginSave, RollbackTrusted, EvidenceInv
  <2>3. /\ job'.cmd = "save_rollback" /\ job'.stage = "inspect" /\ job'.i = 1
        /\ job'.target = snap["rollback"]
    BY <1>13 DEF BeginSave, NoJob
  <2>4. LoopInv'
    BY <2>2, <2>3, NAssumption DEF LoopInv, ApplyInv, RollbackInv, SaveInv, Saves, Hosts
  <2> QED
    BY <1>i, <1>13, <2>1, <2>4, EvidenceFrame, DeviceFrame
       DEF BeginSave, ToWorkflow, Unclaiming, Claims, evidence, devices
<1>14. CASE VerifyRollback
  <2>1. EvidenceInv'
    BY <1>i, <1>14 DEF VerifyRollback, EvidenceInv, TypeOK, EvidenceOK
  <2> QED
    BY <1>i, <1>14, <2>1, WorkflowFrame, LoopFrame, DeviceFrame
       DEF VerifyRollback, Unclaiming, devices
<1>15. CASE PublishRollback
  <2>1. EvidenceInv'
    BY <1>i, <1>15 DEF PublishRollback, EvidenceInv, TypeOK, EvidenceOK
  <2> QED
    BY <1>i, <1>15, <2>1, WorkflowFrame, LoopFrame, DeviceFrame
       DEF PublishRollback, Unclaiming, devices
<1>16. CASE ConcludeRollback
  <2>1. EvidenceInv'
    BY <1>i, <1>16 DEF ConcludeRollback, EvidenceInv, NoVerdict
  <2>2. Unclaiming
    BY <1>16 DEF ConcludeRollback, Unclaiming, Claims
  <2>3. job'.cmd \notin Guarded /\ job'.stage # "send"
    BY <1>i, <1>16 DEF ConcludeRollback, LockFree, WorkflowInv, Guarded, Sessions, Saves
  <2> QED
    BY <1>i, <1>16, <2>1, <2>2, <2>3, IdleKeeps, DeviceFrame DEF ConcludeRollback, devices
<1>17. CASE AbandonRollback
  <2>1. EvidenceInv'
    BY <1>i, <1>17 DEF AbandonRollback, EvidenceInv, NoVerdict
  <2> QED
    BY <1>i, <1>17, <2>1, WorkflowFrame, LoopFrame, DeviceFrame
       DEF AbandonRollback, Unclaiming, devices
<1>18. CASE BeginAccept
  <2>1. EvidenceInv'
    BY <1>i, <1>18 DEF BeginAccept, EvidenceInv
  <2> QED
    BY <1>i, <1>18, <2>1, IdleKeeps, DeviceFrame
       DEF BeginAccept, Take, NoJob, Unclaiming, Guarded, Sessions, Saves, devices
<1>19. CASE CheckClose
  BY <1>i, <1>19, WorkflowFrame, LoopFrame, EvidenceFrame, DeviceFrame
     DEF CheckClose, Unclaiming, evidence, devices
<1>20. CASE Close
  BY <1>i, <1>20, WorkflowFrame, LoopFrame, EvidenceFrame, DeviceFrame
     DEF Close, Unclaiming, evidence, devices
<1> QED
  BY <1>1, <1>2, <1>3, <1>4, <1>5, <1>6, <1>7, <1>8, <1>9, <1>10, <1>11, <1>12, <1>13,
     <1>14, <1>15, <1>16, <1>17, <1>18, <1>19, <1>20
     DEF Request

\* What happens besides; faults end the job.
LEMMA EnvironmentKeeps ==
  IInv /\ (Environment \/ Crash \/ Fail \/ Signal) =>
    WorkflowInv' /\ EvidenceInv' /\ LoopInv' /\ DeviceInv'
<1> SUFFICES ASSUME IInv, Environment \/ Crash \/ Fail \/ Signal
             PROVE  WorkflowInv' /\ EvidenceInv' /\ LoopInv' /\ DeviceInv'
  OBVIOUS
<1>i. TypeOK /\ WorkflowInv /\ EvidenceInv /\ LoopInv /\ DeviceInv
  BY DEF IInv
<1>1. CASE \E h \in Hosts : Edit(h)
  <2>1. \A h \in Hosts : run'[h].own = run[h].own
    BY <1>i, <1>1 DEF Edit, TypeOK, DevicesOK
  <2>2. UNCHANGED <<start, sent, wf, job, raw>>
    BY <1>1 DEF Edit, evidence
  <2>3. LoopInv'
    BY <1>i, <2>1, <2>2, CurrentIsHost
       DEF LoopInv, ApplyInv, RollbackInv, SaveInv, SomeFailed, AllHold, Current, TypeOK,
           Job
  <2>4. DeviceInv'
    BY <1>i, <2>1, <2>2 DEF DeviceInv, PristineInv, PrefixApplied,
       WorkflowTellsDevices, CompletedUniform, Uniform, AllHold
  <2> QED
    BY <1>i, <1>1, <2>2, <2>3, <2>4, WorkflowFrame, EvidenceFrame DEF Edit
<1>2. CASE \E h \in Hosts : Capture(h)
  <2>1. EvidenceInv'
    BY <1>i, <1>2 DEF Capture, EvidenceInv
  <2>2. DeviceInv'
    BY <1>i, <1>2 DEF Capture, DeviceInv, PristineInv, PrefixApplied,
       WorkflowTellsDevices, CompletedUniform, Uniform, AllHold, devices, TypeOK,
       EvidenceOK, Snapshot
  <2> QED
    BY <1>i, <1>2, <2>1, <2>2, WorkflowFrame, LoopFrame DEF Capture
<1>3. CASE Expire
  BY <1>i, <1>3, WorkflowFrame, LoopFrame, EvidenceFrame, DeviceFrame
     DEF Expire, Unclaiming, evidence, devices
<1>4. CASE Reconcile
  BY <1>i, <1>4, WorkflowFrame, LoopFrame, EvidenceFrame, DeviceFrame
     DEF Reconcile, Unclaiming, evidence, devices
<1>5. CASE Crash
  <2>1. UNCHANGED <<run, start, sent>> /\ job' = NoJob /\ UNCHANGED evidence /\ Unclaiming
    BY <1>i, <1>5 DEF Crash, Fault, Done, Unclaiming
  <2> QED
    BY <1>i, <2>1, IdleKeeps, NoJobIsIdle, EvidenceFrame, DeviceFrame DEF evidence
<1>6. CASE Fail
  <2>1. UNCHANGED <<run, start, sent>> /\ job' = NoJob /\ UNCHANGED evidence /\ Unclaiming
    BY <1>i, <1>6 DEF Fail, Fault, Done, Unclaiming
  <2> QED
    BY <1>i, <2>1, IdleKeeps, NoJobIsIdle, EvidenceFrame, DeviceFrame DEF evidence
<1>7. CASE Signal
  <2>1. UNCHANGED <<run, start, sent>> /\ job' = NoJob /\ UNCHANGED evidence /\ Unclaiming
    BY <1>i, <1>7 DEF Signal, Fault, Done, Unclaiming
  <2> QED
    BY <1>i, <2>1, IdleKeeps, NoJobIsIdle, EvidenceFrame, DeviceFrame DEF evidence
<1> QED
  BY <1>1, <1>2, <1>3, <1>4, <1>5, <1>6, <1>7
     DEF Environment

\* A job succeeds as a whole if no device failed.
LEMMA OverallTells == Overall = "SUCCESS" <=> ~SomeFailed
BY DEF Overall, SomeFailed

\* What becomes of the job when a device is done.
LEMMA FinishFacts ==
  \A status \in DeviceStatus, stage \in Stages :
    job \in Job /\ FinishDevice(status, stage) =>
      /\ job'.cmd = job.cmd /\ job'.begun = job.begun /\ job'.target = job.target
      /\ job'.k = 1
      /\ IF status = "SUCCESS" /\ job.i < N
         THEN job'.i = job.i + 1 /\ job'.stage = stage
         ELSE job'.i = job.i /\ job'.stage = "finish"
      /\ status \in {"FAILED", "UNKNOWN"} => SomeFailed'
<1> SUFFICES ASSUME NEW status \in DeviceStatus, NEW stage \in Stages,
                    job \in Job, FinishDevice(status, stage)
             PROVE  /\ job'.cmd = job.cmd /\ job'.begun = job.begun
                    /\ job'.target = job.target /\ job'.k = 1
                    /\ IF status = "SUCCESS" /\ job.i < N
                       THEN job'.i = job.i + 1 /\ job'.stage = stage
                       ELSE job'.i = job.i /\ job'.stage = "finish"
                    /\ status \in {"FAILED", "UNKNOWN"} => SomeFailed'
  OBVIOUS
<1>1. job'.dev[Current] = status
  BY CurrentIsHost DEF FinishDevice, Job
<1> QED
  BY <1>1, CurrentIsHost DEF FinishDevice, Job, SomeFailed

\* A command more, or one less, leaves a prefix of the commands.
LEMMA OneMore == \A k \in Steps : (1 .. k - 1) \cup {k} = 1 .. k
BY CAssumption DEF Steps

\* No commands at all are a prefix of the commands.
LEMMA NoCommands == 1 .. 0 = {} /\ 1 - 1 = 0
OBVIOUS

\* A rollback removes the last command there may be, and leaves a prefix.
LEMMA OneLess ==
  \A k \in Steps, n \in 0 .. C :
    (1 .. n) \subseteq 1 .. C + 1 - k =>
      /\ (1 .. n) \ {C + 1 - k} \subseteq 1 .. C - k
      /\ \E m \in 0 .. C : (1 .. n) \ {C + 1 - k} = 1 .. m
<1> SUFFICES ASSUME NEW k \in Steps, NEW n \in 0 .. C, (1 .. n) \subseteq 1 .. C + 1 - k
             PROVE  /\ (1 .. n) \ {C + 1 - k} \subseteq 1 .. C - k
                    /\ \E m \in 0 .. C : (1 .. n) \ {C + 1 - k} = 1 .. m
  OBVIOUS
<1>1. n <= C + 1 - k
  BY CAssumption DEF Steps
<1>2. (1 .. n) \ {C + 1 - k} = 1 .. (IF n = C + 1 - k THEN n - 1 ELSE n)
  BY <1>1, CAssumption DEF Steps
<1>3. (IF n = C + 1 - k THEN n - 1 ELSE n) \in 0 .. C
  BY <1>1, CAssumption DEF Steps
<1> QED
  BY <1>1, <1>2, <1>3, CAssumption DEF Steps

\* Whatever step a command takes.
LEMMA StepKeeps ==
  IInv /\ (Step) => WorkflowInv' /\ EvidenceInv' /\ LoopInv' /\ DeviceInv'
<1> SUFFICES ASSUME IInv, Step
             PROVE  WorkflowInv' /\ EvidenceInv' /\ LoopInv' /\ DeviceInv'
  OBVIOUS
<1>i. TypeOK /\ WorkflowInv /\ EvidenceInv /\ LoopInv /\ DeviceInv
  BY DEF IInv
<1>1. CASE Plan
  <2>1. job'.cmd \notin Guarded /\ job'.stage # "send"
    BY <1>i, <1>1, NoJobIsIdle
       DEF Plan, At, AtAny, Goto, Done, TypeOK, Job, Guarded, Sessions, Saves
  <2>2. Unclaiming
    BY <1>1 DEF Plan, ToWorkflow, Unclaiming, Claims
  <2> QED
    BY <1>i, <1>1, <2>1, <2>2, IdleKeeps, EvidenceFrame, DeviceFrame
       DEF Plan, devices, evidence
<1>2. CASE Approve
  <2>1. job'.cmd \notin Guarded /\ job'.stage # "send"
    BY <1>i, <1>2, NoJobIsIdle
       DEF Approve, At, AtAny, Goto, Done, TypeOK, Job, Guarded, Sessions, Saves
  <2>2. Unclaiming
    BY <1>2 DEF Approve, ToWorkflow, Unclaiming, Claims
  <2> QED
    BY <1>i, <1>2, <2>1, <2>2, IdleKeeps, EvidenceFrame, DeviceFrame
       DEF Approve, devices, evidence
<1>3. CASE Judge
  <2>1. job'.cmd \notin Guarded /\ job'.stage # "send"
    BY <1>i, <1>3, NoJobIsIdle
       DEF Judge, AtAny, Done, TypeOK, Job, Guarded, Sessions, Saves
  <2>2. EvidenceInv'
    BY <1>i, <1>3 DEF Judge, EvidenceInv
  <2> QED
    BY <1>i, <1>3, <2>1, <2>2, IdleKeeps, DeviceFrame DEF Judge, Unclaiming, devices
<1>4. CASE JudgeFails
  <2>1. job'.cmd \notin Guarded /\ job'.stage # "send"
    BY <1>i, <1>4, NoJobIsIdle
       DEF JudgeFails, At, AtAny, Goto, Done, TypeOK, Job, Guarded, Sessions, Saves
  <2>2. Unclaiming
    BY <1>4 DEF JudgeFails, ToWorkflow, Unclaiming, Claims
  <2> QED
    BY <1>i, <1>4, <2>1, <2>2, IdleKeeps, EvidenceFrame, DeviceFrame
       DEF JudgeFails, devices, evidence
<1>5. CASE EvaluateResult
  <2>1. job'.cmd \notin Guarded /\ job'.stage # "send"
    BY <1>i, <1>5, NoJobIsIdle
       DEF EvaluateResult, At, AtAny, Goto, Done, TypeOK, Job, Guarded, Sessions, Saves
  <2>2. Unclaiming
    BY <1>5 DEF EvaluateResult, ToWorkflow, Unclaiming, Claims
  <2> QED
    BY <1>i, <1>5, <2>1, <2>2, IdleKeeps, EvidenceFrame, DeviceFrame
       DEF EvaluateResult, devices, evidence
<1>6. CASE RefuseDevice
  <2>1. /\ job'.cmd = job.cmd /\ job'.begun = job.begun
        /\ job'.stage = "finish" /\ SomeFailed'
    <3>1. CASE \E s \in {"FAILED", "UNKNOWN"} : FinishDevice(s, "connect")
      BY <1>i, <3>1, FinishFacts DEF TypeOK, Stages, DeviceStatus
    <3>2. CASE job' = [job EXCEPT !.dev[Current] = "FAILED",
                            !.pre[Current] = "dirty", !.stage = "finish"]
      <4>1. job'.dev[Current] = "FAILED"
        BY <1>i, <3>2, CurrentIsHost DEF TypeOK, Job
      <4> QED
        BY <1>i, <3>2, <4>1, CurrentIsHost DEF TypeOK, Job, SomeFailed
    <3> QED
      BY <1>6, <3>1, <3>2 DEF RefuseDevice
  <2>2. WorkflowInv' /\ LoopInv'
    BY <1>i, <1>6, <2>1
       DEF RefuseDevice, AtAny, WorkflowInv, SessionStages, Sessions, Saves,
       LoopInv, ApplyInv, RollbackInv, SaveInv
  <2> QED
    BY <1>i, <1>6, <2>2, EvidenceFrame, DeviceFrame
       DEF RefuseDevice, Unclaiming, devices, evidence
<1>7. CASE AcceptDevice
  <2>1. /\ job'.cmd = job.cmd /\ job'.begun = job.begun /\ job'.i = job.i
        /\ job'.k = job.k /\ job'.stage = "begin"
    BY <1>i, <1>7 DEF AcceptDevice, Goto, TypeOK, Job
  <2>2. WorkflowInv' /\ LoopInv'
    BY <1>i, <1>7, <2>1
       DEF AcceptDevice, AtAny, WorkflowInv, SessionStages, Sessions, Saves,
       LoopInv, ApplyInv, RollbackInv, SaveInv, Current, devices
  <2> QED
    BY <1>i, <1>7, <2>2, EvidenceFrame, DeviceFrame
       DEF AcceptDevice, Unclaiming, devices, evidence
<1>8. CASE BeginCommands
  <2>1. /\ job'.cmd = job.cmd /\ job'.begun /\ job'.i = job.i /\ job'.k = job.k
        /\ job'.stage = job.stage /\ job'.dev = job.dev /\ job'.target = job.target
    BY <1>i, <1>8 DEF BeginCommands, TypeOK, Job
  <2>2. WorkflowInv'
    BY <1>i, <1>8, <2>1 DEF BeginCommands, ToWorkflow, AtAny, WorkflowInv, Sessions, Saves
  <2>3. LoopInv'
    BY <1>i, <1>8, <2>1 DEF BeginCommands, LoopInv, ApplyInv, RollbackInv, SaveInv,
       SomeFailed, AllHold, Current, devices
  <2>4. Unclaiming
    BY <1>8 DEF BeginCommands, ToWorkflow, Unclaiming, Claims
  <2> QED
    BY <1>i, <1>8, <2>2, <2>3, <2>4, EvidenceFrame, DeviceFrame
       DEF BeginCommands, devices, evidence
<1>9. CASE MarkStarted
  <2>1. /\ job'.cmd = job.cmd /\ job'.begun = job.begun /\ job'.i = job.i
        /\ job'.k = job.k /\ job'.stage = "send"
    BY <1>i, <1>9 DEF MarkStarted, TypeOK, Job
  <2>2. WorkflowInv'
    BY <1>i, <1>9, <2>1
       DEF MarkStarted, AtAny, WorkflowInv, SessionStages, Sessions, Saves
  <2>3. LoopInv'
    BY <1>i, <1>9, <2>1
       DEF MarkStarted, AtAny, LoopInv, ApplyInv, RollbackInv, SaveInv, Current, Sessions,
       Saves, devices
  <2> QED
    BY <1>i, <1>9, <2>2, <2>3, EvidenceFrame, DeviceFrame
       DEF MarkStarted, Unclaiming, devices, evidence
<1>10. CASE SendCommand
  <2>t. /\ run \in [Hosts -> Config] /\ job \in Job /\ job.k \in Steps /\ job.i \in Hosts
        /\ Current \in Hosts /\ PrefixApplied
    BY <1>i, CurrentIsHost DEF TypeOK, DevicesOK, Job, DeviceInv
  <2>c. /\ job.stage = "send" /\ job.begun /\ job.cmd \in Sessions
        /\ wf \in {"apply_running", "rollback_running"}
    BY <1>i, <1>10 DEF SendCommand, AtAny, WorkflowInv, SessionStages, Sessions
  <2>u. UNCHANGED <<start, wf>> /\ UNCHANGED evidence
    BY <1>10 DEF SendCommand
  <2>d. DeviceInv' \/ ~PrefixApplied'
    BY <2>c, <2>u DEF DeviceInv, PristineInv, WorkflowTellsDevices, CompletedUniform,
       PRE_APPLY_CLOSABLE_WORKFLOW_STATES
  <2>1. PICK status \in {"SUCCESS", "FAILED", "UNKNOWN"} :
          /\ \/ /\ status # "FAILED"
                /\ run' = [run EXCEPT ![Current] = Effect(job.cmd, run[Current], job.k)]
             \/ status # "SUCCESS" /\ UNCHANGED run
          /\ IF status = "SUCCESS" /\ job.k < C
             THEN job' = [job EXCEPT !.k = job.k + 1]
             ELSE FinishDevice(status, "connect")
    BY <1>10 DEF SendCommand
  <2>2. /\ \A h \in Hosts : h # Current => run'[h] = run[h]
        /\ \/ run'[Current].own = Effect(job.cmd, run[Current], job.k).own
           \/ status # "SUCCESS" /\ run'[Current].own = run[Current].own
    BY <2>t, <2>1
  <2>3. /\ status = "SUCCESS" /\ job.k < C =>
             /\ job'.cmd = job.cmd /\ job'.begun = job.begun /\ job'.i = job.i
             /\ job'.k = job.k + 1 /\ job'.stage = "send"
        /\ ~(status = "SUCCESS" /\ job.k < C) =>
             /\ job'.cmd = job.cmd /\ job'.begun = job.begun /\ job'.k = 1
             /\ IF status = "SUCCESS" /\ job.i < N
                THEN job'.i = job.i + 1 /\ job'.stage = "connect"
                ELSE job'.i = job.i /\ job'.stage = "finish"
             /\ status # "SUCCESS" => SomeFailed'
    <3>1. CASE status = "SUCCESS" /\ job.k < C
      BY <2>t, <2>c, <2>1, <3>1 DEF Job
    <3>2. CASE ~(status = "SUCCESS" /\ job.k < C)
      <4>1. FinishDevice(status, "connect")
        BY <2>1, <3>2
      <4>2. status \in DeviceStatus /\ "connect" \in Stages
        BY DEF DeviceStatus, Stages
      <4> QED
        BY <2>t, <3>2, <4>1, <4>2, FinishFacts
    <3> QED
      BY <3>1, <3>2
  <2>4. WorkflowInv'
    BY <1>i, <2>c, <2>u, <2>3 DEF WorkflowInv, SessionStages, Sessions, Saves
  <2>5. CASE job.cmd = "apply"
    <3>1. /\ \A h \in Hosts : /\ h < job.i => run[h].own = Steps
                              /\ h > job.i => run[h].own = {}
          /\ run[job.i].own = 1 .. job.k - 1
      BY <1>i, <2>c, <2>5 DEF LoopInv, ApplyInv
    <3>2. /\ \/ run'[job.i].own = 1 .. job.k
             \/ status # "SUCCESS" /\ run'[job.i].own = 1 .. job.k - 1
          /\ \A h \in Hosts : /\ h < job.i => run'[h].own = Steps
                              /\ h > job.i => run'[h].own = {}
      <4>1. Current = job.i
        BY <2>5 DEF Current
      <4>2. Effect(job.cmd, run[job.i], job.k).own = 1 .. job.k
        BY <2>t, <2>5, <3>1, OneMore DEF Effect
      <4> QED
        BY <2>t, <2>2, <3>1, <4>1, <4>2, NAssumption DEF Hosts
    <3>3. PrefixApplied'
      <4>1. ASSUME NEW h \in Hosts PROVE \E n \in 0 .. C : run'[h].own = 1 .. n
        <5>1. CASE h < job.i
          BY <3>2, <5>1, CAssumption DEF Steps
        <5>2. CASE h > job.i
          <6>1. run'[h].own = 1 .. 0 /\ 0 \in 0 .. C
            BY <3>2, <5>2, NoCommands, CAssumption
          <6> QED
            BY <6>1
        <5>3. CASE h = job.i
          BY <2>t, <3>2, <5>3, CAssumption DEF Steps
        <5> QED
          BY <2>t, <5>1, <5>2, <5>3, NAssumption DEF Hosts
      <4>2. \A g, h \in Hosts : g < h /\ run'[h].own # {} => run'[g].own = Steps
        BY <2>t, <3>2, NAssumption DEF Hosts
      <4> QED
        BY <4>1, <4>2 DEF PrefixApplied
    <3>4. ApplyInv'
      <4>1. CASE status = "SUCCESS" /\ job.k < C
        BY <2>t, <2>3, <2>5, <3>2, <4>1, CAssumption DEF ApplyInv, Steps
      <4>2. CASE status = "SUCCESS" /\ ~(job.k < C)
        <5>1. \A h \in Hosts : h < job.i + 1 => run'[h].own = Steps
          BY <2>t, <3>2, <4>2, CAssumption, NAssumption DEF Steps, Hosts
        <5>2. CASE job.i < N
          <6>1. job.i + 1 \in Hosts /\ run'[job.i + 1].own = 1 .. 1 - 1
            BY <2>t, <3>2, <5>2, NextIsHost, NoCommands DEF Hosts
          <6>2. \A h \in Hosts : h > job.i + 1 => run'[h].own = {}
            BY <2>t, <3>2 DEF Hosts
          <6>3. job'.i = job.i + 1 /\ job'.k = 1 /\ job'.stage = "connect"
            BY <2>3, <4>2, <5>2
          <6> QED
            BY <5>1, <6>1, <6>2, <6>3 DEF ApplyInv
        <5>3. CASE ~(job.i < N)
          BY <2>t, <2>3, <4>2, <5>1, <5>3, NAssumption DEF ApplyInv, AllHold, Hosts
        <5> QED
          BY <5>2, <5>3
      <4>3. CASE status # "SUCCESS"
        BY <2>3, <4>3 DEF ApplyInv
      <4> QED
        BY <4>1, <4>2, <4>3
    <3>5. LoopInv'
      BY <2>3, <2>5, <3>4 DEF LoopInv, RollbackInv, SaveInv, Saves
    <3> QED
      BY <1>i, <2>4, <2>d, <2>u, <3>3, <3>5, EvidenceFrame
  <2>6. CASE job.cmd = "rollback"
    <3>1. /\ \A h \in Hosts : h > Current => run[h].own = {}
          /\ run[Current].own \subseteq 1 .. C + 1 - job.k
      BY <1>i, <2>c, <2>6 DEF LoopInv, RollbackInv
    <3>2. PICK n \in 0 .. C : run[Current].own = 1 .. n
      BY <2>t DEF PrefixApplied
    <3>3. /\ status = "SUCCESS" => run'[Current].own \subseteq 1 .. C - job.k
          /\ \E m \in 0 .. C : run'[Current].own = 1 .. m
      <4>1. Effect(job.cmd, run[Current], job.k).own = (1 .. n) \ {C + 1 - job.k}
        BY <2>6, <3>2 DEF Effect
      <4>2. /\ (1 .. n) \ {C + 1 - job.k} \subseteq 1 .. C - job.k
            /\ \E m \in 0 .. C : (1 .. n) \ {C + 1 - job.k} = 1 .. m
        BY <2>t, <3>1, <3>2, OneLess
      <4> QED
        BY <2>2, <3>2, <4>1, <4>2
    <3>4. PrefixApplied'
      <4>1. \A h \in Hosts : \E m \in 0 .. C : run'[h].own = 1 .. m
        BY <2>t, <2>2, <3>3 DEF PrefixApplied
      <4>2. ASSUME NEW g \in Hosts, NEW h \in Hosts, g < h, run'[h].own # {}
            PROVE  run'[g].own = Steps
        <5>1. h <= Current
          BY <2>t, <2>2, <3>1, <4>2, NAssumption DEF Hosts
        <5>2. run[h].own # {}
          BY <2>t, <2>2, <2>6, <4>2 DEF Effect
        <5> QED
          BY <2>t, <2>2, <4>2, <5>1, <5>2, NAssumption DEF PrefixApplied, Hosts
      <4> QED
        BY <4>1, <4>2 DEF PrefixApplied
    <3>5. RollbackInv'
      <4>1. Current = N + 1 - job.i /\ Current' = N + 1 - job'.i
        BY <2>3, <2>6 DEF Current
      <4>2. CASE status = "SUCCESS" /\ job.k < C
        <5>1. /\ job'.stage = "send" /\ job'.i = job.i /\ job'.k = job.k + 1
              /\ Current' = Current
          BY <2>3, <4>1, <4>2
        <5>2. \A h \in Hosts : h > Current => run'[h].own = {}
          BY <2>t, <2>2, <3>1, NAssumption DEF Hosts
        <5>3. run'[Current].own \subseteq 1 .. C + 1 - (job.k + 1)
          BY <2>t, <3>3, <4>2, CAssumption DEF Steps
        <5> QED
          BY <5>1, <5>2, <5>3 DEF RollbackInv
      <4>3. CASE status = "SUCCESS" /\ ~(job.k < C)
        <5>1. \A h \in Hosts : h > Current - 1 => run'[h].own = {}
          <6>1. run'[Current].own = {}
            BY <2>t, <3>3, <4>3, CAssumption DEF Steps
          <6> QED
            BY <2>t, <2>2, <3>1, <6>1, NAssumption DEF Hosts
        <5>2. CASE job.i < N
          <6>1. Current' = Current - 1 /\ Current' \in Hosts
            BY <2>t, <2>3, <4>1, <4>3, <5>2, NAssumption DEF Hosts
          <6>2. \E m \in 0 .. C : run'[Current'].own = 1 .. m
            BY <3>4, <6>1 DEF PrefixApplied
          <6>3. run'[Current'].own \subseteq 1 .. C + 1 - 1
            BY <6>2, CAssumption
          <6> QED
            BY <2>3, <2>6, <4>3, <5>1, <5>2, <6>1, <6>3 DEF RollbackInv
        <5>3. CASE ~(job.i < N)
          BY <2>t, <2>3, <4>1, <4>3, <5>1, <5>3, NAssumption
             DEF RollbackInv, AllHold, Hosts
        <5> QED
          BY <5>2, <5>3
      <4>4. CASE status # "SUCCESS"
        BY <2>3, <4>4 DEF RollbackInv
      <4> QED
        BY <4>2, <4>3, <4>4
    <3>6. LoopInv'
      BY <2>3, <2>6, <3>5 DEF LoopInv, ApplyInv, SaveInv, Saves
    <3> QED
      BY <1>i, <2>4, <2>d, <2>u, <3>4, <3>6, EvidenceFrame
  <2> QED
    BY <2>c, <2>5, <2>6 DEF Sessions
<1>11. CASE RecordExecution
  <2>1. /\ job'.cmd = job.cmd /\ job'.begun = job.begun /\ job'.stage = "result"
        /\ job'.dev = job.dev
    BY <1>i, <1>11 DEF RecordExecution, Goto, TypeOK, Job
  <2>2. WorkflowInv' /\ LoopInv'
    BY <1>i, <1>11, <2>1
       DEF RecordExecution, AtAny, WorkflowInv, SessionStages, Sessions, Saves,
       LoopInv, ApplyInv, RollbackInv, SaveInv, SomeFailed, AllHold, devices
  <2> QED
    BY <1>i, <1>11, <2>2, EvidenceFrame, DeviceFrame
       DEF RecordExecution, Unclaiming, devices, evidence
<1>12. CASE SessionResult
  <2>1. job' = NoJob \/ (job'.cmd = "apply" /\ job'.stage = "escalate")
    <3>1. Done \/ (job.cmd = "apply" /\ Goto("escalate"))
      BY <1>12 DEF SessionResult
    <3> QED
      BY <1>i, <3>1 DEF Goto, Done, TypeOK, Job
  <2>2. WorkflowInv' /\ LoopInv'
    BY <2>1 DEF NoJob, WorkflowInv, SessionStages, Sessions, Saves, LoopInv, ApplyInv,
       RollbackInv, SaveInv
  <2>3. /\ UNCHANGED <<run, start, sent, raw>> /\ UNCHANGED evidence
        /\ <<wf, wf'>> \in WORKFLOW_TRANSITIONS
    BY <1>12 DEF SessionResult, ToWorkflow, devices, evidence
  <2>4. CASE wf' \in {"apply_failed", "rollback_failed"}
    BY <1>i, <2>2, <2>3, <2>4, EvidenceFrame, DeviceFrame DEF Unclaiming, Claims
  <2>5. CASE Overall = "SUCCESS"
    <3>1. \/ wf' = "apply_completed" /\ AllHold(Steps)
          \/ wf' = "rolled_back" /\ AllHold({})
      BY <1>i, <1>12, <2>5, OverallTells
         DEF SessionResult, ToWorkflow, AtAny, LoopInv, ApplyInv, RollbackInv, Sessions
    <3>2. DeviceInv'
      BY <1>i, <2>3, <3>1 DEF DeviceInv, PristineInv, PrefixApplied, WorkflowTellsDevices,
         CompletedUniform, Uniform, AllHold, PRE_APPLY_CLOSABLE_WORKFLOW_STATES
    <3> QED
      BY <1>i, <2>2, <2>3, <3>2, EvidenceFrame
  <2> QED
    BY <1>12, <2>4, <2>5 DEF SessionResult, ToWorkflow
<1>13. CASE Escalate
  <2>1. job'.cmd \notin Guarded /\ job'.stage # "send"
    BY <1>13, NoJobIsIdle DEF Escalate, Done
  <2> QED
    BY <1>i, <1>13, <2>1, IdleKeeps, EvidenceFrame, DeviceFrame
       DEF Escalate, ToWorkflow, Unclaiming, devices, evidence
<1>14. CASE Inspect
  <2>1. /\ job'.cmd = job.cmd /\ job'.target = job.target
        /\ IF job.i < N THEN job'.i = job.i + 1 /\ job'.stage = "inspect"
                         ELSE job'.i = 1 /\ job'.stage = "reinspect"
    BY <1>i, <1>14 DEF Inspect, AtAny, TypeOK, Job
  <2>2. \A h \in Hosts : h < job.i + 1 => run[h].own = job.target[h].own
    BY <1>i, <1>14 DEF Inspect, AtAny, Matches, LoopInv, SaveInv, TypeOK, Job, Hosts
  <2>3. WorkflowInv'
    BY <1>i, <1>14, <2>1 DEF Inspect, AtAny, WorkflowInv, SessionStages, Sessions, Saves
  <2>4. UNCHANGED <<run, start>> /\ job.i \in Hosts /\ job.cmd \in Saves
    BY <1>i, <1>14 DEF Inspect, AtAny, devices, TypeOK, Job
  <2>5. Seen = Steps =>
          \E own \in {{}, Steps} : \A h \in Hosts : job.target[h].own = own
    BY <1>i, <2>4 DEF LoopInv, SaveInv
  <2>6. SaveInv'
    BY <2>1, <2>2, <2>4, <2>5, NAssumption DEF SaveInv, Hosts
  <2>7. LoopInv'
    BY <2>1, <2>4, <2>6 DEF LoopInv, ApplyInv, RollbackInv, Saves
  <2> QED
    BY <1>i, <1>14, <2>3, <2>7, EvidenceFrame, DeviceFrame
       DEF Inspect, Unclaiming, devices, evidence
<1>15. CASE InspectFails
  <2>1. PICK s \in {"FAILED", "UNKNOWN"} : FinishDevice(s, "none")
    BY <1>15 DEF InspectFails
  <2>2. /\ job'.cmd = job.cmd /\ job'.target = job.target /\ job'.stage = "finish"
        /\ SomeFailed'
    BY <1>i, <2>1, FinishFacts DEF TypeOK, Stages, DeviceStatus
  <2>3. WorkflowInv' /\ LoopInv'
    BY <1>i, <1>15, <2>2
       DEF InspectFails, AtAny, WorkflowInv, SessionStages, Sessions, Saves,
       LoopInv, ApplyInv, RollbackInv, SaveInv
  <2> QED
    BY <1>i, <1>15, <2>3, EvidenceFrame, DeviceFrame
       DEF InspectFails, Unclaiming, devices, evidence
<1>16. CASE Reinspect
  <2>1. /\ job'.cmd = job.cmd /\ job'.target = job.target /\ job'.i = job.i
        /\ job'.stage = "copy"
    BY <1>i, <1>16 DEF Reinspect, TypeOK, Job
  <2>2. WorkflowInv' /\ LoopInv'
    BY <1>i, <1>16, <2>1
       DEF Reinspect, AtAny, WorkflowInv, SessionStages, Sessions, Saves,
       LoopInv, ApplyInv, RollbackInv, SaveInv, devices
  <2> QED
    BY <1>i, <1>16, <2>2, EvidenceFrame, DeviceFrame
       DEF Reinspect, Unclaiming, devices, evidence
<1>17. CASE CopyConfig
  <2>1. PICK status \in {"SUCCESS", "FAILED", "UNKNOWN"} :
          /\ \/ start' = [start EXCEPT ![job.i] = run[job.i]]
             \/ status # "SUCCESS" /\ UNCHANGED start
          /\ IF status = "SUCCESS" THEN Goto("postdiff") ELSE FinishDevice(status, "none")
    BY <1>17 DEF CopyConfig
  <2>2. /\ job'.cmd = job.cmd /\ job'.target = job.target
        /\ \/ job'.i = job.i /\ job'.stage = "postdiff"
           \/ job'.stage = "finish" /\ SomeFailed'
    <3>1. CASE status = "SUCCESS"
      BY <1>i, <2>1, <3>1 DEF Goto, TypeOK, Job
    <3>2. CASE status \in {"FAILED", "UNKNOWN"}
      BY <1>i, <2>1, <3>2, FinishFacts DEF TypeOK, Stages, DeviceStatus
    <3> QED
      BY <3>1, <3>2
  <2>3. /\ UNCHANGED <<run, sent, wf, raw>> /\ UNCHANGED evidence /\ wf = "save_running"
        /\ job.cmd \in Saves /\ job.stage = "copy" /\ job.i \in Hosts
    BY <1>i, <1>17 DEF CopyConfig, AtAny, WorkflowInv, evidence, TypeOK, Job
  <2>4. \A h \in Hosts : h < job.i => start'[h] = start[h]
    <3>1. start \in [Hosts -> Config]
      BY <1>i DEF TypeOK, DevicesOK
    <3>2. \A h \in Hosts : h < job.i => h # job.i
      BY <2>3, NAssumption DEF Hosts
    <3> QED
      BY <2>1, <3>1, <3>2
  <2>5. WorkflowInv' /\ LoopInv'
    BY <1>i, <2>2, <2>3, <2>4 DEF WorkflowInv, SessionStages, Sessions, Saves,
       LoopInv, ApplyInv, RollbackInv, SaveInv
  <2>6. DeviceInv'
    BY <1>i, <2>3 DEF DeviceInv, PristineInv, PrefixApplied, WorkflowTellsDevices,
       CompletedUniform, Uniform, AllHold
  <2> QED
    BY <1>i, <2>3, <2>5, <2>6, EvidenceFrame
<1>18. CASE PostDiff
  <2>1. PICK s \in {"SUCCESS", "FAILED", "UNKNOWN"} :
          (s = "SUCCESS" => run[job.i] = start[job.i]) /\ FinishDevice(s, "reinspect")
    BY <1>18 DEF PostDiff
  <2>2. /\ job'.cmd = job.cmd /\ job'.target = job.target
        /\ \/ /\ run[job.i] = start[job.i]
              /\ IF job.i < N THEN job'.i = job.i + 1 /\ job'.stage = "reinspect"
                               ELSE job'.stage = "finish"
           \/ job'.stage = "finish" /\ SomeFailed'
    BY <1>i, <2>1, FinishFacts DEF TypeOK, Stages, DeviceStatus
  <2>3. /\ UNCHANGED <<run, start>> /\ job.cmd \in Saves /\ job.stage = "postdiff"
        /\ job.i \in Hosts
    BY <1>i, <1>18 DEF PostDiff, AtAny, devices, TypeOK, Job
  <2>4. WorkflowInv'
    BY <1>i, <1>18, <2>2, <2>3 DEF PostDiff, WorkflowInv, SessionStages, Sessions, Saves
  <2>5. /\ Seen = Steps =>
             \E own \in {{}, Steps} : \A h \in Hosts : job.target[h].own = own
        /\ \A h \in Hosts : run[h].own = job.target[h].own
        /\ \A h \in Hosts : h < job.i => start[h].own = run[h].own
    BY <1>i, <2>3 DEF LoopInv, SaveInv
  <2>6. SaveInv'
    <3>1. CASE job'.stage = "finish" /\ SomeFailed'
      BY <2>2, <2>5, <3>1 DEF SaveInv
    <3>2. CASE run[job.i] = start[job.i] /\ job.i < N
      <4>1. \A h \in Hosts : h < job.i + 1 => start[h].own = run[h].own
        BY <2>3, <2>5, <3>2 DEF Hosts
      <4> QED
        BY <2>2, <2>3, <2>5, <3>1, <3>2, <4>1 DEF SaveInv
    <3>3. CASE run[job.i] = start[job.i] /\ ~(job.i < N)
      <4>1. \A h \in Hosts : start[h].own = run[h].own
        BY <2>3, <2>5, <3>3, NAssumption DEF Hosts
      <4> QED
        BY <2>2, <2>3, <2>5, <3>3, <4>1 DEF SaveInv
    <3> QED
      BY <2>2, <3>1, <3>2, <3>3
  <2>7. LoopInv'
    BY <2>2, <2>3, <2>6 DEF LoopInv, ApplyInv, RollbackInv, Saves
  <2> QED
    BY <1>i, <1>18, <2>4, <2>7, EvidenceFrame, DeviceFrame
       DEF PostDiff, Unclaiming, devices, evidence
<1>19. CASE RecordSave
  <2>1. /\ job'.cmd = job.cmd /\ job'.target = job.target /\ job'.stage = "result"
        /\ job'.dev = job.dev
    BY <1>i, <1>19 DEF RecordSave, Goto, TypeOK, Job
  <2>2. WorkflowInv' /\ LoopInv'
    BY <1>i, <1>19, <2>1
       DEF RecordSave, AtAny, WorkflowInv, SessionStages, Sessions, Saves,
       LoopInv, ApplyInv, RollbackInv, SaveInv, SomeFailed, devices
  <2> QED
    BY <1>i, <1>19, <2>2, EvidenceFrame, DeviceFrame
       DEF RecordSave, Unclaiming, devices, evidence
<1>20. CASE SaveResult
  <2>1. \/ job' = NoJob
        \/ job'.cmd = job.cmd /\ job'.target = job.target /\ job'.stage = "complete"
    BY <1>i, <1>20 DEF SaveResult, Goto, Done, TypeOK, Job
  <2>2. /\ UNCHANGED <<run, start, sent, raw>> /\ UNCHANGED evidence
        /\ <<wf, wf'>> \in WORKFLOW_TRANSITIONS
        /\ job.cmd \in Saves /\ job.stage = "result"
    BY <1>20 DEF SaveResult, ToWorkflow, AtAny, devices, evidence
  <2>3. WorkflowInv' /\ LoopInv'
    BY <1>i, <2>1, <2>2 DEF NoJob, WorkflowInv, SessionStages, Sessions, Saves, LoopInv,
       ApplyInv, RollbackInv, SaveInv
  <2>4. CASE wf' = "save_failed"
    BY <1>i, <2>2, <2>3, <2>4, EvidenceFrame, DeviceFrame DEF Unclaiming, Claims
  <2>5. CASE wf' = "completed" /\ Overall = "SUCCESS"
    <3>1. /\ \A h \in Hosts : start[h].own = run[h].own
          /\ Seen = Steps =>
               \E own \in {{}, Steps} : \A h \in Hosts : run[h].own = own
      BY <1>i, <2>2, <2>5, OverallTells DEF LoopInv, SaveInv
    <3>2. DeviceInv'
      BY <1>i, <2>2, <2>5, <3>1 DEF DeviceInv, PristineInv, PrefixApplied,
         WorkflowTellsDevices, CompletedUniform, Uniform, PRE_APPLY_CLOSABLE_WORKFLOW_STATES
    <3> QED
      BY <1>i, <2>2, <2>3, <3>2, EvidenceFrame
  <2> QED
    BY <1>20, <2>4, <2>5 DEF SaveResult, ToWorkflow
<1>21. CASE CompleteLifecycle
  <2>1. job'.cmd \notin Guarded /\ job'.stage # "send"
    BY <1>i, <1>21, NoJobIsIdle
       DEF CompleteLifecycle, At, AtAny, Goto, Done, TypeOK, Job, Guarded, Sessions,
           Saves
  <2>2. Unclaiming
    BY <1>21 DEF CompleteLifecycle, ToWorkflow, Unclaiming, Claims
  <2> QED
    BY <1>i, <1>21, <2>1, <2>2, IdleKeeps, EvidenceFrame, DeviceFrame
       DEF CompleteLifecycle, devices, evidence
<1>22. CASE Accept
  <2>1. job'.cmd \notin Guarded /\ job'.stage # "send"
    BY <1>i, <1>22, NoJobIsIdle
       DEF Accept, At, AtAny, Goto, Done, TypeOK, Job, Guarded, Sessions, Saves
  <2>2. Unclaiming
    BY <1>22 DEF Accept, ToWorkflow, Unclaiming, Claims
  <2> QED
    BY <1>i, <1>22, <2>1, <2>2, IdleKeeps, EvidenceFrame, DeviceFrame
       DEF Accept, devices, evidence
<1> QED
  BY <1>1, <1>2, <1>3, <1>4, <1>5, <1>6, <1>7, <1>8, <1>9, <1>10, <1>11, <1>12, <1>13,
     <1>14, <1>15, <1>16, <1>17, <1>18, <1>19, <1>20, <1>21, <1>22
     DEF Step

\* The invariant holds at the start.
LEMMA InitInv == Init => IInv
<1> SUFFICES ASSUME Init PROVE IInv
  OBVIOUS
<1>1. TypeOK
  BY InitTypes
<1>2. WorkflowInv /\ LoopInv
  BY DEF Init, NoJob, WorkflowInv, SessionStages, Sessions, Saves, LoopInv, ApplyInv,
     RollbackInv, SaveInv
<1>3. EvidenceInv
  BY DEF Init, EvidenceInv, NoSnap, None, NoVerdict
<1>4. AllHold({}) /\ wf = "none" /\ ~sent /\ raw = NoSnap
  BY DEF Init, AllHold
<1>5. DeviceInv
  <2>1. PrefixApplied
    <3>1. 0 \in 0 .. C /\ \A h \in Hosts : run[h].own = 1 .. 0
      BY <1>4, NoCommands, CAssumption DEF AllHold
    <3> QED
      BY <1>4, <3>1 DEF PrefixApplied, AllHold
  <2> QED
    BY <1>4, <2>1 DEF DeviceInv, PristineInv, WorkflowTellsDevices, CompletedUniform,
       NoSnap, None
<1> QED
  BY <1>1, <1>2, <1>3, <1>5 DEF IInv

\* Every step keeps the invariant.
LEMMA NextKeeps == IInv /\ [Next]_vars => IInv'
<1> SUFFICES ASSUME IInv, [Next]_vars PROVE IInv'
  OBVIOUS
<1>1. TypeOK'
  BY NextKeepsTypes DEF IInv
<1>2. CASE Next
  BY <1>1, <1>2, StepKeeps, RequestKeeps, EnvironmentKeeps DEF Next, IInv
<1>3. CASE UNCHANGED vars
  <2>1. /\ UNCHANGED <<run, start, sent, wf, job, raw>> /\ UNCHANGED devices
        /\ UNCHANGED evidence
    BY <1>3 DEF vars, devices, evidence
  <2> QED
    BY <1>1, <2>1, WorkflowFrame, LoopFrame, EvidenceFrame, DeviceFrame
       DEF IInv, Unclaiming
<1> QED
  BY <1>2, <1>3

\* The invariant always holds.
LEMMA Invariance == Spec => []IInv
BY InitInv, NextKeeps, PTL DEF Spec

-----------------------------------------------------------------------------
(* The properties                                                          *)

\* After the first configuration command no crash, failure or signal leaves a
\* workflow state that `operation close` takes for an untouched fleet.
THEOREM Visible == Spec => []MutationVisible
<1>1. IInv => MutationVisible
  BY DEF IInv, DeviceInv, PristineInv, MutationVisible
<1> QED
  BY <1>1, Invariance, PTL

\* Serial execution in opposite directions keeps the devices a prefix of the
\* plan, for any number of devices and commands.
THEOREM Prefix == Spec => []PrefixApplied
<1>1. IInv => PrefixApplied
  BY DEF IInv, DeviceInv
<1> QED
  BY <1>1, Invariance, PTL

\* apply_completed and the rolled back states are true of every device.
THEOREM TellsDevices == Spec => []WorkflowTellsDevices
<1>1. IInv => WorkflowTellsDevices
  BY DEF IInv, DeviceInv
<1> QED
  BY <1>1, Invariance, PTL

\* A completed change is saved as it is, and on all devices or on none of them.
THEOREM EndsUniform == Spec => []CompletedUniform
<1>1. IInv => CompletedUniform
  BY DEF IInv, DeviceInv
<1> QED
  BY <1>1, Invariance, PTL

\* Only CopyConfig writes startup-config.
LEMMA OnlyCopySaves == Next => CopyConfig \/ start' = start
<1> SUFFICES ASSUME Next PROVE CopyConfig \/ start' = start
  OBVIOUS
<1>1. CASE Step
  BY <1>1
     DEF Step, devices, Plan, Approve, Judge, JudgeFails, EvaluateResult, RefuseDevice,
     AcceptDevice, BeginCommands, MarkStarted, SendCommand, RecordExecution,
     SessionResult, Escalate, Inspect, InspectFails, Reinspect, PostDiff, RecordSave,
     SaveResult, CompleteLifecycle, Accept
<1>2. CASE Request
  BY <1>2
     DEF Request, devices, Collect, PublishBefore, BeginPlan, BeginApprove, BeginApply,
     PublishAfter, Compare, BeginEvaluate, BeginSave, BeginRollback, VerifyRollback,
     PublishRollback, ConcludeRollback, AbandonRollback, BeginAccept, CheckClose, Close
<1>3. CASE Environment \/ Crash \/ Fail \/ Signal
  BY <1>3
     DEF Environment, devices, Edit, Capture, Expire, Reconcile, Crash, Fail, Signal,
     Fault
<1> QED
  BY <1>1, <1>2, <1>3 DEF Next

\* Only CopyConfig writes startup-config, and only after all devices were
\* found like the Snapshot the save works from.
THEOREM NoMixedSave == Spec => NoSaveWhileMixed
<1> DEFINE Same == Seen = Steps => Uniform
<1>1. IInv /\ CopyConfig => Same
  BY DEF IInv, LoopInv, SaveInv, CopyConfig, AtAny, Uniform
<1>2. IInv /\ [Next]_vars => (start' # start => Same)
  BY <1>1, OnlyCopySaves DEF vars
<1> QED
  BY <1>2, Invariance, PTL DEF Spec, NoSaveWhileMixed

-----------------------------------------------------------------------------
(* ManagedChange implements SerialChange.  The invariant says where a job  *)
(* stands; two commands of it change what the devices hold, and every      *)
(* other step at most changes what the workflow tells.                     *)

\* The devices as the abstract specification sees them.
OwnOf == [h \in Hosts |-> run[h].own]
SavedOf == [h \in Hosts |-> start[h].own]
Silent == OwnOf' = OwnOf /\ SavedOf' = SavedOf

\* What the commands of a job may write to the workflow state besides what the
\* table allows, and the one entry of the table nobody uses.
WorkflowStep ==
  \/ wf' = wf
  \/ <<wf, wf'>> \in WORKFLOW_TRANSITIONS /\ (wf' = "completed" => wf = "save_running")
  \/ wf' \in {"after_running", "rollback_required", "device_state_unknown"}

\* A step of a job that neither sends a command nor saves leaves the devices.
LEMMA StepMoves ==
  IInv /\ Step => WorkflowStep /\ (SendCommand \/ CopyConfig \/ UNCHANGED devices)
<1> SUFFICES ASSUME IInv, Step
             PROVE  WorkflowStep /\ (SendCommand \/ CopyConfig \/ UNCHANGED devices)
  OBVIOUS
<1>1. CASE SaveResult
  BY <1>1 DEF SaveResult, ToWorkflow, AtAny, IInv, WorkflowInv, WorkflowStep
<1>2. CASE Plan \/ Approve \/ Judge \/ JudgeFails \/ EvaluateResult \/ Accept
  BY <1>2 DEF Plan, Approve, Judge, JudgeFails, EvaluateResult, Accept, ToWorkflow,
              WorkflowStep
<1>3. CASE RefuseDevice \/ AcceptDevice \/ BeginCommands \/ MarkStarted \/ SendCommand
  BY <1>3 DEF RefuseDevice, AcceptDevice, BeginCommands, MarkStarted, SendCommand,
              ToWorkflow, WorkflowStep
<1>4. CASE RecordExecution \/ SessionResult \/ Escalate \/ RecordSave \/ CompleteLifecycle
  BY <1>4 DEF RecordExecution, SessionResult, Escalate, RecordSave, CompleteLifecycle,
              ToWorkflow, WorkflowStep
<1>5. CASE Inspect \/ InspectFails \/ Reinspect \/ CopyConfig \/ PostDiff
  BY <1>5 DEF Inspect, InspectFails, Reinspect, CopyConfig, PostDiff, WorkflowStep
<1> QED
  BY <1>1, <1>2, <1>3, <1>4, <1>5 DEF Step

\* A request to alred changes no device.
LEMMA RequestMoves == IInv /\ Request => WorkflowStep /\ UNCHANGED devices
<1> SUFFICES ASSUME Request PROVE WorkflowStep /\ UNCHANGED devices
  OBVIOUS
<1>1. CASE Collect \/ PublishBefore \/ BeginPlan \/ BeginApprove \/ BeginApply
  BY <1>1 DEF Collect, PublishBefore, BeginPlan, BeginApprove, BeginApply, WorkflowStep
<1>2. CASE PublishAfter \/ Compare("first") \/ Compare("again")
  BY <1>2 DEF PublishAfter, Compare, WorkflowStep
<1>3. CASE BeginEvaluate("evaluate") \/ BeginEvaluate("recheck")
  BY <1>3 DEF BeginEvaluate, WorkflowStep
<1>4. CASE BeginSave("save") \/ BeginSave("save_rollback")
  BY <1>4 DEF BeginSave, ToWorkflow, WorkflowStep
<1>5. CASE ConcludeRollback
  <2>1. ConcludeRollback =>
          /\ UNCHANGED devices
          /\ \/ wf' = wf
             \/ /\ <<wf, wf'>> \in WORKFLOW_TRANSITIONS
                /\ wf' \in {"rollback_health_failed", "rolled_back_and_verified"}
    BY DEF ConcludeRollback
  <2> QED
    BY <1>5, <2>1 DEF WorkflowStep
<1>6. CASE BeginRollback \/ VerifyRollback \/ PublishRollback \/ AbandonRollback
           \/ BeginAccept \/ CheckClose \/ Close
  BY <1>6 DEF BeginRollback, VerifyRollback, PublishRollback, AbandonRollback,
              BeginAccept, CheckClose, Close, WorkflowStep
<1> QED
  BY <1>1, <1>2, <1>3, <1>4, <1>5, <1>6 DEF Request

\* People, crashes, failures and signals change nothing of the change itself.
LEMMA EnvironmentMoves ==
  IInv /\ (Environment \/ Crash \/ Fail \/ Signal) => WorkflowStep /\ Silent
<1> SUFFICES ASSUME IInv, Environment \/ Crash \/ Fail \/ Signal
             PROVE  WorkflowStep /\ Silent
  OBVIOUS
<1>1. CASE \E h \in Hosts : Edit(h)
  <2> PICK h \in Hosts : Edit(h)
    BY <1>1
  <2>1. run \in [Hosts -> Config]
    BY DEF IInv, TypeOK, DevicesOK
  <2>2. \A g \in Hosts : run'[g].own = run[g].own
    BY <2>1 DEF Edit
  <2>3. UNCHANGED <<wf, start>>
    BY DEF Edit
  <2> QED
    BY <2>2, <2>3 DEF Silent, OwnOf, SavedOf, WorkflowStep
<1>2. CASE \E h \in Hosts : Capture(h)
  BY <1>2 DEF Capture, devices, Silent, OwnOf, SavedOf, WorkflowStep
<1>3. CASE Expire \/ Reconcile \/ Crash \/ Fail
  BY <1>3 DEF Expire, Reconcile, Crash, Fail, Fault, devices, Silent, OwnOf, SavedOf,
              WorkflowStep
<1>4. CASE Signal
  BY <1>4 DEF Signal, Fault, Silent, OwnOf, SavedOf, WorkflowStep
<1> QED
  BY <1>1, <1>2, <1>3, <1>4 DEF Environment

\* What the workflow tells the table does not allow to be told out of order,
\* and the invariant makes it true.
LEMMA TellMoves ==
  Seen = Steps /\ IInv /\ IInv' /\ WorkflowStep /\ Silent =>
    Serial!Tell \/ UNCHANGED <<OwnOf, SavedOf, Told>>
<1> SUFFICES ASSUME Seen = Steps, IInv, IInv', WorkflowStep, Silent, Told' # Told
             PROVE  Serial!Tell
  BY DEF Silent
<1>1. wf \in WORKFLOW_STATES /\ wf' \in WORKFLOW_STATES
  BY DEF IInv, TypeOK
<1>2. Told' \in Serial!Sayings
  BY DEF Told, Serial!Sayings
<1>3. Told' = "applying" => wf = "approved"
  BY DEF Told, WorkflowStep, WORKFLOW_TRANSITIONS
<1>4. Told' = "applied" => wf = "apply_running"
  BY DEF Told, WorkflowStep, WORKFLOW_TRANSITIONS
<1>5. Told' = "restored" => wf = "rollback_running"
  BY DEF Told, WorkflowStep, WORKFLOW_TRANSITIONS
<1>6. Told' = "saving" => wf \in {"after_completed", "rolled_back_and_verified"}
  BY DEF Told, WorkflowStep, WORKFLOW_TRANSITIONS
<1>7. Told' = "done" => wf = "save_running" /\ wf' = "completed"
  BY DEF Told, WorkflowStep, WORKFLOW_TRANSITIONS
<1>8. wf = "approved" => \A h \in Hosts : OwnOf[h] = {}
  BY DEF IInv, DeviceInv, PristineInv, AllHold, OwnOf, PRE_APPLY_CLOSABLE_WORKFLOW_STATES
<1>9. Told' = "applied" => \A h \in Hosts : OwnOf'[h] = Steps
  BY DEF IInv, DeviceInv, WorkflowTellsDevices, OwnOf, Told
<1>10. Told' = "restored" => \A h \in Hosts : OwnOf'[h] = {}
  BY DEF IInv, DeviceInv, WorkflowTellsDevices, OwnOf, Told
<1>11. Told' = "done" =>
         /\ (\A h \in Hosts : OwnOf'[h] = {}) \/ (\A h \in Hosts : OwnOf'[h] = Steps)
         /\ SavedOf' = OwnOf'
  BY <1>7 DEF IInv, DeviceInv, CompletedUniform, Uniform, OwnOf, SavedOf
<1>12. OwnOf' = OwnOf /\ SavedOf' = SavedOf
  BY DEF Silent
<1>13. Told' = "applying" => Told = "open"
  BY <1>3 DEF Told
<1>14. Told' = "applied" => Told = "applying"
  BY <1>4 DEF Told
<1>15. Told' = "restored" => Told = "restoring"
  BY <1>5 DEF Told
<1>16. Told' = "saving" => Told \in {"open", "restored"}
  BY <1>6 DEF Told
<1>17. Told' = "done" => Told = "saving"
  BY <1>7 DEF Told
<1>18. Told' \in Serial!Sayings \ {Told}
  BY <1>2
<1> HIDE DEF Told, Silent, WorkflowStep, IInv
<1>19. UNCHANGED <<OwnOf, SavedOf>>
  BY <1>12
<1> QED
  BY <1>3, <1>8, <1>9, <1>10, <1>11, <1>12, <1>13, <1>14, <1>15, <1>16, <1>17, <1>18
     DEF Serial!Tell, Serial!AllOwn, Serial!Alike, Serial!Devices, Hosts, Steps, OwnOf,
         SavedOf

\* Undoing the command of the rollback's turn is undoing the last one that is
\* there, or nothing.
LEMMA UndoneIsLast ==
  \A k \in Steps, n \in 0 .. C :
    (1 .. n) \subseteq 1 .. C + 1 - k =>
      \/ (1 .. n) \ {C + 1 - k} = 1 .. n
      \/ n \in 1 .. C /\ (1 .. n) \ {C + 1 - k} = 1 .. n - 1
<1> SUFFICES ASSUME NEW k \in Steps, NEW n \in 0 .. C, (1 .. n) \subseteq 1 .. C + 1 - k
             PROVE  \/ (1 .. n) \ {C + 1 - k} = 1 .. n
                    \/ n \in 1 .. C /\ (1 .. n) \ {C + 1 - k} = 1 .. n - 1
  OBVIOUS
<1>1. C \in Nat /\ k \in 1 .. C
  BY CAssumption DEF Steps
<1>2. CASE n = C + 1 - k
  BY <1>1, <1>2
<1>3. CASE n # C + 1 - k
  <2>1. n \in 1 .. n => n < C + 1 - k
    BY <1>1, <1>3
  <2>2. n < C + 1 - k
    BY <1>1, <2>1
  <2> QED
    BY <1>1, <2>2
<1> QED
  BY <1>2, <1>3

\* A command of an apply reaches the first device that is not done, one of a
\* rollback the last device that is not clear.
LEMMA SendMoves ==
  IInv /\ SendCommand =>
    \/ \E h \in Hosts : Serial!Forward(h) \/ Serial!Back(h)
    \/ UNCHANGED <<OwnOf, SavedOf, Told>>
<1> SUFFICES ASSUME IInv, SendCommand, OwnOf' # OwnOf
             PROVE  \E h \in Hosts : Serial!Forward(h) \/ Serial!Back(h)
  BY DEF SendCommand, OwnOf, SavedOf, Told
<1>0. run' # run
  BY DEF OwnOf
<1>1. /\ job \in Job /\ run \in [Hosts -> Config] /\ Current \in Hosts
      /\ job.k \in Steps /\ job.i \in Hosts
  BY CurrentIsHost DEF IInv, TypeOK, DevicesOK, Job
<1>2. /\ run' = [run EXCEPT ![Current] = Effect(job.cmd, run[Current], job.k)]
      /\ UNCHANGED <<start, wf>> /\ job.stage = "send" /\ job.cmd \in Sessions
  BY <1>0 DEF SendCommand, AtAny
<1>3. job.begun /\ (job.cmd = "apply" => wf = "apply_running")
                /\ (job.cmd = "rollback" => wf = "rollback_running")
  BY <1>2 DEF IInv, WorkflowInv, SessionStages, Sessions
<1>4. UNCHANGED <<SavedOf, Told>>
  BY <1>2 DEF SavedOf, Told
<1>5. /\ N \in Nat /\ C \in Nat /\ Hosts = 1 .. N /\ Steps = 1 .. C
  BY NAssumption, CAssumption DEF Hosts, Steps
<1>6. CASE job.cmd = "apply"
  <2>1. /\ \A g \in Hosts : g < job.i => OwnOf[g] = Steps
        /\ \A g \in Hosts : g > job.i => OwnOf[g] = {}
        /\ OwnOf[job.i] = 1 .. job.k - 1 /\ run[job.i].own = 1 .. job.k - 1
    BY <1>1, <1>2, <1>6 DEF IInv, LoopInv, ApplyInv, OwnOf
  <2>2. Current = job.i
    BY <1>6 DEF Current
  <2>3. Effect(job.cmd, run[Current], job.k).own = 1 .. job.k
    BY <1>1, <1>6, <2>1, <2>2, OneMore DEF Effect
  <2>4. OwnOf' = [OwnOf EXCEPT ![job.i] = 1 .. job.k]
    BY <1>1, <1>2, <2>2, <2>3 DEF OwnOf
  <2>5. Told = "applying"
    BY <1>3, <1>6 DEF Told
  <2> PICK h \in Hosts : h = job.i
    BY <1>1
  <2>6. Serial!Forward(h)
    BY <1>1, <1>4, <1>5, <2>1, <2>4, <2>5
       DEF Serial!Forward, Serial!Devices, OwnOf, SavedOf
  <2> QED
    BY <2>6
<1>7. CASE job.cmd = "rollback"
  <2>1. /\ \A g \in Hosts : g > Current => OwnOf[g] = {}
        /\ run[Current].own \subseteq 1 .. C + 1 - job.k
    BY <1>1, <1>2, <1>7 DEF IInv, LoopInv, RollbackInv, OwnOf
  <2>2. PICK n \in 0 .. C : run[Current].own = 1 .. n
    BY <1>1 DEF IInv, DeviceInv, PrefixApplied
  <2>3. Effect(job.cmd, run[Current], job.k).own = (1 .. n) \ {C + 1 - job.k}
    BY <1>7, <2>2 DEF Effect
  <2>4. \/ (1 .. n) \ {C + 1 - job.k} = 1 .. n
        \/ n \in 1 .. C /\ (1 .. n) \ {C + 1 - job.k} = 1 .. n - 1
    BY <1>1, <2>1, <2>2, UndoneIsLast
  <2>5. CASE (1 .. n) \ {C + 1 - job.k} = 1 .. n
    <3>1. \A h \in Hosts : run'[h].own = run[h].own
      BY <1>1, <1>2, <2>2, <2>3, <2>5
    <3> QED
      BY <3>1 DEF OwnOf
  <2>6. CASE n \in 1 .. C /\ (1 .. n) \ {C + 1 - job.k} = 1 .. n - 1
    <3>1. OwnOf' = [OwnOf EXCEPT ![Current] = 1 .. n - 1]
      BY <1>1, <1>2, <2>3, <2>6 DEF OwnOf
    <3>2. OwnOf[Current] = 1 .. n
      BY <1>1, <2>2 DEF OwnOf
    <3>3. Told = "restoring"
      BY <1>3, <1>7 DEF Told
    <3> HIDE DEF Current
    <3> PICK h \in Hosts : h = Current
      BY <1>1
    <3>4. Serial!Back(h)
      BY <1>1, <1>4, <1>5, <2>1, <2>6, <3>1, <3>2, <3>3
         DEF Serial!Back, Serial!Devices, OwnOf, SavedOf
    <3> QED
      BY <3>4
  <2> QED
    BY <2>4, <2>5, <2>6
<1> QED
  BY <1>2, <1>6, <1>7 DEF Sessions

\* A device is saved while all of them have been found alike.
LEMMA CopyMoves ==
  Seen = Steps /\ IInv /\ CopyConfig =>
    (\E h \in Hosts : Serial!Save(h)) \/ UNCHANGED <<OwnOf, SavedOf, Told>>
<1> SUFFICES ASSUME Seen = Steps, IInv, CopyConfig, start' # start
             PROVE  \E h \in Hosts : Serial!Save(h)
  BY DEF CopyConfig, OwnOf, SavedOf, Told
<1>1. /\ job.i \in Hosts /\ start \in [Hosts -> Config]
  BY DEF IInv, TypeOK, DevicesOK, Job
<1>2. /\ start' = [start EXCEPT ![job.i] = run[job.i]]
      /\ UNCHANGED <<run, wf>> /\ job.stage = "copy" /\ job.cmd \in Saves
  BY DEF CopyConfig, AtAny
<1>3. wf = "save_running"
  BY <1>2 DEF IInv, WorkflowInv
<1>4. \E own \in {{}, Steps} : \A h \in Hosts : run[h].own = own
  BY <1>2 DEF IInv, LoopInv, SaveInv
<1>5. SavedOf' = [SavedOf EXCEPT ![job.i] = OwnOf[job.i]]
  BY <1>1, <1>2 DEF SavedOf, OwnOf
<1>6. (\A h \in Hosts : OwnOf[h] = {}) \/ (\A h \in Hosts : OwnOf[h] = Steps)
  BY <1>4 DEF OwnOf
<1>7. Told = "saving" /\ UNCHANGED <<OwnOf, Told>>
  BY <1>2, <1>3 DEF Told, OwnOf
<1> PICK i \in Hosts : i = job.i
  BY <1>1
<1>8. Serial!Save(i)
  BY <1>1, <1>5, <1>6, <1>7
     DEF Serial!Save, Serial!Alike, Serial!AllOwn, Serial!Devices, Hosts, Steps, OwnOf,
         SavedOf
<1> QED
  BY <1>8

\* Every step of the managed change is one of the serial change, or none of its
\* business.
LEMMA NextMoves ==
  Seen = Steps /\ IInv /\ IInv' /\ [Next]_vars => [Serial!SerialNext]_(Serial!serialVars)
<1> SUFFICES ASSUME Seen = Steps, IInv, IInv', [Next]_vars
             PROVE  Serial!SerialNext \/ UNCHANGED <<OwnOf, SavedOf, Told>>
  BY DEF Serial!serialVars, OwnOf, SavedOf
<1>1. UNCHANGED devices => Silent
  BY DEF devices, Silent, OwnOf, SavedOf
<1>2. CASE Step
  BY <1>1, <1>2, StepMoves, TellMoves, SendMoves, CopyMoves
     DEF Serial!SerialNext, Serial!Devices, Hosts
<1>3. CASE Request
  BY <1>1, <1>3, RequestMoves, TellMoves DEF Serial!SerialNext
<1>4. CASE Environment \/ Crash \/ Fail \/ Signal
  BY <1>4, EnvironmentMoves, TellMoves DEF Serial!SerialNext
<1>5. CASE UNCHANGED vars
  BY <1>5 DEF vars, OwnOf, SavedOf, Told
<1> QED
  BY <1>2, <1>3, <1>4, <1>5 DEF Next

\* If the evaluation misses no command of the change, the managed change implements
\* the serial change: whatever fails, is killed,
\* interrupted or repeated, commands go forward and back one device at a time,
\* startup-config is written from a uniform fleet only, and what the workflow
\* state tells of the fleet is true when it is told and until the next session.
THEOREM SerialImplemented == Seen = Steps => (Spec => ImplementsSerial)
<1> SUFFICES ASSUME Seen = Steps PROVE Spec => ImplementsSerial
  OBVIOUS
<1>1. Init => Serial!SerialInit
  <2> SUFFICES ASSUME Init PROVE Serial!SerialInit
    OBVIOUS
  <2>1. /\ OwnOf = [h \in Hosts |-> {}] /\ SavedOf = OwnOf
        /\ Told = "open"
    BY DEF Init, OwnOf, SavedOf, Told
  <2> QED
    BY <2>1 DEF Serial!SerialInit, Serial!Devices, Hosts, OwnOf, SavedOf
<1>2. IInv /\ IInv' /\ [Next]_vars => [Serial!SerialNext]_(Serial!serialVars)
  BY NextMoves
<1> QED
  BY <1>1, <1>2, Invariance, PTL DEF Spec, ImplementsSerial, Serial!SerialSpec

-----------------------------------------------------------------------------
(* What was unsaved before the work.  The save takes the absence of a diff *)
(* for a clean one; that there is a diff, and a clean one, of every device *)
(* is due to the apply, which went by the approval the save goes by.       *)

\* The precheck found device h saved, and so it was.
Kept(pre, h) == pre[h] = "clean" /\ start[h].other # 0

\* An apply with a save policy keeps the devices it has been to.
ApplyClean ==
  job.cmd = "apply" /\ approval = "save" =>
    /\ job.stage \in {"connect", "begin", "send"} =>
         \A h \in Hosts : h < job.i => Kept(job.pre, h)
    /\ job.stage \in {"begin", "send"} => Kept(job.pre, job.i)
    /\ job.stage \in {"finish", "result"} =>
         SomeFailed \/ \A h \in Hosts : Kept(job.pre, h)

\* Its record says so to the save, which reads the same approval.
CleanInv ==
  /\ \A h \in Hosts : run[h].other # 0
  /\ applied.result # "none" \/ job.cmd \in {"apply", "save"} => approval # "none"
  /\ ApplyClean
  /\ applied.result = "APPLIED_PENDING_HEALTH" /\ approval = "save" =>
       \A h \in Hosts : Kept(applied.pre, h)
  /\ job.cmd = "save" => \A h \in Hosts : Kept(applied.pre, h)

\* The steps of a job write no approval, and it keeps its command to its end.
LEMMA StepRecords ==
  TypeOK /\ Step =>
    /\ approval' = approval
    /\ RecordExecution \/ RecordSave \/ applied' = applied
    /\ job'.cmd \in {job.cmd, "none"}
<1> SUFFICES ASSUME TypeOK, Step
             PROVE  /\ approval' = approval
                    /\ RecordExecution \/ RecordSave \/ applied' = applied
                    /\ job'.cmd \in {job.cmd, "none"}
  OBVIOUS
<1>t. job \in Job
  BY DEF TypeOK
<1>d. ASSUME NEW s, NEW t, FinishDevice(s, t) PROVE job'.cmd = job.cmd
  <2> DEFINE i == IF s = "SUCCESS" /\ job.i < N THEN job.i + 1 ELSE job.i
             u == IF s = "SUCCESS" /\ job.i < N THEN t ELSE "finish"
             dev == [job.dev EXCEPT ![Current] = s]
  <2>1. job' = [job EXCEPT !.dev = dev, !.i = i, !.k = 1, !.stage = u]
    BY <1>t, <1>d DEF FinishDevice, Job
  <2> HIDE DEF i, u, dev
  <2> QED
    BY <1>t, <2>1 DEF Job
<1>g. /\ \A s : Goto(s) => job'.cmd = job.cmd
      /\ Done => job'.cmd = "none"
      /\ \A s, t : FinishDevice(s, t) => job'.cmd = job.cmd
  BY <1>t, <1>d DEF Goto, Done, NoJob, Job
<1>1. CASE Plan \/ Approve \/ Judge \/ JudgeFails \/ EvaluateResult \/ Accept
  BY <1>1, <1>t, <1>g DEF Plan, Approve, Judge, JudgeFails, EvaluateResult, Accept, At,
     AtAny, records, Job
<1>2. CASE RefuseDevice \/ AcceptDevice \/ BeginCommands \/ MarkStarted \/ SendCommand
  BY <1>2, <1>t, <1>g DEF RefuseDevice, AcceptDevice, BeginCommands, MarkStarted,
     SendCommand, At, AtAny, Sessions, records, Job
<1>3. CASE RecordExecution \/ SessionResult \/ Escalate \/ RecordSave \/ CompleteLifecycle
           \/ SaveResult
  BY <1>3, <1>t, <1>g DEF RecordExecution, SessionResult, Escalate, RecordSave,
     CompleteLifecycle, SaveResult, At, AtAny, Sessions, Saves, records, Job
<1>4. CASE Inspect \/ InspectFails \/ Reinspect \/ CopyConfig \/ PostDiff
  BY <1>4, <1>t, <1>g DEF Inspect, InspectFails, Reinspect, CopyConfig, PostDiff, At, AtAny,
     Saves, records, Job
<1> QED
  BY <1>1, <1>2, <1>3, <1>4 DEF Step

\* Only approve writes one; an apply and a save begin where there is one.
LEMMA RequestRecords ==
  Request =>
    /\ applied' = applied /\ UNCHANGED devices
    /\ BeginApprove \/ approval' = approval
    /\ \/ job' = job
       \/ BeginApply \/ BeginSave("save")
       \/ job'.cmd \notin {"apply", "save"}
<1> SUFFICES ASSUME Request
             PROVE  /\ applied' = applied /\ UNCHANGED devices
                    /\ BeginApprove \/ approval' = approval
                    /\ \/ job' = job
                       \/ BeginApply \/ BeginSave("save")
                       \/ job'.cmd \notin {"apply", "save"}
  OBVIOUS
<1> USE DEF Take, NoJob, records
<1>1. CASE Collect \/ PublishBefore \/ BeginPlan \/ BeginApprove \/ BeginApply
  BY <1>1 DEF Collect, PublishBefore, BeginPlan, BeginApprove, BeginApply
<1>2. CASE PublishAfter \/ Compare("first") \/ Compare("again")
  BY <1>2 DEF PublishAfter, Compare
<1>3. CASE BeginEvaluate("evaluate") \/ BeginEvaluate("recheck")
  BY <1>3 DEF BeginEvaluate
<1>4. CASE BeginSave("save") \/ BeginSave("save_rollback")
  BY <1>4 DEF BeginSave
<1>5. CASE ConcludeRollback \/ BeginRollback \/ VerifyRollback \/ PublishRollback
           \/ AbandonRollback \/ BeginAccept \/ CheckClose \/ Close
  BY <1>5 DEF ConcludeRollback, BeginRollback, VerifyRollback, PublishRollback,
              AbandonRollback, BeginAccept, CheckClose, Close
<1> QED
  BY <1>1, <1>2, <1>3, <1>4, <1>5 DEF Request

\* People and faults write no record of these, and begin no job.
LEMMA EnvironmentRecords ==
  Environment \/ Crash \/ Fail \/ Signal =>
    /\ approval' = approval /\ applied' = applied /\ start' = start
    /\ run' = run \/ \E h \in Hosts : Edit(h)
    /\ job' = job \/ job'.cmd = "none"
BY DEF Environment, Edit, Capture, Expire, Reconcile, Crash, Fail, Signal, Fault, Done,
       NoJob, records, devices

\* What neither begins an apply or a save nor works for an apply keeps the invariant.
LEMMA CleanFrame ==
  ASSUME TypeOK, CleanInv, approval' = approval, applied' = applied,
         \A h \in Hosts : run'[h].other # 0,
         \A h \in Hosts : start[h].other # 0 => start'[h].other # 0,
         \/ job' = job
         \/ job'.cmd \notin {"apply", "save"}
         \/ job.cmd = "save" /\ job'.cmd = "save"
  PROVE  CleanInv'
<1>1. \A h \in Hosts : Kept(applied.pre, h) => Kept(applied.pre, h)'
  BY DEF Kept
<1>2. CASE job' = job
  <2>1. job.cmd = "apply" =>
          \A h \in Hosts : Kept(job.pre, h) => Kept(job.pre, h)'
    BY <1>2 DEF Kept
  <2>2. job.i \in Hosts /\ SomeFailed' = SomeFailed
    BY <1>2 DEF SomeFailed, TypeOK, Job
  <2>3. ApplyClean'
    BY <1>2, <2>1, <2>2 DEF CleanInv, ApplyClean
  <2> QED
    BY <1>1, <1>2, <2>3 DEF CleanInv
<1>3. CASE job'.cmd \notin {"apply", "save"}
  BY <1>1, <1>3 DEF CleanInv, ApplyClean
<1>4. CASE job.cmd = "save" /\ job'.cmd = "save"
  BY <1>1, <1>4 DEF CleanInv, ApplyClean
<1> QED
  BY <1>2, <1>3, <1>4

\* No step brings back the version older than the change began with.
LEMMA NoStepAges ==
  ASSUME IInv, CleanInv, Step \/ \E h \in Hosts : Edit(h)
  PROVE  /\ \A h \in Hosts : run'[h].other # 0
         /\ \A h \in Hosts : start[h].other # 0 => start'[h].other # 0
<1>t. /\ run \in [Hosts -> Config] /\ start \in [Hosts -> Config]
      /\ edits \in 0 .. MaxEdits /\ Current \in Hosts /\ job.i \in Hosts
  BY CurrentIsHost DEF IInv, TypeOK, DevicesOK, Job
<1>r. \A h \in Hosts : run[h].other # 0
  BY DEF CleanInv
<1>1. CASE SendCommand
  <2>1. start' = start
    BY <1>1 DEF SendCommand
  <2>2. run' = run \/ run' = [run EXCEPT ![Current] = Effect(job.cmd, run[Current], job.k)]
    BY <1>1 DEF SendCommand
  <2>3. Effect(job.cmd, run[Current], job.k).other = run[Current].other
    BY DEF Effect
  <2> QED
    BY <1>t, <1>r, <2>1, <2>2, <2>3
<1>2. CASE CopyConfig
  <2>1. run' = run /\ (start' = start \/ start' = [start EXCEPT ![job.i] = run[job.i]])
    BY <1>2 DEF CopyConfig
  <2> QED
    BY <1>t, <1>r, <2>1
<1>3. CASE UNCHANGED devices
  BY <1>3, <1>r DEF devices
<1>4. CASE \E h \in Hosts : Edit(h)
  <2> PICK h \in Hosts : Edit(h)
    BY <1>4
  <2>1. /\ start' = start
        /\ run' = [run EXCEPT ![h] = [own |-> run[h].own, other |-> edits + 2]]
    BY DEF Edit
  <2>2. edits + 2 # 0
    BY <1>t, MaxEditsAssumption
  <2> QED
    BY <1>t, <1>r, <2>1, <2>2
<1> QED
  BY <1>1, <1>2, <1>3, <1>4, StepMoves

\* A device of an apply is done: it was kept, or the apply has failed.
LEMMA FinishClean ==
  ASSUME IInv, NEW status \in DeviceStatus, FinishDevice(status, "connect"),
         job.cmd = "apply", job.stage \in {"connect", "begin", "send"},
         start' = start, approval' = approval, ApplyClean,
         approval = "save" /\ status = "SUCCESS" => Kept(job.pre, job.i),
         status # "NOT_STARTED"
  PROVE  ApplyClean'
<1>1. /\ job \in Job /\ job.i \in Hosts /\ N \in Nat /\ Hosts = 1 .. N
  BY NAssumption DEF IInv, TypeOK, Job, Hosts
<1>2. job'.pre = job.pre
  <2> DEFINE i == IF status = "SUCCESS" /\ job.i < N THEN job.i + 1 ELSE job.i
             u == IF status = "SUCCESS" /\ job.i < N THEN "connect" ELSE "finish"
             dev == [job.dev EXCEPT ![Current] = status]
  <2>1. job' = [job EXCEPT !.dev = dev, !.i = i, !.k = 1, !.stage = u]
    BY <1>1 DEF FinishDevice, Job
  <2> HIDE DEF i, u, dev
  <2> QED
    BY <1>1, <2>1 DEF Job
<1>3. /\ job'.cmd = "apply"
      /\ IF status = "SUCCESS" /\ job.i < N
         THEN job'.i = job.i + 1 /\ job'.stage = "connect"
         ELSE job'.i = job.i /\ job'.stage = "finish"
      /\ status \in {"FAILED", "UNKNOWN"} => SomeFailed'
  BY <1>1, FinishFacts DEF Stages
<1>4. CASE status = "SUCCESS"
  <2>1. approval = "save" => \A h \in Hosts : h < job.i + 1 => Kept(job.pre, h)
    <3>1. \A h \in Hosts : h < job.i + 1 => h < job.i \/ h = job.i
      BY <1>1
    <3> QED
      BY <1>4, <3>1 DEF ApplyClean
  <2>2. approval = "save" => \A h \in Hosts : h < job.i + 1 => Kept(job.pre, h)'
    BY <1>2, <2>1 DEF Kept
  <2>3. job.i = N => \A h \in Hosts : h < job.i + 1
    BY <1>1
  <2>4. job.i < N \/ job.i = N
    BY <1>1
  <2>5. CASE job.i < N
    BY <1>3, <1>4, <2>2, <2>5 DEF ApplyClean
  <2>6. CASE job.i = N
    <3>1. job'.stage = "finish" /\ ~(job.i < N)
      BY <1>1, <1>3, <2>6
    <3>2. approval = "save" => \A h \in Hosts : Kept(job.pre, h)'
      BY <2>2, <2>3, <2>6
    <3> QED
      BY <3>1, <3>2 DEF ApplyClean
  <2> QED
    BY <2>4, <2>5, <2>6
<1>5. CASE status \in {"FAILED", "UNKNOWN"}
  BY <1>3, <1>5 DEF ApplyClean
<1> QED
  BY <1>4, <1>5 DEF DeviceStatus

\* A step of an apply.
LEMMA ApplyStepClean ==
  ASSUME IInv, CleanInv, Step, job.cmd = "apply" PROVE CleanInv'
<1>1. /\ TypeOK /\ job \in Job /\ job.i \in Hosts /\ Current = job.i
  BY DEF IInv, TypeOK, Job, Current
<1>2. /\ approval' = approval /\ approval # "none"
      /\ job'.cmd \in {"apply", "none"}
  BY <1>1, StepRecords DEF CleanInv
<1>3. /\ \A h \in Hosts : run'[h].other # 0
      /\ \A h \in Hosts : start[h].other # 0 => start'[h].other # 0
  BY NoStepAges
<1>4. ASSUME applied' = applied, ApplyClean' PROVE CleanInv'
  <2>1. \A h \in Hosts : Kept(applied.pre, h) => Kept(applied.pre, h)'
    BY <1>3, <1>4 DEF Kept
  <2> QED
    BY <1>2, <1>3, <1>4, <2>1 DEF CleanInv
<1>a. ApplyClean
  BY DEF CleanInv
<1>5. CASE RefuseDevice
  <2>0. applied' = applied /\ start' = start
    BY <1>5 DEF RefuseDevice, records, devices
  <2>1. CASE \E s \in {"FAILED", "UNKNOWN"} : FinishDevice(s, "connect")
    BY <1>1, <1>2, <1>4, <1>5, <1>a, <2>0, <2>1, FinishClean
       DEF RefuseDevice, AtAny, DeviceStatus
  <2>2. CASE job' = [job EXCEPT !.dev[Current] = "FAILED", !.pre[Current] = "dirty",
                       !.stage = "finish"]
    <3>1. job'.dev[job.i] = "FAILED" /\ job'.stage = "finish"
      BY <1>1, <2>2 DEF Job
    <3>2. SomeFailed'
      BY <1>1, <3>1 DEF SomeFailed
    <3> QED
      BY <1>4, <2>0, <3>1, <3>2 DEF ApplyClean
  <2> QED
    BY <1>5, <2>1, <2>2 DEF RefuseDevice
<1>6. CASE AcceptDevice
  <2>0. /\ applied' = applied /\ start' = start /\ job.stage = "connect"
    BY <1>6 DEF AcceptDevice, records, devices, AtAny
  <2>1. CASE approval = "save"
    <3> DEFINE pre == [job.pre EXCEPT ![job.i] = "clean"]
    <3>1. /\ run[job.i] = start[job.i]
          /\ job' = [job EXCEPT !.pre = pre, !.stage = "begin"]
      BY <1>1, <1>6, <2>1 DEF AcceptDevice, Job
    <3>2. /\ pre[job.i] = "clean"
          /\ \A h \in Hosts : h # job.i => pre[h] = job.pre[h]
      BY <1>1 DEF Job
    <3> HIDE DEF pre
    <3>3. job'.pre = pre /\ job'.stage = "begin" /\ job'.i = job.i
      BY <1>1, <3>1 DEF Job
    <3>4. start[job.i].other # 0
      BY <1>1, <3>1 DEF CleanInv
    <3>5. \A h \in Hosts : h < job.i => Kept(job.pre, h)
      BY <1>a, <2>0, <2>1 DEF ApplyClean
    <3>6. \A h \in Hosts : h < job.i => h # job.i
      BY <1>1, NAssumption DEF Hosts
    <3>7. \A h \in Hosts : h < job.i => pre[h] = "clean" /\ start[h].other # 0
      BY <3>2, <3>5, <3>6 DEF Kept
    <3>8. ApplyClean'
      BY <2>0, <3>2, <3>3, <3>4, <3>7 DEF ApplyClean, Kept
    <3> QED
      BY <1>4, <2>0, <3>8
  <2>2. CASE approval # "save"
    BY <1>2, <1>4, <2>0, <2>2 DEF ApplyClean
  <2> QED
    BY <2>1, <2>2
<1>7. CASE BeginCommands
  <2>1. /\ applied' = applied /\ start' = start
        /\ job'.stage = job.stage /\ job'.i = job.i /\ job'.pre = job.pre
        /\ job'.dev = job.dev
    BY <1>1, <1>7 DEF BeginCommands, records, devices, Job
  <2> QED
    BY <1>2, <1>4, <1>a, <2>1 DEF ApplyClean, Kept, SomeFailed
<1>8. CASE MarkStarted
  <2>1. /\ applied' = applied /\ start' = start
        /\ job.stage = "begin" /\ job'.stage = "send" /\ job'.i = job.i
        /\ job'.pre = job.pre
    BY <1>1, <1>8 DEF MarkStarted, records, devices, AtAny, Job
  <2> QED
    BY <1>2, <1>4, <1>a, <2>1 DEF ApplyClean, Kept
<1>9. CASE SendCommand
  <2>0. applied' = applied /\ start' = start /\ job.stage = "send"
    BY <1>9 DEF SendCommand, records, AtAny
  <2>1. CASE job' = [job EXCEPT !.k = job.k + 1]
    <3>1. job'.stage = "send" /\ job'.i = job.i /\ job'.pre = job.pre
      BY <1>1, <2>0, <2>1 DEF Job
    <3> QED
      BY <1>2, <1>4, <1>a, <2>0, <3>1 DEF ApplyClean, Kept
  <2>2. CASE \E s \in {"SUCCESS", "FAILED", "UNKNOWN"} : FinishDevice(s, "connect")
    <3> PICK s \in {"SUCCESS", "FAILED", "UNKNOWN"} : FinishDevice(s, "connect")
      BY <2>2
    <3>1. approval = "save" => Kept(job.pre, job.i)
      BY <1>a, <2>0 DEF ApplyClean
    <3>2. ApplyClean'
      BY <1>2, <1>a, <2>0, <3>1, FinishClean DEF DeviceStatus
    <3> QED
      BY <1>4, <2>0, <3>2
  <2> QED
    BY <1>9, <2>1, <2>2 DEF SendCommand
<1>10. CASE RecordExecution
  <2>1. /\ applied'.pre = job.pre /\ start' = start /\ job.stage = "finish"
        /\ applied'.result = "APPLIED_PENDING_HEALTH" => Overall = "SUCCESS"
    BY <1>10 DEF RecordExecution, devices, AtAny
  <2>2. /\ job'.stage = "result" /\ job'.pre = job.pre /\ job'.dev = job.dev
        /\ job'.cmd = "apply"
    BY <1>1, <1>10 DEF RecordExecution, Goto, Job
  <2>3. ApplyClean'
    BY <1>2, <1>a, <2>1, <2>2 DEF ApplyClean, Kept, SomeFailed
  <2>4. applied'.result = "APPLIED_PENDING_HEALTH" /\ approval = "save" =>
          \A h \in Hosts : Kept(job.pre, h)
    BY <1>a, <2>1, OverallTells DEF ApplyClean
  <2> QED
    BY <1>2, <1>3, <2>1, <2>2, <2>3, <2>4 DEF CleanInv, Kept
<1>11. CASE SessionResult \/ Escalate
  <2>1. applied' = applied /\ (job'.stage = "escalate" \/ job'.cmd = "none")
    BY <1>1, <1>11 DEF SessionResult, Escalate, Goto, Done, NoJob, records, Job
  <2> QED
    BY <1>4, <2>1 DEF ApplyClean
<1> QED
  BY <1>5, <1>6, <1>7, <1>8, <1>9, <1>10, <1>11
     DEF Step, Plan, Approve, Judge, JudgeFails, EvaluateResult, Accept, At, AtAny, Saves,
         Inspect, InspectFails, Reinspect, CopyConfig, PostDiff, RecordSave, SaveResult,
         CompleteLifecycle

\* Every step keeps the invariant.
LEMMA CleanKeeps ==
  ASSUME IInv, CleanInv, [Next]_vars PROVE CleanInv'
<1>r. \A h \in Hosts : run[h].other # 0
  BY DEF CleanInv
<1>1. CASE Step /\ job.cmd = "apply"
  BY <1>1, ApplyStepClean
<1>2. CASE Step /\ job.cmd # "apply"
  <2>1. /\ approval' = approval /\ job'.cmd \in {job.cmd, "none"}
        /\ RecordExecution \/ RecordSave \/ applied' = applied
    BY <1>2, StepRecords DEF IInv
  <2>2. /\ \A h \in Hosts : run'[h].other # 0
        /\ \A h \in Hosts : start[h].other # 0 => start'[h].other # 0
    BY <1>2, NoStepAges
  <2>3. CASE applied' = applied
    BY <1>2, <2>1, <2>2, <2>3, CleanFrame DEF IInv
  <2>4. CASE RecordSave /\ applied' # applied
    <3>1. /\ job.cmd = "save" /\ applied'.pre = applied.pre
          /\ applied'.result \in {"APPLIED_AND_VERIFIED", "SAVE_FAILED"}
      BY <2>4 DEF RecordSave
    <3>2. approval # "none" /\ \A h \in Hosts : Kept(applied.pre, h)
      BY <3>1 DEF CleanInv
    <3>3. \A h \in Hosts : Kept(applied.pre, h)'
      BY <2>2, <3>1, <3>2 DEF Kept
    <3> QED
      BY <1>2, <2>1, <2>2, <3>1, <3>2, <3>3 DEF CleanInv, ApplyClean
  <2>5. RecordExecution => applied' = applied
    BY <1>2 DEF RecordExecution
  <2> QED
    BY <2>1, <2>3, <2>4, <2>5
<1>3. CASE Request
  <2>1. /\ applied' = applied /\ run' = run /\ start' = start
        /\ BeginApprove \/ approval' = approval
        /\ \/ job' = job
           \/ BeginApply \/ BeginSave("save")
           \/ job'.cmd \notin {"apply", "save"}
    BY <1>3, RequestRecords DEF devices
  <2>2. CASE BeginApprove
    <3>1. job'.cmd = "approve" /\ (approval # "none" => approval' = approval)
      BY <2>2 DEF BeginApprove, Take, NoJob
    <3>2. approval = "none" => applied.result = "none"
      BY DEF CleanInv
    <3> QED
      BY <1>r, <2>1, <3>1, <3>2 DEF CleanInv, ApplyClean, Kept
  <2>3. CASE BeginApply
    <3>1. /\ job'.cmd = "apply" /\ job'.stage = "connect" /\ job'.i = 1
          /\ approval # "none" /\ approval' = approval
      BY <2>3 DEF BeginApply, Take, NoJob, records
    <3>2. \A h \in Hosts : ~(h < 1)
      BY NAssumption DEF Hosts
    <3> QED
      BY <1>r, <2>1, <3>1, <3>2 DEF CleanInv, ApplyClean, Kept
  <2>4. CASE BeginSave("save")
    <3>1. /\ job'.cmd = "save" /\ approval = "save" /\ approval' = approval
          /\ applied.result = "APPLIED_PENDING_HEALTH"
      BY <2>4 DEF BeginSave, NoJob, records
    <3> QED
      BY <1>r, <2>1, <3>1 DEF CleanInv, ApplyClean, Kept
  <2>5. CASE approval' = approval /\ (job' = job \/ job'.cmd \notin {"apply", "save"})
    BY <1>r, <2>1, <2>5, CleanFrame DEF IInv
  <2> QED
    BY <2>1, <2>2, <2>3, <2>4, <2>5
<1>4. CASE Environment \/ Crash \/ Fail \/ Signal
  <2>1. /\ approval' = approval /\ applied' = applied /\ start' = start
        /\ run' = run \/ \E h \in Hosts : Edit(h)
        /\ job' = job \/ job'.cmd = "none"
    BY <1>4, EnvironmentRecords
  <2>2. \A h \in Hosts : run'[h].other # 0
    BY <1>r, <2>1, NoStepAges
  <2> QED
    BY <2>1, <2>2, CleanFrame DEF IInv
<1>5. CASE UNCHANGED vars
  BY <1>r, <1>5, CleanFrame DEF vars, IInv
<1> QED
  BY <1>1, <1>2, <1>3, <1>4, <1>5 DEF Next

\* For any number of devices, commands, crashes, failures, signals, hand edits and
\* policies: the save of a change (execute_approved_save) persists nothing that was
\* unsaved when the apply came to the device, though an approve that was killed
\* leaves two records and the save lets a missing diff pass for a clean one.
THEOREM SaveKeepsUnsavedOut == Spec => UnsavedKeptOut
<1>1. Init => CleanInv
  BY DEF Init, CleanInv, ApplyClean, NoJob
<1>2. IInv /\ CleanInv /\ [Next]_vars => CleanInv'
  BY CleanKeeps
<1> DEFINE Out == job.cmd = "save" => \A h \in Hosts : start'[h] # start[h] =>
                    applied.pre[h] = "clean" /\ start[h].other # 0
<1>3. CleanInv => Out
  BY DEF CleanInv, Kept
<1> QED
  BY <1>1, <1>2, <1>3, Invariance, PTL DEF Spec, UnsavedKeptOut
=============================================================================
