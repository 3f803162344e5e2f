---------------------------- MODULE WorkbenchProofs ----------------------------
(***************************************************************************)
(* What is proved of the tools on their own holds in Workbench: whatever   *)
(* tool is used, every step is a step of each tool or leaves it alone.     *)
(***************************************************************************)
EXTENDS Workbench, Sequences, FiniteSetTheorems, TLAPS

\* The modules of the proofs, with the constants and variables of the workbench.  Their
\* definitions are those of Qualify, Lab and Evidence.
QualifyProved ==
  INSTANCE QualificationProofs WITH N <- LabDevices, touched <- used, job <- session
LabProved == INSTANCE ClabApplyProofs WITH N <- Nodes
EvidenceProved == INSTANCE EvidenceProofs

-----------------------------------------------------------------------------
(* The pushes and the lab                                                  *)

\* The steps of the two instances are the same.
LEMMA SameLab == Lab!Next = LabProved!Next /\ Lab!Hosts = LabProved!Hosts
<1>1. \A h : Lab!Disturb(h) = LabProved!Disturb(h)
  BY DEF Lab!Disturb, LabProved!Disturb, Lab!Touch, LabProved!Touch, Lab!Boot,
         LabProved!Boot
<1>2. \A h : Lab!PushHost(h) = LabProved!PushHost(h)
  BY DEF Lab!PushHost, LabProved!PushHost, Lab!Pushed, LabProved!Pushed
<1>3. \A h : Lab!SaveHost(h) = LabProved!SaveHost(h)
  BY DEF Lab!SaveHost, LabProved!SaveHost, Lab!Done, LabProved!Done, Lab!NoJob,
         LabProved!NoJob, Lab!Hosts, LabProved!Hosts
<1>4. \A h : Lab!Reuse(h) = LabProved!Reuse(h)
  BY DEF Lab!Reuse, LabProved!Reuse, Lab!Applying, LabProved!Applying, Lab!Verification,
         LabProved!Verification
<1>5. \A h : Lab!Verify(h) = LabProved!Verify(h)
  BY DEF Lab!Verify, LabProved!Verify, Lab!Applying, LabProved!Applying, Lab!Verification,
         LabProved!Verification
<1>6. \A h : Lab!ApplySave(h) = LabProved!ApplySave(h)
  BY DEF Lab!ApplySave, LabProved!ApplySave, Lab!Applying, LabProved!Applying
<1>7. Lab!BeginPush = LabProved!BeginPush
  BY DEF Lab!BeginPush, LabProved!BeginPush, Lab!NoJob, LabProved!NoJob, Lab!Hosts,
         LabProved!Hosts
<1>8. Lab!ConnectCheck = LabProved!ConnectCheck
  BY DEF Lab!ConnectCheck, LabProved!ConnectCheck
<1>9. Lab!End = LabProved!End
  BY DEF Lab!End, LabProved!End, Lab!Done, LabProved!Done, Lab!NoJob, LabProved!NoJob,
         Lab!Hosts, LabProved!Hosts
<1>10. Lab!StartBatch = LabProved!StartBatch
  BY DEF Lab!StartBatch, LabProved!StartBatch, Lab!FirstOf, LabProved!FirstOf,
         Lab!MayStart, LabProved!MayStart, Lab!Cardinality, LabProved!Cardinality
<1>11. Lab!EndPush = LabProved!EndPush
  BY DEF Lab!EndPush, LabProved!EndPush, Lab!MayStart, LabProved!MayStart
<1>12. Lab!BeginSaves = LabProved!BeginSaves
  BY DEF Lab!BeginSaves, LabProved!BeginSaves, Lab!SavePhase, LabProved!SavePhase
<1>13. Lab!WriteMemory = LabProved!WriteMemory
  BY DEF Lab!WriteMemory, LabProved!WriteMemory, Lab!NoJob, LabProved!NoJob, Lab!Hosts,
         LabProved!Hosts
<1>14. Lab!BeginApply = LabProved!BeginApply
  BY DEF Lab!BeginApply, LabProved!BeginApply, Lab!NoJob, LabProved!NoJob, Lab!Hosts,
         LabProved!Hosts
<1>15. Lab!NodesReady = LabProved!NodesReady
  BY DEF Lab!NodesReady, LabProved!NodesReady, Lab!Applying, LabProved!Applying, Lab!Goto,
         LabProved!Goto
<1>16. Lab!GiveUp = LabProved!GiveUp
  BY DEF Lab!GiveUp, LabProved!GiveUp, Lab!Applying, LabProved!Applying, Lab!Done,
         LabProved!Done, Lab!NoJob, LabProved!NoJob, Lab!Hosts, LabProved!Hosts
<1>17. Lab!ScanRisks = LabProved!ScanRisks
  BY DEF Lab!ScanRisks, LabProved!ScanRisks, Lab!Applying, LabProved!Applying, Lab!Hosts,
         LabProved!Hosts
<1>18. Lab!CallPush = LabProved!CallPush
  BY DEF Lab!CallPush, LabProved!CallPush, Lab!Applying, LabProved!Applying, Lab!Goto,
         LabProved!Goto
<1>19. Lab!PushResult = LabProved!PushResult
  BY DEF Lab!PushResult, LabProved!PushResult, Lab!Applying, LabProved!Applying, Lab!Done,
         LabProved!Done, Lab!NoJob, LabProved!NoJob, Lab!Hosts, LabProved!Hosts
<1>20. Lab!BeginApplySaves = LabProved!BeginApplySaves
  BY DEF Lab!BeginApplySaves, LabProved!BeginApplySaves, Lab!Applying, LabProved!Applying,
         Lab!Savable, LabProved!Savable
<1>21. Lab!Finish = LabProved!Finish
  BY DEF Lab!Finish, LabProved!Finish, Lab!Applying, LabProved!Applying, Lab!Failures,
         LabProved!Failures, Lab!Goto, LabProved!Goto, Lab!Done, LabProved!Done, Lab!NoJob,
         LabProved!NoJob, Lab!Hosts, LabProved!Hosts
<1>22. Lab!Publish = LabProved!Publish
  BY DEF Lab!Publish, LabProved!Publish, Lab!Applying, LabProved!Applying, Lab!Done,
         LabProved!Done, Lab!NoJob, LabProved!NoJob, Lab!Hosts, LabProved!Hosts
<1>23. Lab!Interrupt = LabProved!Interrupt
  BY DEF Lab!Interrupt, LabProved!Interrupt, Lab!Done, LabProved!Done, Lab!NoJob,
         LabProved!NoJob, Lab!Hosts, LabProved!Hosts
<1> QED
  BY <1>1, <1>2, <1>3, <1>4, <1>5, <1>6, <1>7, <1>8, <1>9, <1>10, <1>11, <1>12, <1>13,
     <1>14, <1>15, <1>16, <1>17, <1>18, <1>19, <1>20, <1>21, <1>22, <1>23
  DEF Lab!Next, LabProved!Next, Lab!PushNext, LabProved!PushNext, Lab!Hosts,
      LabProved!Hosts

\* The workbench implements them.
LEMMA LabImplemented == Spec => LabProved!Spec
<1>1. Init => LabProved!Init
  BY DEF Init, Lab!Init, LabProved!Init, Lab!FleetInit, LabProved!FleetInit, Lab!Boot,
         LabProved!Boot, Lab!Hosts, LabProved!Hosts, Lab!NoJob, LabProved!NoJob
<1>2. [Next]_vars => [LabProved!Next]_(LabProved!vars)
  BY SameLab DEF Next, vars, labVars, LabProved!vars, LabProved!fleet
<1> QED
  BY <1>1, <1>2, PTL DEF Spec, LabProved!Spec

\* A push saves no host with a failed or ignored command, for any number of hosts and
\* workers of _execute_host_operation_batches.
THEOREM PushSavesAccepted == Spec => SavesOnlyAccepted
<1>1. LabProved!SavesOnlyAccepted => SavesOnlyAccepted
  BY PTL DEF LabProved!SavesOnlyAccepted, SavesOnlyAccepted, Lab!SavesOnlyAccepted,
             Lab!fleet,
             LabProved!fleet, Lab!Hosts, LabProved!Hosts
<1> QED
  BY <1>1, LabImplemented, LabProved!OnlyAccepted, PTL

\* clab-apply-config saves what the verification has seen, for any number of nodes.
THEOREM LabSavesVerified == Spec => SavedIsVerified
<1>1. LabProved!SavedIsVerified => SavedIsVerified
  BY PTL DEF LabProved!SavedIsVerified, SavedIsVerified, Lab!SavedIsVerified, Lab!vars,
             LabProved!vars, Lab!fleet, LabProved!fleet, Lab!Hosts, LabProved!Hosts
<1> QED
  BY <1>1, LabImplemented, LabProved!Verified, PTL

\* When current.json comes to name an input, the nodes have it, for any number of nodes,
\* apart from those the connect check passed over, those with ignored errors and those
\* somebody changed since their verification.
THEOREM LabCurrentTrue == Spec => CurrentIsLive
<1>1. LabProved!CurrentIsLive => CurrentIsLive
  BY PTL DEF LabProved!CurrentIsLive, CurrentIsLive, Lab!CurrentIsLive, Lab!vars,
             LabProved!vars, Lab!fleet, LabProved!fleet, Lab!Hosts, LabProved!Hosts,
             Lab!Applying, LabProved!Applying
<1> QED
  BY <1>1, LabImplemented, LabProved!CurrentTrue, PTL

\* --fail-fast touches fewer hosts after a failed one than there are workers, for any
\* number of hosts and workers.
THEOREM PushStopsFast == Spec => []FailFastStops
<1>1. LabProved!FailFastStops => FailFastStops
  BY DEF FailFastStops, Lab!FailFastStops, LabProved!FailFastStops, Lab!Min, LabProved!Min,
         Lab!Cardinality, LabProved!Cardinality
<1>2. LabProved!Spec => []LabProved!FailFastStops
  BY LabProved!StopsFast, WorkbenchAssumption
<1> QED
  BY <1>1, <1>2, LabImplemented, PTL

-----------------------------------------------------------------------------
(* The lab qualification                                                   *)

\* The steps of the two instances are the same.
LEMMA SameQualify == Qualify!Next = QualifyProved!Next
<1>1. /\ \A h : Qualify!Edit(h) = QualifyProved!Edit(h)
      /\ \A h : Qualify!SaveByHand(h) = QualifyProved!SaveByHand(h)
      /\ \A h : Qualify!Capture(h) = QualifyProved!Capture(h)
      /\ Qualify!Expire = QualifyProved!Expire
  BY DEF Qualify!Edit, QualifyProved!Edit, Qualify!Event, QualifyProved!Event,
         Qualify!evidence, QualifyProved!evidence, Qualify!records, QualifyProved!records,
         Qualify!SaveByHand, QualifyProved!SaveByHand, Qualify!Capture,
         QualifyProved!Capture, Qualify!Due, QualifyProved!Due, Qualify!Hosts,
         QualifyProved!Hosts, Qualify!Missing, QualifyProved!Missing, Qualify!devices,
         QualifyProved!devices, Qualify!NoSnap, QualifyProved!NoSnap, Qualify!Expire,
         QualifyProved!Expire, Qualify!NoJob, QualifyProved!NoJob
<1>2. /\ Qualify!BeginApprove = QualifyProved!BeginApprove
      /\ Qualify!Approve = QualifyProved!Approve
      /\ Qualify!BeginApply = QualifyProved!BeginApply
      /\ Qualify!BeginRollback = QualifyProved!BeginRollback
  BY DEF Qualify!BeginApprove, QualifyProved!BeginApprove, Qualify!Take,
         QualifyProved!Take, Qualify!devices, QualifyProved!devices, Qualify!evidence,
         QualifyProved!evidence, Qualify!LockFree, QualifyProved!LockFree, Qualify!NoJob,
         QualifyProved!NoJob, Qualify!Approve, QualifyProved!Approve, Qualify!At,
         QualifyProved!At, Qualify!Done, QualifyProved!Done, Qualify!ToWorkflow,
         QualifyProved!ToWorkflow, Qualify!records, QualifyProved!records,
         Qualify!WORKFLOW_TRANSITIONS, QualifyProved!WORKFLOW_TRANSITIONS,
         Qualify!BeginApply, QualifyProved!BeginApply, Qualify!BeginRollback,
         QualifyProved!BeginRollback, Qualify!NoSnap, QualifyProved!NoSnap, Qualify!Hosts,
         QualifyProved!Hosts, Qualify!Missing, QualifyProved!Missing
<1>3. /\ Qualify!Refuse = QualifyProved!Refuse
      /\ Qualify!Precheck = QualifyProved!Precheck
      /\ Qualify!BeginCommands = QualifyProved!BeginCommands
      /\ Qualify!MarkStarted = QualifyProved!MarkStarted
      /\ Qualify!Send = QualifyProved!Send
  BY DEF Qualify!Refuse, QualifyProved!Refuse, Qualify!FinishDevice,
         QualifyProved!FinishDevice, Qualify!InSession, QualifyProved!InSession,
         Qualify!Results, QualifyProved!Results, Qualify!devices, QualifyProved!devices,
         Qualify!evidence, QualifyProved!evidence, Qualify!records, QualifyProved!records,
         Qualify!Precheck, QualifyProved!Precheck, Qualify!Current, QualifyProved!Current,
         Qualify!Expected, QualifyProved!Expected, Qualify!Goto, QualifyProved!Goto,
         Qualify!BeginCommands, QualifyProved!BeginCommands, Qualify!ToWorkflow,
         QualifyProved!ToWorkflow, Qualify!WORKFLOW_TRANSITIONS,
         QualifyProved!WORKFLOW_TRANSITIONS, Qualify!MarkStarted,
         QualifyProved!MarkStarted, Qualify!Send, QualifyProved!Send
<1>4. /\ Qualify!BeginLate = QualifyProved!BeginLate
      /\ Qualify!Record = QualifyProved!Record
      /\ Qualify!ApplyResult = QualifyProved!ApplyResult
      /\ Qualify!Escalate = QualifyProved!Escalate
      /\ Qualify!RollbackResult = QualifyProved!RollbackResult
  BY DEF Qualify!BeginLate, QualifyProved!BeginLate, Qualify!At, QualifyProved!At,
         Qualify!ToWorkflow, QualifyProved!ToWorkflow, Qualify!devices,
         QualifyProved!devices, Qualify!evidence, QualifyProved!evidence, Qualify!records,
         QualifyProved!records, Qualify!WORKFLOW_TRANSITIONS,
         QualifyProved!WORKFLOW_TRANSITIONS, Qualify!Record, QualifyProved!Record,
         Qualify!Goto, QualifyProved!Goto, Qualify!InSession, QualifyProved!InSession,
         Qualify!ApplyResult, QualifyProved!ApplyResult, Qualify!Done, QualifyProved!Done,
         Qualify!Outcome, QualifyProved!Outcome, Qualify!NoJob, QualifyProved!NoJob,
         Qualify!Escalate, QualifyProved!Escalate, Qualify!RollbackResult,
         QualifyProved!RollbackResult
<1>5. /\ Qualify!Collect = QualifyProved!Collect
      /\ Qualify!PublishAfter = QualifyProved!PublishAfter
      /\ \A cmd : Qualify!Evaluate(cmd) = QualifyProved!Evaluate(cmd)
      /\ Qualify!VerifyRollback = QualifyProved!VerifyRollback
      /\ Qualify!AcceptWarn = QualifyProved!AcceptWarn
  BY DEF Qualify!Collect, QualifyProved!Collect, Qualify!Due, QualifyProved!Due,
         Qualify!LockFree, QualifyProved!LockFree, Qualify!NoSnap, QualifyProved!NoSnap,
         Qualify!devices, QualifyProved!devices, Qualify!records, QualifyProved!records,
         Qualify!Hosts, QualifyProved!Hosts, Qualify!Missing, QualifyProved!Missing,
         Qualify!PublishAfter, QualifyProved!PublishAfter, Qualify!Captured,
         QualifyProved!Captured, Qualify!Evaluate, QualifyProved!Evaluate,
         Qualify!VerifyRollback, QualifyProved!VerifyRollback, Qualify!AcceptWarn,
         QualifyProved!AcceptWarn, Qualify!ToWorkflow, QualifyProved!ToWorkflow,
         Qualify!evidence, QualifyProved!evidence, Qualify!WORKFLOW_TRANSITIONS,
         QualifyProved!WORKFLOW_TRANSITIONS
<1>6. /\ Qualify!BeginSave = QualifyProved!BeginSave
      /\ Qualify!Preflight = QualifyProved!Preflight
      /\ Qualify!Inspect = QualifyProved!Inspect
      /\ Qualify!SaveFails = QualifyProved!SaveFails
      /\ Qualify!BeginCopies = QualifyProved!BeginCopies
      /\ Qualify!MarkSave = QualifyProved!MarkSave
  BY DEF Qualify!BeginSave, QualifyProved!BeginSave, Qualify!Take, QualifyProved!Take,
         Qualify!devices, QualifyProved!devices, Qualify!evidence, QualifyProved!evidence,
         Qualify!records, QualifyProved!records, Qualify!LockFree, QualifyProved!LockFree,
         Qualify!NoJob, QualifyProved!NoJob, Qualify!Preflight, QualifyProved!Preflight,
         Qualify!At, QualifyProved!At, Qualify!Inspected, QualifyProved!Inspected,
         Qualify!Inspect, QualifyProved!Inspect, Qualify!Goto, QualifyProved!Goto,
         Qualify!SaveFails, QualifyProved!SaveFails, Qualify!BeginCopies,
         QualifyProved!BeginCopies, Qualify!ToWorkflow, QualifyProved!ToWorkflow,
         Qualify!WORKFLOW_TRANSITIONS, QualifyProved!WORKFLOW_TRANSITIONS,
         Qualify!MarkSave, QualifyProved!MarkSave
<1>7. /\ Qualify!Copy = QualifyProved!Copy
      /\ Qualify!PostDiff = QualifyProved!PostDiff
      /\ Qualify!FinishSave = QualifyProved!FinishSave
      /\ Qualify!Crash = QualifyProved!Crash
      /\ Qualify!Reconcile = QualifyProved!Reconcile
      /\ Qualify!Signal = QualifyProved!Signal
  BY DEF Qualify!Copy, QualifyProved!Copy, Qualify!At, QualifyProved!At, Qualify!Results,
         QualifyProved!Results, Qualify!evidence, QualifyProved!evidence, Qualify!records,
         QualifyProved!records, Qualify!PostDiff, QualifyProved!PostDiff, Qualify!devices,
         QualifyProved!devices, Qualify!FinishSave, QualifyProved!FinishSave,
         Qualify!Done, QualifyProved!Done, Qualify!ToWorkflow, QualifyProved!ToWorkflow,
         Qualify!NoJob, QualifyProved!NoJob, Qualify!WORKFLOW_TRANSITIONS,
         QualifyProved!WORKFLOW_TRANSITIONS, Qualify!Crash, QualifyProved!Crash,
         Qualify!Fault, QualifyProved!Fault, Qualify!Event, QualifyProved!Event,
         Qualify!Reconcile, QualifyProved!Reconcile, Qualify!Signal, QualifyProved!Signal
<1> QED
  BY <1>1, <1>2, <1>3, <1>4, <1>5, <1>6, <1>7
  DEF Qualify!Next, QualifyProved!Next, Qualify!Hosts, QualifyProved!Hosts

\* The workbench implements it.
LEMMA QualifyImplemented == Spec => QualifyProved!Spec
<1>1. Init => QualifyProved!Init
  BY DEF Init, Qualify!Init, QualifyProved!Init, Qualify!Hosts, QualifyProved!Hosts,
         Qualify!NoSnap, QualifyProved!NoSnap, Qualify!Missing, QualifyProved!Missing,
         Qualify!NoJob, QualifyProved!NoJob
<1>2. [Next]_vars => [QualifyProved!Next]_(QualifyProved!vars)
  BY SameQualify DEF Next, vars, qualificationVars, QualifyProved!vars
<1> QED
  BY <1>1, <1>2, PTL DEF Spec, QualifyProved!Spec

\* No lab device keeps a candidate that nobody approved, for any number of devices.
THEOREM LabCandidateGone == Spec => []CandidateGone
<1>1. QualifyProved!CandidateGone => CandidateGone
  BY DEF CandidateGone, Qualify!CandidateGone, QualifyProved!CandidateGone, Qualify!Hosts,
         QualifyProved!Hosts
<1>2. QualifyProved!Spec => []QualifyProved!CandidateGone
  BY QualifyProved!Gone, WorkbenchAssumption DEF QualifyProved!Bounds
<1> QED
  BY <1>1, <1>2, QualifyImplemented, PTL

\* The baseline save of qualify-save-baseline writes the baseline, and only when all
\* devices have it that nobody has used since, for any number of devices.
THEOREM LabBaselineKept == Spec => SaveKeepsBaseline
<1>1. QualifyProved!SaveKeepsBaseline => SaveKeepsBaseline
  BY PTL
  DEF SaveKeepsBaseline, Qualify!SaveKeepsBaseline, QualifyProved!SaveKeepsBaseline,
      Qualify!At, QualifyProved!At, Qualify!Hosts, QualifyProved!Hosts, Qualify!vars,
      QualifyProved!vars, Qualify!devices, QualifyProved!devices, Qualify!evidence,
      QualifyProved!evidence, Qualify!records, QualifyProved!records
<1>2. QualifyProved!Spec => QualifyProved!SaveKeepsBaseline
  BY QualifyProved!BaselineKept, WorkbenchAssumption DEF QualifyProved!Bounds
<1> QED
  BY <1>1, <1>2, QualifyImplemented, PTL

-----------------------------------------------------------------------------
(* Packages and imports                                                    *)

\* The steps of the two instances are the same.
LEMMA SameEvidence == Evidence!Next = EvidenceProved!Next
<1>1. \A p :
        /\ Evidence!BeginCreate(p) = EvidenceProved!BeginCreate(p)
        /\ Evidence!PublishArchive(p) = EvidenceProved!PublishArchive(p)
        /\ Evidence!PublishChecksum(p) = EvidenceProved!PublishChecksum(p)
  BY DEF Evidence!BeginCreate, EvidenceProved!BeginCreate, Evidence!At, EvidenceProved!At,
         Evidence!NoJob, EvidenceProved!NoJob, Evidence!importFiles,
         EvidenceProved!importFiles, Evidence!None, EvidenceProved!None,
         Evidence!PublishArchive, EvidenceProved!PublishArchive, Evidence!Goto,
         EvidenceProved!Goto, Evidence!PublishChecksum, EvidenceProved!PublishChecksum
<1>2. \A p :
        /\ Evidence!BeginPrune(p) = EvidenceProved!BeginPrune(p)
        /\ Evidence!ScanPackages(p) = EvidenceProved!ScanPackages(p)
        /\ Evidence!UnlinkArchive(p) = EvidenceProved!UnlinkArchive(p)
        /\ Evidence!UnlinkChecksum(p) = EvidenceProved!UnlinkChecksum(p)
        /\ Evidence!EndPrune(p) = EvidenceProved!EndPrune(p)
  BY DEF Evidence!BeginPrune, EvidenceProved!BeginPrune, Evidence!At, EvidenceProved!At,
         Evidence!Goto, EvidenceProved!Goto, Evidence!importFiles,
         EvidenceProved!importFiles, Evidence!packageFiles, EvidenceProved!packageFiles,
         Evidence!ScanPackages, EvidenceProved!ScanPackages, Evidence!NoJob,
         EvidenceProved!NoJob, Evidence!Superseded, EvidenceProved!Superseded,
         Evidence!None, EvidenceProved!None, Evidence!Cardinality,
         EvidenceProved!Cardinality, Evidence!SameGroup, EvidenceProved!SameGroup,
         Evidence!Verified, EvidenceProved!Verified, Evidence!UnlinkArchive,
         EvidenceProved!UnlinkArchive, Evidence!End, EvidenceProved!End, Evidence!Oldest,
         EvidenceProved!Oldest, Evidence!UnlinkChecksum, EvidenceProved!UnlinkChecksum,
         Evidence!EndPrune, EvidenceProved!EndPrune
<1>3. \A p :
        /\ Evidence!BeginImport(p) = EvidenceProved!BeginImport(p)
        /\ Evidence!Materialize(p) = EvidenceProved!Materialize(p)
        /\ Evidence!PublishImport(p) = EvidenceProved!PublishImport(p)
        /\ Evidence!UpdateLatest(p) = EvidenceProved!UpdateLatest(p)
  BY DEF Evidence!BeginImport, EvidenceProved!BeginImport, Evidence!At, EvidenceProved!At,
         Evidence!Importing, EvidenceProved!Importing, Evidence!NoJob,
         EvidenceProved!NoJob, Evidence!Pruning, EvidenceProved!Pruning, Evidence!Range,
         EvidenceProved!Range, Evidence!Selected, EvidenceProved!Selected,
         Evidence!importFiles, EvidenceProved!importFiles, Evidence!packageFiles,
         EvidenceProved!packageFiles, Evidence!None, EvidenceProved!None, Evidence!Newest,
         EvidenceProved!Newest, Evidence!Materialize, EvidenceProved!Materialize,
         Evidence!End, EvidenceProved!End, Evidence!Goto, EvidenceProved!Goto,
         Evidence!PublishImport, EvidenceProved!PublishImport, Evidence!UpdateLatest,
         EvidenceProved!UpdateLatest
<1>4. \A p :
        /\ Evidence!BeginPruneImports(p) = EvidenceProved!BeginPruneImports(p)
        /\ Evidence!ScanImports(p) = EvidenceProved!ScanImports(p)
  BY DEF Evidence!BeginPruneImports, EvidenceProved!BeginPruneImports, Evidence!At,
         EvidenceProved!At, Evidence!Goto, EvidenceProved!Goto, Evidence!Repeats,
         EvidenceProved!Repeats, Evidence!importFiles, EvidenceProved!importFiles,
         Evidence!packageFiles, EvidenceProved!packageFiles, Evidence!Importing,
         EvidenceProved!Importing, Evidence!ScanImports, EvidenceProved!ScanImports,
         Evidence!NoJob, EvidenceProved!NoJob, Evidence!Outdated, EvidenceProved!Outdated,
         Evidence!None, EvidenceProved!None, Evidence!Cardinality,
         EvidenceProved!Cardinality, Evidence!ImportedAfter, EvidenceProved!ImportedAfter,
         Evidence!SameGroup, EvidenceProved!SameGroup, Evidence!Whole,
         EvidenceProved!Whole, Evidence!Packages, EvidenceProved!Packages
<1>5. \A p :
        /\ Evidence!BeginRemove(p) = EvidenceProved!BeginRemove(p)
        /\ Evidence!EndRemove(p) = EvidenceProved!EndRemove(p)
        /\ Evidence!EndPruneImports(p) = EvidenceProved!EndPruneImports(p)
        /\ Evidence!Kill(p) = EvidenceProved!Kill(p)
  BY DEF Evidence!BeginRemove, EvidenceProved!BeginRemove, Evidence!At, EvidenceProved!At,
         Evidence!End, EvidenceProved!End, Evidence!FirstImported,
         EvidenceProved!FirstImported, Evidence!Goto, EvidenceProved!Goto,
         Evidence!packageFiles, EvidenceProved!packageFiles, Evidence!NoJob,
         EvidenceProved!NoJob, Evidence!ImportedAfter, EvidenceProved!ImportedAfter,
         Evidence!None, EvidenceProved!None, Evidence!EndRemove, EvidenceProved!EndRemove,
         Evidence!EndPruneImports, EvidenceProved!EndPruneImports, Evidence!importFiles,
         EvidenceProved!importFiles, Evidence!Kill, EvidenceProved!Kill
<1> QED
  BY <1>1, <1>2, <1>3, <1>4, <1>5 DEF Evidence!Next, EvidenceProved!Next

\* The workbench implements it.
LEMMA EvidenceImplemented == Spec => EvidenceProved!Spec
<1>1. Init => EvidenceProved!Init
  BY DEF Init, Evidence!Init, EvidenceProved!Init, Evidence!NoJob, EvidenceProved!NoJob,
         Evidence!Packages, EvidenceProved!Packages, Evidence!None, EvidenceProved!None
<1>2. [Next]_vars => [EvidenceProved!Next]_(EvidenceProved!vars)
  BY SameEvidence DEF Next, vars, evidenceVars, EvidenceProved!vars
<1> QED
  BY <1>1, <1>2, PTL DEF Spec, EvidenceProved!Spec

\* "latest" leads to a whole import directory, for every number of processes, packages,
\* imports and kills, one import at a time and none of a package that is being removed.
THEOREM EvidenceLatestComplete == Spec => []LatestComplete
<1>1. EvidenceProved!LatestComplete => LatestComplete
  BY DEF LatestComplete, Evidence!LatestComplete, EvidenceProved!LatestComplete,
         Evidence!None, EvidenceProved!None
<1>2. EvidenceProved!Spec => []EvidenceProved!LatestComplete
  BY EvidenceProved!Latest, WorkbenchAssumption DEF EvidenceProved!Bounds
<1> QED
  BY <1>1, <1>2, EvidenceImplemented, PTL

\* Retention leaves a newer verified package of the group, for as many of everything.
THEOREM EvidenceNewestKept == Spec => NewestKept
<1>1. EvidenceProved!NewestKept => NewestKept
  BY PTL DEF NewestKept, Evidence!NewestKept, EvidenceProved!NewestKept, Evidence!SameGroup,
         EvidenceProved!SameGroup, Evidence!vars, EvidenceProved!vars,
         Evidence!packageFiles, EvidenceProved!packageFiles, Evidence!importFiles,
         EvidenceProved!importFiles
<1>2. EvidenceProved!Spec => EvidenceProved!NewestKept
  BY EvidenceProved!Newer, WorkbenchAssumption DEF EvidenceProved!Bounds
<1> QED
  BY <1>1, <1>2, EvidenceImplemented, PTL

-----------------------------------------------------------------------------
(* The route check: what a passing one means, for every set of next hops,  *)
(* every length of routes and every policy over them.  A check is the      *)
(* representative of the results of the rules, of the listed difference    *)
(* and of the evidence: none of them can be outweighed by a better one.    *)

\* representative has four results, ...
LEMMA RepresentativeType ==
  ASSUME NEW S PROVE Routing!representative(S) \in {"PASS", "WARN", "FAIL", "UNKNOWN"}
BY DEF Routing!representative

\* ... passes only what has nothing worse in it, ...
LEMMA RepresentativePass ==
  ASSUME NEW S, Routing!representative(S) = "PASS"
  PROVE  "UNKNOWN" \notin S /\ "FAIL" \notin S /\ "WARN" \notin S
BY DEF Routing!representative

\* ... and warns only of a warning.
LEMMA RepresentativeWarn ==
  ASSUME NEW S, Routing!representative(S) = "WARN"
  PROVE  "UNKNOWN" \notin S /\ "FAIL" \notin S /\ "WARN" \in S
BY DEF Routing!representative

\* A required route is never a warning.
LEMMA RequiredOnType ==
  ASSUME NEW r, NEW side PROVE Routing!RequiredOn(r, side) \in {"PASS", "FAIL", "UNKNOWN"}
BY DEF Routing!RequiredOn

\* The same of both sides.
LEMMA RequiredType ==
  ASSUME NEW r, NEW b, NEW a PROVE Routing!Required(r, b, a) \in {"PASS", "FAIL", "UNKNOWN"}
<1>1. Routing!Required(r, b, a) \in {"PASS", "WARN", "FAIL", "UNKNOWN"}
  BY RepresentativeType DEF Routing!Required
<1>2. Routing!Required(r, b, a) # "WARN"
  <2> SUFFICES ASSUME Routing!Required(r, b, a) = "WARN" PROVE FALSE
    OBVIOUS
  <2>1. "WARN" \in {Routing!RequiredOn(r, b), Routing!RequiredOn(r, a)}
    BY RepresentativeWarn DEF Routing!Required
  <2> QED
    BY <2>1, RequiredOnType
<1> QED
  BY <1>1, <1>2

\* A required route that passes is there in both tables.
LEMMA RequiredPass ==
  ASSUME NEW r, NEW b, NEW a, Routing!Required(r, b, a) = "PASS"
  PROVE  Routing!Satisfies(r, b.route) /\ Routing!Satisfies(r, a.route)
<1>1. \A side \in {b, a} : Routing!RequiredOn(r, side) \notin {"FAIL", "UNKNOWN"}
  BY RepresentativePass DEF Routing!Required
<1>2. \A side \in {b, a} : Routing!RequiredOn(r, side) = "PASS"
  BY <1>1, RequiredOnType
<1>3. ASSUME NEW side, Routing!RequiredOn(r, side) = "PASS"
      PROVE  Routing!Satisfies(r, side.route)
  BY <1>3 DEF Routing!RequiredOn
<1> QED
  BY <1>2, <1>3

\* An expected change has three results, and passes exactly as expected.
LEMMA ExpectedResult ==
  ASSUME NEW c, NEW b, NEW a
  PROVE  /\ Routing!Expected(c, b, a) \in {"PASS", "WARN", "UNKNOWN"}
         /\ Routing!Expected(c, b, a) = "PASS" => b.route = c.before /\ a.route = c.after
BY DEF Routing!Expected

\* Finite sets and their sizes are those of the library.
LEMMA RoutingCounts ==
  /\ \A S : Routing!IsFiniteSet(S) <=> IsFiniteSet(S)
  /\ \A S : Routing!Cardinality(S) = Cardinality(S)
<1>1. ASSUME NEW S PROVE Routing!IsFiniteSet(S) <=> IsFiniteSet(S)
  BY DEF IsFiniteSet, Routing!IsFiniteSet
<1>2. ASSUME NEW S PROVE Routing!Cardinality(S) = Cardinality(S)
  BY DEF Cardinality, Routing!Cardinality
<1> QED
  BY <1>1, <1>2

\* A route that has not regressed has kept its next hops and paths.
LEMMA NotRegressed ==
  ASSUME NEW b \in Routing!Sides, NEW a \in Routing!Sides, ~Routing!Regressed(b, a)
  PROVE  Routing!Kept(b, a)
<1>1. \A side \in {b, a} : IsFiniteSet(side.route)
  BY RoutingCounts, FS_EmptySet DEF Routing!Sides, Routing!Routes, Routing!Absent
<1>2. \A side \in {b, a} : Routing!Cardinality(side.route) \in Nat
  BY <1>1, RoutingCounts, FS_CardinalityType
<1>3. CASE b.route = Routing!Absent
  <2>1. Routing!Hops(b.route) = {} /\ Routing!Cardinality(b.route) = 0
    BY <1>3, RoutingCounts, FS_EmptySet DEF Routing!Hops, Routing!Absent
  <2> QED
    BY <1>2, <2>1 DEF Routing!Kept
<1>4. CASE b.route # Routing!Absent
  BY <1>2, <1>4 DEF Routing!Regressed, Routing!Kept
<1> QED
  BY <1>3, <1>4

\* The policy of the check: without expected changes where none is to be.
KeptPolicy(phase, p) ==
  IF phase \in {"after", "offline"} THEN p ELSE [p EXCEPT !.expected = {}]

\* What the result of a check is the representative of.
Grounds(phase, p, stray, b, a) ==
  (({Routing!Required(r, b, a) : r \in KeptPolicy(phase, p).required}
      \cup {Routing!Expected(c, b, a) : c \in KeptPolicy(phase, p).expected}
      \cup (IF Routing!Changed(b, a)
            THEN {Routing!GeneralChange(KeptPolicy(phase, p), b, a)} ELSE {}))
     \ {"EXCLUDED"})
    \cup (IF Routing!Eligible(b) /\ Routing!Eligible(a) /\ ~stray THEN {} ELSE {"UNKNOWN"})
    \cup (IF Routing!Residual(phase, KeptPolicy(phase, p), b, a) THEN {"FAIL"} ELSE {})

\* RouteCheck, with names for its parts.
LEMMA CheckGrounds ==
  ASSUME NEW phase, NEW p, NEW stray, NEW b, NEW a
  PROVE  Routing!RouteCheck(phase, p, stray, b, a)
           = Routing!representative(Grounds(phase, p, stray, b, a))
BY Zenon DEF Routing!RouteCheck, Grounds, KeptPolicy

\* Only the expected changes differ.
LEMMA KeptPolicyParts ==
  ASSUME NEW phase, NEW p \in Routing!Policies
  PROVE  /\ KeptPolicy(phase, p).required = p.required
         /\ KeptPolicy(phase, p).excluded = p.excluded
         /\ KeptPolicy(phase, p).expected
              = IF phase \in {"after", "offline"} THEN p.expected ELSE {}
         /\ p.excluded => p.required = {} /\ p.expected = {}
         /\ p.expected \subseteq Routing!ExpectedChanges
<1>1. CASE p \in [required : Routing!AtMostOne(Routing!RequiredRules),
                 expected : Routing!AtMostOne(Routing!ExpectedChanges), excluded : {FALSE}]
  <2>1. p.expected \in Routing!AtMostOne(Routing!ExpectedChanges)
    BY <1>1
  <2>2. p.expected \subseteq Routing!ExpectedChanges
    BY <2>1 DEF Routing!AtMostOne
  <2> QED
    BY <1>1, <2>2 DEF KeptPolicy
<1>2. CASE p = [required |-> {}, expected |-> {}, excluded |-> TRUE]
  BY <1>2 DEF KeptPolicy
<1> QED
  BY <1>1, <1>2 DEF Routing!Policies

\* A check that passes accounts for the forwarding of the prefix.
LEMMA PassAccounts ==
  ASSUME NEW phase \in {"single", "after", "rollback", "offline"},
         NEW p \in Routing!Policies, NEW stray \in BOOLEAN,
         NEW b \in Routing!Sides, NEW a \in Routing!Sides,
         Routing!RouteCheck(phase, p, stray, b, a) = "PASS"
  PROVE  /\ Routing!Eligible(b) /\ Routing!Eligible(a)
         /\ \A r \in p.required :
              Routing!Satisfies(r, b.route) /\ Routing!Satisfies(r, a.route)
         /\ \/ p.excluded
            \/ phase # "rollback" /\ Routing!Kept(b, a)
            \/ b.route = a.route
            \/ /\ phase \in {"after", "offline"}
               /\ [before |-> b.route, after |-> a.route] \in p.expected
<1> DEFINE kept == KeptPolicy(phase, p)
           G == Grounds(phase, p, stray, b, a)
<1>1. "UNKNOWN" \notin G /\ "FAIL" \notin G /\ "WARN" \notin G
  BY CheckGrounds, RepresentativePass
<1>2. /\ kept.required = p.required /\ kept.excluded = p.excluded
      /\ kept.expected = IF phase \in {"after", "offline"} THEN p.expected ELSE {}
  BY KeptPolicyParts
<1> HIDE DEF kept
<1>3. G = (({Routing!Required(r, b, a) : r \in kept.required}
              \cup {Routing!Expected(c, b, a) : c \in kept.expected}
              \cup (IF Routing!Changed(b, a)
                    THEN {Routing!GeneralChange(kept, b, a)} ELSE {}))
             \ {"EXCLUDED"})
            \cup (IF Routing!Eligible(b) /\ Routing!Eligible(a) /\ ~stray
                  THEN {} ELSE {"UNKNOWN"})
            \cup (IF Routing!Residual(phase, kept, b, a) THEN {"FAIL"} ELSE {})
  BY DEF Grounds, kept
<1> HIDE DEF G
<1>4. Routing!Eligible(b) /\ Routing!Eligible(a) /\ ~Routing!Residual(phase, kept, b, a)
  BY <1>1, <1>3
<1>5. \A r \in kept.required : Routing!Required(r, b, a) = "PASS"
  BY <1>1, <1>3, RequiredType
<1>6. \A c \in kept.expected : b.route = c.before /\ a.route = c.after
  BY <1>1, <1>3, ExpectedResult
<1>7. ASSUME b.route # a.route, ~p.excluded
      PROVE  \/ phase # "rollback" /\ Routing!Kept(b, a)
             \/ /\ phase \in {"after", "offline"}
                /\ [before |-> b.route, after |-> a.route] \in p.expected
  <2>1. Routing!Changed(b, a)
    BY <1>4, <1>7 DEF Routing!Changed, Routing!Eligible, Routing!Complete
  <2>2. phase # "rollback"
    BY <1>2, <1>4, <1>7, <2>1 DEF Routing!Residual
  <2>3. CASE kept.expected # {}
    <3>1. PICK c \in kept.expected : TRUE
      BY <2>3
    <3>2. phase \in {"after", "offline"} /\ c \in p.expected
      BY <1>2, <3>1
    <3>3. p.expected \subseteq Routing!ExpectedChanges
      BY KeptPolicyParts
    <3>4. c = [before |-> b.route, after |-> a.route]
      BY <1>6, <3>1, <3>2, <3>3 DEF Routing!ExpectedChanges
    <3> QED
      BY <3>2, <3>4
  <2>4. CASE kept.expected = {}
    <3>1. {Routing!Required(r, b, a) : r \in kept.required} \cap {"FAIL", "UNKNOWN"} = {}
      BY <1>5
    <3>2. Routing!GeneralChange(kept, b, a)
            = IF Routing!Regressed(b, a) THEN "WARN" ELSE "PASS"
      BY <1>2, <1>4, <1>7, <2>4, <3>1 DEF Routing!GeneralChange
    <3>3. ~Routing!Regressed(b, a)
      BY <1>1, <1>3, <2>1, <3>2
    <3> QED
      BY <2>2, <3>3, NotRegressed
  <2> QED
    BY <2>3, <2>4
<1> QED
  BY <1>2, <1>4, <1>5, <1>7, RequiredPass

\* A check that warns, warns of a change that need not be undone.
LEMMA WarnsOfChange ==
  ASSUME NEW phase \in {"single", "after", "rollback", "offline"},
         NEW p \in Routing!Policies, NEW stray \in BOOLEAN,
         NEW b \in Routing!Sides, NEW a \in Routing!Sides,
         phase = "single" => a = b,
         Routing!RouteCheck(phase, p, stray, b, a) = "WARN"
  PROVE  phase \in {"after", "offline"}
<1> SUFFICES ASSUME phase \in {"single", "rollback"} PROVE FALSE
  OBVIOUS
<1> DEFINE kept == KeptPolicy(phase, p)
           G == Grounds(phase, p, stray, b, a)
<1>1. "UNKNOWN" \notin G /\ "FAIL" \notin G /\ "WARN" \in G
  BY CheckGrounds, RepresentativeWarn
<1>2. /\ kept.excluded = p.excluded /\ kept.expected = {}
      /\ p.excluded => kept.required = {}
  BY KeptPolicyParts
<1> HIDE DEF kept
<1>3. G = (({Routing!Required(r, b, a) : r \in kept.required}
              \cup {Routing!Expected(c, b, a) : c \in kept.expected}
              \cup (IF Routing!Changed(b, a)
                    THEN {Routing!GeneralChange(kept, b, a)} ELSE {}))
             \ {"EXCLUDED"})
            \cup (IF Routing!Eligible(b) /\ Routing!Eligible(a) /\ ~stray
                  THEN {} ELSE {"UNKNOWN"})
            \cup (IF Routing!Residual(phase, kept, b, a) THEN {"FAIL"} ELSE {})
  BY DEF Grounds, kept
<1> HIDE DEF G
<1>4. Routing!Eligible(b) /\ Routing!Eligible(a) /\ ~Routing!Residual(phase, kept, b, a)
  BY <1>1, <1>3
<1>5. Routing!Changed(b, a) /\ Routing!GeneralChange(kept, b, a) = "WARN"
  BY <1>1, <1>2, <1>3, RequiredType
<1>6. phase = "rollback" /\ p.excluded
  BY <1>2, <1>4, <1>5 DEF Routing!Changed, Routing!Residual
<1>7. Routing!GeneralChange(kept, b, a) = "EXCLUDED"
  BY <1>2, <1>4, <1>6 DEF Routing!GeneralChange
<1> QED
  BY <1>5, <1>7

\* The inductive invariant: the tables are those of a Snapshot, and a result is that of
\* the check of these tables under this policy.
RoutingInv ==
  /\ sides \in [phase : {"none", "single", "after", "rollback", "offline"},
                before : Routing!Sides, after : Routing!Sides]
  /\ sides.phase = "single" => sides.after = sides.before
  /\ policy \in Routing!Policies
  /\ check # "none" =>
       /\ sides.phase # "none"
       /\ \E stray \in BOOLEAN :
            check =
              Routing!RouteCheck(sides.phase, policy, stray, sides.before, sides.after)

\* It holds in the initial state.
LEMMA RoutingBegins == Routing!Init => RoutingInv
<1> SUFFICES ASSUME Routing!Init PROVE RoutingInv
  OBVIOUS
<1>1. Routing!NoSide \in Routing!Sides
  BY DEF Routing!NoSide, Routing!Sides
<1>2. Routing!NoPolicy \in Routing!Policies
  BY DEF Routing!NoPolicy, Routing!Policies, Routing!AtMostOne
<1> QED
  BY <1>1, <1>2 DEF Routing!Init, RoutingInv

\* Every step keeps it.
LEMMA RoutingSteps == RoutingInv /\ [Routing!Next]_(Routing!vars) => RoutingInv'
<1> SUFFICES ASSUME RoutingInv, [Routing!Next]_(Routing!vars) PROVE RoutingInv'
  OBVIOUS
<1>1. CASE Routing!TakeTables
  BY <1>1 DEF RoutingInv, Routing!TakeTables
<1>2. CASE Routing!Compare
  BY <1>2 DEF RoutingInv, Routing!Compare
<1>3. CASE UNCHANGED Routing!vars
  BY <1>3 DEF RoutingInv, Routing!vars
<1> QED
  BY <1>1, <1>2, <1>3 DEF Routing!Next

\* It implies the types.
LEMMA RoutingTyped == RoutingInv => Routing!TypeOK
<1> SUFFICES ASSUME RoutingInv PROVE Routing!TypeOK
  OBVIOUS
<1>1. \A side \in {sides.before, sides.after} :
        /\ side.route \subseteq Routing!Paths
        /\ side.route # Routing!Absent => Routing!Complete(side)
  BY DEF RoutingInv, Routing!Sides, Routing!Routes, Routing!Absent, Routing!Complete
<1>2. policy.excluded => policy.required = {} /\ policy.expected = {}
  BY KeptPolicyParts DEF RoutingInv
<1>3. check \in {"none", "PASS", "WARN", "FAIL", "UNKNOWN"}
  BY CheckGrounds, RepresentativeType DEF RoutingInv
<1> QED
  BY <1>1, <1>2, <1>3 DEF Routing!TypeOK

\* It implies that the result accounts for the prefix.
LEMMA RoutingTrue == RoutingInv => Routing!RoutesAccounted
<1> SUFFICES ASSUME RoutingInv, check # "none" PROVE Routing!RoutesAccounted
  BY DEF Routing!RoutesAccounted
<1>1. PICK stray \in BOOLEAN :
        check = Routing!RouteCheck(sides.phase, policy, stray, sides.before, sides.after)
  BY DEF RoutingInv
<1>2. /\ sides.phase \in {"single", "after", "rollback", "offline"}
      /\ sides.before \in Routing!Sides /\ sides.after \in Routing!Sides
      /\ policy \in Routing!Policies
      /\ sides.phase = "single" => sides.after = sides.before
  BY DEF RoutingInv
<1> QED
  BY <1>1, <1>2, PassAccounts, WarnsOfChange DEF Routing!RoutesAccounted

\* The workbench steps of the check are its own, or leave it alone.
LEMMA RoutingInvariant == Spec => []RoutingInv
<1>1. Init => RoutingInv
  BY RoutingBegins DEF Init
<1>2. [Next]_vars => [Routing!Next]_(Routing!vars)
  BY DEF Next, vars, compareVars, Routing!vars
<1> QED
  BY <1>1, <1>2, RoutingSteps, PTL DEF Spec

\* route_check passes no prefix whose forwarding is not accounted for, whatever the next
\* hops, the number of paths and the policy, and after a rollback it never only warns.
THEOREM RoutingAccounted == Spec => []RoutesAccounted
<1>1. RoutingInv => RoutesAccounted
  BY RoutingTrue DEF RoutesAccounted
<1> QED
  BY <1>1, RoutingInvariant, PTL

-----------------------------------------------------------------------------
(* The collections: what the threads of the last one learnt, and where it  *)
(* is.  Each host has a thread and files of its own, so a step of a thread *)
(* is looked at alone; a command that begins, one that is killed and the   *)
(* Snapshot concern all of them.                                           *)

\* A file of a single command is this collection's, and says how it went.
Filed(h, c, ok) ==
  \E x \in files[h].artifacts : x.command = c /\ x.by = collection.n /\ x.ok = ok

\* The mirror of the running configuration is this collection's.
Mirrored(h) ==
  /\ {files[h].run.json, files[h].run.text} \subseteq {collection.n, Snap!Never}
  /\ collection.n \in {files[h].run.json, files[h].run.text}

\* The host was not asked for these commands yet.
NotAsked(h, C) == \A c \in C : told[h][c] = "nothing"

\* The thread remembers how the LLDP neighbours were answered, if it asked for them.
LldpKnown(h) ==
  told[h]["lldp"] = IF threads[h].reuse = "none" THEN "nothing" ELSE threads[h].reuse

\* What the host said to a command of the list is filed.
Listed(h, c) ==
  /\ told[h][c] = "ok" => Filed(h, c, TRUE)
  /\ told[h][c] = "failed" => Filed(h, c, FALSE)

\* While the list is asked for, and when it ends: the running configuration may be in the
\* mirror or in the list, its failure is reported at the end unless the list had it; of the
\* LLDP neighbours the list files what is remembered.
ListInv(h) ==
  /\ Listed(h, "show")
  /\ told[h]["run"] = "ok" => Mirrored(h) \/ Filed(h, "run", TRUE)
  /\ told[h]["run"] = "failed" => "run" \in threads[h].failures \/ Filed(h, "run", FALSE)
  /\ IF threads[h].reuse = "none" THEN Listed(h, "lldp")
     ELSE /\ LldpKnown(h)
          /\ \A i \in 1 .. threads[h].asked : threads[h].list[i] = "lldp" =>
               Listed(h, "lldp")

\* What a thread at each stage, and one that has ended, has told the operator is in its
\* files or will be.
ThreadInv(h) ==
  /\ threads[h].stage # "none" => collection.n # 0
  /\ threads[h].stage \in {"check", "start", "lldp"} =>
       NotAsked(h, Snap!Commands) /\ threads[h].reuse = "none"
  /\ threads[h].stage \in {"check", "start", "lldp", "run", "diff"} =>
       threads[h].list = <<>> /\ threads[h].asked = 0
  /\ threads[h].stage = "run" => NotAsked(h, {"run", "show"}) /\ LldpKnown(h)
  /\ threads[h].stage = "diff" =>
       /\ NotAsked(h, {"show"}) /\ LldpKnown(h)
       /\ told[h]["run"] = "ok" => Mirrored(h)
       /\ told[h]["run"] = "failed" => "run" \in threads[h].failures
  /\ threads[h].stage \in {"list", "finish"} => ListInv(h)
  /\ threads[h].stage = "finish" => threads[h].asked = Len(threads[h].list)
  /\ threads[h].stage = "done" =>
       \A c \in Snap!Commands :
         /\ told[h][c] = "ok" => Filed(h, c, TRUE) \/ (c = "run" /\ Mirrored(h))
         /\ told[h][c] = "failed" => Filed(h, c, FALSE)

\* The inductive invariant.
CollectInv ==
  /\ Snap!TypeOK
  /\ \A h \in Inventory : ThreadInv(h)
  /\ snapshot # Snap!NoSnapshot => Snap!Idle
  /\ Snap!OwnAnswers

\* A step of the thread of h.
OneThread(h) ==
  /\ UNCHANGED <<collection, steps, snapshot>> /\ threads[h].stage \notin Snap!Ended
  /\ \A g \in Inventory : g # h =>
       threads'[g] = threads[g] /\ files'[g] = files[g] /\ told'[g] = told[g]

\* It keeps the invariant when it keeps its own part of it.
LEMMA ThreadAlone ==
  ASSUME CollectInv, NEW h \in Inventory, OneThread(h), Snap!TypeOK', ThreadInv(h)'
  PROVE  CollectInv'
<1>1. collection' = collection /\ snapshot' = snapshot /\ snapshot = Snap!NoSnapshot
  BY DEF OneThread, CollectInv, Snap!Idle
<1>2. ASSUME NEW g \in Inventory, g # h PROVE ThreadInv(g)'
  <2>1. threads'[g] = threads[g] /\ files'[g] = files[g] /\ told'[g] = told[g]
    BY <1>2 DEF OneThread
  <2>2. ThreadInv(g)
    BY DEF CollectInv
  <2> QED
    BY <1>1, <2>1, <2>2
    DEF ThreadInv, Filed, Mirrored, NotAsked, LldpKnown, Listed, ListInv
<1>3. Snap!OwnAnswers'
  BY <1>1 DEF Snap!OwnAnswers
<1> QED
  BY <1>1, <1>2, <1>3 DEF CollectInv

\* The thread of h goes to a stage.
GoesTo(h, s) ==
  /\ threads' \in [Inventory -> Snap!Thread]
  /\ \A g \in Inventory : g # h => threads'[g] = threads[g]
  /\ threads'[h].stage = s /\ threads'[h].reuse = threads[h].reuse
  /\ threads'[h].failures = threads[h].failures /\ threads'[h].list = threads[h].list
  /\ threads'[h].asked = threads[h].asked

\* A thread that has not begun, and one that has ended.
LEMMA NewThread ==
  \A s \in Snap!Stages : /\ [Snap!NoJob EXCEPT !.stage = s] \in Snap!Thread
                         /\ [Snap!NoJob EXCEPT !.stage = s].stage = s
                         /\ [Snap!NoJob EXCEPT !.stage = s].reuse = "none"
                         /\ [Snap!NoJob EXCEPT !.stage = s].list = <<>>
                         /\ [Snap!NoJob EXCEPT !.stage = s].asked = 0
<1>1. <<>> \in Seq(Snap!Commands) /\ {} \in SUBSET Snap!Commands
  OBVIOUS
<1> QED
  BY <1>1 DEF Snap!NoJob, Snap!Thread

\* How the operators of the model change a thread.
LEMMA ThreadMoves ==
  ASSUME threads \in [Inventory -> Snap!Thread], NEW h \in Inventory
  PROVE  /\ \A s \in Snap!Stages : Snap!Goto(h, s) => GoesTo(h, s)
         /\ \A s \in Snap!Ended : Snap!End(h, s) =>
              /\ threads' \in [Inventory -> Snap!Thread] /\ threads'[h].stage = s
              /\ \A g \in Inventory : g # h => threads'[g] = threads[g]
<1>1. ASSUME NEW s \in Snap!Stages, Snap!Goto(h, s) PROVE GoesTo(h, s)
  <2> DEFINE j == [threads[h] EXCEPT !.stage = s]
  <2>1. /\ j \in Snap!Thread /\ j.stage = s /\ j.reuse = threads[h].reuse
        /\ j.failures = threads[h].failures /\ j.list = threads[h].list
        /\ j.asked = threads[h].asked
    BY DEF Snap!Thread
  <2>2. threads' = [threads EXCEPT ![h] = j]
    BY <1>1 DEF Snap!Goto
  <2> HIDE DEF j
  <2> QED
    BY <2>1, <2>2 DEF GoesTo
<1>2. ASSUME NEW s \in Snap!Ended, Snap!End(h, s)
      PROVE  /\ threads' \in [Inventory -> Snap!Thread] /\ threads'[h].stage = s
             /\ \A g \in Inventory : g # h => threads'[g] = threads[g]
  <2> DEFINE j == [Snap!NoJob EXCEPT !.stage = s]
  <2>1. j \in Snap!Thread /\ j.stage = s
    BY NewThread DEF Snap!Stages
  <2>2. threads' = [threads EXCEPT ![h] = j]
    BY <1>2 DEF Snap!End
  <2> HIDE DEF j
  <2> QED
    BY <2>1, <2>2
<1> QED
  BY <1>1, <1>2

\* What an answer leaves in the mirrors, and what the thread learns from it.
LEMMA AnswerLeaves ==
  ASSUME Snap!TypeOK, NEW h \in Inventory, NEW a \in Snap!Answers(h)
  PROVE  /\ \A old : Snap!Saved(old, a) \in Snap!MirrorFiles
         /\ \A old :
              LET m == Snap!Saved(old, a)
              IN /\ {m.json, m.text} \subseteq {collection.n, Snap!Never}
                 /\ Snap!Ok(a) => collection.n \in {m.json, m.text}
         /\ \A c \in Snap!Commands : Snap!Learns(h, c, a) =>
              /\ told' \in [Inventory -> [Snap!Commands -> {"nothing", "ok", "failed"}]]
              /\ \A g \in Inventory : g # h => told'[g] = told[g]
              /\ \A d \in Snap!Commands \ {c} : told'[h][d] = told[h][d]
              /\ told'[h][c] = IF Snap!Ok(a) THEN "ok" ELSE "failed"
         /\ Snap!Dead(h, a) \in BOOLEAN
<1>1. a.nxapi \in {"json", "text", "none"} /\ a.ssh \in {"text", "none"}
  BY DEF Snap!Answers, Snap!NxapiAnswers, Snap!SshAnswers
<1>2. collection.n \in Nat /\ Snap!Never \in Nat
  BY DEF Snap!TypeOK, Snap!Collections, Snap!Never
<1>3. \A old : /\ Snap!Saved(old, a).json =
                    IF a.nxapi = "json" THEN collection.n ELSE Snap!Never
               /\ Snap!Saved(old, a).text =
                    IF a.nxapi = "text" \/ a.ssh = "text" THEN collection.n ELSE Snap!Never
               /\ Snap!Saved(old, a) \in Snap!MirrorFiles
  BY <1>2 DEF Snap!Saved, Snap!Mirror, Snap!MirrorFiles
<1>4. \A old : /\ Snap!Saved(old, a).json \in {collection.n, Snap!Never}
               /\ Snap!Saved(old, a).text \in {collection.n, Snap!Never}
               /\ Snap!Ok(a) => \/ Snap!Saved(old, a).json = collection.n
                               \/ Snap!Saved(old, a).text = collection.n
  BY <1>1, <1>3 DEF Snap!Ok
<1>5. ASSUME NEW c \in Snap!Commands, Snap!Learns(h, c, a)
      PROVE  /\ told' \in [Inventory -> [Snap!Commands -> {"nothing", "ok", "failed"}]]
             /\ \A g \in Inventory : g # h => told'[g] = told[g]
             /\ \A d \in Snap!Commands \ {c} : told'[h][d] = told[h][d]
             /\ told'[h][c] = IF Snap!Ok(a) THEN "ok" ELSE "failed"
  <2> DEFINE v == IF Snap!Ok(a) THEN "ok" ELSE "failed"
             t == [told[h] EXCEPT ![c] = v]
  <2>1. told[h] \in [Snap!Commands -> {"nothing", "ok", "failed"}] /\ v \in {"ok", "failed"}
    BY DEF Snap!TypeOK
  <2> HIDE DEF v
  <2>2. /\ t \in [Snap!Commands -> {"nothing", "ok", "failed"}] /\ t[c] = v
        /\ \A d \in Snap!Commands \ {c} : t[d] = told[h][d]
    BY <2>1
  <2>3. told' = [told EXCEPT ![h] = t]
    BY <1>5 DEF Snap!Learns, v
  <2> HIDE DEF t
  <2>4. /\ told'[h] = t
        /\ told' \in [Inventory -> [Snap!Commands -> {"nothing", "ok", "failed"}]]
    BY <2>2, <2>3 DEF Snap!TypeOK
  <2>5. \A g \in Inventory : g # h => told'[g] = told[g]
    BY <2>3 DEF Snap!TypeOK
  <2> QED
    BY <2>2, <2>4, <2>5 DEF v
<1>6. Snap!Dead(h, a) \in BOOLEAN
  BY Zenon DEF Snap!Dead
<1> QED
  BY <1>3, <1>4, <1>5, <1>6

\* The files of a host but for one kind of them.
KeepsFiles(h, kinds) ==
  /\ files' \in [Inventory -> Snap!FileSet]
  /\ \A g \in Inventory : g # h => files'[g] = files[g]
  /\ "artifacts" \in kinds => files'[h].artifacts = files[h].artifacts
  /\ "logs" \in kinds => files'[h].logs = files[h].logs
  /\ "lldp" \in kinds => files'[h].lldp = files[h].lldp
  /\ "run" \in kinds => files'[h].run = files[h].run

\* How the operators of the model change the files of a host.
LEMMA Replaced ==
  ASSUME files \in [Inventory -> Snap!FileSet], NEW h \in Inventory
  PROVE  /\ \A A \in SUBSET Snap!Section : files' = [files EXCEPT ![h].artifacts = A] =>
              KeepsFiles(h, {"logs", "lldp", "run"}) /\ files'[h].artifacts = A
         /\ \A A \in SUBSET Snap!Section : files' = [files EXCEPT ![h].logs = A] =>
              KeepsFiles(h, {"artifacts", "lldp", "run"}) /\ files'[h].logs = A
         /\ \A m \in Snap!MirrorFiles : files' = [files EXCEPT ![h].lldp = m] =>
              KeepsFiles(h, {"artifacts", "logs", "run"}) /\ files'[h].lldp = m
         /\ \A m \in Snap!MirrorFiles : files' = [files EXCEPT ![h].run = m] =>
              KeepsFiles(h, {"artifacts", "logs", "lldp"}) /\ files'[h].run = m
<1>1. ASSUME NEW A \in SUBSET Snap!Section, files' = [files EXCEPT ![h].artifacts = A]
      PROVE  KeepsFiles(h, {"logs", "lldp", "run"}) /\ files'[h].artifacts = A
  <2> DEFINE f == [files[h] EXCEPT !.artifacts = A]
  <2>1. /\ f \in Snap!FileSet /\ f.artifacts = A /\ f.logs = files[h].logs
        /\ f.run = files[h].run /\ f.lldp = files[h].lldp
    BY DEF Snap!FileSet
  <2>2. files' = [files EXCEPT ![h] = f]
    BY <1>1
  <2> HIDE DEF f
  <2> QED
    BY <2>1, <2>2 DEF KeepsFiles
<1>2. ASSUME NEW A \in SUBSET Snap!Section, files' = [files EXCEPT ![h].logs = A]
      PROVE  KeepsFiles(h, {"artifacts", "lldp", "run"}) /\ files'[h].logs = A
  <2> DEFINE f == [files[h] EXCEPT !.logs = A]
  <2>1. /\ f \in Snap!FileSet /\ f.logs = A /\ f.artifacts = files[h].artifacts
        /\ f.run = files[h].run /\ f.lldp = files[h].lldp
    BY DEF Snap!FileSet
  <2>2. files' = [files EXCEPT ![h] = f]
    BY <1>2
  <2> HIDE DEF f
  <2> QED
    BY <2>1, <2>2 DEF KeepsFiles
<1>3. ASSUME NEW m \in Snap!MirrorFiles, files' = [files EXCEPT ![h].lldp = m]
      PROVE  KeepsFiles(h, {"artifacts", "logs", "run"}) /\ files'[h].lldp = m
  <2> DEFINE f == [files[h] EXCEPT !.lldp = m]
  <2>1. /\ f \in Snap!FileSet /\ f.lldp = m /\ f.artifacts = files[h].artifacts
        /\ f.run = files[h].run /\ f.logs = files[h].logs
    BY DEF Snap!FileSet
  <2>2. files' = [files EXCEPT ![h] = f]
    BY <1>3
  <2> HIDE DEF f
  <2> QED
    BY <2>1, <2>2 DEF KeepsFiles
<1>4. ASSUME NEW m \in Snap!MirrorFiles, files' = [files EXCEPT ![h].run = m]
      PROVE  KeepsFiles(h, {"artifacts", "logs", "lldp"}) /\ files'[h].run = m
  <2> DEFINE f == [files[h] EXCEPT !.run = m]
  <2>1. /\ f \in Snap!FileSet /\ f.run = m /\ f.artifacts = files[h].artifacts
        /\ f.lldp = files[h].lldp /\ f.logs = files[h].logs
    BY DEF Snap!FileSet
  <2>2. files' = [files EXCEPT ![h] = f]
    BY <1>4
  <2> HIDE DEF f
  <2> QED
    BY <2>1, <2>2 DEF KeepsFiles
<1> QED
  BY <1>1, <1>2, <1>3, <1>4

\* A thread begins, or begins its list.
LEMMA StartKeeps ==
  ASSUME CollectInv, NEW h \in Inventory,
         Snap!ConnectCheck(h) \/ Snap!Start(h) \/ Snap!BeginList(h)
  PROVE  CollectInv'
<1>1. /\ threads \in [Inventory -> Snap!Thread] /\ files \in [Inventory -> Snap!FileSet]
      /\ collection.list \in Seq(Snap!Commands) /\ ThreadInv(h)
  BY DEF CollectInv, Snap!TypeOK, Snap!Collections
<1>2. CASE Snap!ConnectCheck(h)
  <2>1. PICK s \in {"start", "out"} : Snap!Goto(h, s)
    BY <1>2 DEF Snap!ConnectCheck
  <2>2. GoesTo(h, s)
    BY <1>1, <2>1, ThreadMoves DEF Snap!Stages, Snap!Ended
  <2>3. /\ UNCHANGED <<collection, steps, files, told, snapshot>> /\ Snap!At(h, "check")
        /\ reached' \in [Inventory -> {"unknown", "yes", "no"}]
    BY <1>2 DEF Snap!ConnectCheck, CollectInv, Snap!TypeOK
  <2>4. Snap!TypeOK' /\ OneThread(h)
    BY <2>2, <2>3 DEF GoesTo, OneThread, CollectInv, Snap!TypeOK, Snap!At, Snap!Ended
  <2>5. ThreadInv(h)'
    BY <1>1, <2>2, <2>3 DEF GoesTo, ThreadInv, NotAsked, Snap!At
  <2> QED
    BY <2>4, <2>5, ThreadAlone
<1>3. CASE Snap!Start(h)
  <2>1. GoesTo(h, "lldp")
    BY <1>1, <1>3, ThreadMoves DEF Snap!Start, Snap!Stages
  <2>2. /\ UNCHANGED <<collection, steps, reached, told, snapshot>> /\ Snap!At(h, "start")
        /\ files' = [files EXCEPT ![h].artifacts =
                       {x \in files[h].artifacts : ~(x.dir = Snap!Dir /\ x.index = 0)}]
    BY <1>3 DEF Snap!Start
  <2>3. /\ files' \in [Inventory -> Snap!FileSet]
        /\ \A g \in Inventory : g # h => files'[g] = files[g]
        /\ files'[h].artifacts \subseteq files[h].artifacts
        /\ files'[h].logs = files[h].logs
    <3> DEFINE A == {x \in files[h].artifacts : ~(x.dir = Snap!Dir /\ x.index = 0)}
    <3>1. A \in SUBSET Snap!Section /\ A \subseteq files[h].artifacts
      BY <1>1 DEF Snap!FileSet
    <3>2. files' = [files EXCEPT ![h].artifacts = A]
      BY <2>2
    <3> HIDE DEF A
    <3>3. KeepsFiles(h, {"logs", "lldp", "run"}) /\ files'[h].artifacts = A
      BY <1>1, <3>1, <3>2, Replaced
    <3> QED
      BY <3>1, <3>3 DEF KeepsFiles
  <2>4. Snap!TypeOK' /\ OneThread(h)
    BY <2>1, <2>2, <2>3
    DEF GoesTo, OneThread, CollectInv, Snap!TypeOK, Snap!At, Snap!Ended
  <2>5. ThreadInv(h)'
    BY <1>1, <2>1, <2>2 DEF GoesTo, ThreadInv, NotAsked, Snap!At
  <2> QED
    BY <2>4, <2>5, ThreadAlone
<1>4. CASE Snap!BeginList(h)
  <2>1. UNCHANGED <<collection, steps, reached, told, snapshot>> /\ Snap!At(h, "diff")
    BY <1>4 DEF Snap!BeginList
  <2>2. PICK list \in {<<>>, collection.list} :
          IF list # <<>>
          THEN /\ files' = [files EXCEPT ![h].artifacts =
                              {x \in files[h].artifacts : x.dir # Snap!Dir}]
               /\ threads' = [threads EXCEPT ![h].stage = "list", ![h].list = list]
          ELSE Snap!Goto(h, "finish") /\ UNCHANGED files
    BY <1>4 DEF Snap!BeginList
  <2>5. /\ collection.n # 0 /\ told[h]["show"] = "nothing" /\ threads[h].asked = 0
        /\ told[h]["lldp"] =
             IF threads[h].reuse = "none" THEN "nothing" ELSE threads[h].reuse
        /\ threads[h].list = <<>>
        /\ told[h]["run"] = "ok" => Mirrored(h)
        /\ told[h]["run"] = "failed" => "run" \in threads[h].failures
    BY <1>1, <2>1 DEF ThreadInv, Snap!At, NotAsked, LldpKnown
  <2>3. CASE list = <<>>
    <3>1. GoesTo(h, "finish") /\ files' = files
      BY <1>1, <2>2, <2>3, ThreadMoves DEF Snap!Stages
    <3>2. Snap!TypeOK' /\ OneThread(h)
      BY <2>1, <3>1 DEF GoesTo, OneThread, CollectInv, Snap!TypeOK, Snap!At, Snap!Ended
    <3>3. Len(<<>>) = 0 /\ 1 .. 0 = {}
      OBVIOUS
    <3>4. ThreadInv(h)'
      BY <2>1, <2>5, <3>1, <3>3
      DEF GoesTo, ThreadInv, ListInv, Listed, LldpKnown, Mirrored
    <3> QED
      BY <3>2, <3>4, ThreadAlone
  <2>4. CASE list # <<>>
    <3> DEFINE j == [threads[h] EXCEPT !.stage = "list", !.list = list]
    <3>1. /\ j \in Snap!Thread /\ j.stage = "list" /\ j.reuse = threads[h].reuse
          /\ j.failures = threads[h].failures /\ j.asked = threads[h].asked
      <4>1. list \in Seq(Snap!Commands)
        <5>1. <<>> \in Seq(Snap!Commands)
          OBVIOUS
        <5> QED
          BY <1>1, <5>1
      <4> QED
        BY <1>1, <4>1 DEF Snap!Thread, Snap!Stages
    <3>2. threads' = [threads EXCEPT ![h] = j]
      BY <2>2, <2>4
    <3> HIDE DEF j
    <3>3. /\ threads' \in [Inventory -> Snap!Thread] /\ threads'[h] = j
          /\ \A g \in Inventory : g # h => threads'[g] = threads[g]
      BY <1>1, <3>1, <3>2
    <3>4. /\ files' \in [Inventory -> Snap!FileSet]
          /\ \A g \in Inventory : g # h => files'[g] = files[g]
          /\ files'[h].artifacts \subseteq files[h].artifacts
          /\ files'[h].logs = files[h].logs /\ files'[h].run = files[h].run
      <4> DEFINE A == {x \in files[h].artifacts : x.dir # Snap!Dir}
      <4>1. A \in SUBSET Snap!Section /\ A \subseteq files[h].artifacts
        BY <1>1 DEF Snap!FileSet
      <4>2. files' = [files EXCEPT ![h].artifacts = A]
        BY <2>2, <2>4
      <4> HIDE DEF A
      <4>3. KeepsFiles(h, {"logs", "lldp", "run"}) /\ files'[h].artifacts = A
        BY <1>1, <4>1, <4>2, Replaced
      <4> QED
        BY <4>1, <4>3 DEF KeepsFiles
    <3>5. Snap!TypeOK' /\ OneThread(h)
      BY <2>1, <3>3, <3>4 DEF OneThread, CollectInv, Snap!TypeOK, Snap!At, Snap!Ended
    <3>6. ThreadInv(h)'
      <4>1. 1 .. 0 = {}
        OBVIOUS
      <4> QED
        BY <2>1, <2>5, <3>1, <3>3, <3>4, <4>1
        DEF ThreadInv, ListInv, Listed, LldpKnown, Mirrored
    <3> QED
      BY <3>5, <3>6, ThreadAlone
  <2> QED
    BY <2>3, <2>4
<1> QED
  BY <1>2, <1>3, <1>4

\* The base commands.
LEMMA BaseKeeps ==
  ASSUME CollectInv, NEW h \in Inventory, Snap!Lldp(h) \/ Snap!RunningConfig(h)
  PROVE  CollectInv'
<1>1. /\ threads \in [Inventory -> Snap!Thread] /\ files \in [Inventory -> Snap!FileSet]
      /\ told \in [Inventory -> [Snap!Commands -> {"nothing", "ok", "failed"}]]
      /\ ThreadInv(h) /\ Snap!TypeOK
      /\ "lldp" \in Snap!Commands /\ "run" \in Snap!Commands /\ "show" \in Snap!Commands
  BY DEF CollectInv, Snap!TypeOK, Snap!Commands
<1>2. CASE Snap!Lldp(h)
  <2>1. UNCHANGED <<collection, steps, reached, snapshot>> /\ Snap!At(h, "lldp")
    BY <1>2 DEF Snap!Lldp
  <2>2. /\ collection.n # 0 /\ threads[h].list = <<>> /\ threads[h].asked = 0
        /\ threads[h].reuse = "none"
        /\ \A c \in Snap!Commands : told[h][c] = "nothing"
    BY <1>1, <2>1 DEF ThreadInv, Snap!At, NotAsked
  <2>3. CASE ~Snap!Has(collection.kind, "lldp")
    <3>1. GoesTo(h, "run") /\ files' = files /\ told' = told
      BY <1>1, <1>2, <2>3, ThreadMoves DEF Snap!Lldp, Snap!Stages
    <3>2. Snap!TypeOK' /\ OneThread(h)
      BY <2>1, <3>1 DEF GoesTo, OneThread, CollectInv, Snap!TypeOK, Snap!At, Snap!Ended
    <3>3. ThreadInv(h)'
      BY <1>1, <2>1, <2>2, <3>1 DEF GoesTo, ThreadInv, NotAsked, LldpKnown
    <3> QED
      BY <3>2, <3>3, ThreadAlone
  <2>4. CASE Snap!Has(collection.kind, "lldp")
    <3>1. PICK a \in Snap!Answers(h) :
            /\ files' = [files EXCEPT ![h].lldp = Snap!Saved(files[h].lldp, a)]
            /\ threads' = [threads EXCEPT ![h].stage = "run", ![h].dead = Snap!Dead(h, a),
                                    ![h].reuse = IF Snap!Ok(a) THEN "ok" ELSE "failed"]
            /\ Snap!Learns(h, "lldp", a)
      BY <1>2, <2>4 DEF Snap!Lldp
    <3> DEFINE v == IF Snap!Ok(a) THEN "ok" ELSE "failed"
               j == [threads[h] EXCEPT !.stage = "run", !.dead = Snap!Dead(h, a),
                                       !.reuse = v]
    <3>2. v \in {"ok", "failed"} /\ Snap!Dead(h, a) \in BOOLEAN
      BY <1>1, AnswerLeaves
    <3>3. threads' = [threads EXCEPT ![h] = j]
      BY <3>1
    <3>4. /\ KeepsFiles(h, {"artifacts", "logs", "run"})
          /\ told' \in [Inventory -> [Snap!Commands -> {"nothing", "ok", "failed"}]]
          /\ \A g \in Inventory : g # h => told'[g] = told[g]
          /\ told'[h]["lldp"] = v /\ told'[h]["run"] = "nothing"
          /\ told'[h]["show"] = "nothing"
      <4> DEFINE m == Snap!Saved(files[h].lldp, a)
      <4>1. m \in Snap!MirrorFiles /\ files' = [files EXCEPT ![h].lldp = m]
        BY <1>1, <3>1, AnswerLeaves
      <4> HIDE DEF m
      <4>2. KeepsFiles(h, {"artifacts", "logs", "run"})
        BY <1>1, <4>1, Replaced
      <4>3. Snap!Learns(h, "lldp", a)
        BY <3>1
      <4>4. /\ told' \in [Inventory -> [Snap!Commands -> {"nothing", "ok", "failed"}]]
            /\ \A g \in Inventory : g # h => told'[g] = told[g]
            /\ told'[h]["lldp"] = v
            /\ \A d \in Snap!Commands \ {"lldp"} : told'[h][d] = told[h][d]
        BY <1>1, <4>3, AnswerLeaves
      <4> QED
        BY <1>1, <2>2, <4>2, <4>4
    <3> HIDE DEF v
    <3>5. /\ j \in Snap!Thread /\ j.stage = "run" /\ j.reuse = v
          /\ j.list = <<>> /\ j.asked = 0
      BY <1>1, <2>2, <3>2 DEF Snap!Thread, Snap!Stages
    <3> HIDE DEF j
    <3>6. /\ threads' \in [Inventory -> Snap!Thread] /\ threads'[h] = j
          /\ \A g \in Inventory : g # h => threads'[g] = threads[g]
      BY <1>1, <3>3, <3>5
    <3>7. Snap!TypeOK' /\ OneThread(h)
      BY <2>1, <3>4, <3>6
      DEF KeepsFiles, OneThread, CollectInv, Snap!TypeOK, Snap!At, Snap!Ended
    <3>8. ThreadInv(h)'
      BY <2>1, <2>2, <3>2, <3>4, <3>5, <3>6 DEF ThreadInv, NotAsked, LldpKnown
    <3> QED
      BY <3>7, <3>8, ThreadAlone
  <2> QED
    BY <2>3, <2>4
<1>3. CASE Snap!RunningConfig(h)
  <2>1. UNCHANGED <<collection, steps, reached, snapshot>> /\ Snap!At(h, "run")
    BY <1>3 DEF Snap!RunningConfig
  <2>2. /\ collection.n # 0 /\ threads[h].list = <<>> /\ threads[h].asked = 0
        /\ told[h]["run"] = "nothing" /\ told[h]["show"] = "nothing"
        /\ told[h]["lldp"] =
             IF threads[h].reuse = "none" THEN "nothing" ELSE threads[h].reuse
    BY <1>1, <2>1 DEF ThreadInv, Snap!At, NotAsked, LldpKnown
  <2>3. CASE ~(Snap!Has(collection.kind, "run") /\ h \in WithRun)
    <3>1. GoesTo(h, "diff") /\ files' = files /\ told' = told
      BY <1>1, <1>3, <2>3, ThreadMoves DEF Snap!RunningConfig, Snap!Stages
    <3>2. Snap!TypeOK' /\ OneThread(h)
      BY <2>1, <3>1 DEF GoesTo, OneThread, CollectInv, Snap!TypeOK, Snap!At, Snap!Ended
    <3>3. ThreadInv(h)'
      BY <1>1, <2>1, <2>2, <3>1 DEF GoesTo, ThreadInv, NotAsked, LldpKnown
    <3> QED
      BY <3>2, <3>3, ThreadAlone
  <2>4. CASE Snap!Has(collection.kind, "run") /\ h \in WithRun
    <3>1. PICK a \in Snap!Answers(h) :
            /\ files' = [files EXCEPT ![h].run = Snap!Saved(files[h].run, a)]
            /\ threads' = [threads EXCEPT ![h].stage = "diff", ![h].dead = Snap!Dead(h, a),
                          ![h].failures = IF Snap!Ok(a) THEN {} ELSE {"run"}]
            /\ Snap!Learns(h, "run", a)
      BY <1>3, <2>4 DEF Snap!RunningConfig
    <3> DEFINE v == IF Snap!Ok(a) THEN {} ELSE {"run"}
               j == [threads[h] EXCEPT !.stage = "diff", !.dead = Snap!Dead(h, a),
                                       !.failures = v]
               m == Snap!Saved(files[h].run, a)
    <3>2. /\ v \in SUBSET Snap!Commands /\ Snap!Dead(h, a) \in BOOLEAN
          /\ m \in Snap!MirrorFiles
          /\ {m.json, m.text} \subseteq {collection.n, Snap!Never}
          /\ Snap!Ok(a) => collection.n \in {m.json, m.text}
      BY <1>1, AnswerLeaves
    <3>3. threads' = [threads EXCEPT ![h] = j] /\ files' = [files EXCEPT ![h].run = m]
      BY <3>1
    <3>4. /\ told' \in [Inventory -> [Snap!Commands -> {"nothing", "ok", "failed"}]]
          /\ \A g \in Inventory : g # h => told'[g] = told[g]
          /\ told'[h]["lldp"] = told[h]["lldp"]
          /\ told'[h]["run"] = IF Snap!Ok(a) THEN "ok" ELSE "failed"
          /\ told'[h]["show"] = "nothing"
      <4>1. Snap!Learns(h, "run", a)
        BY <3>1
      <4>2. /\ told' \in [Inventory -> [Snap!Commands -> {"nothing", "ok", "failed"}]]
            /\ \A g \in Inventory : g # h => told'[g] = told[g]
            /\ told'[h]["run"] = IF Snap!Ok(a) THEN "ok" ELSE "failed"
            /\ \A d \in Snap!Commands \ {"run"} : told'[h][d] = told[h][d]
        BY <1>1, <4>1, AnswerLeaves
      <4> QED
        BY <1>1, <2>2, <4>2
    <3> HIDE DEF m
    <3>5. KeepsFiles(h, {"artifacts", "logs", "lldp"}) /\ files'[h].run = m
      BY <1>1, <3>2, <3>3, Replaced
    <3>6. /\ told'[h]["run"] = "ok" => v = {} /\ Snap!Ok(a)
          /\ told'[h]["run"] = "failed" => "run" \in v
      BY <3>4
    <3> HIDE DEF v
    <3>7. /\ j \in Snap!Thread /\ j.stage = "diff" /\ j.reuse = threads[h].reuse
          /\ j.list = <<>> /\ j.asked = 0 /\ j.failures = v
      BY <1>1, <2>2, <3>2 DEF Snap!Thread, Snap!Stages
    <3> HIDE DEF j
    <3>8. /\ threads' \in [Inventory -> Snap!Thread] /\ threads'[h] = j
          /\ \A g \in Inventory : g # h => threads'[g] = threads[g]
      BY <1>1, <3>3, <3>7
    <3>9. Snap!TypeOK' /\ OneThread(h)
      BY <2>1, <3>4, <3>5, <3>8
      DEF KeepsFiles, OneThread, CollectInv, Snap!TypeOK, Snap!At, Snap!Ended
    <3>10. ThreadInv(h)'
      BY <2>1, <2>2, <3>2, <3>4, <3>5, <3>6, <3>7, <3>8
      DEF ThreadInv, NotAsked, LldpKnown, Mirrored
    <3> QED
      BY <3>9, <3>10, ThreadAlone
  <2> QED
    BY <2>3, <2>4
<1> QED
  BY <1>2, <1>3

\* What is filed stays so, and the new section is filed.
LEMMA AddedFiled ==
  ASSUME Snap!TypeOK, NEW h \in Inventory, collection.n # 0,
         NEW index \in Nat, NEW c \in Snap!Commands, NEW ok \in BOOLEAN,
         collection' = collection,
         files' = [files EXCEPT ![h].artifacts =
                     @ \cup {Snap!Artifact(Snap!Dir, index, c, collection.n, ok)}]
  PROVE  /\ KeepsFiles(h, {"logs", "lldp", "run"}) /\ Filed(h, c, ok)'
         /\ \A d, o : Filed(h, d, o) => Filed(h, d, o)'
         /\ Mirrored(h) => Mirrored(h)'
         /\ \A x \in files'[h].artifacts : x.by \in 1 .. collection.n
<1> DEFINE x == Snap!Artifact(Snap!Dir, index, c, collection.n, ok)
           A == files[h].artifacts \cup {x}
<1>1. collection.n \in Nat /\ collection.n \in 1 .. collection.n
  BY DEF Snap!TypeOK, Snap!Collections
<1>2. x \in Snap!Section /\ x.command = c /\ x.by = collection.n /\ x.ok = ok
  BY <1>1 DEF Snap!Artifact, Snap!Section, Snap!Dir
<1>3. files[h] \in Snap!FileSet /\ \A y \in files[h].artifacts : y.by \in 1 .. collection.n
  BY DEF Snap!TypeOK
<1> HIDE DEF x
<1>4. A \in SUBSET Snap!Section /\ files[h].artifacts \subseteq A /\ x \in A
  BY <1>2, <1>3 DEF Snap!FileSet
<1>5. files' = [files EXCEPT ![h].artifacts = A]
  BY DEF x
<1>6. \A y \in A : y.by \in 1 .. collection.n
  BY <1>1, <1>2, <1>3
<1> HIDE DEF A
<1>7. KeepsFiles(h, {"logs", "lldp", "run"}) /\ files'[h].artifacts = A
  BY <1>4, <1>5, Replaced DEF Snap!TypeOK
<1>8. Filed(h, c, ok)' /\ \A d, o : Filed(h, d, o) => Filed(h, d, o)'
  BY <1>2, <1>4, <1>7 DEF Filed
<1>9. Mirrored(h) => Mirrored(h)'
  BY <1>7 DEF Mirrored, KeepsFiles
<1> QED
  BY <1>6, <1>7, <1>8, <1>9

\* A show command.
LEMMA ShowKeeps ==
  ASSUME CollectInv, NEW h \in Inventory, Snap!ShowCommand(h)
  PROVE  CollectInv'
<1>1. /\ threads \in [Inventory -> Snap!Thread] /\ files \in [Inventory -> Snap!FileSet]
      /\ told \in [Inventory -> [Snap!Commands -> {"nothing", "ok", "failed"}]]
      /\ ThreadInv(h) /\ Snap!TypeOK
      /\ "lldp" \in Snap!Commands /\ "run" \in Snap!Commands /\ "show" \in Snap!Commands
  BY DEF CollectInv, Snap!TypeOK, Snap!Commands
<1>2. /\ Snap!At(h, "list") /\ threads[h].asked < Len(threads[h].list)
      /\ UNCHANGED <<collection, steps, reached, snapshot>>
  BY DEF Snap!ShowCommand
<1>3. collection.n # 0 /\ ListInv(h)
  BY <1>1, <1>2 DEF ThreadInv, Snap!At
<1>4. /\ threads[h].list \in Seq(Snap!Commands) /\ threads[h].asked \in Nat
  BY <1>1 DEF Snap!Thread
<1>5. PICK index \in Nat, c \in Snap!Commands :
        /\ index = threads[h].asked + 1 /\ c = threads[h].list[index]
        /\ \A i \in 1 .. index : i \in 1 .. threads[h].asked \/ i = index
  BY <1>2, <1>4
<1>6. CASE c = "lldp" /\ threads[h].reuse # "none"
  <2>1. PICK ok \in BOOLEAN : ok = (threads[h].reuse = "ok")
    OBVIOUS
  <2>2. /\ files' = [files EXCEPT ![h].artifacts =
                       @ \cup {Snap!Artifact(Snap!Dir, index, c, collection.n, ok)}]
        /\ told' = told
    BY <1>5, <1>6, <2>1 DEF Snap!ShowCommand
  <2> DEFINE j == [threads[h] EXCEPT !.asked = index]
  <2>3. threads' = [threads EXCEPT ![h] = j]
    BY <1>5, <1>6 DEF Snap!ShowCommand
  <2>4. /\ j \in Snap!Thread /\ j.stage = "list" /\ j.reuse = threads[h].reuse
        /\ j.asked = index
        /\ j.list = threads[h].list /\ j.failures = threads[h].failures
    BY <1>1, <1>2, <1>5 DEF Snap!Thread, Snap!At
  <2> HIDE DEF j
  <2>5. /\ KeepsFiles(h, {"logs", "lldp", "run"}) /\ Filed(h, c, ok)'
        /\ \A d, o : Filed(h, d, o) => Filed(h, d, o)'
        /\ Mirrored(h) => Mirrored(h)'
        /\ \A x \in files'[h].artifacts : x.by \in 1 .. collection.n
    BY <1>1, <1>2, <1>3, <2>2, AddedFiled
  <2>6. /\ threads' \in [Inventory -> Snap!Thread] /\ threads'[h] = j
        /\ \A g \in Inventory : g # h => threads'[g] = threads[g]
    BY <1>1, <2>3, <2>4
  <2>7. Snap!TypeOK' /\ OneThread(h)
    BY <1>2, <2>2, <2>5, <2>6
    DEF KeepsFiles, OneThread, CollectInv, Snap!TypeOK, Snap!At, Snap!Ended
  <2>8. LldpKnown(h) /\ LldpKnown(h)' /\ told[h]["lldp"] = threads[h].reuse
    BY <1>3, <1>6, <2>2, <2>4, <2>6 DEF ListInv, LldpKnown
  <2>9. Listed(h, "lldp")'
    BY <1>6, <2>1, <2>2, <2>5, <2>8 DEF Listed
  <2>10. \A d : Listed(h, d) => Listed(h, d)'
    BY <2>2, <2>5 DEF Listed
  <2>11. ListInv(h)'
    BY <1>3, <2>2, <2>4, <2>5, <2>6, <2>8, <2>9, <2>10 DEF ListInv
  <2>12. ThreadInv(h)'
    BY <1>2, <1>3, <2>4, <2>6, <2>11 DEF ThreadInv
  <2> QED
    BY <2>7, <2>12, ThreadAlone
<1>7. CASE ~(c = "lldp" /\ threads[h].reuse # "none")
  <2>1. PICK a \in Snap!Answers(h) :
          /\ files' = [files EXCEPT ![h].artifacts =
                         @ \cup
                           {Snap!Artifact(Snap!Dir, index, c, collection.n, Snap!Ok(a))}]
          /\ Snap!Learns(h, c, a)
          /\ threads' = [threads EXCEPT ![h].asked = index, ![h].dead = Snap!Dead(h, a)]
    BY <1>5, <1>7 DEF Snap!ShowCommand
  <2>2. PICK ok \in BOOLEAN : ok = Snap!Ok(a)
    BY DEF Snap!Ok
  <2> DEFINE j == [threads[h] EXCEPT !.asked = index, !.dead = Snap!Dead(h, a)]
  <2>3. threads' = [threads EXCEPT ![h] = j]
    BY <2>1
  <2>4. files' = [files EXCEPT ![h].artifacts =
                    @ \cup {Snap!Artifact(Snap!Dir, index, c, collection.n, ok)}]
    BY <2>1, <2>2
  <2>5. Snap!Learns(h, c, a)
    BY <2>1
  <2>6. /\ told' \in [Inventory -> [Snap!Commands -> {"nothing", "ok", "failed"}]]
        /\ \A g \in Inventory : g # h => told'[g] = told[g]
        /\ \A d \in Snap!Commands \ {c} : told'[h][d] = told[h][d]
        /\ told'[h][c] = IF ok THEN "ok" ELSE "failed"
        /\ Snap!Dead(h, a) \in BOOLEAN
    BY <1>1, <2>2, <2>5, AnswerLeaves
  <2>7. /\ j \in Snap!Thread /\ j.stage = "list" /\ j.reuse = threads[h].reuse
        /\ j.asked = index
        /\ j.list = threads[h].list /\ j.failures = threads[h].failures
    BY <1>1, <1>2, <2>6 DEF Snap!Thread, Snap!At
  <2> HIDE DEF j
  <2>8. /\ KeepsFiles(h, {"logs", "lldp", "run"}) /\ Filed(h, c, ok)'
        /\ \A d, o : Filed(h, d, o) => Filed(h, d, o)'
        /\ Mirrored(h) => Mirrored(h)'
        /\ \A x \in files'[h].artifacts : x.by \in 1 .. collection.n
    BY <1>1, <1>2, <1>3, <2>4, AddedFiled
  <2>9. /\ threads' \in [Inventory -> Snap!Thread] /\ threads'[h] = j
        /\ \A g \in Inventory : g # h => threads'[g] = threads[g]
    BY <1>1, <2>3, <2>7
  <2>10. Snap!TypeOK' /\ OneThread(h)
    BY <1>2, <2>6, <2>8, <2>9
    DEF KeepsFiles, OneThread, CollectInv, Snap!TypeOK, Snap!At, Snap!Ended
  <2>11. Listed(h, c)'
    BY <2>6, <2>8 DEF Listed
  <2>12. \A d \in Snap!Commands \ {c} : Listed(h, d) => Listed(h, d)'
    BY <2>6, <2>8 DEF Listed
  <2>13. threads[h].reuse # "none" => c # "lldp"
    BY <1>7
  <2>14. threads[h].reuse # "none" =>
           \A i \in 1 .. index : j.list[i] = "lldp" => Listed(h, "lldp")'
    BY <1>1, <1>3, <1>5, <2>7, <2>12, <2>13 DEF ListInv
  <2>15. threads[h].reuse # "none" => LldpKnown(h)'
    BY <1>1, <1>3, <2>6, <2>7, <2>9, <2>13 DEF ListInv, LldpKnown
  <2>16. /\ told'[h]["run"] = "ok" => Mirrored(h)' \/ Filed(h, "run", TRUE)'
         /\ told'[h]["run"] = "failed" => "run" \in j.failures \/ Filed(h, "run", FALSE)'
    <3>1. CASE c = "run"
      BY <2>11, <3>1 DEF Listed
    <3>2. CASE c # "run"
      BY <1>1, <1>3, <2>6, <2>7, <2>8, <3>2 DEF ListInv
    <3> QED
      BY <3>1, <3>2
  <2>17. Listed(h, "show")' /\ (threads[h].reuse = "none" => Listed(h, "lldp")')
    BY <1>1, <1>3, <2>11, <2>12 DEF ListInv
  <2>18. ListInv(h)'
    BY <2>7, <2>9, <2>14, <2>15, <2>16, <2>17 DEF ListInv
  <2>19. ThreadInv(h)'
    BY <1>2, <1>3, <2>7, <2>9, <2>18 DEF ThreadInv
  <2> QED
    BY <2>10, <2>19, ThreadAlone
<1> QED
  BY <1>6, <1>7

\* What an interrupted command leaves are files, with the sections of before.
LEMMA TornFiles ==
  ASSUME Snap!TypeOK, NEW h \in Inventory, NEW left \in Snap!Torn(h)
  PROVE  /\ left \in Snap!FileSet /\ left.artifacts = files[h].artifacts
         /\ left.logs = files[h].logs
         /\ threads[h].stage \in Snap!Ended => left = files[h]
<1>1. files[h] \in Snap!FileSet
  BY DEF Snap!TypeOK
<1>2. CASE left = files[h]
  BY <1>1, <1>2
<1>3. ASSUME NEW a \in Snap!Answers(h), Snap!At(h, "lldp"),
             left = [files[h] EXCEPT !.lldp = Snap!Saved(files[h].lldp, a)]
      PROVE  left \in Snap!FileSet /\ left.artifacts = files[h].artifacts
             /\ left.logs = files[h].logs /\ threads[h].stage \notin Snap!Ended
  <2>1. PICK m \in Snap!MirrorFiles : m = Snap!Saved(files[h].lldp, a)
    BY AnswerLeaves
  <2>2. left = [files[h] EXCEPT !.lldp = m]
    BY <1>3, <2>1
  <2>3. /\ left \in Snap!FileSet /\ left.artifacts = files[h].artifacts
        /\ left.logs = files[h].logs
    BY <1>1, <2>2 DEF Snap!FileSet
  <2> QED
    BY <1>3, <2>3 DEF Snap!At, Snap!Ended
<1>4. ASSUME NEW a \in Snap!Answers(h), Snap!At(h, "run"),
             left = [files[h] EXCEPT !.run = Snap!Saved(files[h].run, a)]
      PROVE  left \in Snap!FileSet /\ left.artifacts = files[h].artifacts
             /\ left.logs = files[h].logs /\ threads[h].stage \notin Snap!Ended
  <2>1. PICK m \in Snap!MirrorFiles : m = Snap!Saved(files[h].run, a)
    BY AnswerLeaves
  <2>2. left = [files[h] EXCEPT !.run = m]
    BY <1>4, <2>1
  <2>3. /\ left \in Snap!FileSet /\ left.artifacts = files[h].artifacts
        /\ left.logs = files[h].logs
    BY <1>1, <2>2 DEF Snap!FileSet
  <2> QED
    BY <1>4, <2>3 DEF Snap!At, Snap!Ended
<1> QED
  BY <1>2, <1>3, <1>4 DEF Snap!Torn

\* The end of a list and of a thread.
LEMMA EndKeeps ==
  ASSUME CollectInv, NEW h \in Inventory,
         Snap!EndList(h) \/ Snap!Finish(h) \/ Snap!ThreadFails(h)
  PROVE  CollectInv'
<1>1. /\ threads \in [Inventory -> Snap!Thread] /\ files \in [Inventory -> Snap!FileSet]
      /\ told \in [Inventory -> [Snap!Commands -> {"nothing", "ok", "failed"}]]
      /\ ThreadInv(h) /\ Snap!TypeOK /\ collection.n \in Nat
      /\ files[h].artifacts \in SUBSET Snap!Section /\ files[h].logs \in SUBSET Snap!Section
      /\ \A x \in files[h].artifacts \cup files[h].logs : x.by \in 1 .. collection.n
  BY DEF CollectInv, Snap!TypeOK, Snap!Collections, Snap!FileSet
<1>2. CASE Snap!EndList(h)
  <2>1. /\ Snap!At(h, "list") /\ UNCHANGED <<collection, steps, reached, told, snapshot>>
        /\ threads[h].asked = Len(threads[h].list) /\ GoesTo(h, "finish")
    BY <1>1, <1>2, ThreadMoves DEF Snap!EndList, Snap!Stages
  <2>2. PICK L \in SUBSET (files[h].artifacts \cup files[h].logs) :
          files' = [files EXCEPT ![h].logs = L]
    <3> DEFINE L == {x \in files[h].logs : x.dir # Snap!Dir}
                      \cup {x \in files[h].artifacts :
                              x.dir = Snap!Dir /\ x.by = collection.n}
    <3>1. L \in SUBSET (files[h].artifacts \cup files[h].logs)
      OBVIOUS
    <3>2. files' = [files EXCEPT ![h].logs = L]
      BY <1>2 DEF Snap!EndList
    <3> HIDE DEF L
    <3> QED
      BY <3>1, <3>2
  <2>3. L \in SUBSET Snap!Section
    BY <1>1
  <2>4. KeepsFiles(h, {"artifacts", "lldp", "run"}) /\ files'[h].logs = L
    BY <1>1, <2>2, <2>3, Replaced
  <2>5. Snap!TypeOK' /\ OneThread(h)
    BY <1>1, <2>1, <2>4
    DEF GoesTo, KeepsFiles, OneThread, CollectInv, Snap!TypeOK, Snap!At, Snap!Ended
  <2>6. collection.n # 0 /\ ListInv(h)
    BY <1>1, <2>1 DEF ThreadInv, Snap!At
  <2>7. /\ \A d, o : Filed(h, d, o) => Filed(h, d, o)'
        /\ Mirrored(h) => Mirrored(h)'
    BY <2>1, <2>4 DEF KeepsFiles, Filed, Mirrored
  <2>8. \A d : Listed(h, d) => Listed(h, d)'
    BY <2>1, <2>7 DEF Listed
  <2>9. LldpKnown(h) => LldpKnown(h)'
    BY <2>1 DEF GoesTo, LldpKnown
  <2>10. ListInv(h)'
    BY <2>1, <2>6, <2>7, <2>8, <2>9 DEF GoesTo, ListInv
  <2>11. ThreadInv(h)'
    BY <2>1, <2>6, <2>10 DEF GoesTo, ThreadInv
  <2> QED
    BY <2>5, <2>11, ThreadAlone
<1>3. CASE Snap!Finish(h)
  <2>1. /\ Snap!At(h, "finish") /\ UNCHANGED <<collection, steps, reached, told, snapshot>>
        /\ threads' \in [Inventory -> Snap!Thread] /\ threads'[h].stage = "done"
        /\ \A g \in Inventory : g # h => threads'[g] = threads[g]
    BY <1>1, <1>3, ThreadMoves DEF Snap!Finish, Snap!Ended
  <2>2. /\ collection.n # 0 /\ ListInv(h) /\ threads[h].asked = Len(threads[h].list)
        /\ threads[h].list \in Seq(Snap!Commands)
        /\ threads[h].failures \subseteq Snap!Commands
        /\ Snap!Unlisted(h) \subseteq Snap!Commands
    BY <1>1, <2>1 DEF ThreadInv, Snap!At, Snap!Thread, Snap!Unlisted, Snap!Commands
  <2> DEFINE Own(c) == Snap!Artifact(Snap!Dir, 0, c, collection.n,
                                     c = "lldp" /\ threads[h].reuse = "ok")
             A == files[h].artifacts \cup {Own(c) : c \in Snap!Unlisted(h)}
  <2>3. \A c \in Snap!Unlisted(h) :
          /\ Own(c) \in Snap!Section /\ Own(c).command = c /\ Own(c).by = collection.n
          /\ Own(c).ok = (c = "lldp" /\ threads[h].reuse = "ok")
          /\ Own(c) \in A
    BY <1>1, <2>2 DEF Snap!Artifact, Snap!Section, Snap!Dir
  <2>4. files' = [files EXCEPT ![h].artifacts = A]
    BY <1>3 DEF Snap!Finish
  <2>5. /\ A \in SUBSET Snap!Section /\ files[h].artifacts \subseteq A
        /\ \A x \in A : x.by \in 1 .. collection.n
    <3>1. collection.n \in 1 .. collection.n
      BY <1>1, <2>2
    <3> HIDE DEF Own
    <3> QED
      BY <1>1, <2>3, <3>1
  <2> HIDE DEF A, Own
  <2>6. KeepsFiles(h, {"logs", "lldp", "run"}) /\ files'[h].artifacts = A
    BY <1>1, <2>4, <2>5, Replaced
  <2>7. Snap!TypeOK' /\ OneThread(h)
    BY <1>1, <2>1, <2>5, <2>6
    DEF KeepsFiles, OneThread, CollectInv, Snap!TypeOK, Snap!At, Snap!Ended
  <2>8. /\ \A d, o : Filed(h, d, o) => Filed(h, d, o)'
        /\ Mirrored(h) => Mirrored(h)'
    BY <2>1, <2>5, <2>6 DEF KeepsFiles, Filed, Mirrored
  <2>9. ASSUME NEW c \in Snap!Commands, Listed(h, c)
        PROVE  /\ told'[h][c] = "ok" => Filed(h, c, TRUE)'
               /\ told'[h][c] = "failed" => Filed(h, c, FALSE)'
    BY <2>1, <2>8, <2>9 DEF Listed
  <2>10. /\ told'[h]["run"] = "ok" => Filed(h, "run", TRUE)' \/ Mirrored(h)'
         /\ told'[h]["run"] = "failed" => Filed(h, "run", FALSE)'
    <3>1. "run" \in threads[h].failures => Filed(h, "run", FALSE)'
      BY <2>1, <2>3, <2>6 DEF Snap!Unlisted, Filed
    <3> QED
      BY <2>1, <2>2, <2>8, <3>1 DEF ListInv
  <2>11. /\ told'[h]["lldp"] = "ok" => Filed(h, "lldp", TRUE)'
         /\ told'[h]["lldp"] = "failed" => Filed(h, "lldp", FALSE)'
    <3>1. CASE \/ threads[h].reuse = "none"
               \/ \E i \in DOMAIN threads[h].list : threads[h].list[i] = "lldp"
      <4>1. DOMAIN threads[h].list = 1 .. threads[h].asked
        BY <2>2
      <4>2. Listed(h, "lldp")
        BY <2>2, <3>1, <4>1 DEF ListInv
      <4>3. "lldp" \in Snap!Commands
        BY DEF Snap!Commands
      <4> QED
        BY <2>9, <4>2, <4>3
    <3>2. CASE threads[h].reuse # "none"
               /\ ~\E i \in DOMAIN threads[h].list : threads[h].list[i] = "lldp"
      <4>1. "lldp" \in Snap!Unlisted(h) /\ told'[h]["lldp"] = threads[h].reuse
        BY <2>1, <2>2, <3>2 DEF Snap!Unlisted, ListInv, LldpKnown
      <4> QED
        BY <2>1, <2>3, <2>6, <4>1 DEF Filed
    <3> QED
      BY <3>1, <3>2
  <2>12. ThreadInv(h)'
    <3>1. \A c \in Snap!Commands :
            /\ told'[h][c] = "ok" => Filed(h, c, TRUE)' \/ (c = "run" /\ Mirrored(h)')
            /\ told'[h][c] = "failed" => Filed(h, c, FALSE)'
      BY <2>2, <2>9, <2>10, <2>11 DEF Snap!Commands, ListInv
    <3> QED
      BY <2>1, <2>2, <3>1 DEF ThreadInv
  <2> QED
    BY <2>7, <2>12, ThreadAlone
<1>4. CASE Snap!ThreadFails(h)
  <2>1. /\ threads[h].stage \notin Snap!Ended /\ threads' \in [Inventory -> Snap!Thread]
        /\ threads'[h].stage = "failed"
        /\ \A g \in Inventory : g # h => threads'[g] = threads[g]
        /\ UNCHANGED <<collection, steps, reached, told, snapshot>>
    BY <1>1, <1>4, ThreadMoves DEF Snap!ThreadFails, Snap!Ended
  <2>2. PICK left \in Snap!Torn(h) : files' = [files EXCEPT ![h] = left]
    BY <1>4 DEF Snap!ThreadFails
  <2>3. /\ files' \in [Inventory -> Snap!FileSet]
        /\ \A g \in Inventory : g # h => files'[g] = files[g]
        /\ files'[h].artifacts = files[h].artifacts /\ files'[h].logs = files[h].logs
    BY <1>1, <2>2, TornFiles
  <2>4. Snap!TypeOK' /\ OneThread(h)
    BY <1>1, <2>1, <2>3 DEF OneThread, CollectInv, Snap!TypeOK
  <2>5. ThreadInv(h)'
    BY <1>1, <2>1 DEF ThreadInv, Snap!Ended
  <2> QED
    BY <2>4, <2>5, ThreadAlone
<1> QED
  BY <1>2, <1>3, <1>4

\* A command begins: what earlier ones left stays, and nobody was asked yet.
LEMMA BeginKeeps ==
  ASSUME CollectInv, Snap!Collect \/ Snap!CollectAll \/ Snap!NextStep
  PROVE  CollectInv'
<1> DEFINE Step == [kind : Snap!Kinds, list : Seq(Snap!Commands)]
<1>1. <<>> \in Seq(Snap!Commands) /\ Snap!Lists \subseteq Seq(Snap!Commands)
  BY DEF Snap!Lists, Snap!Commands
<1>2. /\ collection \in Snap!Collections /\ steps \in Seq(Step)
      /\ reached \in [Inventory -> {"unknown", "yes", "no"}]
      /\ files \in [Inventory -> Snap!FileSet]
      /\ collection.n \in Nat /\ collection.transport \in Snap!Transports
      /\ \A h \in Inventory : \A x \in files[h].artifacts \cup files[h].logs :
           x.by \in 1 .. collection.n
  BY DEF CollectInv, Snap!TypeOK, Snap!Collections
<1>3. PICK kind \in Snap!Kinds, transport \in Snap!Transports, list \in Seq(Snap!Commands) :
        /\ Snap!Begin(kind, transport, list)
        /\ steps' \in Seq(Step) /\ reached' \in [Inventory -> {"unknown", "yes", "no"}]
  <2>1. CASE Snap!Collect
    <3>1. PICK kind \in Snap!Kinds, transport \in Snap!Transports, list \in Snap!Lists :
            Snap!Begin(kind, transport, list)
      BY <2>1 DEF Snap!Collect
    <3> QED
      BY <1>1, <1>2, <2>1, <3>1 DEF Snap!Collect
  <2>2. CASE Snap!CollectAll
    <3>1. PICK transport \in Snap!Transports, list \in Snap!Lists :
            /\ Snap!Begin("collect-clab", transport, <<>>)
            /\ steps' = <<[kind |-> "collect-list", list |-> list],
                          [kind |-> "collect-run-diff", list |-> <<>>],
                          [kind |-> "collect-run-diff", list |-> <<>>]>>
      BY <2>2 DEF Snap!CollectAll
    <3>2. /\ [kind |-> "collect-list", list |-> list] \in Step
          /\ [kind |-> "collect-run-diff", list |-> <<>>] \in Step
      BY <1>1 DEF Snap!Kinds
    <3>3. steps' \in Seq(Step)
      <4> HIDE DEF Step
      <4> QED
        BY <3>1, <3>2
    <3> QED
      BY <1>1, <2>2, <3>1, <3>3 DEF Snap!CollectAll, Snap!Kinds
  <2>3. CASE Snap!NextStep
    <3>1. Head(steps) \in Step /\ Tail(steps) \in Seq(Step)
      <4> HIDE DEF Step
      <4> QED
        BY <1>2, <2>3 DEF Snap!NextStep
    <3>2. Head(steps).kind \in Snap!Kinds /\ Head(steps).list \in Seq(Snap!Commands)
      BY <3>1
    <3>3. Snap!Begin(Head(steps).kind, collection.transport, Head(steps).list)
      BY <2>3 DEF Snap!NextStep
    <3> QED
      BY <1>2, <2>3, <3>1, <3>2, <3>3 DEF Snap!NextStep
  <2> QED
    BY <2>1, <2>2, <2>3
<1>4. /\ collection' = [n |-> collection.n + 1, kind |-> kind, transport |-> transport,
                        list |-> list]
      /\ collection.n < MaxCollections /\ files' = files /\ snapshot' = Snap!NoSnapshot
      /\ told' = [h \in Inventory |-> Snap!NothingTold]
      /\ threads' = [h \in Inventory |-> [Snap!NoJob EXCEPT !.stage = "check"]]
  BY <1>3 DEF Snap!Begin
<1>5. /\ collection' \in Snap!Collections /\ collection'.n = collection.n + 1
  <2>1. MaxCollections \in Nat
    BY WorkbenchAssumption
  <2>2. collection.n + 1 \in 0 .. MaxCollections
    BY <1>2, <1>4, <2>1
  <2> QED
    BY <1>4, <2>2 DEF Snap!Collections
<1>6. /\ threads' \in [Inventory -> Snap!Thread]
      /\ \A h \in Inventory : /\ threads'[h].stage = "check" /\ threads'[h].reuse = "none"
                              /\ threads'[h].list = <<>> /\ threads'[h].asked = 0
  <2> DEFINE j == [Snap!NoJob EXCEPT !.stage = "check"]
  <2>1. /\ j \in Snap!Thread /\ j.stage = "check" /\ j.reuse = "none"
        /\ j.list = <<>> /\ j.asked = 0
    BY NewThread DEF Snap!Stages
  <2>2. threads' = [h \in Inventory |-> j]
    BY <1>4
  <2> HIDE DEF j
  <2> QED
    BY <2>1, <2>2
<1>7. /\ told' \in [Inventory -> [Snap!Commands -> {"nothing", "ok", "failed"}]]
      /\ \A h \in Inventory, c \in Snap!Commands : told'[h][c] = "nothing"
  BY <1>4 DEF Snap!NothingTold
<1>8. \A h \in Inventory : \A x \in files'[h].artifacts \cup files'[h].logs :
        x.by \in 1 .. collection'.n
  BY <1>2, <1>4, <1>5
<1>9. Snap!TypeOK'
  BY <1>2, <1>3, <1>4, <1>5, <1>6, <1>7, <1>8 DEF Snap!TypeOK
<1>10. ASSUME NEW h \in Inventory PROVE ThreadInv(h)'
  <2>1. collection'.n # 0
    BY <1>2, <1>5
  <2> QED
    BY <1>6, <1>7, <2>1 DEF ThreadInv, NotAsked
<1> QED
  BY <1>4, <1>9, <1>10 DEF CollectInv, Snap!OwnAnswers

\* A killed command leaves each thread where it was, and its host's files as they were.
LEMMA KillKeeps ==
  ASSUME CollectInv, Snap!Kill
  PROVE  CollectInv'
<1>1. /\ threads \in [Inventory -> Snap!Thread] /\ files \in [Inventory -> Snap!FileSet]
      /\ Snap!TypeOK
      /\ snapshot = Snap!NoSnapshot
  BY DEF CollectInv, Snap!TypeOK, Snap!Kill
<1>2. /\ steps' = <<>> /\ UNCHANGED <<collection, reached, told, snapshot>>
      /\ threads' = [h \in Inventory |-> IF threads[h].stage \in Snap!Ended THEN threads[h]
                                  ELSE [Snap!NoJob EXCEPT !.stage = "killed"]]
  BY DEF Snap!Kill
<1>3. PICK left \in [Inventory -> UNION {Snap!Torn(h) : h \in Inventory}] :
        (\A h \in Inventory : left[h] \in Snap!Torn(h)) /\ files' = left
  BY DEF Snap!Kill
<1>4. ASSUME NEW h \in Inventory
      PROVE  /\ files'[h] \in Snap!FileSet /\ files'[h].artifacts = files[h].artifacts
             /\ files'[h].logs = files[h].logs
             /\ threads[h].stage \in Snap!Ended => files'[h] = files[h]
  <2>1. PICK l \in Snap!Torn(h) : l = files'[h]
    BY <1>3
  <2> QED
    BY <1>1, <2>1, TornFiles
<1>5. ASSUME NEW h \in Inventory
      PROVE  /\ threads'[h] \in Snap!Thread
             /\ threads[h].stage \in Snap!Ended => threads'[h] = threads[h]
             /\ threads[h].stage \notin Snap!Ended => threads'[h].stage = "killed"
  <2>1. /\ [Snap!NoJob EXCEPT !.stage = "killed"] \in Snap!Thread
        /\ [Snap!NoJob EXCEPT !.stage = "killed"].stage = "killed"
    BY NewThread DEF Snap!Stages, Snap!Ended
  <2> QED
    BY <1>1, <1>2, <2>1
<1>6. threads' \in [Inventory -> Snap!Thread] /\ files' \in [Inventory -> Snap!FileSet]
  <2>1. /\ threads' = [h \in Inventory |-> threads'[h]]
        /\ files' = [h \in Inventory |-> files'[h]]
    BY <1>2, <1>3
  <2> QED
    BY <1>4, <1>5, <2>1
<1>7. <<>> \in Seq([kind : Snap!Kinds, list : Seq(Snap!Commands)])
  OBVIOUS
<1>8. Snap!TypeOK'
  BY <1>1, <1>2, <1>4, <1>6, <1>7 DEF Snap!TypeOK
<1>9. ASSUME NEW h \in Inventory PROVE ThreadInv(h)'
  <2>1. ThreadInv(h)
    BY DEF CollectInv
  <2>2. CASE threads[h].stage \in Snap!Ended
    <3>1. threads'[h] = threads[h] /\ files'[h] = files[h] /\ told'[h] = told[h]
          /\ collection' = collection
      BY <1>2, <1>4, <1>5, <2>2
    <3> QED
      BY <2>1, <3>1 DEF ThreadInv, Filed, Mirrored, NotAsked, LldpKnown, Listed, ListInv
  <2>3. CASE threads[h].stage \notin Snap!Ended
    BY <1>2, <1>5, <2>1, <2>3 DEF ThreadInv, Snap!Ended
  <2> QED
    BY <2>2, <2>3
<1> QED
  BY <1>1, <1>2, <1>8, <1>9 DEF CollectInv, Snap!OwnAnswers

\* What a host has once for a command is what the Snapshot has.
LEMMA EntryOf ==
  ASSUME NEW h \in Inventory, NEW c, NEW x \in Snap!Candidates(h, c)
  PROVE  /\ Snap!Entry(h, c).status = "success" => Snap!Entry(h, c).by = x.by
         /\ ~x.ok => Snap!Entry(h, c).status = "failed"
<1> DEFINE found == Snap!Candidates(h, c)
           y == CHOOSE z \in found : TRUE
<1>1. x \in found /\ y \in found
  OBVIOUS
<1>2. Snap!Entry(h, c) =
        IF found = {} THEN [status |-> "absent", by |-> Snap!Never]
        ELSE IF \E v, z \in found : v # z THEN [status |-> "failed", by |-> Snap!Never]
        ELSE IF y.ok THEN [status |-> "success", by |-> y.by]
        ELSE [status |-> "failed", by |-> y.by]
  BY DEF Snap!Entry
<1> HIDE DEF y, found
<1>3. CASE \E v, z \in found : v # z
  BY <1>1, <1>2, <1>3
<1>4. CASE ~\E v, z \in found : v # z
  <2>1. y = x
    BY <1>1, <1>4
  <2> QED
    BY <1>1, <1>2, <1>4, <2>1
<1> QED
  BY <1>3, <1>4

\* The sections and mirrors of this collection are among what the Snapshot chooses from.
LEMMA OwnCandidates ==
  ASSUME NEW h \in Inventory, NEW c, collection.n # 0
  PROVE  /\ \A ok \in BOOLEAN : Filed(h, c, ok) =>
              \E x \in Snap!Candidates(h, c) : x.by = collection.n /\ x.ok = ok
         /\ c = "run" /\ Mirrored(h) =>
              \E x \in Snap!Candidates(h, c) : x.by = collection.n
<1>1. ASSUME NEW ok \in BOOLEAN, Filed(h, c, ok)
      PROVE  \E x \in Snap!Candidates(h, c) : x.by = collection.n /\ x.ok = ok
  <2>1. PICK x \in files[h].artifacts : x.command = c /\ x.by = collection.n /\ x.ok = ok
    BY <1>1 DEF Filed
  <2>2. x \in {z \in Snap!Sections(h) : z.command = c}
    BY <2>1 DEF Snap!Sections
  <2> QED
    BY <2>1, <2>2 DEF Snap!Candidates
<1>2. ASSUME c = "run", Mirrored(h)
      PROVE  \E x \in Snap!Candidates(h, c) : x.by = collection.n
  <2> DEFINE m == files[h].run
             from == [dir |-> "mirror", index |-> 0, command |-> c, ok |-> TRUE,
                      by |-> IF m.text # Snap!Never THEN m.text ELSE m.json]
  <2>1. /\ m.text \in {collection.n, Snap!Never} /\ m.json \in {collection.n, Snap!Never}
        /\ m.text = collection.n \/ m.json = collection.n
    BY <1>2 DEF Mirrored
  <2>2. from.by = collection.n
    BY <2>1, collection.n # 0 DEF Snap!Never
  <2>3. collection.n \in {m.text, m.json} \ {Snap!Never}
    BY <2>1 DEF Snap!Never
  <2>4. from \in Snap!FromMirror(c, m)
    BY <2>3 DEF Snap!FromMirror
  <2>5. Snap!FromMirror(c, m) \subseteq Snap!Candidates(h, c)
    BY <1>2 DEF Snap!Candidates
  <2> QED
    BY <2>2, <2>4, <2>5
<1> QED
  BY <1>1, <1>2

\* The Snapshot is built of files no thread changes.
LEMMA SnapshotKeeps ==
  ASSUME CollectInv, Snap!BuildSnapshot
  PROVE  CollectInv'
<1>1. /\ Snap!Idle /\ collection.n # 0
      /\ UNCHANGED <<collection, steps, reached, threads, files, told>>
      /\ snapshot' = [h \in Inventory |-> [c \in Snap!Commands |-> Snap!Entry(h, c)]]
  BY DEF Snap!BuildSnapshot, CollectInv, Snap!TypeOK, Snap!Collections
<1>2. Snap!TypeOK' /\ Snap!Idle'
  BY <1>1 DEF CollectInv, Snap!TypeOK, Snap!Idle
<1>3. ASSUME NEW h \in Inventory PROVE ThreadInv(h)'
  <2>1. ThreadInv(h)
    BY DEF CollectInv
  <2> QED
    BY <1>1, <2>1 DEF ThreadInv, Filed, Mirrored, NotAsked, LldpKnown, Listed, ListInv
<1>4. ASSUME NEW h \in Inventory, NEW c \in Snap!Commands, threads[h].stage = "done"
      PROVE  /\ told[h][c] = "ok" /\ Snap!Entry(h, c).status = "success" =>
                  Snap!Entry(h, c).by = collection.n
             /\ told[h][c] = "failed" => Snap!Entry(h, c).status = "failed"
  <2>1. /\ told[h][c] = "ok" => Filed(h, c, TRUE) \/ (c = "run" /\ Mirrored(h))
        /\ told[h][c] = "failed" => Filed(h, c, FALSE)
    BY <1>4 DEF CollectInv, ThreadInv
  <2>2. ASSUME told[h][c] = "ok", Snap!Entry(h, c).status = "success"
        PROVE  Snap!Entry(h, c).by = collection.n
    <3>1. PICK x \in Snap!Candidates(h, c) : x.by = collection.n
      BY <1>1, <2>1, <2>2, OwnCandidates
    <3> QED
      BY <2>2, <3>1, EntryOf
  <2>3. ASSUME told[h][c] = "failed" PROVE Snap!Entry(h, c).status = "failed"
    <3>1. Filed(h, c, FALSE)
      BY <2>1, <2>3
    <3>2. PICK x \in Snap!Candidates(h, c) : x.by = collection.n /\ x.ok = FALSE
      BY <1>1, <3>1, OwnCandidates
    <3> QED
      BY <3>2, EntryOf
  <2> QED
    BY <2>2, <2>3
<1>5. Snap!OwnAnswers'
  BY <1>1, <1>4 DEF Snap!OwnAnswers
<1> QED
  BY <1>2, <1>3, <1>5 DEF CollectInv

\* It holds before the first command.
LEMMA CollectBegins ==
  ASSUME Snap!Init
  PROVE  CollectInv
<1>1. Snap!NoJob \in Snap!Thread /\ Snap!NoJob.stage = "none"
  <2>1. <<>> \in Seq(Snap!Commands) /\ {} \in SUBSET Snap!Commands
    OBVIOUS
  <2> QED
    BY <2>1 DEF Snap!NoJob, Snap!Thread, Snap!Stages, Snap!Ended
<1>2. Snap!NoFiles \in Snap!FileSet /\ Snap!NoFiles.artifacts = {} /\ Snap!NoFiles.logs = {}
  BY DEF Snap!NoFiles, Snap!FileSet, Snap!MirrorFiles, Snap!Never
<1>3. /\ threads \in [Inventory -> Snap!Thread] /\ files \in [Inventory -> Snap!FileSet]
      /\ \A h \in Inventory : /\ threads[h].stage = "none" /\ files[h].artifacts = {}
                              /\ files[h].logs = {}
  BY <1>1, <1>2 DEF Snap!Init
<1>4. collection \in Snap!Collections
  <2>1. <<>> \in Seq(Snap!Commands)
    OBVIOUS
  <2> QED
    BY <2>1, WorkbenchAssumption DEF Snap!Init, Snap!Collections, Snap!Transports
<1>5. steps \in Seq([kind : Snap!Kinds, list : Seq(Snap!Commands)])
  BY DEF Snap!Init
<1>6. Snap!TypeOK
  BY <1>3, <1>4, <1>5 DEF Snap!Init, Snap!TypeOK, Snap!NothingTold
<1>7. \A h \in Inventory : ThreadInv(h)
  BY <1>3 DEF ThreadInv
<1> QED
  BY <1>6, <1>7 DEF Snap!Init, CollectInv, Snap!OwnAnswers

\* Every step keeps the invariant.
LEMMA CollectSteps ==
  ASSUME CollectInv, [Snap!Next]_(Snap!vars)
  PROVE  CollectInv'
<1>1. CASE UNCHANGED Snap!vars
  <2>1. /\ collection' = collection /\ steps' = steps /\ reached' = reached
        /\ threads' = threads /\ files' = files /\ told' = told /\ snapshot' = snapshot
    BY <1>1 DEF Snap!vars
  <2>2. Snap!TypeOK' /\ Snap!OwnAnswers' /\ (snapshot' # Snap!NoSnapshot => Snap!Idle')
    BY <2>1 DEF CollectInv, Snap!TypeOK, Snap!OwnAnswers, Snap!Idle
  <2>3. ASSUME NEW h \in Inventory PROVE ThreadInv(h)'
    <3>1. ThreadInv(h)
      BY DEF CollectInv
    <3> QED
      BY <2>1, <3>1 DEF ThreadInv, Filed, Mirrored, NotAsked, LldpKnown, Listed, ListInv
  <2> QED
    BY <2>2, <2>3 DEF CollectInv
<1>2. ASSUME NEW h \in Inventory,
             \/ Snap!ConnectCheck(h) \/ Snap!Start(h) \/ Snap!BeginList(h)
             \/ Snap!Lldp(h) \/ Snap!RunningConfig(h) \/ Snap!ShowCommand(h)
             \/ Snap!EndList(h) \/ Snap!Finish(h) \/ Snap!ThreadFails(h)
      PROVE  CollectInv'
  BY <1>2, StartKeeps, BaseKeeps, ShowKeeps, EndKeeps
<1>3. ASSUME \/ Snap!Collect \/ Snap!CollectAll \/ Snap!NextStep
             \/ Snap!Kill \/ Snap!BuildSnapshot
      PROVE  CollectInv'
  BY <1>3, BeginKeeps, KillKeeps, SnapshotKeeps
<1> QED
  BY <1>1, <1>2, <1>3 DEF Snap!Next

\* The workbench steps of the collections are their own, or leave them alone.
LEMMA CollectInvariant == Spec => []CollectInv
<1>1. Init => CollectInv
  BY CollectBegins DEF Init
<1>2. [Next]_vars => [Snap!Next]_(Snap!vars)
  BY DEF Next, vars, collectVars, Snap!vars
<1>3. CollectInv /\ [Snap!Next]_(Snap!vars) => CollectInv'
  BY CollectSteps
<1> QED
  BY <1>1, <1>2, <1>3, PTL DEF Spec

\* build_health_snapshot takes no answer of an earlier collection for one of the last, and
\* no failure for a success, whatever the hosts, their threads' order and the kills between.
THEOREM SnapshotHasOwnAnswers == Spec => []OwnAnswers
<1>1. CollectInv => OwnAnswers
  BY DEF CollectInv, OwnAnswers
<1> QED
  BY <1>1, CollectInvariant, PTL

-----------------------------------------------------------------------------
(* The comparison of Snapshots: check by check, a result that lets the     *)
(* change pass means that nothing which worked before has stopped; and the *)
(* worst of all results is quiet only when all of them are.                *)

\* The results that do not stop a change.
Quiet == {"NOT_APPLICABLE", "PASS", "WARN"}

\* The facts of the check c in both phases.
Facts(c, b, a) == b \in Health!FactsOf(c) /\ a \in Health!FactsOf(c)

\* What worked before works still.
Kept(c, b, a) == Health!Working(c, b, a) \subseteq Health!Working(c, a, a)

\* What a parser says that found nothing, that the feature does not apply, or a value.
Found(y) ==
  \/ y = Health!NotSeen
  \/ \E v : y = Health!Applies(v) \/ y = Health!Inapplicable(v)

\* Their fields.
LEMMA FoundFields ==
  /\ Health!NotSeen.seen = FALSE /\ Health!NotSeen.config = "none"
  /\ \A v : /\ Health!Applies(v).seen = TRUE /\ Health!Applies(v).applies = TRUE
            /\ Health!Applies(v).v = v
            /\ Health!Applies(v).config = "none"
  /\ \A v : /\ Health!Inapplicable(v).seen = TRUE /\ Health!Inapplicable(v).applies = FALSE
            /\ Health!Inapplicable(v).v = v
BY DEF Health!NotSeen, Health!Applies, Health!Inapplicable

\* What is seen is a value of the set, or not seen.
LEMMA SeenValues ==
  ASSUME NEW S, NEW x \in Health!Values(S)
  PROVE  /\ x.seen \in BOOLEAN /\ Found(x)
         /\ x.seen => x.applies = TRUE /\ x.v \in S
<1>1. CASE x = Health!NotSeen
  BY <1>1, FoundFields DEF Found
<1>2. CASE \E v \in S : x = Health!Applies(v)
  BY <1>2, FoundFields DEF Found
<1> QED
  BY <1>1, <1>2 DEF Health!Values

\* The configuration comes on top of what was seen.
LEMMA ConfiguredFacts ==
  ASSUME NEW F, NEW C, NEW x \in Health!Configured(F, C), \A y \in F : Found(y)
  PROVE  /\ x.config \in C /\ x.seen \in BOOLEAN
         /\ x.seen => \/ x.applies /\ Health!Applies(x.v) \in F
                      \/ ~x.applies /\ Health!Inapplicable(x.v) \in F
<1>1. PICK y \in F, c \in C : x = [y EXCEPT !.config = c]
  BY DEF Health!Configured
<1>2. CASE y = Health!NotSeen
  BY <1>1, <1>2 DEF Health!NotSeen
<1>3. ASSUME NEW v, y = Health!Applies(v)
      PROVE  x.config = c /\ x.seen = TRUE /\ x.applies = TRUE /\ x.v = v
  BY <1>1, <1>3 DEF Health!Applies
<1>4. ASSUME NEW v, y = Health!Inapplicable(v)
      PROVE  x.config = c /\ x.seen = TRUE /\ x.applies = FALSE /\ x.v = v
  BY <1>1, <1>4 DEF Health!Inapplicable, Health!Applies
<1> QED
  BY <1>1, <1>2, <1>3, <1>4 DEF Found

\* A feature that does not apply has one value, whether it was looked for or not.
LEMMA OneValue ==
  ASSUME NEW S, NEW u, NEW w
  PROVE  /\ \/ Health!Inapplicable(w) \notin Health!Values(S) \cup {Health!Inapplicable(u)}
            \/ w = u
         /\ Health!Inapplicable(w) \in {Health!NotSeen, Health!Inapplicable(u)} => w = u
         /\ Health!Applies(w) \notin {Health!NotSeen, Health!Inapplicable(u)}
         /\ \A y \in Health!Values(S) \cup {Health!NotSeen, Health!Inapplicable(u)} :
              /\ Found(y) /\ y.seen \in BOOLEAN
              /\ y.seen /\ ~y.applies => Health!Inapplicable(y.v) = Health!Inapplicable(u)
<1>1. \A y \in Health!Values(S) :
        /\ Found(y) /\ y.seen \in BOOLEAN
        /\ y.seen => y.applies = TRUE
  BY SeenValues
<1>2. Health!Inapplicable(w) = Health!Inapplicable(u) => w = u
  BY FoundFields
<1>3. Health!Inapplicable(w) \notin Health!Values(S)
  BY <1>1, FoundFields
<1>4. /\ Health!Inapplicable(w) # Health!NotSeen /\ Health!Applies(w) # Health!NotSeen
      /\ Health!Applies(w) # Health!Inapplicable(u)
  BY FoundFields
<1>5. Found(Health!NotSeen) /\ Found(Health!Inapplicable(u))
  BY DEF Found
<1> QED
  BY <1>1, <1>2, <1>3, <1>4, <1>5, FoundFields

\* Which result is whose.
LEMMA ResultOf ==
  ASSUME NEW b, NEW a
  PROVE  /\ Health!Result("system_identity", b, a) = Health!SystemIdentity(b, a)
         /\ Health!Result("reload_pending", b, a) = Health!ReloadPending(b, a)
         /\ Health!Result("logging_health", b, a) = Health!Logging(b, a)
         /\ Health!Result("environment_health", b, a) = Health!Environment(b, a)
         /\ Health!Result("vpc_health", b, a) = Health!Vpc(b, a)
         /\ Health!Result("nve_interface_health", b, a) = Health!NveInterface(b, a)
         /\ Health!Result("evpn_bgp_health", b, a) = Health!EvpnBgp(b, a)
         /\ Health!Result("interface_health", b, a) = Health!Interfaces(b, a)
         /\ Health!Result("ntp_health", b, a) = Health!Ntp(b, a)
         /\ Health!Result("interface_error_health", b, a) = Health!InterfaceErrors(b, a)
         /\ Health!Result("port_channel_health", b, a) = Health!PortChannels(b, a)
         /\ Health!Result("ipv4_route_count", b, a) = Health!RouteCount(b, a)
         /\ Health!Result("evpn_route_health", b, a) = Health!EvpnRoutes(b, a)
         /\ Health!Result("bgp_dynamic_neighbor_health", b, a) =
              Health!DynamicNeighbors(b, a)
         /\ \A c \in Health!Neighbors : Health!Result(c, b, a) = Health!LostNeighbors(b, a)
         /\ \A c \in Health!NveTables : Health!Result(c, b, a) = Health!NveRows(b, a)
         /\ \A c \in Health!Overlay : Health!Result(c, b, a) = Health!OverlayResources(a)
         /\ \A c \in Health!Expectations : Health!Result(c, b, a) =
              Health!FunctionExpectation(c, b, a)
         /\ \A c \in Health!AfterOnly : Health!Result(c, b, a) =
              IF a.seen THEN a.v ELSE "UNKNOWN"
<1>1. /\ Health!Result("system_identity", b, a) = Health!SystemIdentity(b, a)
      /\ Health!Result("reload_pending", b, a) = Health!ReloadPending(b, a)
      /\ Health!Result("logging_health", b, a) = Health!Logging(b, a)
      /\ Health!Result("environment_health", b, a) = Health!Environment(b, a)
      /\ Health!Result("vpc_health", b, a) = Health!Vpc(b, a)
      /\ Health!Result("nve_interface_health", b, a) = Health!NveInterface(b, a)
      /\ Health!Result("evpn_bgp_health", b, a) = Health!EvpnBgp(b, a)
      /\ Health!Result("interface_health", b, a) = Health!Interfaces(b, a)
      /\ Health!Result("ntp_health", b, a) = Health!Ntp(b, a)
      /\ Health!Result("interface_error_health", b, a) = Health!InterfaceErrors(b, a)
      /\ Health!Result("port_channel_health", b, a) = Health!PortChannels(b, a)
      /\ Health!Result("ipv4_route_count", b, a) = Health!RouteCount(b, a)
      /\ Health!Result("evpn_route_health", b, a) = Health!EvpnRoutes(b, a)
      /\ Health!Result("bgp_dynamic_neighbor_health", b, a) = Health!DynamicNeighbors(b, a)
  BY ZenonT(60)
  DEF Health!Result, Health!Neighbors, Health!NveTables, Health!Overlay,
      Health!Expectations, Health!AfterOnly
<1>2. ASSUME NEW c \in Health!Neighbors
      PROVE  Health!Result(c, b, a) = Health!LostNeighbors(b, a)
  BY Zenon
  DEF Health!Result, Health!Neighbors, Health!NveTables, Health!Overlay,
      Health!Expectations, Health!AfterOnly
<1>3. ASSUME NEW c \in Health!NveTables PROVE Health!Result(c, b, a) = Health!NveRows(b, a)
  BY Zenon
  DEF Health!Result, Health!Neighbors, Health!NveTables, Health!Overlay,
      Health!Expectations, Health!AfterOnly
<1>4. ASSUME NEW c \in Health!Overlay
      PROVE  Health!Result(c, b, a) = Health!OverlayResources(a)
  BY Zenon
  DEF Health!Result, Health!Neighbors, Health!NveTables, Health!Overlay,
      Health!Expectations, Health!AfterOnly
<1>5. ASSUME NEW c \in Health!Expectations
      PROVE  Health!Result(c, b, a) = Health!FunctionExpectation(c, b, a)
  BY Zenon
  DEF Health!Result, Health!Neighbors, Health!NveTables, Health!Overlay,
      Health!Expectations, Health!AfterOnly
<1>6. ASSUME NEW c \in Health!AfterOnly
      PROVE  Health!Result(c, b, a) = IF a.seen THEN a.v ELSE "UNKNOWN"
  BY Zenon
  DEF Health!Result, Health!Neighbors, Health!NveTables, Health!Overlay,
      Health!Expectations, Health!AfterOnly
<1> QED
  BY <1>1, <1>2, <1>3, <1>4, <1>5, <1>6

\* Which facts are whose.
LEMMA FactsOfCheck ==
  /\ Health!FactsOf("vpc_health") = Health!VpcFacts
  /\ Health!FactsOf("nve_interface_health") = Health!NveFacts
  /\ Health!FactsOf("evpn_bgp_health") = Health!EvpnFacts
  /\ Health!FactsOf("bgp_dynamic_neighbor_health") = Health!RangeFacts
  /\ \A c \in Health!Neighbors : Health!FactsOf(c) = Health!NeighborFacts
  /\ \A c \in Health!Expectations : Health!FactsOf(c) = Health!FunctionFacts
  /\ \A c \in Health!AfterOnly : Health!FactsOf(c) = Health!AfterOnlyFacts
<1>1. /\ Health!FactsOf("vpc_health") = Health!VpcFacts
      /\ Health!FactsOf("nve_interface_health") = Health!NveFacts
      /\ Health!FactsOf("evpn_bgp_health") = Health!EvpnFacts
      /\ Health!FactsOf("bgp_dynamic_neighbor_health") = Health!RangeFacts
  BY ZenonT(60)
  DEF Health!FactsOf, Health!Neighbors, Health!NveTables, Health!Overlay,
      Health!Expectations, Health!AfterOnly
<1>2. ASSUME NEW c \in Health!Neighbors PROVE Health!FactsOf(c) = Health!NeighborFacts
  BY Zenon
  DEF Health!FactsOf, Health!Neighbors, Health!NveTables, Health!Overlay,
      Health!Expectations, Health!AfterOnly
<1>3. ASSUME NEW c \in Health!Expectations PROVE Health!FactsOf(c) = Health!FunctionFacts
  BY Zenon
  DEF Health!FactsOf, Health!Neighbors, Health!NveTables, Health!Overlay,
      Health!Expectations, Health!AfterOnly
<1>4. ASSUME NEW c \in Health!AfterOnly PROVE Health!FactsOf(c) = Health!AfterOnlyFacts
  BY Zenon
  DEF Health!FactsOf, Health!Neighbors, Health!NveTables, Health!Overlay,
      Health!Expectations, Health!AfterOnly
<1> QED
  BY <1>1, <1>2, <1>3, <1>4

\* Which parts of a device are whose.
LEMMA WorkingOf ==
  ASSUME NEW x, NEW s
  PROVE  /\ Health!Working("evpn_bgp_health", x, s) = IF x.seen THEN Health!Up(x) ELSE {}
         /\ Health!Working("interface_health", x, s) =
              IF x.seen THEN Health!OperUp(x) ELSE {}
         /\ Health!Working("vpc_health", x, s) =
              IF x.seen /\ x.v THEN {"vpc_health"} ELSE {}
         /\ Health!Working("nve_interface_health", x, s) =
              IF x.seen /\ x.v THEN {"nve_interface_health"} ELSE {}
         /\ Health!Working("environment_health", x, s) =
              IF x.seen /\ x.v /\ s.applies THEN {"environment_health"} ELSE {}
         /\ Health!Working("ntp_health", x, s) =
              IF x.seen /\ x.v.synchronized = "yes" THEN x.v.selected ELSE {}
         /\ Health!Working("port_channel_health", x, s) =
              IF x.seen /\ x.v.channel = "up" THEN x.v.members \cup {"channel"} ELSE {}
         /\ Health!Working("ipv4_route_count", x, s) = IF x.seen THEN DOMAIN x.v ELSE {}
         /\ Health!Working("bgp_dynamic_neighbor_health", x, s) =
              IF x.seen /\ x.config = "yes" /\ s.config # "no" /\ x.v.established # {}
              THEN {"range"} ELSE {}
         /\ Health!Working("system_identity", x, s) = {}
         /\ Health!Working("reload_pending", x, s) = {}
         /\ Health!Working("logging_health", x, s) = {}
         /\ Health!Working("interface_error_health", x, s) = {}
         /\ Health!Working("evpn_route_health", x, s) = {}
         /\ \A c \in Health!Neighbors \cup Health!NveTables : Health!Working(c, x, s) =
              IF x.seen THEN Health!Up(x) ELSE {}
         /\ \A c \in Health!Overlay : Health!Working(c, x, s) =
              IF x.seen
              THEN IF s.config = Health!Unread THEN x.v ELSE x.v \cap s.config ELSE {}
         /\ \A c \in Health!Expectations : Health!Working(c, x, s) =
              IF x.config = "yes" THEN {"function"} ELSE {}
         /\ \A c \in Health!AfterOnly : Health!Working(c, x, s) = {}
<1>1. /\ Health!Working("evpn_bgp_health", x, s) = IF x.seen THEN Health!Up(x) ELSE {}
      /\ Health!Working("interface_health", x, s) = IF x.seen THEN Health!OperUp(x) ELSE {}
      /\ Health!Working("vpc_health", x, s) = IF x.seen /\ x.v THEN {"vpc_health"} ELSE {}
      /\ Health!Working("nve_interface_health", x, s) =
           IF x.seen /\ x.v THEN {"nve_interface_health"} ELSE {}
      /\ Health!Working("environment_health", x, s) =
           IF x.seen /\ x.v /\ s.applies THEN {"environment_health"} ELSE {}
      /\ Health!Working("ntp_health", x, s) =
           IF x.seen /\ x.v.synchronized = "yes" THEN x.v.selected ELSE {}
      /\ Health!Working("port_channel_health", x, s) =
           IF x.seen /\ x.v.channel = "up" THEN x.v.members \cup {"channel"} ELSE {}
      /\ Health!Working("ipv4_route_count", x, s) = IF x.seen THEN DOMAIN x.v ELSE {}
      /\ Health!Working("bgp_dynamic_neighbor_health", x, s) =
           IF x.seen /\ x.config = "yes" /\ s.config # "no" /\ x.v.established # {}
           THEN {"range"} ELSE {}
      /\ Health!Working("system_identity", x, s) = {}
      /\ Health!Working("reload_pending", x, s) = {}
      /\ Health!Working("logging_health", x, s) = {}
      /\ Health!Working("interface_error_health", x, s) = {}
      /\ Health!Working("evpn_route_health", x, s) = {}
  BY ZenonT(60)
  DEF Health!Working, Health!Neighbors, Health!NveTables, Health!Overlay,
      Health!Expectations, Health!AfterOnly
<1>2. ASSUME NEW c \in Health!Neighbors \cup Health!NveTables
      PROVE  Health!Working(c, x, s) = IF x.seen THEN Health!Up(x) ELSE {}
  BY Zenon
  DEF Health!Working, Health!Neighbors, Health!NveTables, Health!Overlay,
      Health!Expectations, Health!AfterOnly
<1>3. ASSUME NEW c \in Health!Overlay
      PROVE  Health!Working(c, x, s) =
               IF x.seen
               THEN IF s.config = Health!Unread THEN x.v ELSE x.v \cap s.config ELSE {}
  BY Zenon
  DEF Health!Working, Health!Neighbors, Health!NveTables, Health!Overlay,
      Health!Expectations, Health!AfterOnly
<1>4. ASSUME NEW c \in Health!Expectations
      PROVE  Health!Working(c, x, s) = IF x.config = "yes" THEN {"function"} ELSE {}
  BY Zenon
  DEF Health!Working, Health!Neighbors, Health!NveTables, Health!Overlay,
      Health!Expectations, Health!AfterOnly
<1>5. ASSUME NEW c \in Health!AfterOnly PROVE Health!Working(c, x, s) = {}
  BY Zenon
  DEF Health!Working, Health!Neighbors, Health!NveTables, Health!Overlay,
      Health!Expectations, Health!AfterOnly
<1> QED
  BY <1>1, <1>2, <1>3, <1>4, <1>5

\* The results of a check are results.
LEMMA ResultType ==
  ASSUME NEW c \in Health!Checks, NEW b \in Health!FactsOf(c), NEW a \in Health!FactsOf(c)
  PROVE  Health!Result(c, b, a) \in Health!Results
<1>1. Health!Results = {"NOT_APPLICABLE", "PASS", "WARN", "UNKNOWN", "FAIL"}
  BY DEF Health!Results, Health!RESULT_ORDER
<1>2. /\ \A g : Health!PassIf(g) \in Health!Results
      /\ \A r \in Health!Results : Health!OverlayFeature(b, a, r) \in Health!Results
  BY <1>1 DEF Health!PassIf, Health!OverlayFeature
<1>3. CASE c \in Health!AfterOnly
  <2>1. Health!FactsOf(c) = Health!AfterOnlyFacts
    BY <1>3, FactsOfCheck
  <2>2. a.seen => a.v \in Health!Results
    BY <1>1, <2>1, SeenValues DEF Health!AfterOnlyFacts
  <2>3. Health!Result(c, b, a) = IF a.seen THEN a.v ELSE "UNKNOWN"
    BY <1>3, ResultOf
  <2> QED
    BY <1>1, <2>2, <2>3
<1>4. CASE c \in Health!Neighbors \cup Health!NveTables
             \cup {"evpn_bgp_health", "nve_interface_health"}
  <2>1. /\ Health!LostNeighbors(b, a) \in Health!Results
        /\ Health!NveRows(b, a) \in Health!Results
        /\ Health!EvpnBgp(b, a) \in Health!Results
        /\ Health!NveInterface(b, a) \in Health!Results
    BY <1>1, <1>2
    DEF Health!LostNeighbors, Health!NveRows, Health!NveTable, Health!EvpnBgp,
        Health!NveInterface
  <2> QED
    BY <1>4, <2>1, ResultOf
<1>5. CASE c \in {"system_identity", "reload_pending", "logging_health",
                  "environment_health", "vpc_health", "interface_health"}
  <2>1. /\ Health!SystemIdentity(b, a) \in Health!Results
        /\ Health!ReloadPending(b, a) \in Health!Results
        /\ Health!Logging(b, a) \in Health!Results
        /\ Health!Environment(b, a) \in Health!Results
        /\ Health!Vpc(b, a) \in Health!Results /\ Health!Interfaces(b, a) \in Health!Results
    BY <1>1, <1>2
    DEF Health!SystemIdentity, Health!ReloadPending, Health!Logging, Health!Environment,
        Health!Vpc, Health!Interfaces
  <2> QED
    BY <1>5, <2>1, ResultOf
<1>6. CASE c \in {"ntp_health", "interface_error_health", "port_channel_health",
                  "ipv4_route_count", "evpn_route_health"}
  <2>1. /\ Health!Ntp(b, a) \in Health!Results
        /\ Health!InterfaceErrors(b, a) \in Health!Results
        /\ Health!PortChannels(b, a) \in Health!Results
    BY <1>1, <1>2
    DEF Health!Ntp, Health!NtpOne, Health!InterfaceErrors, Health!PortChannels
  <2>2. /\ Health!RouteCount(b, a) \in Health!Results
        /\ Health!EvpnRoutes(b, a) \in Health!Results
    BY <1>1, <1>2 DEF Health!RouteCount, Health!EvpnRoutes
  <2> QED
    BY <1>6, <2>1, <2>2, ResultOf
<1>7. CASE c \in Health!Overlay \cup Health!Expectations
             \cup {"bgp_dynamic_neighbor_health"}
  <2>1. /\ Health!OverlayResources(a) \in Health!Results
        /\ Health!DynamicNeighbors(b, a) \in Health!Results
        /\ Health!FunctionExpectation(c, b, a) \in Health!Results
    BY <1>1, <1>2
    DEF Health!OverlayResources, Health!DynamicNeighbors, Health!FunctionExpectation
  <2> QED
    BY <1>7, <2>1, ResultOf
<1> QED
  BY <1>3, <1>4, <1>5, <1>6, <1>7 DEF Health!Checks

\* Neighbours, peers and their tables.
LEMMA NeighborsKept ==
  ASSUME NEW c \in Health!Neighbors \cup Health!NveTables \cup {"evpn_bgp_health"},
         NEW b, NEW a,
         Facts(c, b, a), Health!Result(c, b, a) \in Quiet
  PROVE  Kept(c, b, a)
<1>1. \A x, s : Health!Working(c, x, s) = IF x.seen THEN Health!Up(x) ELSE {}
  BY WorkingOf
<1>2. CASE c \in Health!Neighbors
  <2>1. /\ Health!Result(c, b, a) = Health!LostNeighbors(b, a)
        /\ Health!FactsOf(c) = Health!NeighborFacts
    BY <1>2, ResultOf, FactsOfCheck
  <2>2. b.seen \in BOOLEAN /\ a.seen \in BOOLEAN
    BY <2>1, SeenValues
    DEF Facts, Health!NeighborFacts, Health!Inapplicable, Health!Applies
  <2> QED
    BY <1>1, <2>1, <2>2 DEF Kept, Quiet, Health!LostNeighbors, Health!PassIf
<1>3. CASE c \in Health!NveTables
  <2>1. Health!Result(c, b, a) = Health!NveRows(b, a)
    BY <1>3, ResultOf
  <2> QED
    BY <1>1, <2>1 DEF Kept, Quiet, Health!NveRows, Health!NveTable
<1>4. CASE c = "evpn_bgp_health"
  <2>1. /\ Health!Result(c, b, a) = Health!EvpnBgp(b, a)
        /\ Health!FactsOf(c) = Health!EvpnFacts
    BY <1>4, ResultOf, FactsOfCheck
  <2>2. b.seen /\ (b.config = "no" \/ ~b.applies) => b.v = Health!NoRow
    <3>1. CASE b \in Health!Configured(Health!NeighborFacts, {"none", "yes"})
      BY <3>1, OneValue, ConfiguredFacts DEF Health!NeighborFacts
    <3>2. CASE b \in Health!Configured({Health!NotSeen, Health!Inapplicable(Health!NoRow)},
                                       {"no"})
      BY <3>2, OneValue, ConfiguredFacts
    <3> QED
      BY <2>1, <3>1, <3>2 DEF Facts, Health!EvpnFacts
  <2>3. b.v = Health!NoRow => Health!Up(b) = {}
    BY DEF Health!Up, Health!NoRow
  <2> QED
    BY <1>1, <2>1, <2>2, <2>3
    DEF Kept, Quiet, Health!EvpnBgp, Health!OverlayFeature, Health!PassIf
<1> QED
  BY <1>2, <1>3, <1>4

\* vPC and the NVE interface.
LEMMA FeatureKept ==
  ASSUME NEW c \in {"vpc_health", "nve_interface_health"}, NEW b, NEW a,
         Facts(c, b, a), Health!Result(c, b, a) \in Quiet
  PROVE  Kept(c, b, a)
<1>1. \A x, s : Health!Working(c, x, s) = IF x.seen /\ x.v THEN {c} ELSE {}
  BY WorkingOf
<1>2. \A y \in Health!VpcFacts :
        /\ Found(y) /\ y.seen \in BOOLEAN
        /\ y.seen /\ ~y.applies => Health!Inapplicable(y.v) = Health!Inapplicable(FALSE)
  BY OneValue DEF Health!VpcFacts
<1>3. CASE c = "vpc_health"
  <2>1. Health!Result(c, b, a) = Health!Vpc(b, a) /\ Health!FactsOf(c) = Health!VpcFacts
    BY <1>3, ResultOf, FactsOfCheck
  <2>2. /\ b.seen \in BOOLEAN /\ a.seen \in BOOLEAN
        /\ b.seen /\ ~b.applies => Health!Inapplicable(b.v) = Health!Inapplicable(FALSE)
    BY <1>2, <2>1 DEF Facts
  <2>3. b.seen /\ ~b.applies => ~b.v
    BY <2>2, FoundFields
  <2> QED
    BY <1>1, <2>1, <2>2, <2>3 DEF Kept, Quiet, Health!Vpc, Health!PassIf
<1>4. CASE c = "nve_interface_health"
  <2>1. /\ Health!Result(c, b, a) = Health!NveInterface(b, a)
        /\ Health!FactsOf(c) = Health!NveFacts
    BY <1>4, ResultOf, FactsOfCheck
  <2>2. b.seen /\ (b.config = "no" \/ ~b.applies) => b.v = FALSE
    <3>1. CASE b \in Health!Configured(Health!VpcFacts, {"none", "yes"})
      <4>1. \A y \in Health!VpcFacts : Found(y)
        BY <1>2
      <4>2. /\ b.config \in {"none", "yes"} /\ b.seen \in BOOLEAN
            /\ b.seen => \/ b.applies /\ Health!Applies(b.v) \in Health!VpcFacts
                         \/ ~b.applies /\ Health!Inapplicable(b.v) \in Health!VpcFacts
        BY <3>1, <4>1, ConfiguredFacts
      <4>3. Health!Inapplicable(b.v) \in Health!VpcFacts => b.v = FALSE
        BY OneValue DEF Health!VpcFacts
      <4> QED
        BY <4>2, <4>3, Zenon
    <3>2. CASE b \in Health!Configured({Health!NotSeen, Health!Inapplicable(FALSE)}, {"no"})
      BY <3>2, OneValue, ConfiguredFacts
    <3> QED
      BY <2>1, <3>1, <3>2 DEF Facts, Health!NveFacts
  <2>3. b.seen /\ (b.config = "no" \/ ~b.applies) => ~b.v
    BY <2>2
  <2> QED
    BY <1>1, <2>1, <2>3
    DEF Kept, Quiet, Health!NveInterface, Health!OverlayFeature, Health!PassIf
<1> QED
  BY <1>3, <1>4

\* What the device itself has.
LEMMA DeviceKept ==
  ASSUME NEW c \in {"environment_health", "interface_health", "ntp_health",
                    "port_channel_health", "ipv4_route_count"}, NEW b, NEW a,
         Health!Result(c, b, a) \in Quiet
  PROVE  Kept(c, b, a)
<1>1. CASE c = "environment_health"
  <2>1. \A x, s : Health!Working(c, x, s) = IF x.seen /\ x.v /\ s.applies THEN {c} ELSE {}
    BY <1>1, WorkingOf
  <2>2. Health!Result(c, b, a) = Health!Environment(b, a)
    BY <1>1, ResultOf
  <2> QED
    BY <2>1, <2>2 DEF Kept, Quiet, Health!Environment, Health!PassIf
<1>2. CASE c = "interface_health"
  <2>1. \A x, s : Health!Working(c, x, s) = IF x.seen THEN Health!OperUp(x) ELSE {}
    BY <1>2, WorkingOf
  <2>2. Health!Result(c, b, a) = Health!Interfaces(b, a)
    BY <1>2, ResultOf
  <2>3. /\ b.seen /\ a.seen
        /\ Health!OperUp(b) \ Health!OperUp(a)
             \subseteq Health!With(b, {"unknown"}) \cup Health!With(a, {"unknown"})
        /\ Health!With(a, {"unknown", "doubtful"})
             \cup Health!With(b, {"unknown", "doubtful"}) = {}
    BY <2>2 DEF Quiet, Health!Interfaces
  <2>4. /\ Health!With(b, {"unknown"}) \subseteq Health!With(b, {"unknown", "doubtful"})
        /\ Health!With(a, {"unknown"}) \subseteq Health!With(a, {"unknown", "doubtful"})
    BY DEF Health!With
  <2> QED
    BY <2>1, <2>3, <2>4 DEF Kept
<1>3. CASE c = "ntp_health"
  <2>1. \A x, s : Health!Working(c, x, s) =
                    IF x.seen /\ x.v.synchronized = "yes" THEN x.v.selected ELSE {}
    BY <1>3, WorkingOf
  <2>2. Health!Result(c, b, a) = Health!Ntp(b, a)
    BY <1>3, ResultOf
  <2> QED
    BY <2>1, <2>2 DEF Kept, Quiet, Health!Ntp
<1>4. CASE c = "port_channel_health"
  <2>1. \A x, s : Health!Working(c, x, s) =
                    IF x.seen /\ x.v.channel = "up"
                    THEN x.v.members \cup {"channel"} ELSE {}
    BY <1>4, WorkingOf
  <2>2. Health!Result(c, b, a) = Health!PortChannels(b, a)
    BY <1>4, ResultOf
  <2> QED
    BY <2>1, <2>2 DEF Kept, Quiet, Health!PortChannels
<1>5. CASE c = "ipv4_route_count"
  <2>1. \A x, s : Health!Working(c, x, s) = IF x.seen THEN DOMAIN x.v ELSE {}
    BY <1>5, WorkingOf
  <2>2. Health!Result(c, b, a) = Health!RouteCount(b, a)
    BY <1>5, ResultOf
  <2> QED
    BY <2>1, <2>2 DEF Kept, Quiet, Health!RouteCount
<1> QED
  BY <1>1, <1>2, <1>3, <1>4, <1>5

\* What the configuration is to have.
LEMMA ConfigKept ==
  ASSUME NEW c \in Health!Overlay \cup Health!Expectations
                     \cup {"bgp_dynamic_neighbor_health"},
         NEW b, NEW a,
         Facts(c, b, a), Health!Result(c, b, a) \in Quiet
  PROVE  Kept(c, b, a)
<1>1. CASE c \in Health!Overlay
  <2>1. \A x, s : Health!Working(c, x, s) =
          IF x.seen THEN IF s.config = Health!Unread THEN x.v ELSE x.v \cap s.config ELSE {}
    BY <1>1, WorkingOf
  <2>2. Health!Result(c, b, a) = Health!OverlayResources(a)
    BY <1>1, ResultOf
  <2> QED
    BY <2>1, <2>2 DEF Kept, Quiet, Health!OverlayResources, Health!PassIf
<1>2. CASE c = "bgp_dynamic_neighbor_health"
  <2>1. \A x, s : Health!Working(c, x, s) =
          IF x.seen /\ x.config = "yes" /\ s.config # "no" /\ x.v.established # {}
          THEN {"range"} ELSE {}
    BY <1>2, WorkingOf
  <2>2. /\ Health!Result(c, b, a) = Health!DynamicNeighbors(b, a)
        /\ Health!FactsOf(c) = Health!RangeFacts
    BY <1>2, ResultOf, FactsOfCheck
  <2>3. a.config \in {"none", "no", "yes"}
    <3>1. PICK S : Health!RangeFacts =
            Health!Configured(Health!Values(S), {"none", "no", "yes"})
      BY DEF Health!RangeFacts
    <3>2. \A y \in Health!Values(S) : Found(y)
      BY SeenValues
    <3> QED
      BY <2>2, <3>1, <3>2, ConfiguredFacts DEF Facts
  <2> QED
    BY <2>1, <2>2, <2>3 DEF Kept, Quiet, Health!DynamicNeighbors, Health!PassIf
<1>3. CASE c \in Health!Expectations
  <2>1. \A x, s : Health!Working(c, x, s) = IF x.config = "yes" THEN {"function"} ELSE {}
    BY <1>3, WorkingOf
  <2>2. /\ Health!Result(c, b, a) = Health!FunctionExpectation(c, b, a)
        /\ Health!FactsOf(c) = Health!FunctionFacts
    BY <1>3, ResultOf, FactsOfCheck
  <2>3. a.config \in {"none", "no", "yes"}
    BY <2>2, FoundFields, ConfiguredFacts DEF Facts, Health!FunctionFacts, Found
  <2> QED
    BY <2>1, <2>2, <2>3 DEF Kept, Quiet, Health!FunctionExpectation
<1> QED
  BY <1>1, <1>2, <1>3

\* Whatever the check, a quiet result means that nothing stopped working.
LEMMA QuietKeeps ==
  ASSUME NEW c \in Health!Checks, NEW b, NEW a,
         Facts(c, b, a), Health!Result(c, b, a) \in Quiet
  PROVE  Kept(c, b, a)
<1>1. CASE c \in Health!AfterOnly
             \cup {"system_identity", "reload_pending", "logging_health",
                   "interface_error_health", "evpn_route_health"}
  <2>1. \A x, s : Health!Working(c, x, s) = {}
    BY <1>1, WorkingOf
  <2> QED
    BY <2>1 DEF Kept
<1> QED
  BY <1>1, NeighborsKept, FeatureKept, DeviceKept, ConfigKept DEF Health!Checks

\* A result ranks by what it means for the change.
LEMMA Ranks ==
  /\ Health!Results = {"NOT_APPLICABLE", "PASS", "WARN", "UNKNOWN", "FAIL"}
  /\ \A r \in Health!Results :
       /\ Health!RESULT_ORDER[r] \in 0 .. 4
       /\ Health!RESULT_ORDER[r] <= 2 <=> r \in Quiet
<1>1. Health!Results = {"NOT_APPLICABLE", "PASS", "WARN", "UNKNOWN", "FAIL"}
  BY DEF Health!Results, Health!RESULT_ORDER
<1>2. /\ Health!RESULT_ORDER["NOT_APPLICABLE"] = 0 /\ Health!RESULT_ORDER["PASS"] = 1
      /\ Health!RESULT_ORDER["WARN"] = 2 /\ Health!RESULT_ORDER["UNKNOWN"] = 3
      /\ Health!RESULT_ORDER["FAIL"] = 4
  BY DEF Health!RESULT_ORDER
<1> QED
  BY <1>1, <1>2 DEF Quiet

\* The worst of several results is one of them, and none is worse.
LEMMA WorstOf ==
  ASSUME NEW S, S \subseteq Health!Results, S # {}
  PROVE  /\ Health!Worst(S) \in S
         /\ \A s \in S : Health!RESULT_ORDER[s] <= Health!RESULT_ORDER[Health!Worst(S)]
<1> DEFINE Top(r) == /\ r \in S
                     /\ \A s \in S : Health!RESULT_ORDER[s] <= Health!RESULT_ORDER[r]
<1>1. \E r : Top(r)
  <2>1. CASE "FAIL" \in S
    <3>1. Top("FAIL")
      BY <2>1, Ranks DEF Health!RESULT_ORDER
    <3> QED
      BY <3>1
  <2>2. CASE "FAIL" \notin S /\ "UNKNOWN" \in S
    <3>1. Top("UNKNOWN")
      BY <2>2, Ranks DEF Health!RESULT_ORDER
    <3> QED
      BY <3>1
  <2>3. CASE "FAIL" \notin S /\ "UNKNOWN" \notin S /\ "WARN" \in S
    <3>1. Top("WARN")
      BY <2>3, Ranks DEF Health!RESULT_ORDER
    <3> QED
      BY <3>1
  <2>4. CASE S \subseteq {"NOT_APPLICABLE", "PASS"} /\ "PASS" \in S
    <3>1. Top("PASS")
      BY <2>4, Ranks DEF Health!RESULT_ORDER
    <3> QED
      BY <3>1
  <2>5. CASE S = {"NOT_APPLICABLE"}
    <3>1. Top("NOT_APPLICABLE")
      BY <2>5, Ranks DEF Health!RESULT_ORDER
    <3> QED
      BY <3>1
  <2> QED
    BY <2>1, <2>2, <2>3, <2>4, <2>5, Ranks
<1>2. Health!Worst(S) = CHOOSE r : Top(r)
  BY DEF Health!Worst
<1>3. Top(Health!Worst(S))
  BY <1>1, <1>2, Zenon
<1> QED
  BY <1>3

\* When the worst of several results is quiet, all of them are.
LEMMA WorstQuiet ==
  ASSUME NEW S, S \subseteq Health!Results, S # {}, Health!Worst(S) \in Quiet
  PROVE  S \subseteq Quiet
<1>1. /\ Health!RESULT_ORDER[Health!Worst(S)] \in 0 .. 4
      /\ Health!RESULT_ORDER[Health!Worst(S)] <= 2
      /\ \A s \in S : Health!RESULT_ORDER[s] <= Health!RESULT_ORDER[Health!Worst(S)]
  BY WorstOf, Ranks
<1>2. ASSUME NEW s \in S
      PROVE  s \in Quiet
  <2>1. s \in Health!Results
    OBVIOUS
  <2>2. Health!RESULT_ORDER[s] \in 0 .. 4
    BY <2>1, Ranks
  <2>3. Health!RESULT_ORDER[s] <= 2
    BY <1>1, <2>2
  <2> QED
    BY <2>1, <2>3, Ranks
<1> QED
  BY <1>2

\* What a quiet comparison says of the check, of its command and of where it applies.
LEMMA OverallQuiet ==
  ASSUME NEW f, f.check \in Health!Checks, Facts(f.check, f.before, f.after),
         NEW scope, NEW required, NEW other \in {"PASS", "WARN"},
         Health!Overall(f, scope, required, other) \in Quiet
  PROVE  /\ required /\ Health!BaselineRuns(scope) => Health!BothSeen(f)
         /\ Health!CheckRuns(f.check, scope) =>
              Health!Result(f.check, f.before, f.after) \in Quiet
         /\ scope \notin {"platform_unresolved", "role_unresolved"}
<1> DEFINE judged ==
      {other}
        \cup (IF Health!BaselineRuns(scope) THEN {Health!Collection(f, required)} ELSE {})
        \cup (IF Health!CheckRuns(f.check, scope)
              THEN {Health!Result(f.check, f.before, f.after)} ELSE {})
<1>1. Health!Result(f.check, f.before, f.after) \in Health!Results
  BY ResultType DEF Facts
<1>2. Health!Collection(f, required) \in {"PASS", "UNKNOWN"}
  BY DEF Health!Collection
<1>3. judged \subseteq Health!Results /\ judged # {}
  BY <1>1, <1>2, Ranks
<1>4. Health!Overall(f, scope, required, other) =
        IF scope = "role_unresolved" THEN "REFUSED"
        ELSE IF scope = "platform_unresolved" THEN Health!Worst(judged \cup {"UNKNOWN"})
        ELSE Health!Worst(judged)
  BY DEF Health!Overall
<1>5. scope # "role_unresolved"
  BY <1>4 DEF Quiet
<1>6. scope # "platform_unresolved"
  <2>1. SUFFICES ASSUME scope = "platform_unresolved" PROVE FALSE
    OBVIOUS
  <2>2. Health!Worst(judged \cup {"UNKNOWN"}) \in Quiet
    BY <1>4, <2>1
  <2>3. judged \cup {"UNKNOWN"} \subseteq Health!Results
    BY <1>3, Ranks
  <2>4. judged \cup {"UNKNOWN"} \subseteq Quiet
    BY <2>2, <2>3, WorstQuiet
  <2> QED
    BY <2>4 DEF Quiet
<1>7. judged \subseteq Quiet
  <2>1. Health!Worst(judged) \in Quiet
    BY <1>4, <1>5, <1>6
  <2> QED
    BY <1>3, <2>1, WorstQuiet
<1>8. Health!BaselineRuns(scope) => Health!Collection(f, required) # "UNKNOWN"
  BY <1>7 DEF Quiet
<1> QED
  BY <1>5, <1>6, <1>7, <1>8 DEF Health!Collection

\* A comparison has one of the results, or is refused.
LEMMA OverallType ==
  ASSUME NEW f, f.check \in Health!Checks, Facts(f.check, f.before, f.after),
         NEW scope, NEW required, NEW other \in {"PASS", "WARN"}
  PROVE  Health!Overall(f, scope, required, other) \in Health!Results \cup {"REFUSED"}
<1> DEFINE judged ==
      {other}
        \cup (IF Health!BaselineRuns(scope) THEN {Health!Collection(f, required)} ELSE {})
        \cup (IF Health!CheckRuns(f.check, scope)
              THEN {Health!Result(f.check, f.before, f.after)} ELSE {})
<1>1. Health!Result(f.check, f.before, f.after) \in Health!Results
  BY ResultType DEF Facts
<1>2. Health!Collection(f, required) \in {"PASS", "UNKNOWN"}
  BY DEF Health!Collection
<1>3. judged \subseteq Health!Results /\ judged # {} /\ "UNKNOWN" \in Health!Results
  BY <1>1, <1>2, Ranks
<1>4. Health!Worst(judged) \in Health!Results
  BY <1>3, WorstOf
<1>5. Health!Worst(judged \cup {"UNKNOWN"}) \in Health!Results
  <2>1. judged \cup {"UNKNOWN"} \subseteq Health!Results /\ judged \cup {"UNKNOWN"} # {}
    BY <1>3
  <2> QED
    BY <2>1, WorstOf
<1> QED
  BY <1>4, <1>5 DEF Health!Overall

\* The facts are those of one check, and the comparison is the one made of them.
CompareInv ==
  /\ how.scope \in Health!Scopes \cup {"none"} /\ how.required \in BOOLEAN
  /\ \/ facts.check = "none"
     \/ facts.check \in Health!Checks /\ Facts(facts.check, facts.before, facts.after)
  /\ \/ overall = "none"
     \/ /\ facts.check # "none"
        /\ \E other \in {"PASS", "WARN"} :
             overall = Health!Overall(facts, how.scope, how.required, other)

\* Nothing is compared at first.
LEMMA CompareInit == Health!Init => CompareInv
BY DEF Health!Init, CompareInv, Health!NoFacts

\* The Snapshots are taken once, and the comparison is made of what they have.
LEMMA CompareStep == CompareInv /\ [Health!Next]_(Health!vars) => CompareInv'
<1> SUFFICES ASSUME CompareInv, [Health!Next]_(Health!vars) PROVE CompareInv'
  OBVIOUS
<1>1. CASE Health!TakeSnapshots
  <2>1. PICK c \in Health!Checks : \E b \in Health!FactsOf(c), a \in Health!FactsOf(c) :
          facts' = [check |-> c, before |-> b, after |-> a]
    BY <1>1 DEF Health!TakeSnapshots
  <2>2. facts'.check \in Health!Checks /\ Facts(facts'.check, facts'.before, facts'.after)
    BY <2>1 DEF Facts
  <2>3. overall = "none" /\ overall' = "none" /\ how' = how
    BY <1>1 DEF Health!TakeSnapshots, CompareInv
  <2> QED
    BY <2>2, <2>3 DEF CompareInv, Facts
<1>2. CASE Health!Compare
  <2>1. PICK scope \in Health!Scopes, required \in BOOLEAN, other \in {"PASS", "WARN"} :
          /\ how' = [scope |-> scope, required |-> required]
          /\ overall' = Health!Overall(facts, scope, required, other)
    BY <1>2 DEF Health!Compare
  <2>2. facts' = facts /\ facts.check # "none"
    BY <1>2 DEF Health!Compare
  <2>3. how'.scope = scope /\ how'.required = required
    BY <2>1
  <2>4. overall' = Health!Overall(facts', how'.scope, how'.required, other)
    BY <2>1, <2>2, <2>3
  <2> QED
    BY <2>2, <2>3, <2>4 DEF CompareInv
<1>3. CASE UNCHANGED Health!vars
  <2>1. facts' = facts /\ how' = how /\ overall' = overall
    BY <1>3 DEF Health!vars
  <2> QED
    BY <2>1 DEF CompareInv
<1> QED
  BY <1>1, <1>2, <1>3 DEF Health!Next

\* So a quiet comparison was made of quiet results, of which none lost anything.
LEMMA CompareQuiet == CompareInv => Health!NothingLostPasses
<1> SUFFICES ASSUME CompareInv, overall \in Quiet
             PROVE  /\ Health!CheckRuns(facts.check, how.scope) => Health!Lost(facts) = {}
                    /\ how.required /\ Health!BaselineRuns(how.scope) =>
                         Health!BothSeen(facts)
                    /\ how.scope \notin {"platform_unresolved", "role_unresolved"}
  BY DEF Health!NothingLostPasses, Quiet
<1>1. /\ facts.check \in Health!Checks /\ Facts(facts.check, facts.before, facts.after)
      /\ \E other \in {"PASS", "WARN"} :
           overall = Health!Overall(facts, how.scope, how.required, other)
  BY DEF CompareInv, Quiet
<1>2. PICK other \in {"PASS", "WARN"} :
        overall = Health!Overall(facts, how.scope, how.required, other)
  BY <1>1
<1>3. Health!Overall(facts, how.scope, how.required, other) \in Quiet
  BY <1>2
<1>4. /\ how.required /\ Health!BaselineRuns(how.scope) => Health!BothSeen(facts)
      /\ Health!CheckRuns(facts.check, how.scope) =>
           Health!Result(facts.check, facts.before, facts.after) \in Quiet
      /\ how.scope \notin {"platform_unresolved", "role_unresolved"}
  BY <1>1, <1>3, OverallQuiet
<1>5. Health!CheckRuns(facts.check, how.scope) =>
        Kept(facts.check, facts.before, facts.after)
  BY <1>1, <1>4, QuietKeeps
<1> QED
  BY <1>4, <1>5 DEF Kept, Health!Lost

\* The invariant implies the types.
LEMMA CompareTyped == CompareInv => Health!TypeOK
<1> SUFFICES ASSUME CompareInv PROVE Health!TypeOK
  OBVIOUS
<1>1. overall \in Health!Results \cup {"none", "REFUSED"}
  <2>1. SUFFICES ASSUME overall # "none"
                 PROVE  overall \in Health!Results \cup {"REFUSED"}
    OBVIOUS
  <2>2. /\ facts.check \in Health!Checks
        /\ Facts(facts.check, facts.before, facts.after)
    BY <2>1 DEF CompareInv
  <2>3. PICK other \in {"PASS", "WARN"} :
          overall = Health!Overall(facts, how.scope, how.required, other)
    BY <2>1 DEF CompareInv
  <2> QED
    BY <2>2, <2>3, OverallType
<1> QED
  BY <1>1 DEF CompareInv, Health!TypeOK

\* The workbench steps of the comparison are its own, or leave it alone.
LEMMA CompareInvariant == Spec => []CompareInv
<1>1. Init => CompareInv
  BY CompareInit DEF Init
<1>2. [Next]_vars => [Health!Next]_(Health!vars)
  BY DEF Next, vars, compareVars, Health!vars
<1>3. CompareInv /\ [Health!Next]_(Health!vars) => CompareInv'
  BY CompareStep
<1> QED
  BY <1>1, <1>2, <1>3, PTL DEF Spec

\* compare_snapshots passes a change, or only warns of it, when every check that was
\* evaluated still finds what it found before, every required command was parsed in both
\* phases, where network-baseline-nxos is for the device, and the role and platform of
\* every device are known, whatever its names, values and thresholds.
THEOREM PassingLosesNothing == Spec => []NothingLostPasses
<1>1. CompareInv => NothingLostPasses
  BY CompareQuiet DEF NothingLostPasses
<1> QED
  BY <1>1, CompareInvariant, PTL

-----------------------------------------------------------------------------
(* The plan on the device: what it was accepted for tells which values the *)
(* running-config may have where the sections go, so each section replaces *)
(* only what is not compared; and what it adds is in blocks the change     *)
(* creates and its rollback takes away, or is among the lines the rollback *)
(* takes away, or is of an attribute it leaves as it is.                   *)

\* A block, and a line of one.
Block(l) == \E k, y : l = <<k, y>>
Line(l) == \E k, y, a, v : l = <<k, y, a, v>>

\* A configuration is made of them.
Shaped(c) == \A l \in c : Block(l) \/ Line(l)

\* What blocks and lines are made of.
LEMMA Tuples ==
  /\ \A k, y : Len(<<k, y>>) = 2 /\ <<k, y>>[1] = k /\ <<k, y>>[2] = y
  /\ \A k, y, a, v :
       /\ Len(<<k, y, a, v>>) = 4
       /\ <<k, y, a, v>>[1] = k /\ <<k, y, a, v>>[2] = y
       /\ <<k, y, a, v>>[3] = a /\ <<k, y, a, v>>[4] = v
  /\ \A k, y, k2, y2, a, v : <<k, y>> # <<k2, y2, a, v>>
OBVIOUS

\* The values of an attribute are those of its lines.
LEMMA OfMember ==
  ASSUME NEW c, Shaped(c), NEW k, NEW y, NEW a, NEW v
  PROVE  v \in Render!Of(c, k, y, a) <=> <<k, y, a, v>> \in c
<1>1. ASSUME v \in Render!Of(c, k, y, a) PROVE <<k, y, a, v>> \in c
  <2>1. PICK l \in c : Len(l) = 4 /\ <<l[1], l[2], l[3]>> = <<k, y, a>> /\ l[4] = v
    BY <1>1 DEF Render!Of
  <2>2. Line(l)
    BY <2>1, Tuples DEF Shaped, Block
  <2>3. PICK k1, y1, a1, v1 : l = <<k1, y1, a1, v1>>
    BY <2>2 DEF Line
  <2>4. k1 = k /\ y1 = y /\ a1 = a /\ v1 = v
    BY <2>1, <2>3
  <2> QED
    BY <2>1, <2>3, <2>4
<1>2. ASSUME <<k, y, a, v>> \in c PROVE v \in Render!Of(c, k, y, a)
  <2> DEFINE l == <<k, y, a, v>>
  <2>1. Len(l) = 4 /\ <<l[1], l[2], l[3]>> = <<k, y, a>> /\ l[4] = v
    BY Tuples
  <2> QED
    BY <1>2, <2>1 DEF Render!Of
<1> QED
  BY <1>1, <1>2

\* What the device has after lines were sent to it.
LEMMA ConfigureMember ==
  ASSUME NEW c, NEW lines, Shaped(c), Shaped(lines)
  PROVE  /\ Shaped(Render!Configure(c, lines))
         /\ \A k, y : <<k, y>> \in Render!Configure(c, lines) <=>
              \/ <<k, y>> \in c \cup lines
              \/ \E a, v : <<k, y, a, v>> \in lines
         /\ \A k, y, a, v : <<k, y, a, v>> \in Render!Configure(c, lines) <=>
              \/ <<k, y, a, v>> \in lines
              \/ /\ <<k, y, a, v>> \in c
                 /\ a = "rt" \/ ~\E w : <<k, y, a, w>> \in lines
<1> DEFINE Same(l, n) == /\ Len(l) = 4 /\ Len(n) = 4 /\ l[3] # "rt"
                         /\ <<l[1], l[2], l[3]>> = <<n[1], n[2], n[3]>>
           Left == {l \in c : ~\E n \in lines : Same(l, n)}
           Opened == {<<n[1], n[2]>> : n \in lines}
<1>1. Render!Configure(c, lines) = Left \cup lines \cup Opened
  BY DEF Render!Configure
<1>2. \A k, y : <<k, y>> \in c => <<k, y>> \in Left
  BY Tuples
<1>3. \A k, y, a, v, n : Line(n) =>
        (Same(<<k, y, a, v>>, n) <=> a # "rt" /\ \E w : n = <<k, y, a, w>>)
  BY Tuples DEF Line
<1>4. \A k, y, a, v, n : Block(n) => ~Same(<<k, y, a, v>>, n)
  BY Tuples DEF Block
<1>5. ASSUME NEW k, NEW y, NEW a, NEW v
      PROVE  <<k, y, a, v>> \in Left <=>
               /\ <<k, y, a, v>> \in c
               /\ a = "rt" \/ ~\E w : <<k, y, a, w>> \in lines
  <2>1. (\E n \in lines : Same(<<k, y, a, v>>, n)) <=>
          a # "rt" /\ \E w : <<k, y, a, w>> \in lines
    <3>1. ASSUME NEW n \in lines, Same(<<k, y, a, v>>, n)
          PROVE  a # "rt" /\ \E w : <<k, y, a, w>> \in lines
      <4>1. Line(n)
        BY <1>4, <3>1 DEF Shaped
      <4> QED
        BY <1>3, <3>1, <4>1
    <3>2. ASSUME NEW w, <<k, y, a, w>> \in lines, a # "rt"
          PROVE  \E n \in lines : Same(<<k, y, a, v>>, n)
      <4>1. Same(<<k, y, a, v>>, <<k, y, a, w>>)
        BY <3>2, Tuples
      <4> QED
        BY <3>2, <4>1
    <3> QED
      BY <3>1, <3>2
  <2> QED
    BY <2>1
<1>6. ASSUME NEW k, NEW y
      PROVE  <<k, y>> \in Opened <=>
               <<k, y>> \in lines \/ \E a, v : <<k, y, a, v>> \in lines
  <2>1. ASSUME <<k, y>> \in Opened
        PROVE  <<k, y>> \in lines \/ \E a, v : <<k, y, a, v>> \in lines
    <3>1. PICK n \in lines : n[1] = k /\ n[2] = y
      BY <2>1, Tuples
    <3>2. CASE Block(n)
      BY <3>1, <3>2, Tuples DEF Block
    <3>3. CASE Line(n)
      <4>1. PICK k1, y1, a, v : n = <<k1, y1, a, v>>
        BY <3>3 DEF Line
      <4>2. n = <<k, y, a, v>>
        BY <3>1, <4>1
      <4> QED
        BY <4>2
    <3> QED
      BY <3>2, <3>3 DEF Shaped
  <2>2. ASSUME NEW n \in lines, n[1] = k, n[2] = y
        PROVE  <<k, y>> \in Opened
    BY <2>2
  <2>3. ASSUME <<k, y>> \in lines PROVE <<k, y>> \in Opened
    BY <2>2, <2>3, Tuples
  <2>4. ASSUME NEW a, NEW v, <<k, y, a, v>> \in lines PROVE <<k, y>> \in Opened
    BY <2>2, <2>4, Tuples
  <2> QED
    BY <2>1, <2>3, <2>4
<1>7. \A l \in Opened : Block(l)
  BY DEF Block
<1>8. \A k, y, a, v : <<k, y, a, v>> \notin Opened
  BY Tuples
<1>9. Shaped(Render!Configure(c, lines))
  BY <1>1, <1>7 DEF Shaped
<1> HIDE DEF Left, Opened
<1>10. \A k, y : <<k, y>> \in Left => <<k, y>> \in c
  BY DEF Left
<1>11. \A k, y : <<k, y>> \in Render!Configure(c, lines) <=>
              \/ <<k, y>> \in c \cup lines
              \/ \E a, v : <<k, y, a, v>> \in lines
  BY <1>1, <1>2, <1>6, <1>10
<1>12. \A k, y, a, v : <<k, y, a, v>> \in Render!Configure(c, lines) <=>
              \/ <<k, y, a, v>> \in lines
              \/ /\ <<k, y, a, v>> \in c
                 /\ a = "rt" \/ ~\E w : <<k, y, a, w>> \in lines
  BY <1>1, <1>5, <1>8
<1> QED
  BY <1>9, <1>11, <1>12

\* The lines of the sections.
LEMMA VrfLines ==
  ASSUME NEW chg, NEW n
  PROVE  n \in Render!VrfSection(chg) <=>
           \/ \E x \in chg.l3 : \/ n = <<"vrf", x.vrf, "vni", x.vni>>
                                \/ n = <<"vrf", x.vrf, "rd", "auto">>
                                \/ n = <<"vrf", x.vrf, "family", "unicast">>
                                \/ n = <<"vrf", x.vrf, "rt", "auto">>
           \/ \E x \in chg.l3 : /\ x.vlan # 0
                                /\ \/ n = <<"vlan", x.vlan, "vni", x.vni>>
                                   \/ n = <<"svi", x.vlan, "forward", "ours">>
                                   \/ n = <<"svi", x.vlan, "vrf", x.vrf>>
                                   \/ n = <<"svi", x.vlan, "other", "ours">>
BY DEF Render!VrfSection, Render!VrfCommands

\* Those of the VLANs.
LEMMA VlanLines ==
  ASSUME NEW chg, NEW n
  PROVE  n \in Render!VlanSection(chg) <=>
           \/ \E x \in chg.l2 : n = <<"vlan", x.vlan, "vni", x.vni>>
           \/ \E x \in chg.l2 : x.named /\ n = <<"vlan", x.vlan, "name", "ours">>
           \/ \E x \in chg.l2 : /\ x.svi
                                /\ \/ n = <<"svi", x.vlan, "attrs", "ours">>
                                   \/ n = <<"svi", x.vlan, "other", "ours">>
           \/ \E x \in chg.l2 :
                x.svi /\ x.vrf # "none" /\ n = <<"svi", x.vlan, "vrf", x.vrf>>
BY DEF Render!VlanSection

\* Those of the NVE, the EVPNs and BGP.
LEMMA OtherLines ==
  ASSUME NEW chg, NEW n
  PROVE  /\ n \in Render!NveSection(chg) <=>
              \/ \E x \in chg.l3 : n = <<"nve3", x.vni>>
              \/ \E x \in chg.l2 : n = <<"nve2", x.vni>>
         /\ n \in Render!EvpnSection(chg) <=>
              \E x \in chg.l2 : \/ n = <<"evpn", x.vni, "rd", "auto">>
                                \/ n = <<"evpn", x.vni, "rt", "auto">>
         /\ n \in Render!BgpSection(chg) <=>
              \E x \in chg.l3 : \/ n = <<"bgp", x.vrf, "advertise", "l2vpn">>
                                \/ n = <<"bgp", x.vrf, "maps", "ours">>
                                \/ n = <<"bgp", x.vrf, "family", "unicast">>
BY DEF Render!NveSection, Render!EvpnSection, Render!BgpSection, Render!BgpCommands

\* The blocks the change creates.
LEMMA CreatedBlocks ==
  ASSUME NEW b, NEW chg, NEW n
  PROVE  n \in Render!NewBlocks(b, chg) <=>
           /\ n \notin b
           /\ \/ \E x \in chg.l2 :
                   n \in {<<"vlan", x.vlan>>, <<"nve2", x.vni>>, <<"evpn", x.vni>>}
              \/ \E x \in chg.l2 : x.svi /\ n = <<"svi", x.vlan>>
              \/ \E x \in chg.l3 :
                   n \in {<<"vrf", x.vrf>>, <<"nve3", x.vni>>, <<"bgp", x.vrf>>}
              \/ \E x \in chg.l3 :
                   x.vlan # 0 /\ n \in {<<"vlan", x.vlan>>, <<"svi", x.vlan>>}
BY DEF Render!NewBlocks

\* The forward configuration.
LEMMA Sections ==
  ASSUME NEW chg
  PROVE  /\ Len(Render!Forward(chg)) = 5
         /\ Render!Forward(chg)[1] = Render!VrfSection(chg)
         /\ Render!Forward(chg)[2] = Render!VlanSection(chg)
         /\ Render!Forward(chg)[3] = Render!NveSection(chg)
         /\ Render!Forward(chg)[4] = Render!EvpnSection(chg)
         /\ Render!Forward(chg)[5] = Render!BgpSection(chg)
BY DEF Render!Forward

\* The values the commands of an address family have.
Usual(a, v) ==
  /\ a = "family" => v = "unicast"
  /\ a = "advertise" => v = "l2vpn"

\* A running-config: lines are in blocks it has.
Running(c) ==
  \A l \in c : \/ Block(l)
               \/ \E k, y, a, v : l = <<k, y, a, v>> /\ <<k, y>> \in c /\ Usual(a, v)

\* What a plan was accepted for: the configuration it was made of, and its resources.
Accepted(b, chg) ==
  /\ Running(b)
  /\ Render!ConflictFree(b, chg) /\ Render!Renderable(b, chg)

\* So a running-config has the block of every line.
LEMMA RunningLines ==
  ASSUME NEW c, Running(c)
  PROVE  /\ Shaped(c)
         /\ \A k, y, a, v : <<k, y, a, v>> \in c => <<k, y>> \in c /\ Usual(a, v)
<1>1. ASSUME NEW l \in c PROVE Block(l) \/ Line(l)
  <2>1. CASE \E k, y, a, v : l = <<k, y, a, v>> /\ <<k, y>> \in c /\ Usual(a, v)
    BY <2>1 DEF Line
  <2> QED
    BY <2>1 DEF Running
<1>2. ASSUME NEW k, NEW y, NEW a, NEW v, <<k, y, a, v>> \in c
      PROVE  <<k, y>> \in c /\ Usual(a, v)
  <2>1. ~Block(<<k, y, a, v>>)
    BY Tuples DEF Block
  <2>2. PICK k1, y1, a1, v1 :
          <<k, y, a, v>> = <<k1, y1, a1, v1>> /\ <<k1, y1>> \in c /\ Usual(a1, v1)
    BY <1>2, <2>1 DEF Running
  <2>3. k1 = k /\ y1 = y /\ a1 = a /\ v1 = v
    BY <2>2
  <2> QED
    BY <2>2, <2>3
<1> QED
  BY <1>1, <1>2 DEF Shaped

\* Two parts of a running-config make one.
LEMMA RunningTogether ==
  ASSUME NEW c, NEW d, Running(c), Running(d)
  PROVE  Running(c \cup d)
BY DEF Running

\* An SVI by itself is one.
LEMMA SviRuns ==
  ASSUME NEW v, NEW a \in {"attrs", "forward"}, NEW x, NEW vrfs
  PROVE  Running(Render!Svi(v, a, x, vrfs))
<1> DEFINE c == Render!Svi(v, a, x, vrfs)
<1>1. \A l : l \in c <=> \/ l = <<"svi", v>> \/ l = <<"svi", v, a, x>>
                         \/ l = <<"svi", v, "other", "theirs">>
                         \/ \E r \in vrfs : l = <<"svi", v, "vrf", r>>
  BY DEF Render!Svi
<1> HIDE DEF c
<1>2. <<"svi", v>> \in c
  BY <1>1
<1>3. Block(<<"svi", v>>)
  BY DEF Block
<1>4. \A y : Usual(a, y) /\ Usual("other", y) /\ Usual("vrf", y)
  BY DEF Usual
<1>5. Running(c)
  BY <1>1, <1>2, <1>3, <1>4 DEF Running
<1> QED
  BY <1>5 DEF c

\* The configurations a plan is made of are running-configs.
LEMMA ConfigurationsRun ==
  ASSUME NEW chg, NEW c \in Render!Configurations(chg)
  PROVE  Running(c)
<1>1. Running({})
  BY DEF Running
<1>2. ASSUME NEW o \in Render!OneVlan PROVE Running(o)
  <2> DEFINE M == Render!Optional({<<"vlan", Render!vlan1, "vni", x>> : x \in L2Vnis})
             N == Render!Optional({<<"vlan", Render!vlan1, "name", "theirs">>})
             T == {{}} \cup {Render!Svi(Render!vlan1, "attrs", "ours", r) :
                              r \in Render!InVrf}
                    \cup {Render!Svi(Render!vlan1, "forward", "ours", r) :
                              r \in Render!InVrf \ {{}}}
                    \cup {Render!Svi(Render!vlan1, "attrs", "theirs", {})}
  <2>1. CASE o = {}
    BY <1>1, <2>1
  <2>2. ASSUME NEW m \in M, NEW n \in N, NEW t \in T,
               o = {<<"vlan", Render!vlan1>>} \cup m \cup n \cup t
        PROVE  Running(o)
    <3>1. \A l \in m : \E v : l = <<"vlan", Render!vlan1, "vni", v>>
      BY DEF Render!Optional
    <3>2. \A l \in n : \E v : l = <<"vlan", Render!vlan1, "name", v>>
      BY DEF Render!Optional
    <3>3. \/ t = {}
          \/ \E a \in {"attrs", "forward"} : \E x, r : t = Render!Svi(Render!vlan1, a, x, r)
      OBVIOUS
    <3>4. Running(t)
      BY <1>1, <3>3, SviRuns
    <3> DEFINE e == {<<"vlan", Render!vlan1>>} \cup m \cup n
    <3>5. ASSUME NEW l \in e
          PROVE  \/ Block(l)
                 \/ \E k, y, a, v : l = <<k, y, a, v>> /\ <<k, y>> \in e /\ Usual(a, v)
      <4>1. CASE l \in m
        BY <3>1, <4>1 DEF Usual
      <4>2. CASE l \in n
        BY <3>2, <4>2 DEF Usual
      <4>3. CASE l = <<"vlan", Render!vlan1>>
        BY <4>3 DEF Block
      <4> QED
        BY <4>1, <4>2, <4>3
    <3>6. Running(e) /\ o = e \cup t
      BY <2>2, <3>5 DEF Running
    <3> HIDE DEF e
    <3> QED
      BY <3>4, <3>6, RunningTogether
  <2>3. Render!OneVlan = {{}} \cup {{<<"vlan", Render!vlan1>>} \cup m \cup n \cup t :
                             m \in M, n \in N, t \in T}
    BY DEF Render!OneVlan
  <2> HIDE DEF M, N, T
  <2>4. \/ o = {}
        \/ \E m \in M, n \in N, t \in T :
             o = {<<"vlan", Render!vlan1>>} \cup m \cup n \cup t
    BY <2>3
  <2> QED
    BY <2>1, <2>2, <2>4, Zenon
<1>3. ASSUME NEW o \in {{}} \cup Render!OtherVlan PROVE Running(o)
  <2>1. \/ o = {}
        \/ \E v, x : o = {<<"vlan", v>>, <<"vlan", v, "vni", x>>}
        \/ \E v, r : o = Render!Svi(v, "attrs", "clash", r)
    BY DEF Render!OtherVlan
  <2>2. \A v, x : Running({<<"vlan", v>>, <<"vlan", v, "vni", x>>})
    BY DEF Running, Usual, Block
  <2> QED
    BY <1>1, <2>1, <2>2, SviRuns
<1>4. ASSUME NEW o \in Render!VrfContext PROVE Running(o)
  <2> DEFINE M == Render!Optional({<<"vrf", Render!vrf1, "vni", x>> : x \in L3Vnis})
             T == {{}} \cup {{<<"vrf", Render!vrf1, "rd", x>>,
                             <<"vrf", Render!vrf1, "rt", x>>,
                             <<"vrf", Render!vrf1, "family", "unicast">>} :
                              x \in {"auto", "theirs"}}
             O == {{<<"vrf", r>>, <<"vrf", r, "vni", Render!l3vni1>>} :
                     r \in Vrfs \ {Render!vrf1}}
  <2>1. CASE o = {}
    BY <1>1, <2>1
  <2>2. ASSUME NEW m \in M, NEW t \in T,
               o = {<<"vrf", Render!vrf1>>} \cup m \cup t
        PROVE  Running(o)
    <3>1. \A l \in m : \E v : l = <<"vrf", Render!vrf1, "vni", v>>
      BY DEF Render!Optional
    <3>2. \A l \in t : \/ \E x : l = <<"vrf", Render!vrf1, "rd", x>>
                       \/ \E x : l = <<"vrf", Render!vrf1, "rt", x>>
                       \/ l = <<"vrf", Render!vrf1, "family", "unicast">>
      OBVIOUS
    <3>3. ASSUME NEW l \in o
          PROVE  \/ Block(l)
                 \/ \E k, y, a, v : l = <<k, y, a, v>> /\ <<k, y>> \in o /\ Usual(a, v)
      <4>1. CASE l \in m
        BY <2>2, <3>1, <4>1 DEF Usual
      <4>2. CASE l \in t
        BY <2>2, <3>2, <4>2 DEF Usual
      <4>3. CASE l = <<"vrf", Render!vrf1>>
        BY <4>3 DEF Block
      <4> QED
        BY <2>2, <4>1, <4>2, <4>3
    <3> QED
      BY <3>3 DEF Running
  <2>3. Render!VrfContext =
          {{}} \cup {{<<"vrf", Render!vrf1>>} \cup m \cup t : m \in M, t \in T} \cup O
    BY DEF Render!VrfContext
  <2>4. ASSUME o \in O PROVE Running(o)
    <3>1. PICK r : o = {<<"vrf", r>>, <<"vrf", r, "vni", Render!l3vni1>>}
      BY <2>4
    <3> QED
      BY <3>1 DEF Running, Usual, Block
  <2> HIDE DEF M, T, O
  <2>5. \/ o = {} \/ o \in O
        \/ \E m \in M, t \in T : o = {<<"vrf", Render!vrf1>>} \cup m \cup t
    BY <2>3
  <2> QED
    BY <2>1, <2>2, <2>4, <2>5, Zenon
<1>5. ASSUME NEW o \in Render!BgpVrf PROVE Running(o)
  <2>1. \/ o = {} \/ o = {<<"bgp", Render!vrf1>>}
        \/ \E x : o = {<<"bgp", Render!vrf1>>, <<"bgp", Render!vrf1, "family", "unicast">>,
                       <<"bgp", Render!vrf1, "maps", x>>}
    BY DEF Render!BgpVrf
  <2> QED
    BY <2>1 DEF Running, Usual, Block
<1>6. ASSUME NEW o \in Render!Members PROVE Running(o)
  <2> DEFINE evpn == <<"evpn", Render!l2vni1>>
  <2>1. \/ o = {} \/ o = {evpn}
        \/ o = {<<"nve2", Render!l2vni1>>, <<"nve3", Render!l3vni1>>}
        \/ o = {evpn, <<"evpn", Render!l2vni1, "rd", "theirs">>,
                <<"evpn", Render!l2vni1, "rt", "theirs">>}
    BY DEF Render!Members
  <2> QED
    BY <2>1 DEF Running, Usual, Block
<1>7. PICK o1 \in Render!OneVlan, o2 \in {{}} \cup Render!OtherVlan,
           o3 \in {{}} \cup Render!VrfContext, o4 \in {{}} \cup Render!BgpVrf,
           o5 \in Render!Members : c = o1 \cup o2 \cup o3 \cup o4 \cup o5
  <2> DEFINE X == IF chg.l3 = {} THEN {{}} ELSE Render!VrfContext
             Y == IF chg.l3 = {} \/ chg.l2 # {} THEN {{}} ELSE Render!BgpVrf
             Z == IF chg.l3 = {} THEN Render!OtherVlan ELSE {{}}
  <2>1. /\ X \subseteq {{}} \cup Render!VrfContext /\ Y \subseteq {{}} \cup Render!BgpVrf
        /\ Z \subseteq {{}} \cup Render!OtherVlan
    OBVIOUS
  <2>2. Render!Configurations(chg) =
          {a \cup b \cup d \cup e \cup f : a \in Render!OneVlan, b \in Z,
                                           d \in X, e \in Y, f \in Render!Members}
    BY DEF Render!Configurations
  <2> HIDE DEF X, Y, Z
  <2>3. \E o1 \in Render!OneVlan, o2 \in Z, o3 \in X, o4 \in Y,
           o5 \in Render!Members : c = o1 \cup o2 \cup o3 \cup o4 \cup o5
    BY <2>2
  <2> QED
    BY <2>1, <2>3
<1>8. Running(o1) /\ Running(o2) /\ Running(o3) /\ Running(o4) /\ Running(o5)
  BY <1>1, <1>2, <1>3, <1>4, <1>5, <1>6
<1> QED
  BY <1>7, <1>8, RunningTogether

\* Blocks the device had or the change creates.
Allowed(b, chg) == Render!Blocks(b) \cup Render!NewBlocks(b, chg)

\* The lines of the attributes the rollback leaves as they are, and of those the forward
\* configuration replaces.
Left(k, a) == <<k, a>> \in Render!Unowned
Overwritten(k, a) == <<k, a>> \in {<<"vrf", "rd">>, <<"evpn", "rd">>, <<"svi", "other">>}

\* A line the device had, or that the rollback takes away or leaves as it is.
Mine(b, chg, k, y, a, v) ==
  \/ <<k, y, a, v>> \in b
  \/ <<k, y>> \notin b
  \/ <<k, y, a, v>> \in Render!NewLines(b, chg)
  \/ \E x \in chg.l3 : <<k, y, a, v>> = <<"vrf", x.vrf, "vni", x.vni>>
  \/ Left(k, a)

\* No other value of the attribute is there, or it may be replaced, or adds up.
Fits(b, k, y, a, v) ==
  \/ a = "rt" \/ Overwritten(k, a)
  \/ \A w : <<k, y, a, w>> \in b => w = v

\* A line of a section goes to such a block, and does no harm there.
Goes(b, chg, n) ==
  \/ Block(n) /\ n \in Allowed(b, chg)
  \/ \E k, y, a, v : /\ n = <<k, y, a, v>> /\ <<k, y>> \in Allowed(b, chg)
                     /\ Fits(b, k, y, a, v) /\ Mine(b, chg, k, y, a, v)

\* What these blocks are.
LEMMA AllowedBlock ==
  ASSUME NEW b, NEW chg, NEW k, NEW y
  PROVE  <<k, y>> \in Allowed(b, chg) <=>
           \/ <<k, y>> \in b
           \/ \E x \in chg.l2 :
                <<k, y>> \in {<<"vlan", x.vlan>>, <<"nve2", x.vni>>, <<"evpn", x.vni>>}
           \/ \E x \in chg.l2 : x.svi /\ <<k, y>> = <<"svi", x.vlan>>
           \/ \E x \in chg.l3 :
                <<k, y>> \in {<<"vrf", x.vrf>>, <<"nve3", x.vni>>, <<"bgp", x.vrf>>}
           \/ \E x \in chg.l3 :
                x.vlan # 0 /\ <<k, y>> \in {<<"vlan", x.vlan>>, <<"svi", x.vlan>>}
<1>1. <<k, y>> \in Render!Blocks(b) <=> <<k, y>> \in b
  BY Tuples DEF Render!Blocks
<1> QED
  BY <1>1, CreatedBlocks DEF Allowed

\* What the plan was refused for otherwise.
LEMMA AcceptedValues ==
  ASSUME NEW b, NEW chg, Accepted(b, chg)
  PROVE  /\ Shaped(b)
         /\ \A x \in chg.l2 : Render!Of(b, "vlan", x.vlan, "vni") \in {{}, {x.vni}}
         /\ \A x \in chg.l2 : x.named =>
              Render!Of(b, "vlan", x.vlan, "name") \in {{}, {"ours"}}
         /\ \A x \in chg.l2 : x.svi /\ <<"svi", x.vlan>> \in b =>
              /\ Render!Of(b, "svi", x.vlan, "attrs") = {"ours"}
              /\ x.vrf # "none" => Render!Of(b, "svi", x.vlan, "vrf") = {x.vrf}
         /\ \A x \in chg.l3 : Render!Of(b, "vrf", x.vrf, "vni") \in {{}, {x.vni}}
         /\ \A x \in chg.l3 : Render!Of(b, "bgp", x.vrf, "maps") \in {{}, {"ours"}}
         /\ \A x \in chg.l3 : x.vlan # 0 =>
              /\ Render!Of(b, "vlan", x.vlan, "vni") \in {{}, {x.vni}}
              /\ <<"svi", x.vlan>> \in b =>
                   /\ Render!Of(b, "svi", x.vlan, "forward") = {"ours"}
                   /\ Render!Of(b, "svi", x.vlan, "vrf") = {x.vrf}
<1>1. Shaped(b)
  BY RunningLines DEF Accepted
<1>2. /\ \A x \in chg.l2 : Render!VniOf(b, x.vlan) \in {{}, {x.vni}}
      /\ \A x \in chg.l3 : Render!L3VniOf(b, x.vrf) \in {{}, {x.vni}}
  BY DEF Accepted, Render!ConflictFree, Render!MappedElsewhere
<1>3. \A x \in chg.l2 : x.svi /\ <<"svi", x.vlan>> \in b =>
        /\ Render!Of(b, "svi", x.vlan, "attrs") = {"ours"}
        /\ x.vrf # "none" => Render!Of(b, "svi", x.vlan, "vrf") = {x.vrf}
  BY DEF Accepted, Render!ConflictFree, Render!SviConflict, Render!VrfDiffers
<1>4. /\ \A x \in chg.l2 : x.named =>
           Render!Of(b, "vlan", x.vlan, "name") \subseteq {"ours"}
      /\ \A x \in chg.l3 : Render!Of(b, "bgp", x.vrf, "maps") \subseteq {"ours"}
      /\ \A x \in chg.l3 : x.vlan # 0 =>
           /\ Render!VniOf(b, x.vlan) \in {{}, {x.vni}}
           /\ <<"svi", x.vlan>> \in b =>
                /\ Render!Of(b, "svi", x.vlan, "forward") = {"ours"}
                /\ Render!Of(b, "svi", x.vlan, "vrf") = {x.vrf}
  BY DEF Accepted, Render!Renderable
<1>5. \A e : e \subseteq {"ours"} => e \in {{}, {"ours"}}
  OBVIOUS
<1> QED
  BY <1>1, <1>2, <1>3, <1>4, <1>5 DEF Render!VniOf, Render!L3VniOf

\* A line of an attribute that has at most its value fits.
LEMMA ValueFits ==
  ASSUME NEW b, Shaped(b), NEW k, NEW y, NEW a, NEW v,
         Render!Of(b, k, y, a) \in {{}, {v}}
  PROVE  Fits(b, k, y, a, v)
<1>1. \A w : <<k, y, a, w>> \in b => w \in Render!Of(b, k, y, a)
  BY OfMember
<1> QED
  BY <1>1 DEF Fits

\* And one of a block that is new, or has that value already, is harmless.
LEMMA ValueThere ==
  ASSUME NEW b, Running(b), NEW chg, NEW k, NEW y, NEW a, NEW v,
         <<k, y>> \in b => Render!Of(b, k, y, a) = {v}
  PROVE  Fits(b, k, y, a, v) /\ Mine(b, chg, k, y, a, v)
<1>1. /\ Shaped(b)
      /\ \A w : <<k, y, a, w>> \in b => <<k, y>> \in b
  BY RunningLines
<1>2. \A w : <<k, y, a, w>> \in b <=> w \in Render!Of(b, k, y, a)
  BY <1>1, OfMember
<1>3. CASE <<k, y>> \in b
  BY <1>2, <1>3 DEF Fits, Mine
<1>4. CASE <<k, y>> \notin b
  BY <1>1, <1>4 DEF Fits, Mine
<1> QED
  BY <1>3, <1>4

\* The lines the renderer knows it adds.
LEMMA AddedLines ==
  ASSUME NEW b, NEW chg, NEW n
  PROVE  n \in Render!NewLines(b, chg) <=>
           \/ \E x \in chg.l2 : /\ <<"vlan", x.vlan>> \in b
                                /\ Render!Of(b, "vlan", x.vlan, "vni") = {}
                                /\ n = <<"vlan", x.vlan, "vni", x.vni>>
           \/ \E x \in chg.l2 : /\ <<"vlan", x.vlan>> \in b /\ x.named
                                /\ Render!Of(b, "vlan", x.vlan, "name") = {}
                                /\ n = <<"vlan", x.vlan, "name", "ours">>
           \/ \E x \in chg.l3 : /\ <<"vlan", x.vlan>> \in b
                                /\ Render!Of(b, "vlan", x.vlan, "vni") = {}
                                /\ n = <<"vlan", x.vlan, "vni", x.vni>>
           \/ \E x \in chg.l3 : /\ n \notin b
                                /\ n \in Render!VrfCommands(x) \cup Render!BgpCommands(x)
<1> DEFINE A == {<<"vlan", x.vlan, "vni", x.vni>> :
                   x \in {y \in chg.l2 : /\ <<"vlan", y.vlan>> \in b
                                         /\ Render!VniOf(b, y.vlan) = {}}}
           B == {<<"vlan", x.vlan, "name", "ours">> :
                   x \in {y \in chg.l2 : /\ <<"vlan", y.vlan>> \in b /\ y.named
                                         /\ Render!Of(b, "vlan", y.vlan, "name") = {}}}
           C == {<<"vlan", x.vlan, "vni", x.vni>> :
                   x \in {y \in chg.l3 : /\ <<"vlan", y.vlan>> \in b
                                         /\ Render!VniOf(b, y.vlan) = {}}}
           D == UNION {Render!VrfCommands(x) \cup Render!BgpCommands(x) : x \in chg.l3}
<1>1. Render!NewLines(b, chg) = A \cup B \cup C \cup (D \ b)
  BY DEF Render!NewLines
<1>2. n \in A <=> \E x \in chg.l2 : /\ <<"vlan", x.vlan>> \in b
                                   /\ Render!Of(b, "vlan", x.vlan, "vni") = {}
                                   /\ n = <<"vlan", x.vlan, "vni", x.vni>>
  BY DEF Render!VniOf
<1>3. n \in B <=> \E x \in chg.l2 : /\ <<"vlan", x.vlan>> \in b /\ x.named
                                   /\ Render!Of(b, "vlan", x.vlan, "name") = {}
                                   /\ n = <<"vlan", x.vlan, "name", "ours">>
  OBVIOUS
<1>4. n \in C <=> \E x \in chg.l3 : /\ <<"vlan", x.vlan>> \in b
                                   /\ Render!Of(b, "vlan", x.vlan, "vni") = {}
                                   /\ n = <<"vlan", x.vlan, "vni", x.vni>>
  BY DEF Render!VniOf
<1>5. n \in D <=>
        \E x \in chg.l3 : n \in Render!VrfCommands(x) \cup Render!BgpCommands(x)
  OBVIOUS
<1> HIDE DEF A, B, C, D
<1> QED
  BY <1>1, <1>2, <1>3, <1>4, <1>5

\* Among them the mapping and the name of a VLAN that had none.
LEMMA AddedToVlan ==
  ASSUME NEW b, NEW chg
  PROVE  /\ \A x \in chg.l2 \cup chg.l3 :
              <<"vlan", x.vlan>> \in b /\ Render!Of(b, "vlan", x.vlan, "vni") = {} =>
                <<"vlan", x.vlan, "vni", x.vni>> \in Render!NewLines(b, chg)
         /\ \A x \in chg.l2 :
              /\ x.named /\ <<"vlan", x.vlan>> \in b
              /\ Render!Of(b, "vlan", x.vlan, "name") = {}
              => <<"vlan", x.vlan, "name", "ours">> \in Render!NewLines(b, chg)
BY DEF Render!NewLines, Render!VniOf

\* A line of a block that is new, or has that value, or gets it with the change.
LEMMA ValueAdded ==
  ASSUME NEW b, Shaped(b), NEW chg, NEW k, NEW y, NEW a, NEW v,
         Render!Of(b, k, y, a) \in {{}, {v}},
         <<k, y>> \in b /\ Render!Of(b, k, y, a) = {} =>
           <<k, y, a, v>> \in Render!NewLines(b, chg)
  PROVE  Fits(b, k, y, a, v) /\ Mine(b, chg, k, y, a, v)
<1>1. Fits(b, k, y, a, v)
  BY ValueFits
<1>2. CASE Render!Of(b, k, y, a) = {v}
  <2>1. <<k, y, a, v>> \in b
    BY <1>2, OfMember
  <2> QED
    BY <1>1, <2>1 DEF Mine
<1>3. CASE Render!Of(b, k, y, a) = {}
  BY <1>1, <1>3 DEF Mine
<1> QED
  BY <1>2, <1>3

\* Every line of the forward configuration goes where it may.
LEMMA SectionsGo ==
  ASSUME NEW b, NEW chg, Accepted(b, chg), NEW i \in 1 .. 5,
         NEW n \in Render!Forward(chg)[i]
  PROVE  Goes(b, chg, n)
<1> DEFINE Place(k, y) == <<k, y>> \in Allowed(b, chg)
           Good(k, y, a, v) == Fits(b, k, y, a, v) /\ Mine(b, chg, k, y, a, v)
<1>1. /\ \A x \in chg.l2 : /\ Place("vlan", x.vlan) /\ Place("nve2", x.vni)
                           /\ Place("evpn", x.vni)
      /\ \A x \in chg.l2 : x.svi => Place("svi", x.vlan)
      /\ \A x \in chg.l3 : /\ Place("vrf", x.vrf) /\ Place("nve3", x.vni)
                           /\ Place("bgp", x.vrf)
      /\ \A x \in chg.l3 : x.vlan # 0 => Place("vlan", x.vlan) /\ Place("svi", x.vlan)
  BY AllowedBlock
<1>2. Running(b) /\ Shaped(b)
  BY AcceptedValues DEF Accepted
<1>5. /\ \A x \in chg.l2 : Good("vlan", x.vlan, "vni", x.vni)
      /\ \A x \in chg.l2 : x.named => Good("vlan", x.vlan, "name", "ours")
      /\ \A x \in chg.l3 : Good("vrf", x.vrf, "vni", x.vni)
      /\ \A x \in chg.l3 : x.vlan # 0 => Good("vlan", x.vlan, "vni", x.vni)
  <2>1. ASSUME NEW x \in chg.l2 PROVE Good("vlan", x.vlan, "vni", x.vni)
    <3>1. Render!Of(b, "vlan", x.vlan, "vni") \in {{}, {x.vni}}
      BY AcceptedValues
    <3>2. <<"vlan", x.vlan>> \in b /\ Render!Of(b, "vlan", x.vlan, "vni") = {} =>
            <<"vlan", x.vlan, "vni", x.vni>> \in Render!NewLines(b, chg)
      BY AddedToVlan
    <3> QED
      BY <1>2, <3>1, <3>2, ValueAdded
  <2>2. ASSUME NEW x \in chg.l2, x.named PROVE Good("vlan", x.vlan, "name", "ours")
    <3>1. Render!Of(b, "vlan", x.vlan, "name") \in {{}, {"ours"}}
      BY <2>2, AcceptedValues
    <3>2. <<"vlan", x.vlan>> \in b /\ Render!Of(b, "vlan", x.vlan, "name") = {} =>
            <<"vlan", x.vlan, "name", "ours">> \in Render!NewLines(b, chg)
      BY <2>2, AddedToVlan
    <3> QED
      BY <1>2, <3>1, <3>2, ValueAdded
  <2>3. ASSUME NEW x \in chg.l3 PROVE Good("vrf", x.vrf, "vni", x.vni)
    <3>1. Render!Of(b, "vrf", x.vrf, "vni") \in {{}, {x.vni}}
      BY AcceptedValues
    <3>2. Fits(b, "vrf", x.vrf, "vni", x.vni)
      BY <1>2, <3>1, ValueFits
    <3> QED
      BY <3>2 DEF Mine
  <2>4. ASSUME NEW x \in chg.l3, x.vlan # 0 PROVE Good("vlan", x.vlan, "vni", x.vni)
    <3>1. Render!Of(b, "vlan", x.vlan, "vni") \in {{}, {x.vni}}
      BY <2>4, AcceptedValues
    <3>2. <<"vlan", x.vlan>> \in b /\ Render!Of(b, "vlan", x.vlan, "vni") = {} =>
            <<"vlan", x.vlan, "vni", x.vni>> \in Render!NewLines(b, chg)
      BY AddedToVlan
    <3> QED
      BY <1>2, <3>1, <3>2, ValueAdded
  <2> QED
    BY <2>1, <2>2, <2>3, <2>4
<1>6. /\ \A x \in chg.l2 : x.svi =>
           /\ Good("svi", x.vlan, "attrs", "ours")
           /\ x.vrf # "none" => Good("svi", x.vlan, "vrf", x.vrf)
      /\ \A x \in chg.l3 : x.vlan # 0 =>
           /\ Good("svi", x.vlan, "forward", "ours") /\ Good("svi", x.vlan, "vrf", x.vrf)
  <2>1. ASSUME NEW x \in chg.l2, x.svi
        PROVE  /\ Good("svi", x.vlan, "attrs", "ours")
               /\ x.vrf # "none" => Good("svi", x.vlan, "vrf", x.vrf)
    <3>1. <<"svi", x.vlan>> \in b =>
            /\ Render!Of(b, "svi", x.vlan, "attrs") = {"ours"}
            /\ x.vrf # "none" => Render!Of(b, "svi", x.vlan, "vrf") = {x.vrf}
      BY <2>1, AcceptedValues
    <3> QED
      BY <1>2, <3>1, ValueThere
  <2>2. ASSUME NEW x \in chg.l3, x.vlan # 0
        PROVE  Good("svi", x.vlan, "forward", "ours") /\ Good("svi", x.vlan, "vrf", x.vrf)
    <3>1. <<"svi", x.vlan>> \in b =>
            /\ Render!Of(b, "svi", x.vlan, "forward") = {"ours"}
            /\ Render!Of(b, "svi", x.vlan, "vrf") = {x.vrf}
      BY <2>2, AcceptedValues
    <3> QED
      BY <1>2, <3>1, ValueThere
  <2> QED
    BY <2>1, <2>2
<1>7. \A y : /\ Good("vrf", y, "rd", "auto") /\ Good("evpn", y, "rd", "auto")
            /\ Good("svi", y, "other", "ours") /\ Good("evpn", y, "rt", "auto")
  BY DEF Fits, Mine, Left, Overwritten, Render!Unowned
<1>8. \A y : Good("vrf", y, "family", "unicast") /\ Good("bgp", y, "family", "unicast")
  <2>1. \A k, y, a, v : <<k, y, a, v>> \in b => Usual(a, v)
    BY <1>2, RunningLines
  <2>2. Left("vrf", "family") /\ Left("bgp", "family")
    BY DEF Left, Render!Unowned
  <2> QED
    BY <2>1, <2>2 DEF Usual, Fits, Mine
<1>9. ASSUME NEW x \in chg.l3
      PROVE  /\ Good("vrf", x.vrf, "rt", "auto") /\ Good("bgp", x.vrf, "advertise", "l2vpn")
             /\ Good("bgp", x.vrf, "maps", "ours")
  <2>1. \A n2 \in Render!VrfCommands(x) \cup Render!BgpCommands(x) :
          n2 \in b \/ n2 \in Render!NewLines(b, chg)
    BY AddedLines
  <2>2. /\ Mine(b, chg, "vrf", x.vrf, "rt", "auto")
        /\ Mine(b, chg, "bgp", x.vrf, "advertise", "l2vpn")
        /\ Mine(b, chg, "bgp", x.vrf, "maps", "ours")
    BY <2>1 DEF Mine, Render!VrfCommands, Render!BgpCommands
  <2>3. Fits(b, "vrf", x.vrf, "rt", "auto")
    BY DEF Fits
  <2>4. Fits(b, "bgp", x.vrf, "advertise", "l2vpn")
    <3>1. \A k, y, a, v : <<k, y, a, v>> \in b => Usual(a, v)
      BY <1>2, RunningLines
    <3> QED
      BY <3>1 DEF Usual, Fits
  <2>5. Fits(b, "bgp", x.vrf, "maps", "ours")
    BY <1>2, AcceptedValues, ValueFits
  <2> QED
    BY <2>2, <2>3, <2>4, <2>5
<1>10. ASSUME NEW k, NEW y, NEW a, NEW v, Place(k, y), Good(k, y, a, v)
       PROVE  Goes(b, chg, <<k, y, a, v>>)
  BY <1>10 DEF Goes
<1>11. ASSUME NEW k, NEW y, Place(k, y)
       PROVE  Goes(b, chg, <<k, y>>)
  BY <1>11 DEF Goes, Block
<1> HIDE DEF Place, Good
<1>12. CASE n \in Render!VrfSection(chg)
  <2>1. ASSUME NEW x \in chg.l3
        PROVE  /\ Goes(b, chg, <<"vrf", x.vrf, "vni", x.vni>>)
               /\ Goes(b, chg, <<"vrf", x.vrf, "rd", "auto">>)
               /\ Goes(b, chg, <<"vrf", x.vrf, "rt", "auto">>)
               /\ Goes(b, chg, <<"vrf", x.vrf, "family", "unicast">>)
    BY <1>1, <1>5, <1>7, <1>8, <1>9, <1>10
  <2>2. ASSUME NEW x \in chg.l3, x.vlan # 0
        PROVE  /\ Goes(b, chg, <<"vlan", x.vlan, "vni", x.vni>>)
               /\ Goes(b, chg, <<"svi", x.vlan, "forward", "ours">>)
               /\ Goes(b, chg, <<"svi", x.vlan, "vrf", x.vrf>>)
               /\ Goes(b, chg, <<"svi", x.vlan, "other", "ours">>)
    BY <1>1, <1>5, <1>6, <1>7, <1>10, <2>2
  <2>3. \/ \E x \in chg.l3 : \/ n = <<"vrf", x.vrf, "vni", x.vni>>
                             \/ n = <<"vrf", x.vrf, "rd", "auto">>
                             \/ n = <<"vrf", x.vrf, "family", "unicast">>
                             \/ n = <<"vrf", x.vrf, "rt", "auto">>
        \/ \E x \in chg.l3 : /\ x.vlan # 0
                             /\ \/ n = <<"vlan", x.vlan, "vni", x.vni>>
                                \/ n = <<"svi", x.vlan, "forward", "ours">>
                                \/ n = <<"svi", x.vlan, "vrf", x.vrf>>
                                \/ n = <<"svi", x.vlan, "other", "ours">>
    BY <1>12, VrfLines
  <2> QED
    BY <2>1, <2>2, <2>3, Zenon
<1>13. CASE n \in Render!VlanSection(chg)
  <2>1. ASSUME NEW x \in chg.l2
        PROVE  /\ Goes(b, chg, <<"vlan", x.vlan, "vni", x.vni>>)
               /\ x.named => Goes(b, chg, <<"vlan", x.vlan, "name", "ours">>)
    BY <1>1, <1>5, <1>10
  <2>2. ASSUME NEW x \in chg.l2, x.svi
        PROVE  /\ Goes(b, chg, <<"svi", x.vlan, "attrs", "ours">>)
               /\ Goes(b, chg, <<"svi", x.vlan, "other", "ours">>)
               /\ x.vrf # "none" => Goes(b, chg, <<"svi", x.vlan, "vrf", x.vrf>>)
    BY <1>1, <1>6, <1>7, <1>10, <2>2
  <2>3. \/ \E x \in chg.l2 : n = <<"vlan", x.vlan, "vni", x.vni>>
        \/ \E x \in chg.l2 : x.named /\ n = <<"vlan", x.vlan, "name", "ours">>
        \/ \E x \in chg.l2 : /\ x.svi
                             /\ \/ n = <<"svi", x.vlan, "attrs", "ours">>
                                \/ n = <<"svi", x.vlan, "other", "ours">>
        \/ \E x \in chg.l2 : x.svi /\ x.vrf # "none" /\ n = <<"svi", x.vlan, "vrf", x.vrf>>
    BY <1>13, VlanLines
  <2> QED
    BY <2>1, <2>2, <2>3, Zenon
<1>14. CASE n \in Render!NveSection(chg)
  <2>1. /\ \A x \in chg.l3 : Goes(b, chg, <<"nve3", x.vni>>)
        /\ \A x \in chg.l2 : Goes(b, chg, <<"nve2", x.vni>>)
    BY <1>1, <1>11
  <2> QED
    BY <1>14, <2>1, OtherLines
<1>15. CASE n \in Render!EvpnSection(chg)
  <2>1. \A x \in chg.l2 : /\ Goes(b, chg, <<"evpn", x.vni, "rd", "auto">>)
                         /\ Goes(b, chg, <<"evpn", x.vni, "rt", "auto">>)
    BY <1>1, <1>7, <1>10
  <2>2. PICK x \in chg.l2 : \/ n = <<"evpn", x.vni, "rd", "auto">>
                            \/ n = <<"evpn", x.vni, "rt", "auto">>
    BY <1>15, OtherLines
  <2> QED
    BY <2>1, <2>2, Zenon
<1>16. CASE n \in Render!BgpSection(chg)
  <2>1. ASSUME NEW x \in chg.l3
        PROVE  /\ Goes(b, chg, <<"bgp", x.vrf, "advertise", "l2vpn">>)
               /\ Goes(b, chg, <<"bgp", x.vrf, "maps", "ours">>)
               /\ Goes(b, chg, <<"bgp", x.vrf, "family", "unicast">>)
    BY <1>1, <1>8, <1>9, <1>10
  <2>2. PICK x \in chg.l3 : \/ n = <<"bgp", x.vrf, "advertise", "l2vpn">>
                            \/ n = <<"bgp", x.vrf, "maps", "ours">>
                            \/ n = <<"bgp", x.vrf, "family", "unicast">>
    BY <1>16, OtherLines
  <2> QED
    BY <2>1, <2>2, Zenon
<1> QED
  BY <1>12, <1>13, <1>14, <1>15, <1>16, Sections

\* The one value an attribute has.
Value(c, k, y, a, want) == \A v : <<k, y, a, v>> \in c <=> v = want

\* What a section has for the attributes the evaluation looks at.
LEMMA SectionValues ==
  ASSUME NEW chg, ~Render!DuplicateDesired(chg)
  PROVE  /\ \A x \in chg.l3 : Value(Render!VrfSection(chg), "vrf", x.vrf, "vni", x.vni)
         /\ \A x \in chg.l2 :
              /\ Value(Render!VlanSection(chg), "vlan", x.vlan, "vni", x.vni)
              /\ x.named => Value(Render!VlanSection(chg), "vlan", x.vlan, "name", "ours")
              /\ x.svi => Value(Render!VlanSection(chg), "svi", x.vlan, "attrs", "ours")
              /\ x.svi /\ x.vrf # "none" =>
                   Value(Render!VlanSection(chg), "svi", x.vlan, "vrf", x.vrf)
         /\ \A y, a, v : <<"vrf", y, a, v>> \notin Render!VlanSection(chg)
         /\ \A s \in {Render!NveSection(chg), Render!EvpnSection(chg),
                      Render!BgpSection(chg)} : \A y, a, v :
              /\ <<"vrf", y, a, v>> \notin s /\ <<"vlan", y, a, v>> \notin s
              /\ <<"svi", y, a, v>> \notin s
         /\ \A x \in chg.l2 : <<"nve2", x.vni>> \in Render!NveSection(chg)
         /\ \A x \in chg.l3 : <<"nve3", x.vni>> \in Render!NveSection(chg)
<1>1. ASSUME NEW x \in chg.l3
      PROVE  Value(Render!VrfSection(chg), "vrf", x.vrf, "vni", x.vni)
  <2>1. \A v : <<"vrf", x.vrf, "vni", v>> \in Render!VrfSection(chg) <=>
          \E z \in chg.l3 : z.vrf = x.vrf /\ v = z.vni
    BY VrfLines
  <2> QED
    BY <2>1 DEF Render!DuplicateDesired, Value
<1>2. ASSUME NEW x \in chg.l2
      PROVE  Value(Render!VlanSection(chg), "vlan", x.vlan, "vni", x.vni)
  <2>1. \A v : <<"vlan", x.vlan, "vni", v>> \in Render!VlanSection(chg) <=>
          \E z \in chg.l2 : z.vlan = x.vlan /\ v = z.vni
    BY VlanLines
  <2> QED
    BY <2>1 DEF Render!DuplicateDesired, Value
<1>3. ASSUME NEW x \in chg.l2
      PROVE  /\ x.named => Value(Render!VlanSection(chg), "vlan", x.vlan, "name", "ours")
             /\ x.svi => Value(Render!VlanSection(chg), "svi", x.vlan, "attrs", "ours")
  BY VlanLines DEF Value
<1>10. ASSUME NEW x \in chg.l2, x.svi, x.vrf # "none"
       PROVE  Value(Render!VlanSection(chg), "svi", x.vlan, "vrf", x.vrf)
  <2>1. \A v : <<"svi", x.vlan, "vrf", v>> \in Render!VlanSection(chg) <=>
          \E z \in chg.l2 : z.svi /\ z.vrf # "none" /\ z.vlan = x.vlan /\ v = z.vrf
    BY VlanLines
  <2>2. \A z \in chg.l2 : z.vlan = x.vlan => z = x
    BY DEF Render!DuplicateDesired
  <2> QED
    BY <1>10, <2>1, <2>2 DEF Value
<1>4. ASSUME NEW y, NEW a, NEW v
      PROVE  /\ <<"vrf", y, a, v>> \notin Render!VlanSection(chg)
             /\ <<"vrf", y, a, v>> \notin Render!NveSection(chg)
             /\ <<"vrf", y, a, v>> \notin Render!EvpnSection(chg)
             /\ <<"vrf", y, a, v>> \notin Render!BgpSection(chg)
  BY VlanLines, OtherLines, Tuples
<1>5. ASSUME NEW y, NEW a, NEW v
      PROVE  /\ <<"vlan", y, a, v>> \notin Render!NveSection(chg)
             /\ <<"vlan", y, a, v>> \notin Render!EvpnSection(chg)
             /\ <<"vlan", y, a, v>> \notin Render!BgpSection(chg)
  BY OtherLines, Tuples
<1>6. ASSUME NEW y, NEW a, NEW v
      PROVE  /\ <<"svi", y, a, v>> \notin Render!NveSection(chg)
             /\ <<"svi", y, a, v>> \notin Render!EvpnSection(chg)
             /\ <<"svi", y, a, v>> \notin Render!BgpSection(chg)
  BY OtherLines, Tuples
<1>7. /\ \A x \in chg.l2 : <<"nve2", x.vni>> \in Render!NveSection(chg)
      /\ \A x \in chg.l3 : <<"nve3", x.vni>> \in Render!NveSection(chg)
  BY OtherLines
<1>8. ASSUME NEW s \in {Render!NveSection(chg), Render!EvpnSection(chg),
                         Render!BgpSection(chg)},
             NEW y, NEW a, NEW v
      PROVE  /\ <<"vrf", y, a, v>> \notin s /\ <<"vlan", y, a, v>> \notin s
             /\ <<"svi", y, a, v>> \notin s
  BY <1>4, <1>5, <1>6
<1>9. \A y, a, v : <<"vrf", y, a, v>> \notin Render!VlanSection(chg)
  BY <1>4
<1> QED
  BY <1>1, <1>2, <1>3, <1>7, <1>8, <1>9, <1>10, Zenon

\* How far the sections have come.
Reached(c, chg, n) ==
  /\ n >= 1 => \A x \in chg.l3 : Value(c, "vrf", x.vrf, "vni", x.vni)
  /\ n >= 2 => \A x \in chg.l2 : /\ Value(c, "vlan", x.vlan, "vni", x.vni)
                                 /\ x.named => Value(c, "vlan", x.vlan, "name", "ours")
                                 /\ x.svi => Value(c, "svi", x.vlan, "attrs", "ours")
                                 /\ x.svi /\ x.vrf # "none" =>
                                      Value(c, "svi", x.vlan, "vrf", x.vrf)
  /\ n >= 3 => /\ \A x \in chg.l2 : <<"nve2", x.vni>> \in c
               /\ \A x \in chg.l3 : <<"nve3", x.vni>> \in c

\* A configuration between the plan and its end: no block is lost, no line but of what
\* may be replaced; what is new is the change's, or is left as it is.
Between(b, chg, c) ==
  /\ Shaped(c)
  /\ \A k, y : <<k, y>> \in b => <<k, y>> \in c
  /\ \A k, y : <<k, y>> \in c => <<k, y>> \in Allowed(b, chg)
  /\ \A k, y, a, v : <<k, y, a, v>> \in b => <<k, y, a, v>> \in c \/ Overwritten(k, a)
  /\ \A k, y, a, v : <<k, y, a, v>> \in c =>
       <<k, y>> \in Allowed(b, chg) /\ Mine(b, chg, k, y, a, v)

\* What the device has while a plan is carried out.
PlanInv ==
  /\ Accepted(rendered, change) /\ sent \in 0 .. 5
  /\ Between(rendered, change, config)
  /\ Reached(config, change, sent)

\* Before, during and after.
RenderInv ==
  /\ stage = "idle" => sent = 0
  /\ stage = "planned" => PlanInv
  /\ Render!RollbackScoped

\* One more section keeps all that.
LEMMA SectionKeeps ==
  ASSUME NEW b, NEW chg, Accepted(b, chg), NEW c, Between(b, chg, c),
         NEW n \in 0 .. 4, Reached(c, chg, n),
         NEW d, d = Render!Configure(c, Render!Forward(chg)[n + 1])
  PROVE  Between(b, chg, d) /\ Reached(d, chg, n + 1)
<1> DEFINE lines == Render!Forward(chg)[n + 1]
<1>1. \A l \in lines : Goes(b, chg, l)
  BY SectionsGo
<1>2. Shaped(lines)
  <2>1. ASSUME NEW l \in lines PROVE Block(l) \/ Line(l)
    <3>1. Goes(b, chg, l)
      BY <1>1
    <3>2. Block(l) \/ \E k, y, a, v : l = <<k, y, a, v>>
      BY <3>1, Zenon DEF Goes
    <3> QED
      BY <3>2 DEF Line
  <2> QED
    BY <2>1 DEF Shaped
<1> HIDE DEF lines
<1>3. d = Render!Configure(c, lines)
  BY DEF lines
<1>4. /\ Shaped(d)
      /\ \A k, y : <<k, y>> \in d <=>
           \/ <<k, y>> \in c \cup lines
           \/ \E a, v : <<k, y, a, v>> \in lines
      /\ \A k, y, a, v : <<k, y, a, v>> \in d <=>
           \/ <<k, y, a, v>> \in lines
           \/ /\ <<k, y, a, v>> \in c
              /\ a = "rt" \/ ~\E w : <<k, y, a, w>> \in lines
  <2>0. Shaped(c)
    BY DEF Between
  <2>1. /\ Shaped(Render!Configure(c, lines))
        /\ \A k, y : <<k, y>> \in Render!Configure(c, lines) <=>
             \/ <<k, y>> \in c \cup lines
             \/ \E a, v : <<k, y, a, v>> \in lines
        /\ \A k, y, a, v : <<k, y, a, v>> \in Render!Configure(c, lines) <=>
             \/ <<k, y, a, v>> \in lines
             \/ /\ <<k, y, a, v>> \in c
                /\ a = "rt" \/ ~\E w : <<k, y, a, w>> \in lines
    BY <1>2, <2>0, ConfigureMember, Zenon
  <2> QED
    BY <1>3, <2>1, Zenon
<1>5. /\ \A k, y : <<k, y>> \in lines => <<k, y>> \in Allowed(b, chg)
      /\ \A k, y, a, v : <<k, y, a, v>> \in lines =>
           /\ <<k, y>> \in Allowed(b, chg)
           /\ Fits(b, k, y, a, v) /\ Mine(b, chg, k, y, a, v)
  <2>1. ASSUME NEW k, NEW y, <<k, y>> \in lines PROVE <<k, y>> \in Allowed(b, chg)
    BY <1>1, <2>1, Tuples DEF Goes
  <2>2. ASSUME NEW k, NEW y, NEW a, NEW v, <<k, y, a, v>> \in lines
        PROVE  /\ <<k, y>> \in Allowed(b, chg)
               /\ Fits(b, k, y, a, v) /\ Mine(b, chg, k, y, a, v)
    <3>1. ~Block(<<k, y, a, v>>)
      BY Tuples DEF Block
    <3>2. PICK k1, y1, a1, v1 :
            /\ <<k, y, a, v>> = <<k1, y1, a1, v1>> /\ <<k1, y1>> \in Allowed(b, chg)
            /\ Fits(b, k1, y1, a1, v1) /\ Mine(b, chg, k1, y1, a1, v1)
      BY <1>1, <2>2, <3>1 DEF Goes
    <3>3. k1 = k /\ y1 = y /\ a1 = a /\ v1 = v
      BY <3>2
    <3> QED
      BY <3>2, <3>3
  <2> QED
    BY <2>1, <2>2
<1>6. ASSUME NEW k, NEW y, NEW a, NEW v, <<k, y, a, v>> \in b
      PROVE  <<k, y, a, v>> \in d \/ Overwritten(k, a)
  <2>1. <<k, y, a, v>> \in c \/ Overwritten(k, a)
    BY <1>6 DEF Between
  <2>2. ASSUME NEW w, <<k, y, a, w>> \in lines
        PROVE  a = "rt" \/ Overwritten(k, a) \/ w = v
    BY <1>5, <1>6, <2>2 DEF Fits
  <2> QED
    BY <1>4, <2>1, <2>2
<1>7. Between(b, chg, d)
  <2>1. ASSUME NEW k, NEW y, <<k, y>> \in b PROVE <<k, y>> \in d
    BY <1>4, <2>1 DEF Between
  <2>2. ASSUME NEW k, NEW y, <<k, y>> \in d PROVE <<k, y>> \in Allowed(b, chg)
    BY <1>4, <1>5, <2>2 DEF Between
  <2>3. ASSUME NEW k, NEW y, NEW a, NEW v, <<k, y, a, v>> \in d
        PROVE  <<k, y>> \in Allowed(b, chg) /\ Mine(b, chg, k, y, a, v)
    BY <1>4, <1>5, <2>3 DEF Between
  <2> QED
    BY <1>4, <1>6, <2>1, <2>2, <2>3 DEF Between
<1>8. Reached(d, chg, n + 1)
  <2>1. ~Render!DuplicateDesired(chg)
    BY DEF Accepted, Render!ConflictFree
  <2>2. ASSUME NEW k, NEW y, NEW a, NEW want, Value(c, k, y, a, want),
               \A v : <<k, y, a, v>> \notin lines
        PROVE  Value(d, k, y, a, want)
    BY <1>4, <2>2 DEF Value
  <2>3. ASSUME NEW k, NEW y, NEW a, NEW want, Value(lines, k, y, a, want), a # "rt"
        PROVE  Value(d, k, y, a, want)
    BY <1>4, <2>3 DEF Value
  <2>4. CASE n = 0
    <3>1. \A x \in chg.l3 : Value(lines, "vrf", x.vrf, "vni", x.vni)
      <4>1. lines = Render!VrfSection(chg)
        BY <2>4, Sections DEF lines
      <4> QED
        BY <2>1, <4>1, SectionValues DEF Value
    <3> QED
      BY <2>3, <2>4, <3>1 DEF Reached
  <2>5. CASE n = 1
    <3>0. lines = Render!VlanSection(chg)
      BY <2>5, Sections DEF lines
    <3>1. \A x \in chg.l2 : /\ Value(lines, "vlan", x.vlan, "vni", x.vni)
                            /\ x.named => Value(lines, "vlan", x.vlan, "name", "ours")
                            /\ x.svi => Value(lines, "svi", x.vlan, "attrs", "ours")
                            /\ x.svi /\ x.vrf # "none" =>
                                 Value(lines, "svi", x.vlan, "vrf", x.vrf)
      BY <2>1, <3>0, SectionValues DEF Value
    <3>2. \A y, a, v : <<"vrf", y, a, v>> \notin lines
      BY <2>1, <3>0, SectionValues
    <3>3. \A x \in chg.l3 : Value(c, "vrf", x.vrf, "vni", x.vni)
      BY <2>5 DEF Reached
    <3> QED
      BY <2>2, <2>3, <2>5, <3>1, <3>2, <3>3 DEF Reached
  <2>6. CASE n \in 2 .. 4
    <3>1. \A y, a, v : /\ <<"vrf", y, a, v>> \notin lines
                       /\ <<"vlan", y, a, v>> \notin lines
                       /\ <<"svi", y, a, v>> \notin lines
      <4>1. lines \in {Render!NveSection(chg), Render!EvpnSection(chg),
                       Render!BgpSection(chg)}
        BY <2>6, Sections DEF lines
      <4> QED
        BY <2>1, <4>1, SectionValues
    <3>2. /\ \A x \in chg.l3 : Value(c, "vrf", x.vrf, "vni", x.vni)
          /\ \A x \in chg.l2 : /\ Value(c, "vlan", x.vlan, "vni", x.vni)
                               /\ x.named => Value(c, "vlan", x.vlan, "name", "ours")
                               /\ x.svi => Value(c, "svi", x.vlan, "attrs", "ours")
                               /\ x.svi /\ x.vrf # "none" =>
                                    Value(c, "svi", x.vlan, "vrf", x.vrf)
      BY <2>6 DEF Reached
    <3>3. /\ \A x \in chg.l3 : Value(d, "vrf", x.vrf, "vni", x.vni)
          /\ \A x \in chg.l2 : /\ Value(d, "vlan", x.vlan, "vni", x.vni)
                               /\ x.named => Value(d, "vlan", x.vlan, "name", "ours")
                               /\ x.svi => Value(d, "svi", x.vlan, "attrs", "ours")
                               /\ x.svi /\ x.vrf # "none" =>
                                    Value(d, "svi", x.vlan, "vrf", x.vrf)
      BY <2>2, <3>1, <3>2
    <3>4. /\ \A x \in chg.l2 : <<"nve2", x.vni>> \in c \cup lines
          /\ \A x \in chg.l3 : <<"nve3", x.vni>> \in c \cup lines
      <4>1. CASE n = 2
        <5>1. lines = Render!NveSection(chg)
          BY <4>1, Sections DEF lines
        <5> QED
          BY <2>1, <5>1, SectionValues
      <4>2. CASE n >= 3
        BY <4>2 DEF Reached
      <4> QED
        BY <2>6, <4>1, <4>2
    <3>5. /\ \A x \in chg.l2 : <<"nve2", x.vni>> \in d
          /\ \A x \in chg.l3 : <<"nve3", x.vni>> \in d
      BY <1>4, <3>4
    <3> QED
      BY <2>6, <3>3, <3>5 DEF Reached
  <2> QED
    BY <2>4, <2>5, <2>6
<1> QED
  BY <1>7, <1>8

\* The blocks and lines of a configuration left over by the rollback.
LEMMA Remains ==
  ASSUME NEW b, NEW chg, Accepted(b, chg), NEW c, Between(b, chg, c),
         NEW d, d = Render!Without(c, Render!Removed(b, chg))
  PROVE  /\ Render!Blocks(d) = Render!Blocks(b)
         /\ \A l \in d \ b : Render!OfUnowned(l)
         /\ \A l \in b \ d :
              Render!OfUnowned(l) \/ (Len(l) = 4 /\ l[1] = "vrf" /\ l[3] = "vni")
<1>1. /\ Shaped(b) /\ Shaped(c)
      /\ \A k, y, a, v : <<k, y, a, v>> \in b => <<k, y>> \in b
  BY RunningLines DEF Accepted, Between
<1>2. \A k, y, a, v : v \in Render!Of(b, k, y, a) <=> <<k, y, a, v>> \in b
  BY <1>1, OfMember
<1>3. ASSUME NEW n \in Render!NewLines(b, chg) PROVE n \notin b /\ Line(n)
  <2>1. CASE \E x \in chg.l2 : /\ n = <<"vlan", x.vlan, "vni", x.vni>>
                               /\ Render!Of(b, "vlan", x.vlan, "vni") = {}
    BY <1>2, <2>1 DEF Line
  <2>2. CASE \E x \in chg.l2 : /\ n = <<"vlan", x.vlan, "name", "ours">>
                               /\ Render!Of(b, "vlan", x.vlan, "name") = {}
    BY <1>2, <2>2 DEF Line
  <2>3. CASE \E x \in chg.l3 : /\ n = <<"vlan", x.vlan, "vni", x.vni>>
                               /\ Render!Of(b, "vlan", x.vlan, "vni") = {}
    BY <1>2, <2>3 DEF Line
  <2>4. CASE /\ n \notin b
             /\ \E x \in chg.l3 : n \in Render!VrfCommands(x) \cup Render!BgpCommands(x)
    BY <2>4 DEF Render!VrfCommands, Render!BgpCommands, Line
  <2>5. \/ \E x \in chg.l2 : /\ <<"vlan", x.vlan>> \in b
                             /\ Render!Of(b, "vlan", x.vlan, "vni") = {}
                             /\ n = <<"vlan", x.vlan, "vni", x.vni>>
        \/ \E x \in chg.l2 : /\ <<"vlan", x.vlan>> \in b /\ x.named
                             /\ Render!Of(b, "vlan", x.vlan, "name") = {}
                             /\ n = <<"vlan", x.vlan, "name", "ours">>
        \/ \E x \in chg.l3 : /\ <<"vlan", x.vlan>> \in b
                             /\ Render!Of(b, "vlan", x.vlan, "vni") = {}
                             /\ n = <<"vlan", x.vlan, "vni", x.vni>>
        \/ \E x \in chg.l3 : /\ n \notin b
                             /\ n \in Render!VrfCommands(x) \cup Render!BgpCommands(x)
    BY <1>3, AddedLines
  <2> QED
    BY <2>1, <2>2, <2>3, <2>4, <2>5, Zenon
<1>4. \A n \in Render!NewBlocks(b, chg) : n \notin b
  BY DEF Render!NewBlocks
<1> DEFINE Unmapped == {<<"vrf", x.vrf, "vni", x.vni>> :
                          x \in {y \in chg.l3 : <<"vrf", y.vrf>> \in b}}
<1>5. \A l : l \in d <=> /\ l \in c /\ <<l[1], l[2]>> \notin Render!NewBlocks(b, chg)
                         /\ l \notin Render!NewLines(b, chg) /\ l \notin Unmapped
  BY DEF Render!Without, Render!Removed
<1>6. \A l \in Unmapped : Line(l) /\ Len(l) = 4 /\ l[1] = "vrf" /\ l[3] = "vni"
  <2>1. ASSUME NEW l \in Unmapped
        PROVE  Line(l) /\ Len(l) = 4 /\ l[1] = "vrf" /\ l[3] = "vni"
    <3>1. PICK x \in chg.l3 : l = <<"vrf", x.vrf, "vni", x.vni>>
      OBVIOUS
    <3> QED
      BY <3>1 DEF Line
  <2> QED
    BY <2>1
<1>13. \A x \in chg.l3 :
         <<"vrf", x.vrf>> \in b => <<"vrf", x.vrf, "vni", x.vni>> \in Unmapped
  OBVIOUS
<1> HIDE DEF Unmapped
<1>7. \A k, y : ~Line(<<k, y>>)
  BY Tuples DEF Line
<1>14. \A k, y : <<k, y>> \in Allowed(b, chg) =>
                   <<k, y>> \in b \cup Render!NewBlocks(b, chg)
  BY DEF Allowed, Render!Blocks
<1>8. ASSUME NEW k, NEW y
      PROVE  <<k, y>> \in d <=> <<k, y>> \in b
  <2>1. <<k, y>> \in d <=> <<k, y>> \in c /\ <<k, y>> \notin Render!NewBlocks(b, chg)
    BY <1>3, <1>5, <1>6, <1>7, Tuples
  <2>2. /\ <<k, y>> \in b => <<k, y>> \in c
        /\ <<k, y>> \in c => <<k, y>> \in Allowed(b, chg)
    BY DEF Between
  <2> QED
    BY <1>4, <1>14, <2>1, <2>2
<1>9. \A e : Shaped(e) => \A l : l \in Render!Blocks(e) <=> l \in e /\ Block(l)
  BY Tuples DEF Shaped, Render!Blocks, Block, Line
<1>10. Shaped(d)
  BY <1>1, <1>5 DEF Shaped
<1>11. Render!Blocks(d) = Render!Blocks(b)
  <2>1. ASSUME NEW l PROVE l \in Render!Blocks(d) <=> l \in Render!Blocks(b)
    <3>1. Block(l) => (l \in d <=> l \in b)
      BY <1>8 DEF Block
    <3> QED
      BY <1>1, <1>9, <1>10, <3>1
  <2> QED
    BY <2>1
<1>15. \A k, y, a, v : Left(k, a) => Render!OfUnowned(<<k, y, a, v>>)
  BY Tuples DEF Left, Render!OfUnowned
<1>12. ASSUME NEW l \in b, l \notin d
       PROVE  Render!OfUnowned(l) \/ (Len(l) = 4 /\ l[1] = "vrf" /\ l[3] = "vni")
  <2>1. Line(l)
    BY <1>1, <1>8, <1>12 DEF Shaped, Block
  <2>2. PICK k, y, a, v : l = <<k, y, a, v>>
    BY <2>1 DEF Line
  <2>3. CASE l \in c
    <3>1. <<l[1], l[2]>> \notin Render!NewBlocks(b, chg)
      BY <1>1, <1>4, <2>2, Tuples
    <3>2. l \in Unmapped
      BY <1>3, <1>5, <1>12, <2>3, <3>1
    <3> QED
      BY <1>6, <3>2
  <2>4. CASE l \notin c
    <3>1. Overwritten(k, a)
      BY <2>2, <2>4, <1>12 DEF Between
    <3>2. Left(k, a)
      BY <3>1 DEF Overwritten, Left, Render!Unowned
    <3> QED
      BY <1>15, <2>2, <3>2
  <2> QED
    BY <2>3, <2>4
<1>16. ASSUME NEW l \in d, l \notin b PROVE Render!OfUnowned(l)
  <2>1. Line(l)
    BY <1>8, <1>10, <1>16 DEF Shaped, Block
  <2>2. PICK k, y, a, v : l = <<k, y, a, v>>
    BY <2>1 DEF Line
  <2>3. <<k, y, a, v>> \in c /\ <<k, y>> \notin Render!NewBlocks(b, chg)
    BY <1>5, <1>16, <2>2, Tuples
  <2>4. <<k, y>> \in Allowed(b, chg) /\ Mine(b, chg, k, y, a, v)
    BY <2>3 DEF Between
  <2>5. <<k, y>> \in b
    BY <1>14, <2>3, <2>4
  <2>6. CASE \E x \in chg.l3 : <<k, y, a, v>> = <<"vrf", x.vrf, "vni", x.vni>>
    <3>1. PICK x \in chg.l3 : <<k, y, a, v>> = <<"vrf", x.vrf, "vni", x.vni>>
      BY <2>6
    <3>2. k = "vrf" /\ y = x.vrf
      BY <3>1
    <3>3. l \in Unmapped
      BY <1>13, <2>2, <2>5, <3>1, <3>2
    <3> QED
      BY <1>5, <1>16, <3>3
  <2>7. CASE Left(k, a)
    BY <1>15, <2>2, <2>7
  <2>8. <<k, y, a, v>> \notin Render!NewLines(b, chg)
    BY <1>5, <1>16, <2>2
  <2> QED
    BY <1>16, <2>2, <2>4, <2>5, <2>6, <2>7, <2>8 DEF Mine
<1> QED
  BY <1>11, <1>12, <1>16

\* Nothing is planned at first.
LEMMA RenderInit == Render!Init => RenderInv
BY DEF Render!Init, RenderInv, Render!RollbackScoped

\* A plan is accepted for a running-config; a section goes where it may; the rollback takes
\* what the change created.
LEMMA RenderStep == RenderInv /\ [Render!Next]_(Render!vars) => RenderInv'
<1> SUFFICES ASSUME RenderInv, [Render!Next]_(Render!vars) PROVE RenderInv'
  OBVIOUS
<1>1. ASSUME NEW chg \in Render!ChangeSets, NEW c \in Render!Configurations(chg),
             stage = "idle", Render!Plan(c, chg)
      PROVE  RenderInv'
  <2>1. Running(c)
    BY ConfigurationsRun
  <2>3. /\ stage' = "planned" /\ rendered' = c /\ config' = c /\ change' = chg
        /\ sent' = 0
    BY <1>1 DEF Render!Plan, RenderInv
  <2>4. Accepted(c, chg)
    BY <1>1, <2>1 DEF Accepted, Render!Plan
  <2>5. /\ Shaped(c)
        /\ \A k, y, a, v : <<k, y, a, v>> \in c => <<k, y>> \in c
    BY <2>1, RunningLines
  <2>6. \A k, y : <<k, y>> \in c => <<k, y>> \in Allowed(c, chg)
    BY Tuples DEF Allowed, Render!Blocks
  <2>2. Between(c, chg, c)
    BY <2>5, <2>6 DEF Between, Mine
  <2>7. Reached(c, chg, 0)
    BY DEF Reached
  <2>8. PlanInv'
    BY <2>2, <2>3, <2>4, <2>7 DEF PlanInv
  <2> QED
    BY <2>3, <2>8 DEF RenderInv, Render!RollbackScoped
<1>2. CASE Render!SendSection
  <2>1. /\ stage = "planned" /\ sent < Len(Render!Forward(change))
        /\ config' = Render!Configure(config, Render!Forward(change)[sent + 1])
        /\ sent' = sent + 1 /\ stage' = stage /\ rendered' = rendered /\ change' = change
    BY <1>2 DEF Render!SendSection
  <2>2. PlanInv
    BY <2>1 DEF RenderInv
  <2>3. sent \in 0 .. 4
    BY <2>1, <2>2, Sections DEF PlanInv
  <2>4. Between(rendered, change, config') /\ Reached(config', change, sent + 1)
    BY <2>1, <2>2, <2>3, SectionKeeps DEF PlanInv
  <2>5. Accepted(rendered, change) /\ sent + 1 \in 0 .. 5
    BY <2>2, <2>3 DEF PlanInv
  <2>6. PlanInv'
    BY <2>1, <2>4, <2>5 DEF PlanInv
  <2> QED
    BY <2>1, <2>6 DEF RenderInv, Render!RollbackScoped
<1>3. CASE Render!Rollback
  <2>1. /\ stage = "planned" /\ stage' = "restored"
        /\ config' = Render!Without(config, Render!Removed(rendered, change))
        /\ rendered' = rendered /\ change' = change /\ sent' = sent
    BY <1>3 DEF Render!Rollback
  <2>2. PlanInv
    BY <2>1 DEF RenderInv
  <2>3. /\ Render!Blocks(config') = Render!Blocks(rendered)
        /\ \A l \in config' \ rendered : Render!OfUnowned(l)
        /\ \A l \in rendered \ config' :
             Render!OfUnowned(l) \/ (Len(l) = 4 /\ l[1] = "vrf" /\ l[3] = "vni")
    BY <2>1, <2>2, Remains DEF PlanInv
  <2> QED
    BY <2>1, <2>3 DEF RenderInv, Render!RollbackScoped
<1>4. CASE UNCHANGED Render!vars
  <2>1. /\ stage' = stage /\ rendered' = rendered /\ change' = change /\ config' = config
        /\ sent' = sent
    BY <1>4 DEF Render!vars
  <2>2. PlanInv' <=> PlanInv
    BY <2>1 DEF PlanInv
  <2> QED
    BY <2>1, <2>2 DEF RenderInv, Render!RollbackScoped
<1> QED
  BY <1>1, <1>2, <1>3, <1>4 DEF Render!Next

\* So the three properties hold of every plan, wherever its apply stopped.
LEMMA RenderProperties ==
  RenderInv =>
    Render!RollbackScoped /\ Render!ForwardKeepsCompared /\ Render!AppliedIsConfigured
<1> SUFFICES ASSUME RenderInv
             PROVE  Render!ForwardKeepsCompared /\ Render!AppliedIsConfigured
  BY DEF RenderInv
<1>1. Render!ForwardKeepsCompared
  <2> SUFFICES ASSUME stage = "planned", NEW l \in rendered, l \notin config
               PROVE  Len(l) = 4 /\ Overwritten(l[1], l[3])
    BY DEF Render!ForwardKeepsCompared, Overwritten
  <2>1. Between(rendered, change, config) /\ Shaped(rendered)
    BY AcceptedValues DEF RenderInv, PlanInv
  <2>2. PICK k, y, a, v : l = <<k, y, a, v>>
    BY <2>1 DEF Shaped, Block, Line, Between
  <2>3. Overwritten(k, a)
    BY <2>1, <2>2 DEF Between
  <2> QED
    BY <2>2, <2>3, Tuples
<1>2. ASSUME stage = "planned", sent = Len(Render!Forward(change))
      PROVE  /\ \A x \in change.l2 :
                  Render!L2Configured(config, x) \/ Render!VrfUnstated(config, x)
             /\ \A x \in change.l3 : Render!L3Configured(config, x)
  <2>1. Shaped(config) /\ Reached(config, change, 5)
    BY <1>2, Sections DEF RenderInv, PlanInv, Between
  <2>2. ASSUME NEW k, NEW y, NEW a, NEW want, Value(config, k, y, a, want)
        PROVE  Render!Of(config, k, y, a) = {want}
    BY <2>1, <2>2, OfMember DEF Value
  <2>3. ASSUME NEW x \in change.l2, ~Render!VrfUnstated(config, x)
        PROVE  Render!L2Configured(config, x)
    <3>1. /\ Value(config, "vlan", x.vlan, "vni", x.vni) /\ <<"nve2", x.vni>> \in config
          /\ x.named => Value(config, "vlan", x.vlan, "name", "ours")
          /\ x.svi => Value(config, "svi", x.vlan, "attrs", "ours")
          /\ x.svi /\ x.vrf # "none" => Value(config, "svi", x.vlan, "vrf", x.vrf)
      BY <2>1 DEF Reached
    <3>2. Render!VniOf(config, x.vlan) = {x.vni}
      BY <2>2, <3>1 DEF Render!VniOf
    <3>3. x.named => Render!Of(config, "vlan", x.vlan, "name") = {"ours"}
      BY <2>2, <3>1
    <3>4. ASSUME x.svi
          PROVE  /\ Render!Of(config, "svi", x.vlan, "attrs") = {"ours"}
                 /\ Render!Of(config, "svi", x.vlan, "vrf") = {x.vrf} \ {"none"}
      <4>1. Render!Of(config, "svi", x.vlan, "attrs") = {"ours"}
        BY <2>2, <3>1, <3>4
      <4>2. CASE x.vrf = "none"
        <5>1. Render!Of(config, "svi", x.vlan, "vrf") = {}
          BY <2>3, <3>4, <4>2 DEF Render!VrfUnstated
        <5> QED
          BY <4>1, <4>2, <5>1
      <4>3. CASE x.vrf # "none"
        <5>1. Render!Of(config, "svi", x.vlan, "vrf") = {x.vrf}
          BY <2>2, <3>1, <3>4, <4>3
        <5> QED
          BY <4>1, <4>3, <5>1
      <4> QED
        BY <4>2, <4>3
    <3> QED
      BY <3>1, <3>2, <3>3, <3>4 DEF Render!L2Configured
  <2>4. ASSUME NEW x \in change.l3 PROVE Render!L3Configured(config, x)
    <3>1. Value(config, "vrf", x.vrf, "vni", x.vni) /\ <<"nve3", x.vni>> \in config
      BY <2>1 DEF Reached
    <3> QED
      BY <2>2, <3>1 DEF Render!L3Configured, Render!L3VniOf
  <2> QED
    BY <2>3, <2>4
<1> QED
  BY <1>1, <1>2 DEF Render!AppliedIsConfigured

\* The workbench steps of the plan are its own, or leave it alone.
LEMMA RenderInvariant == Spec => []RenderInv
<1>1. Init => RenderInv
  BY RenderInit DEF Init
<1>2. [Next]_vars => [Render!Next]_(Render!vars)
  BY DEF Next, vars, renderVars, Render!vars
<1>3. RenderInv /\ [Render!Next]_(Render!vars) => RenderInv'
  BY RenderStep
<1> QED
  BY <1>1, <1>2, <1>3, PTL DEF Spec

\* The rollback configuration of nxos_overlay_rollback_config.j2 leaves no block behind and
\* takes none that was there, whatever the VLANs, VNIs and VRFs, wherever the apply stopped;
\* of their lines only the RDs, route targets and other attributes nothing compares differ
\* after it, and the L3VNI of a VRF is gone.
THEOREM RollbackTakesItsOwn == Spec => []RollbackScoped
<1>1. RenderInv => RollbackScoped
  BY RenderProperties DEF RollbackScoped
<1> QED
  BY <1>1, RenderInvariant, PTL

\* No section of nxos_overlay_forward_config.j2 replaces a line of the running-config that
\* assess_overlay_conflicts and render_changeset accepted the plan for, but RDs and what an
\* SVI has besides, which neither of them compares.
THEOREM AcceptedPlansAdd == Spec => []ForwardKeepsCompared
<1>1. RenderInv => ForwardKeepsCompared
  BY RenderProperties DEF ForwardKeepsCompared
<1> QED
  BY <1>1, RenderInvariant, PTL

\* evaluate_overlay_change finds every resource of a plan that was sent whole configured,
\* but an SVI for which the plan states no VRF and the device has one.
THEOREM AppliedPlansPass == Spec => []AppliedIsConfigured
<1>1. RenderInv => AppliedIsConfigured
  BY RenderProperties DEF AppliedIsConfigured
<1> QED
  BY <1>1, RenderInvariant, PTL
-----------------------------------------------------------------------------
(* The types                                                               *)

\* Whatever tool is used, and for as many hosts, packages, routes and faults as there are,
\* every variable of it has the values its module gives it.
THEOREM TypesCorrect == Spec => []TypeOK
<1>1. QualifyProved!Spec => []QualifyProved!TypeOK
  BY QualifyProved!TypeCorrect, WorkbenchAssumption DEF QualifyProved!Bounds
<1>2. QualifyProved!TypeOK => Qualify!TypeOK
  BY DEF Qualify!TypeOK, QualifyProved!TypeOK, Qualify!Hosts, QualifyProved!Hosts,
         Qualify!Config, QualifyProved!Config, Qualify!Snapshot, QualifyProved!Snapshot,
         Qualify!Missing, QualifyProved!Missing, Qualify!Results, QualifyProved!Results,
         Qualify!WORKFLOW_STATES, QualifyProved!WORKFLOW_STATES
<1>3. LabProved!Spec => []LabProved!TypeOK
  BY LabProved!TypeCorrect, WorkbenchAssumption
<1>4. LabProved!TypeOK => Lab!TypeOK
  BY DEF Lab!TypeOK, LabProved!TypeOK, Lab!FleetTypeOK, LabProved!FleetTypeOK, Lab!Hosts,
         LabProved!Hosts, Lab!Config, LabProved!Config
<1>5. EvidenceProved!Spec => []EvidenceProved!TypeOK
  BY EvidenceProved!TypeCorrect, WorkbenchAssumption DEF EvidenceProved!Bounds
<1>6. EvidenceProved!TypeOK => Evidence!TypeOK
  BY DEF Evidence!TypeOK, EvidenceProved!TypeOK, Evidence!Packages,
         EvidenceProved!Packages, Evidence!None, EvidenceProved!None, Evidence!Stages,
         EvidenceProved!Stages
<1>7. CollectInv => Snap!TypeOK
  BY DEF CollectInv
<1>8. ASSUME Qualify!TypeOK, Lab!TypeOK, Evidence!TypeOK, Health!TypeOK, Routing!TypeOK,
             Snap!TypeOK
      PROVE  TypeOK
  BY <1>8 DEF TypeOK
<1> QED
  BY <1>1, <1>2, <1>3, <1>4, <1>5, <1>6, <1>7, <1>8, QualifyImplemented, LabImplemented,
     EvidenceImplemented, RoutingInvariant, RoutingTyped, CompareInvariant, CompareTyped,
     CollectInvariant, PTL
=============================================================================
