---------------------------- MODULE OperationStore ----------------------------
(***************************************************************************)
(* One Operation on disk (alred/operation.py): the lock file that          *)
(* serialises the alred processes working on it, and the two documents     *)
(* every transition rewrites one after the other, execution.json first and *)
(* metadata.yaml second.  A process may be killed, fail or be interrupted  *)
(* by a signal between any two of its file operations; a lock file left    *)
(* behind is never removed by alred, only by the operator.                 *)
(***************************************************************************)
EXTENDS OperationStates

CONSTANTS
  Procs,           \* the alred processes that may run at the same time
  Inodes,          \* the inode numbers the file system hands out
  None,            \* Python's None, and the absent lock file
  Gone,            \* stands for the owner of a lock file whose process died
  Purpose,         \* metadata.spec.purpose of this Operation
  Targets,         \* the transitions the commands of this instance request
  ForcedRemoval,   \* may the operator remove the lock of a live process?
  ReuseInodes      \* may a new lock file get an inode a process remembers?

Scopes == {"operation", "workflow", "phase"}

AllStates == OPERATION_STATES \cup WORKFLOW_STATES \cup PHASE_STATES

ASSUME ProcsAssumption == None \notin Procs /\ Gone \notin Procs
ASSUME InodesAssumption ==
  None \notin Inodes \cup [inode : Inodes, owner : Procs \cup {Gone}]
ASSUME PurposeAssumption ==
  Purpose \in {"change", "inspection", "initial_lab_qualification"}
ASSUME TargetsAssumption ==
  Targets \subseteq [scope : Scopes, to : AllStates]
ASSUME ForcedRemovalAssumption == ForcedRemoval \in BOOLEAN
ASSUME ReuseInodesAssumption == ReuseInodes \in BOOLEAN

VARIABLES
  \* the files
  lockFile,   \* None, or the lock file: its inode and (ghost) its owner
  meta,       \* metadata.yaml: the current state of each scope
  exec,       \* execution.json: its copy of the states, and its errors
  forced,     \* ghost: has the lock of a live process ever been removed?
  \* the processes
  pc,         \* where each process is in the file operations
  held,       \* OperationLock._inode (at "opened": that of the descriptor)
  guard,      \* the OperationInterruptGuard in place: none, plain or phase
  started,    \* OperationInterruptGuard.device_commands_started
  handling,   \* is the signal handler running?
  pending,    \* the scopes the handler has yet to transition
  op,         \* the transition being applied
  base        \* the two documents as the transition loaded them

files == <<lockFile, meta, exec, forced>>
procs == <<pc, held, guard, started, handling, pending, op, base>>
vars == <<lockFile, meta, exec, forced, pc, held, guard, started, handling,
          pending, op, base>>

\* The table of a scope, and the states of a scope.
Table(sc) ==
  IF sc = "operation" THEN OPERATION_TRANSITIONS
  ELSE IF sc = "workflow" THEN WORKFLOW_TRANSITIONS ELSE PHASE_TRANSITIONS

StatesOf(sc) ==
  IF sc = "operation" THEN OPERATION_STATES
  ELSE IF sc = "workflow" THEN WORKFLOW_STATES ELSE PHASE_STATES

\* The current state by scope, as both documents keep it.
Meta == {m \in [Scopes -> AllStates] : \A sc \in Scopes : m[sc] \in StatesOf(sc)}
Ops == {o \in [scope : Scopes, to : AllStates] : o.to \in StatesOf(o.scope)}
Errors == {"DEVICE_STATE_UNKNOWN", "CANCELLED_BEFORE_APPLY"}

InitialMeta ==
  [sc \in Scopes |-> IF sc = "operation" THEN "created"
                    ELSE IF sc = "workflow" THEN "none" ELSE "not_started"]
InitialExec == [states |-> InitialMeta, errors |-> {}]
NoOp == [scope |-> "operation", to |-> "created"]
NoBase == [meta |-> InitialMeta, exec |-> InitialExec]

Init ==
  /\ lockFile = None
  /\ meta = InitialMeta
  /\ exec = InitialExec
  /\ forced = FALSE
  /\ pc = [p \in Procs |-> "idle"]
  /\ held = [p \in Procs |-> None]
  /\ guard = [p \in Procs |-> "none"]
  /\ started = [p \in Procs |-> FALSE]
  /\ handling = [p \in Procs |-> FALSE]
  /\ pending = [p \in Procs |-> {}]
  /\ op = [p \in Procs |-> NoOp]
  /\ base = [p \in Procs |-> NoBase]

-----------------------------------------------------------------------------
(* The lock: OperationLock                                                 *)

\* MUTANT of AssertHeld: a lock file at lock_path is taken for one's own.
AssertSomeHeld(p) == held[p] # None /\ lockFile # None

\* assert_held passes: the file at lock_path has the inode acquire() recorded.
AssertHeld(p) ==
  held[p] # None /\ lockFile # None /\ lockFile.inode = held[p]

\* The process is over: all it knew is forgotten.
Forget(p) ==
  /\ pc' = [pc EXCEPT ![p] = "idle"]
  /\ held' = [held EXCEPT ![p] = None]
  /\ guard' = [guard EXCEPT ![p] = "none"]
  /\ started' = [started EXCEPT ![p] = FALSE]
  /\ handling' = [handling EXCEPT ![p] = FALSE]
  /\ pending' = [pending EXCEPT ![p] = {}]
  /\ op' = [op EXCEPT ![p] = NoOp]
  /\ base' = [base EXCEPT ![p] = NoBase]

\* The inodes a new lock file may get: none an open descriptor refers to, but
\* the inode of a removed lock whose descriptor is closed is free again.
FreeInodes ==
  Inodes \ {held[q] : q \in {r \in Procs : pc[r] = "opened" \/ ~ReuseInodes}}

\* MUTANT of OpenLock: without O_EXCL an existing lock file is replaced.
OpenLockAnyway(p) ==
  /\ pc[p] = "idle"
  /\ \E i \in FreeInodes :
       /\ lockFile' = [inode |-> i, owner |-> p]
       /\ held' = [held EXCEPT ![p] = i]
  /\ pc' = [pc EXCEPT ![p] = "opened"]
  /\ UNCHANGED <<meta, exec, forced, guard, started, handling, pending, op,
                 base>>

\* os.open(O_CREAT | O_EXCL): the file must not exist.
OpenLock(p) ==
  /\ pc[p] = "idle"
  /\ lockFile = None
  /\ \E i \in FreeInodes :
       /\ lockFile' = [inode |-> i, owner |-> p]
       /\ held' = [held EXCEPT ![p] = i]
  /\ pc' = [pc EXCEPT ![p] = "opened"]
  /\ UNCHANGED <<meta, exec, forced, guard, started, handling, pending, op,
                 base>>

\* The document is written and synced, the inode taken by fstat from the
\* descriptor, the descriptor closed and the guard, if any, entered.
RecordInode(p) ==
  /\ pc[p] = "opened"
  /\ \E g \in {"none", "plain", "phase"} : guard' = [guard EXCEPT ![p] = g]
  /\ pc' = [pc EXCEPT ![p] = "held"]
  /\ UNCHANGED <<files, held, started, handling, pending, op, base>>

\* Writing the lock document fails: the file is unlinked by its path.
AcquireFails(p) ==
  /\ pc[p] = "opened"
  /\ lockFile' = None
  /\ Forget(p)
  /\ UNCHANGED <<meta, exec, forced>>

\* The process ends without running the code that would release the lock: it
\* is killed at any point, or KeyboardInterrupt hits acquire(), whose handler
\* is for Exception only.
Crash(p) ==
  /\ pc[p] # "idle"
  /\ lockFile' = IF lockFile # None /\ lockFile.owner = p
                 THEN [inode |-> lockFile.inode, owner |-> Gone]
                 ELSE lockFile
  /\ Forget(p)
  /\ UNCHANGED <<meta, exec, forced>>

\* The with block is left, normally, by an error or by KeyboardInterrupt:
\* release() unlinks the file if it is still the one acquired, else raises.
Release(p) ==
  /\ pc[p] \in {"held", "loaded", "written"}
  /\ lockFile' = IF AssertHeld(p) THEN None ELSE lockFile
  /\ Forget(p)
  /\ UNCHANGED <<meta, exec, forced>>

\* The operator reconciles a stale lock, or takes the lock of a process still
\* at work for one; alred itself never removes a lock it did not create.
RemoveLock ==
  /\ lockFile # None
  /\ lockFile.owner = Gone \/ ForcedRemoval
  /\ lockFile' = None
  /\ forced' = (forced \/ lockFile.owner # Gone)
  /\ UNCHANGED <<meta, exec, procs>>

-----------------------------------------------------------------------------
(* One transition: transition_operation, transition_phase and              *)
(* transition_workflow load both documents, check the request against      *)
(* metadata.yaml, then replace execution.json and metadata.yaml in turn.   *)

\* allow_inspection_retry, and allow_retry with a new attempt id.
Retry(m, sc, to) ==
  /\ to = "running"
  /\ \/ /\ sc = "operation"
        /\ Purpose = "inspection"
        /\ m["workflow"] = "none"
        /\ m["operation"] \in {"completed", "completed_with_warnings"}
     \/ sc = "phase" /\ m["phase"] \in RETRYABLE_PHASE_STATES

\* MUTANT of Legal: a transition is applied without consulting the table.
LegalAlways(m, sc, to) == TRUE

\* What the table allows, or a retry.
Legal(m, sc, to) == <<m[sc], to>> \in Table(sc) \/ Retry(m, sc, to)

\* The checks and the two loads.
Load(p, sc, to) ==
  /\ pc[p] = "held"
  /\ AssertHeld(p)
  /\ Legal(meta, sc, to)
  /\ op' = [op EXCEPT ![p] = [scope |-> sc, to |-> to]]
  /\ base' = [base EXCEPT ![p] = [meta |-> meta, exec |-> exec]]
  /\ pc' = [pc EXCEPT ![p] = "loaded"]

\* A transition requested by the command itself.
Transition(p) ==
  /\ ~handling[p]
  /\ \E t \in Targets : Load(p, t.scope, t.to)
  /\ UNCHANGED <<files, held, guard, started, handling, pending>>

\* atomic_write_json(execution_path): the loaded document with the new state.
WriteExecution(p) ==
  /\ pc[p] = "loaded"
  /\ exec' = [states |-> [base[p].exec.states EXCEPT ![op[p].scope] = op[p].to],
              errors |-> base[p].exec.errors]
  /\ pc' = [pc EXCEPT ![p] = "written"]
  /\ UNCHANGED <<lockFile, meta, forced, held, guard, started, handling,
                 pending, op, base>>

\* MUTANT of WriteMetadata: every state is written as the lifecycle.
WriteMetadataLifecycle(p) ==
  /\ pc[p] = "written"
  /\ meta' = [base[p].meta EXCEPT !["operation"] = op[p].to]
  /\ pc' = [pc EXCEPT ![p] = "held"]
  /\ pending' = [pending EXCEPT ![p] = @ \ {op[p].scope}]
  /\ op' = [op EXCEPT ![p] = NoOp]
  /\ base' = [base EXCEPT ![p] = NoBase]
  /\ UNCHANGED <<lockFile, exec, forced, held, guard, started, handling>>

\* atomic_write_yaml(metadata_path): the loaded document with the new state.
WriteMetadata(p) ==
  /\ pc[p] = "written"
  /\ meta' = [base[p].meta EXCEPT ![op[p].scope] = op[p].to]
  /\ pc' = [pc EXCEPT ![p] = "held"]
  /\ pending' = [pending EXCEPT ![p] = @ \ {op[p].scope}]
  /\ op' = [op EXCEPT ![p] = NoOp]
  /\ base' = [base EXCEPT ![p] = NoBase]
  /\ UNCHANGED <<lockFile, exec, forced, held, guard, started, handling>>

-----------------------------------------------------------------------------
(* Interruption: OperationInterruptGuard                                   *)

\* before_commands: the first device command follows the workflow transition.
MarkStarted(p) ==
  /\ pc[p] = "held" /\ ~handling[p]
  /\ guard[p] # "none"
  /\ meta["workflow"] \in {"apply_running", "rollback_running", "save_running",
                       "qualification_save_running"}
  /\ started' = [started EXCEPT ![p] = TRUE]
  /\ UNCHANGED <<files, pc, held, guard, handling, pending, op, base>>

\* MUTANT of ToSettle: a command that has sent nothing settles a running
\* lifecycle only.
ToSettleRunning(p) ==
  IF started[p]
  THEN (IF meta["workflow"] \in {"apply_running", "rollback_running"}
        THEN {"workflow"} ELSE {})
       \cup (IF meta["operation"] = "running" THEN {"operation"} ELSE {})
  ELSE (IF guard[p] = "phase" /\ meta["phase"] \in {"running", "waiting_for_user"}
        THEN {"phase"} ELSE {})
       \cup (IF meta["operation"] = "running" THEN {"operation"} ELSE {})

\* What _handle decides to transition from the metadata it reads on entry.
ToSettle(p) ==
  IF started[p]
  THEN (IF meta["workflow"] \in {"apply_running", "rollback_running"}
        THEN {"workflow"} ELSE {})
       \cup (IF meta["operation"] = "running" THEN {"operation"} ELSE {})
  ELSE (IF guard[p] = "phase" /\ meta["phase"] \in {"running", "waiting_for_user"}
        THEN {"phase"} ELSE {})
       \cup (IF meta["operation"] \in CLOSABLE_OPERATION_STATES
             THEN {"operation"} ELSE {})

\* SIGINT or SIGTERM under the guard, between any two file operations, the
\* handler's own included: the transition in progress is abandoned.
Signal(p) ==
  /\ pc[p] \in {"held", "loaded", "written"}
  /\ guard[p] # "none"
  /\ handling' = [handling EXCEPT ![p] = TRUE]
  /\ pending' = [pending EXCEPT ![p] = ToSettle(p)]
  /\ pc' = [pc EXCEPT ![p] = "held"]
  /\ op' = [op EXCEPT ![p] = NoOp]
  /\ base' = [base EXCEPT ![p] = NoBase]
  /\ UNCHANGED <<files, held, guard, started>>

\* The state the handler moves a scope to.
SettleTo(p, sc) ==
  IF sc = "workflow"
  THEN IF meta["workflow"] = "rollback_running"
       THEN "rollback_required" ELSE "device_state_unknown"
  ELSE IF sc = "operation" /\ started[p] THEN "state_unknown" ELSE "cancelled"

\* The handler transitions workflow and phase before the lifecycle.
Settle(p) ==
  /\ handling[p]
  /\ \E sc \in pending[p] :
       /\ sc = "operation" => pending[p] = {"operation"}
       /\ Load(p, sc, SettleTo(p, sc))
  /\ UNCHANGED <<files, held, guard, started, handling, pending>>

\* record_operation_error, then KeyboardInterrupt leaves the with block.  A
\* lock that is gone makes assert_held raise before the error is written.
EndHandler(p) ==
  /\ handling[p] /\ pc[p] = "held" /\ pending[p] = {}
  /\ IF AssertHeld(p)
     THEN /\ exec' = [states |-> exec.states,
                     errors |-> exec.errors \cup
                        {IF started[p] THEN "DEVICE_STATE_UNKNOWN"
                                       ELSE "CANCELLED_BEFORE_APPLY"}]
          /\ lockFile' = None
     ELSE UNCHANGED <<exec, lockFile>>
  /\ Forget(p)
  /\ UNCHANGED <<meta, forced>>

Next ==
  \/ RemoveLock
  \/ \E p \in Procs :
       \/ OpenLock(p) \/ RecordInode(p) \/ AcquireFails(p) \/ Crash(p)
       \/ Release(p) \/ Transition(p) \/ WriteExecution(p) \/ WriteMetadata(p)
       \/ MarkStarted(p) \/ Signal(p) \/ Settle(p) \/ EndHandler(p)

Spec == Init /\ [][Next]_vars

-----------------------------------------------------------------------------
(* Properties.  Those that rest on the lock say what it gives as long as   *)
(* the operator has taken it from no live process.                         *)

\* Every variable has its type.
TypeOK ==
  /\ lockFile \in [inode : Inodes, owner : Procs \cup {Gone}] \cup {None}
  /\ meta \in Meta
  /\ exec \in [states : Meta, errors : SUBSET Errors]
  /\ forced \in BOOLEAN
  /\ pc \in [Procs -> {"idle", "opened", "held", "loaded", "written"}]
  /\ held \in [Procs -> Inodes \cup {None}]
  /\ guard \in [Procs -> {"none", "plain", "phase"}]
  /\ started \in [Procs -> BOOLEAN]
  /\ handling \in [Procs -> BOOLEAN]
  /\ pending \in [Procs -> SUBSET Scopes]
  /\ op \in [Procs -> Ops]
  /\ base \in [Procs -> [meta : Meta,
                         exec : [states : Meta, errors : SUBSET Errors]]]

\* At most one process at a time is between creating the lock file and
\* releasing it: "only one mutating operation at a time for a change id".
LockExclusive ==
  ~forced => \A p, q \in Procs : pc[p] # "idle" /\ pc[q] # "idle" => p = q

\* The read-modify-write of the two documents loses no update: until its
\* metadata.yaml is written, the metadata a transition loaded is current, and
\* until its execution.json is written, so is the execution record.
NoLostUpdate ==
  ~forced =>
    \A p \in Procs :
      /\ pc[p] \in {"loaded", "written"} => base[p].meta = meta
      /\ pc[p] = "loaded" => base[p].exec = exec

\* Whatever crash, failure or signal separated the two writes, execution.json
\* is at most one legal transition of that scope ahead of metadata.yaml.
ExecutionAheadByOneStep ==
  ~forced =>
    \A sc \in Scopes :
      \/ exec.states[sc] = meta[sc]
      \/ <<meta[sc], exec.states[sc]>> \in Table(sc)
      \/ exec.states[sc] = "running" /\ sc # "workflow"

\* A handler that has run to its end left no state that claims the work is
\* still going on: with commands sent the workflow is no longer in a running
\* device phase and the lifecycle not running; with none sent it is final.
InterruptSettled ==
  ~forced =>
    \A p \in Procs :
      handling[p] /\ pc[p] = "held" /\ pending[p] = {} =>
        IF started[p]
        THEN /\ meta["workflow"] \notin {"apply_running", "rollback_running"}
             /\ meta["operation"] # "running"
        ELSE meta["operation"] \in TERMINAL_STATES

\* A terminal lifecycle in metadata.yaml is final, but for an inspection
\* whose before phase is retried (transition_operation, inspection_retry).
TerminalIsFinal ==
  [][~forced /\ meta["operation"] \in TERMINAL_STATES =>
       \/ meta'["operation"] = meta["operation"]
       \/ Purpose = "inspection" /\ meta["workflow"] = "none"
            /\ meta'["operation"] = "running"]_vars

\* Errors recorded in execution.json are never lost to a later write
\* (record_operation_error: "without replacing earlier failures").
ErrorsKept == [][~forced => exec.errors \subseteq exec'.errors]_vars

\* A process whose lock was taken from it and replaced by another's notices:
\* assert_held ("was replaced while held") passes, and a transition starts,
\* only for the process whose lock file is at lock_path.
ReplacementDetected ==
  \A p \in Procs : AssertHeld(p) => lockFile.owner = p
=============================================================================
