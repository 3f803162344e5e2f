------------------------ MODULE OperationStoreProofs ------------------------
(***************************************************************************)
(* Proofs about OperationStore, for any number of processes, any set of    *)
(* inodes and any set of requested transitions.                            *)
(***************************************************************************)
EXTENDS OperationStore, TLAPS

\* What a process that is not idle knows about the lock file, and what an
\* idle one has forgotten.
LockInv ==
  \A p \in Procs :
    IF pc[p] = "idle"
    THEN ~handling[p] /\ held[p] = None
    ELSE /\ lockFile # None
         /\ lockFile.owner = p
         /\ lockFile.inode = held[p]

\* The transition in progress was legal when its documents were loaded, and
\* after the first write execution.json shows its target.
TransitionInv ==
  \A p \in Procs :
    /\ pc[p] \in {"loaded", "written"} =>
         Legal(base[p].meta, op[p].scope, op[p].to)
    /\ pc[p] = "written" => exec.states[op[p].scope] = op[p].to

\* What the signal handler still has to do for the metadata it found.
HandlerInv ==
  \A p \in Procs :
    handling[p] =>
      /\ pc[p] \in {"held", "loaded", "written"}
      /\ IF started[p]
         THEN /\ meta["workflow"] \in {"apply_running", "rollback_running"} =>
                   "workflow" \in pending[p]
              /\ meta["operation"] = "running" => "operation" \in pending[p]
         ELSE meta["operation"] \in CLOSABLE_OPERATION_STATES =>
                "operation" \in pending[p]
      /\ pc[p] \in {"loaded", "written"} =>
           /\ op[p].scope = "operation" =>
                op[p].to \in {"state_unknown", "cancelled"}
           /\ op[p].scope = "workflow" =>
                op[p].to \in {"rollback_required", "device_state_unknown"}

\* All of it holds until the lock of a live process is removed.
IInv ==
  /\ TypeOK
  /\ ~forced =>
       /\ LockInv
       /\ NoLostUpdate
       /\ TransitionInv
       /\ ExecutionAheadByOneStep
       /\ HandlerInv

-----------------------------------------------------------------------------

\* Every table relates states of its scope.
LEMMA OperationTable ==
  OPERATION_TRANSITIONS \subseteq OPERATION_STATES \X OPERATION_STATES
BY DEF OPERATION_TRANSITIONS, OPERATION_STATES, TERMINAL_STATES

\* Phases move between the states of a phase.
LEMMA PhaseTable == PHASE_TRANSITIONS \subseteq PHASE_STATES \X PHASE_STATES
BY DEF PHASE_TRANSITIONS, PHASE_STATES, RETRYABLE_PHASE_STATES

\* A workflow moves between the states of a workflow.
LEMMA WorkflowTable ==
  WORKFLOW_TRANSITIONS \subseteq WORKFLOW_STATES \X WORKFLOW_STATES
BY DEF WORKFLOW_TRANSITIONS, WORKFLOW_STATES

\* Every table is a relation on the states of its scope.
LEMMA TableTypes ==
  \A sc \in Scopes : /\ Table(sc) \subseteq StatesOf(sc) \X StatesOf(sc)
                    /\ StatesOf(sc) \subseteq AllStates
BY OperationTable, PhaseTable, WorkflowTable
DEF StatesOf, Table, Scopes, AllStates

\* A legal transition goes to a state of its scope, by the table or as a retry.
LEMMA LegalTypes ==
  ASSUME NEW m \in Meta, NEW sc \in Scopes, NEW to, Legal(m, sc, to)
  PROVE  /\ to \in StatesOf(sc)
         /\ \/ <<m[sc], to>> \in Table(sc)
            \/ to = "running" /\ sc # "workflow"
BY TableTypes DEF Legal, Retry, Meta, StatesOf, OPERATION_STATES, PHASE_STATES

-----------------------------------------------------------------------------
(* Type correctness                                                        *)

\* The values a process that has ended is reset to are well typed.
LEMMA DefaultTypes ==
  /\ NoOp \in Ops
  /\ NoBase \in [meta : Meta, exec : [states : Meta, errors : SUBSET Errors]]
<1>1. NoOp \in Ops
  BY DEF NoOp, Ops, Scopes, StatesOf, AllStates, OPERATION_STATES
<1>2. InitialMeta \in Meta
  BY DEF Meta, InitialMeta, Scopes, StatesOf, AllStates, OPERATION_STATES,
    WORKFLOW_STATES, PHASE_STATES
<1> QED
  BY <1>1, <1>2 DEF NoBase, InitialExec

\* The types hold in the beginning.
LEMMA InitTypes == Init => TypeOK
<1> SUFFICES ASSUME Init PROVE TypeOK
  OBVIOUS
<1>1. forced \in BOOLEAN
  BY DEF Init
<1>2. meta \in Meta /\ exec \in [states : Meta, errors : SUBSET Errors]
  BY DEF Init, InitialExec, InitialMeta, Meta, Scopes, StatesOf, AllStates,
    OPERATION_STATES, WORKFLOW_STATES, PHASE_STATES
<1> QED
  BY <1>1, <1>2, DefaultTypes DEF Init, TypeOK

\* A process that ends is left with well-typed values.
LEMMA ForgetTypes ==
  ASSUME TypeOK, NEW p \in Procs, Forget(p)
  PROVE  /\ pc' \in [Procs -> {"idle", "opened", "held", "loaded", "written"}]
         /\ held' \in [Procs -> Inodes \cup {None}]
         /\ guard' \in [Procs -> {"none", "plain", "phase"}]
         /\ started' \in [Procs -> BOOLEAN]
         /\ handling' \in [Procs -> BOOLEAN]
         /\ pending' \in [Procs -> SUBSET Scopes]
         /\ op' \in [Procs -> Ops]
         /\ base' \in [Procs -> [meta : Meta,
                                exec : [states : Meta, errors : SUBSET Errors]]]
BY DefaultTypes DEF TypeOK, Forget

\* A legal transition of a document's states yields a document's states.
LEMMA UpdateTypes ==
  ASSUME NEW m \in Meta, NEW sc \in Scopes, NEW to \in StatesOf(sc)
  PROVE  [m EXCEPT ![sc] = to] \in Meta
BY TableTypes DEF Meta

\* The handler and the commands load legal transitions.
LEMMA LoadTypes ==
  ASSUME TypeOK, NEW p \in Procs, NEW sc \in Scopes, NEW to, Load(p, sc, to)
  PROVE  /\ pc' \in [Procs -> {"idle", "opened", "held", "loaded", "written"}]
         /\ op' \in [Procs -> Ops]
         /\ base' \in [Procs -> [meta : Meta,
                                exec : [states : Meta, errors : SUBSET Errors]]]
<1>1. [scope |-> sc, to |-> to] \in Ops
  BY LegalTypes, TableTypes DEF Load, TypeOK, Ops
<1> QED
  BY <1>1 DEF Load, TypeOK

\* The handler's targets are states of their scope.
LEMMA SettleTypes ==
  ASSUME NEW p \in Procs, NEW sc \in Scopes
  PROVE  SettleTo(p, sc) \in StatesOf(sc)
BY DEF SettleTo, Scopes, StatesOf, OPERATION_STATES, WORKFLOW_STATES,
  PHASE_STATES

\* Every step keeps the types.
LEMMA NextTypes == TypeOK /\ [Next]_vars => TypeOK'
<1> SUFFICES ASSUME TypeOK, [Next]_vars PROVE TypeOK'
  OBVIOUS
<1>1. CASE RemoveLock
  BY <1>1 DEF TypeOK, RemoveLock, procs
<1>2. ASSUME NEW p \in Procs, OpenLock(p) PROVE TypeOK'
  BY <1>2 DEF TypeOK, OpenLock, FreeInodes
<1>3. ASSUME NEW p \in Procs, RecordInode(p) PROVE TypeOK'
  BY <1>3 DEF TypeOK, RecordInode, files
<1>4. ASSUME NEW p \in Procs, AcquireFails(p) PROVE TypeOK'
  BY <1>4, ForgetTypes DEF TypeOK, AcquireFails
<1>5. ASSUME NEW p \in Procs, Crash(p) PROVE TypeOK'
  BY <1>5, ForgetTypes DEF TypeOK, Crash
<1>6. ASSUME NEW p \in Procs, Release(p) PROVE TypeOK'
  BY <1>6, ForgetTypes DEF TypeOK, Release
<1>7. ASSUME NEW p \in Procs, Transition(p) PROVE TypeOK'
  <2>1. PICK t \in Targets : Load(p, t.scope, t.to)
    BY <1>7 DEF Transition
  <2>2. t.scope \in Scopes
    BY TargetsAssumption
  <2> QED
    BY <1>7, <2>1, <2>2, LoadTypes DEF TypeOK, Transition, files
<1>8. ASSUME NEW p \in Procs, WriteExecution(p) PROVE TypeOK'
  <2>1. /\ base[p].exec.states \in Meta
        /\ op[p].scope \in Scopes
        /\ op[p].to \in StatesOf(op[p].scope)
        /\ base[p].exec.errors \in SUBSET Errors
    BY DEF TypeOK, Ops
  <2>2. exec' \in [states : Meta, errors : SUBSET Errors]
    BY <1>8, <2>1, UpdateTypes DEF WriteExecution
  <2> QED
    BY <1>8, <2>2 DEF TypeOK, WriteExecution
<1>9. ASSUME NEW p \in Procs, WriteMetadata(p) PROVE TypeOK'
  <2>1. /\ base[p].meta \in Meta
        /\ op[p].scope \in Scopes
        /\ op[p].to \in StatesOf(op[p].scope)
    BY DEF TypeOK, Ops
  <2>2. meta' \in Meta
    BY <1>9, <2>1, UpdateTypes DEF WriteMetadata
  <2> QED
    BY <1>9, <2>2, DefaultTypes DEF TypeOK, WriteMetadata
<1>10. ASSUME NEW p \in Procs, MarkStarted(p) PROVE TypeOK'
  BY <1>10 DEF TypeOK, MarkStarted, files
<1>11. ASSUME NEW p \in Procs, Signal(p) PROVE TypeOK'
  <2>2. ToSettle(p) \in SUBSET Scopes
    BY DEF ToSettle, Scopes
  <2> QED
    BY <1>11, <2>2, DefaultTypes DEF TypeOK, Signal, files
<1>12. ASSUME NEW p \in Procs, Settle(p) PROVE TypeOK'
  <2>1. PICK sc \in pending[p] : Load(p, sc, SettleTo(p, sc))
    BY <1>12 DEF Settle
  <2>2. sc \in Scopes
    BY <2>1 DEF TypeOK
  <2> QED
    BY <1>12, <2>1, <2>2, LoadTypes DEF TypeOK, Settle, files
<1>13. ASSUME NEW p \in Procs, EndHandler(p) PROVE TypeOK'
  <2>1. exec' \in [states : Meta, errors : SUBSET Errors]
    BY <1>13 DEF TypeOK, EndHandler, Errors
  <2>2. lockFile' \in [inode : Inodes, owner : Procs \cup {Gone}] \cup {None}
    BY <1>13 DEF TypeOK, EndHandler
  <2> QED
    BY <1>13, <2>1, <2>2, ForgetTypes DEF TypeOK, EndHandler
<1>14. CASE UNCHANGED vars
  BY <1>14 DEF TypeOK, vars
<1> QED
  BY <1>1, <1>2, <1>3, <1>4, <1>5, <1>6, <1>7, <1>8, <1>9, <1>10, <1>11,
    <1>12, <1>13, <1>14 DEF Next

\* Type correctness: every variable keeps to the states the schema of the two
\* documents allows, whatever the interleaving and with forced removal too.
THEOREM TypeCorrect == Spec => []TypeOK
  BY InitTypes, NextTypes, PTL DEF Spec

-----------------------------------------------------------------------------
(* The inductive invariant                                                 *)

\* Only one process is ever under way.
LEMMA Alone ==
  ASSUME LockInv, NEW p \in Procs, pc[p] # "idle"
  PROVE  \A q \in Procs : pc[q] # "idle" => q = p
BY DEF LockInv

\* The inductive invariant holds in the beginning.
LEMMA InitIInv == Init => IInv
<1> SUFFICES ASSUME Init PROVE IInv
  OBVIOUS
<1>1. TypeOK
  BY InitTypes
<1>2. LockInv /\ NoLostUpdate /\ TransitionInv /\ HandlerInv
  BY DEF Init, LockInv, NoLostUpdate, TransitionInv, HandlerInv
<1>3. ExecutionAheadByOneStep
  BY DEF Init, ExecutionAheadByOneStep, InitialExec
<1> QED
  BY <1>1, <1>2, <1>3 DEF IInv

\* When the process under way ends, every process is idle.
LEMMA ForgetInv ==
  ASSUME IInv, ~forced, NEW p \in Procs, pc[p] # "idle", Forget(p)
  PROVE  LockInv' /\ NoLostUpdate' /\ TransitionInv' /\ HandlerInv'
<1>1. \A q \in Procs : pc'[q] = "idle" /\ ~handling'[q] /\ held'[q] = None
  BY Alone DEF IInv, LockInv, TypeOK, Forget
<1> QED
  BY <1>1 DEF LockInv, NoLostUpdate, TransitionInv, HandlerInv

\* Loading a legal transition keeps the invariant.
LEMMA LoadInv ==
  ASSUME IInv, ~forced, NEW p \in Procs, NEW sc \in Scopes, NEW to,
         Load(p, sc, to),
         UNCHANGED <<files, held, guard, started, handling, pending>>,
         handling[p] => /\ sc = "operation" => to \in {"state_unknown", "cancelled"}
                        /\ sc = "workflow" =>
                             to \in {"rollback_required", "device_state_unknown"}
  PROVE  LockInv' /\ NoLostUpdate' /\ TransitionInv'
           /\ ExecutionAheadByOneStep' /\ HandlerInv'
<1>0. pc[p] = "held" /\ \A q \in Procs : pc[q] # "idle" => q = p
  BY Alone DEF IInv, Load
<1>1. LockInv'
  BY <1>0 DEF IInv, TypeOK, LockInv, Load, files
<1>2. NoLostUpdate'
  BY <1>0 DEF IInv, TypeOK, NoLostUpdate, Load, files
<1>3. TransitionInv'
  BY <1>0 DEF IInv, TypeOK, TransitionInv, Load, Legal, Retry, files
<1>4. ExecutionAheadByOneStep'
  BY DEF IInv, ExecutionAheadByOneStep, files
<1>5. HandlerInv'
  BY <1>0 DEF IInv, TypeOK, HandlerInv, Load, files
<1> QED
  BY <1>1, <1>2, <1>3, <1>4, <1>5

\* That a lock was taken from a live process is never forgotten, and only
\* RemoveLock takes one.
LEMMA ForcedStays ==
  ASSUME [Next]_vars
  PROVE  /\ forced => forced'
         /\ ~RemoveLock => forced' = forced
<1>1. ASSUME RemoveLock PROVE forced => forced'
  BY <1>1 DEF RemoveLock
<1>2. ASSUME ~RemoveLock PROVE forced' = forced
  BY <1>2 DEF Next, OpenLock, RecordInode, AcquireFails, Crash, Release,
    Transition, WriteExecution, WriteMetadata, MarkStarted, Signal, Settle,
    EndHandler, files, vars
<1> QED
  BY <1>1, <1>2

\* Every step keeps it.
LEMMA NextIInv ==
  ASSUME IInv, [Next]_vars
  PROVE  IInv'
<1>0. TypeOK'
  BY NextTypes DEF IInv
<1> SUFFICES ASSUME ~forced'
             PROVE  /\ LockInv' /\ NoLostUpdate' /\ TransitionInv'
                    /\ ExecutionAheadByOneStep' /\ HandlerInv'
  BY <1>0 DEF IInv
<1>a. ~forced
  BY ForcedStays
<1> DEFINE Rest == LockInv /\ NoLostUpdate /\ TransitionInv
                     /\ ExecutionAheadByOneStep /\ HandlerInv
<1>1. ASSUME RemoveLock PROVE Rest'
  <2>1. \A q \in Procs : pc[q] = "idle"
    BY <1>a, <1>1, ProcsAssumption DEF RemoveLock, IInv, LockInv
  <2> QED
    BY <1>a, <1>1, <2>1 DEF RemoveLock, procs, IInv, LockInv, NoLostUpdate,
      TransitionInv, ExecutionAheadByOneStep, HandlerInv
<1>2. ASSUME NEW p \in Procs, OpenLock(p) PROVE Rest'
  <2>1. \A q \in Procs : pc[q] = "idle"
    BY <1>a, <1>2 DEF OpenLock, IInv, LockInv
  <2>2. LockInv'
    BY <1>a, <1>2, <2>1, ProcsAssumption, InodesAssumption
    DEF OpenLock, FreeInodes, IInv, TypeOK, LockInv
  <2>3. NoLostUpdate' /\ TransitionInv' /\ ExecutionAheadByOneStep' /\ HandlerInv'
    BY <1>a, <1>2, <2>1 DEF OpenLock, IInv, TypeOK, LockInv, NoLostUpdate,
      TransitionInv, ExecutionAheadByOneStep, HandlerInv
  <2> QED
    BY <2>2, <2>3
<1>3. ASSUME NEW p \in Procs, RecordInode(p) PROVE Rest'
  BY <1>a, <1>3 DEF RecordInode, files, IInv, TypeOK, LockInv, NoLostUpdate, TransitionInv,
    ExecutionAheadByOneStep, HandlerInv
<1>4. ASSUME NEW p \in Procs, AcquireFails(p) PROVE Rest'
  BY <1>a, <1>4, ForgetInv DEF AcquireFails, IInv, ExecutionAheadByOneStep
<1>5. ASSUME NEW p \in Procs, Crash(p) PROVE Rest'
  BY <1>a, <1>5, ForgetInv DEF Crash, IInv, ExecutionAheadByOneStep
<1>6. ASSUME NEW p \in Procs, Release(p) PROVE Rest'
  BY <1>a, <1>6, ForgetInv DEF Release, IInv, ExecutionAheadByOneStep
<1>7. ASSUME NEW p \in Procs, Transition(p) PROVE Rest'
  <2>1. PICK t \in Targets : Load(p, t.scope, t.to)
    BY <1>a, <1>7 DEF Transition
  <2>2. t.scope \in Scopes
    BY TargetsAssumption
  <2> QED
    BY <1>a, <1>7, <2>1, <2>2, LoadInv DEF Transition, files
<1>8. ASSUME NEW p \in Procs, WriteExecution(p) PROVE Rest'
  <2>0. pc[p] = "loaded" /\ \A q \in Procs : pc[q] # "idle" => q = p
    BY <1>a, <1>8, Alone DEF WriteExecution, IInv
  <2>1. /\ base[p].meta = meta /\ base[p].exec = exec
        /\ op[p].scope \in Scopes
        /\ Legal(meta, op[p].scope, op[p].to)
        /\ meta \in Meta
        /\ exec.states \in [Scopes -> AllStates]
    BY <1>a, <2>0 DEF IInv, NoLostUpdate, TransitionInv, TypeOK, Ops, Meta
  <2>2. exec'.states = [exec.states EXCEPT ![op[p].scope] = op[p].to]
    BY <1>a, <1>8, <2>1 DEF WriteExecution
  <2>3. ExecutionAheadByOneStep'
    BY <1>a, <1>8, <2>1, <2>2, LegalTypes
    DEF WriteExecution, IInv, ExecutionAheadByOneStep
  <2>4. LockInv' /\ NoLostUpdate' /\ HandlerInv'
    BY <1>a, <1>8, <2>0 DEF WriteExecution, IInv, TypeOK, LockInv, NoLostUpdate,
      HandlerInv
  <2>5. TransitionInv'
    BY <1>a, <1>8, <2>0, <2>1, <2>2 DEF WriteExecution, IInv, TypeOK, TransitionInv
  <2> QED
    BY <2>3, <2>4, <2>5
<1>9. ASSUME NEW p \in Procs, WriteMetadata(p) PROVE Rest'
  <2>0. pc[p] = "written" /\ \A q \in Procs : pc[q] # "idle" => q = p
    BY <1>a, <1>9, Alone DEF WriteMetadata, IInv
  <2>1. /\ op[p].scope \in Scopes
        /\ base[p].meta = meta
        /\ meta \in [Scopes -> AllStates]
        /\ exec.states[op[p].scope] = op[p].to
        /\ meta' = [meta EXCEPT ![op[p].scope] = op[p].to]
    BY <1>a, <1>9, <2>0 DEF WriteMetadata, IInv, NoLostUpdate, TransitionInv, TypeOK,
      Ops, Meta
  <2>2. ExecutionAheadByOneStep'
    BY <1>a, <1>9, <2>1 DEF WriteMetadata, IInv, ExecutionAheadByOneStep
  <2>3. LockInv' /\ NoLostUpdate' /\ TransitionInv'
    BY <1>a, <1>9, <2>0 DEF WriteMetadata, IInv, TypeOK, LockInv, NoLostUpdate,
      TransitionInv
  <2>4. HandlerInv'
    <3>1. \A q \in Procs : handling'[q] => q = p
      BY <1>a, <1>9, <2>0 DEF WriteMetadata, IInv, LockInv
    <3> QED
      BY <1>a, <1>9, <2>0, <2>1, <3>1 DEF WriteMetadata, IInv, TypeOK, HandlerInv,
        Scopes, CLOSABLE_OPERATION_STATES
  <2> QED
    BY <2>2, <2>3, <2>4
<1>10. ASSUME NEW p \in Procs, MarkStarted(p) PROVE Rest'
  BY <1>a, <1>10 DEF MarkStarted, files, IInv, TypeOK, LockInv, NoLostUpdate, TransitionInv,
    ExecutionAheadByOneStep, HandlerInv
<1>11. ASSUME NEW p \in Procs, Signal(p) PROVE Rest'
  <2>0. \A q \in Procs : pc[q] # "idle" => q = p
    BY <1>a, <1>11, Alone DEF Signal, IInv
  <2>1. LockInv' /\ NoLostUpdate' /\ TransitionInv' /\ ExecutionAheadByOneStep'
    BY <1>a, <1>11, <2>0 DEF Signal, files, IInv, TypeOK, LockInv, NoLostUpdate,
      TransitionInv, ExecutionAheadByOneStep
  <2>2. HandlerInv'
    BY <1>a, <1>11, <2>0 DEF Signal, ToSettle, files, IInv, TypeOK, LockInv, HandlerInv
  <2> QED
    BY <2>1, <2>2
<1>12. ASSUME NEW p \in Procs, Settle(p) PROVE Rest'
  <2>1. PICK sc \in pending[p] : Load(p, sc, SettleTo(p, sc))
    BY <1>a, <1>12 DEF Settle
  <2>2. sc \in Scopes
    BY <2>1 DEF IInv, TypeOK
  <2>3. /\ sc = "operation" => SettleTo(p, sc) \in {"state_unknown", "cancelled"}
        /\ sc = "workflow" =>
             SettleTo(p, sc) \in {"rollback_required", "device_state_unknown"}
    BY DEF SettleTo
  <2> QED
    BY <1>a, <1>12, <2>1, <2>2, <2>3, LoadInv DEF Settle, files
<1>13. ASSUME NEW p \in Procs, EndHandler(p) PROVE Rest'
  <2>1. meta' = meta /\ exec'.states = exec.states
    BY <1>a, <1>13 DEF EndHandler
  <2> QED
    BY <1>a, <1>13, <2>1, ForgetInv DEF EndHandler, IInv, ExecutionAheadByOneStep
<1>14. ASSUME UNCHANGED vars PROVE Rest'
  BY <1>a, <1>14 DEF vars, IInv, LockInv, NoLostUpdate, TransitionInv,
    ExecutionAheadByOneStep, HandlerInv
<1> QED
  BY <1>1, <1>2, <1>3, <1>4, <1>5, <1>6, <1>7, <1>8, <1>9, <1>10, <1>11,
    <1>12, <1>13, <1>14 DEF Next

-----------------------------------------------------------------------------
(* The theorems                                                            *)

\* So it always holds.
LEMMA Invariance == Spec => []IInv
<1>1. IInv /\ [Next]_vars => IInv'
  BY NextIInv
<1> QED
  BY InitIInv, <1>1, PTL DEF Spec

\* Mutual exclusion: until the lock of a live process is removed by hand, at
\* most one process is between creating and releasing the lock file, however
\* often processes crash or are interrupted (OperationLock).
THEOREM Exclusive == Spec => []LockExclusive
<1>1. IInv => LockExclusive
  BY Alone DEF IInv, LockExclusive
<1> QED
  BY <1>1, Invariance, PTL

\* The lock makes the unlocked-looking read-modify-write of metadata.yaml and
\* execution.json safe: no transition overwrites another one's update.
THEOREM UpdatesKept == Spec => []NoLostUpdate
<1>1. IInv => NoLostUpdate
  BY DEF IInv, NoLostUpdate, ExecutionAheadByOneStep
<1> QED
  BY <1>1, Invariance, PTL

\* Write order: after any crash the execution record is the metadata's state
\* or one legal transition ahead of it, in every scope.
THEOREM RecordAhead == Spec => []ExecutionAheadByOneStep
<1>1. IInv => ExecutionAheadByOneStep
  BY DEF IInv, NoLostUpdate, ExecutionAheadByOneStep
<1> QED
  BY <1>1, Invariance, PTL

\* A signal handler that completes leaves no running state behind, even when
\* it was itself interrupted by further signals (OperationInterruptGuard).
THEOREM HandlerSettles == Spec => []InterruptSettled
<1>1. IInv => InterruptSettled
  <2> SUFFICES ASSUME IInv, ~forced, NEW p \in Procs, handling[p],
                      pending[p] = {}
               PROVE  IF started[p]
                      THEN /\ meta["workflow"] \notin
                                {"apply_running", "rollback_running"}
                           /\ meta["operation"] # "running"
                      ELSE meta["operation"] \in TERMINAL_STATES
    BY DEF InterruptSettled
  <2>1. meta["operation"] \in OPERATION_STATES
    BY DEF IInv, TypeOK, Meta, Scopes, StatesOf
  <2> QED
    BY <2>1 DEF IInv, HandlerInv, TypeOK, OPERATION_STATES, TERMINAL_STATES,
      CLOSABLE_OPERATION_STATES
<1> QED
  BY <1>1, Invariance, PTL

\* A terminal lifecycle stays (transition_operation's table has no way out).
THEOREM TerminalStays == Spec => TerminalIsFinal
<1> DEFINE Final ==
  ~forced /\ meta["operation"] \in TERMINAL_STATES =>
    \/ meta'["operation"] = meta["operation"]
    \/ Purpose = "inspection" /\ meta["workflow"] = "none"
         /\ meta'["operation"] = "running"
<1>1. ASSUME IInv, NEW p \in Procs, WriteMetadata(p) PROVE Final
  <2> SUFFICES ASSUME ~forced PROVE Final
    OBVIOUS
  <2>0. pc[p] = "written" /\ TypeOK /\ base[p].meta = meta /\ TransitionInv
    BY <1>1 DEF WriteMetadata, IInv, NoLostUpdate
  <2>1. /\ meta \in [Scopes -> AllStates]
        /\ op[p].scope \in Scopes
        /\ meta' = [meta EXCEPT ![op[p].scope] = op[p].to]
        /\ Legal(meta, op[p].scope, op[p].to)
    BY <1>1, <2>0 DEF WriteMetadata, TransitionInv, TypeOK, Ops, Meta
  <2> SUFFICES ASSUME op[p].scope = "operation",
                      meta["operation"] \in TERMINAL_STATES
               PROVE  Final
    BY <2>1 DEF Scopes
  <2>2. <<meta["operation"], op[p].to>> \notin OPERATION_TRANSITIONS
    BY DEF OPERATION_TRANSITIONS, TERMINAL_STATES
  <2> QED
    BY <2>1, <2>2 DEF Legal, Retry, Table, Scopes
<1>2. IInv /\ [Next]_vars => [Final]_vars
  BY <1>1 DEF Next, RemoveLock, OpenLock, RecordInode, AcquireFails, Crash,
    Release, Transition, WriteExecution, MarkStarted, Signal, Settle,
    EndHandler, files, vars
<1> QED
  BY <1>2, Invariance, PTL DEF Spec, TerminalIsFinal

\* An error once recorded is never lost (record_operation_error).
THEOREM ErrorsStay == Spec => ErrorsKept
<1>1. ASSUME IInv, NEW p \in Procs, WriteExecution(p)
      PROVE  ~forced => exec.errors \subseteq exec'.errors
  BY <1>1 DEF WriteExecution, IInv, NoLostUpdate
<1>2. ASSUME NEW p \in Procs, EndHandler(p)
      PROVE  ~forced => exec.errors \subseteq exec'.errors
  BY <1>2 DEF EndHandler
<1>3. IInv /\ [Next]_vars => [~forced => exec.errors \subseteq exec'.errors]_vars
  BY <1>1, <1>2 DEF Next, RemoveLock, OpenLock, RecordInode, AcquireFails,
    Crash, Release, Transition, WriteMetadata, MarkStarted, Signal, Settle,
    files, vars
<1> QED
  BY <1>3, Invariance, PTL DEF Spec, ErrorsKept

-----------------------------------------------------------------------------
(* What assert_held gives when the lock of a live process is removed       *)

\* No two processes remember the same inode, and that of the lock file is remembered by
\* its owner, if by anyone.
OwnerInv ==
  /\ \A p \in Procs : pc[p] = "idle" <=> held[p] = None
  /\ \A p, q \in Procs : held[p] # None /\ held[p] = held[q] => p = q
  /\ lockFile # None => \A p \in Procs : held[p] = lockFile.inode => p = lockFile.owner

\* Nobody remembers an inode in the beginning.
LEMMA InitOwner == Init => OwnerInv
BY DEF Init, OwnerInv

\* Every step keeps it: only a new lock is remembered, and its inode is none
\* that a process remembers.
LEMMA NextOwner ==
  ASSUME ReuseInodes = FALSE, TypeOK, OwnerInv, [Next]_vars
  PROVE  OwnerInv'
<1>1. ASSUME NEW p \in Procs, Forget(p), pc[p] # "idle",
             lockFile' # None => /\ lockFile # None /\ lockFile'.inode = lockFile.inode
                                 /\ lockFile'.owner \in {lockFile.owner, Gone}
                                 /\ lockFile.owner # p => lockFile'.owner = lockFile.owner
      PROVE  OwnerInv'
  <2>1. /\ pc'[p] = "idle" /\ held'[p] = None
        /\ \A q \in Procs \ {p} : pc'[q] = pc[q] /\ held'[q] = held[q]
    BY <1>1 DEF Forget, TypeOK
  <2>2. lockFile' # None => lockFile'.inode # None
    BY <1>1, InodesAssumption DEF TypeOK
  <2>3. ASSUME lockFile' # None, NEW q \in Procs, held'[q] = lockFile'.inode
        PROVE  q = lockFile'.owner
    BY <1>1, <2>1, <2>2, <2>3 DEF OwnerInv
  <2>4. /\ \A q \in Procs : pc'[q] = "idle" <=> held'[q] = None
        /\ \A q, r \in Procs : held'[q] # None /\ held'[q] = held'[r] => q = r
    BY <2>1 DEF OwnerInv
  <2> QED
    BY <2>3, <2>4 DEF OwnerInv
<1>2. CASE RemoveLock
  BY <1>2 DEF RemoveLock, procs, OwnerInv
<1>3. ASSUME NEW p \in Procs, OpenLock(p) PROVE OwnerInv'
  <2>1. PICK i \in FreeInodes : lockFile' = [inode |-> i, owner |-> p]
                            /\ held' = [held EXCEPT ![p] = i]
    BY <1>3 DEF OpenLock
  <2>2. i \in Inodes /\ i # None
    BY InodesAssumption DEF FreeInodes
  <2>3. pc' = [pc EXCEPT ![p] = "opened"] /\ held[p] = None
    BY <1>3 DEF OpenLock, OwnerInv
  <2>5. \A q \in Procs : held[q] # i
    BY DEF FreeInodes
  <2>6. /\ pc'[p] = "opened" /\ held'[p] = i
        /\ \A q \in Procs \ {p} : pc'[q] = pc[q] /\ held'[q] = held[q]
    BY <2>1, <2>3 DEF TypeOK
  <2> QED
    BY <2>1, <2>2, <2>5, <2>6 DEF OwnerInv
<1>4. ASSUME NEW p \in Procs, RecordInode(p) PROVE OwnerInv'
  BY <1>4 DEF RecordInode, files, OwnerInv, TypeOK
<1>5. ASSUME NEW p \in Procs, AcquireFails(p) PROVE OwnerInv'
  BY <1>1, <1>5 DEF AcquireFails
<1>6. ASSUME NEW p \in Procs, Crash(p) PROVE OwnerInv'
  <2>1. pc[p] # "idle" /\ Forget(p)
    BY <1>6 DEF Crash
  <2>2. CASE lockFile # None /\ lockFile.owner = p
    <3>1. lockFile' = [inode |-> lockFile.inode, owner |-> Gone]
      BY <1>6, <2>2 DEF Crash
    <3> QED
      BY <1>1, <2>1, <2>2, <3>1
  <2>3. CASE ~(lockFile # None /\ lockFile.owner = p)
    <3>1. lockFile' = lockFile
      BY <1>6, <2>3 DEF Crash
    <3> QED
      BY <1>1, <2>1, <3>1
  <2> QED
    BY <2>2, <2>3
<1>7. ASSUME NEW p \in Procs, Release(p) PROVE OwnerInv'
  <2>1. pc[p] # "idle" /\ Forget(p) /\ lockFile' \in {None, lockFile}
    BY <1>7 DEF Release
  <2> QED
    BY <1>1, <2>1
<1>8. ASSUME NEW p \in Procs, NEW sc, NEW to, Load(p, sc, to), held' = held,
             lockFile' = lockFile
      PROVE  OwnerInv'
  BY <1>8 DEF Load, OwnerInv, TypeOK
<1>9. ASSUME NEW p \in Procs, Transition(p) \/ Settle(p) PROVE OwnerInv'
  BY <1>8, <1>9 DEF Transition, Settle, files
<1>10. ASSUME NEW p \in Procs, WriteExecution(p) \/ WriteMetadata(p) PROVE OwnerInv'
  BY <1>10 DEF WriteExecution, WriteMetadata, OwnerInv, TypeOK
<1>11. ASSUME NEW p \in Procs, MarkStarted(p) PROVE OwnerInv'
  BY <1>11 DEF MarkStarted, files, OwnerInv
<1>12. ASSUME NEW p \in Procs, Signal(p) PROVE OwnerInv'
  BY <1>12 DEF Signal, files, OwnerInv, TypeOK
<1>13. ASSUME NEW p \in Procs, EndHandler(p) PROVE OwnerInv'
  <2>1. pc[p] # "idle" /\ Forget(p) /\ lockFile' \in {None, lockFile}
    BY <1>13 DEF EndHandler
  <2> QED
    BY <1>1, <2>1
<1>14. CASE UNCHANGED vars
  BY <1>14 DEF vars, OwnerInv
<1> QED
  BY <1>2, <1>3, <1>4, <1>5, <1>6, <1>7, <1>9, <1>10, <1>11, <1>12, <1>13, <1>14 DEF Next

\* A process whose lock the operator removed and another replaced passes
\* assert_held no more ("was replaced while held"), on a file system that does
\* not give the new file an inode that a process remembers.
THEOREM ReplacementNoticed == ReuseInodes = FALSE => (Spec => []ReplacementDetected)
<1> SUFFICES ASSUME ReuseInodes = FALSE PROVE Spec => []ReplacementDetected
  OBVIOUS
<1>1. TypeOK /\ OwnerInv /\ [Next]_vars => OwnerInv'
  BY NextOwner
<1>2. TypeOK /\ OwnerInv => ReplacementDetected
  BY DEF OwnerInv, ReplacementDetected, AssertHeld
<1> QED
  BY TypeCorrect, InitOwner, <1>1, <1>2, PTL DEF Spec
=============================================================================
