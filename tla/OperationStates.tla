--------------------------- MODULE OperationStates ---------------------------
(***************************************************************************)
(* The three state machines an Operation records: its common lifecycle,    *)
(* the state of one phase, and the Overlay workflow.  Each table is the    *)
(* set of <<from, to>> pairs one transition may take.  Python's None is    *)
(* "none".                                                                 *)
(***************************************************************************)

OPERATION_STATES ==
  {"created", "running", "waiting_for_user", "completed",
   "completed_with_warnings", "failed", "cancelled", "state_unknown"}

\* A transition to any of these is final, inspection retries apart.
TERMINAL_STATES ==
  {"completed", "completed_with_warnings", "failed", "cancelled",
   "state_unknown"}

OPERATION_TRANSITIONS ==
  ({"created"} \X {"running", "cancelled", "failed"})
  \cup ({"running"} \X ({"waiting_for_user"} \cup TERMINAL_STATES))
  \cup ({"waiting_for_user"} \X {"running", "failed", "cancelled"})

PHASE_STATES ==
  {"not_started", "running", "waiting_for_user", "completed",
   "completed_with_warnings", "failed", "cancelled", "unknown"}

\* The phase states a new attempt may start from (transition_phase with
\* allow_retry and an attempt id other than the current one).
RETRYABLE_PHASE_STATES ==
  {"completed", "completed_with_warnings", "failed", "cancelled", "unknown"}

PHASE_TRANSITIONS ==
  ({"not_started"} \X {"running", "cancelled"})
  \cup ({"running"} \X ({"waiting_for_user"} \cup RETRYABLE_PHASE_STATES))
  \cup ({"waiting_for_user"} \X {"running", "failed", "cancelled"})

WORKFLOW_STATES ==
  {"none", "planned", "before_running", "before_failed", "before_completed",
   "plan_ready", "approved", "apply_running", "apply_failed",
   "device_state_unknown", "apply_completed", "after_running",
   "health_failed", "after_completed", "save_running", "save_failed",
   "rollback_required", "rollback_running", "rollback_failed",
   "rolled_back", "rollback_health_failed", "rolled_back_and_verified",
   "qualification_save_running", "qualification_save_failed",
   "qualification_completed", "completed"}

WORKFLOW_TRANSITIONS ==
  ({"none"} \X {"planned"})
  \cup ({"planned"} \X {"before_running"})
  \cup ({"before_running"} \X {"before_failed", "before_completed"})
  \cup ({"before_completed"} \X {"plan_ready"})
  \cup ({"plan_ready"} \X {"approved"})
  \cup ({"approved"} \X {"apply_running"})
  \cup ({"apply_running"} \X
          {"apply_failed", "device_state_unknown", "apply_completed"})
  \cup ({"apply_completed"} \X {"after_running"})
  \cup ({"after_running"} \X {"health_failed", "after_completed"})
  \cup ({"after_completed"} \X
          {"save_running", "completed", "rollback_required"})
  \cup ({"save_running"} \X {"save_failed", "completed"})
  \cup ({"apply_failed", "device_state_unknown", "health_failed",
          "save_failed", "completed"} \X {"rollback_required"})
  \cup ({"rollback_required"} \X {"after_running", "rollback_running"})
  \cup ({"rollback_running"} \X
          {"rollback_failed", "rollback_required", "rolled_back"})
  \cup ({"rolled_back", "rollback_health_failed"} \X
          {"rollback_health_failed", "rolled_back_and_verified"})
  \cup ({"rolled_back_and_verified"} \X
          {"save_running", "qualification_save_running"})
  \cup ({"qualification_save_running"} \X
          {"qualification_save_failed", "qualification_completed"})

\* The lifecycles and workflow states `operation close` accepts, and the
\* lifecycles `operation archive` accepts.
CLOSABLE_OPERATION_STATES == {"created", "running", "waiting_for_user"}

PRE_APPLY_CLOSABLE_WORKFLOW_STATES ==
  {"none", "planned", "before_running", "before_completed", "plan_ready",
   "approved"}

ARCHIVABLE_OPERATION_STATES ==
  {"completed", "completed_with_warnings", "cancelled"}
=============================================================================
