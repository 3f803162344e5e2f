-------------------------- MODULE OperationStoreMC --------------------------
(***************************************************************************)
(* Instances of OperationStore for TLC: which transitions the commands     *)
(* request.                                                                *)
(***************************************************************************)
EXTENDS OperationStore, TLC

Request(sc, states) == {[scope |-> sc, to |-> s] : s \in states}

\* An Operation with purpose inspection, whose before phase may be retried, and
\* for which a change is planned, applied and rolled back later.
ChangeTargets ==
  Request("operation", {"running", "waiting_for_user", "completed"})
  \cup Request("phase", {"running", "completed"})
  \cup Request("workflow",
       {"planned", "before_running", "before_completed", "plan_ready",
        "approved", "apply_running", "apply_completed", "apply_failed",
        "rollback_required", "rollback_running", "rolled_back"})

\* Bound: once the lock of a live process was removed, the two processes are
\* followed only while the Operation has no phase started and no change planned.
ForcedBound ==
  forced => \A sc \in {"phase", "workflow"} :
              meta[sc] = InitialMeta[sc] /\ exec.states[sc] = InitialMeta[sc]

Symmetry == Permutations(Procs) \cup Permutations(Inodes)
=============================================================================
