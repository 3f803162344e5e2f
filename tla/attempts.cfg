SPECIFICATION Spec
CONSTANTS
  Procs = {p1}
  Planner = q
  None = None
  Gone = Gone
  Profiles = {"a", "b"}
  Cuts = {"collect", "collecting", "open", "build", "building", "verify", "publish", "profile", "result", "current", "gate", "answer", "conclusion", "conclude"}
  Overlap = FALSE
  MaxAttempts = 3
INVARIANTS TypeOK PlanCoherent ConcludedOnEvidence Retriable
PROPERTIES PointerMovesOn
CHECK_DEADLOCK FALSE
