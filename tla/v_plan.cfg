SPECIFICATION Spec
CONSTANTS
  Procs = {p1}
  Planner = q
  None = None
  Gone = Gone
  Profiles = {"a", "b"}
  Cuts = {"profile"}
  Overlap = FALSE
  MaxAttempts = 3
INVARIANTS PlanFromCompleted
CHECK_DEADLOCK FALSE
