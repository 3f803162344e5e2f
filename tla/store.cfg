SPECIFICATION Spec
CONSTANTS
  Procs = {p1, p2}
  Inodes = {i1, i2}
  None = None
  Gone = Gone
  Purpose = "inspection"
  Targets <- ChangeTargets
  ForcedRemoval = TRUE
  ReuseInodes = FALSE
INVARIANTS TypeOK LockExclusive NoLostUpdate ExecutionAheadByOneStep
  InterruptSettled 
PROPERTIES TerminalIsFinal
CONSTRAINT ForcedBound
SYMMETRY Symmetry
