SPECIFICATION Spec
CONSTANTS
  N = 2
  C = 1
  Seen = {1}
  Lagging = {2}
  Offered = {"save"}
  Events = {"crash", "fail", "signal", "recheck"}
  MaxEdits = 0
  MaxFaults = 1
INVARIANTS MutationVisible PrefixApplied WorkflowTellsDevices CompletedUniform TypeOK
PROPERTIES NoSaveWhileMixed ImplementsSerial
CHECK_DEADLOCK FALSE
