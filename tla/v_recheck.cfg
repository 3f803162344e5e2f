SPECIFICATION Spec
CONSTANTS
  N = 1
  C = 1
  Seen = {1}
  Lagging = {}
  Offered = {"save"}
  Events = {"recheck"}
  MaxEdits = 0
  MaxFaults = 0
INVARIANTS FailedApplyStays
CHECK_DEADLOCK FALSE
