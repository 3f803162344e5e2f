SPECIFICATION Spec
CONSTANTS
  N = 2
  C = 1
  Seen = {1}
  Lagging = {2}
  Offered = {"save"}
  Events = {}
  MaxEdits = 0
  MaxFaults = 0
PROPERTIES UnsavedStaysUnsaved
CHECK_DEADLOCK FALSE
