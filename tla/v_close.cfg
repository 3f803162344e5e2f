SPECIFICATION Spec
CONSTANTS
  N = 1
  C = 1
  Seen = {1}
  Lagging = {}
  Offered = {"save"}
  Events = {"close"}
  MaxEdits = 0
  MaxFaults = 0
PROPERTIES CloseBeforeMutation
CHECK_DEADLOCK FALSE
