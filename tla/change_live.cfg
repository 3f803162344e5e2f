SPECIFICATION FairSpec
CONSTANTS
  N = 2
  C = 1
  Seen = {1}
  Lagging = {}
  Offered = {"save"}
  Events = {"recompare"}
  MaxEdits = 0
  MaxFaults = 0
PROPERTIES ApplySettles
CHECK_DEADLOCK FALSE
