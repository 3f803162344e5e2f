SPECIFICATION Spec
CONSTANTS
  N = 1
  C = 1
  Seen = {1}
  Lagging = {1}
  Offered = {"save", "nosave"}
  Events = {"expire", "close", "import", "crash"}
  MaxEdits = 1
  MaxFaults = 1
PROPERTIES UnsavedKeptOut
CONSTRAINT PolicyBound
CHECK_DEADLOCK FALSE
