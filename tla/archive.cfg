SPECIFICATION Spec
CONSTANTS
  Procs = {p1, p2}
  None = None
  Gone = Gone
  Faults = {"kill", "interrupt", "fail"}
  MaxClock = 5
  MaxFiles = 1
  Jobs = {"create", "work", "archive", "restore", "delete", "missing"}
  Apart = {{"archive"}, {"archive", "restore"}, {"create", "archive"},
           {"create", "restore"}, {"create", "delete"}, {"create", "missing"}}
INVARIANTS
  TypeOK
  NeverLost
  IndexLeads
  ArchivedIsFinal
CHECK_DEADLOCK FALSE
