SPECIFICATION Spec
CONSTANTS
  Vlans = {1, 2}
  L2Vnis = {11, 12}
  Vrfs = {"red", "blue"}
  L3Vnis = {11, 21}
  LabDevices = 2
  Lagging = {}
  MaxEvents = 2
  Nodes = 3
  Workers = 2
  Inputs = {"m1"}
  Earlier = {"m0", "m1"}
  MaxRuns = 1
  MaxEdits = 1
  MaxPackages = 3
  Sensitive = {2}
  KeepLatest = 1
  Procs = {"p", "q"}
  MaxImports = 3
  MaxKills = 1
  Names = {"a", "b"}
  Errors = {0, 1, 2}
  RouteCounts = {0, 6, 9, 10}
  ErrorWarn = 1
  ErrorFail = 2
  RouteWarn = 10
  RouteFail = 30
  NtpRequired = FALSE
  NextHops = {"h1", "h2"}
  Costlier = {"h1"}
  MaxPaths = 2
  MinPaths = {2}
  Inventory = {"n"}
  Nxos = {"n"}
  WithRun = {"n"}
  MaxCollections = 2
INVARIANTS TypeOK RollbackScoped ForwardKeepsCompared AppliedIsConfigured CandidateGone
  FailFastStops LatestComplete NothingLostPasses RoutesAccounted
  OwnAnswers
PROPERTIES SaveKeepsBaseline SavesOnlyAccepted CurrentIsLive SavedIsVerified NewestKept
CHECK_DEADLOCK FALSE
