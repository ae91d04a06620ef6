CONSTANTS
  Readers = {"r1"}
  Free = Free
  Queries = {"queue", "archive", "full"}
  MaxBytes = 3
  LMaxChanges = 1
  Servers = {"x", "y"}
  MaxWrites = 2
  MaxIssues = 2
  MaxEdits = 2
  MaxRuns = 2
  Plans <- MCPlans
  Watched = {3}
  MaxTries = 2
  MaxDeaths = 1
  MaxCheckpoints = 1
  MaxByHand = 1
  Editors = {"e", "f"}
  MaxSets = 2
  MaxByEditor = 1
  MaxTouches = 3
  Procs = {p1, p2, p3}
  None = None
  MaxAttempts = 2
  Ops = {"complete", "fail", "patch"}
  Conditional = {"complete", "fail", "patch"}
SPECIFICATION ProtocolsSpec
SYMMETRY Symmetry
INVARIANTS ListsTruthful    ConfigurationKept CurrentCallsLoseNothing
PROPERTIES PullKeepsEdits
CHECK_DEADLOCK FALSE
