CONSTANTS
  Procs = {p1, p2}
  NoProc = NoProc
  Absent = Absent
  MaxMtime = 3
  Ops = {"crash"}
  Callers = {a, b}
  MaxTickets = 4
  MaxParts = 3
  MaxCalls = 2
  MaxInterventions = 1
  Failures = {1, 2}
  Runs = {r, s}
  Fresh = Fresh
  Slug = Slug
  Someone = Someone
  MaxValidations = 2
  MaxMarks = 1
  Keyword = {"own"}
  Local = "planfile"
  MaxIterations = 2
  MaxEdits = 1
  MaxWork = 1
  ByteLimit = 9
  PageSizes = {0, 1, 2}
  MaxListChanges = 2
  MaxAsked = 1
SYMMETRY Same
SPECIFICATION ToolsSpec
INVARIANTS MirrorTruthful NothingLost FreshRead TreeKept  QueriesAgree
CHECK_DEADLOCK FALSE
