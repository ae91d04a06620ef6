CONSTANTS
  Procs = {p1, p2}
  NoProc = NoProc
  Absent = Absent
  MaxTickets = 2
  MaxClock = 4
  DayLength = 2
  Current = "current"
  Backlog = "backlog"
  Histories <- MCHistories
  Rank <- MCRank
  DayOf <- MCDayOf
  HistoryOf <- MCHistoryOf
  RetainDays = 0
  RetainTerminal = 0
  MaxCurrent = 0
  MoveTargets <- AllSprints
  Ops = {"create", "update", "delete", "move", "archive"}
SPECIFICATION Spec
SYMMETRY Symmetry
INVARIANTS LookupsTrue
PROPERTIES ImplementsMap 
CHECK_DEADLOCK FALSE
