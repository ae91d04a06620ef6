CONSTANTS
  Procs = {p1, p2}
  NoProc = NoProc
  Absent = Absent
  MaxTickets = 1
  MaxClock = 2
  DayLength = 1
  Current = "current"
  Backlog = "backlog"
  Histories <- MCHistories
  Rank <- MCRank
  DayOf <- MCDayOf
  HistoryOf <- MCHistoryOf
  RetainDays = 0
  RetainTerminal = 0
  MaxCurrent = 0
  MoveTargets <- AllSprints
  Ops = {"create", "update", "delete", "move", "archive", "save", "crash", "fail"}
SPECIFICATION Spec
SYMMETRY Symmetry
INVARIANTS NeverLost
CHECK_DEADLOCK FALSE
