CONSTANTS
  Procs = {p1, p2}
  NoProc = NoProc
  Absent = Absent
  MaxTickets = 2
  MaxClock = 2
  DayLength = 1
  Current = "current"
  Backlog = "backlog"
  Histories <- MCHistories
  Rank <- MCRank
  DayOf <- MCDayOf
  HistoryOf <- MCHistoryOf
  RetainDays = 0
  RetainTerminal = 0
  MaxCurrent = 0
  MoveTargets <- Operationals
  Ops = {"create", "update", "archive", "save"}
SPECIFICATION FairSpec
INVARIANTS SavesTrue
PROPERTIES NoResurrection LockReleased
CHECK_DEADLOCK FALSE
