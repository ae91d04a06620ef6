CONSTANTS
  Procs = {p1, p2}
  NoProc = NoProc
  Absent = Absent
  MaxMtime = 3
  Ops = {"audit"}
SPECIFICATION Spec
INVARIANTS NothingLost
CHECK_DEADLOCK FALSE
