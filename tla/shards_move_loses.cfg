SPECIFICATION StorageSpec
CONSTANTS
  t1 = t1
  t2 = t2
  t3 = t3
  Buckets = {"a", "b"}
  Ops = {"put", "delete", "move", "save", "rotate"}
  Absent = Absent
  Observers = {"list", "summary"}
  Failing = {"manifest"}
  MaxBulk = 2
  MaxJobs = 3
  MaxFaults = 1
  Events = {1, 2, 3, 4}
  Legacy = {1, 2}
  LastDay = 3
  Batch = 1
  JMaxCrashes = 1
  MTickets = {u1, u2}
  MSprints = {s1, s2}
  MAbsent = MAbsent
  MaxMutations = 2
  MaxMigrations = 2
  MaxDeaths = 1
  Keys = {k1, k2}
  Payloads = {c1, c2}
  Callers = {"p", "q"}
  MaxLines = 2
  MaxFailures = 1
  Procs = {p1, p2}
  NoProc = NoProc
  MaxStored = 3
  MaxStamp = 4
  RetainDays = 2
  RetainTerminal = 1
  MaxCurrent = 1
SYMMETRY Symmetry
INVARIANT NeverLost
CHECK_DEADLOCK FALSE
