CONSTANTS
  Procs = {p1, p2}
  None = None
  MaxWrites = 3
  MaxAttempts = 2
  Ops <- AllOps
  Conditional = {}
  Sessions = {"s1", "s2"}
  Ids = {"t1", "t2"}
  Labels = {"a", "b"}
  Filters <- MCFilters
  Wishes <- MCWishes
  MaxCommands = 2
  MaxFaults = 1
  Clients = {"c1", "c2"}
  Items = {"i1", "i2"}
  MaxRequests = 2
  Strategy <- MCStrategy
  Code <- MCCode
  MaxEdits = 3
  Callers = {"x", "y"}
  MaxCalls = 3
  LockRetries = 2
  MaxMishaps = 2
SPECIFICATION CallsSpec
SYMMETRY Symmetry
INVARIANTS DoneSettled   StrategyTruthful AnsweredOnce
PROPERTIES MutatesAsMap
CHECK_DEADLOCK FALSE
