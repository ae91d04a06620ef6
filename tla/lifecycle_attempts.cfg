CONSTANTS
  Procs = {p1, p2}
  None = None
  MaxWrites = 3
  MaxAttempts = 3
  Ops = {"fail", "ready"}
  Conditional = {}
SPECIFICATION Spec
INVARIANTS AttemptsCounted
CHECK_DEADLOCK FALSE
