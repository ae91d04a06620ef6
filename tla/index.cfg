CONSTANTS
  Tickets = {t1, t2}
  Order <- MCOrder
  Placed <- MCPlaced
  Kinds = {"put", "delete", "move", "rotate"}
  Absent = Absent
  Observers = {"lookup", "cache", "keeper"}
  MaxRev = 3
  MaxCrashes = 1
SPECIFICATION FairSpec
INVARIANTS FaithfulUnlessWiped AnswersHonest
PROPERTIES EventuallyCurrent
CHECK_DEADLOCK FALSE
