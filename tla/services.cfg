CONSTANTS
  WTickets = {w1, w2}
  Clients = {"x", "y"}
  Nobody = Nobody
  MaxChanges = 3
  DTickets = {"t", "u"}
  NoTicket = "none"
  Requests = {1, 2}
  MaxRevisions = 1
  MaxIncidents = 2
  Planned = {1, 2}
  MaxCreated = 2
  MaxDecisions = 1
  Workers = {"a"}
  Producers = {"p", "q"}
  Unlocked = "u"
SPECIFICATION ServicesSpec
 
PROPERTIES DashboardsCatchUp  QueueDrains
CHECK_DEADLOCK FALSE
