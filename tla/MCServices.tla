----------------------------- MODULE MCServices -----------------------------
(***************************************************************************)
(* Small instances of what must go on for ever: the events of the API      *)
(* server, the dashboard they reach and the work queue.  Every behaviour   *)
(* is one of one module: part says of which, and the variables of the      *)
(* others keep one initial value.                                          *)
(***************************************************************************)
EXTENDS Integers, FiniteSets

CONSTANTS WTickets, Clients, Nobody, MaxChanges,
          DTickets, NoTicket, Requests, MaxRevisions, MaxIncidents,
          Planned, MaxCreated, MaxDecisions, Workers, Producers, Unlocked

VARIABLES
  part,
  stored, changes, handler, known, knownSig, look, overtaken, clients, slow,
  revision, socket, list, timer, queued, fetch, selected, detail, request,
  changed, clicked, failed, told, crossed,
  phase, place, blockedBy, worker, producer, qlock, decisions, reopened

(* A page without a selection has selected no ticket.                      *)
ASSUME SelectionAssumption == NoTicket \notin DTickets

(* The tickets of the plan are numbered, those created under the key follow*)
(* them, and no producer is called Unlocked.                               *)
ASSUME QueueAssumption ==
  /\ IsFiniteSet(Planned) /\ Planned = 1..Cardinality(Planned)
  /\ MaxCreated \in Nat /\ Unlocked \notin Producers

W == INSTANCE TicketEvents
D == INSTANCE Dashboard
Q == INSTANCE TicketQueue

eventVars == <<stored, changes, handler, known, knownSig, look, overtaken, clients, slow>>
dashboardVars == <<revision, socket, list, timer, queued, fetch, selected, detail,
                   request, changed, clicked, failed, told, crossed>>
queueVars == <<phase, place, blockedBy, worker, producer, qlock, decisions, reopened>>

ServicesInit ==
  /\ part \in {"events", "dashboard", "queue"}
  /\ W!WInit /\ (part # "events" => \A t \in WTickets : stored[t] = 0)
  /\ D!DashboardInit
  /\ Q!QInit
  /\ part # "queue" => \A i \in DOMAIN place : place[i] = "current" /\ blockedBy[i] = {}

ServicesNext ==
  /\ UNCHANGED part
  /\ \/ part = "events" /\ W!WNext /\ UNCHANGED <<dashboardVars, queueVars>>
     \/ part = "dashboard" /\ D!DashboardNext /\ UNCHANGED <<eventVars, queueVars>>
     \/ part = "queue" /\ Q!QNext /\ UNCHANGED <<eventVars, dashboardVars>>

servicesVars == <<part, eventVars, dashboardVars, queueVars>>

(* The fairness of each module, for its part.                              *)
EventFairness ==
  /\ WF_eventVars(part = "events" /\ W!ApiBroadcasts)
  /\ WF_eventVars(part = "events" /\ W!LookForChanges)
  /\ WF_eventVars(part = "events" /\ W!SignAfterwards)
  /\ WF_eventVars(part = "events" /\ W!Tell)

PageFairness ==
  /\ WF_dashboardVars(part = "dashboard" /\ D!TimerFires)
  /\ WF_dashboardVars(part = "dashboard" /\ D!Poll)
  /\ WF_dashboardVars(part = "dashboard" /\ D!ServerLists)
  /\ WF_dashboardVars(part = "dashboard" /\ D!ListArrives)
  /\ \A r \in Requests :
       /\ WF_dashboardVars(part = "dashboard" /\ D!ServerShows(r))
       /\ WF_dashboardVars(part = "dashboard" /\ D!DetailArrives(r))

QueueFairness ==
  /\ \A p \in Producers : WF_queueVars(part = "queue" /\ Q!CreateTicket(p))
  /\ \A w \in Workers : /\ WF_queueVars(part = "queue" /\ Q!ListTickets(w))
                        /\ WF_queueVars(part = "queue" /\ Q!SnapshotWithDependencies(w))
                        /\ WF_queueVars(part = "queue" /\ Q!Choose(w))
                        /\ SF_queueVars(part = "queue" /\ Q!StartServed(w))
                        /\ SF_queueVars(part = "queue" /\ Q!Finish(w))

ServicesSpec == ServicesInit /\ [][ServicesNext]_servicesVars
                /\ EventFairness /\ PageFairness /\ QueueFairness

-----------------------------------------------------------------------------
(* The properties, each about the code its module models.                  *)

(* Events: dashboards end with what is stored, save what overtook a look.  *)
(* Dashboard: list and detail end as the server has them.                  *)
DashboardsCatchUp ==
  /\ part = "events" => W!EventuallyTold
  /\ part = "dashboard" => D!DashboardCatchesUp
(* Events: a dashboard that stops reading delays no API call.              *)
AnswersAnyway == W!AnswersAnyway

(* Queue: two producers with one key make one live ticket, and what a      *)
(* worker is served waits for nothing.  Dashboard: an event's list is on   *)
(* its way, lists go forward, and the detail is of the selected ticket or  *)
(* of a late answer.                                                       *)
ServicesSafe ==
  /\ Q!OneLivePerKey /\ Q!ServedIsUnblocked
  /\ D!EventsAreFollowed /\ D!ListGoesForward /\ D!DetailOfSelected
(* Queue: a runnable ticket is served sooner or later.                     *)
QueueDrains == part = "queue" => Q!QueueDrains
=============================================================================
