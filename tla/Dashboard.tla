----------------------------- MODULE Dashboard -----------------------------
(***************************************************************************)
(* The dashboard page (the script in api/server.py 2763-3567).  It shows a *)
(* list of tickets and the detail of the selected one.  Events from the    *)
(* WebSocket and a poll make it fetch both again; requests overlap, their  *)
(* answers come back in any order, and they and the socket may fail.       *)
(*                                                                         *)
(* A ticket is its revision.  An event carries a ticket, but the page uses *)
(* only its id.  Filters, notifications and the event pane are left out.   *)
(***************************************************************************)
EXTENDS Integers

CONSTANTS
  DTickets, NoTicket,
  Requests,      \* bound: requests for details on their way at a time
  MaxRevisions, MaxIncidents  \* bounds: changes; clicks and lost answers together

VARIABLES
  revision,      \* the tickets of the server
  socket,        \* "open" or "closed"; the tickets whose events are on their way
  list,          \* state.lastTickets
  timer, queued, \* ticketRefreshTimer and ticketRefreshQueued
  fetch,         \* ticketRefreshPromise: "none", "sent" or what the server answered
  selected,      \* state.selectedTicketId
  detail,        \* state.selectedTicket
  request,       \* requests for details: their ticket and what the server answered
  changed, clicked, failed,  \* how many so far
  told,          \* history: revision of a ticket when its last event came
  crossed        \* history: the last answer was for a ticket no longer selected

dashboardVars == <<revision, socket, list, timer, queued, fetch, selected, detail,
                   request, changed, clicked, failed, told, crossed>>
listVars == <<list, timer, queued, fetch>>
detailVars == <<selected, detail, request, crossed>>

NoDetail == [id |-> NoTicket, rev |-> 0]
Free == [kind |-> "free", id |-> NoTicket, rev |-> -1]
NoList == [at |-> "none", seen |-> [t \in DTickets |-> 0]]

DashboardInit ==
  /\ revision = [t \in DTickets |-> 0]
  /\ socket = [open |-> TRUE, events |-> {}]
  /\ list = revision /\ timer = FALSE /\ queued = FALSE /\ fetch = NoList
  /\ selected = NoTicket /\ detail = NoDetail
  /\ request = [r \in Requests |-> Free]
  /\ changed = 0 /\ clicked = 0 /\ failed = 0
  /\ told = revision /\ crossed = FALSE

Changes(t) ==
  /\ revision' = [revision EXCEPT ![t] = @ + 1]
  /\ socket' = IF socket.open THEN [socket EXCEPT !.events = @ \cup {t}] ELSE socket

Incident == clicked + failed < MaxIncidents

Change(t) ==
  /\ changed < MaxRevisions /\ changed' = changed + 1
  /\ Changes(t)
  /\ UNCHANGED <<listVars, detailVars, clicked, failed, told>>

-----------------------------------------------------------------------------
(* A mutant: a refresh asked for during another is answered by that one.   *)
RefreshTicketsMutant ==
  IF fetch.at # "none" THEN UNCHANGED <<fetch, queued>>
  ELSE fetch' = [fetch EXCEPT !.at = "sent"] /\ UNCHANGED queued

(* refreshTickets: one at a time; a second one is remembered.              *)
RefreshTickets ==
  IF fetch.at # "none" THEN queued' = TRUE /\ UNCHANGED fetch
  ELSE fetch' = [fetch EXCEPT !.at = "sent"] /\ UNCHANGED queued

Asks(kind, t) ==
  \E r \in Requests :
    /\ request[r] = Free
    /\ request' = [request EXCEPT ![r] = [kind |-> kind, id |-> t, rev |-> -1]]

(* A mutant: the detail is left as it is.                                  *)
RefreshSelectedMutant == UNCHANGED request

(* Without a selection, or when every request is taken, nothing is asked.  *)
RefreshSelected ==
  IF selected = NoTicket \/ Free \notin {request[r] : r \in Requests} THEN UNCHANGED request
  ELSE Asks("ticket", selected)

(* addEvent, for the event of a ticket.                                    *)
Deliver(t) ==
  /\ t \in socket.events
  /\ socket' = [socket EXCEPT !.events = @ \ {t}]
  /\ told' = [told EXCEPT ![t] = revision[t]]
  /\ timer' = TRUE
  /\ IF selected = t THEN RefreshSelected ELSE UNCHANGED request
  /\ UNCHANGED <<revision, list, queued, fetch, selected, detail, changed, clicked,
                 failed, crossed>>

(* scheduleTicketRefresh's timer runs out.                                 *)
TimerFires ==
  /\ timer /\ timer' = FALSE
  /\ RefreshTickets
  /\ UNCHANGED <<revision, socket, list, detailVars, changed, clicked, failed, told>>

(* Once a minute.                                                          *)
Poll ==
  /\ RefreshTickets /\ RefreshSelected
  /\ UNCHANGED <<revision, socket, list, timer, selected, detail, changed, clicked,
                 failed, told, crossed>>

ServerLists ==
  /\ fetch.at = "sent"
  /\ fetch' = [at |-> "back", seen |-> revision]
  /\ UNCHANGED <<revision, socket, list, timer, queued, detailVars, changed, clicked,
                 failed, told>>

(* The finally block of refreshTickets.                                    *)
RefreshEnds ==
  /\ fetch' = NoList
  /\ queued' = FALSE
  /\ timer' = (timer \/ queued)

ListArrives ==
  /\ fetch.at = "back"
  /\ list' = fetch.seen
  /\ RefreshEnds
  /\ UNCHANGED <<revision, socket, detailVars, changed, clicked, failed, told>>

ListFails ==
  /\ fetch.at # "none" /\ Incident
  /\ failed' = failed + 1
  /\ RefreshEnds
  /\ UNCHANGED <<revision, socket, list, detailVars, changed, clicked, told>>

-----------------------------------------------------------------------------
(* selectTicket.                                                           *)
Select(t) ==
  /\ Incident /\ clicked' = clicked + 1
  /\ selected' = t
  /\ Asks("ticket", t)
  /\ UNCHANGED <<revision, socket, listVars, detail, changed, failed, told, crossed>>

(* startSelectedTicket: of the ticket whose detail is shown.               *)
Start ==
  /\ Incident /\ clicked' = clicked + 1
  /\ detail # NoDetail
  /\ Asks("start", detail.id)
  /\ UNCHANGED <<revision, socket, listVars, selected, detail, changed, failed, told, crossed>>

ServerShows(r) ==
  /\ request[r].kind = "ticket" /\ request[r].rev = -1
  /\ request' = [request EXCEPT ![r].rev = revision[request[r].id]]
  /\ UNCHANGED <<revision, socket, listVars, selected, detail, changed, clicked, failed,
                 told, crossed>>

ServerStarts(r) ==
  /\ request[r].kind = "start" /\ request[r].rev = -1
  /\ Changes(request[r].id)
  /\ request' = [request EXCEPT ![r].rev = revision[request[r].id] + 1]
  /\ UNCHANGED <<listVars, selected, detail, changed, clicked, failed, told, crossed>>

(* An answer is shown, whatever is selected by now.                        *)
DetailArrives(r) ==
  LET q == request[r] IN
    /\ q.rev # -1
    /\ detail' = [id |-> q.id, rev |-> q.rev]
    /\ request' = [request EXCEPT ![r] = Free]
    /\ crossed' = (q.id # selected)
    /\ IF q.kind = "start" THEN RefreshTickets ELSE UNCHANGED <<fetch, queued>>
    /\ UNCHANGED <<revision, socket, list, timer, selected, changed, clicked, failed, told>>

RequestFails(r) ==
  /\ request[r] # Free /\ Incident
  /\ failed' = failed + 1
  /\ request' = [request EXCEPT ![r] = Free]
  /\ UNCHANGED <<revision, socket, listVars, selected, detail, changed, clicked, told, crossed>>

(* The socket closes, with the events on their way, and is opened again.   *)
SocketCloses ==
  /\ socket.open /\ Incident
  /\ failed' = failed + 1
  /\ socket' = [open |-> FALSE, events |-> {}]
  /\ UNCHANGED <<revision, listVars, detailVars, changed, clicked, told>>

Reconnect ==
  /\ ~socket.open
  /\ socket' = [socket EXCEPT !.open = TRUE]
  /\ UNCHANGED <<revision, listVars, detailVars, changed, clicked, failed, told>>

DashboardNext ==
  \/ \E t \in DTickets : Change(t) \/ Deliver(t) \/ Select(t)
  \/ TimerFires \/ Poll \/ ServerLists \/ ListArrives \/ ListFails \/ Start
  \/ \E r \in Requests : ServerShows(r) \/ ServerStarts(r) \/ DetailArrives(r) \/ RequestFails(r)
  \/ SocketCloses \/ Reconnect

(* The poll goes on, and the server answers what it is asked.              *)
DashboardFairness ==
  /\ WF_dashboardVars(TimerFires) /\ WF_dashboardVars(Poll)
  /\ WF_dashboardVars(ServerLists) /\ WF_dashboardVars(ListArrives)
  /\ \A r \in Requests :
       /\ WF_dashboardVars(ServerShows(r))
       /\ WF_dashboardVars(DetailArrives(r))

-----------------------------------------------------------------------------
(* A list older than an event is being replaced, unless an answer was lost.*)
EventsAreFollowed ==
  \A t \in DTickets :
    list[t] < told[t] =>
      \/ timer \/ queued \/ fetch.at = "sent" \/ failed > 0
      \/ fetch.at = "back" /\ fetch.seen[t] >= told[t]

(* The list never goes back to older tickets.                              *)
ListGoesForward ==
  fetch.at = "back" => \A t \in DTickets : fetch.seen[t] >= list[t]

(* The detail is of the selected ticket or that ticket is on its way,      *)
(* unless an answer came late or was lost.                                 *)
DetailOfSelected ==
  \/ detail.id = selected \/ crossed \/ failed > 0
  \/ \E r \in Requests : request[r].id = selected

(* When changes, clicks and failures have ended the dashboard shows what   *)
(* the server has: list, selected ticket and detail.                       *)
DashboardCatchesUp ==
  <>[](/\ list = revision
       /\ detail = IF selected = NoTicket THEN NoDetail
                   ELSE [id |-> selected, rev |-> revision[selected]])
=============================================================================
