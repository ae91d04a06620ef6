--------------------------- MODULE ServicesProofs ---------------------------
(***************************************************************************)
(* Proofs about the dashboard page and the work queue, for any number of   *)
(* tickets, requests on their way, workers and producers, and however many *)
(* changes, clicks, lost answers and decisions there are.                  *)
(***************************************************************************)
EXTENDS MCServices, FiniteSetTheorems, WellFoundedInduction, TLAPS

-----------------------------------------------------------------------------
(* The dashboard.                                                          *)

Numbers == [DTickets -> Nat]

RequestRecords == [kind : {"free", "ticket", "start"}, id : DTickets \cup {NoTicket}, rev : Int]

DashTyped ==
  /\ revision \in Numbers /\ list \in Numbers /\ told \in Numbers
  /\ fetch \in [at : {"none", "sent", "back"}, seen : Numbers]
  /\ timer \in BOOLEAN /\ queued \in BOOLEAN /\ failed \in Nat

(* What the page holds is no newer than the server's tickets.              *)
NoneAhead ==
  \A t \in DTickets : /\ told[t] <= revision[t] /\ list[t] <= revision[t]
                      /\ fetch.at = "back" => fetch.seen[t] <= revision[t]

ListInv == DashTyped /\ NoneAhead /\ D!EventsAreFollowed /\ D!ListGoesForward

(* Requests are for tickets, and nothing is asked before a ticket has been *)
(* selected: a free request says NoTicket, which is then what is selected. *)
DetailInv ==
  /\ request \in [Requests -> RequestRecords]
  /\ \A r \in Requests :
       request[r] # D!Free => request[r].kind # "free" /\ request[r].id \in DTickets
  /\ selected \in DTickets \cup {NoTicket}
  /\ detail = D!NoDetail \/ detail.id \in DTickets
  /\ selected = NoTicket => detail = D!NoDetail /\ \A r \in Requests : request[r] = D!Free
  /\ D!DetailOfSelected

DashInv == ListInv /\ DetailInv

LEMMA DashInit == D!DashboardInit => DashInv
<1> SUFFICES ASSUME D!DashboardInit PROVE DashInv
  OBVIOUS
<1> USE DEF D!DashboardInit
<1>1. revision \in Numbers /\ list = revision /\ told = revision
      /\ fetch = [at |-> "none", seen |-> [t \in DTickets |-> 0]]
      /\ \A t \in DTickets : revision[t] = 0
  BY DEF D!NoList, Numbers
<1>2. DashTyped
  <2>1. [t \in DTickets |-> 0] \in Numbers
    BY DEF Numbers
  <2>2. fetch \in [at : {"none", "sent", "back"}, seen : Numbers]
    BY <1>1, <2>1
  <2>3. timer \in BOOLEAN /\ queued \in BOOLEAN /\ failed \in Nat
    OBVIOUS
  <2>4. list \in Numbers /\ told \in Numbers
    BY <1>1
  <2> QED BY <1>1, <2>2, <2>3, <2>4 DEF DashTyped
<1>3. ListInv
  BY <1>1, <1>2 DEF ListInv, NoneAhead, D!EventsAreFollowed, D!ListGoesForward
<1>4. D!Free \in RequestRecords
  BY DEF D!Free, RequestRecords
<1>5. DetailInv
  BY <1>4 DEF DetailInv, D!DetailOfSelected, D!NoDetail
<1> QED BY <1>3, <1>5 DEF DashInv

(* A request for a ticket takes the place of a free one, which names no    *)
(* selected ticket.                                                        *)
LEMMA AsksSound ==
  ASSUME DetailInv, NEW kind \in {"ticket", "start"}, NEW t \in DTickets, D!Asks(kind, t),
         selected # NoTicket, UNCHANGED <<selected, detail, crossed, failed>>
  PROVE  DetailInv'
<1>1. PICK r \in Requests :
        /\ request[r] = D!Free
        /\ request' = [request EXCEPT ![r] = [kind |-> kind, id |-> t, rev |-> -1]]
  BY DEF D!Asks
<1>2. [kind |-> kind, id |-> t, rev |-> -1] \in RequestRecords
  BY DEF RequestRecords
<1>3. \A q \in Requests : q # r => request'[q] = request[q]
  BY <1>1 DEF DetailInv
<1>4. request'[r].kind # "free" /\ request'[r].id = t
  BY <1>1 DEF DetailInv
<1>5. request[r].id = NoTicket
  BY <1>1 DEF D!Free
<1>6. D!DetailOfSelected'
  BY <1>3, <1>5 DEF DetailInv, D!DetailOfSelected
<1> QED BY <1>1, <1>2, <1>3, <1>4, <1>6 DEF DetailInv

LEMMA RefreshSelectedSound ==
  ASSUME DetailInv, D!RefreshSelected, UNCHANGED <<selected, detail, crossed, failed>>
  PROVE  DetailInv'
<1>1. CASE UNCHANGED request
  BY <1>1 DEF DetailInv, D!DetailOfSelected
<1>2. CASE selected # NoTicket /\ D!Asks("ticket", selected)
  BY <1>2, AsksSound DEF DetailInv
<1> QED BY <1>1, <1>2 DEF D!RefreshSelected

LEMMA RefreshTicketsSound ==
  ASSUME ListInv, D!RefreshTickets, UNCHANGED <<revision, list, told, failed>>,
         timer' = timer \/ timer' = FALSE
  PROVE  ListInv'
<1>1. \/ fetch.at # "none" /\ queued' = TRUE /\ fetch' = fetch
      \/ fetch.at = "none" /\ fetch' = [fetch EXCEPT !.at = "sent"] /\ queued' = queued
  BY DEF D!RefreshTickets
<1>2. DashTyped' /\ (fetch' = fetch \/ fetch'.at = "sent")
  BY <1>1 DEF ListInv, DashTyped
<1>3. NoneAhead' /\ D!ListGoesForward'
  BY <1>2 DEF ListInv, NoneAhead, D!ListGoesForward
<1>4. D!EventsAreFollowed'
  <2>1. queued' = TRUE \/ fetch'.at = "sent"
    BY <1>1 DEF ListInv, DashTyped
  <2> QED BY <2>1 DEF D!EventsAreFollowed
<1> QED BY <1>2, <1>3, <1>4 DEF ListInv

(* A ticket of the server changes: nothing else has to.                    *)
LEMMA ChangesSound ==
  ASSUME ListInv, NEW t \in DTickets, D!Changes(t),
         UNCHANGED <<list, timer, queued, fetch, told, failed>>
  PROVE  ListInv'
<1>1. revision' = [revision EXCEPT ![t] = @ + 1]
  BY DEF D!Changes
<1>2. revision' \in Numbers /\ \A u \in DTickets : revision[u] <= revision'[u]
  BY <1>1 DEF ListInv, DashTyped, Numbers
<1>3. DashTyped'
  BY <1>2 DEF ListInv, DashTyped
<1>4. \A u \in DTickets : /\ told[u] \in Nat /\ list[u] \in Nat /\ fetch.seen[u] \in Nat
                          /\ revision[u] \in Nat /\ revision'[u] \in Nat
  BY <1>2 DEF ListInv, DashTyped, Numbers
<1>5. NoneAhead'
  BY <1>2, <1>4 DEF ListInv, NoneAhead
<1> QED BY <1>3, <1>5 DEF ListInv, D!EventsAreFollowed, D!ListGoesForward

LEMMA DeliverSound ==
  ASSUME DashInv, NEW t \in DTickets, D!Deliver(t)
  PROVE  DashInv'
<1>1. /\ told' = [told EXCEPT ![t] = revision[t]] /\ timer' = TRUE
      /\ UNCHANGED <<revision, list, queued, fetch, selected, detail, failed, crossed>>
      /\ IF selected = t THEN D!RefreshSelected ELSE UNCHANGED request
  BY DEF D!Deliver
<1>2. DetailInv'
  <2>1. CASE UNCHANGED request
    BY <1>1, <2>1 DEF DashInv, DetailInv, D!DetailOfSelected
  <2> QED BY <1>1, <2>1, RefreshSelectedSound DEF DashInv
<1>3. told' \in Numbers
  BY <1>1 DEF DashInv, ListInv, DashTyped, Numbers
<1>4. DashTyped'
  BY <1>1, <1>3 DEF DashInv, ListInv, DashTyped
<1>5. NoneAhead'
  BY <1>1 DEF DashInv, ListInv, NoneAhead, DashTyped, Numbers
<1>6. D!EventsAreFollowed' /\ D!ListGoesForward'
  BY <1>1 DEF DashInv, ListInv, D!EventsAreFollowed, D!ListGoesForward
<1> QED BY <1>2, <1>4, <1>5, <1>6 DEF DashInv, ListInv

(* A list that arrives is newer than the one shown, so that what it lacks  *)
(* of the events has been asked for again.                                 *)
LEMMA ListArrivesSound ==
  ASSUME ListInv, D!ListArrives
  PROVE  ListInv'
<1>1. /\ fetch.at = "back" /\ list' = fetch.seen
      /\ fetch' = [at |-> "none", seen |-> [u \in DTickets |-> 0]]
      /\ queued' = FALSE /\ timer' = (timer \/ queued)
      /\ UNCHANGED <<revision, failed, told>>
  BY DEF D!ListArrives, D!RefreshEnds, D!NoList
<1>2. DashTyped'
  BY <1>1 DEF ListInv, DashTyped, Numbers
<1>3. NoneAhead' /\ D!ListGoesForward'
  BY <1>1 DEF ListInv, NoneAhead, D!ListGoesForward
<1>4. ASSUME NEW t \in DTickets, list'[t] < told'[t]
      PROVE  timer' \/ queued' \/ failed' > 0
  <2>1. list[t] \in Nat /\ told[t] \in Nat /\ fetch.seen[t] \in Nat
    BY DEF ListInv, DashTyped, Numbers
  <2>2. list[t] < told[t] /\ ~(fetch.seen[t] >= told[t])
    BY <1>1, <1>4, <2>1 DEF ListInv, D!ListGoesForward
  <2>3. timer \/ queued \/ failed > 0
    BY <1>1, <2>2 DEF ListInv, D!EventsAreFollowed
  <2> QED BY <1>1, <2>3
<1>5. D!EventsAreFollowed'
  BY <1>4 DEF D!EventsAreFollowed
<1> QED BY <1>2, <1>3, <1>5 DEF ListInv

LEMMA ListFailsSound ==
  ASSUME ListInv, D!ListFails
  PROVE  ListInv'
<1>1. /\ failed' = failed + 1
      /\ fetch' = [at |-> "none", seen |-> [u \in DTickets |-> 0]]
      /\ queued' = FALSE /\ timer' = (timer \/ queued)
      /\ UNCHANGED <<revision, list, told>>
  BY DEF D!ListFails, D!RefreshEnds, D!NoList
<1>2. DashTyped' /\ failed' > 0
  <2>1. [u \in DTickets |-> 0] \in Numbers
    BY DEF Numbers
  <2>2. fetch' \in [at : {"none", "sent", "back"}, seen : Numbers]
    BY <1>1, <2>1
  <2>3. timer' \in BOOLEAN /\ queued' \in BOOLEAN
    BY <1>1 DEF ListInv, DashTyped
  <2> QED BY <1>1, <2>2, <2>3 DEF ListInv, DashTyped
<1> QED BY <1>1, <1>2 DEF ListInv, NoneAhead, D!EventsAreFollowed, D!ListGoesForward

LEMMA ServerListsSound ==
  ASSUME ListInv, D!ServerLists
  PROVE  ListInv'
<1>1. /\ fetch' = [at |-> "back", seen |-> revision]
      /\ UNCHANGED <<revision, list, timer, queued, failed, told>>
  BY DEF D!ServerLists, D!listVars
<1>2. \A t \in DTickets : /\ told[t] <= revision[t] /\ list[t] <= revision[t]
                          /\ told[t] \in Nat /\ list[t] \in Nat /\ revision[t] \in Nat
  BY DEF ListInv, NoneAhead, DashTyped, Numbers
<1>3. DashTyped'
  BY <1>1 DEF ListInv, DashTyped
<1> QED BY <1>1, <1>2, <1>3 DEF ListInv, NoneAhead, D!EventsAreFollowed, D!ListGoesForward

(* The detail shown is of the ticket that is selected, or the answer       *)
(* crossed a click.                                                        *)
LEMMA DetailArrivesSound ==
  ASSUME DashInv, NEW r \in Requests, D!DetailArrives(r)
  PROVE  DashInv'
<1> DEFINE q == request[r]
<1>1. /\ q.rev # -1
      /\ detail' = [id |-> q.id, rev |-> q.rev]
      /\ request' = [request EXCEPT ![r] = D!Free]
      /\ crossed' = (q.id # selected)
      /\ (IF q.kind = "start" THEN D!RefreshTickets ELSE UNCHANGED <<fetch, queued>>)
      /\ UNCHANGED <<revision, socket, list, timer, selected, changed, clicked, failed, told>>
  BY DEF D!DetailArrives
<1>2. q # D!Free /\ q.id \in DTickets
  BY <1>1 DEF DashInv, DetailInv, D!Free
<1>3. selected # NoTicket /\ detail'.id \in DTickets
  BY <1>1, <1>2 DEF DashInv, DetailInv
<1>4. D!Free \in RequestRecords
  BY DEF D!Free, RequestRecords
<1>5. request' \in [Requests -> RequestRecords]
  BY <1>1, <1>4 DEF DashInv, DetailInv
<1>6. D!DetailOfSelected'
  BY <1>1 DEF D!DetailOfSelected
<1>7. DetailInv'
  BY <1>1, <1>3, <1>5, <1>6 DEF DashInv, DetailInv
<1>8. ListInv'
  <2>1. CASE D!RefreshTickets
    BY <1>1, <2>1, RefreshTicketsSound DEF DashInv
  <2>2. CASE UNCHANGED <<fetch, queued>>
    BY <1>1, <2>2 DEF DashInv, ListInv, DashTyped, NoneAhead, D!EventsAreFollowed,
                      D!ListGoesForward
  <2> QED BY <1>1, <2>1, <2>2
<1> QED BY <1>7, <1>8 DEF DashInv

LEMMA SelectSound ==
  ASSUME DetailInv, NEW t \in DTickets, D!Select(t)
  PROVE  DetailInv'
<1>1. PICK r \in Requests :
        /\ request[r] = D!Free
        /\ request' = [request EXCEPT ![r] = [kind |-> "ticket", id |-> t, rev |-> -1]]
  BY DEF D!Select, D!Asks
<1>2. selected' = t /\ UNCHANGED <<detail, failed, crossed>>
  BY DEF D!Select
<1>3. [kind |-> "ticket", id |-> t, rev |-> -1] \in RequestRecords
  BY DEF RequestRecords
<1>4. request'[r].id = t /\ request'[r].kind # "free"
      /\ \A q \in Requests : q # r => request'[q] = request[q]
  BY <1>1 DEF DetailInv
<1> QED BY <1>1, <1>2, <1>3, <1>4, SelectionAssumption DEF DetailInv, D!DetailOfSelected

(* What the server answers changes the answer alone.                       *)
LEMMA AnswersSound ==
  ASSUME DetailInv, NEW r \in Requests, request[r] # D!Free, NEW n \in Int,
         request' = [request EXCEPT ![r].rev = n],
         UNCHANGED <<selected, detail, crossed, failed>>
  PROVE  DetailInv'
<1>1. /\ request' \in [Requests -> RequestRecords]
      /\ \A q \in Requests : request'[q].id = request[q].id /\ request'[q].kind = request[q].kind
      /\ \A q \in Requests : q # r => request'[q] = request[q]
  BY DEF DetailInv, RequestRecords
<1> QED BY <1>1 DEF DetailInv, D!DetailOfSelected

LEMMA RequestFailsSound ==
  ASSUME DetailInv, failed \in Nat, NEW r \in Requests, D!RequestFails(r)
  PROVE  DetailInv'
<1>1. /\ failed' = failed + 1 /\ request' = [request EXCEPT ![r] = D!Free]
      /\ UNCHANGED <<selected, detail, crossed>>
  BY DEF D!RequestFails, D!detailVars
<1>2. D!Free \in RequestRecords /\ failed' > 0
  BY <1>1 DEF D!Free, RequestRecords
<1> QED BY <1>1, <1>2 DEF DetailInv, D!DetailOfSelected

(* Steps that leave the lists, or the details, as they are.                *)
LEMMA ListStays ==
  ASSUME ListInv, UNCHANGED <<revision, list, timer, queued, fetch, told>>,
         failed' \in Nat, failed <= failed'
  PROVE  ListInv'
BY DEF ListInv, DashTyped, NoneAhead, D!EventsAreFollowed, D!ListGoesForward

LEMMA DetailStays ==
  ASSUME DetailInv, UNCHANGED <<selected, detail, request, crossed>>,
         failed \in Nat, failed' \in Nat, failed <= failed'
  PROVE  DetailInv'
BY DEF DetailInv, D!DetailOfSelected

LEMMA DashStep == DashInv /\ (D!DashboardNext \/ UNCHANGED dashboardVars) => DashInv'
<1> SUFFICES ASSUME DashInv, D!DashboardNext \/ UNCHANGED dashboardVars PROVE DashInv'
  OBVIOUS
<1>i. ListInv /\ DetailInv /\ failed \in Nat
  BY DEF DashInv, ListInv, DashTyped
<1>1. CASE UNCHANGED dashboardVars
  BY <1>1, <1>i, ListStays, DetailStays DEF DashInv, dashboardVars
<1>2. ASSUME NEW t \in DTickets, D!Change(t) PROVE DashInv'
  BY <1>2, <1>i, ChangesSound, DetailStays DEF DashInv, D!Change, D!listVars, D!detailVars
<1>3. ASSUME NEW t \in DTickets, D!Select(t) PROVE DashInv'
  BY <1>3, <1>i, SelectSound, ListStays DEF DashInv, D!Select, D!listVars
<1>4. CASE D!TimerFires
  <2>1. ListInv'
    BY <1>4, <1>i, RefreshTicketsSound DEF D!TimerFires
  <2> QED BY <1>4, <1>i, <2>1, DetailStays DEF DashInv, D!TimerFires, D!detailVars
<1>5. CASE D!Poll
  <2>1. ListInv'
    BY <1>5, <1>i, RefreshTicketsSound DEF D!Poll
  <2>2. DetailInv'
    BY <1>5, <1>i, RefreshSelectedSound DEF D!Poll
  <2> QED BY <2>1, <2>2 DEF DashInv
<1>6. CASE D!ServerLists
  BY <1>6, <1>i, ServerListsSound, DetailStays DEF DashInv, D!ServerLists, D!detailVars
<1>7. CASE D!ListArrives
  BY <1>7, <1>i, ListArrivesSound, DetailStays DEF DashInv, D!ListArrives, D!detailVars
<1>8. CASE D!ListFails
  BY <1>8, <1>i, ListFailsSound, DetailStays DEF DashInv, D!ListFails, D!detailVars
<1>9. CASE D!Start
  <2>1. detail.id \in DTickets /\ selected # NoTicket /\ D!Asks("start", detail.id)
        /\ UNCHANGED <<selected, detail, crossed, failed>>
    BY <1>9, <1>i DEF D!Start, DetailInv
  <2>2. DetailInv'
    BY <1>i, <2>1, AsksSound
  <2> QED BY <1>9, <1>i, <2>2, ListStays DEF DashInv, D!Start, D!listVars
<1>10. ASSUME NEW r \in Requests, D!ServerShows(r) PROVE DashInv'
  <2>1. /\ request[r].kind = "ticket" /\ request' = [request EXCEPT ![r].rev = revision[request[r].id]]
        /\ UNCHANGED <<selected, detail, crossed, failed>>
    BY <1>10 DEF D!ServerShows
  <2>2. request[r] # D!Free /\ revision[request[r].id] \in Int
    <3>1. request[r] # D!Free
      BY <2>1 DEF D!Free
    <3> QED BY <1>i, <3>1 DEF DetailInv, ListInv, DashTyped, Numbers
  <2>3. DetailInv'
    BY <1>i, <2>1, <2>2, AnswersSound
  <2> QED BY <1>10, <1>i, <2>3, ListStays DEF DashInv, D!ServerShows, D!listVars
<1>11. ASSUME NEW r \in Requests, D!ServerStarts(r) PROVE DashInv'
  <2>1. /\ request[r].kind = "start" /\ D!Changes(request[r].id)
        /\ request' = [request EXCEPT ![r].rev = revision[request[r].id] + 1]
        /\ UNCHANGED <<list, timer, queued, fetch, told, failed, selected, detail, crossed>>
    BY <1>11 DEF D!ServerStarts, D!listVars
  <2>2. request[r] # D!Free
    BY <2>1 DEF D!Free
  <2>3. request[r].id \in DTickets /\ revision[request[r].id] + 1 \in Int
    BY <1>i, <2>2 DEF DetailInv, ListInv, DashTyped, Numbers
  <2>4. DetailInv'
    BY <1>i, <2>1, <2>2, <2>3, AnswersSound
  <2>5. ListInv'
    BY <1>i, <2>1, <2>3, ChangesSound
  <2> QED BY <2>4, <2>5 DEF DashInv
<1>12. ASSUME NEW r \in Requests, D!RequestFails(r) PROVE DashInv'
  <2>1. DetailInv'
    BY <1>12, <1>i, RequestFailsSound
  <2> QED BY <1>12, <1>i, <2>1, ListStays DEF DashInv, D!RequestFails, D!listVars
<1>13. CASE D!SocketCloses \/ D!Reconnect
  BY <1>13, <1>i, ListStays, DetailStays DEF DashInv, D!SocketCloses, D!Reconnect, D!listVars,
                                             D!detailVars
<1>14. ASSUME NEW t \in DTickets, D!Deliver(t) PROVE DashInv'
  BY <1>14, DeliverSound
<1>15. ASSUME NEW r \in Requests, D!DetailArrives(r) PROVE DashInv'
  BY <1>15, DetailArrivesSound
<1> QED BY <1>1, <1>2, <1>3, <1>4, <1>5, <1>6, <1>7, <1>8, <1>9, <1>10, <1>11, <1>12, <1>13,
           <1>14, <1>15 DEF D!DashboardNext

-----------------------------------------------------------------------------
(* The work queue.                                                         *)

Phases == {"open", "absent", "running", "aside", "done", "canceled"}
Views == [Q!Ids -> {"open", "absent", "satisfied", "unfit"}]

(* What a worker relies on, and what stays true however long ago it looked:*)
(* a ticket that was done or canceled is so, or was reopened.              *)
Settled(i) == phase[i] \in Q!Satisfied \/ i \in reopened

WorkerRecords ==
  [pc : {"idle", "listed", "choose", "served", "working"}, seen : Views, ticket : Nat]

QueueTyped ==
  /\ phase \in [Q!Ids -> Phases]
  /\ blockedBy \in [Q!Ids -> SUBSET Q!Ids]
  /\ worker \in [Workers -> WorkerRecords]
  /\ producer \in [Producers -> {"idle", "create"}]

(* While a producer is about to create a ticket it holds the lock, and no  *)
(* ticket with its key is live.                                            *)
CreatesAlone ==
  \A p \in Producers : producer[p] = "create" =>
    qlock = p /\ Q!Live = {} /\ \E i \in Q!Created : phase[i] = "absent"

OneLive == \A i, j \in Q!Live \ reopened : i = j

(* What lists and look-ups said stands for what is.                        *)
ViewsStand ==
  \A w \in Workers, i \in Q!Ids :
    /\ worker[w].seen[i] = "satisfied" => Settled(i)
    /\ worker[w].seen[i] = "open" => phase[i] # "absent"

ServedStands ==
  \A w \in Workers :
    /\ worker[w].pc \in {"served", "working"} =>
         worker[w].ticket \in Q!Ids /\ phase[worker[w].ticket] # "absent"
    /\ worker[w].pc = "served" => \A d \in blockedBy[worker[w].ticket] : Settled(d)

QueueInv == QueueTyped /\ CreatesAlone /\ OneLive /\ ViewsStand /\ ServedStands

(* The numbers of the tickets.                                             *)
LEMMA IdsAreNumbers ==
  Q!Ids \subseteq Nat /\ Planned \subseteq Q!Ids /\ Q!Created \subseteq Q!Ids
<1>1. PICK n \in Nat : n = Cardinality(Planned) /\ Planned = 1..n
  BY QueueAssumption, FS_CardinalityType
<1>2. Q!Cardinality(Planned) = Cardinality(Planned)
  BY DEF Q!Cardinality, Cardinality
<1>3. Q!Created = (n + 1)..(n + MaxCreated) /\ Planned = 1..n
  BY <1>1, <1>2 DEF Q!Created
<1>4. MaxCreated \in Nat
  BY QueueAssumption
<1> QED BY <1>3, <1>4 DEF Q!Ids

(* Every set of numbers that is not empty has a least one.                 *)
LEMMA LeastIs ==
  ASSUME NEW X, X \subseteq Nat, X # {}
  PROVE  Q!Min(X) \in X
<1> DEFINE Less == {ss \in Nat \X Nat : ss[1] < ss[2]}
<1>1. IsWellFoundedOn(Less, Nat)
  BY NatLessThanWellFounded DEF OpToRel
<1> HIDE DEF Less
<1>2. PICK x \in X : \A y \in X : <<y, x>> \notin Less
  BY <1>1, WFMin, Zenon
<1>3. \A y \in X : ~(y < x)
  BY <1>2 DEF Less
<1>4. \A y \in X : x =< y
  BY <1>3
<1> QED BY <1>4 DEF Q!Min

LEMMA QueueInit == Q!QInit => QueueInv
<1> SUFFICES ASSUME Q!QInit PROVE QueueInv
  OBVIOUS
<1>1. /\ phase = [i \in Q!Ids |-> IF i \in Planned THEN "open" ELSE "absent"]
      /\ blockedBy \in [Q!Ids -> SUBSET Planned]
      /\ worker = [w \in Workers |-> Q!Resting] /\ producer = [p \in Producers |-> "idle"]
  BY DEF Q!QInit
<1>2. Q!Resting \in [pc : {"idle"}, seen : Views, ticket : Nat]
      /\ \A i \in Q!Ids : Q!Resting.seen[i] = "absent"
  BY DEF Q!Resting, Q!Nothing, Views
<1>3. QueueTyped
  BY <1>1, <1>2, IdsAreNumbers DEF QueueTyped, Phases, WorkerRecords
<1>4. \A i \in Q!Created : phase[i] = "absent"
  <2>1. PICK n \in Nat : n = Cardinality(Planned) /\ Planned = 1..n
    BY QueueAssumption, FS_CardinalityType
  <2>2. Q!Cardinality(Planned) = Cardinality(Planned)
    BY DEF Q!Cardinality, Cardinality
  <2>3. Q!Created = (n + 1)..(n + MaxCreated) /\ Planned = 1..n
    BY <2>1, <2>2 DEF Q!Created
  <2>4. MaxCreated \in Nat
    BY QueueAssumption
  <2>5. \A i \in Q!Created : i \notin Planned
    BY <2>3, <2>4
  <2> QED BY <1>1, <2>5, IdsAreNumbers
<1>5. Q!Live = {}
  BY <1>4 DEF Q!Live
<1>6. \A w \in Workers : worker[w] = Q!Resting
  BY <1>1
<1> QED BY <1>1, <1>2, <1>3, <1>5, <1>6 DEF QueueInv, CreatesAlone, OneLive, ViewsStand, ServedStands

(* A ticket that exists takes another phase: nobody creates meanwhile, and *)
(* one that was canceled counts as reopened.                               *)
LEMMA BecomesSound ==
  ASSUME QueueInv, NEW i \in Q!Ids, NEW ph \in Phases, Q!Becomes(i, ph),
         phase[i] \notin {"absent", "done"}, ph # "absent",
         UNCHANGED <<blockedBy, producer, qlock>>
  PROVE  /\ phase' \in [Q!Ids -> Phases] /\ OneLive' /\ CreatesAlone'
         /\ \A j \in Q!Ids : Settled(j) => Settled(j)'
         /\ \A j \in Q!Ids : phase[j] # "absent" => phase'[j] # "absent"
<1>1. /\ qlock = Unlocked /\ phase' = [phase EXCEPT ![i] = ph]
      /\ reopened' = IF phase[i] = "canceled" THEN reopened \cup {i} ELSE reopened
  BY DEF Q!Becomes
<1>2. phase' \in [Q!Ids -> Phases] /\ phase'[i] = ph
      /\ \A j \in Q!Ids : j # i => phase'[j] = phase[j]
  BY <1>1 DEF QueueInv, QueueTyped
<1>3. \A j \in Q!Live' \ reopened' : j \in Q!Live \ reopened
  BY <1>1, <1>2, IdsAreNumbers DEF Q!Live
<1>4. OneLive'
  BY <1>3 DEF QueueInv, OneLive
<1>5. \A p \in Producers : producer'[p] # "create"
  BY <1>1, QueueAssumption DEF QueueInv, CreatesAlone
<1>6. CreatesAlone'
  BY <1>5 DEF CreatesAlone
<1>7. \A j \in Q!Ids : Settled(j) => Settled(j)'
  BY <1>1, <1>2 DEF Settled, Q!Satisfied
<1> QED BY <1>2, <1>4, <1>6, <1>7

(* What workers saw and were served stands, as long as tickets neither     *)
(* vanish nor lose what settled them.                                      *)
LEMMA WorkersStand ==
  ASSUME QueueInv, NEW w \in Workers,
         \A j \in Q!Ids : Settled(j) => Settled(j)',
         \A j \in Q!Ids : phase[j] # "absent" => phase'[j] # "absent",
         \A v \in Workers \ {w} : worker'[v] = worker[v],
         worker'[w].seen \in Views, blockedBy' = blockedBy,
         \A i \in Q!Ids : /\ worker'[w].seen[i] = "satisfied" => Settled(i)'
                          /\ worker'[w].seen[i] = "open" => phase'[i] # "absent",
         worker'[w].pc \in {"served", "working"} =>
            worker'[w].ticket \in Q!Ids /\ phase'[worker'[w].ticket] # "absent",
         worker'[w].pc = "served" => \A d \in blockedBy[worker'[w].ticket] : Settled(d)'
  PROVE  ViewsStand' /\ ServedStands'
<1>1. ASSUME NEW v \in Workers, v # w, NEW i \in Q!Ids
      PROVE  /\ worker'[v].seen[i] = "satisfied" => Settled(i)'
             /\ worker'[v].seen[i] = "open" => phase'[i] # "absent"
  BY <1>1 DEF QueueInv, ViewsStand
<1>2. ViewsStand'
  <2>1. ASSUME NEW v \in Workers, NEW i \in Q!Ids
        PROVE  /\ worker'[v].seen[i] = "satisfied" => Settled(i)'
               /\ worker'[v].seen[i] = "open" => phase'[i] # "absent"
    <3>1. CASE v = w
      BY <3>1
    <3>2. CASE v # w
      BY <1>1, <3>2
    <3> QED BY <3>1, <3>2
  <2> QED BY <2>1 DEF ViewsStand
<1>3. ASSUME NEW v \in Workers, v # w
      PROVE  /\ worker'[v].pc \in {"served", "working"} =>
                  worker'[v].ticket \in Q!Ids /\ phase'[worker'[v].ticket] # "absent"
             /\ worker'[v].pc = "served" => \A d \in blockedBy[worker'[v].ticket] : Settled(d)'
  <2>1. worker'[v] = worker[v]
    BY <1>3
  <2>2. CASE worker[v].pc = "served"
    <3>1. worker[v].ticket \in Q!Ids /\ blockedBy[worker[v].ticket] \subseteq Q!Ids
      BY <2>2 DEF QueueInv, QueueTyped, ServedStands
    <3> QED BY <2>1, <2>2, <3>1 DEF QueueInv, ServedStands
  <2>3. CASE worker[v].pc # "served"
    BY <2>1, <2>3 DEF QueueInv, ServedStands
  <2> QED BY <2>2, <2>3
<1>4. ServedStands'
  BY <1>3 DEF ServedStands
<1> QED BY <1>2, <1>4

LEMMA FindsSound ==
  ASSUME QueueInv, NEW p \in Producers, Q!FindsNoDuplicate(p)
  PROVE  QueueInv'
<1>1. /\ qlock = Unlocked /\ qlock' = p /\ Q!Live = {} /\ \E i \in Q!Created : phase[i] = "absent"
      /\ producer' = [producer EXCEPT ![p] = "create"]
      /\ UNCHANGED <<phase, blockedBy, worker, reopened>>
  BY DEF Q!FindsNoDuplicate, Q!Checks
<1>2. \A q \in Producers : producer[q] # "create"
  BY <1>1, QueueAssumption DEF QueueInv, CreatesAlone
<1>3. Q!Live' = Q!Live /\ producer' \in [Producers -> {"idle", "create"}]
      /\ \A q \in Producers : producer'[q] = "create" => q = p
  BY <1>1, <1>2 DEF QueueInv, QueueTyped, Q!Live
<1>4. CreatesAlone'
  BY <1>1, <1>3 DEF CreatesAlone
<1> QED BY <1>1, <1>3, <1>4 DEF QueueInv, QueueTyped, OneLive, ViewsStand, ServedStands, Settled

(* The ticket created is the only live one with the key.                   *)
LEMMA CreateSound ==
  ASSUME QueueInv, NEW p \in Producers, Q!CreateTicket(p)
  PROVE  QueueInv'
<1> DEFINE gone == {i \in Q!Created : phase[i] = "absent"}
<1>1. PICK new : new = Q!Min(gone)
  OBVIOUS
<1>2. /\ producer[p] = "create" /\ phase' = [phase EXCEPT ![new] = "open"]
      /\ producer' = [producer EXCEPT ![p] = "idle"]
      /\ UNCHANGED <<blockedBy, worker, reopened>>
  BY <1>1 DEF Q!CreateTicket
<1>3. qlock = p /\ Q!Live = {} /\ gone # {}
  BY <1>2 DEF QueueInv, CreatesAlone
<1>4. new \in gone /\ new \in Q!Ids
  BY <1>1, <1>3, IdsAreNumbers, LeastIs
<1>5. phase' \in [Q!Ids -> Phases] /\ phase'[new] = "open"
      /\ \A j \in Q!Ids : j # new => phase'[j] = phase[j]
  BY <1>2, <1>4 DEF QueueInv, QueueTyped, Phases
<1>6. \A j \in Q!Live' : j = new
  BY <1>3, <1>5, IdsAreNumbers DEF Q!Live
<1>7. OneLive'
  BY <1>6 DEF OneLive
<1>8. producer' \in [Producers -> {"idle", "create"}] /\ \A q \in Producers : producer'[q] # "create"
  BY <1>2, <1>3 DEF QueueInv, QueueTyped, CreatesAlone
<1>9. \A j \in Q!Ids : /\ Settled(j) => Settled(j)'
                       /\ phase[j] # "absent" => phase'[j] # "absent"
  BY <1>2, <1>4, <1>5 DEF Settled, Q!Satisfied
<1>10. ViewsStand'
  BY <1>2, <1>9 DEF QueueInv, ViewsStand
<1>11. ServedStands'
  <2>1. ASSUME NEW w \in Workers, worker[w].pc = "served"
        PROVE  \A d \in blockedBy[worker[w].ticket] : Settled(d)'
    <3>1. worker[w].ticket \in Q!Ids /\ blockedBy[worker[w].ticket] \subseteq Q!Ids
      BY <2>1 DEF QueueInv, QueueTyped, ServedStands
    <3> QED BY <1>9, <2>1, <3>1 DEF QueueInv, ServedStands
  <2> QED BY <1>2, <1>9, <2>1 DEF QueueInv, ServedStands
<1>12. CreatesAlone'
  BY <1>8 DEF CreatesAlone
<1> QED BY <1>2, <1>5, <1>7, <1>8, <1>10, <1>11, <1>12 DEF QueueInv, QueueTyped

(* A person cancels, reopens or answers.                                   *)
LEMMA DecideSound ==
  ASSUME QueueInv, Q!Decide
  PROVE  QueueInv'
<1>1. UNCHANGED <<blockedBy, worker, producer, qlock>>
  BY DEF Q!Decide
<1>2. PICK i \in Q!Ids, ph \in Phases :
        phase[i] \notin {"absent", "done"} /\ ph # "absent" /\ Q!Becomes(i, ph)
  BY DEF Q!Decide, Phases
<1>3. /\ phase' \in [Q!Ids -> Phases] /\ OneLive' /\ CreatesAlone'
      /\ \A j \in Q!Ids : Settled(j) => Settled(j)'
      /\ \A j \in Q!Ids : phase[j] # "absent" => phase'[j] # "absent"
  BY <1>1, <1>2, BecomesSound
<1>4. ViewsStand'
  BY <1>1, <1>3 DEF QueueInv, ViewsStand
<1>5. ServedStands'
  <2>1. ASSUME NEW w \in Workers, worker[w].pc = "served"
        PROVE  \A d \in blockedBy[worker[w].ticket] : Settled(d)'
    <3>1. worker[w].ticket \in Q!Ids /\ blockedBy[worker[w].ticket] \subseteq Q!Ids
      BY <2>1 DEF QueueInv, QueueTyped, ServedStands
    <3> QED BY <1>3, <2>1, <3>1 DEF QueueInv, ServedStands
  <2> QED BY <1>1, <1>3, <2>1 DEF QueueInv, ServedStands
<1> QED BY <1>1, <1>3, <1>4, <1>5 DEF QueueInv, QueueTyped

(* A worker's own steps, as far as they leave the phases alone.            *)
LEMMA QuietWorkerSound ==
  ASSUME QueueInv, NEW w \in Workers, NEW x,
         x \in WorkerRecords,
         worker' = [worker EXCEPT ![w] = x],
         UNCHANGED <<phase, blockedBy, producer, qlock, reopened>>,
         \A i \in Q!Ids : /\ x.seen[i] = "satisfied" => Settled(i)
                          /\ x.seen[i] = "open" => phase[i] # "absent",
         x.pc \in {"served", "working"} => x.ticket \in Q!Ids /\ phase[x.ticket] # "absent",
         x.pc = "served" => \A d \in blockedBy[x.ticket] : Settled(d)
  PROVE  QueueInv'
<1>1. /\ worker' \in [Workers -> WorkerRecords]
      /\ worker'[w] = x /\ \A v \in Workers \ {w} : worker'[v] = worker[v]
  BY DEF QueueInv, QueueTyped
<1>2. QueueTyped' /\ CreatesAlone' /\ OneLive'
  BY <1>1 DEF QueueInv, QueueTyped, CreatesAlone, OneLive, Q!Live
<1>3. \A j \in Q!Ids : Settled(j)' <=> Settled(j)
  BY DEF Settled
<1>4. ViewsStand'
  BY <1>1, <1>3 DEF QueueInv, ViewsStand
<1>5. ServedStands'
  <2>1. \A j : Settled(j)' <=> Settled(j)
    BY DEF Settled
  <2> QED BY <1>1, <2>1 DEF QueueInv, ServedStands
<1> QED BY <1>2, <1>4, <1>5 DEF QueueInv

(* What a worker sees of a ticket is so.                                   *)
LEMMA SeenIsSo ==
  ASSUME QueueInv, NEW i \in Q!Ids
  PROVE  /\ Q!Seen(i) \in {"open", "absent", "satisfied", "unfit"}
         /\ Q!Seen(i) = "satisfied" => Settled(i)
         /\ Q!Seen(i) = "open" => phase[i] # "absent"
BY DEF Q!Seen, Settled, Q!Satisfied

LEMMA ListSound ==
  ASSUME QueueInv, NEW w \in Workers, Q!ListTickets(w)
  PROVE  QueueInv'
<1> DEFINE x == [pc |-> "listed", ticket |-> 0,
                 seen |-> [i \in Q!Ids |-> IF place[i] = "current" THEN Q!Seen(i) ELSE "absent"]]
<1>1. /\ worker' = [worker EXCEPT ![w] = x]
      /\ UNCHANGED <<phase, blockedBy, producer, qlock, reopened>>
  BY DEF Q!ListTickets
<1>2. x.seen \in Views
  BY SeenIsSo DEF Views
<1>3. x \in WorkerRecords
      /\ x.pc = "listed"
  BY <1>2 DEF WorkerRecords
<1>4. \A i \in Q!Ids : /\ x.seen[i] = "satisfied" => Settled(i)
                       /\ x.seen[i] = "open" => phase[i] # "absent"
  BY SeenIsSo
<1> HIDE DEF x
<1> QED BY <1>1, <1>3, <1>4, QuietWorkerSound

LEMMA LookUpSound ==
  ASSUME QueueInv, NEW w \in Workers, Q!SnapshotWithDependencies(w)
  PROVE  QueueInv'
<1>1. PICK found : Q!LooksUp(w, found)
  BY DEF Q!SnapshotWithDependencies
<1> DEFINE more == Q!Extended(worker[w].seen, found)
           x == [worker[w] EXCEPT !.pc = "choose", !.seen = more]
<1>2. worker' = [worker EXCEPT ![w].pc = "choose", ![w].seen = more]
      /\ UNCHANGED <<phase, blockedBy, producer, qlock, reopened>>
  BY <1>1 DEF Q!LooksUp
<1>3. \A i \in Q!Ids : more[i] = worker[w].seen[i] \/ more[i] = Q!Seen(i)
  BY DEF Q!Extended
<1>4. more \in Views
  <2>1. \A i \in Q!Ids : worker[w].seen[i] \in {"open", "absent", "satisfied", "unfit"}
    BY DEF QueueInv, QueueTyped, Views, WorkerRecords
  <2>2. \A i \in Q!Ids : more[i] \in {"open", "absent", "satisfied", "unfit"}
    BY <1>3, <2>1, SeenIsSo
  <2> QED BY <2>2 DEF Views, Q!Extended
<1>5. \A i \in Q!Ids : /\ more[i] = "satisfied" => Settled(i)
                       /\ more[i] = "open" => phase[i] # "absent"
  BY <1>3, SeenIsSo DEF QueueInv, ViewsStand
<1> HIDE DEF more
<1>6. x \in WorkerRecords
      /\ x.pc = "choose" /\ x.seen = more
  BY <1>4 DEF QueueInv, QueueTyped, WorkerRecords
<1>7. worker' = [worker EXCEPT ![w] = x]
  BY <1>2 DEF QueueInv, QueueTyped
<1> HIDE DEF x
<1>8. \A i \in Q!Ids : /\ x.seen[i] = "satisfied" => Settled(i)
                       /\ x.seen[i] = "open" => phase[i] # "absent"
  BY <1>5, <1>6
<1> QED BY <1>2, <1>6, <1>7, <1>8, QuietWorkerSound

(* What is chosen was open and its dependencies settled when they were seen,*)
(* and so they are still.                                                  *)
LEMMA ChooseSound ==
  ASSUME QueueInv, NEW w \in Workers, Q!Choose(w)
  PROVE  QueueInv'
<1> DEFINE seen == worker[w].seen
           runnable == {i \in Q!Ids : Q!Runnable(i, seen)}
           x == IF runnable = {} THEN Q!Resting
                ELSE [pc |-> "served", seen |-> Q!Nothing, ticket |-> Q!Min(runnable)]
<1>1. /\ worker' = [worker EXCEPT ![w] = x]
      /\ UNCHANGED <<phase, blockedBy, producer, qlock, reopened>>
  BY DEF Q!Choose
<1>2. Q!Nothing \in Views /\ \A i \in Q!Ids : Q!Nothing[i] = "absent"
  BY DEF Q!Nothing, Views
<1>3. CASE runnable = {}
  <2>1. x = [pc |-> "idle", seen |-> Q!Nothing, ticket |-> 0]
    BY <1>3 DEF Q!Resting
  <2>2. /\ x \in WorkerRecords
        /\ x.pc = "idle" /\ x.seen = Q!Nothing
    BY <1>2, <2>1 DEF WorkerRecords
  <2> HIDE DEF x
  <2> QED BY <1>1, <1>2, <2>2, QuietWorkerSound
<1>4. CASE runnable # {}
  <2>1. PICK i : i = Q!Min(runnable)
    OBVIOUS
  <2>2. i \in Q!Ids /\ i \in Nat /\ Q!RunnableIn(i, seen)
    BY <1>4, <2>1, IdsAreNumbers, LeastIs DEF Q!Runnable
  <2>3. blockedBy[i] \subseteq Q!Ids
    BY <2>2 DEF QueueInv, QueueTyped
  <2>4. phase[i] # "absent" /\ \A d \in blockedBy[i] : Settled(d)
    BY <2>2, <2>3 DEF Q!RunnableIn, QueueInv, ViewsStand
  <2>5. x = [pc |-> "served", seen |-> Q!Nothing, ticket |-> i]
    BY <1>4, <2>1
  <2>6. /\ x \in WorkerRecords
        /\ x.pc = "served" /\ x.seen = Q!Nothing /\ x.ticket = i
    BY <1>2, <2>2, <2>5 DEF WorkerRecords
  <2> HIDE DEF x
  <2> QED BY <1>1, <1>2, <2>2, <2>4, <2>6, QuietWorkerSound
<1> QED BY <1>3, <1>4

(* A worker starts or finishes its ticket, unless that is done.            *)
LEMMA WorkSound ==
  ASSUME QueueInv, NEW w \in Workers, Q!StartServed(w) \/ Q!Finish(w)
  PROVE  QueueInv'
<1>1. PICK i, x :
        /\ i = worker[w].ticket /\ worker[w].pc \in {"served", "working"}
        /\ x = Q!Resting \/ x = [worker[w] EXCEPT !.pc = "working"]
        /\ worker' = [worker EXCEPT ![w] = x]
        /\ UNCHANGED <<blockedBy, producer, qlock>>
        /\ \/ UNCHANGED <<phase, reopened>>
           \/ phase[i] # "done" /\ \E ph \in {"running", "done", "aside"} : Q!Becomes(i, ph)
  <2>1. worker[w] \in WorkerRecords
        /\ worker = [v \in Workers |-> worker[v]]
    BY DEF QueueInv, QueueTyped
  <2>2. CASE Q!StartServed(w)
    <3> DEFINE i == worker[w].ticket
    <3>1. CASE phase[i] = "done"
      BY <2>2, <3>1 DEF Q!StartServed
    <3>2. CASE phase[i] # "done"
      <4>1. worker' = [worker EXCEPT ![w] = [worker[w] EXCEPT !.pc = "working"]]
        BY <2>1, <2>2, <3>2 DEF Q!StartServed
      <4> QED BY <2>2, <3>2, <4>1 DEF Q!StartServed
    <3> QED BY <3>1, <3>2
  <2>3. CASE Q!Finish(w)
    BY <2>3 DEF Q!Finish
  <2> QED BY <2>2, <2>3
<1>2. i \in Q!Ids /\ phase[i] # "absent"
  BY <1>1 DEF QueueInv, ServedStands
<1>3. /\ phase' \in [Q!Ids -> Phases] /\ OneLive' /\ CreatesAlone'
      /\ \A j \in Q!Ids : Settled(j) => Settled(j)'
      /\ \A j \in Q!Ids : phase[j] # "absent" => phase'[j] # "absent"
  <2>1. CASE UNCHANGED <<phase, reopened>>
    BY <1>1, <2>1 DEF QueueInv, QueueTyped, OneLive, CreatesAlone, Settled, Q!Live
  <2>2. ASSUME NEW ph \in {"running", "done", "aside"}, phase[i] # "done", Q!Becomes(i, ph)
        PROVE  /\ phase' \in [Q!Ids -> Phases] /\ OneLive' /\ CreatesAlone'
               /\ \A j \in Q!Ids : Settled(j) => Settled(j)'
               /\ \A j \in Q!Ids : phase[j] # "absent" => phase'[j] # "absent"
    BY <1>1, <1>2, <2>2, BecomesSound DEF Phases
  <2> QED BY <1>1, <2>1, <2>2
<1>4. /\ x \in [pc : {"idle", "working"}, seen : Views, ticket : Nat]
      /\ x.pc = "working" => x.ticket = i /\ x.seen = worker[w].seen
      /\ x.pc = "idle" => x.seen = Q!Nothing
  <2>1. Q!Resting \in [pc : {"idle"}, seen : Views, ticket : Nat] /\ Q!Resting.seen = Q!Nothing
    BY DEF Q!Resting, Q!Nothing, Views
  <2>2. worker[w] \in WorkerRecords
    BY DEF QueueInv, QueueTyped
  <2> QED BY <1>1, <2>1, <2>2 DEF WorkerRecords
<1>5. /\ worker' \in [Workers -> WorkerRecords]
      /\ worker'[w] = x /\ \A v \in Workers \ {w} : worker'[v] = worker[v]
  BY <1>1, <1>4 DEF QueueInv, QueueTyped, WorkerRecords
<1>6. \A j \in Q!Ids : /\ x.seen[j] = "satisfied" => Settled(j)'
                       /\ x.seen[j] = "open" => phase'[j] # "absent"
  BY <1>3, <1>4 DEF QueueInv, ViewsStand, Q!Nothing
<1>7. ViewsStand' /\ ServedStands'
  BY <1>1, <1>2, <1>3, <1>4, <1>5, <1>6, WorkersStand
<1> QED BY <1>1, <1>3, <1>5, <1>7 DEF QueueInv, QueueTyped

LEMMA QueueStep == QueueInv /\ (Q!QNext \/ UNCHANGED queueVars) => QueueInv'
<1> SUFFICES ASSUME QueueInv, Q!QNext \/ UNCHANGED queueVars PROVE QueueInv'
  OBVIOUS
<1>1. CASE UNCHANGED <<phase, blockedBy, worker, producer, qlock, reopened>>
  BY <1>1 DEF QueueInv, QueueTyped, CreatesAlone, OneLive, ViewsStand, ServedStands, Settled, Q!Live
<1>2. CASE Q!RotateToHistory \/ UNCHANGED queueVars
  BY <1>1, <1>2 DEF Q!RotateToHistory, queueVars
<1> QED BY <1>2, FindsSound, CreateSound, DecideSound, ListSound, LookUpSound, ChooseSound,
           WorkSound DEF Q!QNext

(* A set whose members are all the same has at most one.                   *)
LEMMA AtMostOne ==
  ASSUME NEW X, \A i, j \in X : i = j
  PROVE  Q!Cardinality(X) <= 1
<1>1. Q!Cardinality(X) = Cardinality(X)
  BY DEF Q!Cardinality, Cardinality
<1>2. CASE X = {}
  BY <1>1, <1>2, FS_EmptySet
<1>3. CASE X # {}
  <2>1. PICK x \in X : X = {x}
    BY <1>3
  <2>2. Cardinality({x}) = 1
    BY FS_Singleton
  <2> QED BY <1>1, <2>1, <2>2
<1> QED BY <1>2, <1>3

-----------------------------------------------------------------------------
(* However producers, workers and persons interleave, a key has one live   *)
(* ticket and a served one waits for nothing, although nobody looks under  *)
(* the lock; and whatever requests, events and answers cross, the page     *)
(* asks again for what its list lacks, never shows an older list, and      *)
(* shows the ticket that is selected.                                      *)
THEOREM ServicesSafeCorrect == ServicesSpec => []ServicesSafe
<1>1. ServicesInit => DashInv /\ QueueInv
  BY DashInit, QueueInit DEF ServicesInit
<1>2. DashInv /\ QueueInv /\ [ServicesNext]_servicesVars => DashInv' /\ QueueInv'
  <2> SUFFICES ASSUME DashInv, QueueInv, [ServicesNext]_servicesVars PROVE DashInv' /\ QueueInv'
    OBVIOUS
  <2>1. D!DashboardNext \/ UNCHANGED dashboardVars
    BY DEF ServicesNext, servicesVars
  <2>2. Q!QNext \/ UNCHANGED queueVars
    BY DEF ServicesNext, servicesVars
  <2> QED BY <2>1, <2>2, DashStep, QueueStep
<1>3. DashInv /\ QueueInv => ServicesSafe
  <2> SUFFICES ASSUME DashInv, QueueInv PROVE ServicesSafe
    OBVIOUS
  <2>1. Q!OneLivePerKey
    BY AtMostOne DEF QueueInv, OneLive, Q!OneLivePerKey
  <2>2. Q!ServedIsUnblocked
    BY DEF QueueInv, ServedStands, Settled, Q!ServedIsUnblocked
  <2> QED BY <2>1, <2>2 DEF DashInv, ListInv, DetailInv, ServicesSafe
<1> QED BY <1>1, <1>2, <1>3, PTL DEF ServicesSpec
=============================================================================
