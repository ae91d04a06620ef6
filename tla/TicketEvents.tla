---------------------------- MODULE TicketEvents ----------------------------
(***************************************************************************)
(* What dashboards are told of the tickets of the current sprint           *)
(* (api/server.py 1485-1650, 1778-1890, 3573-3630).                        *)
(*                                                                         *)
(* An API call changes a ticket and then broadcasts it, and notes in       *)
(* _watch_snapshot what it broadcast.  A watcher looks now and then for    *)
(* changes made by other programs: when the signature of the files is not  *)
(* the one it knows it lists the tickets, takes the signature again,       *)
(* broadcasts what differs from _watch_snapshot and replaces that          *)
(* snapshot.  The list and the signature are taken in a thread, beside     *)
(* which handlers run.                                                     *)
(***************************************************************************)
EXTENDS Integers, Sequences, FiniteSets

CONSTANTS WTickets, Clients, Nobody,
          MaxChanges     \* bound of a run

Revisions == 0..MaxChanges  \* 0: the ticket does not exist

VARIABLES
  stored,   \* revision of each ticket in the files, MaxChanges at most in all
  changes,  \* how many there were: the signature of the files
  handler,  \* the ticket an API call changed and has not broadcast yet
  known,    \* _watch_snapshot
  knownSig, \* _watch_source_signature
  look,     \* the watcher: pc, what it listed, the signature after it
  overtaken,\* history: tickets changed between the list and the signature of a
            \* look, or told late by a task after a newer change; until the next look
  clients,  \* connected dashboards and the revisions they were told last
  slow      \* a dashboard that no longer reads its socket

eventVars == <<stored, changes, handler, known, knownSig, look, overtaken,
               clients, slow>>

NoLook == [pc |-> "idle", seen |-> [t \in WTickets |-> 0], sig |-> 0]

WInit ==
  /\ stored \in [WTickets -> {0, 1}]
  /\ changes = 1 /\ handler = Nobody
  /\ known = stored /\ knownSig = 1 /\ look = NoLook /\ overtaken = {}
  /\ clients = [c \in Clients |-> stored]
  /\ slow = Nobody

-----------------------------------------------------------------------------
(* _broadcast_ticket_event sends to every client at once, and a client     *)
(* that does not read is dropped after a second.                           *)
Connected == {c \in Clients : clients[c] # Nobody}

Sent(T, revs) ==
  [c \in Clients |-> IF clients[c] = Nobody \/ c = slow THEN Nobody
                     ELSE [t \in WTickets |-> IF t \in T THEN revs[t] ELSE clients[c][t]]]

Changed(t, rev) ==
  /\ changes < MaxChanges
  /\ changes' = changes + 1
  /\ stored' = [stored EXCEPT ![t] = rev]
  /\ overtaken' = IF look.pc = "sign" THEN overtaken \cup {t} ELSE overtaken

(* A CLI, a hand edit or a rotation; a ticket that leaves the sprint too.  *)
OtherChanges == \E t \in WTickets :
  /\ \/ Changed(t, changes + 1)
     \/ stored[t] # 0 /\ Changed(t, 0)
  /\ UNCHANGED <<handler, known, knownSig, look, clients, slow>>

(* A handler changes the ticket and tells it without a pause of the event  *)
(* loop; the evidence route answers first and tells it as a later task.    *)
ApiChanges == \E t \in WTickets, late \in BOOLEAN :
  /\ handler = Nobody
  /\ Changed(t, changes + 1)
  /\ handler' = [ticket |-> t, revision |-> changes + 1, late |-> late]
  /\ UNCHANGED <<known, knownSig, look, clients, slow>>

OnLoop == handler # Nobody => handler.late

(* delete and move broadcast the id alone and leave the snapshot as it is. *)
ApiDeletes == \E t \in WTickets :
  /\ OnLoop /\ stored[t] # 0
  /\ Changed(t, 0)
  /\ clients' = Sent({t}, [r \in WTickets |-> 0])
  /\ UNCHANGED <<handler, known, knownSig, look, slow>>

Broadcasts ==
  /\ handler # Nobody
  /\ LET t == handler.ticket
     IN /\ known' = [known EXCEPT ![t] = handler.revision]
        /\ overtaken' = IF handler.late /\ handler.revision # stored[t]
                        THEN overtaken \cup {t} ELSE overtaken
        /\ clients' = Sent({t}, [r \in WTickets |-> handler.revision])
  /\ handler' = Nobody
  /\ UNCHANGED <<stored, changes, knownSig, look, slow>>

(* A mutant: a broadcast waits for every client.                           *)
BroadcastsWaitMutant == slow \notin Connected /\ Broadcasts

ApiBroadcasts == Broadcasts

-----------------------------------------------------------------------------
LookForChanges ==
  /\ OnLoop
  /\ look.pc = "idle" /\ changes # knownSig
  /\ look' = [pc |-> "sign", seen |-> stored, sig |-> 0]
  /\ overtaken' = {}
  /\ UNCHANGED <<stored, changes, handler, known, knownSig,  clients, slow>>

SignAfterwards ==
  /\ look.pc = "sign"
  /\ look' = [look EXCEPT !.pc = "tell", !.sig = changes]
  /\ UNCHANGED <<stored, changes, handler, known, knownSig, overtaken, clients, slow>>

(* Tickets that are gone are not told.                                     *)
News == {t \in WTickets : look.seen[t] # 0 /\ look.seen[t] # known[t]}

Tells(T, sig) ==
  /\ look.pc = "tell" /\ OnLoop
  /\ clients' = Sent(T, look.seen)
  /\ known' = look.seen /\ knownSig' = sig
  /\ look' = NoLook
  /\ UNCHANGED <<stored, changes, handler, overtaken, slow>>

(* A mutant: the signature learned is that of the moment of telling.       *)
TellSignNowMutant == Tells(News, changes)

Tell == Tells(News, look.sig)

(* A dashboard stops reading; it connects again and asks for the list.     *)
Stalls == /\ slow = Nobody /\ \E c \in Connected : slow' = c
          /\ UNCHANGED <<stored, changes, handler, known, knownSig, look, overtaken,
                          clients>>

Reconnects == \E c \in Clients :
  /\ clients[c] = Nobody
  /\ clients' = [clients EXCEPT ![c] = stored]
  /\ slow' = IF slow = c THEN Nobody ELSE slow
  /\ UNCHANGED <<stored, changes, handler, known, knownSig, look, overtaken>>

WNext == \/ OtherChanges \/ ApiChanges \/ ApiDeletes \/ ApiBroadcasts
         \/ LookForChanges \/ SignAfterwards \/ Tell \/ Stalls \/ Reconnects

(* The event loop runs every task that is ready; a look starts every few   *)
(* seconds.                                                                *)
WFairness == /\ WF_eventVars(ApiBroadcasts) /\ WF_eventVars(LookForChanges)
             /\ WF_eventVars(SignAfterwards) /\ WF_eventVars(Tell)

WSpec == WInit /\ [][WNext]_eventVars /\ WFairness

-----------------------------------------------------------------------------
(* Once changes cease, every connected dashboard that reads its socket     *)
(* ends with the stored revision of every ticket in the sprint, except one *)
(* that changed while the watcher was between its list and its signature,  *)
(* or whose evidence was told after a newer change was.                    *)
EventuallyTold ==
  <>[](\A c \in Clients, t \in WTickets :
         clients[c] # Nobody /\ c # slow /\ stored[t] # 0 /\ t \notin overtaken
           => clients[c][t] = stored[t])

(* A dashboard that stops reading delays nobody: every API call that       *)
(* changed a ticket gets to its answer.                                    *)
AnswersAnyway == [](handler # Nobody => <>(handler = Nobody))
=============================================================================
