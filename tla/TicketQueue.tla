---------------------------- MODULE TicketQueue ----------------------------
(***************************************************************************)
(* Tickets as a work queue (planfile/__init__.py 101-310): producers       *)
(* create tickets under a dedupe key, workers ask for the next runnable    *)
(* ticket, start it and finish it.  next_ticket takes no lock: it lists    *)
(* the current sprint, then looks up the dependencies that are not in the  *)
(* list and that the locator places in history, then chooses.              *)
(***************************************************************************)
EXTENDS Integers, FiniteSets, FiniteSetsExt

CONSTANTS Planned,   \* tickets of the plan, which block one another; 1..n
          MaxCreated, MaxDecisions, \* bounds of a run: tickets created under the
                                    \* key, decisions of a person
          Workers, Producers, Unlocked

Created == (Cardinality(Planned) + 1)..(Cardinality(Planned) + MaxCreated)
Ids == Planned \cup Created

(* The phase of a ticket is its status with the execution state that goes  *)
(* with it; "aside" is failed, blocked, waiting for an answer or labelled   *)
(* as work for a human.                                                    *)
Satisfied == {"done", "canceled"}

VARIABLES
  phase,     \* of each ticket; a created one carries the dedupe key
  place,     \* "current", "other" (a backlog, another sprint) or "history"
  blockedBy, \* the tickets each waits for
  worker,    \* each worker: pc, the list it got, its view of dependencies
  producer,  \* each producer: pc and whether it found a live ticket
  qlock,     \* who holds the mutation lock
  decisions, \* how many a person made
  reopened   \* history: canceled tickets that were reopened, or started by a
             \* worker that had been served them before

queueVars == <<phase, place, blockedBy, worker, producer, qlock, decisions, reopened>>

Nothing == [i \in Ids |-> "absent"]
Resting == [pc |-> "idle", seen |-> Nothing, ticket |-> 0]

QInit ==
  /\ phase = [i \in Ids |-> IF i \in Planned THEN "open" ELSE "absent"]
  /\ place \in {p \in [Ids -> {"current", "other"}] : \A i \in Created : p[i] = "current"}
  /\ blockedBy \in {b \in [Ids -> SUBSET Planned] :
                      /\ \A i \in Planned : i \notin b[i] /\ Cardinality(b[i]) <= 1
                      /\ \A i \in Created : b[i] = {}}
  /\ worker = [w \in Workers |-> Resting]
  /\ producer = [p \in Producers |-> "idle"]
  /\ qlock = Unlocked
  /\ decisions = 0 /\ reopened = {}

-----------------------------------------------------------------------------
(* Any ticket with the key that is neither done nor canceled is live.      *)
Live == {i \in Created : phase[i] \notin {"absent", "done", "canceled"}}

Checks(p, locked) ==
  /\ producer[p] = "idle"
  /\ locked => qlock = Unlocked
  /\ \E i \in Created : phase[i] = "absent"
  /\ Live = {}
  /\ producer' = [producer EXCEPT ![p] = "create"]
  /\ qlock' = IF locked THEN p ELSE qlock
  /\ UNCHANGED <<phase, place, blockedBy, worker, decisions, reopened>>

(* A mutant: the live tickets are looked for before the lock is taken.     *)
ChecksUnlockedMutant(p) == Checks(p, FALSE)

FindsNoDuplicate(p) == Checks(p, TRUE)

CreateTicket(p) ==
  /\ producer[p] = "create"
  /\ LET new == Min({i \in Created : phase[i] = "absent"})
     IN phase' = [phase EXCEPT ![new] = "open"]
  /\ producer' = [producer EXCEPT ![p] = "idle"]
  /\ qlock' = IF qlock = p THEN Unlocked ELSE qlock
  /\ UNCHANGED <<place, blockedBy, worker, decisions, reopened>>

Becomes(i, ph) ==
  /\ qlock = Unlocked
  /\ phase' = [phase EXCEPT ![i] = ph]
  /\ reopened' = IF phase[i] = "canceled" THEN reopened \cup {i} ELSE reopened

(* A person cancels, reopens, answers; a reopened ticket may again be live *)
(* beside one created since.                                               *)
Decide == \E i \in Ids :
  /\ decisions < MaxDecisions /\ decisions' = decisions + 1
  /\ \/ phase[i] \in {"open", "aside"} /\ Becomes(i, "canceled")
     \/ phase[i] = "aside" /\ Becomes(i, "open")
     \/ phase[i] = "canceled" /\ i \notin reopened /\ place[i] # "history"
        /\ Becomes(i, "open")
  /\ UNCHANGED <<place, blockedBy, worker, producer, qlock>>

(* A rotation moves a closed ticket to history and tells the locator.      *)
RotateToHistory == \E i \in Ids :
  /\ qlock = Unlocked
  /\ phase[i] \in Satisfied /\ place[i] = "current"
  /\ place' = [place EXCEPT ![i] = "history"]
  /\ UNCHANGED <<phase, blockedBy, worker, producer, qlock, decisions, reopened>>

-----------------------------------------------------------------------------
(* What of a phase the choice depends on.                                  *)
Seen(i) == IF phase[i] \in Satisfied THEN "satisfied"
           ELSE IF phase[i] \in {"open", "absent"} THEN phase[i] ELSE "unfit"

(* The dependencies that are neither listed nor in the locator stay unseen.*)
Located(i) == place[i] = "history"

ListTickets(w) ==
  /\ worker[w].pc = "idle"
  /\ worker' = [worker EXCEPT ![w] =
       [pc |-> "listed", ticket |-> 0,
        seen |-> [i \in Ids |-> IF place[i] = "current" THEN Seen(i) ELSE "absent"]]]
  /\ UNCHANGED <<phase, place, blockedBy, producer, qlock, decisions, reopened>>

Extended(seen, found) ==
  [i \in Ids |-> IF seen[i] = "absent" /\ i \in found
                    /\ \E j \in Ids : seen[j] # "absent" /\ i \in blockedBy[j]
                 THEN Seen(i) ELSE seen[i]]

LooksUp(w, found) ==
  /\ worker[w].pc = "listed"
  /\ worker' = [worker EXCEPT ![w].pc = "choose",
                              ![w].seen = Extended(worker[w].seen, found)]
  /\ UNCHANGED <<phase, place, blockedBy, producer, qlock, decisions, reopened>>

(* A mutant: archived dependencies are not looked up.                      *)
LooksNowhereMutant(w) == LooksUp(w, {})

SnapshotWithDependencies(w) == LooksUp(w, {i \in Ids : Located(i)})

(* runnability_skip_reason gives no reason: pending or ready, no label that*)
(* asks for a human, every dependency seen and satisfied.                  *)
RunnableIn(i, seen) ==
  /\ seen[i] = "open"
  /\ \A d \in blockedBy[i] : seen[d] = "satisfied"

(* A mutant: a dependency that is not found does not block.                *)
RunnableUnseenMutant(i, seen) ==
  /\ seen[i] = "open"
  /\ \A d \in blockedBy[i] : seen[d] \in {"satisfied", "absent"}

Runnable(i, seen) == RunnableIn(i, seen)

(* Least in _ticket_sort_key; the order of identifiers stands for it.      *)
Choose(w) ==
  /\ worker[w].pc = "choose"
  /\ LET seen == worker[w].seen
         runnable == {i \in Ids : Runnable(i, seen)}
     IN worker' = [worker EXCEPT ![w] =
          IF runnable = {} THEN Resting
          ELSE [pc |-> "served", seen |-> Nothing, ticket |-> Min(runnable)]]
  /\ UNCHANGED <<phase, place, blockedBy, producer, qlock, decisions, reopened>>

(* start_ticket does not ask what became of the ticket meanwhile, except   *)
(* that a done ticket stays done: a canceled one is taken up again.        *)
StartServed(w) ==
  /\ worker[w].pc = "served"
  /\ LET i == worker[w].ticket
     IN IF phase[i] = "done"
        THEN UNCHANGED <<phase, reopened>> /\ worker' = [worker EXCEPT ![w] = Resting]
        ELSE Becomes(i, "running") /\ worker' = [worker EXCEPT ![w].pc = "working"]
  /\ UNCHANGED <<place, blockedBy, producer, qlock, decisions>>

Finish(w) ==
  /\ worker[w].pc = "working"
  /\ LET i == worker[w].ticket
     IN IF phase[i] = "done" THEN UNCHANGED <<phase, reopened>>
        ELSE \E ph \in {"done", "aside"} : Becomes(i, ph)
  /\ worker' = [worker EXCEPT ![w] = Resting]
  /\ UNCHANGED <<place, blockedBy, producer, qlock, decisions>>

QNext == \/ \E p \in Producers : FindsNoDuplicate(p) \/ CreateTicket(p)
         \/ Decide \/ RotateToHistory
         \/ \E w \in Workers : \/ ListTickets(w) \/ SnapshotWithDependencies(w)
                               \/ Choose(w) \/ StartServed(w) \/ Finish(w)

(* A worker keeps asking, and works off what it is given.                  *)
QFairness ==
  /\ \A p \in Producers : WF_queueVars(CreateTicket(p))
  /\ \A w \in Workers : /\ WF_queueVars(ListTickets(w))
                        /\ WF_queueVars(SnapshotWithDependencies(w))
                        /\ WF_queueVars(Choose(w))
                        /\ SF_queueVars(StartServed(w))
                        /\ SF_queueVars(Finish(w))

QSpec == QInit /\ [][QNext]_queueVars /\ QFairness

-----------------------------------------------------------------------------
(* Two producers that race with one key make one ticket of it: no two live *)
(* tickets share a key unless a canceled one was reopened.                 *)
OneLivePerKey == Cardinality(Live \ reopened) <= 1

(* A ticket a worker is served waits for nothing, although lists and look- *)
(* ups were taken without a lock while others worked: each ticket it is    *)
(* blocked by is done or canceled, or was and has been reopened.           *)
ServedIsUnblocked ==
  \A w \in Workers : worker[w].pc = "served" =>
    \A d \in blockedBy[worker[w].ticket] : phase[d] \in Satisfied \/ d \in reopened

(* What the contract calls runnable, dependencies looked up wherever they  *)
(* are.                                                                    *)
ReallyRunnable(i) == place[i] = "current" /\ RunnableIn(i, [j \in Ids |-> Seen(j)])

(* The queue drains: a ticket does not stay runnable for ever unserved,    *)
(* unless what blocked it was finished in a sprint other than the current  *)
(* one, where next_ticket does not look.                                   *)
QueueDrains ==
  \A i \in Ids : [](ReallyRunnable(i) /\ (\A d \in blockedBy[i] : place[d] # "other")
                    => <>(~ReallyRunnable(i)))
=============================================================================
