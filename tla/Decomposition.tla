--------------------------- MODULE Decomposition ---------------------------
(***************************************************************************)
(* Splitting, ordering, pruning and merging tickets                        *)
(* (planfile/core/decompose.py).  Each call reads tickets without a lock   *)
(* and then makes its mutations one by one; a mutation is atomic but       *)
(* replaces a whole list by one computed from what the call had read.      *)
(* Other calls, workers and people act in between, and a call may die      *)
(* after any of its mutations.                                             *)
(*                                                                         *)
(* Tickets are numbered in the order of their creation; a list is the set  *)
(* of its members, and notes are named by the ticket folded in.            *)
(* Priorities, labels, files and groups are left out.                      *)
(***************************************************************************)
EXTENDS Naturals, SequencesExt

CONSTANTS
  Callers,
  MaxTickets, MaxParts,       \* bounds: tickets, subtasks of one split
  MaxCalls, MaxInterventions  \* bounds: calls begun; tickets served, canceled, deleted

Lists == {"blockedBy", "children", "notes"}
New(parent) == [status |-> "open", parent |-> parent,
                blockedBy |-> {}, children |-> {}, notes |-> {}]

VARIABLES
  ticket,         \* the tickets of the store
  call,           \* what each caller is doing
  calls, interventions,
  promised,       \* history: <<list, t, d>> a mutation put d into a list of t
  stale,          \* history: <<list, t>> replaced from a read that was outdated
  stacks, early   \* history: stacked subtasks in order; subtasks served before

decompositionVars == <<ticket, call, calls, interventions, promised, stale, stacks, early>>

(* on, with: the tickets a call is about; todo: its mutations ahead, each  *)
(* with its ticket or an index; seen: what it read of the ticket it will   *)
(* write; gain: what it adds; listed: the lists a prune saw.               *)
Idle == [on |-> 0, with |-> 0, todo |-> <<>>, seen |-> New(0), gain |-> <<>>, listed |-> <<>>]

DecompositionInit ==
  /\ ticket \in {<<New(0)>>, <<New(0), New(0)>>}
  /\ call = [a \in Callers |-> Idle]
  /\ calls = 0 /\ interventions = 0
  /\ promised = {} /\ stale = {} /\ stacks = {} /\ early = {}

Tickets == DOMAIN ticket
Exists(t) == ticket[t].status # "deleted"
Satisfied(t) == ticket[t].status \in {"done", "canceled"}
Runnable(t) == ticket[t].status = "open" /\ \A d \in ticket[t].blockedBy : Satisfied(d)

(* Tickets by their number.                                                *)
InOrder(S) == SelectSeq([t \in Tickets |-> t], LAMBDA t : t \in S)

-----------------------------------------------------------------------------
Free(a) == call[a] = Idle /\ calls < MaxCalls

(* By a caller that is free.                                               *)
Begins(a, c) ==
  /\ calls' = calls + 1
  /\ call' = [call EXCEPT ![a] = c]
  /\ UNCHANGED <<ticket, interventions, promised, stale, stacks, early>>

(* split_ticket: create n subtasks, stack them, make them the parent's     *)
(* children and hold the parent until they are done.                       *)
SplitTicket(a, p, n, sequential, hold) ==
  /\ Exists(p) /\ Len(ticket) + n <= MaxTickets
  /\ Begins(a, [Idle EXCEPT !.on = p, !.seen = ticket[p],
       !.todo = [i \in 1..n |-> <<"create", p>>]
                \o (IF sequential THEN [i \in 1..(n - 1) |-> <<"stack", i>>] ELSE <<>>)
                \o <<<<"adopt", p>>>>
                \o (IF hold THEN <<<<"wait", p>>>> ELSE <<>>)])

(* add_dependency: t after d, or d before t, which is then read again.     *)
AddDependency(a, t, d, before) ==
  /\ t # d /\ Exists(t) /\ Exists(d)
  /\ Begins(a, [Idle EXCEPT !.on = t, !.seen = ticket[t], !.gain = <<d>>,
       !.todo = (IF before THEN <<<<"look", t>>>> ELSE <<>>) \o <<<<"wait", t>>>>])

(* prune_dangling_dependencies lists a sprint: what is done may have left  *)
(* it.  Blockers that are not listed are looked up one by one.             *)
Prune(a, listed) ==
  LET suspects == {t \in listed : ~ticket[t].blockedBy \subseteq listed}
  IN /\ \A t \in Tickets : ~Satisfied(t) => (t \in listed <=> Exists(t))
     /\ suspects # {}
     /\ Begins(a, [Idle EXCEPT !.gain = InOrder(listed),
          !.listed = [t \in Tickets |-> ticket[t].blockedBy],
          !.todo = [i \in 1..Cardinality(suspects) |-> <<"prune", InOrder(suspects)[i]>>]])

(* merge_ticket: fold c into t, cancel c, detach it from its parent.       *)
MergeTicket(a, c, t) ==
  LET parent == ticket[c].parent
  IN /\ c # t /\ Exists(c) /\ Exists(t)
     /\ Begins(a, [Idle EXCEPT !.on = t, !.with = c, !.seen = ticket[t],
          !.gain = InOrder(ticket[c].notes \cup {c}),
          !.todo = <<<<"fold", t>>, <<"cancel", c>>>>
                   \o (IF parent = 0 THEN <<>> ELSE <<<<"look", parent>>, <<"detach", parent>>>>)])

-----------------------------------------------------------------------------
(* The mutations: the first of todo, and what else it changes.             *)
Does(a, do, t) == call[a].todo # <<>> /\ Head(call[a].todo) = <<do, t>>
Moves(a, c) ==
  /\ call' = [call EXCEPT ![a] = IF Len(c.todo) = 1 THEN Idle ELSE [c EXCEPT !.todo = Tail(@)]]
  /\ UNCHANGED <<calls, interventions, early>>

(* update_ticket(t, list = members ...): nothing when t is gone.           *)
Over(new, old) == [l \in DOMAIN old |-> IF l \in DOMAIN new THEN new[l] ELSE old[l]]
Replace(t, new, seen) ==
  IF Exists(t)
  THEN /\ ticket' = [ticket EXCEPT ![t] = Over(new, @)]
       /\ stale' = stale \cup {<<l, t>> : l \in {l \in DOMAIN new : seen[l] # ticket[t][l]}}
  ELSE UNCHANGED <<ticket, stale>>

Promise(l, t, added) == promised' = promised \cup {<<l, t, d>> : d \in ToSet(added)}

Look(a, t) ==
  /\ Does(a, "look", t)
  /\ Moves(a, [call[a] EXCEPT !.seen = ticket[t]])
  /\ UNCHANGED <<ticket, promised, stale, stacks>>

CreateSubtask(a, p) ==
  /\ Does(a, "create", p) /\ Len(ticket) < MaxTickets
  /\ ticket' = Append(ticket, New(p))
  /\ Moves(a, [call[a] EXCEPT !.gain = Append(@, Len(ticket) + 1)])
  /\ UNCHANGED <<promised, stale, stacks>>

(* A mutant: every subtask waits for the first.                            *)
StackFirstMutant(a, i) ==
  LET made == call[a].gain
  IN /\ Does(a, "stack", i)
     /\ Replace(made[i + 1], [blockedBy |-> {made[1]}], New(0))
     /\ Promise("blockedBy", made[i + 1], <<made[1]>>)
     /\ stacks' = IF i = Len(made) - 1 THEN stacks \cup {made} ELSE stacks
     /\ Moves(a, call[a])

(* Each subtask waits for the one before.                                  *)
Stack(a, i) ==
  LET made == call[a].gain
  IN /\ Does(a, "stack", i)
     /\ Replace(made[i + 1], [blockedBy |-> {made[i]}], New(0))
     /\ Promise("blockedBy", made[i + 1], <<made[i]>>)
     /\ stacks' = IF i = Len(made) - 1 THEN stacks \cup {made} ELSE stacks
     /\ Moves(a, call[a])

Adopt(a, p) ==
  /\ Does(a, "adopt", p)
  /\ Replace(p, [children |-> call[a].seen.children \cup ToSet(call[a].gain)], call[a].seen)
  /\ Promise("children", p, call[a].gain)
  /\ Moves(a, call[a])
  /\ UNCHANGED stacks

(* A mutant: the parent is held by its new subtasks only.                  *)
WaitNewMutant(a, t) ==
  /\ Does(a, "wait", t)
  /\ Replace(t, [blockedBy |-> ToSet(call[a].gain)], call[a].seen)
  /\ Promise("blockedBy", t, call[a].gain)
  /\ Moves(a, call[a])
  /\ UNCHANGED stacks

Wait(a, t) ==
  /\ Does(a, "wait", t)
  /\ Replace(t, [blockedBy |-> call[a].seen.blockedBy \cup ToSet(call[a].gain)], call[a].seen)
  /\ Promise("blockedBy", t, call[a].gain)
  /\ Moves(a, call[a])
  /\ UNCHANGED stacks

Ghosts(a, t) ==
  {d \in call[a].listed[t] : d \notin ToSet(call[a].gain) /\ ~Exists(d)}

PruneTicket(a, t) ==
  LET seen == [New(0) EXCEPT !.blockedBy = call[a].listed[t]]
  IN /\ Does(a, "prune", t)
     /\ IF Ghosts(a, t) # {}
        THEN Replace(t, [blockedBy |-> seen.blockedBy \ Ghosts(a, t)], seen)
        ELSE UNCHANGED <<ticket, stale>>
     /\ Moves(a, call[a])
     /\ UNCHANGED <<promised, stacks>>

Fold(a, t) ==
  /\ Does(a, "fold", t)
  /\ Replace(t, [notes |-> call[a].seen.notes \cup ToSet(call[a].gain)], call[a].seen)
  /\ Promise("notes", t, call[a].gain)
  /\ Moves(a, call[a])
  /\ UNCHANGED stacks

CancelFolded(a, c) ==
  /\ Does(a, "cancel", c)
  /\ ticket' = IF Exists(c) THEN [ticket EXCEPT ![c].status = "canceled"] ELSE ticket
  /\ Moves(a, call[a])
  /\ UNCHANGED <<promised, stale, stacks>>

(* The parent is looked up again before.                                   *)
Detach(a, p) ==
  LET c == call[a]
  IN /\ Does(a, "detach", p)
     /\ Replace(p, [l \in {"children", "blockedBy"} |-> c.seen[l] \ {c.with}], c.seen)
     /\ promised' = promised \ {<<l, p, c.with>> : l \in {"children", "blockedBy"}}
     /\ Moves(a, c)
     /\ UNCHANGED stacks

-----------------------------------------------------------------------------
(* The queue serves what is runnable and people or workers finish it.      *)
Serve(t) ==
  /\ Runnable(t) /\ interventions < MaxInterventions
  /\ interventions' = interventions + 1
  /\ ticket' = [ticket EXCEPT ![t].status = "in_progress"]
  /\ early' = IF \E s \in stacks : t \in ToSet(s) THEN early ELSE early \cup {t}
  /\ UNCHANGED <<call, calls, promised, stale, stacks>>

Finish(t) ==
  /\ ticket[t].status = "in_progress"
  /\ ticket' = [ticket EXCEPT ![t].status = "done"]
  /\ UNCHANGED <<call, calls, interventions, promised, stale, stacks, early>>

Intervene(t, status) ==
  /\ Exists(t) /\ ticket[t].status # status /\ interventions < MaxInterventions
  /\ interventions' = interventions + 1
  /\ ticket' = [ticket EXCEPT ![t].status = status]
  /\ UNCHANGED <<call, calls, promised, stale, stacks, early>>

Dies(a) ==
  /\ call' = [call EXCEPT ![a] = Idle]
  /\ UNCHANGED <<ticket, calls, interventions, promised, stale, stacks, early>>

Starts(a) ==
  \/ \E t \in Tickets :
       \/ \E n \in 1..MaxParts, sequential, hold \in BOOLEAN : SplitTicket(a, t, n, sequential, hold)
       \/ \E d \in Tickets, before \in BOOLEAN : AddDependency(a, t, d, before)
       \/ \E c \in Tickets : MergeTicket(a, c, t)
  \/ \E listed \in SUBSET Tickets : Prune(a, listed)

Continues(a) ==
  \E t \in {Head(call[a].todo)[2]} :
    \/ Look(a, t) \/ CreateSubtask(a, t) \/ Stack(a, t) \/ Adopt(a, t) \/ Wait(a, t)
    \/ PruneTicket(a, t) \/ Fold(a, t) \/ CancelFolded(a, t) \/ Detach(a, t)

DecompositionNext ==
  \/ \E a \in Callers : Free(a) /\ Starts(a)
  \/ \E a \in Callers : call[a] # Idle /\ (Continues(a) \/ Dies(a))
  \/ \E t \in Tickets :
       \/ Serve(t) \/ Finish(t)
       \/ \E status \in {"canceled", "deleted"} : Intervene(t, status)

-----------------------------------------------------------------------------
(* What a call added to a list of a ticket stays there until its ticket is *)
(* folded or deleted, unless the list was replaced from an outdated read.  *)
KeepsPromises ==
  \A p \in promised :
    LET t == p[2] IN
      Exists(t) /\ (p[1] = "blockedBy" => Exists(p[3])) /\ <<p[1], t>> \notin stale
      => p[3] \in ticket[t][p[1]]

(* Stacked subtasks run strictly in order: of two that are runnable, one   *)
(* between them was folded, canceled or deleted, or served before it was   *)
(* stacked, or the list of one was replaced from an outdated read.         *)
FrontIsSingle ==
  \A s \in stacks : \A i, j \in DOMAIN s :
    i < j /\ Runnable(s[i]) /\ Runnable(s[j])
    => \/ \E k \in i..j : ticket[s[k]].status \in {"canceled", "deleted"} \/ s[k] \in early
       \/ \E k \in i..j : <<"blockedBy", s[k]>> \in stale
=============================================================================
