---------------------------- MODULE DeliveryPlan ----------------------------
(***************************************************************************)
(* Delivery plans (planfile/delivery_plan.py): a compiled plan of          *)
(* candidates with dependencies becomes tickets and a state file beside    *)
(* the store.  Every operation holds the mutation lock, checks, writes     *)
(* tickets one after the other and at last replaces the state file; the    *)
(* process dies between any two writes and the coordinator tries again.    *)
(*                                                                         *)
(* A ticket is named by its candidate and by the attempt at materialize    *)
(* that reserved its number.  Receipts of a candidate are 1 and 2.         *)
(***************************************************************************)
EXTENDS Integers, FiniteSets, FiniteSetsExt

CONSTANTS Plans,    \* compiled plans: kind and deps of each candidate 1..n
          Watched,  \* candidates for which checkpoints and a second receipt may come
          MaxTries, MaxDeaths, MaxCheckpoints, MaxByHand \* bounds of a run

VARIABLES
  plan,     \* the plan of this behaviour, and whether the store is sharded
  tickets,  \* of each name, the ticket
  file,     \* the state file: of each candidate, its node; or NoFile
  op,       \* the operation that holds the lock: what it still has to write
  tries, deaths, byHand, \* how many attempts, deaths, tickets done by hand
  doubled,  \* a rotation that died left two copies of a ticket
  nested    \* history: a candidate was split into one that was split before

planVars == <<plan, tickets, file, op, tries, deaths, byHand, doubled, nested>>

Keys == DOMAIN plan.kind
Receipts == 1..2
NoFile == << >>
Idle == [name |-> "idle"]
Absent == [status |-> "absent", receipt |-> 0, blockedBy |-> {}, parent |-> 0, children |-> {}]

(* What the contract of a compiled plan lets in.                           *)
Kinds == {"pending", "split_required", "terminal"}
Accepted(p) == \A k \in DOMAIN p.kind : p.kind[k] \in Kinds /\ p.deps[k] \subseteq 1..(k - 1)

DInit ==
  /\ plan \in {p \in Plans : Accepted(p)}
  /\ tickets = [id \in Keys \X (1..MaxTries) |-> Absent]
  /\ file = NoFile /\ op = Idle
  /\ tries = 0 /\ deaths = 0 /\ byHand = 0 /\ doubled = FALSE /\ nested = FALSE

Locks == op = Idle
NamesOf(k) == {id \in DOMAIN tickets : id[1] = k /\ tickets[id] # Absent}
NameOf(k) == file[k].name \* the ticket the state file binds a candidate to

-----------------------------------------------------------------------------
(* materialize: a terminal candidate comes with its receipt 1.             *)
Node(k, name) ==
  [status |-> CASE plan.kind[k] = "pending" -> "materialized"
                [] OTHER -> plan.kind[k],
   name |-> name, parent |-> 0, children |-> {}, dependsOn |-> plan.deps[k],
   checkpoints |-> 0, receipt |-> IF plan.kind[k] = "terminal" THEN 1 ELSE 0]

TicketFor(k, blockers) ==
  [Absent EXCEPT !.status = IF plan.kind[k] = "terminal" THEN "done" ELSE "open",
                 !.receipt = IF plan.kind[k] = "terminal" THEN 1 ELSE 0,
                 !.blockedBy = blockers]

(* A mutant: the tickets an earlier attempt left block nobody.             *)
BlockersMissingMutant(k, name, missing) == {name[d] : d \in plan.deps[k] \cap missing}

Blockers(k, name, missing) == {name[d] : d \in plan.deps[k]}

(* Candidates that have a ticket keep it; numbers are reserved, and stay   *)
(* reserved, for the others.                                               *)
Materializes(found) ==
  LET missing == {k \in Keys : found[k] = {}}
      name == [k \in Keys |-> IF k \in missing THEN <<k, tries + 1>>
                              ELSE CHOOSE id \in found[k] : TRUE]
  IN /\ Locks /\ file = NoFile /\ tries < MaxTries
     /\ ~doubled  \* delivery_plan_existing_candidate_duplicate
     /\ tries' = tries + 1
     /\ op' = [name |-> "materialize",
               batch |-> [k \in missing |->
                            TicketFor(k, Blockers(k, name, missing))],
               result |-> [k \in Keys |-> Node(k, name[k])]]
     /\ UNCHANGED <<plan, tickets, file, deaths, byHand, doubled, nested>>

(* A mutant: the tickets of an interrupted attempt are not looked for.     *)
MaterializeAnewMutant == Materializes([k \in Keys |-> {}])

Materialize == Materializes([k \in Keys |-> NamesOf(k)])

(* The batch is one file, or with shards a file for each range of numbers. *)
CreateBatch ==
  /\ op.name = "materialize" /\ DOMAIN op.batch # {}
  /\ \E last \in DOMAIN op.batch :
       LET now == {k \in DOMAIN op.batch : k <= last}
       IN /\ plan.sharded \/ now = DOMAIN op.batch
          /\ tickets' = [id \in DOMAIN tickets |->
               IF id[1] \in now /\ id[2] = tries THEN op.batch[id[1]] ELSE tickets[id]]
          /\ op' = [op EXCEPT !.batch = [k \in DOMAIN op.batch \ now |-> op.batch[k]]]
  /\ UNCHANGED <<plan, file, tries, deaths, byHand, doubled, nested>>

-----------------------------------------------------------------------------
(* The receipts a plan is materialized with again, and the one that is     *)
(* recorded: each is checked, then its ticket completed, then the next; a  *)
(* later one that is not accepted leaves the earlier tickets completed.    *)
Fits(k, r) == /\ file[k].status \in {"materialized", "checkpointed"}
              /\ r = 2 => k \in Watched

(* _complete_ticket_unlocked of a ticket that is done with another receipt.*)
Refused(w) == \/ w.what = "refuse"
              \/ /\ w.what = "complete" /\ tickets[w.name].status = "done"
                 /\ tickets[w.name].receipt # w.receipt
              \/ w.what = "parent" /\ tickets[w.name].status = "done"

Completion(k, r) == IF Fits(k, r)
                    THEN [what |-> "complete", name |-> NameOf(k), receipt |-> r]
                    ELSE [what |-> "refuse"]

RecordReceipts == \E ks \in SUBSET Keys, r \in Receipts :
  /\ Locks /\ file # NoFile
  /\ Cardinality(ks) \in 1..2 /\ Fits(Min(ks), r)
  /\ Fits(Max(ks), r) \/ Max(ks) \in Watched  \* a bound: who else may be refused
  /\ op' = [name |-> "write",
            todo |-> [i \in 1..Cardinality(ks) |->
                        LET k == IF i = 1 THEN Min(ks) ELSE Max(ks) IN Completion(k, r)],
            result |-> [k \in Keys |->
                          IF k \in ks THEN [file[k] EXCEPT !.status = "terminal", !.receipt = r]
                          ELSE file[k]]]
  /\ UNCHANGED <<plan, tickets, file, tries, deaths, byHand, doubled, nested>>

(* record_checkpoint writes nothing but the state file.                    *)
RecordCheckpoint == \E k \in Keys :
  /\ Locks /\ file # NoFile
  /\ file[k].status \in {"materialized", "checkpointed"}
  /\ k \in Watched /\ file[k].checkpoints < MaxCheckpoints
  /\ file' = [file EXCEPT ![k].checkpoints = @ + 1, ![k].status = "checkpointed"]
  /\ UNCHANGED <<plan, tickets, op, tries, deaths, byHand, doubled, nested>>

-----------------------------------------------------------------------------
(* record_split: in the state file whoever depends on the parent now       *)
(* depends on the children.                                                *)
Rewired(nodes, p, cs) ==
  [k \in Keys |->
     [nodes[k] EXCEPT
        !.status = IF k = p THEN "split" ELSE @,
        !.children = IF k = p THEN cs ELSE @,
        !.parent = IF k \in cs THEN p ELSE @,
        !.dependsOn = IF p \in @ THEN (@ \ {p}) \cup cs ELSE @]]

(* _validate_dependency_dag: candidates are taken out as soon as nothing   *)
(* they depend on is left.                                                 *)
IsDag(nodes) ==
  LET left[i \in 0..Cardinality(Keys)] ==
        IF i = 0 THEN Keys
        ELSE {k \in left[i - 1] : nodes[k].dependsOn \cap left[i - 1] # {}}
  IN left[Cardinality(Keys)] = {}

Splittable(p, cs, dag) ==
  /\ file[p].status = "split_required"
  /\ \A c \in cs : /\ file[c].status # "split_required"
                   /\ file[c].parent \in {0, p}
                   /\ p \notin file[c].dependsOn
  /\ dag => IsDag(Rewired(file, p, cs))

(* A mutant: the rewired graph is not validated.                           *)
SplitUncheckedMutant(p, cs) == Splittable(p, cs, FALSE)

SplitAllowed(p, cs) == Splittable(p, cs, TRUE)

(* The tickets: the parent, its children, then those whose candidate       *)
(* depended on the parent from the beginning.                              *)
Dependents(p) == {k \in Keys : p \in plan.deps[k]}

(* A mutant: a dependent stays blocked by what the plan said.              *)
BlockersPlannedMutant(nodes, k) == {NameOf(d) : d \in plan.deps[k]}

NewBlockers(nodes, k) == {NameOf(d) : d \in nodes[k].dependsOn}

InOrder(ks) == CHOOSE s \in [1..Cardinality(ks) -> ks] :
                 \A i, j \in DOMAIN s : i < j => s[i] < s[j]

RecordSplit == \E p \in Keys, cs \in SUBSET Keys :
  /\ Locks /\ file # NoFile
  /\ Cardinality(cs) >= 2 /\ SplitAllowed(p, cs)
  /\ LET nodes == Rewired(file, p, cs)
         first == [what |-> "parent", name |-> NameOf(p), ids |-> {NameOf(c) : c \in cs}]
         children == InOrder(cs)
         others == InOrder(Dependents(p))
         n == Cardinality(cs)
     IN op' = [name |-> "write", result |-> nodes,
               todo |-> [i \in 1..(1 + n + Cardinality(Dependents(p))) |->
                  IF i = 1 THEN first
                  ELSE IF i <= n + 1
                  THEN [what |-> "child", name |-> NameOf(children[i - 1]), parent |-> p]
                  ELSE [what |-> "blocked", name |-> NameOf(others[i - n - 1]),
                        ids |-> NewBlockers(nodes, others[i - n - 1])]]]
  /\ nested' = (nested \/ \E c \in cs : file[c].status = "split")
  /\ UNCHANGED <<plan, tickets, file, tries, deaths, byHand, doubled>>

-----------------------------------------------------------------------------
(* The next write; an error leaves what was written.                       *)
Updated(t, w) ==
  CASE w.what = "complete" -> [t EXCEPT !.status = "done", !.receipt = w.receipt]
    [] w.what = "parent" -> [t EXCEPT !.children = w.ids, !.blockedBy = w.ids]
    [] w.what = "child" -> [t EXCEPT !.parent = w.parent]
    [] w.what = "blocked" -> [t EXCEPT !.blockedBy = w.ids]

UpdateTicket ==
  /\ op.name = "write" /\ op.todo # << >>
  /\ LET w == op.todo[1]
         n == Cardinality(DOMAIN op.todo)
     IN IF Refused(w) THEN op' = Idle /\ UNCHANGED tickets
        ELSE /\ tickets' = [tickets EXCEPT ![w.name] = Updated(@, w)]
             /\ op' = [op EXCEPT !.todo = [i \in 1..(n - 1) |-> op.todo[i + 1]]]
  /\ UNCHANGED <<plan, file, tries, deaths, byHand, doubled, nested>>

Written == IF op.name = "write" THEN op.todo = << >>
           ELSE op.name = "materialize" /\ DOMAIN op.batch = {}

ReplacesFile(ready) ==
  /\ ready
  /\ file' = op.result /\ op' = Idle
  /\ UNCHANGED <<plan, tickets, tries, deaths, byHand, doubled, nested>>

(* A mutant: the state file is replaced before the tickets are written.    *)
ReplaceFileFirstMutant ==
  \/ ReplacesFile(Written)
  \/ /\ op.name = "write" /\ file # op.result
     /\ file' = op.result
     /\ UNCHANGED <<plan, tickets, op, tries, deaths, byHand, doubled, nested>>

ReplaceFile == ReplacesFile(Written)

(* The process dies; the rotation that follows the batch may have copied a *)
(* terminal ticket to a history and not yet taken it out of current.       *)
Dies ==
  /\ op # Idle /\ deaths < MaxDeaths /\ deaths' = deaths + 1
  /\ op' = Idle
  /\ \/ UNCHANGED doubled
     \/ /\ op.name = "materialize" /\ DOMAIN op.batch = {}
        /\ \E k \in Keys : plan.kind[k] = "terminal"
        /\ doubled' = TRUE
  /\ UNCHANGED <<plan, tickets, file, tries, byHand, nested>>

(* Somebody completes a ticket of the plan with planfile ticket done.      *)
DoneByHand == \E id \in DOMAIN tickets :
  /\ Locks /\ byHand < MaxByHand /\ byHand' = byHand + 1
  /\ tickets[id].status = "open"
  /\ tickets' = [tickets EXCEPT ![id].status = "done"]
  /\ UNCHANGED <<plan, file, op, tries, deaths, doubled, nested>>

DNext == \/ Materialize \/ CreateBatch \/ RecordReceipts \/ RecordCheckpoint
         \/ RecordSplit \/ UpdateTicket \/ ReplaceFile \/ Dies \/ DoneByHand

DSpec == DInit /\ [][DNext]_planVars

-----------------------------------------------------------------------------
(* resume, of the state file.                                              *)
Completed ==
  LET done[i \in 0..Cardinality(Keys)] ==
        IF i = 0 THEN {}
        ELSE {k \in Keys : \/ file[k].status = "terminal"
                           \/ file[k].status = "split" /\ file[k].children \subseteq done[i - 1]}
  IN done[Cardinality(Keys)]

Active == {k \in Keys : file[k].status \in {"materialized", "checkpointed"}}
Ready == {k \in Active : file[k].dependsOn \subseteq Completed}
Waiting == Active \ Ready

Unblocked(k) == \A b \in tickets[NameOf(k)].blockedBy : tickets[b].status = "done"

(* However often materialize dies and is tried again, a candidate has one  *)
(* ticket, and the state file binds each candidate to a ticket there is.   *)
OneTicketPerCandidate ==
  \A k \in Keys : /\ Cardinality(NamesOf(k)) <= 1
                  /\ file # NoFile => NameOf(k) \in NamesOf(k)

(* A candidate is terminal only when its ticket is done with the receipt   *)
(* the state file holds, whatever died and whoever completed the ticket.   *)
TerminalHasReceipt ==
  file # NoFile => \A k \in Keys : file[k].status = "terminal" =>
    tickets[NameOf(k)].status = "done" /\ tickets[NameOf(k)].receipt = file[k].receipt

(* What resume lists as ready the queue of tickets can serve, unless a     *)
(* split candidate became the child of another: its ticket is never done.  *)
ReadyIsUnblocked ==
  op = Idle /\ file # NoFile /\ ~nested => \A k \in Ready : Unblocked(k)

(* The queue serves no ticket whose candidate still waits, unless a ticket *)
(* is ahead of the state file: completed or split by an operation that     *)
(* died, or completed by hand.                                             *)
Ahead(k) == \/ tickets[NameOf(k)].status = "done" /\ file[k].status # "terminal"
            \/ tickets[NameOf(k)].children # {} /\ file[k].status # "split"

WaitingIsBlocked ==
  op = Idle /\ file # NoFile /\ (\A k \in Keys : ~Ahead(k)) =>
    \A k \in Waiting : ~Unblocked(k)

(* A plan that is not complete has something to work on or to split; nested*)
(* splits can make a child wait for its own parent.                        *)
PlanGoesOn ==
  op = Idle /\ file # NoFile /\ ~nested =>
    \/ Ready # {} \/ Keys = Completed
    \/ \E k \in Keys : file[k].status = "split_required"
=============================================================================
