----------------------------- MODULE Lifecycle -----------------------------
(***************************************************************************)
(* The lifecycle of one ticket (class Planfile in planfile/__init__.py on  *)
(* top of Store.update_ticket).  Workers, schedulers and people in several *)
(* processes claim, start, complete, fail, block, reopen and answer it.    *)
(* Every such call reads the ticket without the mutation lock, computes    *)
(* from what it read a whole new execution section (and often the notes),  *)
(* and hands them to update_ticket, which merges them under the lock into  *)
(* the ticket of that moment.  A caller may name the updated_at it saw     *)
(* earlier; the update is then refused if the ticket has another one.      *)
(***************************************************************************)
EXTENDS Naturals

CONSTANTS
  Procs,         \* callers; each may own the ticket and has one note to add
  None,          \* no owner, no expectation, a section the call leaves alone
  MaxWrites,     \* bound: accepted updates
  MaxAttempts,   \* execution.max_attempts
  Ops,           \* operations a run allows
  Conditional    \* operations whose callers pass expected_updated_at

(* done stands for done and canceled, in_progress for review too.  Lease,  *)
(* start time and last error of the execution section are left out.        *)
Statuses == {"open", "in_progress", "done", "blocked", "failed"}
Terminal == {"done", "blocked", "failed"}
ImmutableTerminal == {"done"}
States == {"pending", "ready", "running", "waiting_input", "done", "blocked", "failed"}

Stamps == 0..MaxWrites
Executions == [state : States, assigned_to : Procs \cup {None},
               attempt : Nat, finished_at : Stamps]
Tickets == [status : Statuses, execution : Executions, notes : SUBSET Procs,
            updated_at : Stamps]
Updates == [status : Statuses \cup {None}, execution : Executions \cup {None},
            notes : (SUBSET Procs) \cup {None}]

OpNames == {"claim", "start", "complete", "fail", "block", "wait", "ready",
            "respond", "note", "patch"}

ASSUME BoundAssumption == MaxWrites \in Nat /\ MaxAttempts \in Nat
ASSUME NoneAssumption ==
  /\ None \notin Procs /\ None \notin Statuses /\ None \notin Stamps
  /\ None \notin Executions /\ None \notin Tickets /\ None \notin OpNames
  /\ \A S \in SUBSET Procs : None # S

VARIABLES
  ticket,
  pc,
  expected,   \* updated_at a caller saw before a conditional call
  op, base,   \* the call under way and the ticket it read, or None
  fails, said \* history: accepted failures, callers whose note was accepted

callVars == <<pc, expected, op, base>>
vars == <<ticket, callVars, fails, said>>

Created == [status : {"open"},
            execution : [state : {"pending", "ready", "running"}, assigned_to : {None},
                         attempt : {0}, finished_at : {0}],
            notes : {{}}, updated_at : {0}]

Init ==
  /\ ticket \in Created
  /\ pc = [p \in Procs |-> "idle"]
  /\ expected = [p \in Procs |-> None]
  /\ op = [p \in Procs |-> None]
  /\ base = [p \in Procs |-> None]
  /\ fails = 0
  /\ said = {}

-----------------------------------------------------------------------------
(* What each operation hands to update_ticket, given the ticket b it read. *)

NoUpdate == [status |-> None, execution |-> None, notes |-> None]
Noted(p, b) == b.notes \cup {p}

(* _merge_model drops the changes that are None: the owner is kept when    *)
(* the call names none.                                                    *)
Claim(p, b) ==
  {[NoUpdate EXCEPT !.execution =
      [b.execution EXCEPT !.state = IF @ = "pending" THEN "ready" ELSE @,
                          !.assigned_to = w]] :
     w \in {p, b.execution.assigned_to}}

Start(p, b) ==
  {[NoUpdate EXCEPT !.status = "in_progress",
                    !.execution = [b.execution EXCEPT !.state = "running",
                                                      !.assigned_to = w]] :
     w \in {p, b.execution.assigned_to}}

Complete(p, b) ==
  {[status |-> "done",
    execution |-> [b.execution EXCEPT !.state = "done"],
    notes |-> n] : n \in {b.notes, Noted(p, b)}}

(* One more attempt; the ticket is open again unless it was the last.      *)
Fail(p, b) ==
  LET attempt == b.execution.attempt + 1
      exhausted == attempt >= MaxAttempts
  IN {[NoUpdate EXCEPT
         !.status = IF exhausted THEN "failed" ELSE "open",
         !.execution = [state |-> IF exhausted THEN "failed" ELSE "ready",
                        assigned_to |-> None,
                        attempt |-> attempt, finished_at |-> 0]]}

Block(p, b) ==
  {[status |-> "blocked",
    execution |-> [b.execution EXCEPT !.state = "blocked", !.assigned_to = None],
    notes |-> n] : n \in {None, Noted(p, b)}}

Wait(p, b) ==
  {[NoUpdate EXCEPT !.execution = [b.execution EXCEPT !.state = "waiting_input"],
                    !.notes = n] : n \in {None, Noted(p, b)}}

Ready(p, b) ==
  {[status |-> "open",
    execution |-> [b.execution EXCEPT !.state = "ready", !.assigned_to = None,
                                      !.finished_at = 0],
    notes |-> n] : n \in {None, Noted(p, b)}}

(* respond_ticket with next_state None, "ready" or "in_progress".          *)
Respond(p, b) ==
  LET stay == [status |-> b.status, execution |-> b.execution]
      requeue == [status |-> "open",
                  execution |-> [b.execution EXCEPT !.state = "ready",
                                   !.assigned_to = None]]
      work(w) == [status |-> "in_progress",
                  execution |-> [b.execution EXCEPT !.state = "running",
                                   !.assigned_to = w, !.finished_at = 0]]
  IN {[status |-> r.status, execution |-> r.execution, notes |-> Noted(p, b)] :
        r \in {stay, requeue, work(p), work(b.execution.assigned_to)}}

Note(p, b) == {[NoUpdate EXCEPT !.notes = Noted(p, b)]}

(* PATCH: a new status alone, or an execution section whose sent keys were *)
(* merged onto the section the handler had read.                           *)
Patch(p, b) ==
  {[NoUpdate EXCEPT !.status = s] : s \in Statuses} \cup
  {[NoUpdate EXCEPT !.execution = [b.execution EXCEPT !.assigned_to = p]]}

-----------------------------------------------------------------------------
(* Store._update_ticket_unlocked                                           *)

(* A mutant: the precondition is not evaluated under the lock.             *)
IsCurrentMutant(t, e) == TRUE
IsCurrent(t, e) == e = None \/ e = t.updated_at

(* Two mutants: only one of the two conditions on done work is checked.    *)
KeepsDoneStatusOnly(t, u) ==
  t.status \in ImmutableTerminal => u.status \in Terminal \cup {None}
KeepsDoneStateOnly(t, u) ==
  t.status \in ImmutableTerminal /\ u.execution # None
  => u.execution.state = IF u.status = None THEN t.status ELSE u.status

(* Done work takes no active status, and no execution state that is not    *)
(* the status it has or gets.                                              *)
KeepsDone(t, u) ==
  LET status == IF u.status = None THEN t.status ELSE u.status IN
    t.status \in ImmutableTerminal =>
      /\ status \in Terminal
      /\ u.execution # None => u.execution.state = status

(* A terminal status settles the execution section.                        *)
Settled(execution, status, now) ==
  [execution EXCEPT !.state = status, !.assigned_to = None, !.finished_at = now]

(* A mutant: only a new status makes a new version.                        *)
UpdatedStamp(t, u) ==
  LET now == IF u.status = None THEN t.updated_at ELSE t.updated_at + 1
      execution == IF u.execution = None THEN t.execution ELSE u.execution
  IN [status |-> IF u.status = None THEN t.status ELSE u.status,
      execution |-> IF u.status \in Terminal THEN Settled(execution, u.status, now)
                    ELSE execution,
      notes |-> IF u.notes = None THEN t.notes ELSE u.notes,
      updated_at |-> now]
Updated(t, u) ==
  LET now == t.updated_at + 1
      execution == IF u.execution = None THEN t.execution ELSE u.execution
  IN [status |-> IF u.status = None THEN t.status ELSE u.status,
      execution |-> IF u.status \in Terminal THEN Settled(execution, u.status, now)
                    ELSE execution,
      notes |-> IF u.notes = None THEN t.notes ELSE u.notes,
      updated_at |-> now]

Accept(p, u) ==
  /\ ticket.updated_at < MaxWrites
  /\ IsCurrent(ticket, expected[p])
  /\ KeepsDone(ticket, u)
  /\ ticket' = Updated(ticket, u)
  /\ fails' = IF op[p] = "fail" THEN fails + 1 ELSE fails
  /\ said' = IF u.notes # None THEN said \cup (u.notes \cap {p}) ELSE said

(* TicketUpdatedAtConflictError or ImmutableTerminalReopenError            *)
Refuse(p, u) ==
  /\ ~ IsCurrent(ticket, expected[p]) \/ ~ KeepsDone(ticket, u)
  /\ UNCHANGED <<ticket, fails, said>>

Goto(p, from, to) == pc[p] = from /\ pc' = [pc EXCEPT ![p] = to]

(* A caller looks at the ticket and keeps its updated_at.                  *)
Observe(p) ==
  /\ Conditional # {}
  /\ Goto(p, "idle", "observed")
  /\ expected' = [expected EXCEPT ![p] = ticket.updated_at]
  /\ UNCHANGED <<ticket, op, base, fails, said>>

(* The call reads the ticket.                                              *)
Read(p, o) ==
  /\ o \in Ops
  /\ Goto(p, IF o \in Conditional THEN "observed" ELSE "idle", "read")
  /\ op' = [op EXCEPT ![p] = o]
  /\ base' = [base EXCEPT ![p] = ticket]
  /\ UNCHANGED <<ticket, expected, fails, said>>

(* Its update is merged into the ticket, or refused.                       *)
Write(p, o, updates) ==
  /\ op[p] = o
  /\ Goto(p, "read", "idle")
  /\ expected' = [expected EXCEPT ![p] = None]
  /\ \E u \in updates : Accept(p, u) \/ Refuse(p, u)
  /\ op' = [op EXCEPT ![p] = None]
  /\ base' = [base EXCEPT ![p] = None]

Call(p) ==
  \/ \E o \in OpNames : Read(p, o)
  \/ Write(p, "claim", Claim(p, base[p]))
  \/ Write(p, "start", Start(p, base[p]))
  \/ Write(p, "complete", Complete(p, base[p]))
  \/ Write(p, "fail", Fail(p, base[p]))
  \/ Write(p, "block", Block(p, base[p]))
  \/ Write(p, "wait", Wait(p, base[p]))
  \/ Write(p, "ready", Ready(p, base[p]))
  \/ Write(p, "respond", Respond(p, base[p]))
  \/ Write(p, "note", Note(p, base[p]))
  \/ Write(p, "patch", Patch(p, base[p]))

Next == \E p \in Procs : Observe(p) \/ Call(p)

Spec == Init /\ [][Next]_vars

-----------------------------------------------------------------------------
TypeOK ==
  /\ ticket \in Tickets
  /\ pc \in [Procs -> {"idle", "observed", "read"}]
  /\ expected \in [Procs -> Stamps \cup {None}]
  /\ op \in [Procs -> OpNames \cup {None}]
  /\ base \in [Procs -> Tickets \cup {None}]
  /\ fails \in Nat
  /\ said \subseteq Procs

(* Status and execution state of done work agree, however many stale calls *)
(* (a late start, claim, wait, fail) are still on their way to the store.  *)
DoneSettled == ticket.status = "done" => ticket.execution.state = "done"

(* The ticket as the store's map of tickets shows it.                      *)
Map == INSTANCE TicketMap WITH
         Ids <- {"ticket"}, Active <- "open", Blocked <- "blocked", Done <- "done",
         MaxStamp <- MaxWrites, Absent <- None, used <- {"ticket"},
         view <- [t \in {"ticket"} |->
                    [status |-> IF ticket.status = "done" THEN "done"
                                ELSE IF ticket.status \in Terminal THEN "blocked"
                                ELSE "open",
                     upd |-> ticket.updated_at, fin |-> ticket.execution.finished_at]]
ASSUME AbsentAssumption == None \notin Map!Record

(* Every accepted call is a mutation that map allows: later updated_at,    *)
(* and no done ticket becomes active in one call.                          *)
MutatesAsMap == [][Map!Next]_ticket

(* Every failed execution is counted in execution.attempt, and reopening   *)
(* preserves the count: the retry budget is what was really spent.         *)
AttemptsCounted == ticket.execution.attempt = fails

(* What a caller was told is recorded stays in the notes.                  *)
NotesKept == said \subseteq ticket.notes

(* A blocked ticket carries no running claim.                              *)
BlockedNotRunning == ticket.status = "blocked" => ticket.execution.state # "running"

(* Calls whose callers name the updated_at they saw overwrite nothing that *)
(* was accepted meanwhile: no failure, no note, no blocking.               *)
CurrentCallsLoseNothing == AttemptsCounted /\ NotesKept /\ BlockedNotRunning

(* A failed execution leaves the execution state failed; whether the work  *)
(* runs again is decided by a later call.                                  *)
FailRecordsFailure ==
  [][fails' # fails => ticket'.execution.state = "failed"]_vars

(* Why conditional calls do not overwrite each other: what a call read is  *)
(* at least as new as what its caller had seen, and equals the ticket as   *)
(* long as their updated_at agree.                                         *)
ReadSound(p) ==
  pc[p] = "read" =>
    /\ op[p] \in Ops /\ base[p] \in Tickets
    /\ op[p] \in Conditional => expected[p] # None /\ expected[p] <= base[p].updated_at
    /\ base[p].updated_at <= ticket.updated_at
    /\ base[p].updated_at = ticket.updated_at => base[p] = ticket

CallsSound ==
  /\ \A p \in Procs : ReadSound(p)
  /\ \A p \in Procs : pc[p] = "observed" =>
       expected[p] # None /\ expected[p] <= ticket.updated_at
=============================================================================
