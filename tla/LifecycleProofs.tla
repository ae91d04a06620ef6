-------------------------- MODULE LifecycleProofs --------------------------
(***************************************************************************)
(* Proofs about Lifecycle for every set of callers and every bound: done   *)
(* work stays settled whatever the callers do, and callers who all name    *)
(* the updated_at they saw never lose a failure or a note.                 *)
(***************************************************************************)
EXTENDS Lifecycle, TLAPS

(* What every step of a call keeps, whether its caller names a version or  *)
(* not.                                                                    *)
Inv == TypeOK /\ CallsSound /\ DoneSettled

-----------------------------------------------------------------------------
(* The changes u continue the ticket b: k more attempts, no note less, and *)
(* no running execution under a status they leave alone.                   *)
Continues(b, u, k) ==
  /\ u.execution # None => u.execution.attempt = b.execution.attempt + k
  /\ k # 0 => u.execution # None
  /\ u.notes # None => b.notes \subseteq u.notes
  /\ u.status = None /\ u.execution # None =>
       u.execution.state \in {b.execution.state, "ready", "waiting_input"}

FailureOf(o) == IF o = "fail" THEN 1 ELSE 0

(* Every operation hands update_ticket well-typed changes that continue    *)
(* the ticket it read.                                                     *)
LEMMA UpdatesSound ==
  ASSUME NEW p \in Procs, NEW b \in Tickets
  PROVE  /\ \A u \in Claim(p, b) : u \in Updates /\ Continues(b, u, 0)
         /\ \A u \in Start(p, b) : u \in Updates /\ Continues(b, u, 0)
         /\ \A u \in Complete(p, b) : u \in Updates /\ Continues(b, u, 0)
         /\ \A u \in Fail(p, b) : u \in Updates /\ Continues(b, u, 1)
         /\ \A u \in Block(p, b) : u \in Updates /\ Continues(b, u, 0)
         /\ \A u \in Wait(p, b) : u \in Updates /\ Continues(b, u, 0)
         /\ \A u \in Ready(p, b) : u \in Updates /\ Continues(b, u, 0)
         /\ \A u \in Respond(p, b) : u \in Updates /\ Continues(b, u, 0)
         /\ \A u \in Note(p, b) : u \in Updates /\ Continues(b, u, 0)
         /\ \A u \in Patch(p, b) : u \in Updates /\ Continues(b, u, 0)
<1> DEFINE e == b.execution
<1>1. /\ b.execution \in Executions /\ b.execution.assigned_to \in Procs \cup {None}
      /\ b.execution.attempt \in Nat
      /\ b.execution.state \in States /\ b.execution.finished_at \in Stamps
      /\ b.status \in Statuses /\ b.notes \subseteq Procs
  BY DEF Tickets, Executions
<1>2. Noted(p, b) \subseteq Procs /\ b.notes \subseteq Noted(p, b)
  BY <1>1 DEF Noted
<1>3. 0 \in Stamps
  BY BoundAssumption DEF Stamps
<1>4. ASSUME NEW u \in Claim(p, b) PROVE u \in Updates /\ Continues(b, u, 0)
  <2>1. PICK w \in {p, e.assigned_to} :
          u = [NoUpdate EXCEPT !.execution =
                 [e EXCEPT !.state = IF @ = "pending" THEN "ready" ELSE @,
                           !.assigned_to = w]]
    BY DEF Claim
  <2>2. w \in Procs \cup {None}
    BY <1>1
  <2> DEFINE x == [e EXCEPT !.state = IF @ = "pending" THEN "ready" ELSE @,
                            !.assigned_to = w]
  <2>3. x \in Executions /\ x.attempt = e.attempt /\ x.state \in {e.state, "ready"}
    BY <1>1, <2>2 DEF Executions, States
  <2>4. u = [NoUpdate EXCEPT !.execution = x]
    BY <2>1
  <2> HIDE DEF x
  <2> QED
    BY <1>1, <2>3, <2>4, NoneAssumption DEF NoUpdate, Updates, Continues
<1>5. ASSUME NEW u \in Start(p, b) PROVE u \in Updates /\ Continues(b, u, 0)
  <2>1. PICK w \in Procs \cup {None} :
          u = [NoUpdate EXCEPT !.status = "in_progress",
                 !.execution = [e EXCEPT !.state = "running", !.assigned_to = w]]
    BY <1>1 DEF Start
  <2> DEFINE x == [e EXCEPT !.state = "running", !.assigned_to = w]
  <2>2. x \in Executions /\ x.attempt = e.attempt
    BY <1>1 DEF Executions, States
  <2>3. u = [status |-> "in_progress", execution |-> x, notes |-> None]
    BY <2>1 DEF NoUpdate
  <2> HIDE DEF x
  <2> QED
    BY <1>1, <2>2, <2>3, NoneAssumption DEF Updates, Statuses, Continues
<1>6. ASSUME NEW u \in Complete(p, b) PROVE u \in Updates /\ Continues(b, u, 0)
  <2> DEFINE x == [e EXCEPT !.state = "done"]
  <2>1. PICK n \in {b.notes, Noted(p, b)} :
          u = [status |-> "done", execution |-> x, notes |-> n]
    BY DEF Complete
  <2>2. x \in Executions /\ x.attempt = e.attempt
    BY <1>1, <1>3 DEF Executions, States
  <2> HIDE DEF x
  <2> QED
    BY <1>1, <1>2, <2>1, <2>2, NoneAssumption
    DEF NoUpdate, Updates, Statuses, Continues
<1>7. ASSUME NEW u \in Fail(p, b) PROVE u \in Updates /\ Continues(b, u, 1)
  <2> DEFINE x == [state |-> IF e.attempt + 1 >= MaxAttempts THEN "failed" ELSE "ready",
                   assigned_to |-> None,
                   attempt |-> e.attempt + 1, finished_at |-> 0]
  <2>1. u = [NoUpdate EXCEPT !.status = IF e.attempt + 1 >= MaxAttempts
                                        THEN "failed" ELSE "open",
                             !.execution = x]
    BY DEF Fail
  <2>2. x \in Executions /\ x.attempt = e.attempt + 1
    BY <1>1, <1>3 DEF Executions, States
  <2> HIDE DEF x
  <2> QED
    BY <1>1, <2>1, <2>2, NoneAssumption DEF NoUpdate, Updates, Statuses, Continues
<1>8. ASSUME NEW u \in Block(p, b) PROVE u \in Updates /\ Continues(b, u, 0)
  <2> DEFINE x == [e EXCEPT !.state = "blocked", !.assigned_to = None]
  <2>1. PICK n \in {None, Noted(p, b)} :
          u = [status |-> "blocked", execution |-> x, notes |-> n]
    BY DEF Block
  <2>2. x \in Executions /\ x.attempt = e.attempt
    BY <1>1, <1>3 DEF Executions, States
  <2> HIDE DEF x
  <2> QED
    BY <1>1, <1>2, <2>1, <2>2, NoneAssumption
    DEF NoUpdate, Updates, Statuses, Continues
<1>9. ASSUME NEW u \in Wait(p, b) PROVE u \in Updates /\ Continues(b, u, 0)
  <2> DEFINE x == [e EXCEPT !.state = "waiting_input"]
  <2>1. PICK n \in {None, Noted(p, b)} :
          u = [status |-> None, execution |-> x, notes |-> n]
    BY DEF Wait, NoUpdate
  <2>2. x \in Executions /\ x.attempt = e.attempt /\ x.state = "waiting_input"
    BY <1>1, <1>3 DEF Executions, States
  <2> HIDE DEF x
  <2> QED
    BY <1>1, <1>2, <2>1, <2>2, NoneAssumption
    DEF NoUpdate, Updates, Statuses, Continues
<1>10. ASSUME NEW u \in Ready(p, b) PROVE u \in Updates /\ Continues(b, u, 0)
  <2> DEFINE x == [e EXCEPT !.state = "ready", !.assigned_to = None,
                              !.finished_at = 0]
  <2>1. PICK n \in {None, Noted(p, b)} :
          u = [status |-> "open", execution |-> x, notes |-> n]
    BY DEF Ready
  <2>2. x \in Executions /\ x.attempt = e.attempt
    BY <1>1, <1>3 DEF Executions, States
  <2> HIDE DEF x
  <2> QED
    BY <1>1, <1>2, <2>1, <2>2, NoneAssumption
    DEF NoUpdate, Updates, Statuses, Continues
<1>11. ASSUME NEW u \in Respond(p, b) PROVE u \in Updates /\ Continues(b, u, 0)
  <2> DEFINE requeue == [e EXCEPT !.state = "ready", !.assigned_to = None]
             work(w) == [e EXCEPT !.state = "running", !.assigned_to = w,
                                  !.finished_at = 0]
  <2>1. \/ u = [status |-> b.status, execution |-> e, notes |-> Noted(p, b)]
        \/ u = [status |-> "open", execution |-> requeue, notes |-> Noted(p, b)]
        \/ \E w \in {p, e.assigned_to} :
             u = [status |-> "in_progress", execution |-> work(w), notes |-> Noted(p, b)]
    BY DEF Respond
  <2>2. /\ requeue \in Executions /\ requeue.attempt = e.attempt
        /\ \A w \in {p, e.assigned_to} :
             work(w) \in Executions /\ work(w).attempt = e.attempt
    BY <1>1, <1>3 DEF Executions, States
  <2> HIDE DEF requeue, work
  <2> QED
    BY <1>1, <1>2, <2>1, <2>2, NoneAssumption DEF Updates, Statuses, Continues
<1>12. ASSUME NEW u \in Note(p, b) PROVE u \in Updates /\ Continues(b, u, 0)
  BY <1>1, <1>2, NoneAssumption DEF Note, NoUpdate, Updates, Executions, Statuses, Continues
<1>13. ASSUME NEW u \in Patch(p, b) PROVE u \in Updates /\ Continues(b, u, 0)
  BY <1>1, <1>2, NoneAssumption DEF Patch, NoUpdate, Updates, Executions, Statuses, Continues
<1> QED
  BY <1>4, <1>5, <1>6, <1>7, <1>8, <1>9, <1>10, <1>11, <1>12, <1>13

(* An accepted update makes a well-typed next version of the ticket, and   *)
(* one that keeps done work done leaves its execution section settled.     *)
LEMMA UpdatedTyped ==
  ASSUME NEW t \in Tickets, NEW u \in Updates, t.updated_at < MaxWrites
  PROVE  /\ Updated(t, u) \in Tickets
         /\ Updated(t, u).updated_at = t.updated_at + 1
         /\ (t.status = "done" => t.execution.state = "done") /\ KeepsDone(t, u)
            => (Updated(t, u).status = "done" => Updated(t, u).execution.state = "done")
<1> DEFINE e == IF u.execution = None THEN t.execution ELSE u.execution
           now == t.updated_at + 1
<1>1. now \in Stamps
  BY BoundAssumption DEF Tickets, Stamps
<1>2. e \in Executions
  BY DEF Tickets, Updates
<1>3. u.status \in Terminal => /\ Settled(e, u.status, now) \in Executions
                               /\ Settled(e, u.status, now).state = u.status
  BY <1>1, <1>2 DEF Settled, Executions, States, Terminal
<1>4. Updated(t, u) \in Tickets
  BY <1>1, <1>2, <1>3, NoneAssumption DEF Updated, Tickets, Updates
<1>5. Updated(t, u).updated_at = t.updated_at + 1
  BY DEF Updated
<1>6. ASSUME t.status = "done" => t.execution.state = "done", KeepsDone(t, u),
             Updated(t, u).status = "done"
      PROVE  Updated(t, u).execution.state = "done"
  <2>1. CASE u.status = None
    <3>1. t.status = "done" /\ u.status \notin Terminal
      BY <1>6, <2>1, NoneAssumption DEF Updated, Terminal, Statuses
    <3>2. e.state = "done"
      BY <1>6, <2>1, <3>1 DEF KeepsDone, ImmutableTerminal
    <3> QED
      BY <3>1, <3>2 DEF Updated
  <2>2. CASE u.status # None
    <3>1. u.status = "done" /\ u.status \in Terminal
      BY <1>6, <2>2 DEF Updated, Terminal
    <3> QED
      BY <1>3, <3>1 DEF Updated
  <2> QED
    BY <2>1, <2>2
<1> QED
  BY <1>4, <1>5, <1>6

-----------------------------------------------------------------------------
LEMMA InitInv == Init => Inv
<1> SUFFICES ASSUME Init PROVE Inv
  OBVIOUS
<1>1. ticket \in Tickets /\ DoneSettled
  <2>1. 0 \in Stamps
    BY BoundAssumption DEF Stamps
  <2>2. PICK s \in {"pending", "ready", "running"} :
          ticket = [status |-> "open",
                    execution |-> [state |-> s, assigned_to |-> None,
                                   attempt |-> 0, finished_at |-> 0],
                    notes |-> {}, updated_at |-> 0]
    BY DEF Init, Created
  <2> QED
    BY <2>1, <2>2 DEF Tickets, Executions, Statuses, States, DoneSettled
<1>2. TypeOK
  BY <1>1 DEF Init, TypeOK
<1>3. CallsSound
  BY DEF Init, CallsSound, ReadSound
<1> QED
  BY <1>1, <1>2, <1>3 DEF Inv

LEMMA ObserveInv ==
  ASSUME Inv, NEW p \in Procs, Observe(p) PROVE Inv'
<1> USE DEF Inv
<1>1. TypeOK'
  BY DEF TypeOK, Observe, Goto, Tickets
<1>2. ticket.updated_at \in Nat /\ ticket.updated_at # None
  BY NoneAssumption, BoundAssumption DEF TypeOK, Tickets, Stamps
<1>3. ASSUME NEW q \in Procs PROVE ReadSound(q)' /\
          (pc'[q] = "observed" => expected'[q] # None /\ expected'[q] <= ticket'.updated_at)
  <2>1. CASE q = p
    BY <1>2, <2>1 DEF TypeOK, Observe, Goto, ReadSound
  <2>2. CASE q # p
    BY <1>3, <2>2 DEF TypeOK, Observe, Goto, ReadSound, CallsSound
  <2> QED
    BY <2>1, <2>2
<1>4. CallsSound'
  BY <1>3 DEF CallsSound
<1>5. DoneSettled'
  BY DEF Observe, DoneSettled
<1> QED
  BY <1>1, <1>4, <1>5

LEMMA ReadInv ==
  ASSUME Inv, NEW p \in Procs, NEW o \in OpNames, Read(p, o) PROVE Inv'
<1> USE DEF Inv
<1>1. TypeOK'
  BY DEF TypeOK, Read, Goto
<1>2. ticket.updated_at \in Nat /\ ticket \in Tickets
  BY BoundAssumption DEF TypeOK, Tickets, Stamps
<1>3. ASSUME NEW q \in Procs PROVE ReadSound(q)' /\
          (pc'[q] = "observed" => expected'[q] # None /\ expected'[q] <= ticket'.updated_at)
  <2>1. CASE q = p
    BY <1>2, <2>1 DEF TypeOK, Read, Goto, ReadSound, CallsSound
  <2>2. CASE q # p
    BY <1>3, <2>2 DEF TypeOK, Read, Goto, ReadSound, CallsSound
  <2> QED
    BY <2>1, <2>2
<1>4. CallsSound'
  BY <1>3 DEF CallsSound
<1>5. DoneSettled'
  BY DEF Read, DoneSettled
<1> QED
  BY <1>1, <1>4, <1>5

(* A write makes a new version, which no other call has read.              *)
LEMMA WriteInv ==
  ASSUME Inv, NEW p \in Procs, NEW o, NEW updates, updates \subseteq Updates,
         Write(p, o, updates)
  PROVE  Inv'
<1> USE DEF Inv
<1>1. PICK u \in updates : Accept(p, u) \/ Refuse(p, u)
  BY DEF Write
<1>2. u \in Updates /\ ticket \in Tickets /\ ticket.updated_at \in Nat
  BY BoundAssumption DEF TypeOK, Tickets, Stamps
<1>3. /\ ticket' \in Tickets /\ DoneSettled'
      /\ ticket' = ticket \/ ticket'.updated_at = ticket.updated_at + 1
      /\ fails' \in Nat /\ said' \subseteq Procs
  <2>1. CASE Accept(p, u)
    <3>1. ticket' = Updated(ticket, u) /\ ticket.updated_at < MaxWrites
          /\ KeepsDone(ticket, u)
      BY <2>1 DEF Accept
    <3>2. fails' \in Nat /\ said' \subseteq Procs
      BY <2>1 DEF Accept, TypeOK
    <3> QED
      BY <1>2, <3>1, <3>2, UpdatedTyped DEF DoneSettled
  <2>2. CASE Refuse(p, u)
    BY <2>2 DEF Refuse, DoneSettled, TypeOK
  <2> QED
    BY <1>1, <2>1, <2>2
<1>4. TypeOK'
  BY <1>3 DEF TypeOK, Write, Goto
<1>5. ASSUME NEW q \in Procs PROVE ReadSound(q)' /\
          (pc'[q] = "observed" => expected'[q] # None /\ expected'[q] <= ticket'.updated_at)
  <2>1. CASE q = p
    BY <2>1 DEF TypeOK, Write, Goto, ReadSound
  <2>2. CASE q # p
    <3>1. /\ pc'[q] = pc[q] /\ op'[q] = op[q] /\ base'[q] = base[q]
          /\ expected'[q] = expected[q]
      BY <2>2 DEF TypeOK, Write, Goto
    <3>2. expected[q] # None => expected[q] \in Nat
      BY BoundAssumption DEF TypeOK, Stamps
    <3>3. base[q] \in Tickets => base[q].updated_at \in Nat
      BY BoundAssumption DEF Tickets, Stamps
    <3>4. ReadSound(q) /\
          (pc[q] = "observed" => expected[q] # None /\ expected[q] <= ticket.updated_at)
      BY DEF CallsSound
    <3>5. pc[q] = "observed" => expected[q] <= ticket'.updated_at
      BY <1>2, <1>3, <3>2, <3>4
    <3>6. pc[q] = "read" => /\ base[q].updated_at <= ticket'.updated_at
                            /\ base[q].updated_at = ticket'.updated_at => base[q] = ticket'
      BY <1>2, <1>3, <3>3, <3>4 DEF ReadSound
    <3> QED
      BY <3>1, <3>4, <3>5, <3>6 DEF ReadSound
  <2> QED
    BY <2>1, <2>2
<1>6. CallsSound'
  BY <1>5 DEF CallsSound
<1> QED
  BY <1>3, <1>4, <1>6

LEMMA StepInv == Inv /\ [Next]_vars => Inv'
<1> SUFFICES ASSUME Inv, [Next]_vars PROVE Inv'
  OBVIOUS
<1>1. CASE UNCHANGED vars
  BY <1>1 DEF Inv, vars, callVars, TypeOK, CallsSound, ReadSound, DoneSettled
<1>2. CASE Next
  <2>1. PICK p \in Procs :
          \/ Observe(p)
          \/ \E o \in OpNames : Read(p, o)
          \/ Write(p, "claim", Claim(p, base[p]))
          \/ Write(p, "start", Start(p, base[p]))
          \/ Write(p, "complete", Complete(p, base[p]))
          \/ Write(p, "fail", Fail(p, base[p]))
          \/ Write(p, "block", Block(p, base[p]))
          \/ Write(p, "wait", Wait(p, base[p]))
          \/ Write(p, "ready", Ready(p, base[p]))
          \/ Write(p, "respond", Respond(p, base[p]))
          \/ Write(p, "note", Note(p, base[p]))
          \/ Write(p, "patch", Patch(p, base[p]))
    BY <1>2 DEF Next, Call
  <2>2. pc[p] = "read" => base[p] \in Tickets
    BY DEF Inv, CallsSound, ReadSound
  <2>3. CASE Observe(p)
    BY <2>3, ObserveInv
  <2>4. CASE \E o \in OpNames : Read(p, o)
    BY <2>4, ReadInv
  <2>5. CASE Write(p, "claim", Claim(p, base[p]))
    <3>1. Claim(p, base[p]) \subseteq Updates
      BY <2>2, <2>5, UpdatesSound DEF Write, Goto
    <3> QED
      BY <2>5, <3>1, WriteInv
  <2>6. CASE Write(p, "start", Start(p, base[p]))
    <3>1. Start(p, base[p]) \subseteq Updates
      BY <2>2, <2>6, UpdatesSound DEF Write, Goto
    <3> QED
      BY <2>6, <3>1, WriteInv
  <2>7. CASE Write(p, "complete", Complete(p, base[p]))
    <3>1. Complete(p, base[p]) \subseteq Updates
      BY <2>2, <2>7, UpdatesSound DEF Write, Goto
    <3> QED
      BY <2>7, <3>1, WriteInv
  <2>8. CASE Write(p, "fail", Fail(p, base[p]))
    <3>1. Fail(p, base[p]) \subseteq Updates
      BY <2>2, <2>8, UpdatesSound DEF Write, Goto
    <3> QED
      BY <2>8, <3>1, WriteInv
  <2>9. CASE Write(p, "block", Block(p, base[p]))
    <3>1. Block(p, base[p]) \subseteq Updates
      BY <2>2, <2>9, UpdatesSound DEF Write, Goto
    <3> QED
      BY <2>9, <3>1, WriteInv
  <2>10. CASE Write(p, "wait", Wait(p, base[p]))
    <3>1. Wait(p, base[p]) \subseteq Updates
      BY <2>2, <2>10, UpdatesSound DEF Write, Goto
    <3> QED
      BY <2>10, <3>1, WriteInv
  <2>11. CASE Write(p, "ready", Ready(p, base[p]))
    <3>1. Ready(p, base[p]) \subseteq Updates
      BY <2>2, <2>11, UpdatesSound DEF Write, Goto
    <3> QED
      BY <2>11, <3>1, WriteInv
  <2>12. CASE Write(p, "respond", Respond(p, base[p]))
    <3>1. Respond(p, base[p]) \subseteq Updates
      BY <2>2, <2>12, UpdatesSound DEF Write, Goto
    <3> QED
      BY <2>12, <3>1, WriteInv
  <2>13. CASE Write(p, "note", Note(p, base[p]))
    <3>1. Note(p, base[p]) \subseteq Updates
      BY <2>2, <2>13, UpdatesSound DEF Write, Goto
    <3> QED
      BY <2>13, <3>1, WriteInv
  <2>14. CASE Write(p, "patch", Patch(p, base[p]))
    <3>1. Patch(p, base[p]) \subseteq Updates
      BY <2>2, <2>14, UpdatesSound DEF Write, Goto
    <3> QED
      BY <2>14, <3>1, WriteInv
  <2> QED
    BY <2>1, <2>3, <2>4, <2>5, <2>6, <2>7, <2>8, <2>9, <2>10, <2>11, <2>12, <2>13, <2>14
<1> QED
  BY <1>1, <1>2

(* The ticket is well typed in every reachable state.                      *)
THEOREM TypeCorrect == Spec => []TypeOK
<1>1. Inv => TypeOK
  BY DEF Inv
<1> QED
  BY <1>1, InitInv, StepInv, PTL DEF Spec

(* What a call has read is the ticket as long as their updated_at agree.   *)
THEOREM CallsSoundCorrect == Spec => []CallsSound
<1>1. Inv => CallsSound
  BY DEF Inv
<1> QED
  BY <1>1, InitInv, StepInv, PTL DEF Spec

(* Done work has execution state done, whatever stale calls are made       *)
(* about it.                                                               *)
THEOREM DoneSettledCorrect == Spec => []DoneSettled
<1>1. Inv => DoneSettled
  BY DEF Inv
<1> QED
  BY <1>1, InitInv, StepInv, PTL DEF Spec

LEMMA StepMap ==
  ASSUME Inv, Inv', Next, ticket' # ticket PROVE Map!Next
<1>1. PICK p \in Procs : \E u : Accept(p, u)
  BY DEF Next, Call, Observe, Read, Write, Refuse
<1>2. PICK u : Accept(p, u)
  BY <1>1
<1> DEFINE class(s) == IF s = "done" THEN "done" ELSE IF s \in Terminal THEN "blocked"
                       ELSE "open"
           now == [status |-> class(ticket.status), upd |-> ticket.updated_at,
                   fin |-> ticket.execution.finished_at]
           next == [status |-> class(ticket'.status), upd |-> ticket'.updated_at,
                    fin |-> ticket'.execution.finished_at]
<1>3. ticket \in Tickets /\ ticket' \in Tickets
  BY DEF Inv, TypeOK
<1>4. ticket'.updated_at = ticket.updated_at + 1
  BY <1>2 DEF Accept, Updated
<1>5. next \in Map!Record
  BY <1>3 DEF Map!Record, Tickets, Executions, Stamps
<1>6. next.upd > now.upd
  BY <1>3, <1>4, BoundAssumption DEF Tickets, Stamps
<1>7. now.status = "done" => next.status # "open"
  BY <1>2, NoneAssumption
  DEF Accept, KeepsDone, Updated, Terminal, ImmutableTerminal, Statuses
<1>8. now \in Map!Record /\ now # None
  BY <1>3, AbsentAssumption DEF Map!Record, Tickets, Executions, Stamps
<1> QED
  BY <1>5, <1>6, <1>7, <1>8 DEF Map!Next, Map!Update

(* A call that the store accepts is a mutation of its map of tickets.      *)
THEOREM MutatesAsMapCorrect == Spec => MutatesAsMap
<1>1. Inv /\ Inv' /\ [Next]_vars => [Map!Next]_ticket
  BY StepMap DEF vars
<1> QED
  BY <1>1, InitInv, StepInv, PTL DEF Spec, MutatesAsMap

-----------------------------------------------------------------------------
(* Callers who all name the updated_at they saw.                           *)

CurrentInv == Inv /\ AttemptsCounted /\ NotesKept /\ BlockedNotRunning

LEMMA WriteCurrent ==
  ASSUME CurrentInv, Ops \subseteq Conditional, NEW p \in Procs, NEW o \in OpNames,
         NEW updates, updates \subseteq Updates,
         \A u \in updates : Continues(base[p], u, FailureOf(o)),
         Write(p, o, updates)
  PROVE  AttemptsCounted' /\ NotesKept' /\ BlockedNotRunning'
<1> USE DEF CurrentInv, Inv
<1>1. PICK u \in updates : Accept(p, u) \/ Refuse(p, u)
  BY DEF Write
<1>2. CASE Accept(p, u)
  <2>1. expected[p] # None /\ expected[p] = ticket.updated_at
    BY <1>2 DEF Accept, IsCurrent, Write, Goto, CallsSound, ReadSound
  <2>2. base[p] = ticket
    <3>1. /\ expected[p] <= base[p].updated_at /\ base[p].updated_at <= ticket.updated_at
          /\ base[p] \in Tickets
      BY DEF Write, Goto, CallsSound, ReadSound
    <3>2. base[p].updated_at \in Nat /\ ticket.updated_at \in Nat
      BY <3>1, BoundAssumption DEF TypeOK, Tickets, Stamps
    <3>3. base[p].updated_at = ticket.updated_at
      BY <2>1, <3>1, <3>2
    <3> QED
      BY <3>3 DEF Write, Goto, CallsSound, ReadSound
  <2>3. Continues(ticket, u, FailureOf(o)) /\ u \in Updates
    BY <2>2
  <2>4. /\ ticket' = Updated(ticket, u)
        /\ fails' = IF o = "fail" THEN fails + 1 ELSE fails
        /\ said' = IF u.notes # None THEN said \cup (u.notes \cap {p}) ELSE said
    BY <1>2 DEF Accept, Write
  <2>5. AttemptsCounted'
    <3>1. ticket.execution.attempt = fails /\ fails \in Nat
      BY DEF AttemptsCounted, TypeOK
    <3>2. ticket'.execution.attempt = IF u.execution = None THEN ticket.execution.attempt
                                      ELSE u.execution.attempt
      BY <2>3, <2>4 DEF Updated, Settled, TypeOK, Tickets, Executions, Updates
    <3> QED
      BY <2>3, <2>4, <3>1, <3>2 DEF AttemptsCounted, Continues, FailureOf
  <2>6. NotesKept'
    BY <2>3, <2>4 DEF NotesKept, Updated, Continues
  <2>7. BlockedNotRunning'
    <3>1. CASE u.status = None
      <4>1. ticket'.status = ticket.status
            /\ ticket'.execution = IF u.execution = None THEN ticket.execution
                                   ELSE u.execution
        BY <2>4, <3>1, NoneAssumption DEF Updated, Terminal, Statuses
      <4> QED
        BY <2>3, <3>1, <4>1 DEF Continues, BlockedNotRunning
    <3>2. CASE u.status # None
      <4>1. ticket'.status = u.status
        BY <2>4, <3>2 DEF Updated
      <4>2. u.status = "blocked" => ticket'.execution.state = "blocked"
        BY <2>3, <2>4 DEF Updated, Settled, Terminal, TypeOK, Tickets, Executions, Updates
      <4> QED
        BY <4>1, <4>2 DEF BlockedNotRunning
    <3> QED
      BY <3>1, <3>2
  <2> QED
    BY <2>5, <2>6, <2>7
<1>3. CASE Refuse(p, u)
  BY <1>3 DEF Refuse, AttemptsCounted, NotesKept, BlockedNotRunning
<1> QED
  BY <1>1, <1>2, <1>3

LEMMA StepCurrent ==
  ASSUME Ops \subseteq Conditional, CurrentInv, [Next]_vars PROVE CurrentInv'
<1>1. Inv'
  BY StepInv DEF CurrentInv
<1>2. CASE UNCHANGED vars
  BY <1>1, <1>2 DEF CurrentInv, vars, AttemptsCounted, NotesKept, BlockedNotRunning
<1>3. ASSUME NEW p \in Procs, Observe(p) \/ \E o \in OpNames : Read(p, o)
      PROVE  CurrentInv'
  BY <1>1, <1>3
  DEF CurrentInv, Observe, Read, AttemptsCounted, NotesKept, BlockedNotRunning
<1>4. ASSUME NEW p \in Procs, NEW o \in OpNames, NEW updates, Write(p, o, updates),
             base[p] \in Tickets => updates \subseteq Updates,
             base[p] \in Tickets => \A u \in updates : Continues(base[p], u, FailureOf(o))
      PROVE  CurrentInv'
  <2>1. base[p] \in Tickets
    BY <1>4 DEF Write, Goto, CurrentInv, Inv, CallsSound, ReadSound
  <2>2. AttemptsCounted' /\ NotesKept' /\ BlockedNotRunning'
    BY <1>4, <2>1, WriteCurrent
  <2> QED
    BY <1>1, <2>2 DEF CurrentInv
<1>5. CASE Next
  <2>1. PICK p \in Procs :
          \/ Observe(p)
          \/ \E o \in OpNames : Read(p, o)
          \/ Write(p, "claim", Claim(p, base[p]))
          \/ Write(p, "start", Start(p, base[p]))
          \/ Write(p, "complete", Complete(p, base[p]))
          \/ Write(p, "fail", Fail(p, base[p]))
          \/ Write(p, "block", Block(p, base[p]))
          \/ Write(p, "wait", Wait(p, base[p]))
          \/ Write(p, "ready", Ready(p, base[p]))
          \/ Write(p, "respond", Respond(p, base[p]))
          \/ Write(p, "note", Note(p, base[p]))
          \/ Write(p, "patch", Patch(p, base[p]))
    BY <1>5 DEF Next, Call
  <2>2. CASE Observe(p) \/ \E o \in OpNames : Read(p, o)
    BY <1>3, <2>2
  <2>3. CASE Write(p, "claim", Claim(p, base[p]))
    <3>1. "claim" \in OpNames /\ FailureOf("claim") = 0
      BY DEF OpNames, FailureOf
    <3> QED
      BY <1>4, <2>3, <3>1, UpdatesSound
  <2>4. CASE Write(p, "start", Start(p, base[p]))
    <3>1. "start" \in OpNames /\ FailureOf("start") = 0
      BY DEF OpNames, FailureOf
    <3> QED
      BY <1>4, <2>4, <3>1, UpdatesSound
  <2>5. CASE Write(p, "complete", Complete(p, base[p]))
    <3>1. "complete" \in OpNames /\ FailureOf("complete") = 0
      BY DEF OpNames, FailureOf
    <3> QED
      BY <1>4, <2>5, <3>1, UpdatesSound
  <2>6. CASE Write(p, "fail", Fail(p, base[p]))
    <3>1. "fail" \in OpNames /\ FailureOf("fail") = 1
      BY DEF OpNames, FailureOf
    <3> QED
      BY <1>4, <2>6, <3>1, UpdatesSound
  <2>7. CASE Write(p, "block", Block(p, base[p]))
    <3>1. "block" \in OpNames /\ FailureOf("block") = 0
      BY DEF OpNames, FailureOf
    <3> QED
      BY <1>4, <2>7, <3>1, UpdatesSound
  <2>8. CASE Write(p, "wait", Wait(p, base[p]))
    <3>1. "wait" \in OpNames /\ FailureOf("wait") = 0
      BY DEF OpNames, FailureOf
    <3> QED
      BY <1>4, <2>8, <3>1, UpdatesSound
  <2>9. CASE Write(p, "ready", Ready(p, base[p]))
    <3>1. "ready" \in OpNames /\ FailureOf("ready") = 0
      BY DEF OpNames, FailureOf
    <3> QED
      BY <1>4, <2>9, <3>1, UpdatesSound
  <2>10. CASE Write(p, "respond", Respond(p, base[p]))
    <3>1. "respond" \in OpNames /\ FailureOf("respond") = 0
      BY DEF OpNames, FailureOf
    <3> QED
      BY <1>4, <2>10, <3>1, UpdatesSound
  <2>11. CASE Write(p, "note", Note(p, base[p]))
    <3>1. "note" \in OpNames /\ FailureOf("note") = 0
      BY DEF OpNames, FailureOf
    <3> QED
      BY <1>4, <2>11, <3>1, UpdatesSound
  <2>12. CASE Write(p, "patch", Patch(p, base[p]))
    <3>1. "patch" \in OpNames /\ FailureOf("patch") = 0
      BY DEF OpNames, FailureOf
    <3> QED
      BY <1>4, <2>12, <3>1, UpdatesSound
  <2> QED
    BY <2>1, <2>2, <2>3, <2>4, <2>5, <2>6, <2>7, <2>8, <2>9, <2>10, <2>11, <2>12
<1> QED
  BY <1>2, <1>5

LEMMA InitCurrent == Init => CurrentInv
<1> SUFFICES ASSUME Init PROVE CurrentInv
  OBVIOUS
<1>1. Inv
  BY InitInv
<1>2. PICK s \in {"pending", "ready", "running"} :
        ticket = [status |-> "open",
                  execution |-> [state |-> s, assigned_to |-> None,
                                 attempt |-> 0, finished_at |-> 0],
                  notes |-> {}, updated_at |-> 0]
  BY DEF Init, Created
<1> QED
  BY <1>1, <1>2 DEF Init, CurrentInv, AttemptsCounted, NotesKept, BlockedNotRunning

(* When every call names the updated_at its caller saw, execution.attempt  *)
(* counts every failed execution, no recorded note is lost and a blocked   *)
(* ticket never carries a running claim.                                   *)
THEOREM CurrentCallsLoseNothingCorrect ==
  ASSUME Ops \subseteq Conditional PROVE Spec => []CurrentCallsLoseNothing
<1>1. CurrentInv /\ [Next]_vars => CurrentInv'
  BY StepCurrent
<1>2. CurrentInv => CurrentCallsLoseNothing
  BY DEF CurrentInv, CurrentCallsLoseNothing
<1> QED
  BY <1>1, <1>2, InitCurrent, PTL DEF Spec
=============================================================================
