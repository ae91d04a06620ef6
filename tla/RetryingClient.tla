--------------------------- MODULE RetryingClient ---------------------------
(***************************************************************************)
(* PlanfileClient (client.py): lifecycle calls for schedulers and agents,  *)
(* which answer a code and whether a retry makes sense.  The client itself *)
(* repeats a call only while the store's lock times out; its callers       *)
(* repeat a call that was answered "retryable".  The store may fail before *)
(* it wrote the ticket, or after: the journal line, the rotation and the   *)
(* index come after the write.                                             *)
(*                                                                         *)
(* Lifecycle has the calls with what may come between their read and their *)
(* write; here each is one step.  A call is issued at least once and       *)
(* tries the lock at least once: LockRetries and MaxAttempts are positive. *)
(***************************************************************************)
EXTENDS Naturals, FiniteSets

CONSTANTS
  Callers,
  MaxCalls,         \* bound: times a caller issues its call
  LockRetries,      \* lock_retry_attempts
  MaxFaults,        \* bound: store errors and lock timeouts
  MaxAttempts       \* execution.max_attempts of the ticket

Operations == {"claim", "start", "complete", "fail", "ready", "block", "note"}
Anything == 0  \* no expected_updated_at; stamps start at 1
NoAnswer == [code |-> "none", retryable |-> FALSE, attempts |-> 0]

VARIABLES
  ticket,  \* [there, status, attempt, notes, updated_at]
  call,    \* of each caller: [at, op, expects, tries, answer]
  issued,  \* how often each caller issued its call
  faults,
  applied, \* history: how often the store wrote the call of each caller
  unsure   \* history: callers answered "store_error" after the write

clientVars == <<ticket, call, issued, faults, applied, unsure>>

ClientInit ==
  /\ ticket = [there |-> TRUE, status |-> "open", attempt |-> 0, notes |-> 0, updated_at |-> 1]
  /\ call = [c \in Callers |->
       [at |-> "idle", op |-> "note", expects |-> Anything, tries |-> 0, answer |-> NoAnswer]]
  /\ issued = [c \in Callers |-> 0]
  /\ faults = 0
  /\ applied = [c \in Callers |-> 0]
  /\ unsure = {}

-----------------------------------------------------------------------------
(* What each call makes of the ticket.                                     *)
Exhausted == ticket.attempt + 1 >= MaxAttempts

Status(op) ==
  CASE op = "start" -> "in_progress"
    [] op = "complete" -> "done"
    [] op = "fail" -> IF Exhausted THEN "failed" ELSE "open"
    [] op = "ready" -> "open"
    [] op = "block" -> "blocked"
    [] OTHER -> ticket.status

(* A mutant: expected_updated_at is not compared.                          *)
RefusedUncheckedMutant(c) ==
  ticket.status = "done" /\ Status(call[c].op) \in {"open", "in_progress"}

(* The store refuses, with a ValueError, to reopen what is done and to     *)
(* update a ticket that has another updated_at than expected.              *)
Refused(c) ==
  LET status == Status(call[c].op)
  IN  \/ ticket.status = "done" /\ status \in {"open", "in_progress"}
      \/ call[c].expects \notin {Anything, ticket.updated_at}

Write(c) ==
  /\ ticket' = [ticket EXCEPT !.status = Status(call[c].op),
                              !.attempt = IF call[c].op = "fail" THEN @ + 1 ELSE @,
                              !.notes = IF call[c].op = "note" THEN @ + 1 ELSE @,
                              !.updated_at = @ + 1]
  /\ applied' = [applied EXCEPT ![c] = @ + 1]

-----------------------------------------------------------------------------
(* A caller issues a call; fail may name the revision it saw.              *)
Issue(c) ==
  /\ call[c].at = "idle" /\ issued[c] = 0
  /\ \E op \in Operations, expects \in {Anything, ticket.updated_at} :
       /\ expects # Anything => op = "fail"
       /\ call' = [call EXCEPT ![c] =
            [at |-> "calls", op |-> op, expects |-> expects, tries |-> 1, answer |-> NoAnswer]]
  /\ issued' = [issued EXCEPT ![c] = 1]
  /\ UNCHANGED <<ticket, faults, applied, unsure>>

Answered(c, code, retryable) ==
  call' = [call EXCEPT ![c].at = "answered",
                       ![c].answer = [code |-> code, retryable |-> retryable,
                                      attempts |-> call[c].tries]]

(* _apply: the mutation, and what its outcome is called.                   *)
Succeeds(c) ==
  /\ ticket.there /\ ~Refused(c)
  /\ Write(c)
  /\ Answered(c, "ok", FALSE)
  /\ UNCHANGED <<faults, unsure>>

NotFound(c) ==
  /\ ~ticket.there
  /\ Answered(c, "ticket_not_found", FALSE)
  /\ UNCHANGED <<ticket, faults, applied, unsure>>

(* A mutant: the refusal comes after the write.                            *)
InvalidWrittenMutant(c) ==
  /\ ticket.there /\ Refused(c)
  /\ Write(c)
  /\ Answered(c, "invalid_transition", FALSE)
  /\ UNCHANGED <<faults, unsure>>

Invalid(c) ==
  /\ ticket.there /\ Refused(c)
  /\ Answered(c, "invalid_transition", FALSE)
  /\ UNCHANGED <<ticket, faults, applied, unsure>>

Fault == faults < MaxFaults /\ faults' = faults + 1

LockTimesOut(c) ==
  /\ Fault
  /\ IF call[c].tries < LockRetries
       THEN call' = [call EXCEPT ![c].tries = @ + 1]
       ELSE Answered(c, "lock_timeout", TRUE)
  /\ UNCHANGED <<ticket, applied, unsure>>

StoreFails(c) ==
  /\ ticket.there /\ ~Refused(c)
  /\ Fault
  /\ \/ UNCHANGED <<ticket, applied, unsure>>
     \/ Write(c) /\ unsure' = unsure \cup {c}
  /\ Answered(c, "store_error", TRUE)

Apply(c) ==
  /\ call[c].at = "calls"
  /\ Succeeds(c) \/ NotFound(c) \/ Invalid(c) \/ LockTimesOut(c) \/ StoreFails(c)
  /\ UNCHANGED issued

(* The caller decides from the answer alone.                               *)
Repeat(c) ==
  /\ call[c].at = "answered" /\ call[c].answer.retryable
  /\ issued[c] < MaxCalls
  /\ issued' = [issued EXCEPT ![c] = @ + 1]
  /\ call' = [call EXCEPT ![c].at = "calls", ![c].tries = 1, ![c].answer = NoAnswer]
  /\ UNCHANGED <<ticket, faults, applied, unsure>>

(* Someone deletes the ticket.                                             *)
Deleted ==
  /\ ticket.there
  /\ ticket' = [ticket EXCEPT !.there = FALSE]
  /\ UNCHANGED <<call, issued, faults, applied, unsure>>

ClientNext == Deleted \/ \E c \in Callers : Issue(c) \/ Apply(c) \/ Repeat(c)

-----------------------------------------------------------------------------
(* An answer is what happened: "ok" was written, and a final refusal or a  *)
(* lock that timed out means it was not, unless an earlier answer to the   *)
(* same call was a store error after the write.                            *)
AnswersTrue ==
  \A c \in Callers : LET answer == call[c].answer IN
    /\ answer.code = "ok" => applied[c] > 0
    /\ answer.code \in {"ticket_not_found", "invalid_transition", "lock_timeout"}
         => applied[c] = 0 \/ c \in unsure

(* However a caller repeats what may be repeated, a call is written once,  *)
(* unless the store failed after the write; with an expected revision it   *)
(* is written once even then.                                              *)
WrittenOnce ==
  \A c \in Callers :
    applied[c] > 1 => c \in unsure /\ call[c].expects = Anything

=============================================================================
