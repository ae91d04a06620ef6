------------------------------ MODULE Evidence ------------------------------
(***************************************************************************)
(* Evidence of external effects (store.py 285-345, 2080-2194).             *)
(*                                                                         *)
(* append_ticket_evidence holds .store.lock, looks for its idempotency key *)
(* among what the ticket shows, and appends one line to the journal of the *)
(* ticket.  The ticket shows its stored outputs with the journal projected *)
(* on them; other calls read that without the lock and store it whole.     *)
(***************************************************************************)
EXTENDS Integers, Sequences

CONSTANTS Keys, Payloads, Callers,
          MaxLines, MaxFailures  \* bounds of a run

(* An item of the collection names the key found in it; a line names the   *)
(* key of its call, and may be torn or have swallowed the next one.        *)
Items == [key : Keys, content : Payloads]
Lines == [key : Keys, item : Items, whole : BOOLEAN]

VARIABLES
  outputs,  \* the items in the sprint file
  journal,  \* the lines of evidence/<ticket>.jsonl
  torn,     \* the last line has no end
  call,     \* each caller's append
  elock,    \* who holds the lock, "" when free
  writer,   \* a call that read the ticket and will store its outputs
  recorded, \* history: items answered as recorded or already there
  failures

evidenceVars == <<outputs, journal, torn, call, elock, writer, recorded, failures>>

KeysOf(items) == {items[i].key : i \in 1..Len(items)}

(* A mutant: every whole line adds its item.                               *)
ShownAllMutant ==
  LET shown[n \in 0..Len(journal)] ==
        IF n = 0 THEN outputs
        ELSE IF journal[n].whole THEN Append(shown[n - 1], journal[n].item)
        ELSE shown[n - 1]
  IN shown[Len(journal)]

(* _apply_ticket_evidence_events: a line whose key an item has adds none.  *)
Shown ==
  LET shown[n \in 0..Len(journal)] ==
        IF n = 0 THEN outputs
        ELSE LET line == journal[n]
             IN IF ~line.whole \/ line.key \in KeysOf(shown[n - 1]) THEN shown[n - 1]
                ELSE Append(shown[n - 1], line.item)
  IN shown[Len(journal)]

NoCall == [pc |-> "idle"]
NoWriter == [pc |-> "idle"]

EInit ==
  /\ outputs = <<>> /\ journal = <<>> /\ torn = FALSE
  /\ call = [c \in Callers |-> NoCall]
  /\ elock = "" /\ writer = NoWriter
  /\ recorded = {} /\ failures = 0

-----------------------------------------------------------------------------
AnswersAs(c, key, item) ==
  /\ call' = [call EXCEPT ![c] = NoCall]
  /\ elock' = ""
  /\ recorded' = recorded \cup {[key |-> key, item |-> item]}

Found(key) == {i \in 1..Len(Shown) : Shown[i].key = key}

(* A repeated key returns the ticket, and raises when its payload differs. *)
Repeated(c, key, item) ==
  /\ Found(key) # {} /\ \A i \in Found(key) : Shown[i] = item
  /\ AnswersAs(c, key, item)

NewCall(c, key, item) ==
  /\ Found(key) = {}
  /\ call' = [call EXCEPT ![c] = [pc |-> "append", key |-> key, item |-> item]]
  /\ UNCHANGED recorded

(* A mutant: the key is looked for before the lock is taken.               *)
CheckThenLockMutant(c) ==
  /\ call[c].pc = "idle"
  /\ \E key \in Keys, content \in Payloads :
       NewCall(c, key, [key |-> key, content |-> content])
  /\ UNCHANGED <<outputs, journal, torn, writer, failures, elock>>

(* The payload may have an idempotency key of its own.                     *)
LockAndCheck(c) ==
  /\ call[c].pc = "idle" /\ elock = ""
  /\ \E key, own \in Keys, content \in Payloads :
       LET item == [key |-> own, content |-> content]
       IN \/ NewCall(c, key, item) /\ elock' = c
          \/ Repeated(c, key, item)
  /\ UNCHANGED <<outputs, journal, torn, writer, failures>>

Line(append, whole) == [key |-> append.key, item |-> append.item, whole |-> whole]

(* The line ends what is on the disk: a torn line before it swallows it.   *)
AppendLine(c) ==
  /\ call[c].pc = "append" /\ Len(journal) < MaxLines
  /\ journal' = IF torn THEN journal ELSE Append(journal, Line(call[c], TRUE))
  /\ torn' = FALSE
  /\ call' = [call EXCEPT ![c].pc = "log"]
  /\ UNCHANGED <<outputs, writer, recorded, failures, elock>>

(* The disk is full in the middle of the line: the call raises.            *)
TearLine(c) ==
  /\ call[c].pc = "append" /\ ~torn /\ Len(journal) < MaxLines
  /\ failures < MaxFailures
  /\ journal' = Append(journal, Line(call[c], FALSE))
  /\ failures' = failures + 1
  /\ torn' = TRUE
  /\ call' = [call EXCEPT ![c] = NoCall]
  /\ elock' = ""
  /\ UNCHANGED <<outputs, writer, recorded>>

(* The operational line and the answer.                                    *)
LogAndAnswer(c) ==
  /\ call[c].pc = "log"
  /\ AnswersAs(c, call[c].key, call[c].item)
  /\ UNCHANGED <<outputs, journal, torn, writer, failures>>

DieAppending(c) ==
  /\ call[c].pc # "idle" /\ failures < MaxFailures
  /\ call' = [call EXCEPT ![c] = NoCall]
  /\ elock' = ""
  /\ failures' = failures + 1
  /\ UNCHANGED <<outputs, journal, torn, writer, recorded>>

(* complete_ticket, add_ticket_note and PATCH: the outputs a caller saw    *)
(* replace the stored ones later.                                          *)
ReadOutputs ==
  /\ writer.pc = "idle"
  /\ writer' = [pc |-> "write", seen |-> Shown]
  /\ UNCHANGED <<outputs, journal, torn, call, elock, recorded, failures>>

StoreSeen ==
  /\ writer.pc = "write" /\ elock = "" /\ Len(writer.seen) <= MaxLines
  /\ outputs' = writer.seen
  /\ writer' = NoWriter
  /\ UNCHANGED <<torn, call, elock, recorded, failures>>

(* A mutant: the journal is emptied once its items are stored.             *)
StoreAndClearMutant == StoreSeen /\ journal' = <<>>

StoreOutputs == StoreSeen /\ UNCHANGED journal

ENext == \/ \E c \in Callers : \/ LockAndCheck(c) \/ AppendLine(c) \/ TearLine(c)
                               \/ LogAndAnswer(c) \/ DieAppending(c)
         \/ ReadOutputs \/ StoreOutputs

ESpec == EInit /\ [][ENext]_evidenceVars

-----------------------------------------------------------------------------
(* What the code does not prevent: a payload with an idempotency key of    *)
(* its own, other than that of the call, is not recognised when the call   *)
(* is repeated; a torn line swallows the line that is appended after it.   *)
Foreign == \/ \E i \in 1..Len(journal) : journal[i].key # journal[i].item.key
           \/ \E r \in recorded : r.key # r.item.key
Swallowed == \E i \in 1..Len(journal) : ~journal[i].whole /\ ~(torn /\ i = Len(journal))

(* However often and by whomever an effect is reported, and whatever other *)
(* calls store meanwhile, the ticket shows one item for its key.           *)
RecordedOnce ==
  ~Foreign => \A i, j \in 1..Len(Shown) : Shown[i].key = Shown[j].key => i = j

(* What was answered as recorded stays visible, with the payload it had,   *)
(* unless a torn line swallowed one.                                       *)
EvidenceKept ==
  ~Swallowed => \A r \in recorded : \E i \in 1..Len(Shown) : Shown[i] = r.item

(* A key never stands for two payloads.                                    *)
OnePayload ==
  ~Foreign /\ ~Swallowed => \A r, q \in recorded : r.key = q.key => r.item = q.item
=============================================================================
