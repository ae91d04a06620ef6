------------------------------- MODULE Journal -------------------------------
(***************************************************************************)
(* The operational journal and the daily forensic log made from it         *)
(* (store.py 110-245).                                                     *)
(*                                                                         *)
(* A mutation appends its events, under .store.lock, first to the forensic *)
(* log and then to operations.jsonl.  The log of a past day is appended to *)
(* its history file and removed.  The first append ever fills the log from *)
(* the journal and leaves a receipt.  A file is modelled by how many lines *)
(* it has for each event, a missing one by none.                           *)
(***************************************************************************)
EXTENDS Integers, FiniteSets

CONSTANTS Events,      \* every event, numbered in the order of the journal
          Legacy,      \* those in the journal from before the forensic log
          LastDay,
          Batch,       \* events projected at a time by the backfill
          JMaxCrashes  \* bound of a run

Days == 1..LastDay
Files == [Events -> Nat]
NoLines == [e \in Events |-> 0]

VARIABLES
  day,      \* today
  date,     \* the day in the timestamp of an event, 0 before it is made
  ops,      \* the events in operations.jsonl
  live,     \* logs.dsl.txt
  liveDay,  \* the recorded date, 0 when there is none
  hist,     \* logs-<date>.dsl.txt for each day
  receipt,  \* the backfill is done
  app,      \* the append under way
  jcrashes

journalVars == <<day, date, ops, live, liveDay, hist, receipt, app, jcrashes>>

(* pc: the next step; phase: what the append is at; done: events of the    *)
(* journal the backfill has read; events: of the mutation; day: today when *)
(* the rotation began; today, past: what is left to write to the live log  *)
(* and to the history files.                                               *)
NoAppend == [pc |-> "idle", phase |-> "ensure", done |-> {}, events |-> {},
             today |-> {}, past |-> {}, day |-> 0]

JInit ==
  /\ day = 1
  /\ date = [e \in Events |-> IF e \in Legacy THEN 1 ELSE 0]
  /\ ops = Legacy
  /\ live = NoLines /\ liveDay = 0 /\ hist = [d \in Days |-> NoLines]
  /\ receipt = FALSE /\ app = NoAppend /\ jcrashes = 0

Midnight ==
  /\ day < LastDay
  /\ day' = day + 1
  /\ UNCHANGED <<date, ops, live, liveDay, hist, receipt, app, jcrashes>>

(* _append_operational_lines with new events; an imported ticket brings a  *)
(* timestamp of an earlier day.                                            *)
BeginAppend ==
  /\ app.pc = "idle"
  /\ \E E \in SUBSET {e \in Events : date[e] = 0} \ {{}} :
       /\ \A e \in E, f \in Events : date[f] = 0 /\ f < e => f \in E
       /\ Cardinality(E) <= 2
       /\ \E when \in [E -> 1..day] :
            date' = [e \in Events |-> IF e \in E THEN when[e] ELSE date[e]]
       /\ app' = [NoAppend EXCEPT !.pc = "rotate", !.events = E]
  /\ UNCHANGED <<day, ops, live, liveDay, hist, receipt, jcrashes>>

(* _rotate_forensic_log_unlocked: copy, unlink, stamp.                     *)
Rotate ==
  /\ app.pc = "rotate"
  /\ IF liveDay \notin {0, day}
     THEN /\ hist' = [hist EXCEPT ![liveDay] = [e \in Events |-> @[e] + live[e]]]
          /\ app' = [app EXCEPT !.pc = "unlink", !.day = day]
     ELSE /\ app' = [app EXCEPT !.pc = "stamp", !.day = day]
          /\ UNCHANGED hist
  /\ UNCHANGED <<day, date, ops, live, liveDay, receipt, jcrashes>>

(* A mutant: the log stays where it was copied from.                       *)
UnlinkNothingMutant ==
  /\ app.pc = "unlink"
  /\ app' = [app EXCEPT !.pc = "stamp"]
  /\ UNCHANGED <<day, date, ops, live, liveDay, hist, receipt, jcrashes>>

Unlink ==
  /\ app.pc = "unlink"
  /\ live' = NoLines
  /\ app' = [app EXCEPT !.pc = "stamp"]
  /\ UNCHANGED <<day, date, ops, liveDay, hist, receipt, jcrashes>>

Stamped ==
  /\ app.pc = "stamp"
  /\ app' = IF app.phase # "ensure" THEN [app EXCEPT !.pc = "group"]
            ELSE IF receipt THEN [app EXCEPT !.pc = "rotate", !.phase = "append"]
            ELSE [app EXCEPT !.pc = "batch", !.phase = "backfill"]
  /\ UNCHANGED <<day, date, ops, live, hist, jcrashes>>

(* Mutants: the receipt is left before the journal is projected; the log   *)
(* is stamped with the day of now, not with that of the rotation.          *)
StampReceiptMutant == Stamped /\ liveDay' = app.day /\ receipt' = TRUE
StampNowMutant == Stamped /\ liveDay' = day /\ UNCHANGED receipt

Stamp == Stamped /\ liveDay' = app.day /\ UNCHANGED receipt

(* The next events of the journal, or the receipt after the last.          *)
NextBatch ==
  LET left == ops \ app.done
  IN {e \in left : Cardinality({f \in left : f < e}) < Batch}

TakeBatch ==
  /\ app.pc = "batch"
  /\ app' = [app EXCEPT !.pc = IF NextBatch = {} THEN "receipt" ELSE "rotate"]
  /\ UNCHANGED <<day, date, ops, live, liveDay, hist, receipt, jcrashes>>

Projected == IF app.phase = "backfill" THEN NextBatch ELSE app.events

(* _forensic_path_for_date for every event, before the first line.         *)
Group ==
  /\ app.pc = "group"
  /\ app' = [app EXCEPT !.pc = "write",
               !.today = {e \in Projected : date[e] = day},
               !.past = {e \in Projected : date[e] # day}]
  /\ UNCHANGED <<day, date, ops, live, liveDay, hist, receipt, jcrashes>>

Plus(file, E) == [e \in Events |-> file[e] + IF e \in E THEN 1 ELSE 0]

(* One file after the other, in any order.                                 *)
WriteLines ==
  /\ app.pc = "write"
  /\ \/ /\ app.today # {}
        /\ live' = Plus(live, app.today)
        /\ app' = [app EXCEPT !.today = {}]
        /\ UNCHANGED hist
     \/ \E d \in {date[e] : e \in app.past} :
          LET E == {e \in app.past : date[e] = d}
          IN /\ hist' = [hist EXCEPT ![d] = Plus(@, E)]
             /\ app' = [app EXCEPT !.past = @ \ E]
             /\ UNCHANGED live
     \/ /\ app.today = {} /\ app.past = {}
        /\ app' = IF app.phase = "append" THEN [app EXCEPT !.pc = "journal"]
                  ELSE [app EXCEPT !.pc = "batch", !.done = @ \cup NextBatch]
        /\ UNCHANGED <<live, hist>>
  /\ UNCHANGED <<day, date, ops, liveDay, receipt, jcrashes>>

WriteReceipt ==
  /\ app.pc = "receipt"
  /\ receipt' = TRUE
  /\ app' = [app EXCEPT !.pc = "rotate", !.phase = "append"]
  /\ UNCHANGED <<day, date, ops, live, liveDay, hist, jcrashes>>

WriteJournal ==
  /\ app.pc = "journal"
  /\ ops' = ops \cup app.events
  /\ app' = NoAppend
  /\ UNCHANGED <<day, date, live, liveDay, hist, receipt, jcrashes>>

JCrash ==
  /\ app.pc # "idle" /\ jcrashes < JMaxCrashes
  /\ app' = NoAppend
  /\ jcrashes' = jcrashes + 1
  /\ UNCHANGED <<day, date, ops, live, liveDay, hist, receipt>>

JNext == \/ Midnight \/ BeginAppend \/ Rotate \/ Unlink \/ Stamp \/ TakeBatch
         \/ Group \/ WriteLines \/ WriteReceipt \/ WriteJournal \/ JCrash

JSpec == JInit /\ [][JNext]_journalVars

-----------------------------------------------------------------------------
(* Every event of the journal can be read in the forensic log once the     *)
(* backfill left its receipt, wherever a process died.                     *)
AllProjected ==
  receipt => \A e \in ops : live[e] > 0 \/ \E d \in Days : hist[d][e] > 0

(* A line stands under the day of its event: in that day's history, or in  *)
(* the live log while the recorded date is that day, even when midnight    *)
(* passes between the choice of the file and the write.                    *)
RightDay ==
  /\ \A d \in Days, e \in Events : hist[d][e] > 0 => date[e] = d
  /\ \A e \in Events : live[e] > 0 => date[e] = liveDay

(* Unless a process died, no event is read twice: rotation moves a log     *)
(* while nobody appends, and the backfill happens once.                    *)
ProjectedOnce ==
  jcrashes = 0 /\ app.pc # "unlink" =>
    \A e \in Events : \A d \in Days :
      live[e] + hist[d][e] <= 1
=============================================================================
