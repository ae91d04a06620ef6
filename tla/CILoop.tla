------------------------------- MODULE CILoop -------------------------------
(***************************************************************************)
(* The CI loop of `planfile auto loop` (planfile/ci.py): run the tests,    *)
(* and either review the tickets of the strategy's sprints in the first    *)
(* tracker (review_strategy, runner.py) or report a bug everywhere and let *)
(* llx try a fix, a bounded number of times.  The source is edited and     *)
(* the tickets are worked on while the loop runs; every call to a tracker  *)
(* may fail or lose its answer, and no failure stops the loop.             *)
(*                                                                         *)
(* The source is the number of its edits; ticket t belongs to the sprint   *)
(* Sprint[t].  Coverage, metrics, bug texts and the choice of the file to  *)
(* fix are left out.                                                       *)
(***************************************************************************)
EXTENDS Naturals, SequencesExt

CONSTANTS
  Strategy, Sprint,          \* its sprints in order; the sprint of each ticket
  Trackers,                  \* trackers configured besides the local planfile, in order
  Keyword,                   \* those whose create_ticket takes the fields as keywords
  Local,                     \* the local planfile
  MaxIterations, MaxEdits, MaxWork  \* max_iterations; bounds: edits, changed tickets

SprintTickets == DOMAIN Sprint

VARIABLES
  source, passing,  \* the code; the versions of it whose tests pass
  tickets, bugs,    \* statuses in the first tracker; <<place, iteration>> bug tickets
  loop,
  edits, worked     \* bounded so far

loopVars == <<source, passing, tickets, bugs, loop, edits, worked>>

(* left: sprints to review or places to report to; unfinished: tickets a   *)
(* review found not done; reported: the tickets_created of the results.    *)
(* History: skipped the sprints that could not be listed, touched what     *)
(* people changed since the loop looked at it ("source" or a ticket), lost  *)
(* the bugs without an answer.                                             *)
LoopInit ==
  /\ source = 0
  /\ passing \in SUBSET {source}
  /\ tickets \in [SprintTickets -> {"open", "done"}]
  /\ bugs = {}
  /\ loop = [at |-> "test", iteration |-> 1, left |-> <<>>, unfinished |-> {}, reported |-> {},
             skipped |-> {}, touched |-> {}, lost |-> {}]
  /\ edits = 0 /\ worked = 0

(* Whatever edits the source, its tests pass or do not.                    *)
EditSource ==
  /\ source' = source + 1
  /\ passing' \in {passing, passing \cup {source + 1}}

Goes(from, new) == loop.at = from /\ loop' = new

NextIteration(l) ==
  IF l.iteration = MaxIterations THEN [l EXCEPT !.at = "max_iterations_reached"]
  ELSE [l EXCEPT !.at = "test", !.iteration = @ + 1]

-----------------------------------------------------------------------------
(* run_tests, and what run_loop makes of the result.  Without a tracker    *)
(* check_strategy_completion finds the strategy complete.                  *)
RunTests ==
  LET ran == [loop EXCEPT !.touched = {}, !.skipped = {}, !.unfinished = {}]
  IN /\ Goes("test", IF source \notin passing
                     THEN [ran EXCEPT !.at = "report", !.left = <<Local>> \o Trackers]
                     ELSE IF Trackers = <<>> THEN [ran EXCEPT !.at = "completed"]
                     ELSE [ran EXCEPT !.at = "review", !.left = Strategy])
     /\ UNCHANGED <<source, passing, tickets, bugs, edits, worked>>

(* A mutant: the verdict is that of the last sprint.                       *)
UnfinishedMutant(s) == {t \in SprintTickets : Sprint[t] = s /\ tickets[t] # "done"}

Unfinished(s) == loop.unfinished \cup {t \in SprintTickets : Sprint[t] = s /\ tickets[t] # "done"}

(* review_strategy lists sprint after sprint; one it cannot list counts    *)
(* for nothing.                                                            *)
Review(answers) ==
  LET s == Head(loop.left)
      c == [loop EXCEPT !.left = Tail(@), !.unfinished = IF answers THEN Unfinished(s) ELSE @,
                        !.skipped = IF answers THEN @ ELSE @ \cup {s},
                        !.touched = @ \ {t \in SprintTickets : Sprint[t] = s}]
  IN /\ Goes("review", IF c.left # <<>> THEN c
                       ELSE IF c.unfinished = {} THEN [c EXCEPT !.at = "completed"]
                       ELSE NextIteration(c))
     /\ UNCHANGED <<source, passing, tickets, bugs, edits, worked>>

(* create_bug_tickets.  A shipped tracker, which takes one dict, raises.   *)
CreateBug(answers) ==
  /\ loop.left # <<>>
  /\ Head(loop.left) \in Keyword \cup {Local}
  /\ LET bug == {<<Head(loop.left), loop.iteration>>}
         c == [loop EXCEPT !.left = Tail(@)]
     IN /\ bugs' = bugs \cup bug
        /\ Goes("report", IF answers THEN [c EXCEPT !.reported = @ \cup bug]
                          ELSE [c EXCEPT !.lost = @ \cup bug])
  /\ UNCHANGED <<source, passing, tickets, edits, worked>>

CreateFails ==
  /\ loop.left # <<>>
  /\ Goes("report", [loop EXCEPT !.left = Tail(@)])
  /\ UNCHANGED <<source, passing, tickets, bugs, edits, worked>>

(* A mutant: a fix that was applied needs no other run of the tests.       *)
AfterFixMutant(applied) ==
  IF applied THEN [loop EXCEPT !.at = "completed"] ELSE NextIteration(loop)

AfterFix(applied) == NextIteration(loop)

(* auto_fix_bugs: llx edits the source, or not; whether the fix is any     *)
(* good is seen by the tests of the next iteration.                        *)
Fix(applied) ==
  /\ loop.left = <<>>
  /\ Goes("report", AfterFix(applied))
  /\ IF applied THEN EditSource ELSE UNCHANGED <<source, passing>>
  /\ UNCHANGED <<tickets, bugs, edits, worked>>

(* The loop is interrupted: its results, written at its end, are gone.     *)
LoopDies ==
  /\ loop.at \in {"test", "review", "report"}
  /\ loop' = [loop EXCEPT !.at = "dead"]
  /\ UNCHANGED <<source, passing, tickets, bugs, edits, worked>>

-----------------------------------------------------------------------------
(* People, and other programs.                                             *)
Edit ==
  /\ edits < MaxEdits /\ edits' = edits + 1
  /\ EditSource
  /\ loop' = [loop EXCEPT !.touched = @ \cup {"source"}]
  /\ UNCHANGED <<tickets, bugs, worked>>

WorkOn(t, status) ==
  /\ worked < MaxWork /\ worked' = worked + 1
  /\ tickets[t] # status
  /\ tickets' = [tickets EXCEPT ![t] = status]
  /\ loop' = [loop EXCEPT !.touched = @ \cup {t}]
  /\ UNCHANGED <<source, passing, bugs, edits>>

LoopNext ==
  \/ RunTests \/ CreateFails \/ LoopDies \/ Edit
  \/ \E answers \in BOOLEAN : Review(answers) \/ CreateBug(answers)
  \/ \E applied \in BOOLEAN : Fix(applied)
  \/ \E t \in SprintTickets, status \in {"open", "blocked", "done"} : WorkOn(t, status)

-----------------------------------------------------------------------------
(* "completed" is said only of a source whose tests pass, and of a         *)
(* strategy whose tickets in the first tracker are done, as far as people  *)
(* changed nothing behind the loop's back and the tracker listed them.     *)
CompletionHonest ==
  loop.at = "completed" =>
    /\ "source" \notin loop.touched => source \in passing
    /\ \A t \in SprintTickets :
         Trackers # <<>> /\ t \notin loop.touched /\ Sprint[t] \notin loop.skipped
         => tickets[t] = "done"

(* The results name the bug tickets of the loop, all but the unanswered.   *)
ResultsComplete == loop.at # "dead" => bugs = loop.reported \cup loop.lost
=============================================================================
