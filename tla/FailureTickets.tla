--------------------------- MODULE FailureTickets ---------------------------
(***************************************************************************)
(* What `planfile validate testql` makes of a failing scenario             *)
(* (testql_integration.py), and the boxes of TODO.md (todo_sync.py): every *)
(* failure becomes a task of planfile.yaml, an entry of TODO.md and an     *)
(* issue in every configured tracker.  planfile.yaml and TODO.md are read, *)
(* changed and written whole, without a lock, by runs that may overlap or  *)
(* die; the references a run gathers live in its memory only.              *)
(*                                                                         *)
(* A failure is a number: its digest names the task, its title the entry.  *)
(* Issues are numbered by their tracker.  Failures beyond max_tickets, the *)
(* wording of tickets and a tracker's own fields are left out.             *)
(***************************************************************************)
EXTENDS Naturals, SequencesExt

CONSTANTS
  Failures,      \* failures the scenario can show
  Runs,          \* processes that validate
  Orders,        \* trackers that may be configured, in their order
  Fresh, Slug,   \* no external_id yet; the id of an entry of TODO.md
  Someone,       \* owner of an issue no run made
  MaxValidations, MaxMarks  \* bounds: validations begun, tasks marked

VARIABLES
  tasks, todo,   \* planfile.yaml and TODO.md
  order, issues, \* configured trackers; whom each issue was made for
  run,           \* what each process is doing
  validations, marks,
  stored,        \* history: failures whose task a run has written
  finished,      \* history: completed runs that reported a failure
  overwritten, crossed,  \* history: planfile.yaml, TODO.md written from an outdated read
  foreign,       \* history: tracker whose issue another failure's run updated
  wasDone        \* history: failures whose task was marked done

ticketsVars == <<tasks, todo, order, issues, run, validations, marks, stored,
                 finished, overwritten, crossed, foreign, wasDone>>

Idle == [at |-> "idle", report |-> {}, left |-> {}, system |-> 0, tasks |-> <<>>,
         todo |-> <<>>, external |-> <<>>]

FailureTicketsInit ==
  /\ tasks = [f \in Failures |-> "none"]
  /\ todo \in [entries : [Failures -> {0}], box : [Failures -> {"none", "open"}]]
  /\ order \in Orders
  /\ issues = [k \in ToSet(order) |-> <<Someone>>]
  /\ run = [r \in Runs |-> Idle]
  /\ validations = 0 /\ marks = 0
  /\ stored = {} /\ finished = [f \in Failures |-> 0]
  /\ overwritten = FALSE /\ crossed = FALSE /\ foreign = {} /\ wasDone = {}

First(r) == CHOOSE f \in run[r].left : \A g \in run[r].left : f <= g
Goto(r, from, new) == run[r].at = from /\ run' = [run EXCEPT ![r] = new]
histories == <<stored, finished, overwritten, crossed, foreign, wasDone>>
files == <<tasks, todo, order, issues>>

-----------------------------------------------------------------------------
(* run_testql_validation and build_testql_tickets.                         *)
Validate(r, report) ==
  /\ report # {} /\ validations < MaxValidations
  /\ validations' = validations + 1
  /\ Goto(r, "idle", [Idle EXCEPT !.at = "load", !.report = report, !.left = report,
                        !.external = [f \in Failures |-> Fresh]])
  /\ UNCHANGED <<files, marks, histories>>

LoadStrategy(r) ==
  /\ Goto(r, "load", [run[r] EXCEPT !.at = "store", !.tasks = tasks])
  /\ UNCHANGED <<files, validations, marks, histories>>

(* A mutant: the file is written with this run's tasks only.               *)
UpsertOnlyMutant(read, report) == [f \in Failures |-> IF f \in report THEN "todo" ELSE "none"]

(* A known task is skipped, whatever its status.                           *)
Upsert(read, report) ==
  [f \in Failures |-> IF f \in report /\ read[f] = "none" THEN "todo" ELSE read[f]]

StoreStrategy(r) ==
  /\ Goto(r, "store", [run[r] EXCEPT !.at = "check"])
  /\ tasks' = Upsert(run[r].tasks, run[r].report)
  /\ overwritten' = (overwritten \/ run[r].tasks # tasks)
  /\ stored' = stored \cup run[r].report
  /\ UNCHANGED <<todo, order, issues, validations, marks, finished, crossed,
                 foreign, wasDone>>

(* One ticket after the other in one system after the other, TODO.md       *)
(* first; a ticket that fails is counted and passed over.  external is the *)
(* id the ticket ends up with.                                             *)
Handles(r, from, external) ==
  LET c == [run[r] EXCEPT !.left = @ \ {First(r)}, !.external[First(r)] = external]
      ends == c.left = {} /\ c.system = Len(order)
  IN /\ Goto(r, from, IF c.left # {} THEN [c EXCEPT !.at = IF c.system = 0 THEN "check" ELSE "tracker"]
                      ELSE IF ends THEN Idle
                      ELSE [c EXCEPT !.at = "tracker", !.system = @ + 1, !.left = c.report])
     /\ finished' = IF ends THEN [f \in Failures |-> finished[f] + IF f \in c.report THEN 1 ELSE 0]
                    ELSE finished

(* A mutant: an entry is looked for by its new id.                         *)
HasEntryMutant(f) == FALSE

HasEntry(f) == todo.entries[f] > 0

(* MarkdownFileBackend._create_ticket looks for the title; what is there   *)
(* is skipped and gets no reference ...                                    *)
CheckEntry(r) ==
  /\ run[r].at = "check"
  /\ IF HasEntry(First(r)) THEN Handles(r, "check", Fresh)
     ELSE Goto(r, "check", [run[r] EXCEPT !.at = "read"]) /\ UNCHANGED finished
  /\ UNCHANGED <<files, validations, marks, stored, overwritten, crossed, foreign, wasDone>>

(* ... and what is not is put into the file, which is read once more.      *)
ReadTodo(r) ==
  /\ Goto(r, "read", [run[r] EXCEPT !.at = "insert", !.todo = todo])
  /\ UNCHANGED <<files, validations, marks, histories>>

InsertEntry(r) ==
  /\ run[r].at = "insert" /\ Handles(r, "insert", Slug)
  /\ todo' = [run[r].todo EXCEPT !.entries[First(r)] = @ + 1]
  /\ crossed' = (crossed \/ run[r].todo # todo \/ HasEntry(First(r)))
  /\ UNCHANGED <<tasks, order, issues, validations, marks, stored, overwritten,
                 foreign, wasDone>>

(* _sync_ticket_to_backend: an external_id no integration is named with is *)
(* taken for one of this tracker.  GitHub's must be a number, or the       *)
(* update fails; an issue that is not found is created.                    *)
Tracker(r) == order[run[r].system]
Taken(r) == run[r].external[First(r)]
Fails(r) == Tracker(r) = "github" /\ Taken(r) = Slug
Finds(r) == Taken(r) \in DOMAIN issues[Tracker(r)]

UpdateFails(r) ==
  /\ run[r].at = "tracker" /\ Fails(r)
  /\ Handles(r, "tracker", Taken(r))
  /\ UNCHANGED <<files, validations, marks, stored, overwritten, crossed, foreign, wasDone>>

UpdateIssue(r) ==
  /\ run[r].at = "tracker" /\ ~Fails(r) /\ Finds(r)
  /\ Handles(r, "tracker", Taken(r))
  /\ foreign' = IF issues[Tracker(r)][Taken(r)] = First(r) THEN foreign
                ELSE foreign \cup {Tracker(r)}
  /\ UNCHANGED <<files, validations, marks, stored, overwritten, crossed, wasDone>>

CreateIssue(r) ==
  /\ run[r].at = "tracker" /\ ~Fails(r) /\ ~Finds(r)
  /\ Handles(r, "tracker", IF Taken(r) = Fresh THEN Len(issues[Tracker(r)]) + 1 ELSE Taken(r))
  /\ issues' = [issues EXCEPT ![Tracker(r)] = Append(@, First(r))]
  /\ UNCHANGED <<tasks, todo, order, validations, marks, stored, overwritten,
                 crossed, foreign, wasDone>>

Dies(r) ==
  /\ run[r] # Idle
  /\ run' = [run EXCEPT ![r] = Idle]
  /\ UNCHANGED <<files, validations, marks, histories>>

-----------------------------------------------------------------------------
(* A person marks a task.                                                  *)
MarkTask(f, status) ==
  /\ tasks[f] # "none" /\ tasks[f] # status /\ marks < MaxMarks
  /\ marks' = marks + 1
  /\ tasks' = [tasks EXCEPT ![f] = status]
  /\ wasDone' = IF status = "done" THEN wasDone \cup {f} ELSE wasDone
  /\ UNCHANGED <<todo, order, issues, run, validations, stored, finished,
                 overwritten, crossed, foreign>>

(* sync_todo_checkboxes_from_planfile reads planfile.yaml, then TODO.md    *)
(* and ticks the boxes whose line names a done task.  The line of failure  *)
(* f names every task whose title is part of its own.                      *)
Names(f) == {g \in Failures : g <= f}

Ticks(done) == {f \in Failures : Names(f) \cap done # {}}

LoadMarkers(r) ==
  /\ \E f \in Failures : tasks[f] = "done"
  /\ Goto(r, "idle", [Idle EXCEPT !.at = "markers", !.left = {f \in Failures : tasks[f] = "done"}])
  /\ UNCHANGED <<files, validations, marks, histories>>

ReadBoxes(r) ==
  /\ Goto(r, "markers", [run[r] EXCEPT !.at = "tick", !.todo = todo])
  /\ UNCHANGED <<files, validations, marks, histories>>

TickBoxes(r) ==
  LET ticked == {f \in Ticks(run[r].left) : run[r].todo.box[f] = "open"}
  IN /\ Goto(r, "tick", Idle)
     /\ todo' = IF ticked = {} THEN todo
                ELSE [run[r].todo EXCEPT
                        !.box = [f \in Failures |-> IF f \in ticked THEN "ticked" ELSE @[f]]]
     /\ crossed' = (crossed \/ (ticked # {} /\ run[r].todo # todo))
     /\ UNCHANGED <<tasks, order, issues, validations, marks, stored, finished,
                    overwritten, foreign, wasDone>>

FailureTicketsNext ==
  \/ \E r \in Runs :
       \/ \E report \in SUBSET Failures : Validate(r, report)
       \/ LoadStrategy(r) \/ StoreStrategy(r)
       \/ CheckEntry(r) \/ ReadTodo(r) \/ InsertEntry(r)
       \/ UpdateFails(r) \/ UpdateIssue(r) \/ CreateIssue(r) \/ Dies(r)
       \/ LoadMarkers(r) \/ ReadBoxes(r) \/ TickBoxes(r)
  \/ \E f \in Failures, status \in {"todo", "done"} : MarkTask(f, status)

-----------------------------------------------------------------------------
(* A failure a run stored stays in planfile.yaml, unless the file was      *)
(* written from an outdated read.                                          *)
TasksKept == \A f \in stored : tasks[f] # "none" \/ overwritten

(* However many runs report it, a failure has one entry in TODO.md, unless *)
(* two writers of the file crossed.                                        *)
OneEntry == \A f \in Failures : todo.entries[f] <= 1 \/ crossed

(* The second run that reports a failure gives it an issue in the first    *)
(* tracker (GitHub refuses the first run's), unless two writers crossed.   *)
SecondRunTells ==
  \A f \in Failures : finished[f] >= 2 /\ order # <<>> /\ ~crossed
                      => f \in ToSet(issues[order[1]])

(* The first tracker never gets an update for an issue of someone else.    *)
FirstTrackerOwn == order # <<>> => order[1] \notin foreign

(* A box is ticked only if its line names a task that was done.            *)
BoxesTrue == \A f \in Failures : todo.box[f] = "ticked" => Names(f) \cap wasDone # {}
=============================================================================
