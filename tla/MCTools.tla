------------------------------ MODULE MCTools ------------------------------
(***************************************************************************)
(* Small instances of what works beside the store: the mirror of a sprint  *)
(* file (FastIO), the calls that split and merge tickets (Decomposition),  *)
(* the tickets of failing scenarios (FailureTickets), the CI loop (CILoop) *)
(* and lists read page by page (ListQueries).  Every behaviour is one of   *)
(* one module: part says of which, and the variables of the others keep    *)
(* one initial value.                                                      *)
(***************************************************************************)
EXTENDS MCFastIO

CONSTANTS Callers, MaxTickets, MaxParts, MaxCalls, MaxInterventions,
          Failures, Runs, Fresh, Slug, Someone, MaxValidations, MaxMarks,
          Keyword, Local, MaxIterations, MaxEdits, MaxWork,
          ByteLimit, PageSizes, MaxListChanges, MaxAsked

VARIABLES
  part,
  ticket, call, calls, interventions, promised, stale, stacks, early,
  tasks, todo, order, issues, run, validations, marks, stored, finished,
  overwritten, crossed, foreign, wasDone,
  source, passing, tickets, bugs, loop, edits, worked,
  sheet, status, enabled, current, rows, move, pager, changes, asked, displaced, answer

decompositionVars == <<ticket, call, calls, interventions, promised, stale, stacks, early>>
ticketsVars == <<tasks, todo, order, issues, run, validations, marks, stored,
                 finished, overwritten, crossed, foreign, wasDone>>
loopVars == <<source, passing, tickets, bugs, loop, edits, worked>>
listQueryVars == <<sheet, status, enabled, current, rows, move, pager, changes, asked,
                   displaced, answer>>

(* A failure is a number, like the number of an issue, and no other id is. *)
ASSUME FailuresAssumption ==
  Failures \subseteq Nat /\ Fresh \notin Nat /\ Slug \notin Nat /\ Fresh # Slug

(* Both trackers, or the one whose ids need not be numbers.                *)
TrackerOrders == {<<"github", "gitlab">>, <<"gitlab">>}
(* Two tickets, each of its own sprint.                                    *)
SprintOf == [t \in {"t1", "t2"} |-> IF t = "t1" THEN "s1" ELSE "s2"]

K == INSTANCE Decomposition
T == INSTANCE FailureTickets WITH Orders <- TrackerOrders
C == INSTANCE CILoop WITH Strategy <- <<"s1", "s2">>, Sprint <- SprintOf,
                          Trackers <- <<"github", "own">>
(* Three tickets, the last larger than the others.                         *)
Q == INSTANCE ListQueries WITH Source <- <<"cli", "ui", "cli">>, Size <- <<3, 3, 5>>

Same == Permutations(Procs) \cup Permutations(Callers) \cup Permutations(Runs)

ToolsInit ==
  /\ part \in {"mirror", "tree", "testql", "loop", "queries"}
  /\ Init
  /\ K!DecompositionInit
  /\ part # "tree" => ticket = <<K!New(0)>>
  /\ T!FailureTicketsInit
  /\ todo.box[1] = todo.box[2]
  /\ order[1] = "gitlab" \/ part # "testql" => todo.box[1] = "none"
  /\ part # "testql" => order[1] = "github"
  /\ C!LoopInit
  /\ part # "loop" => passing = {} /\ \A t \in DOMAIN tickets : tickets[t] = "open"
  /\ Q!LQInit
  /\ part # "queries" => ~enabled

ToolsNext ==
  /\ UNCHANGED part
  /\ \/ /\ part = "mirror" /\ QuietNext
        /\ UNCHANGED <<decompositionVars, ticketsVars, loopVars, listQueryVars>>
     \/ /\ part = "tree" /\ K!DecompositionNext
        /\ UNCHANGED <<vars, ticketsVars, loopVars, listQueryVars>>
     \/ /\ part = "testql" /\ T!FailureTicketsNext
        /\ UNCHANGED <<vars, decompositionVars, loopVars, listQueryVars>>
     \/ /\ part = "loop" /\ C!LoopNext
        /\ UNCHANGED <<vars, decompositionVars, ticketsVars, listQueryVars>>
     \/ /\ part = "queries" /\ Q!LQNext
        /\ UNCHANGED <<vars, decompositionVars, ticketsVars, loopVars>>

toolsVars == <<part, vars, decompositionVars, ticketsVars, loopVars, listQueryVars>>

ToolsSpec == ToolsInit /\ [][ToolsNext]_toolsVars

-----------------------------------------------------------------------------
(* The properties, each about the code its module models; those of the     *)
(* mirror are FastIO's own.                                                *)

(* Decomposition: what a call added to a list stays, and of a stack one    *)
(* subtask is runnable at a time, unless a list was replaced from an       *)
(* outdated read or someone intervened.                                    *)
TreeKept == K!KeepsPromises /\ K!FrontIsSingle

(* FailureTickets: a failure keeps its task and its one entry of TODO.md,  *)
(* unless writers of the file cross; the second run tells the first        *)
(* tracker, which never gets an update for somebody else's issue; a box is *)
(* ticked only for what was done.  CILoop: "completed" is said of tested   *)
(* source and finished tickets, and the results name every bug ticket but  *)
(* the unanswered.                                                         *)
FailuresHandled ==
  /\ T!TasksKept /\ T!OneEntry
  /\ T!SecondRunTells /\ T!FirstTrackerOwn
  /\ T!BoxesTrue
  /\ C!CompletionHonest /\ C!ResultsComplete

(* ListQueries: an index that is current lists what the files do, the      *)
(* pages of a list make the whole of it, and a full answer keeps within    *)
(* its limit.                                                              *)
QueriesAgree ==
  Q!RowsMatchFiles /\ Q!PagesTile /\ Q!UntouchedOnce /\ Q!FullAnswersBounded
=============================================================================
