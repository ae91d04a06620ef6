------------------------------ MODULE MCCalls ------------------------------
(***************************************************************************)
(* Small instances of what people and agents call: the lifecycle of a      *)
(* ticket (Lifecycle), commands about tickets (TicketCommands), rewrites   *)
(* of planfile.yaml (StrategyFile), the check of its tickets               *)
(* (TicketValidation) and the client that repeats its calls                *)
(* (RetryingClient).  Every behaviour is one of one module: part says of   *)
(* which, and the variables of the others keep one initial value.          *)
(***************************************************************************)
EXTENDS MCLifecycle, Sequences

CONSTANTS
  Sessions, Ids, Labels, Filters, Wishes, MaxCommands, MaxFaults,
  Clients, Items, MaxRequests,
  Strategy, Code, MaxEdits,
  Callers, MaxCalls, LockRetries, MaxMishaps

VARIABLES
  part,
  tickets, session, commands, faults, wanted, noted, outdated, overlapped,
  file, client, requests, writers, promised, told, stale, torn, overlaid, died,
  code, edits, scan, at, next, seen, verdicts, fresh, still, garbled,
  item, call, issued, mishaps, applied, unsure

commandVars == <<tickets, session, commands, faults, wanted, noted, outdated, overlapped>>
strategyVars == <<file, client, requests, writers, promised, told, stale, torn,
                  overlaid, died>>
validationVars == <<code, edits, scan, at, next, seen, verdicts, fresh, still, garbled>>
clientVars == <<item, call, issued, mishaps, applied, unsure>>

(* Bulk commands choose by status or by label; they open and mark, or      *)
(* finish and move.                                                        *)
MCFilters == {[status |-> "open", label |-> "whatever"], [status |-> "whatever", label |-> "a"]}
MCWishes == {[status |-> "open", add |-> {"a"}, remove |-> {}, to |-> "whatever"],
             [status |-> "done", add |-> {}, remove |-> {"a"}, to |-> "next"]}

(* Two files, one of which is not there yet, and a ticket of each kind.    *)
MCCode == ("f" :> [lines |-> 2, issues |-> {<<2, "r">>, <<1, "q">>}]) @@
          ("g" :> [lines |-> 0, issues |-> {}])
MCStrategy == <<[rule |-> "r", files |-> <<"f", "g">>, line |-> 1],
                [rule |-> "none", files |-> <<"g", "f">>, line |-> 2],
                [rule |-> "none", files |-> <<"f">>, line |-> 0],
                [rule |-> "q", files |-> <<>>, line |-> 1]>>

(* A strategy is a list of tickets, each with a list of files the project  *)
(* has or may come to have; an issue is on a line of its file.             *)
ASSUME ValidationAssumption ==
  /\ Strategy \in Seq({Strategy[i] : i \in DOMAIN Strategy})
  /\ \A i \in DOMAIN Strategy :
       Strategy[i].files \in Seq(DOMAIN Code) /\ Strategy[i].line \in Nat
  /\ \A f \in DOMAIN Code :
       /\ Code[f] = [lines |-> Code[f].lines, issues |-> Code[f].issues]
       /\ Code[f].lines \in Nat
       /\ \A issue \in Code[f].issues : issue[1] \in 1..Code[f].lines

B == INSTANCE TicketCommands
S == INSTANCE StrategyFile
V == INSTANCE TicketValidation
R == INSTANCE RetryingClient WITH MaxFaults <- MaxMishaps, ticket <- item, faults <- mishaps

CallsInit ==
  /\ part \in {"lifecycle", "commands", "plan", "validation", "client"}
  /\ Init /\ (part # "lifecycle" => ticket.execution.state = "pending")
  /\ B!CommandsInit /\ (part # "commands" => \A t \in Ids : tickets[t].status = "open")
  /\ S!StrategyInit
  /\ V!ValidationInit
  /\ R!ClientInit

CallsNext ==
  /\ UNCHANGED part
  /\ \/ /\ part = "lifecycle" /\ CallNext
        /\ UNCHANGED <<commandVars, strategyVars, validationVars, clientVars>>
     \/ /\ part = "commands" /\ B!CommandsNext
        /\ UNCHANGED <<vars, strategyVars, validationVars, clientVars>>
     \/ /\ part = "plan" /\ S!StrategyNext
        /\ UNCHANGED <<vars, commandVars, validationVars, clientVars>>
     \/ /\ part = "validation" /\ V!ValidationNext
        /\ UNCHANGED <<vars, commandVars, strategyVars, clientVars>>
     \/ /\ part = "client" /\ R!ClientNext
        /\ UNCHANGED <<vars, commandVars, strategyVars, validationVars>>

callsVars == <<part, vars, commandVars, strategyVars, validationVars, clientVars>>

CallsSpec == CallsInit /\ [][CallsNext]_callsVars

-----------------------------------------------------------------------------
(* The properties, each about the code its module models; those of the     *)
(* lifecycle are Lifecycle's own.                                          *)

(* TicketCommands: commands about labels and notes add up, unless a bulk   *)
(* update or a --note wrote back what it had read before another's change, *)
(* and a bulk command reports what it did.                                 *)
CommandsAddUp == B!LabelsAddUp /\ B!NotesStay /\ B!ReportsTrue

(* StrategyFile and TicketValidation: requests that do not cross in        *)
(* planfile.yaml add up, crossed ones leave a whole plan and bring back    *)
(* items at worst; a ticket of it is told stale or current as the project  *)
(* was at the scan.                                                        *)
StrategyTruthful ==
  /\ S!RequestsAddUp /\ S!PlanReadable /\ S!BacklogKept
  /\ V!VerdictsTrue /\ V!MissingWasMissing

(* RetryingClient: an answer tells what happened, and a call is written    *)
(* once however often it is repeated, unless the store failed after the    *)
(* write of a call without an expected revision.                           *)
AnsweredOnce == R!AnswersTrue /\ R!WrittenOnce
=============================================================================
