---------------------------- MODULE StrategyFile ----------------------------
(***************************************************************************)
(* planfile.yaml, the strategy beside the tickets, as the surfaces that    *)
(* rewrite it do: each loads the whole file, changes its part and dumps    *)
(* the whole of it with open(path, "w"), without a lock (dsl/executor.py,  *)
(* mcp/server.py, api/server.py, cli/groups/backlog/commands.py).          *)
(*                                                                         *)
(* The file is a document, or text that is no YAML mapping.  A dump first  *)
(* truncates the file and fills it in pieces, so that others may load a    *)
(* beginning of it: its sections are metadata, sprints, backlog, in order. *)
(* Two dumps at once leave one of them, or one with the rest of the other. *)
(***************************************************************************)
EXTENDS Naturals, Sequences, FiniteSets, SequencesExt

CONSTANTS
  Clients,
  Items,       \* items of the backlog, by the rule that found them
  MaxRequests  \* bound: requests made

Nobody == "none"

(* A sprint is its id and who made it; metadata is what each client set    *)
(* last, or a plain value that replaced the mapping.                       *)
Empty == [metadata |-> {}, plain |-> Nobody, sprints |-> <<>>, backlog |-> {}]
Sections == {"nothing", "metadata", "sprints"}
Beginning(doc, upTo) ==
  CASE upTo = "nothing" -> Empty
    [] upTo = "metadata" -> [doc EXCEPT !.sprints = <<>>, !.backlog = {}]
    [] OTHER -> [doc EXCEPT !.backlog = {}]

VARIABLES
  file,      \* [doc, parses]
  client,    \* what each client is doing
  requests,
  writers,   \* clients between open(path, "w") and the end of their dump
  promised,  \* history: the document the acknowledged requests add up to
  told,      \* history: sprint ids answered
  stale,     \* history: did a dump replace what another dump had written since its load
  torn,      \* history: did someone load a file that another was dumping
  overlaid,  \* history: were there two dumps at once
  died       \* history: did a client die in its dump

strategyVars == <<file, client, requests, writers, promised, told, stale, torn,
                  overlaid, died>>

Idle == [at |-> "idle", op |-> Nobody, read |-> Empty, shown |-> {}, since |-> FALSE]

StrategyInit ==
  /\ file = [doc |-> [Empty EXCEPT !.backlog = Items,
                                   !.sprints = <<[id |-> 1, by |-> Nobody]>>],
             parses |-> TRUE]
  /\ client = [c \in Clients |-> Idle]
  /\ requests = 0
  /\ writers = {}
  /\ promised = file.doc
  /\ told = <<>>
  /\ stale = FALSE /\ torn = FALSE /\ overlaid = FALSE /\ died = FALSE

-----------------------------------------------------------------------------
(* Loading.  yaml.safe_load(f) or {}: an empty file is an empty plan,      *)
(* except for the backlog commands, which fail on it; text that does not   *)
(* parse fails every request.                                              *)
Loads(c, op, next) ==
  /\ client[c].at = "idle"
  /\ requests < MaxRequests
  /\ requests' = requests + 1
  /\ torn' = (torn \/ writers # {})
  /\ client' = [client EXCEPT ![c] =
       IF file.parses THEN [Idle EXCEPT !.at = next, !.op = op, !.read = file.doc] ELSE Idle]
  /\ UNCHANGED <<file, writers, promised, told, stale, overlaid, died>>

CreateSprint(c) == Loads(c, "sprint", "writes")
PatchTool(c) == \E op \in {"plain", "keyed"} : Loads(c, op, "writes")
PatchYaml(c) == \E op \in {"plain", "keyed"} : Loads(c, op, "writes")

BacklogDelete(c) == file.doc # Empty /\ Loads(c, "delete", "selects")

(* The items that match are shown; without any, or without a yes, the      *)
(* command ends.                                                           *)
Select(c) ==
  /\ client[c].at = "selects"
  /\ \E matching \in SUBSET client[c].read.backlog :
       client' = [client EXCEPT ![c] =
         IF matching = {} THEN Idle ELSE [@ EXCEPT !.at = "confirms", !.shown = matching]]
  /\ UNCHANGED <<file, requests, writers, promised, told, stale, torn, overlaid, died>>

Confirm(c) ==
  /\ client[c].at = "confirms"
  /\ \E yes \in BOOLEAN :
       client' = [client EXCEPT ![c] = IF yes THEN [@ EXCEPT !.at = "writes"] ELSE Idle]
  /\ UNCHANGED <<file, requests, writers, promised, told, stale, torn, overlaid, died>>

-----------------------------------------------------------------------------
(* The document each request makes of the one it loaded.                   *)
LastId(sprints) == Max({0} \cup {sprints[i].id : i \in DOMAIN sprints})

(* A mutant: the largest id there is, not the next.                        *)
LastIdMutant(sprints) == IF sprints = <<>> THEN 1 ELSE LastId(sprints)

NextId(sprints) == LastId(sprints) + 1

WithSprint(doc, c) ==
  [doc EXCEPT !.sprints = Append(@, [id |-> NextId(doc.sprints), by |-> c])]

(* node[key] = {} where the path meets no mapping.                         *)
Patched(doc, op, c) ==
  IF op = "plain" THEN [doc EXCEPT !.metadata = {}, !.plain = c]
  ELSE [doc EXCEPT !.metadata = @ \cup {c}, !.plain = Nobody]

(* The items go by their position in the document that was loaded.         *)
WithoutShown(doc, shown) == [doc EXCEPT !.backlog = @ \ shown]

Result(doc, c) ==
  CASE client[c].op = "sprint" -> WithSprint(doc, c)
    [] client[c].op = "delete" -> WithoutShown(doc, client[c].shown)
    [] OTHER -> Patched(doc, client[c].op, c)

(* open(path, "w"): the others' loads are now out of date.                 *)
Truncate(c) ==
  /\ client[c].at = "writes"
  /\ file' = [doc |-> Empty, parses |-> TRUE]
  /\ writers' = writers \cup {c}
  /\ overlaid' = (overlaid \/ writers # {})
  /\ stale' = (stale \/ client[c].since)
  /\ client' = [d \in Clients |->
       IF d = c THEN [client[c] EXCEPT !.at = "dumps"]
       ELSE IF client[d].at \in {"selects", "confirms", "writes"}
         THEN [client[d] EXCEPT !.since = TRUE]
       ELSE client[d]]
  /\ UNCHANGED <<requests, promised, told, torn, died>>

(* A buffer of the dump reaches the file: whole sections, or part of one.  *)
Flush(c) ==
  /\ client[c].at = "dumps"
  /\ \E upTo \in Sections \ {"nothing"}, parses \in BOOLEAN :
       file' = [doc |-> Beginning(Result(client[c].read, c), upTo), parses |-> parses]
  /\ client' = [client EXCEPT ![c].at = "closes"]
  /\ UNCHANGED <<requests, writers, promised, told, stale, torn, overlaid, died>>

(* A mutant: the dump ends before the backlog.                             *)
CloseShortMutant(c) ==
  /\ client[c].at \in {"dumps", "closes"}
  /\ file' = [doc |-> Beginning(Result(client[c].read, c), "sprints"), parses |-> TRUE]
  /\ promised' = Result(promised, c)
  /\ told' = IF client[c].op = "sprint"
               THEN Append(told, NextId(client[c].read.sprints)) ELSE told
  /\ writers' = writers \ {c}
  /\ client' = [client EXCEPT ![c] = Idle]
  /\ UNCHANGED <<requests, stale, torn, overlaid, died>>

Close(c) ==
  /\ client[c].at \in {"dumps", "closes"}
  /\ LET doc == Result(client[c].read, c)
     IN  \E parses \in IF overlaid THEN BOOLEAN ELSE {TRUE} :
           file' = [doc |-> doc, parses |-> parses]
  /\ promised' = Result(promised, c)
  /\ told' = IF client[c].op = "sprint"
               THEN Append(told, NextId(client[c].read.sprints)) ELSE told
  /\ writers' = writers \ {c}
  /\ client' = [client EXCEPT ![c] = Idle]
  /\ UNCHANGED <<requests, stale, torn, overlaid, died>>

(* The process ends, by a signal or a full disk; what it flushed stays.    *)
Die(c) ==
  /\ client[c].at \in {"writes", "dumps", "closes"}
  /\ died' = (died \/ c \in writers)
  /\ writers' = writers \ {c}
  /\ client' = [client EXCEPT ![c] = Idle]
  /\ UNCHANGED <<file, requests, promised, told, stale, torn, overlaid>>

StrategyNext ==
  \E c \in Clients :
    \/ CreateSprint(c) \/ PatchTool(c) \/ PatchYaml(c)
    \/ BacklogDelete(c) \/ Select(c) \/ Confirm(c)
    \/ Truncate(c) \/ Flush(c) \/ Close(c) \/ Die(c)

-----------------------------------------------------------------------------
(* Requests whose loads and dumps do not cross add up: what one was told   *)
(* it did is in the file after any later request, of whichever surface,    *)
(* and nothing else left it.                                               *)
Exclusive == ~stale /\ ~torn /\ ~overlaid /\ ~died
RequestsAddUp == Exclusive /\ writers = {} => file = [doc |-> promised, parses |-> TRUE]

(* A dump that replaced a newer one still leaves a whole plan in which     *)
(* every sprint has an id of its own: only loads during a dump and deaths  *)
(* leave less, and only dumps at once leave what does not parse.           *)
Distinct(sprints) == \A i, j \in DOMAIN sprints : sprints[i].id = sprints[j].id => i = j
PlanReadable ==
  /\ writers = {} /\ ~overlaid /\ ~died => file.parses
  /\ Distinct(file.doc.sprints)
  /\ Exclusive => \A i, j \in DOMAIN told : told[i] = told[j] => i = j

(* An item leaves the backlog when someone saw it and said yes; with       *)
(* outdated loads, it may come back.                                       *)
BacklogKept ==
  writers = {} /\ ~torn /\ ~overlaid /\ ~died => promised.backlog \subseteq file.doc.backlog
=============================================================================
