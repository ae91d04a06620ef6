---------------------------- MODULE ExternalSync ----------------------------
(***************************************************************************)
(* planfile sync (cli/groups/sync/core.py, sync/operations.py,             *)
(* sync/state.py and the backends): local tickets are pushed to an issue   *)
(* tracker, its issues are pulled, and a state file maps one to the other. *)
(* Calls of the tracker fail, answers are lost and the process dies; local *)
(* users and users of the tracker edit while it runs.                      *)
(*                                                                         *)
(* Contents are numbers in the order of the edits.  An issue imported as   *)
(* TRACKER-n is the local ticket n, a ticket born here is 0.               *)
(***************************************************************************)
EXTENDS Integers, FiniteSets, FiniteSetsExt

CONSTANTS MaxIssues, MaxEdits, MaxRuns \* bounds of a run

Numbers == 1..MaxIssues
Ids == 0..MaxIssues
Missing == -1

VARIABLES
  local,   \* content of each local ticket, or Missing
  issues,  \* of each number: content, or Missing, and the marker in its body
  last,    \* the number the tracker gave last; it gives none twice
  mapping, \* the state file: the issue of each local ticket, or 0
  tracker, \* "github" and "onedev" look for a marker before they create an
           \* issue; an update of github keeps the marker, one of onedev does
           \* not; "plain" (gitlab, jira, generic) knows no markers
  run,     \* the run of planfile sync
  edits, runs,
  dropped, \* history: tickets whose issue was created and not noted
  orphaned,\* history: imported tickets that were noted and not stored
  behind,  \* history: tickets that this run did not bring to their issue, or
           \* that were edited while it went on
  deleted  \* history: imported tickets deleted while no pull held a snapshot

syncVars == <<local, issues, last, mapping, tracker, run, edits, runs, dropped, orphaned, behind, deleted>>

NoIssue == [content |-> Missing, marker |-> Missing]
NoContents == [i \in Ids |-> Missing]
NoRun == [pc |-> "off", direction |-> "to", todo |-> {}, tickets |-> NoContents,
          noted |-> [i \in Ids |-> 0], sprint |-> NoContents, base |-> NoContents,
          changed |-> FALSE]

SInit ==
  /\ local = [NoContents EXCEPT ![0] = 0]
  /\ last \in {0, 1}
  /\ issues = [n \in Numbers |-> IF n <= last THEN [content |-> 0, marker |-> Missing]
                                  ELSE NoIssue]
  /\ mapping = [i \in Ids |-> 0]
  /\ tracker \in {"github", "onedev", "plain"}
  /\ run = NoRun /\ edits = 0 /\ runs = 0
  /\ dropped = {} /\ orphaned = {} /\ behind = {} /\ deleted = {}

-----------------------------------------------------------------------------
(* People edit and delete on both sides.                                   *)
EditLocal == \E i \in Ids :
  /\ local[i] # Missing /\ edits < MaxEdits
  /\ \/ local' = [local EXCEPT ![i] = edits + 1] /\ UNCHANGED deleted
     \/ /\ local' = [local EXCEPT ![i] = Missing]
        /\ deleted' = IF run.pc \in {"list", "pull"} THEN deleted ELSE deleted \cup {i}
  /\ edits' = edits + 1
  /\ behind' = IF run.pc # "off" THEN behind \cup {i} ELSE behind
  /\ UNCHANGED <<last, issues, mapping, tracker, run, runs, dropped, orphaned>>

EditIssue == \E n \in Numbers :
  /\ issues[n].content # Missing /\ edits < MaxEdits
  /\ \/ issues' = [issues EXCEPT ![n].content = edits + 1]
     \/ issues' = [issues EXCEPT ![n] = NoIssue]
  /\ edits' = edits + 1
  /\ UNCHANGED <<last, local, mapping, tracker, run, runs, dropped, orphaned, behind, deleted>>

-----------------------------------------------------------------------------
(* sync_integration loads the tickets before it connects; a run in both    *)
(* directions pushes first.                                                *)
Begins(pushes) == \E d \in {"to", "from", "both"} :
  /\ run.pc = "off" /\ runs < MaxRuns /\ runs' = runs + 1
  /\ run' = IF d \in pushes
            THEN [NoRun EXCEPT !.pc = "push", !.direction = d, !.tickets = local,
                               !.todo = {i \in Ids : local[i] # Missing}]
            ELSE [NoRun EXCEPT !.pc = "load", !.direction = d]
  /\ behind' = {}
  /\ UNCHANGED <<last, local, issues, mapping, tracker, edits, dropped, orphaned, deleted>>

(* A mutant: a run in both directions pulls first.                         *)
BeginPullMutant == Begins({"to"})

BeginSync == Begins({"to", "both"})

Turn(i) == run.pc = "push" /\ i \in run.todo /\ i = Min(run.todo)
Rest(i) == run.todo \ {i}

(* A failed call is reported and the run goes on to the next ticket.       *)
PushFails(i) ==
  /\ Turn(i)
  /\ run' = [run EXCEPT !.todo = Rest(i)]
  /\ behind' = behind \cup {i}
  /\ UNCHANGED <<last, local, issues, mapping, tracker, edits, runs, dropped, orphaned, deleted>>

(* The id of an imported ticket stands in the ticket as well.              *)
External(i) == IF mapping[i] # 0 THEN mapping[i] ELSE i

Exists(i) == External(i) # 0 /\ issues[External(i)].content # Missing

UpdateIssue(i) ==
  /\ Turn(i) /\ Exists(i)
  /\ issues' = [issues EXCEPT ![External(i)] =
                  [content |-> run.tickets[i],
                   marker |-> IF tracker = "github" THEN @.marker ELSE Missing]]
  /\ run' = [run EXCEPT !.todo = Rest(i)]
  /\ UNCHANGED <<last, local, mapping, tracker, edits, runs, dropped, orphaned, behind, deleted>>

(* The issue create_ticket makes, or finds by its marker and leaves alone. *)
Marked(i) == {n \in Numbers : tracker # "plain" /\ issues[n].content # Missing
                              /\ issues[n].marker = i}

Creating(i, found) ==
  LET n == IF found # {} THEN Min(found) ELSE last + 1
      saved == External(i) # 0  \* an update that met 404 notes the new issue at once
      \* where to note the issue of an answer that arrives
      noted == [run EXCEPT !.todo = Rest(i), !.noted[i] = IF saved THEN 0 ELSE n]
  IN /\ Turn(i) /\ ~Exists(i) /\ n \in Numbers
     /\ IF found # {} THEN UNCHANGED <<issues, last>>
        ELSE /\ issues' = [issues EXCEPT ![n] = [content |-> run.tickets[i],
                                                marker |-> IF tracker = "plain" THEN Missing
                                                           ELSE i]]
             /\ last' = n
     /\ \/ /\ run' = noted
           /\ mapping' = IF saved THEN [mapping EXCEPT ![i] = n] ELSE mapping
           /\ UNCHANGED dropped
        \/ /\ run' = [run EXCEPT !.todo = Rest(i)]   \* the answer is lost
           /\ dropped' = dropped \cup {i}
           /\ UNCHANGED mapping
     /\ behind' = IF found # {} THEN behind \cup {i} ELSE behind
     /\ UNCHANGED <<local, tracker, edits, runs, orphaned, deleted>>

(* A mutant: an issue is created without a look for its marker.            *)
CreateBlindMutant(i) == Creating(i, {})

CreateIssue(i) == Creating(i, Marked(i))

(* What was created is noted once, when the last ticket has been pushed.   *)
EndPush ==
  /\ run.pc = "push" /\ run.todo = {}
  /\ mapping' = [i \in Ids |-> IF run.noted[i] # 0 THEN run.noted[i] ELSE mapping[i]]
  /\ run' = IF run.direction = "both" THEN [NoRun EXCEPT !.pc = "load", !.direction = "both"]
            ELSE NoRun
  /\ UNCHANGED <<last, local, issues, tracker, edits, runs, dropped, orphaned, behind, deleted>>

-----------------------------------------------------------------------------
(* The sprint and the backlog are loaded, then the issues listed; if that  *)
(* fails the pull is over.                                                 *)
LoadSprint ==
  /\ run.pc = "load"
  /\ run' = [run EXCEPT !.pc = "list", !.sprint = local, !.base = local]
  /\ UNCHANGED <<last, local, issues, mapping, tracker, edits, runs, dropped, orphaned, behind, deleted>>

ListIssues ==
  /\ run.pc = "list"
  /\ \/ run' = NoRun
     \/ run' = [run EXCEPT !.pc = "pull", !.todo = {n \in Numbers : issues[n].content # Missing},
                           !.tickets = [i \in Ids |-> IF i = 0 THEN Missing
                                                      ELSE issues[i].content]]
  /\ UNCHANGED <<last, local, issues, mapping, tracker, edits, runs, dropped, orphaned, behind, deleted>>

Owners(n) == {i \in Ids : mapping[i] = n}

(* An issue the state file knows goes to its ticket, if that is still in   *)
(* the sprint or the backlog; another becomes a new ticket, which is noted *)
(* at once and stored with the rest.                                       *)
Pulls(owned) == \E n \in Numbers :
  /\ run.pc = "pull" /\ n \in run.todo /\ n = Min(run.todo)
  /\ IF owned[n] # {}
     THEN /\ LET i == Min(owned[n])
             IN run' = [run EXCEPT !.todo = Rest(n),
                                   !.sprint[i] = IF @ = Missing THEN Missing ELSE run.tickets[n],
                                   !.changed = @ \/ run.sprint[i] # Missing]
          /\ UNCHANGED <<mapping, orphaned>>
     ELSE /\ run' = [run EXCEPT !.todo = Rest(n), !.sprint[n] = run.tickets[n],
                                !.changed = TRUE]
          /\ mapping' = [mapping EXCEPT ![n] = n]
          /\ orphaned' = orphaned \cup {n}
  /\ UNCHANGED <<last, local, issues, tracker, edits, runs, dropped, behind, deleted>>

(* A mutant: only tickets that are still here count as known.              *)
PullPresentMutant ==
  Pulls([n \in Numbers |-> {i \in Owners(n) : run.sprint[i] # Missing}])

(* A mutant: only the tickets the pull itself named are known by issue.    *)
PullOwnNameMutant == Pulls([n \in Numbers |-> Owners(n) \cap {n}])

PullIssue == Pulls([n \in Numbers |-> Owners(n)])

(* The snapshot is merged: a ticket edited since the load keeps its edit,  *)
(* one deleted since comes back.                                           *)
Saved(i) == IF run.sprint[i] = Missing \/ (local[i] # Missing /\ local[i] # run.base[i])
            THEN local[i] ELSE run.sprint[i]

SavePulled ==
  /\ run.pc = "pull" /\ run.todo = {}
  /\ local' = IF run.changed THEN [i \in Ids |-> Saved(i)] ELSE local
  /\ orphaned' = orphaned \ {i \in Ids : local'[i] # Missing}
  /\ run' = NoRun
  /\ UNCHANGED <<last, issues, mapping, tracker, edits, runs, dropped, behind, deleted>>

(* The process dies: what was created and not noted is not.                *)
Dies ==
  /\ run.pc # "off"
  /\ run' = NoRun
  /\ dropped' = dropped \cup {i \in Ids : run.noted[i] # 0}
  /\ UNCHANGED <<last, local, issues, mapping, tracker, edits, runs, orphaned, behind, deleted>>

SNext == \/ EditLocal \/ EditIssue \/ BeginSync \/ EndPush \/ LoadSprint \/ ListIssues
         \/ PullIssue \/ SavePulled \/ Dies
         \/ \E i \in Ids : PushFails(i) \/ UpdateIssue(i) \/ CreateIssue(i)

SSpec == SInit /\ [][SNext]_syncVars

-----------------------------------------------------------------------------
MadeFor(i) == {n \in Numbers : issues[n].content # Missing
                               /\ (issues[n].marker = i \/ mapping[i] = n)}

(* Whatever dies or is lost, and however often it is run again, a sync     *)
(* with github makes one issue of a ticket.                                *)
OneIssuePerTicket == tracker = "github" => \A i \in Ids : Cardinality(MadeFor(i)) <= 1

(* An issue belongs to one ticket, unless its creation was not noted: then *)
(* the pull imports it beside the ticket it was made from.                 *)
OneTicketPerIssue ==
  \A n \in Numbers : \A i, j \in Owners(n) :
    i = j \/ {i, j} \cap dropped # {} \/ issues[n].content = Missing

(* An imported ticket somebody deleted here is not imported again, unless  *)
(* it was deleted while a pull held a snapshot with it.                    *)
DeletedStaysAway == \A i \in deleted \cap Numbers : local[i] = Missing

(* A pull that follows a push does not bring back an older content, unless *)
(* the push of that ticket failed or somebody edited it while it ran.  Nor *)
(* has it to share its issue: a ticket whose creation was not noted shares *)
(* it with its own import, and each push of the two overwrites the other.  *)
PullKeepsEdits ==
  [][run.pc = "pull" /\ run'.pc = "off" /\ run.direction = "both" =>
       \A i \in Ids \ (behind \cup dropped) : local'[i] = Missing \/ local[i] = Missing \/ local'[i] >= local[i]]_syncVars
=============================================================================
