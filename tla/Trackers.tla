------------------------------ MODULE Trackers ------------------------------
(***************************************************************************)
(* What planfile sync carries between a ticket and its issue: the fields   *)
(* each backend sends (sync/github.py, gitlab.py, jira.py, onedev.py,      *)
(* generic.py) and what a pull writes over the ticket (sync/operations.py, *)
(* core/store_tickets.py).  ExternalSync has the steps of a sync and what  *)
(* may come between them; here a push and a pull are one step each.        *)
(*                                                                         *)
(* One ticket and one issue.  A label is a pair: of "person", of "at"      *)
(* creation (priority-high) or of "priority" (priority: high).             *)
(***************************************************************************)
EXTENDS Naturals, FiniteSets

CONSTANT MaxTouches  \* bound: what people do to the ticket or the issue

Kinds == {"github", "gitlab", "jira", "onedev", "generic"}
Priorities == {"high", "normal"}
NoTitle == "No title"

(* TicketStatus, and the states an issue of each tracker may be in.        *)
Planfile == {"open", "in_progress", "review", "done", "blocked", "canceled", "failed"}
States(k) ==
  CASE k = "github" -> {"open", "closed"}
    [] k = "gitlab" -> {"opened", "closed"}
    [] k = "jira" -> {"To Do", "In Progress", "Done"}
    [] k = "onedev" -> {"Open", "In Progress", "In Review", "Closed"}
    [] OTHER -> Planfile
Fresh(k) == CASE k = "gitlab" -> "opened" [] k = "jira" -> "To Do" [] k = "onedev" -> "Open"
              [] OTHER -> "open"

VARIABLES
  tracker,
  mine,     \* the ticket: status, name, labels, priority; id: has the record one
  issue,    \* the issue: state, title, labels; or NoIssue
  touches,
  meant,    \* history: the status a person gave the ticket last
  sent,     \* history: "edited", "pushed", "returned": how far meant has gone
  nameless, \* history: a pull from a tracker whose answers have no name
  removed   \* history: has the person's label been taken off the ticket

trackerVars == <<tracker, mine, issue, touches, meant, sent, nameless, removed>>

NoIssue == [state |-> "none", title |-> NoTitle, labels |-> {}]
Person == <<"person", "own">>
AtCreation(p) == <<"at", p>>
Priority(p) == <<"priority", p>>
IsPriority(label) == label[1] = "priority"

(* A ticket born here, or an issue nobody imported yet.                    *)
TrackersInit ==
  /\ tracker \in Kinds
  /\ \/ /\ mine = [status |-> "open", name |-> "name", labels |-> {Person},
                   priority |-> "high", id |-> TRUE]
        /\ issue = NoIssue
     \/ /\ mine = [status |-> "none", name |-> NoTitle, labels |-> {},
                   priority |-> "normal", id |-> FALSE]
        /\ issue = [state |-> Fresh(tracker), title |-> "name", labels |-> {Person}]
  /\ touches = 0
  /\ meant = "open" /\ sent = "edited" /\ nameless = FALSE /\ removed = FALSE

(* _ticket_from_data: what list_tickets and get_ticket can show.           *)
Readable == mine.id /\ mine.status \in Planfile
Born == mine.status # "none"

-----------------------------------------------------------------------------
(* People.  A ticket that is not shown is not worked on.                   *)
Touch == touches < MaxTouches /\ touches' = touches + 1

Work(status) ==
  /\ Readable /\ mine.status # status
  /\ Touch
  /\ mine' = [mine EXCEPT !.status = status]
  /\ meant' = status /\ sent' = "edited"
  /\ UNCHANGED <<tracker, issue, nameless, removed>>

Reprioritize(p) ==
  /\ Readable /\ mine.priority # p
  /\ Touch
  /\ mine' = [mine EXCEPT !.priority = p]
  /\ UNCHANGED <<tracker, issue, meant, sent, nameless, removed>>

TakeLabelOff ==
  /\ Readable /\ Person \in mine.labels
  /\ Touch
  /\ mine' = [mine EXCEPT !.labels = @ \ {Person}]
  /\ removed' = TRUE
  /\ UNCHANGED <<tracker, issue, meant, sent, nameless>>

(* On the side of the tracker.                                             *)
SetState(state) ==
  /\ issue # NoIssue /\ issue.state # state
  /\ Touch
  /\ issue' = [issue EXCEPT !.state = state]
  /\ sent' = "edited"
  /\ UNCHANGED <<tracker, mine, meant, nameless, removed>>

-----------------------------------------------------------------------------
(* _create_ticket of each backend: the labels of the new issue.            *)

(* A mutant: the labels of the ticket are left at home.                    *)
GitHubCreatesBareMutant == {AtCreation(mine.priority)}

GitHubCreates == {l \in mine.labels : ~IsPriority(l)} \cup {AtCreation(mine.priority)}
GitLabCreates == mine.labels \cup {Priority(mine.priority)}
OneDevCreates == {}
GenericCreates == mine.labels

(* Jira's takes the name under another word and raises.                    *)
CreateIssue ==
  /\ issue = NoIssue /\ tracker # "jira"
  /\ issue' = [state |-> Fresh(tracker), title |-> mine.name,
               labels |-> CASE tracker = "github" -> GitHubCreates
                            [] tracker = "gitlab" -> GitLabCreates
                            [] tracker = "onedev" -> OneDevCreates
                            [] OTHER -> GenericCreates]
  /\ UNCHANGED <<tracker, mine, touches, meant, sent, nameless, removed>>

(* _update_ticket of each backend: the issue it leaves.  Of the labels an  *)
(* issue has, GitHub's and GitLab's replace the priorities by the ticket's *)
(* labels and priority.                                                    *)
Updated(state, labels) == [state |-> state, title |-> mine.name, labels |-> labels]

(* A mutant: labels are added to those the issue has.                      *)
RelabelMoreMutant == issue.labels \cup mine.labels \cup {Priority(mine.priority)}

Relabel == {l \in issue.labels : ~IsPriority(l)} \cup mine.labels \cup {Priority(mine.priority)}

GitHubUpdates ==
  Updated(IF mine.status \in {"open", "closed"} THEN mine.status ELSE issue.state, Relabel)

GitLabUpdates ==
  Updated(CASE mine.status = "closed" -> "closed" [] mine.status = "open" -> "opened"
            [] OTHER -> issue.state, Relabel)

(* Jira has transitions by name.                                           *)
JiraUpdates ==
  Updated(IF mine.status \in {"done", "Done"} THEN "Done" ELSE issue.state, mine.labels)

OneDevUpdates ==
  Updated(CASE mine.status \in {"open", "failed", "blocked"} -> "Open"
            [] mine.status = "in_progress" -> "In Progress"
            [] mine.status = "review" -> "In Review"
            [] OTHER -> "Closed", issue.labels)

GenericUpdates == Updated(mine.status, mine.labels)

(* GitHub's appends the priority to the ticket's own list of labels.       *)
Push ==
  /\ Born /\ issue # NoIssue
  /\ issue' = CASE tracker = "github" -> GitHubUpdates
                [] tracker = "gitlab" -> GitLabUpdates
                [] tracker = "jira" -> JiraUpdates
                [] tracker = "onedev" -> OneDevUpdates
                [] OTHER -> GenericUpdates
  /\ mine' = IF tracker = "github" /\ mine.labels # {}
             THEN [mine EXCEPT !.labels = @ \cup {Priority(mine.priority)}]
             ELSE mine
  /\ sent' = IF mine.status = meant THEN "pushed" ELSE sent
  /\ UNCHANGED <<tracker, touches, meant, nameless, removed>>

-----------------------------------------------------------------------------
(* TicketState: what list_tickets of each backend tells of the issue.      *)
Told(status, name, labels) == [status |-> status, name |-> name, labels |-> labels]

(* A mutant: names are asked of no tracker.                                *)
GitHubTellsNoNameMutant == Told(issue.state, NoTitle, issue.labels)

GitHubTells == Told(issue.state, issue.title, issue.labels)
GitLabTells == Told(issue.state, NoTitle, issue.labels)
JiraTells == Told(issue.state, NoTitle, issue.labels)
GenericTells == Told(issue.state, NoTitle, issue.labels)

OneDevLabels == {<<"onedev", "project">>}

(* A mutant: OneDev's states reach the ticket as they are.                 *)
OneDevTellsStateMutant == Told(issue.state, issue.title, OneDevLabels)

OneDevTells ==
  Told(CASE issue.state = "Open" -> "open" [] issue.state = "In Progress" -> "in_progress"
         [] issue.state = "In Review" -> "review" [] OTHER -> "done",
       issue.title, OneDevLabels)

(* _update_local_ticket, and _import_new_ticket, whose record has no id.   *)
Pull ==
  /\ issue # NoIssue
  /\ LET told == CASE tracker = "github" -> GitHubTells
                   [] tracker = "gitlab" -> GitLabTells
                   [] tracker = "jira" -> JiraTells
                   [] tracker = "onedev" -> OneDevTells
                   [] OTHER -> GenericTells
     IN mine' = [mine EXCEPT !.status = told.status, !.name = told.name, !.labels = told.labels]
  /\ sent' = IF sent = "pushed" THEN "returned" ELSE sent
  /\ nameless' = (nameless \/ tracker \notin {"github", "onedev"})
  /\ UNCHANGED <<tracker, issue, touches, meant, removed>>

TrackersNext ==
  \/ CreateIssue \/ Push \/ Pull \/ TakeLabelOff
  \/ \E status \in Planfile : Work(status)
  \/ \E p \in Priorities : Reprioritize(p)
  \/ \E state \in States(tracker) : SetState(state)

-----------------------------------------------------------------------------
(* A status that went to the issue and came back, while nobody touched the *)
(* issue, is what a person meant: OneDev carries the statuses it has a     *)
(* state for, GitHub carries open, GitLab and Jira carry none.             *)
Carried(k) ==
  CASE k = "github" -> {"open"}
    [] k = "onedev" -> {"open", "in_progress", "review", "done"}
    [] k = "generic" -> Planfile
    [] OTHER -> {}
StatusComesBack ==
  sent = "returned" /\ meant \in Carried(tracker) => mine.status = meant

(* A ticket that is not shown was imported, or the last pull brought a     *)
(* state of GitHub, GitLab or Jira that no ticket can have.                *)
StaysReadable ==
  Born /\ ~Readable =>
    \/ ~mine.id
    \/ tracker \in {"github", "gitlab", "jira"} /\ mine.status \in States(tracker) \ Planfile

(* Ticket and issue keep the name a person gave, unless a pull from a      *)
(* tracker whose answers have none replaced it.                            *)
NameStays ==
  /\ Born => mine.name = "name" \/ nameless
  /\ issue # NoIssue => issue.title = "name" \/ nameless

(* A person's label stays until the person takes it off; OneDev's pull     *)
(* puts its own in the place of all.                                       *)
LabelStays == Born /\ ~removed /\ tracker # "onedev" => Person \in mine.labels

(* An issue is labelled with one priority, unless the ticket's own labels  *)
(* have come to name one.                                                  *)
OnePriority ==
  Cardinality({l \in issue.labels : IsPriority(l)}) > 1 =>
    \E l \in mine.labels : IsPriority(l) /\ l \in issue.labels
=============================================================================
