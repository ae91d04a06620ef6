--------------------------- MODULE TicketCommands ---------------------------
(***************************************************************************)
(* The commands people and agents give about tickets: the terminal's       *)
(* (cli/groups/ticket/commands.py), the sentences of the DSL               *)
(* (dsl/executor.py) and the tools of the MCP server (mcp/server.py).      *)
(* Most are one call of the store, under its lock.  A bulk update or       *)
(* delete lists, shows what it listed, waits for a yes and then works on   *)
(* what it listed; update --note reads the ticket and writes its outputs   *)
(* back.  Between those steps the other commands go on.                    *)
(***************************************************************************)
EXTENDS Naturals, Sequences, FiniteSets, SequencesExt

CONSTANTS
  Sessions,     \* commands at a time
  Ids,          \* tickets there are or may come to be
  Labels,
  Filters,      \* of a bulk command: [status, label], either may be Whatever
  Wishes,       \* of a bulk update: [status, add, remove, to]
  MaxCommands,  \* bound: commands given
  MaxFaults     \* bound: writes the operating system refuses

Whatever == "whatever"
Immutable == {"done"}
Terminal == {"done", "blocked"}
Statuses == Terminal \cup {"open", "in_progress"}
Sprints == {"current", "next"}  \* besides the history of rotated tickets

VARIABLES
  tickets,   \* id -> [status, labels, sprint, notes] of those there are
  session,   \* what each command is doing
  commands, faults,
  wanted,    \* history: id -> the labels the commands on it add up to
  noted,     \* history: notes acknowledged, <<id, note>>
  outdated,  \* history: tickets whose labels a bulk update took from an old list
  overlapped \* history: tickets whose notes were written back over a newer one

commandVars == <<tickets, session, commands, faults, wanted, noted, outdated, overlapped>>

NoWish == [status |-> Whatever, add |-> {}, remove |-> {}, to |-> Whatever]
Idle == [at |-> "idle", listed |-> <<>>, shown |-> {}, wish |-> NoWish,
         updated |-> {}, failed |-> {}, took |-> {}, gone |-> {}, notes |-> {}]

CommandsInit ==
  /\ tickets \in [Ids -> {[status |-> s, labels |-> {}, sprint |-> "current", notes |-> {}] :
                            s \in {"open", "done"}}]
  /\ session = [c \in Sessions |-> Idle]
  /\ commands = 0 /\ faults = 0
  /\ wanted = [t \in Ids |-> {}]
  /\ noted = {}
  /\ outdated = {} /\ overlapped = {}

There == DOMAIN tickets
Without(f, gone) == [t \in DOMAIN f \ gone |-> f[t]]

-----------------------------------------------------------------------------
(* update_ticket: nothing when the ticket is gone, an exception when it    *)
(* would reopen what is done.  A ticket done in current may be rotated     *)
(* out of it by the same call.                                             *)
Reopens(t, status) ==
  t \in There /\ status # Whatever /\ tickets[t].status \in Immutable /\ status \notin Terminal

Stored(t, status, labels) ==
  LET updated == [tickets[t] EXCEPT !.status = IF status = Whatever THEN @ ELSE status,
                                    !.labels = labels]
  IN  {updated} \cup IF updated.sprint = "current" /\ updated.status = "done"
                       THEN {[updated EXCEPT !.sprint = "history"]} ELSE {}

Gives == commands < MaxCommands /\ commands' = commands + 1

(* Commands that are one call of the store.                                *)
Update(status) ==
  /\ Gives
  /\ \E t \in There :
       /\ ~Reopens(t, status)
       /\ tickets[t].status # status
       /\ \E updated \in Stored(t, status, tickets[t].labels) :
            tickets' = [tickets EXCEPT ![t] = updated]
  /\ UNCHANGED <<session, faults, wanted, noted, outdated, overlapped>>

DslDone == Update("done")
DslStart == Update("in_progress")
DslBlock == Update("blocked")
ToolUpdate == \E status \in Statuses : Update(status)
TerminalUpdate == \E status \in Statuses : Update(status)

(* set ticket ID labels=a,b replaces the list.                             *)
DslLabels ==
  /\ Gives
  /\ \E t \in There, labels \in SUBSET Labels :
       /\ labels # tickets[t].labels
       /\ \E updated \in Stored(t, Whatever, labels) : tickets' = [tickets EXCEPT ![t] = updated]
       /\ wanted' = [wanted EXCEPT ![t] = labels]
       /\ outdated' = outdated \ {t}
  /\ UNCHANGED <<session, faults, noted, overlapped>>

Move ==
  /\ Gives
  /\ \E t \in There, to \in Sprints :
       /\ tickets[t].sprint # to
       /\ tickets' = [tickets EXCEPT ![t].sprint = to]
  /\ UNCHANGED <<session, faults, wanted, noted, outdated, overlapped>>
DslMove == Move
ToolMove == Move

DslDelete ==
  /\ Gives
  /\ \E t \in There : tickets' = Without(tickets, {t})
  /\ UNCHANGED <<session, faults, wanted, noted, outdated, overlapped>>

-----------------------------------------------------------------------------
(* update --note: the outputs are read, the note appended, and the whole   *)
(* of them written by update_ticket.                                       *)
NoteReads(c) ==
  /\ session[c].at = "idle"
  /\ Gives
  /\ \E t \in There :
       session' = [session EXCEPT ![c] = [Idle EXCEPT !.at = "notes", !.shown = {t},
                                                      !.notes = tickets[t].notes]]
  /\ UNCHANGED <<tickets, faults, wanted, noted, outdated, overlapped>>

(* A mutant: the note replaces the others.                                 *)
NoteWritesAloneMutant(c) ==
  /\ session[c].at = "notes"
  /\ LET t == CHOOSE t \in session[c].shown : TRUE
         note == commands + Cardinality({n \in noted : n[1] = t})
     IN  IF t \in There
         THEN /\ tickets' = [tickets EXCEPT ![t].notes = {note}]
              /\ noted' = noted \cup {<<t, note>>}
              /\ overlapped' = IF tickets[t].notes \subseteq session[c].notes
                                 THEN overlapped ELSE overlapped \cup {t}
         ELSE UNCHANGED <<tickets, noted, overlapped>>
  /\ session' = [session EXCEPT ![c] = Idle]
  /\ UNCHANGED <<commands, faults, wanted, outdated>>

NoteWrites(c) ==
  /\ session[c].at = "notes"
  /\ LET t == CHOOSE t \in session[c].shown : TRUE
         note == commands + Cardinality({n \in noted : n[1] = t})
     IN  IF t \in There
         THEN /\ tickets' = [tickets EXCEPT ![t].notes = session[c].notes \cup {note}]
              /\ noted' = noted \cup {<<t, note>>}
              /\ overlapped' = IF tickets[t].notes \subseteq session[c].notes
                                 THEN overlapped ELSE overlapped \cup {t}
         ELSE UNCHANGED <<tickets, noted, overlapped>>
  /\ session' = [session EXCEPT ![c] = Idle]
  /\ UNCHANGED <<commands, faults, wanted, outdated>>

-----------------------------------------------------------------------------
(* Bulk commands: list, show, ask.                                         *)
Matches(t, filter) ==
  /\ filter.status \in {Whatever, tickets[t].status}
  /\ filter.label = Whatever \/ filter.label \in tickets[t].labels

Listing(filter) == {t \in There : Matches(t, filter)}

BulkUpdateLists(c) ==
  /\ session[c].at = "idle"
  /\ Gives
  /\ \E filter \in Filters, wish \in Wishes :
       LET found == Listing(filter)
       IN  /\ found # {}
           /\ session' = [session EXCEPT ![c] =
                [Idle EXCEPT !.at = "confirms", !.shown = found, !.wish = wish,
                   !.listed = [i \in 1..Cardinality(found) |->
                     LET t == SetToSeq(found)[i] IN [id |-> t, labels |-> tickets[t].labels]]]]
  /\ UNCHANGED <<tickets, faults, wanted, noted, outdated, overlapped>>

(* Ids given by name need not exist.                                       *)
DeleteLists(c) ==
  /\ session[c].at = "idle"
  /\ Gives
  /\ \E filter \in Filters, named \in SUBSET Ids :
       /\ Cardinality(named) < 2
       /\ named \cup Listing(filter) # {}
       /\ session' = [session EXCEPT ![c] =
            [Idle EXCEPT !.at = "asks", !.shown = named \cup Listing(filter)]]
  /\ UNCHANGED <<tickets, faults, wanted, noted, outdated, overlapped>>

Confirm(c) ==
  /\ session[c].at = "confirms"
  /\ session' = [session EXCEPT ![c].at = "updates"]
  /\ UNCHANGED <<tickets, commands, faults, wanted, noted, outdated, overlapped>>

(* --dry-run, or any answer but yes.                                       *)
Cancel(c) ==
  /\ session[c].at \in {"confirms", "asks"}
  /\ session' = [session EXCEPT ![c] = Idle]
  /\ UNCHANGED <<tickets, commands, faults, wanted, noted, outdated, overlapped>>

(* delete_tickets: all that are there, in one critical section.            *)
BulkDelete(c) ==
  /\ session[c].at = "asks"
  /\ tickets' = Without(tickets, session[c].shown)
  /\ session' = [session EXCEPT ![c].at = "deleted",
                                ![c].updated = session[c].shown \cap There,
                                ![c].gone = session[c].shown \ There]
  /\ UNCHANGED <<commands, faults, wanted, noted, outdated, overlapped>>

-----------------------------------------------------------------------------
(* _execute_bulk_updates, ticket by ticket as they were listed; an         *)
(* exception is collected and the next ticket has its turn.                *)
Listed(c) == Head(session[c].listed)
Wish(c) == session[c].wish
Relabels(c) == Wish(c).add \cup Wish(c).remove # {}

(* A mutant: labels are added and never removed.                           *)
NewLabelsKeepMutant(c) ==
  IF Relabels(c) THEN Listed(c).labels \cup Wish(c).add ELSE tickets[Listed(c).id].labels

(* _apply_label_changes starts from the labels of the list.                *)
NewLabels(c) ==
  IF Relabels(c) THEN (Listed(c).labels \cup Wish(c).add) \ Wish(c).remove
  ELSE tickets[Listed(c).id].labels

Passes(c, s) == [s EXCEPT !.listed = Tail(@), !.at = IF Len(s.listed) = 1 THEN "told" ELSE "updates"]

(* A mutant: the exception is swallowed.                                   *)
FailsUncountedMutant(c, t) ==
  /\ session' = [session EXCEPT ![c] = Passes(c, @)]
  /\ UNCHANGED <<tickets, wanted, outdated>>

Fails(c, t) ==
  /\ session' = [session EXCEPT ![c] = Passes(c, [session[c] EXCEPT !.failed = @ \cup {t}])]
  /\ UNCHANGED <<tickets, wanted, outdated>>

(* A ticket that is gone makes update_ticket answer None, which counts.    *)
Misses(c, t) ==
  /\ session' = [session EXCEPT ![c] =
       IF Wish(c).to = Whatever
         THEN Passes(c, [session[c] EXCEPT !.updated = @ \cup {t}, !.gone = @ \cup {t}])
         ELSE [session[c] EXCEPT !.at = "moves", !.gone = @ \cup {t}]]
  /\ UNCHANGED <<tickets, wanted, outdated>>

Takes(c, t) ==
  /\ \E updated \in Stored(t, Wish(c).status, NewLabels(c)) :
       tickets' = [tickets EXCEPT ![t] = updated]
  /\ wanted' = IF Relabels(c)
                 THEN [wanted EXCEPT ![t] = (@ \cup Wish(c).add) \ Wish(c).remove] ELSE wanted
  /\ outdated' = IF Relabels(c) /\ Listed(c).labels # tickets[t].labels
                   THEN outdated \cup {t} ELSE outdated
  /\ session' = [session EXCEPT ![c] =
       IF Wish(c).to = Whatever
         THEN Passes(c, [session[c] EXCEPT !.updated = @ \cup {t}, !.took = @ \cup {t}])
         ELSE [session[c] EXCEPT !.at = "moves", !.took = @ \cup {t}]]

BulkUpdate(c) ==
  /\ session[c].at = "updates"
  /\ LET t == Listed(c).id
     IN  \/ t \in There /\ ~Reopens(t, Wish(c).status) /\ Takes(c, t) /\ UNCHANGED faults
         \/ t \notin There /\ Misses(c, t) /\ UNCHANGED faults
         \/ Reopens(t, Wish(c).status) /\ Fails(c, t) /\ UNCHANGED faults
         \/ t \in There /\ faults < MaxFaults /\ faults' = faults + 1 /\ Fails(c, t)
  /\ UNCHANGED <<commands, noted, overlapped>>

(* move_ticket: False when the ticket is gone, which counts as well.       *)
BulkMove(c) ==
  /\ session[c].at = "moves"
  /\ LET t == Listed(c).id
     IN  \/ /\ t \in There
            /\ tickets' = [tickets EXCEPT ![t].sprint = Wish(c).to]
            /\ session' = [session EXCEPT ![c] =
                 Passes(c, [session[c] EXCEPT !.updated = @ \cup {t}])]
            /\ UNCHANGED <<faults, wanted, outdated>>
         \/ /\ t \notin There
            /\ session' = [session EXCEPT ![c] =
                 Passes(c, [session[c] EXCEPT !.updated = @ \cup {t}, !.gone = @ \cup {t}])]
            /\ UNCHANGED <<tickets, faults, wanted, outdated>>
         \/ t \in There /\ faults < MaxFaults /\ faults' = faults + 1 /\ Fails(c, t)
  /\ UNCHANGED <<commands, noted, overlapped>>

(* The report is printed.                                                  *)
Report(c) ==
  /\ session[c].at \in {"told", "deleted"}
  /\ session' = [session EXCEPT ![c] = Idle]
  /\ UNCHANGED <<tickets, commands, faults, wanted, noted, outdated, overlapped>>

CommandsNext ==
  \/ DslDone \/ DslStart \/ DslBlock \/ DslLabels \/ DslMove \/ DslDelete
  \/ ToolUpdate \/ ToolMove \/ TerminalUpdate
  \/ \E c \in Sessions :
       \/ NoteReads(c) \/ NoteWrites(c)
       \/ BulkUpdateLists(c) \/ DeleteLists(c) \/ Confirm(c) \/ Cancel(c)
       \/ BulkDelete(c) \/ BulkUpdate(c) \/ BulkMove(c) \/ Report(c)

-----------------------------------------------------------------------------
(* Commands of a ticket's labels add up, whoever gives them, unless a bulk *)
(* update wrote labels it had taken from an older list.                    *)
LabelsAddUp == \A t \in There : t \notin outdated => tickets[t].labels = wanted[t]

(* A note stays on its ticket, unless two --note of one ticket overlapped. *)
NotesStay ==
  \A n \in noted : n[1] \in There /\ n[1] \notin overlapped => n[2] \in tickets[n[1]].notes

(* What a bulk command reports: every ticket it showed and no other; as    *)
(* updated when the store took the change or the ticket was gone, as       *)
(* failed with at most the update done and the move not; and what it       *)
(* deleted is nowhere, in no sprint and no history.                        *)
UpdateReportTrue(s) ==
  /\ s.updated \cup s.failed = s.shown
  /\ s.updated \cap s.failed = {}
  /\ s.updated \subseteq s.took \cup s.gone
  /\ s.failed \cap s.took # {} => s.wish.to # Whatever /\ faults > 0
DeleteReportTrue(s) ==
  /\ s.updated \cup s.gone = s.shown
  /\ s.shown \cap There = {}
ReportsTrue ==
  \A c \in Sessions :
    /\ session[c].at = "told" => UpdateReportTrue(session[c])
    /\ session[c].at = "deleted" => DeleteReportTrue(session[c])
=============================================================================
