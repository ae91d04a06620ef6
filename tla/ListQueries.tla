---------------------------- MODULE ListQueries ----------------------------
(***************************************************************************)
(* What a list of tickets shows, from the sprint files                     *)
(* (core/store_tickets.py, core/store.py) or from the rows of the SQLite   *)
(* index (core/sqlite_index.py), and a client that asks GET /tickets for   *)
(* it page by page (api/server.py).  A file keeps its tickets in the order *)
(* they entered it; a row keeps its position until the index is rebuilt.   *)
(*                                                                         *)
(* Tickets are numbered.  The index is written together with the last      *)
(* write of a mutation (TicketIndex has the steps between), and the cached *)
(* answers are TicketLists'.  Label, file and priority filters, and the    *)
(* fields a view leaves out, are left out.                                 *)
(***************************************************************************)
EXTENDS Naturals, FiniteSets, SequencesExt

CONSTANTS
  Source,        \* Source[t]: the tool ticket t came from
  Size,          \* Size[t]: the bytes of ticket t in a full list
  ByteLimit,     \* PLANFILE_TICKET_LIST_MAX_BYTES
  PageSizes,     \* limits a client asks for; NoLimit when it names none
  MaxListChanges, MaxAsked  \* bounds: mutations, lists asked for

NoLimit == 0
LTickets == DOMAIN Size
Sprints == <<"current", "archive">>
Statuses == {"open", "done"}
Row(t, s, status) == [id |-> t, sprint |-> s, status |-> status]

VARIABLES
  sheet,       \* sheet[s]: the tickets of sprint file s, in its order
  status,      \* of every ticket
  enabled, current, rows,  \* the index: is it used, up to date, its rows by position
  move,        \* the move or rotation that has written its destination
  pager,       \* the client's list
  changes, asked,
  displaced,   \* history: tickets created or moved since the last rebuild
  answer       \* history: the last full answer or refusal: its rows and bytes

listQueryVars == <<sheet, status, enabled, current, rows, move, pager, changes, asked,
                   displaced, answer>>

NoMove == [ticket |-> 0, to |-> "current", applies |-> FALSE]
NoAnswer == [kind |-> "none", rows |-> 0, bytes |-> 0, advice |-> 0]
NoPager ==
  [pc |-> "idle", sprint |-> "current", status |-> "any", source |-> "any",
   view |-> "summary", limit |-> NoLimit, offset |-> 0, unread |-> <<>>,
   collected |-> <<>>, got |-> <<>>, changed |-> FALSE, stale |-> FALSE,
   reordered |-> FALSE, blind |-> FALSE, touched |-> {}, measured |-> 0]

InFiles == ToSet(sheet["current"]) \cup ToSet(sheet["archive"])

(* Two tickets to start with, one done; the index, when it is used, is     *)
(* just built.                                                             *)
LQInit ==
  /\ sheet = [s \in ToSet(Sprints) |-> IF s = "current" THEN <<1>> ELSE <<2>>]
  /\ status = [t \in LTickets |-> IF t = 1 THEN "done" ELSE "open"]
  /\ enabled \in BOOLEAN /\ current = enabled
  /\ rows = <<Row(1, "current", "done"), Row(2, "archive", "open")>>
  /\ move = NoMove
  /\ pager = NoPager
  /\ changes = 0 /\ asked = 0
  /\ displaced = {} /\ answer = NoAnswer

-----------------------------------------------------------------------------
(* A mutant: the row is deleted and inserted anew.                         *)
UpsertLastMutant(row) == Append(SelectSeq(rows, LAMBDA r : r.id # row.id), row)

(* The index (SQLiteTicketIndex).  A mutation that found it current ends   *)
(* by putting its row there: in its old position, or at the end.           *)
Upsert(row) ==
  IF \E i \in DOMAIN rows : rows[i].id = row.id
  THEN [i \in DOMAIN rows |-> IF rows[i].id = row.id THEN row ELSE rows[i]]
  ELSE Append(rows, row)

FileRows(s) == [i \in DOMAIN sheet[s] |-> Row(sheet[s][i], s, status[sheet[s][i]])]

(* Forced, or because the index is stale.                                  *)
Rebuild ==
  /\ enabled /\ move = NoMove
  /\ rows' = FileRows("current") \o FileRows("archive")
  /\ current' = TRUE
  /\ displaced' = {}
  /\ pager' = [pager EXCEPT !.reordered = @ \/ (pager.pc # "idle" /\ displaced # {}),
                            !.measured = IF rows' = rows THEN @ ELSE 0]
  /\ UNCHANGED <<sheet, status, enabled, move, changes, asked, answer>>

-----------------------------------------------------------------------------
(* Mutations.  A client that is under way may notice each.                 *)
Mutates(t) ==
  /\ move = NoMove /\ changes < MaxListChanges
  /\ changes' = changes + 1
  /\ pager' = IF pager.pc = "idle" THEN pager
              ELSE [pager EXCEPT !.changed = TRUE, !.measured = 0, !.touched = @ \cup {t}]
  /\ UNCHANGED <<enabled, asked, answer>>

Create(t) ==
  /\ t \notin InFiles
  /\ Mutates(t)
  /\ sheet' = [sheet EXCEPT !["current"] = Append(@, t)]
  /\ rows' = IF current THEN Upsert(Row(t, "current", status[t])) ELSE rows
  /\ displaced' = displaced \cup {t}
  /\ UNCHANGED <<status, current, move>>

Update(t, new) ==
  /\ t \in InFiles /\ status[t] # new
  /\ Mutates(t)
  /\ status' = [status EXCEPT ![t] = new]
  /\ LET s == CHOOSE s \in ToSet(Sprints) : t \in ToSet(sheet[s])
     IN rows' = IF current THEN Upsert(Row(t, s, new)) ELSE rows
  /\ UNCHANGED <<sheet, current, move, displaced>>

Delete(t) ==
  /\ t \in InFiles
  /\ Mutates(t)
  /\ sheet' = [s \in DOMAIN sheet |-> SelectSeq(sheet[s], LAMBDA x : x # t)]
  /\ rows' = IF current THEN SelectSeq(rows, LAMBDA r : r.id # t) ELSE rows
  /\ UNCHANGED <<status, current, move, displaced>>

(* A move, and a rotation to the archive, which leaves the index stale:    *)
(* the destination is written first.                                       *)
PutInDestination(t, s, applies) ==
  /\ t \in InFiles /\ t \notin ToSet(sheet[s])
  /\ Mutates(t)
  /\ sheet' = [sheet EXCEPT ![s] = Append(@, t)]
  /\ move' = [ticket |-> t, to |-> s, applies |-> applies /\ current]
  /\ current' = FALSE
  /\ UNCHANGED <<status, rows, displaced>>

Move(t, s) == PutInDestination(t, s, TRUE)
Rotate(t) == status[t] = "done" /\ PutInDestination(t, "archive", FALSE)

RemoveFromSource ==
  /\ move # NoMove
  /\ sheet' = [s \in DOMAIN sheet |->
                 IF s = move.to THEN sheet[s]
                 ELSE SelectSeq(sheet[s], LAMBDA x : x # move.ticket)]
  /\ current' = move.applies
  /\ rows' = IF move.applies THEN Upsert(Row(move.ticket, move.to, status[move.ticket])) ELSE rows
  /\ displaced' = displaced \cup {move.ticket}
  /\ pager' = IF pager.pc = "idle" THEN pager
              ELSE [pager EXCEPT !.changed = TRUE, !.measured = 0,
                                 !.touched = @ \cup {move.ticket}]
  /\ move' = NoMove
  /\ UNCHANGED <<status, enabled, changes, asked, answer>>

-----------------------------------------------------------------------------
(* What a list selects: from rows by the tool of the source; from files by *)
(* its printed form, which is no tool's name.                              *)
MatchesRow(q, r) ==
  /\ q.sprint \in {"all", r.sprint}
  /\ q.status \in {"any", r.status}
  /\ q.source \in {"any", Source[r.id]}

(* A mutant: the status filter is left to the caller.                      *)
MatchesAnyStatusMutant(q, r) ==
  /\ q.sprint \in {"all", r.sprint}
  /\ q.source = "any"

MatchesModel(q, r) ==
  /\ q.sprint \in {"all", r.sprint}
  /\ q.status \in {"any", r.status}
  /\ q.source = "any"

InIndex(q) == SelectSeq(rows, LAMBDA r : MatchesRow(q, r))

(* A mutant: every page starts one row early.                              *)
PageOverlapsMutant(list, q) ==
  LET last == IF q.limit = NoLimit THEN Len(list) ELSE Min({q.offset + q.limit, Len(list)})
  IN SubSeq(list, IF q.offset > 1 THEN q.offset ELSE 1, last)

Page(list, q) ==
  LET last == IF q.limit = NoLimit THEN Len(list) ELSE Min({q.offset + q.limit, Len(list)})
  IN SubSeq(list, q.offset + 1, last)

Bytes(page) ==
  FoldLeft(LAMBDA n, r : n + Size[r.id], 0, page) + (IF page = <<>> THEN 0 ELSE Len(page) - 1) + 2

-----------------------------------------------------------------------------
(* GET /tickets, asked until a page is not full.                           *)
Ask(sprint, st, source, view, limit) ==
  /\ pager.pc = "idle" /\ asked < MaxAsked
  /\ asked' = asked + 1
  /\ pager' = [NoPager EXCEPT !.pc = "ask", !.sprint = sprint, !.status = st,
                 !.source = source, !.view = view, !.limit = limit,
                 !.changed = move # NoMove, !.touched = {move.ticket}]
  /\ UNCHANGED <<sheet, status, enabled, current, rows, move, changes, displaced, answer>>

Quiet == UNCHANGED <<sheet, status, enabled, current, rows, move, changes, asked, displaced>>

Receive(page, from) ==
  pager' = [pager EXCEPT
    !.pc = IF pager.limit # NoLimit /\ Len(page) = pager.limit THEN "ask" ELSE "complete",
    !.offset = @ + Len(page),
    !.got = @ \o [i \in DOMAIN page |-> page[i].id],
    !.stale = @ \/ from = "stale", !.blind = @ \/ (from = "files" /\ pager.source # "any"),
    !.unread = <<>>, !.collected = <<>>, !.measured = 0]

(* A list without tickets' bodies, from an index that is current.          *)
FromIndex ==
  /\ pager.pc = "ask" /\ enabled /\ current /\ pager.view = "summary"
  /\ Receive(Page(InIndex(pager), pager), "index")
  /\ Quiet /\ UNCHANGED answer

(* From one that was current not long ago, for a page of all sprints: the  *)
(* answer says that it is stale.                                           *)
FromStaleIndex ==
  /\ pager.pc = "ask" /\ enabled /\ ~current /\ pager.view = "summary"
  /\ pager.sprint = "all" /\ pager.limit # NoLimit
  /\ Receive(Page(InIndex(pager), pager), "stale")
  /\ Quiet /\ UNCHANGED answer

(* A mutant: rounded up.                                                   *)
AdviceUpMutant(n, bytes) == ((n * ByteLimit) \div bytes) + 1

(* Full lists are measured first, and refused when they are too large:     *)
(* with the limit that would do if tickets were of one size.               *)
Advice(n, bytes) ==
  LET fit == (n * ByteLimit) \div bytes
  IN IF fit < 1 THEN 1 ELSE IF fit > 1000 THEN 1000 ELSE fit
Measure ==
  LET page == Page(InIndex(pager), pager)
      bytes == Bytes(page)
      n == IF page = <<>> THEN 1 ELSE Len(page)
  IN /\ pager.pc = "ask" /\ pager.view = "full" /\ enabled /\ current
     /\ IF bytes > ByteLimit
        THEN /\ answer' = [kind |-> "refusal", rows |-> n, bytes |-> bytes,
                           advice |-> Advice(n, bytes)]
             /\ pager' = [pager EXCEPT !.limit = Advice(n, bytes),
                            !.pc = IF Advice(n, bytes) < n THEN "ask" ELSE "complete",
                            !.blind = Advice(n, bytes) >= n]
        ELSE /\ pager' = [pager EXCEPT !.pc = "check", !.measured = bytes]
             /\ UNCHANGED answer
     /\ Quiet

(* Rendered in a transaction of its own, after the index was found to have *)
(* the signature it was measured under; otherwise the client asks again.   *)
CheckAgain ==
  /\ pager.pc = "check"
  /\ pager' = [pager EXCEPT !.pc = IF pager.measured = 0 THEN "ask" ELSE "render"]
  /\ Quiet /\ UNCHANGED answer

Render ==
  LET page == Page(InIndex(pager), pager)
  IN /\ pager.pc = "render"
     /\ answer' = [kind |-> IF pager.measured = 0 THEN "grown" ELSE "full",
                   rows |-> Len(page), bytes |-> Bytes(page), advice |-> 0]
     /\ Receive(page, "index")
     /\ Quiet

(* Without the index, and for one sprint and view while it is stale, the   *)
(* files are read one after the other, without a lock.                     *)
ReadFiles ==
  /\ pager.pc = "ask"
  /\ enabled => ~current /\ pager.view # "full" /\ pager.sprint # "all"
  /\ pager' = [pager EXCEPT !.pc = "files",
                 !.unread = SelectSeq(Sprints, LAMBDA s : pager.sprint \in {"all", s})]
  /\ Quiet /\ UNCHANGED answer

ReadFile ==
  /\ pager.pc = "files" /\ pager.unread # <<>>
  /\ pager' = [pager EXCEPT !.unread = Tail(@),
       !.collected = @ \o SelectSeq(FileRows(Head(pager.unread)), LAMBDA r : MatchesModel(pager, r))]
  /\ Quiet /\ UNCHANGED answer

AnswerFromFiles ==
  /\ pager.pc = "files" /\ pager.unread = <<>>
  /\ Receive(Page(pager.collected, pager), "files")
  /\ Quiet /\ UNCHANGED answer

Leave ==
  /\ pager.pc = "complete"
  /\ pager' = NoPager /\ answer' = NoAnswer
  /\ Quiet

LQNext ==
  \/ Rebuild \/ RemoveFromSource
  \/ \E t \in LTickets :
       \/ Create(t) \/ Delete(t) \/ Rotate(t)
       \/ \E new \in Statuses : Update(t, new)
       \/ \E s \in ToSet(Sprints) : Move(t, s)
  \/ \E sprint \in {"current", "all"}, view \in {"summary", "full"}, limit \in PageSizes :
       \E st \in {"any", "open"}, source \in {"any"} \cup {Source[t] : t \in LTickets} :
         Ask(sprint, st, source, view, limit)
  \/ FromIndex \/ FromStaleIndex \/ Measure \/ CheckAgain \/ Render
  \/ ReadFiles \/ ReadFile \/ AnswerFromFiles \/ Leave

-----------------------------------------------------------------------------
(* Of the index that is current: every ticket has its row, with the sprint *)
(* and status of the files, and tickets that stayed where the last rebuild *)
(* found them are in the order of their file.                              *)
Selected(q) == {t \in InFiles : \E s \in ToSet(Sprints) :
                  t \in ToSet(sheet[s]) /\ MatchesRow(q, Row(t, s, status[t]))}
RowsMatchFiles ==
  current =>
    /\ \A sprint \in {"current", "archive"}, st \in Statuses :
         LET q == [sprint |-> sprint, status |-> st, source |-> "any"]
         IN {r.id : r \in ToSet(InIndex(q))} = Selected(q)
    /\ Cardinality(InFiles) = Len(rows)
    /\ \A s \in ToSet(Sprints) : \A i, j \in DOMAIN sheet[s] :
         i < j /\ {sheet[s][i], sheet[s][j]} \cap displaced = {}
         => \E k, l \in DOMAIN rows : k < l /\ rows[k].id = sheet[s][i] /\ rows[l].id = sheet[s][j]

(* A client that pages through a list while no ticket changes gets each    *)
(* selected ticket once; unless an answer said it was stale, a rebuild put *)
(* rows back in the order of the files, the source was looked up in files  *)
(* or one ticket is larger than a full answer may be.                      *)
PagesTile ==
  pager.pc = "complete" /\ ~pager.changed /\ ~pager.stale /\ ~pager.reordered /\ ~pager.blind
  => ToSet(pager.got) = Selected(pager) /\ Cardinality(ToSet(pager.got)) = Len(pager.got)

(* A list of files read in one go shows at most once, and at least once    *)
(* when it is selected, what no mutation touched meanwhile.                *)
UntouchedOnce ==
  pager.pc = "complete" /\ pager.limit = NoLimit /\ ~enabled
  => \A t \in LTickets \ pager.touched :
       Cardinality({i \in DOMAIN pager.got : pager.got[i] = t}) =
         IF t \in Selected(pager) /\ ~pager.blind THEN 1 ELSE 0

(* A full answer keeps within the limit unless its rows changed after they *)
(* were measured; the limit a refusal names is smaller than what was       *)
(* asked, unless one ticket is too large by itself.                        *)
FullAnswersBounded ==
  /\ answer.kind = "full" => answer.bytes <= ByteLimit
  /\ answer.kind = "refusal" =>
       \/ answer.advice < answer.rows
       \/ answer.rows = 1 /\ answer.bytes > ByteLimit
=============================================================================
