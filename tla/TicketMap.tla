----------------------------- MODULE TicketMap -----------------------------
(***************************************************************************)
(* What the ticket store promises its callers: one map from ticket ids to  *)
(* records that changes atomically.  Where a ticket is stored, how many    *)
(* files a mutation replaces and when tickets are rotated into history is  *)
(* not visible: TicketStore implements this specification with             *)
(* view[t] = what a lookup of t returns.                                   *)
(***************************************************************************)
EXTENDS Naturals

CONSTANTS Ids, Active, Blocked, Done, MaxStamp, Absent

Record == [status : {Active, Blocked, Done}, upd : 0..MaxStamp, fin : 0..MaxStamp]

VARIABLES view,   \* ticket id -> the record a lookup returns
          used    \* ids that have ever named a ticket

Init == view = [t \in Ids |-> Absent] /\ used = {}

(* Tickets of one request appear together in one sprint, under fresh ids.  *)
Create(T, r) ==
  /\ T \cap used = {}
  /\ used' = used \cup T
  /\ view' = [t \in Ids |-> IF t \in T THEN r ELSE view[t]]

(* Every later version of a ticket has a later updated_at; done work is    *)
(* never made active again.  Moving a ticket is such an update.            *)
Update(t) ==
  LET r == view'[t] IN
    /\ used' = used
    /\ view[t] # Absent /\ r \in Record
    /\ r.upd > view[t].upd
    /\ view[t].status = Done => r.status # Active
    /\ view' = [view EXCEPT ![t] = r]

Delete(T) ==
  /\ used' = used
  /\ \A t \in T : view[t] # Absent
  /\ view' = [t \in Ids |-> IF t \in T THEN Absent ELSE view[t]]

Next ==
  \/ \E T \in SUBSET Ids, r \in Record : Create(T, r)
  \/ \E t \in Ids : Update(t)
  \/ \E T \in SUBSET Ids : Delete(T)

Spec == Init /\ [][Next]_<<view, used>>
=============================================================================
