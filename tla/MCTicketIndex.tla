--------------------------- MODULE MCTicketIndex ---------------------------
(* Small instances of TicketIndex: the current sprint and one other file.  *)
EXTENDS TicketIndex

MCOrder == <<"current", "history">>

(* Every ticket starts in the file that is read last.                      *)
MCPlaced == [t \in Tickets |-> "history"]
=============================================================================
