--------------------------- MODULE MCTicketStore ---------------------------
(* Small instances of TicketStore: two operational sprints and one history *)
(* file for each of two dates.                                             *)
EXTENDS TicketStore, TLC

MCHistories == {"history-1", "history-2"}
MCRank == [s \in {"current", "backlog"} \cup MCHistories |->
             CASE s = "current" -> 0 [] s = "backlog" -> 1
               [] s = "history-1" -> 2 [] s = "history-2" -> 3]
(* The first MCDayLength stamps fall on the first date.                    *)
CONSTANT DayLength
MCDayOf == [i \in 0..MaxClock |-> IF i <= DayLength THEN 1 ELSE 2]
MCHistoryOf == <<"history-1", "history-2">>
Operationals == {"current", "backlog"}
AllSprints == Operationals \cup MCHistories
Symmetry == Permutations(Procs)
=============================================================================
