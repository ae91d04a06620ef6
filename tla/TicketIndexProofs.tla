------------------------- MODULE TicketIndexProofs -------------------------
(***************************************************************************)
(* Proofs about TicketIndex for any tickets, sprints and number of writes: *)
(* an index that calls itself current is the files (unless it was wiped    *)
(* under a mutation), and no lookup answers with an old version.           *)
(*                                                                         *)
(* The induction follows the three ways rows become current.  A rebuild    *)
(* commits what it has read so far, and that agrees with the files as long *)
(* as its signature is still theirs (ReadSoFar).  A mutation that found    *)
(* the index current applies its own ticket (Own), and every other ticket  *)
(* agrees with the files whatever is written or rebuilt meanwhile          *)
(* (Others).  A lookup keeps every value its ticket has had since it began *)
(* (WindowOpen), and neither the rows nor the rows a rebuild is reading    *)
(* hold an older one (RowsInWindow, BuildInWindow).                        *)
(***************************************************************************)
EXTENDS TicketIndex, TLAPS

(* What a rebuild has read of a ticket agrees with the files it has read.  *)
ReadSprints == {Order[i] : i \in 1 .. build.next - 1}
PartMatches(t) ==
  /\ build.rows[t] = Absent => HomesOf(t) \cap ReadSprints = {}
  /\ build.rows[t] # Absent =>
       /\ HomesOf(t) \cap ReadSprints = {build.rows[t].sprint}
       /\ files[build.rows[t].sprint][t] = build.rows[t].ver

Bounds ==
  /\ sig = Absent \/ sig <= rev
  /\ build.before <= rev
  /\ probe <= rev
  /\ settled <= rev

ReadSoFar ==
  Transaction /\ (build.before = rev \/ sig = rev) => \A t \in Tickets : PartMatches(t)

(* A mutation that will put its ticket into the index it found current.    *)
Applying ==
  /\ mut.wasCurrent /\ Applies(mut.kind)
  /\ mut.pc \in {"first", "second", "finish"}
  /\ ~wiped

Others ==
  Applying => \A t \in Tickets : t # mut.ticket =>
                RowMatches(t) /\ (Transaction => PartMatches(t))

(* A mutation writes its destination first, and never erases it.           *)
Destined ==
  /\ mut.pc = "second" => mut.kind \in {"move", "rotate"}
  /\ mut.pc \in {"first", "second"} /\ mut.kind \in {"move", "rotate"} => mut.from # mut.to
  /\ mut.pc \in {"second", "finish"} /\ mut.kind # "delete" =>
       files[mut.to][mut.ticket] \in Versions

(* Where the files hold the ticket such a mutation works on.               *)
Own ==
  Applying =>
    /\ mut.kind = "put" =>
         /\ HomesOf(mut.ticket) \subseteq {mut.to}
         /\ mut.pc = "finish" => HomesOf(mut.ticket) = {mut.to}
    /\ mut.kind = "delete" =>
         /\ mut.pc = "first" => HomesOf(mut.ticket) = {mut.from}
         /\ mut.pc = "finish" => HomesOf(mut.ticket) = {}
    /\ mut.kind = "move" =>
         /\ mut.pc = "first" => HomesOf(mut.ticket) = {mut.from}
         /\ mut.pc = "second" => HomesOf(mut.ticket) = {mut.from, mut.to}
         /\ mut.pc = "finish" => HomesOf(mut.ticket) = {mut.to}

WindowOpen == look.pc # "idle" => ValuesIn(files, look.ticket) \subseteq look.window

Excused == look.reset \/ wiped
RowsInWindow ==
  look.pc = "row" \/ (look.pc = "checked" /\ sig = look.sig) =>
    Answer \in look.window \/ (Answer = Absent /\ look.torn) \/ Excused

BuildInWindow ==
  /\ look.pc # "idle"
  /\ Transaction
  /\ look.pc = "row" \/ sig = look.sig \/ build.before = look.sig
  => build.rows[look.ticket] = Absent \/ build.rows[look.ticket].ver \in look.window

CacheFresh == cache # Absent => cache.sig >= settled /\ cache.sig >= cache.probe

IInv ==
  /\ TypeOK /\ Destined /\ Bounds /\ FaithfulUnlessWiped /\ ReadSoFar /\ Others /\ Own
  /\ WindowOpen /\ RowsInWindow /\ BuildInWindow /\ CacheFresh

-----------------------------------------------------------------------------
(* Constants and initial values.                                           *)

LEMMA CurrentIsSprint == Current \in Sprints
BY IndexAssumption DEF Current, Sprints

LEMMA AnyIsTicket == AnyTicket \in Tickets
BY IndexAssumption DEF AnyTicket

LEMMA AbsentApart ==
  /\ Absent \notin Versions /\ Absent \notin Revs
  /\ Absent \notin Homes
  /\ 0 \in Revs /\ 1 \in Versions /\ 1 \in Revs
BY IndexAssumption DEF Versions, Revs

LEMMA NoneTyped ==
  /\ NoMutation \in Mutations /\ NoBuild \in Builds /\ NoLookup \in Lookups
  /\ NoRows \in [Tickets -> Homes \cup {Absent}]
<1>1. 1 \in 1..(Len(Order) + 1)
  BY IndexAssumption
<1>2. NoRows \in [Tickets -> Homes \cup {Absent}]
  BY DEF NoRows
<1> QED
  BY <1>1, <1>2, CurrentIsSprint, AnyIsTicket, AbsentApart
  DEF NoMutation, Mutations, NoBuild, Builds, NoLookup, Lookups, AllKinds

-----------------------------------------------------------------------------
(* What a write does to the homes of the tickets.                          *)

LEMMA WriteTyped ==
  ASSUME TypeOK, NEW s \in Sprints, NEW t \in Tickets,
         NEW v \in Versions \cup {Absent}, Write(s, t, v)
  PROVE  /\ rev' = rev + 1 /\ rev' \in Revs /\ rev' \in Versions
         /\ files' \in [Sprints -> [Tickets -> Versions \cup {Absent}]]
         /\ files'[s][t] = v
         /\ \A r \in Sprints, u \in Tickets : (r # s \/ u # t) => files'[r][u] = files[r][u]
         /\ probe' \in Revs
         /\ look' \in Lookups
<1>1. rev' = rev + 1 /\ rev' \in Revs /\ rev' \in Versions
  BY IndexAssumption DEF TypeOK, Write, Revs, Versions
<1>2. files' \in [Sprints -> [Tickets -> Versions \cup {Absent}]]
  BY DEF TypeOK, Write
<1>3. files'[s][t] = v
      /\ \A r \in Sprints, u \in Tickets : (r # s \/ u # t) => files'[r][u] = files[r][u]
  BY DEF TypeOK, Write
<1>4. probe' \in Revs
  BY <1>1 DEF TypeOK, Write
<1>5. ValuesIn(files', t) \subseteq Versions \cup {Absent}
  BY <1>2 DEF ValuesIn, HomesIn
<1>6. look' \in Lookups
  BY <1>5 DEF TypeOK, Write, Lookups
<1> QED BY <1>1, <1>2, <1>3, <1>4, <1>6

LEMMA WriteHomes ==
  ASSUME TypeOK, NEW s \in Sprints, NEW t \in Tickets,
         NEW v \in Versions \cup {Absent}, Write(s, t, v)
  PROVE  /\ HomesOf(t)' = IF v = Absent THEN HomesOf(t) \ {s} ELSE HomesOf(t) \cup {s}
         /\ \A u \in Tickets : u # t => HomesOf(u)' = HomesOf(u)
BY WriteTyped DEF HomesOf, HomesIn

LEMMA ValuesHeld ==
  ASSUME NEW f, NEW t
  PROVE  /\ HomesIn(f, t) = {} => ValuesIn(f, t) = {Absent}
         /\ \A s \in HomesIn(f, t) : f[s][t] \in ValuesIn(f, t)
BY DEF ValuesIn

-----------------------------------------------------------------------------
(* What a rebuild has read.                                                *)

LEMMA PartStep ==
  ASSUME TypeOK, ReadSprint, Transaction', NEW t \in Tickets, PartMatches(t)
  PROVE  PartMatches(t)'
<1> DEFINE s == Order[build.next]
           held == {u \in Tickets : files[s][u] # Absent}
<1>1. build.next \in 1..Len(Order) /\ s \in Sprints
  BY IndexAssumption DEF ReadSprint, TypeOK, Builds, Sprints
<1>2. /\ \A u \in held : build.rows[u] = Absent
      /\ build' = [build EXCEPT !.next = @ + 1,
                    !.rows = [u \in Tickets |->
                       IF u \in held THEN [sprint |-> s, ver |-> files[s][u]] ELSE @[u]]]
  BY DEF ReadSprint, Transaction, NoBuild
<1>3. /\ build'.next = build.next + 1
      /\ build'.rows[t] = IF t \in held THEN [sprint |-> s, ver |-> files[s][t]]
                          ELSE build.rows[t]
  BY <1>2 DEF TypeOK, Builds
<1>4. ReadSprints' = ReadSprints \cup {s}
  BY <1>1, <1>3 DEF ReadSprints
<1>5. UNCHANGED files
  BY DEF ReadSprint, sourceVars
<1>6. HomesOf(t)' = HomesOf(t) /\ HomesOf(t) \subseteq Sprints
  BY <1>5 DEF HomesOf, HomesIn
<1>7. CASE t \in held
  <2>1. build.rows[t] = Absent /\ HomesOf(t) \cap ReadSprints = {}
    BY <1>2, <1>7 DEF PartMatches
  <2>2. s \in HomesOf(t)
    BY <1>1, <1>7 DEF HomesOf, HomesIn
  <2>3. [sprint |-> s, ver |-> files[s][t]] \in Homes
    BY <1>1, <1>7 DEF TypeOK, Homes
  <2>4. build'.rows[t] # Absent
    BY <1>3, <1>7, <2>3, AbsentApart
  <2>5. HomesOf(t)' \cap ReadSprints' = {s}
    BY <1>4, <1>6, <2>1, <2>2
  <2> QED BY <1>3, <1>5, <1>7, <2>4, <2>5 DEF PartMatches
<1>8. CASE t \notin held
  <2>1. s \notin HomesOf(t)
    BY <1>8 DEF HomesOf, HomesIn
  <2>2. HomesOf(t)' \cap ReadSprints' = HomesOf(t) \cap ReadSprints
    BY <1>4, <1>6, <2>1
  <2> QED BY <1>3, <1>5, <1>8, <2>2 DEF PartMatches
<1> QED BY <1>7, <1>8

(* Before the first file nothing was read.                                 *)
LEMMA PartEmpty ==
  ASSUME BeginTransaction, TypeOK, NEW t \in Tickets
  PROVE  PartMatches(t)'
<1>1. build'.rows = NoRows /\ build'.next = 1
  BY DEF BeginTransaction, TypeOK, Builds
<1>2. build'.rows[t] = Absent
  BY <1>1 DEF NoRows
<1>3. ReadSprints' = {}
  BY <1>1 DEF ReadSprints
<1> QED BY <1>2, <1>3 DEF PartMatches

(* When every file was read the rows are what the index needs.             *)
LEMMA PartWhole ==
  ASSUME TypeOK, build.next = Len(Order) + 1, NEW t \in Tickets, PartMatches(t)
  PROVE  /\ build.rows[t] = Absent => HomesOf(t) = {}
         /\ build.rows[t] # Absent =>
              /\ HomesOf(t) = {build.rows[t].sprint}
              /\ files[build.rows[t].sprint][t] = build.rows[t].ver
<1>1. ReadSprints = Sprints
  BY IndexAssumption DEF ReadSprints, Sprints
<1>2. HomesOf(t) \cap ReadSprints = HomesOf(t)
  BY <1>1 DEF HomesOf, HomesIn
<1> QED BY <1>2 DEF PartMatches

LEMMA CommitMatches ==
  ASSUME TypeOK, Commit, NEW t \in Tickets, PartMatches(t)
  PROVE  RowMatches(t)'
<1>1. build.next = Len(Order) + 1 /\ rows' = build.rows /\ UNCHANGED files
  BY DEF Commit, sourceVars
<1>2. HomesOf(t)' = HomesOf(t)
  BY <1>1 DEF HomesOf, HomesIn
<1> QED BY <1>1, <1>2, PartWhole DEF RowMatches

-----------------------------------------------------------------------------
(* The actions that write: which ticket in which file, and what becomes of *)
(* the mutation.                                                           *)

Written ==
  \E s \in Sprints, v \in Versions \cup {Absent} :
    /\ Write(s, mut.ticket, v)
    /\ UNCHANGED <<indexVars, build, observer>>
    /\ wiped' = wiped

WritingActions == WriteFirst \/ WriteSecond \/ UndoMove

LEMMA WritingWrites ==
  ASSUME TypeOK, WritingActions, Next
  PROVE  Written
<1>1. mut \in Mutations
  BY DEF TypeOK
<1>2. UNCHANGED <<indexVars, build, observer>>
  BY DEF WritingActions, WriteFirst, WriteSecond, UndoMove, Next
<1>3. wiped' = wiped
  <2>1. build' = build
    BY <1>2
  <2> QED BY <2>1 DEF Next, Wipes, TypeOK
<1>4. rev + 1 \in Versions \/ ~(rev < MaxRev)
  BY IndexAssumption DEF TypeOK, Revs, Versions
<1>5. \E s \in Sprints, v \in Versions \cup {Absent} : Write(s, mut.ticket, v)
  BY <1>1, <1>4 DEF WritingActions, WriteFirst, WriteSecond, UndoMove, Mutations, Write
<1> QED BY <1>2, <1>3, <1>5 DEF Written

(* Every other action leaves the files and their signature alone.          *)
LEMMA OthersDoNotWrite ==
  ASSUME Next, ~WritingActions
  PROVE  UNCHANGED <<files, rev, probe>>
BY DEF Next, Step, Mutate, Rebuild, BuildStep, Lookup, Maintain, WritingActions,
  Begin, Finish, FinishTimesOut, Ensure, TakeSignature, BeginTransaction, ReadSprint,
  Reset, Commit, Compare, StartLookup, CheckCurrent, ReadRow, CacheSignature,
  KeeperLooks, KeeperLocks, KeeperEnsures, KeeperUnlocks, CrashMutation, CrashBuild,
  sourceVars

LEMMA WipedStays ==
  ASSUME Next, TypeOK
  PROVE  /\ wiped' \in BOOLEAN
         /\ wiped => wiped'
BY DEF Next, TypeOK, Wipes

-----------------------------------------------------------------------------
(* Types.                                                                  *)

LEMMA InitTyped == Init => TypeOK
<1> SUFFICES ASSUME Init PROVE TypeOK
  OBVIOUS
<1>1. files \in [Sprints -> [Tickets -> Versions \cup {Absent}]]
  BY AbsentApart DEF Init
<1>2. crashes \in 0..MaxCrashes
  BY IndexAssumption DEF Init
<1> QED BY <1>1, <1>2, NoneTyped, AbsentApart DEF Init, TypeOK

LEMMA UnlockTyped ==
  ASSUME TypeOK, NEW m, NEW r \in Revs, Unlock(m, r)
  PROVE  /\ mut' \in Mutations
         /\ cache' \in [sig : Revs, probe : Revs] \cup {Absent}
         /\ settled' \in Revs
BY NoneTyped DEF TypeOK, Unlock, Invalidate

LEMMA StepTyped == TypeOK /\ Destined /\ [Next]_vars => TypeOK'
<1> SUFFICES ASSUME TypeOK, Destined, [Next]_vars PROVE TypeOK'
  OBVIOUS
<1> USE DEF sourceVars, indexVars, apiVars
<1>0. CASE UNCHANGED vars
  BY <1>0 DEF vars, TypeOK
<1> SUFFICES ASSUME Next PROVE TypeOK'
  BY <1>0
<1>w. wiped' \in BOOLEAN /\ observer' \in Observers
  BY WipedStays DEF Next, TypeOK
<1>1. CASE WritingActions
  <2>1. PICK s \in Sprints, v \in Versions \cup {Absent} : Write(s, mut.ticket, v)
    BY <1>1, WritingWrites DEF Written
  <2>2. mut.ticket \in Tickets
    BY DEF TypeOK, Mutations
  <2>3. /\ rev' = rev + 1 /\ rev' \in Revs /\ probe' \in Revs /\ look' \in Lookups
        /\ files' \in [Sprints -> [Tickets -> Versions \cup {Absent}]]
    BY <2>1, <2>2, WriteTyped
  <2>4. mut' \in Mutations
    BY <1>1, <2>3, UnlockTyped
    DEF WritingActions, WriteFirst, WriteSecond, UndoMove, TypeOK, Mutations
  <2>5. settled' \in Revs /\ cache' \in [sig : Revs, probe : Revs] \cup {Absent}
    BY <1>1, <2>3, UnlockTyped
    DEF WritingActions, WriteFirst, WriteSecond, UndoMove, TypeOK
  <2> QED BY <1>1, <1>w, <2>3, <2>4, <2>5
    DEF WritingActions, WriteFirst, WriteSecond, UndoMove, TypeOK
<1>2. CASE Begin
  <2>1. mut' \in Mutations
    BY <1>2, IndexAssumption
    DEF Begin, TypeOK, Mutations, AllKinds, IsCurrent, HomesOf, HomesIn
  <2> QED BY <1>2, <1>w, <2>1 DEF Begin, TypeOK, Invalidate
<1>3. CASE Finish
  <2>1. /\ mut' \in Mutations /\ settled' \in Revs
        /\ cache' \in [sig : Revs, probe : Revs] \cup {Absent}
    BY <1>3, UnlockTyped DEF Finish, TypeOK
  <2>2. RowAfter(mut) \in Homes \cup {Absent}
    BY <1>3 DEF Destined, Finish, RowAfter, Homes, TypeOK, Mutations
  <2>3. mut.ticket \in Tickets
    BY DEF TypeOK, Mutations
  <2>4. rows' \in [Tickets -> Homes \cup {Absent}] /\ sig' \in Revs \cup {Absent}
    BY <1>3, <2>2, <2>3 DEF Finish, Apply, TypeOK
  <2> QED BY <1>3, <1>w, <2>1, <2>4 DEF Finish, TypeOK
<1>4. CASE FinishTimesOut
  <2>1. /\ mut' \in Mutations /\ settled' \in Revs
        /\ cache' \in [sig : Revs, probe : Revs] \cup {Absent}
    BY <1>4, UnlockTyped DEF FinishTimesOut, TypeOK
  <2> QED BY <1>4, <1>w, <2>1 DEF FinishTimesOut, TypeOK
<1>5. CASE Ensure
  <2>1. build' \in Builds
    BY <1>5, NoneTyped DEF Ensure, Builds
  <2> QED BY <1>5, <1>w, <2>1 DEF Ensure, TypeOK
<1>6. CASE TakeSignature
  <2>1. build' \in Builds
    BY <1>6, NoneTyped DEF TakeSignature, Builds, TypeOK
  <2> QED BY <1>6, <1>w, <2>1 DEF TakeSignature, TypeOK
<1>7. CASE BeginTransaction
  <2>1. build' \in Builds
    BY <1>7, NoneTyped, IndexAssumption DEF BeginTransaction, Builds, NoBuild, TypeOK
  <2> QED BY <1>7, <1>w, <2>1 DEF BeginTransaction, TypeOK
<1>8. CASE ReadSprint
  <2> DEFINE s == Order[build.next]
             held == {u \in Tickets : files[s][u] # Absent}
             read == [u \in Tickets |->
                       IF u \in held THEN [sprint |-> s, ver |-> files[s][u]] ELSE build.rows[u]]
  <2>i. build.next \in 1..Len(Order) /\ Len(Order) \in Nat
    BY <1>8, IndexAssumption DEF ReadSprint, TypeOK, Builds
  <2>1. s \in Sprints /\ build.next + 1 \in 1..(Len(Order) + 1)
    BY <2>i DEF Sprints
  <2>a. \A u \in held : files[s][u] \in Versions
    <3>1. files \in [Sprints -> [Tickets -> Versions \cup {Absent}]]
      BY DEF TypeOK
    <3> HIDE DEF s
    <3> QED BY <2>1, <3>1
  <2>b. \A u \in held : [sprint |-> s, ver |-> files[s][u]] \in Homes
    BY <2>1, <2>a DEF Homes
  <2>c. build.rows \in [Tickets -> Homes \cup {Absent}]
    BY DEF TypeOK, Builds
  <2>2. read \in [Tickets -> Homes \cup {Absent}]
    <3> HIDE DEF held, s
    <3> QED BY <2>b, <2>c
  <2>3. \/ build' = [build EXCEPT !.next = @ + 1, !.rows = read]
        \/ build' = NoBuild
        \/ build' = [build EXCEPT !.pc = "reset", !.rows = NoRows, !.next = 1]
    BY <1>8 DEF ReadSprint, TypeOK, Builds
  <2>4. build' \in Builds
    <3> DEFINE after == [build EXCEPT !.next = @ + 1, !.rows = read]
               broken == [build EXCEPT !.pc = "reset", !.rows = NoRows, !.next = 1]
    <3>1. build \in Builds /\ 1 \in 1..(Len(Order) + 1)
      BY IndexAssumption DEF TypeOK
    <3>2. broken \in Builds
      BY <3>1, NoneTyped DEF Builds
    <3>3. after \in Builds
      <4> HIDE DEF read
      <4> QED BY <3>1, <2>1, <2>2 DEF Builds
    <3> QED BY <2>3, <3>2, <3>3, NoneTyped
  <2> QED BY <1>8, <1>w, <2>4 DEF ReadSprint, TypeOK
<1>9. CASE Reset
  <2>1. build' \in Builds /\ look' \in Lookups
    BY <1>9 DEF Reset, Builds, Lookups, TypeOK
  <2> QED BY <1>9, <1>w, <2>1, NoneTyped DEF Reset, TypeOK
<1>10. CASE Commit
  <2>i. build \in Builds /\ look \in Lookups /\ 1 \in 1..(Len(Order) + 1)
    BY IndexAssumption DEF TypeOK
  <2>a. build' \in Builds
    BY <1>10, <2>i, NoneTyped DEF Commit, Builds
  <2>b. look' \in Lookups
    BY <1>10, <2>i DEF Commit, Lookups
  <2>c. rows' \in [Tickets -> Homes \cup {Absent}] /\ sig' \in Revs
    BY <1>10, <2>i DEF Commit, Builds
  <2>1. /\ build' \in Builds /\ look' \in Lookups
        /\ rows' \in [Tickets -> Homes \cup {Absent}] /\ sig' \in Revs
    BY <2>a, <2>b, <2>c
  <2> QED BY <1>10, <1>w, <2>1 DEF Commit, TypeOK
<1>11. CASE Compare
  <2>1. CASE build' = NoBuild
    BY <1>11, <1>w, <2>1, NoneTyped DEF Compare, TypeOK
  <2> DEFINE again == [build EXCEPT !.pc = "stamp", !.force = TRUE, !.attempt = 2]
  <2>2. build \in Builds /\ 2 \in 1..2
    BY DEF TypeOK
  <2>3. again \in Builds
    BY <2>2 DEF Builds
  <2>4. CASE build' = again
    BY <1>11, <1>w, <2>3, <2>4 DEF Compare, TypeOK
  <2> QED BY <1>11, <2>1, <2>4 DEF Compare
<1>12. CASE StartLookup
  <2>1. look' \in Lookups
    BY <1>12 DEF StartLookup, Lookups, TypeOK, ValuesIn, HomesIn
  <2> QED BY <1>12, <1>w, <2>1 DEF StartLookup, TypeOK
<1>13. CASE CheckCurrent
  <2>1. look' \in Lookups
    BY <1>13, NoneTyped DEF CheckCurrent, Lookups, TypeOK
  <2> QED BY <1>13, <1>w, <2>1 DEF CheckCurrent, TypeOK
<1>14. CASE ReadRow
  BY <1>14, <1>w, NoneTyped DEF ReadRow, TypeOK
<1>15. CASE CacheSignature
  BY <1>15, <1>w DEF CacheSignature, TypeOK
<1>16. CASE KeeperLooks
  BY <1>16, <1>w DEF KeeperLooks, TypeOK
<1>17. CASE KeeperLocks
  <2>1. mut' \in Mutations
    BY <1>17, NoneTyped DEF KeeperLocks, Mutations, TypeOK
  <2> QED BY <1>17, <1>w, <2>1 DEF KeeperLocks, Invalidate, TypeOK
<1>18. CASE KeeperEnsures
  <2>1. mut' \in Mutations /\ build' \in Builds
    BY <1>18, NoneTyped DEF KeeperEnsures, Mutations, Builds, TypeOK
  <2> QED BY <1>18, <1>w, <2>1 DEF KeeperEnsures, TypeOK
<1>19. CASE KeeperUnlocks
  <2>1. /\ mut' \in Mutations /\ settled' \in Revs
        /\ cache' \in [sig : Revs, probe : Revs] \cup {Absent}
    BY <1>19, UnlockTyped DEF KeeperUnlocks, TypeOK
  <2> QED BY <1>19, <1>w, <2>1 DEF KeeperUnlocks, TypeOK
<1>20. CASE CrashMutation \/ CrashBuild
  <2>1. crashes' \in 0..MaxCrashes
    BY <1>20, IndexAssumption DEF CrashMutation, CrashBuild, MayDie, TypeOK
  <2>2. mut' \in Mutations /\ build' \in Builds
    BY <1>20, NoneTyped DEF CrashMutation, CrashBuild, TypeOK
  <2>3. cache' \in [sig : Revs, probe : Revs] \cup {Absent} /\ keeper' \in Revs \cup {Absent}
    BY <1>20 DEF CrashMutation, CrashBuild, TypeOK
  <2> QED BY <1>20, <1>w, <2>1, <2>2, <2>3 DEF CrashMutation, CrashBuild, TypeOK
<1> QED
  BY <1>1, <1>2, <1>3, <1>4, <1>5, <1>6, <1>7, <1>8, <1>9, <1>10, <1>11, <1>12, <1>13,
     <1>14, <1>15, <1>16, <1>17, <1>18, <1>19, <1>20
  DEF Next, Step, Mutate, Rebuild, BuildStep, Lookup, Maintain, WritingActions

(* Actions by what they touch.                                             *)
LEMMA RebuildsKeep ==
  ASSUME Rebuild \/ CrashBuild
  PROVE  UNCHANGED <<mut, files, rev, probe, cache, settled>>
BY DEF Rebuild, BuildStep, Ensure, TakeSignature, BeginTransaction, ReadSprint, Reset,
  Commit, Compare, CrashBuild, sourceVars, apiVars

LEMMA ReadersKeep ==
  ASSUME Lookup \/ CacheSignature \/ KeeperLooks
  PROVE  UNCHANGED <<mut, build, files, rev, probe, sig, rows, settled>>
BY DEF Lookup, StartLookup, CheckCurrent, ReadRow, CacheSignature, KeeperLooks,
  sourceVars, indexVars, apiVars

(* The maintenance and deaths never leave a mutation half way.             *)
LEMMA OffStage ==
  ASSUME KeeperLocks \/ KeeperEnsures \/ KeeperUnlocks \/ CrashMutation \/ Finish
         \/ FinishTimesOut \/ UndoMove, TypeOK
  PROVE  mut'.pc \in {"idle", "repair", "repairing"}
<1>1. NoMutation.pc = "idle"
  BY DEF NoMutation
<1>2. CASE KeeperLocks \/ KeeperEnsures
  BY <1>2, NoneTyped DEF KeeperLocks, KeeperEnsures, TypeOK, Mutations
<1>3. CASE KeeperUnlocks \/ CrashMutation \/ Finish \/ FinishTimesOut \/ UndoMove
  BY <1>1, <1>3 DEF KeeperUnlocks, CrashMutation, Finish, FinishTimesOut, UndoMove, Unlock
<1> QED BY <1>2, <1>3

LEMMA StepDestined == TypeOK /\ Destined /\ [Next]_vars => Destined'
<1> SUFFICES ASSUME TypeOK, Destined, [Next]_vars PROVE Destined'
  OBVIOUS
<1>0. CASE UNCHANGED vars
  BY <1>0 DEF vars, sourceVars, Destined
<1> SUFFICES ASSUME Next PROVE Destined'
  BY <1>0
<1>t. mut \in Mutations /\ mut.ticket \in Tickets /\ mut.to \in Sprints /\ mut.from \in Sprints
  BY DEF TypeOK, Mutations
<1>1. CASE WriteFirst
  <2>1. CASE mut.kind = "delete"
    BY <1>1, <1>t, <2>1 DEF WriteFirst, Destined, Mutations
  <2>2. CASE mut.kind # "delete"
    <3>1. Write(mut.to, mut.ticket, rev + 1) /\ rev + 1 \in Versions
      BY <1>1, <2>2, IndexAssumption DEF WriteFirst, Write, TypeOK, Versions, Revs
    <3>2. files'[mut.to][mut.ticket] \in Versions
      BY <1>t, <3>1, WriteTyped
    <3> QED BY <1>1, <1>t, <3>2 DEF WriteFirst, Destined, Mutations
  <2> QED BY <2>1, <2>2
<1>2. CASE WriteSecond
  <2>1. files'[mut.to][mut.ticket] = files[mut.to][mut.ticket]
    BY <1>2, <1>t, WriteTyped DEF WriteSecond, Destined
  <2> QED BY <1>2, <1>t, <2>1 DEF WriteSecond, Destined, Mutations
<1>3. CASE Begin
  BY <1>3 DEF Begin, Destined
<1>4. CASE KeeperLocks \/ KeeperEnsures \/ KeeperUnlocks \/ CrashMutation \/ Finish
           \/ FinishTimesOut \/ UndoMove
  BY <1>4, OffStage DEF Destined
<1>5. CASE Rebuild \/ CrashBuild
  BY <1>5, RebuildsKeep DEF Destined
<1>6. CASE Lookup \/ CacheSignature \/ KeeperLooks
  BY <1>6, ReadersKeep DEF Destined
<1> QED
  BY <1>1, <1>2, <1>3, <1>4, <1>5, <1>6 DEF Next, Step, Mutate, Maintain

LEMMA StepBounds ==
  ASSUME TypeOK, TypeOK', Bounds, [Next]_vars
  PROVE  Bounds'
<1> USE DEF sourceVars, indexVars, apiVars
<1>0. CASE UNCHANGED vars
  BY <1>0 DEF vars, Bounds
<1>t. rev \in Nat /\ rev' \in Nat /\ probe \in Nat /\ settled \in Nat /\ build.before \in Nat
      /\ (sig # Absent => sig \in Nat)
  BY DEF TypeOK, Revs, Builds
<1>n. NoBuild.before = 0
  BY DEF NoBuild
<1>1. CASE WritingActions /\ Next
  <2>1. PICK s \in Sprints, v \in Versions \cup {Absent} : Write(s, mut.ticket, v)
    BY <1>1, WritingWrites DEF Written
  <2>2. rev' = rev + 1 /\ probe' \in {probe, rev + 1} /\ sig' = sig /\ build' = build
    BY <1>1, <2>1, WritingWrites DEF Write, Written
  <2>3. settled' \in {settled, rev + 1}
    BY <1>1 DEF WritingActions, WriteFirst, WriteSecond, UndoMove, Unlock
  <2> QED BY <1>t, <2>2, <2>3 DEF Bounds
<1>2. CASE Begin \/ Finish \/ FinishTimesOut
  <2>1. rev' = rev /\ probe' = probe /\ build' = build /\ sig' \in {sig, rev}
        /\ settled' \in {settled, rev}
    BY <1>2 DEF Begin, Finish, FinishTimesOut, Apply, Unlock
  <2> QED BY <1>t, <2>1 DEF Bounds
<1>3. CASE Rebuild \/ CrashBuild
  <2>1. rev' = rev /\ probe' = probe /\ settled' = settled
    BY <1>3, RebuildsKeep
  <2>2. build'.before \in {build.before, rev, 0}
    BY <1>3, <1>n DEF Rebuild, BuildStep, Ensure, TakeSignature, BeginTransaction, ReadSprint,
      Reset, Commit, Compare, CrashBuild, TypeOK, Builds, NoBuild
  <2>3. sig' \in {sig, Absent, build.before}
    BY <1>3 DEF Rebuild, BuildStep, Ensure, TakeSignature, BeginTransaction, ReadSprint,
      Reset, Commit, Compare, CrashBuild
  <2> QED BY <1>t, <2>1, <2>2, <2>3 DEF Bounds
<1>4. CASE Lookup \/ CacheSignature \/ KeeperLooks
  BY <1>4, ReadersKeep DEF Bounds
<1>5. CASE KeeperLocks \/ KeeperEnsures \/ KeeperUnlocks \/ CrashMutation
  <2>1. rev' = rev /\ probe' = probe /\ sig' = sig /\ settled' \in {settled, rev}
    BY <1>5 DEF KeeperLocks, KeeperEnsures, KeeperUnlocks, CrashMutation, Unlock
  <2>2. build'.before \in {build.before, 0}
    BY <1>5, <1>n DEF KeeperLocks, KeeperEnsures, KeeperUnlocks, CrashMutation, NoBuild
  <2> QED BY <1>t, <2>1, <2>2 DEF Bounds
<1> QED
  BY <1>0, <1>1, <1>2, <1>3, <1>4, <1>5 DEF Next, Step, Mutate, Maintain, WritingActions

-----------------------------------------------------------------------------
(* The cached signature.                                                   *)

LEMMA StepCache ==
  ASSUME TypeOK, TypeOK', Bounds, CacheFresh, [Next]_vars
  PROVE  CacheFresh'
<1> USE DEF sourceVars, indexVars, apiVars
<1>0. CASE UNCHANGED vars
  BY <1>0 DEF vars, CacheFresh
<1>1. CASE cache' = Absent
  BY <1>1 DEF CacheFresh
<1>2. CASE cache' = cache /\ settled' = settled
  BY <1>2 DEF CacheFresh
<1>3. CASE CacheSignature
  <2>1. cache' = [sig |-> rev, probe |-> probe] /\ settled' = settled
    BY <1>3 DEF CacheSignature
  <2> QED BY <2>1 DEF CacheFresh, Bounds, TypeOK, Revs
<1>4. ASSUME NEW m, NEW r, Unlock(m, r)
      PROVE  cache' = Absent \/ (cache' = cache /\ settled' = settled)
  BY <1>4 DEF Unlock, Invalidate
<1>5. CASE UndoMove \/ Finish \/ FinishTimesOut \/ KeeperUnlocks
  BY <1>1, <1>2, <1>4, <1>5 DEF UndoMove, Finish, FinishTimesOut, KeeperUnlocks
<1>6. CASE Begin \/ WriteFirst \/ WriteSecond \/ KeeperLocks \/ KeeperEnsures \/ CrashMutation
  BY <1>1, <1>2, <1>6
  DEF Begin, WriteFirst, WriteSecond, KeeperLocks, KeeperEnsures, CrashMutation, Invalidate
<1>7. CASE Rebuild \/ CrashBuild
  BY <1>2, <1>7, RebuildsKeep
<1>8. CASE Lookup \/ KeeperLooks
  BY <1>2, <1>8 DEF Lookup, StartLookup, CheckCurrent, ReadRow, KeeperLooks
<1> QED
  BY <1>0, <1>3, <1>5, <1>6, <1>7, <1>8 DEF Next, Step, Mutate, Maintain

-----------------------------------------------------------------------------
(* The rows a rebuild has read, and the index a mutation found current.    *)

(* A ticket nobody wrote, in files, rows and rebuild nobody changed.       *)
LEMMA MatchesKept ==
  ASSUME NEW t, HomesOf(t)' = HomesOf(t),
         \A r \in Sprints : files'[r][t] = files[r][t]
  PROVE  /\ rows' = rows /\ RowMatches(t) => RowMatches(t)'
         /\ build' = build /\ PartMatches(t) => PartMatches(t)'
<1>1. HomesOf(t) \subseteq Sprints
  BY DEF HomesOf, HomesIn
<1>2. ASSUME rows' = rows, RowMatches(t) PROVE RowMatches(t)'
  BY <1>1, <1>2 DEF RowMatches
<1>3. ASSUME build' = build, PartMatches(t) PROVE PartMatches(t)'
  BY <1>1, <1>3 DEF PartMatches, ReadSprints
<1> QED BY <1>2, <1>3

LEMMA FilesKept ==
  ASSUME files' = files
  PROVE  \A t : /\ HomesOf(t)' = HomesOf(t)
                /\ \A r \in Sprints : files'[r][t] = files[r][t]
                /\ rows' = rows => RowMatches(t)' = RowMatches(t)
                /\ build' = build => PartMatches(t)' = PartMatches(t)
BY DEF HomesOf, HomesIn, RowMatches, PartMatches, ReadSprints

(* The actions that leave the files, the index and the rebuild alone.      *)
Bystanders ==
  \/ Begin \/ FinishTimesOut \/ KeeperLocks \/ KeeperUnlocks
  \/ Lookup \/ CacheSignature \/ KeeperLooks

LEMMA BystandersKeep ==
  ASSUME Bystanders
  PROVE  UNCHANGED <<files, rev, sig, rows, build>>
BY ReadersKeep DEF Bystanders, Begin, FinishTimesOut, KeeperLocks, KeeperUnlocks,
  sourceVars, indexVars

LEMMA NotReading ==
  ASSUME TypeOK,
         Ensure \/ TakeSignature \/ Reset \/ Commit \/ Compare \/ KeeperEnsures \/ CrashBuild
  PROVE  build'.pc # "read"
<1>1. NoBuild.pc = "idle" /\ NoBuild \in Builds /\ build \in Builds
  BY NoneTyped DEF NoBuild, TypeOK
<1>2. CASE Ensure \/ KeeperEnsures
  BY <1>1, <1>2 DEF Ensure, KeeperEnsures, Builds
<1>3. CASE TakeSignature
  BY <1>1, <1>3 DEF TakeSignature, Builds
<1>4. CASE Reset \/ Commit
  BY <1>1, <1>4 DEF Reset, Commit, Builds
<1>5. CASE Compare
  <2>1. build' = NoBuild \/ build'.pc = "stamp"
    BY <1>1, <1>5 DEF Compare, Builds
  <2> QED BY <1>1, <2>1
<1>6. CASE CrashBuild
  BY <1>1, <1>6 DEF CrashBuild
<1> QED BY <1>2, <1>3, <1>4, <1>5, <1>6

LEMMA StepReadSoFar ==
  ASSUME TypeOK, Bounds, ReadSoFar, Next
  PROVE  ReadSoFar'
<1> USE DEF sourceVars, indexVars
<1>t. rev \in Nat /\ build.before \in Nat /\ (sig # Absent => sig \in Nat) /\ Absent \notin Revs
  BY AbsentApart DEF TypeOK, Revs, Builds
<1>1. CASE WritingActions
  <2>1. PICK s \in Sprints, v \in Versions \cup {Absent} : Write(s, mut.ticket, v)
    BY <1>1, WritingWrites DEF Written
  <2>2. rev' = rev + 1 /\ sig' = sig /\ build' = build
    BY <1>1, <2>1, WritingWrites DEF Write, Written
  <2>3. rev' \in Revs
    BY <2>1, IndexAssumption DEF Write, TypeOK, Revs
  <2> QED BY <1>t, <2>2, <2>3 DEF Bounds, ReadSoFar
<1>2. CASE Bystanders
  BY <1>2, BystandersKeep, FilesKept DEF ReadSoFar, Transaction
<1>3. CASE Finish
  <2>1. CASE mut.wasCurrent /\ Applies(mut.kind)
    BY <1>3, <2>1 DEF Finish, ReadSoFar, Transaction
  <2>2. CASE ~(mut.wasCurrent /\ Applies(mut.kind))
    BY <1>3, <2>2, FilesKept DEF Finish, ReadSoFar, Transaction
  <2> QED BY <2>1, <2>2
<1>4. CASE BeginTransaction
  BY <1>4, PartEmpty DEF ReadSoFar
<1>5. CASE ReadSprint
  <2>1. SUFFICES ASSUME Transaction', build'.before = rev' \/ sig' = rev', NEW t \in Tickets
                 PROVE  PartMatches(t)'
    BY DEF ReadSoFar
  <2>2. build'.before = build.before
    BY <1>5, <2>1 DEF ReadSprint, Transaction, NoBuild, TypeOK, Builds
  <2>3. rev' = rev /\ sig' = sig /\ Transaction
    BY <1>5 DEF ReadSprint
  <2>4. PartMatches(t)
    BY <2>1, <2>2, <2>3 DEF ReadSoFar
  <2> QED BY <1>5, <2>1, <2>4, PartStep
<1>6. CASE Ensure \/ TakeSignature \/ Reset \/ Commit \/ Compare \/ KeeperEnsures
  <2>1. build'.pc # "read"
    BY <1>6, NotReading
  <2> QED BY <2>1 DEF ReadSoFar, Transaction
<1>7. CASE CrashMutation \/ CrashBuild
  <2>1. UNCHANGED <<files, rev, sig, rows>> /\ build' \in {NoBuild, build}
    BY <1>7 DEF CrashMutation, CrashBuild
  <2>2. NoBuild.pc # "read"
    BY DEF NoBuild
  <2> QED BY <2>1, <2>2, FilesKept DEF ReadSoFar, Transaction
<1> QED
  BY <1>1, <1>2, <1>3, <1>4, <1>5, <1>6, <1>7
  DEF Next, Step, Mutate, Rebuild, BuildStep, Maintain, WritingActions, Bystanders

LEMMA StepOthers ==
  ASSUME TypeOK, FaithfulUnlessWiped, ReadSoFar, Others, Next
  PROVE  Others'
<1> USE DEF sourceVars, indexVars
<1> SUFFICES ASSUME Applying', NEW t \in Tickets, t # mut'.ticket
             PROVE  RowMatches(t)' /\ (Transaction' => PartMatches(t)')
  BY DEF Others
<1>w. ~wiped' /\ ~wiped
  BY WipedStays DEF Applying
<1>s. mut'.pc \in {"first", "second", "finish"} /\ mut'.wasCurrent
  BY DEF Applying
<1>m. mut \in Mutations
  BY DEF TypeOK
<1>1. CASE Begin
  <2>1. UNCHANGED <<files, rev, sig, rows, build>>
    BY <1>1, BystandersKeep DEF Bystanders
  <2>2. sig = rev
    <3>1. PICK k \in Kinds, t0 \in Tickets, r \in Sprints, s \in Sprints, local \in BOOLEAN :
            mut' = [pc |-> "first", kind |-> k, ticket |-> t0, from |-> r,
                    to |-> s, wasCurrent |-> IsCurrent(rev), local |-> local]
      BY <1>1 DEF Begin
    <3>2. mut'.wasCurrent = IsCurrent(rev)
      BY <3>1
    <3> QED BY <1>s, <3>2 DEF IsCurrent
  <2>3. RowMatches(t) /\ (Transaction => PartMatches(t))
    BY <1>w, <2>2 DEF FaithfulUnlessWiped, IndexFaithful, IsCurrent, ReadSoFar
  <2> QED BY <2>1, <2>3, FilesKept DEF Transaction
<1>2. CASE KeeperLocks \/ KeeperEnsures \/ KeeperUnlocks \/ CrashMutation \/ Finish
           \/ FinishTimesOut \/ UndoMove
  BY <1>2, <1>s, OffStage
<1>3. CASE WriteFirst \/ WriteSecond
  <2>1. PICK s \in Sprints, v \in Versions \cup {Absent} : Write(s, mut.ticket, v)
    BY <1>3, WritingWrites DEF Written, WritingActions
  <2>2. UNCHANGED <<rows, build>>
    BY <1>3, WritingWrites DEF Written, WritingActions
  <2>3. mut.ticket \in Tickets /\ mut'.ticket = mut.ticket /\ Applying
    BY <1>3, <1>m, <1>s, <1>w DEF WriteFirst, WriteSecond, Mutations, Applying
  <2>4. RowMatches(t) /\ (Transaction => PartMatches(t))
    BY <2>3 DEF Others
  <2>5. HomesOf(t)' = HomesOf(t) /\ \A r \in Sprints : files'[r][t] = files[r][t]
    BY <2>1, <2>3, WriteTyped, WriteHomes
  <2> QED BY <2>2, <2>4, <2>5, MatchesKept DEF Transaction
<1>4. ASSUME Rebuild \/ CrashBuild \/ Lookup \/ CacheSignature \/ KeeperLooks
      PROVE  /\ mut' = mut /\ Applying /\ files' = files
             /\ RowMatches(t) /\ (Transaction => PartMatches(t))
  <2>1. mut' = mut /\ files' = files
    BY <1>4, RebuildsKeep, ReadersKeep
  <2>2. Applying
    BY <1>w, <2>1 DEF Applying
  <2> QED BY <2>1, <2>2 DEF Others
<1>5. CASE Lookup \/ CacheSignature \/ KeeperLooks
  <2>1. UNCHANGED <<files, rows, build>>
    BY <1>5, ReadersKeep
  <2> QED BY <1>4, <1>5, <2>1, FilesKept DEF Transaction
<1>6. CASE BeginTransaction
  BY <1>4, <1>6, PartEmpty, FilesKept DEF BeginTransaction, Rebuild, BuildStep
<1>7. CASE ReadSprint
  <2>1. RowMatches(t)'
    BY <1>4, <1>7, FilesKept DEF ReadSprint, Rebuild, BuildStep
  <2>2. PartMatches(t)
    BY <1>4, <1>7 DEF ReadSprint, Rebuild, BuildStep
  <2> QED BY <1>7, <2>1, <2>2, PartStep
<1>8. CASE Commit
  <2>1. PartMatches(t)
    BY <1>4, <1>8 DEF Commit, Rebuild, BuildStep
  <2>2. ~Transaction'
    BY <1>8 DEF Commit, Transaction, TypeOK, Builds
  <2> QED BY <1>8, <2>1, <2>2, CommitMatches
<1>9. CASE Reset
  <2>1. mut' = mut /\ build.pc = "reset" /\ build'.pc = "begin"
    BY <1>9 DEF Reset, TypeOK, Builds
  <2>2. Wipes
    BY <1>s, <2>1 DEF Wipes
  <2> QED BY <1>w, <2>2 DEF Next
<1>10. CASE Ensure \/ TakeSignature \/ Compare \/ CrashBuild
  <2>1. build'.pc # "read" /\ rows' = rows
    BY <1>10, NotReading DEF Ensure, TakeSignature, Compare, CrashBuild
  <2>2. RowMatches(t)'
    BY <1>4, <1>10, <2>1, FilesKept DEF Rebuild, BuildStep
  <2> QED BY <2>1, <2>2 DEF Transaction
<1> QED
  BY <1>1, <1>2, <1>3, <1>5, <1>6, <1>7, <1>8, <1>9, <1>10
  DEF Next, Step, Mutate, Rebuild, BuildStep, Maintain

LEMMA StepOwn ==
  ASSUME TypeOK, FaithfulUnlessWiped, Destined, Own, Next
  PROVE  Own'
<1> USE DEF sourceVars, indexVars
<1> SUFFICES ASSUME Applying' PROVE Own'
  BY DEF Own
<1>w. ~wiped' /\ ~wiped
  BY WipedStays DEF Applying
<1>s. mut'.pc \in {"first", "second", "finish"} /\ mut'.wasCurrent
  BY DEF Applying
<1>m. /\ mut \in Mutations /\ mut.ticket \in Tickets
      /\ mut.from \in Sprints /\ mut.to \in Sprints
  BY DEF TypeOK, Mutations
<1>1. CASE Begin
  <2>1. PICK k \in Kinds, t \in Tickets, r \in Sprints, s \in Sprints, local \in BOOLEAN :
          /\ mut' = [pc |-> "first", kind |-> k, ticket |-> t, from |-> r,
                     to |-> s, wasCurrent |-> IsCurrent(rev), local |-> local]
          /\ k \in {"put", "save"} => HomesOf(t) \subseteq {s} /\ r = s
          /\ k = "delete" => r \in HomesOf(t) /\ r = s
          /\ k = "move" => r \in HomesOf(t) /\ s \notin HomesOf(t)
    BY <1>1 DEF Begin
  <2>2. RowMatches(t)
    BY <1>s, <1>w, <2>1 DEF FaithfulUnlessWiped, IndexFaithful
  <2>3. r \in HomesOf(t) => HomesOf(t) = {r}
    BY <2>2 DEF RowMatches
  <2>4. HomesOf(t)' = HomesOf(t)
    BY <1>1, BystandersKeep, FilesKept DEF Bystanders
  <2>5. mut'.pc = "first" /\ mut'.kind = k /\ mut'.ticket = t /\ mut'.from = r /\ mut'.to = s
    BY <2>1
  <2> QED BY <2>1, <2>3, <2>4, <2>5 DEF Own
<1>2. CASE KeeperLocks \/ KeeperEnsures \/ KeeperUnlocks \/ CrashMutation \/ Finish
           \/ FinishTimesOut \/ UndoMove
  BY <1>2, <1>s, OffStage
<1>3. CASE WriteFirst
  <2>1. Applying /\ UNCHANGED <<mut.ticket, mut.kind, mut.from, mut.to>>
    BY <1>3, <1>m, <1>s, <1>w DEF WriteFirst, Mutations, Applying
  <2>2. Own /\ mut.pc = "first" /\ mut.kind \in {"put", "delete", "move"}
    BY <1>3, <2>1 DEF WriteFirst, Applying, Applies
  <2>3. CASE mut.kind = "delete"
    <3>1. Write(mut.from, mut.ticket, Absent) /\ mut'.pc = "finish"
      BY <1>3, <1>m, <2>3 DEF WriteFirst, Mutations
    <3>3. HomesIn(files', mut.ticket) = HomesOf(mut.ticket) \ {mut.from}
      BY <1>m, <3>1, WriteHomes DEF HomesOf
    <3>2. HomesOf(mut.ticket)' = HomesOf(mut.ticket) \ {mut.from}
      BY <2>1, <3>3 DEF HomesOf
    <3> QED BY <2>1, <2>2, <2>3, <3>1, <3>2 DEF Own
  <2>4. CASE mut.kind \in {"put", "move"}
    <3>1. /\ Write(mut.to, mut.ticket, rev + 1) /\ rev + 1 \in Versions
          /\ mut'.pc = IF mut.kind = "move" THEN "second" ELSE "finish"
      BY <1>3, <1>m, <2>4, IndexAssumption
      DEF WriteFirst, Mutations, Write, TypeOK, Revs, Versions
    <3>3. HomesIn(files', mut.ticket) = HomesOf(mut.ticket) \cup {mut.to}
      BY <1>m, <3>1, WriteHomes, AbsentApart DEF HomesOf
    <3>2. HomesOf(mut.ticket)' = HomesOf(mut.ticket) \cup {mut.to}
      BY <2>1, <3>3 DEF HomesOf
    <3> QED BY <2>1, <2>2, <2>4, <3>1, <3>2 DEF Own
  <2> QED BY <2>2, <2>3, <2>4
<1>4. CASE WriteSecond
  <2>1. Applying /\ UNCHANGED <<mut.ticket, mut.kind, mut.from, mut.to>>
    BY <1>4, <1>m, <1>s, <1>w DEF WriteSecond, Mutations, Applying
  <2>2. Own /\ mut.pc = "second" /\ mut.kind = "move" /\ mut'.pc = "finish"
        /\ mut.from # mut.to
    BY <1>4, <1>m, <2>1 DEF WriteSecond, Applying, Applies, Destined, Mutations
  <2>3. HomesOf(mut.ticket)' = HomesOf(mut.ticket) \ {mut.from}
    BY <1>4, <1>m, WriteHomes DEF WriteSecond
  <2>4. HomesOf(mut.ticket) = {mut.from, mut.to}
    BY <2>1, <2>2 DEF Own
  <2>5. HomesOf(mut.ticket)' = {mut.to}
    BY <2>2, <2>3, <2>4
  <2> QED BY <2>1, <2>2, <2>5 DEF Own
<1>5. CASE Rebuild \/ CrashBuild \/ Lookup \/ CacheSignature \/ KeeperLooks
  <2>1. mut' = mut /\ files' = files
    BY <1>5, RebuildsKeep, ReadersKeep
  <2>2. Applying
    BY <1>w, <2>1 DEF Applying
  <2> QED BY <2>1, <2>2, FilesKept DEF Own
<1> QED
  BY <1>1, <1>2, <1>3, <1>4, <1>5 DEF Next, Step, Mutate, Maintain

-----------------------------------------------------------------------------
(* What a current index is.                                                *)

LEMMA StepFaithful ==
  ASSUME TypeOK, TypeOK', Bounds, FaithfulUnlessWiped, ReadSoFar, Others, Own, Destined, Next
  PROVE  FaithfulUnlessWiped'
<1> USE DEF sourceVars, indexVars
<1>t. rev \in Nat /\ build.before \in Nat /\ (sig # Absent => sig \in Nat) /\ Absent \notin Revs
  BY AbsentApart DEF TypeOK, Revs, Builds
<1> SUFFICES ASSUME ~wiped', sig' = rev', NEW t \in Tickets
             PROVE  RowMatches(t)'
  BY DEF FaithfulUnlessWiped, IndexFaithful, IsCurrent
<1>w. ~wiped
  BY WipedStays
<1>k. ASSUME UNCHANGED <<files, rev, sig, rows>> PROVE RowMatches(t)'
  <2>1. RowMatches(t)
    BY <1>k, <1>w DEF FaithfulUnlessWiped, IndexFaithful, IsCurrent
  <2> QED BY <1>k, <2>1, FilesKept
<1>1. CASE WritingActions
  <2>1. PICK s \in Sprints, v \in Versions \cup {Absent} : Write(s, mut.ticket, v)
    BY <1>1, WritingWrites DEF Written
  <2>2. rev' = rev + 1 /\ sig' = sig
    BY <1>1, <2>1, WritingWrites DEF Write, Written
  <2>3. rev' \in Revs
    BY <2>1, IndexAssumption DEF Write, TypeOK, Revs
  <2> QED BY <1>t, <2>2, <2>3 DEF Bounds
<1>2. CASE Bystanders
  BY <1>2, <1>k, BystandersKeep
<1>3. CASE Finish
  <2>1. CASE ~(mut.wasCurrent /\ Applies(mut.kind))
    BY <1>3, <1>k, <2>1 DEF Finish
  <2>2. CASE mut.wasCurrent /\ Applies(mut.kind)
    <3>1. /\ files' = files /\ mut.pc = "finish"
          /\ rows' = [rows EXCEPT ![mut.ticket] = RowAfter(mut)]
      BY <1>3, <2>2 DEF Finish, Apply
    <3>2. Applying
      BY <1>w, <2>2, <3>1 DEF Applying
    <3>3. HomesOf(t)' = HomesOf(t)
      BY <3>1, FilesKept
    <3>4. CASE t # mut.ticket
      <4>1. RowMatches(t) /\ rows'[t] = rows[t]
        BY <3>1, <3>2, <3>4 DEF Others, TypeOK
      <4> QED BY <3>1, <3>3, <4>1 DEF RowMatches
    <3>5. CASE t = mut.ticket
      <4>1. rows'[t] = RowAfter(mut)
        BY <3>1, <3>5 DEF TypeOK
      <4>2. CASE mut.kind = "delete"
        <5>1. rows'[t] = Absent /\ HomesOf(t) = {}
          BY <3>1, <3>2, <3>5, <4>1, <4>2 DEF Own, RowAfter
        <5> QED BY <3>3, <5>1 DEF RowMatches
      <4>3. CASE mut.kind \in {"put", "move"}
        <5>1. rows'[t] = [sprint |-> mut.to, ver |-> files[mut.to][t]] /\ HomesOf(t) = {mut.to}
          BY <3>1, <3>2, <3>5, <4>1, <4>3 DEF Own, RowAfter
        <5>2. rows'[t] \in Homes
          BY <3>1, <3>5, <4>1, <4>3, <5>1 DEF Destined, Homes, TypeOK, Mutations
        <5>3. rows'[t] # Absent
          BY <5>2, AbsentApart
        <5>4. rows'[t].sprint = mut.to /\ rows'[t].ver = files[mut.to][t]
          BY <5>1
        <5> QED BY <3>1, <3>3, <5>1, <5>3, <5>4 DEF RowMatches
      <4> QED BY <2>2, <4>2, <4>3 DEF Applies
    <3> QED BY <3>4, <3>5
  <2> QED BY <2>1, <2>2
<1>4. CASE Commit
  <2>1. Transaction /\ sig' = build.before /\ rev' = rev
    BY <1>4 DEF Commit
  <2>2. PartMatches(t)
    BY <2>1 DEF ReadSoFar
  <2> QED BY <1>4, <2>2, CommitMatches
<1>5. CASE Reset
  BY <1>5, <1>t DEF Reset, TypeOK
<1>6. CASE Ensure \/ TakeSignature \/ BeginTransaction \/ ReadSprint \/ Compare
           \/ KeeperEnsures \/ CrashMutation \/ CrashBuild
  BY <1>6, <1>k DEF Ensure, TakeSignature, BeginTransaction, ReadSprint, Compare,
    KeeperEnsures, CrashMutation, CrashBuild
<1> QED
  BY <1>1, <1>2, <1>3, <1>4, <1>5, <1>6
  DEF Next, Step, Mutate, Rebuild, BuildStep, Maintain, WritingActions, Bystanders

-----------------------------------------------------------------------------
(* Lookups.                                                                *)

(* The actions that leave the lookup alone.                                *)
LEMMA LookKept ==
  ASSUME \/ Begin \/ Finish \/ FinishTimesOut \/ Ensure \/ TakeSignature \/ BeginTransaction
         \/ ReadSprint \/ Compare \/ CacheSignature \/ Maintain \/ CrashMutation \/ CrashBuild
  PROVE  look' = look /\ files' = files
BY DEF Begin, Finish, FinishTimesOut, Ensure, TakeSignature, BeginTransaction, ReadSprint,
  Compare, CacheSignature, Maintain, KeeperLooks, KeeperLocks, KeeperEnsures, KeeperUnlocks,
  CrashMutation, CrashBuild, sourceVars

LEMMA LookWritten ==
  ASSUME TypeOK, NEW s \in Sprints, NEW t \in Tickets,
         NEW v \in Versions \cup {Absent}, Write(s, t, v)
  PROVE  /\ look'.pc = look.pc /\ look'.ticket = look.ticket /\ look'.sig = look.sig
         /\ look'.reset = look.reset /\ look'.torn = look.torn
         /\ look.window \subseteq look'.window
BY DEF TypeOK, Lookups, Write

LEMMA StepWindow ==
  ASSUME TypeOK, WindowOpen, Next
  PROVE  WindowOpen'
<1>l. look \in Lookups /\ look.ticket \in Tickets
  BY DEF TypeOK, Lookups
<1>1. CASE WritingActions
  <2>1. PICK s \in Sprints, v \in Versions \cup {Absent} : Write(s, mut.ticket, v)
    BY <1>1, WritingWrites DEF Written
  <2>2. mut.ticket \in Tickets
    BY DEF TypeOK, Mutations
  <2>3. look'.pc = look.pc /\ look'.ticket = look.ticket /\ look.window \subseteq look'.window
    BY <2>1, <2>2, LookWritten
  <2>4. CASE look.ticket = mut.ticket /\ look.pc # "idle"
    <3>1. look' = [look EXCEPT !.window = @ \cup ValuesIn(files', mut.ticket)]
      BY <2>1, <2>4 DEF Write
    <3>2. ValuesIn(files', look.ticket) \subseteq look'.window
      BY <1>l, <2>4, <3>1 DEF Lookups
    <3> QED BY <2>3, <3>2 DEF WindowOpen
  <2>5. CASE look.ticket # mut.ticket
    <3>1. \A r \in Sprints : files'[r][look.ticket] = files[r][look.ticket]
      BY <1>l, <2>1, <2>2, <2>5, WriteTyped
    <3>2. HomesIn(files', look.ticket) = HomesIn(files, look.ticket)
      BY <3>1 DEF HomesIn
    <3>3. HomesIn(files, look.ticket) \subseteq Sprints
      BY DEF HomesIn
    <3>4. ValuesIn(files', look.ticket) = ValuesIn(files, look.ticket)
      BY <3>1, <3>2, <3>3 DEF ValuesIn
    <3> QED BY <2>3, <3>4 DEF WindowOpen
  <2> QED BY <2>3, <2>4, <2>5 DEF WindowOpen
<1>2. CASE StartLookup
  BY <1>2 DEF StartLookup, WindowOpen, sourceVars
<1>3. CASE CheckCurrent \/ ReadRow
  <2>1. NoLookup.pc = "idle" /\ files' = files
    BY <1>3 DEF NoLookup, CheckCurrent, ReadRow, sourceVars
  <2>2. look' = NoLookup \/ (look.pc # "idle" /\ look'.ticket = look.ticket
                             /\ look'.window = look.window)
    BY <1>3, <1>l DEF CheckCurrent, ReadRow, Lookups
  <2> QED BY <2>1, <2>2 DEF WindowOpen
<1>4. CASE Reset \/ Commit
  BY <1>4, <1>l DEF Reset, Commit, WindowOpen, Lookups, sourceVars
<1>5. ASSUME look' = look /\ files' = files PROVE WindowOpen'
  BY <1>5 DEF WindowOpen
<1> QED
  BY <1>1, <1>2, <1>3, <1>4, <1>5, LookKept
  DEF Next, Step, Mutate, Rebuild, BuildStep, Lookup, WritingActions

LEMMA StepRows ==
  ASSUME TypeOK, TypeOK', FaithfulUnlessWiped, FaithfulUnlessWiped', ReadSoFar, Others, Own,
         Destined, WindowOpen, WindowOpen', RowsInWindow, BuildInWindow, Next
  PROVE  RowsInWindow'
<1> USE DEF sourceVars, indexVars
<1>l. look \in Lookups /\ look.ticket \in Tickets /\ look' \in Lookups /\ look'.ticket \in Tickets
  BY DEF TypeOK, Lookups
(* Whatever the step, a row that agrees with the files may be answered.    *)
<1>m. ASSUME NEW t \in Tickets, t = look'.ticket, look'.pc # "idle", RowMatches(t)'
      PROVE  Answer' \in look'.window
  <2>1. ValuesIn(files', t) \subseteq look'.window
    BY <1>m DEF WindowOpen
  <2>2. /\ HomesIn(files', t) = {} => ValuesIn(files', t) = {Absent}
        /\ \A s \in HomesIn(files', t) : files'[s][t] \in ValuesIn(files', t)
    BY ValuesHeld
  <2> QED BY <1>m, <2>1, <2>2 DEF RowMatches, Answer, HomesOf
<1>k. ASSUME UNCHANGED <<rows, sig>>, look'.pc = look.pc, look'.ticket = look.ticket,
             look'.sig = look.sig, look'.reset = look.reset, look'.torn = look.torn,
             look.window \subseteq look'.window
      PROVE  RowsInWindow'
  BY <1>k, WipedStays DEF RowsInWindow, Answer, Excused
<1>1. CASE WritingActions
  <2>1. PICK s \in Sprints, v \in Versions \cup {Absent} : Write(s, mut.ticket, v)
    BY <1>1, WritingWrites DEF Written
  <2>2. mut.ticket \in Tickets /\ UNCHANGED <<rows, sig>>
    BY <1>1, WritingWrites DEF Written, TypeOK, Mutations
  <2> QED BY <1>k, <2>1, <2>2, LookWritten
<1>2. CASE StartLookup
  <2>1. look'.pc = "checked" /\ look'.sig = rev /\ UNCHANGED <<files, rev, rows, sig>>
    BY <1>2 DEF StartLookup
  <2>t. PICK t \in Tickets : t = look'.ticket
    BY <1>l
  <2>2. sig' = look'.sig /\ ~wiped' => RowMatches(t)'
    BY <2>1 DEF FaithfulUnlessWiped, IndexFaithful, IsCurrent
  <2> QED BY <1>m, <2>t, <2>1, <2>2 DEF RowsInWindow, Excused
<1>3. CASE CheckCurrent \/ ReadRow
  <2>1. NoLookup.pc = "idle" /\ UNCHANGED <<rows, sig>>
    BY <1>3 DEF NoLookup, CheckCurrent, ReadRow
  <2>2. CASE look' = NoLookup
    BY <2>1, <2>2 DEF RowsInWindow
  <2>3. CASE look' # NoLookup
    <3>1. /\ look.pc = "checked" /\ sig = look.sig
          /\ look' = [look EXCEPT !.pc = "row"]
      BY <1>3, <2>3 DEF CheckCurrent, ReadRow, IsCurrent
    <3>2. /\ look'.ticket = look.ticket /\ look'.reset = look.reset
          /\ look'.torn = look.torn /\ look'.window = look.window
      BY <1>l, <3>1 DEF Lookups
    <3> QED BY <2>1, <3>1, <3>2, WipedStays DEF RowsInWindow, Answer, Excused
  <2> QED BY <2>2, <2>3
<1>4. CASE Finish
  <2>1. look' = look /\ files' = files
    BY <1>4, LookKept
  <2>2. CASE ~(mut.wasCurrent /\ Applies(mut.kind))
    BY <1>4, <1>k, <2>1, <2>2 DEF Finish
  <2>3. CASE mut.wasCurrent /\ Applies(mut.kind)
    <3>1. /\ rows' = [rows EXCEPT ![mut.ticket] = RowAfter(mut)] /\ sig' = rev /\ rev' = rev
      BY <1>4, <2>3 DEF Finish, Apply
    <3>t. PICK t \in Tickets : t = look.ticket
      BY <1>l
    <3>2. ~wiped' => RowMatches(t)'
      BY <2>1, <3>1 DEF FaithfulUnlessWiped, IndexFaithful, IsCurrent
    <3> QED BY <1>m, <2>1, <3>t, <3>2 DEF RowsInWindow, Excused
  <2> QED BY <2>2, <2>3
<1>5. CASE Reset
  <2>1. look'.pc # "idle" => look'.reset
    BY <1>5, <1>l DEF Reset, Lookups
  <2> QED BY <2>1 DEF RowsInWindow, Excused
<1>6. CASE Commit
  <2>1. /\ Transaction /\ build.next = Len(Order) + 1
        /\ rows' = build.rows /\ sig' = build.before
        /\ UNCHANGED <<files, rev>>
    BY <1>6 DEF Commit
  <2>2. /\ look'.pc = look.pc /\ look'.ticket = look.ticket /\ look'.sig = look.sig
        /\ look'.window = look.window
        /\ look'.torn = (look.torn \/ (look.pc # "idle" /\ build.before # rev))
    BY <1>6, <1>l DEF Commit, Lookups
  <2> SUFFICES ASSUME look.pc = "row" \/ (look.pc = "checked" /\ build.before = look.sig)
               PROVE  Answer' \in look'.window \/ (Answer' = Absent /\ look'.torn)
    BY <2>1, <2>2 DEF RowsInWindow
  <2>3. build.rows[look.ticket] = Absent \/ build.rows[look.ticket].ver \in look.window
    BY <2>1 DEF BuildInWindow
  <2>4. CASE build.rows[look.ticket] # Absent
    BY <2>1, <2>2, <2>3, <2>4 DEF Answer
  <2>5. CASE build.rows[look.ticket] = Absent /\ build.before # rev
    <3>1. Answer' = Absent
      BY <2>1, <2>2, <2>5 DEF Answer
    <3>2. look'.torn
      BY <2>2, <2>5
    <3> QED BY <3>1, <3>2
  <2>6. CASE build.rows[look.ticket] = Absent /\ build.before = rev
    <3>t. PICK t \in Tickets : t = look.ticket
      BY <1>l
    <3>1. PartMatches(t)
      BY <2>1, <2>6 DEF ReadSoFar
    <3>2. RowMatches(t)'
      BY <1>6, <3>1, CommitMatches
    <3> QED BY <1>m, <2>2, <3>t, <3>2
  <2> QED BY <2>4, <2>5, <2>6
<1>7. CASE Begin \/ FinishTimesOut \/ Ensure \/ TakeSignature \/ BeginTransaction
           \/ ReadSprint \/ Compare \/ CacheSignature \/ Maintain \/ CrashMutation \/ CrashBuild
  <2>1. look' = look
    BY <1>7, LookKept
  <2>2. UNCHANGED <<rows, sig>>
    BY <1>7 DEF Begin, FinishTimesOut, Ensure, TakeSignature, BeginTransaction, ReadSprint,
      Compare, CacheSignature, Maintain, KeeperLooks, KeeperLocks, KeeperEnsures,
      KeeperUnlocks, CrashMutation, CrashBuild
  <2> QED BY <1>k, <2>1, <2>2
<1> QED
  BY <1>1, <1>2, <1>3, <1>4, <1>5, <1>6, <1>7
  DEF Next, Step, Mutate, Rebuild, BuildStep, Lookup, WritingActions

LEMMA StepBuild ==
  ASSUME TypeOK, ReadSoFar, WindowOpen, BuildInWindow, Next
  PROVE  BuildInWindow'
<1> USE DEF sourceVars, indexVars
<1>l. look \in Lookups /\ look.ticket \in Tickets
  BY DEF TypeOK, Lookups
<1>k. ASSUME UNCHANGED <<build, sig>>, look'.pc = look.pc, look'.ticket = look.ticket,
             look'.sig = look.sig, look.window \subseteq look'.window
      PROVE  BuildInWindow'
  BY <1>k DEF BuildInWindow, Transaction
<1>n. ASSUME ~Transaction' PROVE BuildInWindow'
  BY <1>n DEF BuildInWindow
<1>1. CASE WritingActions
  <2>1. PICK s \in Sprints, v \in Versions \cup {Absent} : Write(s, mut.ticket, v)
    BY <1>1, WritingWrites DEF Written
  <2>2. mut.ticket \in Tickets /\ UNCHANGED <<build, sig>>
    BY <1>1, WritingWrites DEF Written, TypeOK, Mutations
  <2> QED BY <1>k, <2>1, <2>2, LookWritten
<1>2. CASE StartLookup
  <2>1. PICK t \in Tickets :
          look' = [pc |-> "checked", ticket |-> t, sig |-> rev, reset |-> FALSE,
                   torn |-> FALSE, window |-> ValuesIn(files, t)]
    BY <1>2 DEF StartLookup
  <2>2. look'.pc = "checked" /\ look'.sig = rev /\ look'.ticket = t
        /\ look'.window = ValuesIn(files, t) /\ UNCHANGED <<build, sig>>
    BY <1>2, <2>1 DEF StartLookup
  <2> SUFFICES ASSUME Transaction, sig = rev \/ build.before = rev, build.rows[t] # Absent
               PROVE  build.rows[t].ver \in ValuesIn(files, t)
    BY <2>2 DEF BuildInWindow, Transaction
  <2>3. PartMatches(t)
    BY DEF ReadSoFar
  <2>4. build.rows[t].sprint \in HomesOf(t)
    BY <2>3 DEF PartMatches
  <2> QED BY <2>3, <2>4, ValuesHeld DEF PartMatches, HomesOf
<1>3. CASE CheckCurrent \/ ReadRow
  <2>1. NoLookup.pc = "idle" /\ UNCHANGED <<build, sig>>
    BY <1>3 DEF NoLookup, CheckCurrent, ReadRow
  <2>2. CASE look' = NoLookup
    BY <2>1, <2>2 DEF BuildInWindow
  <2>3. CASE look' # NoLookup
    <3>1. look.pc = "checked" /\ sig = look.sig /\ look' = [look EXCEPT !.pc = "row"]
      BY <1>3, <2>3 DEF CheckCurrent, ReadRow, IsCurrent
    <3>2. look'.ticket = look.ticket /\ look'.sig = look.sig /\ look'.window = look.window
      BY <1>l, <3>1 DEF Lookups
    <3> QED BY <2>1, <3>1, <3>2 DEF BuildInWindow, Transaction
  <2> QED BY <2>2, <2>3
<1>4. CASE Finish
  <2>1. look' = look /\ build' = build /\ (Transaction => sig' = sig)
    BY <1>4, LookKept DEF Finish
  <2> QED BY <1>k, <1>n, <2>1 DEF Transaction
<1>5. CASE BeginTransaction
  <2>1. look' = look /\ build'.rows = NoRows
    BY <1>5 DEF BeginTransaction, TypeOK, Builds
  <2>2. NoRows[look.ticket] = Absent
    BY <1>l DEF NoRows
  <2> QED BY <2>1, <2>2 DEF BuildInWindow
<1>6. CASE ReadSprint
  <2> DEFINE s == Order[build.next]
             held == {u \in Tickets : files[s][u] # Absent}
  <2> SUFFICES ASSUME Transaction' PROVE BuildInWindow'
    BY <1>n
  <2>i. build.next \in 1..Len(Order) /\ Transaction /\ look' = look /\ sig' = sig
    BY <1>6, IndexAssumption DEF ReadSprint, TypeOK, Builds
  <2>1. s \in Sprints
    BY <2>i DEF Sprints
  <2>2. build' = [build EXCEPT !.next = @ + 1,
                    !.rows = [u \in Tickets |->
                       IF u \in held THEN [sprint |-> s, ver |-> files[s][u]] ELSE @[u]]]
    BY <1>6 DEF ReadSprint, Transaction, NoBuild, TypeOK, Builds
  <2>3. /\ build'.before = build.before
        /\ build'.rows[look.ticket] = IF look.ticket \in held
                                      THEN [sprint |-> s, ver |-> files[s][look.ticket]]
                                      ELSE build.rows[look.ticket]
    BY <1>l, <2>2 DEF TypeOK, Builds
  <2>4. CASE look.ticket \in held /\ look.pc # "idle"
    <3>1. s \in HomesIn(files, look.ticket)
      BY <2>1, <2>4 DEF HomesIn
    <3>2. files[s][look.ticket] \in look.window
      BY <2>4, <3>1, ValuesHeld DEF WindowOpen
    <3>3. build'.rows[look.ticket].ver = files[s][look.ticket]
      BY <2>3, <2>4
    <3> QED BY <2>i, <3>2, <3>3 DEF BuildInWindow
  <2>5. CASE look.ticket \notin held \/ look.pc = "idle"
    <3> HIDE DEF held
    <3> QED BY <2>i, <2>3, <2>5 DEF BuildInWindow
  <2> QED BY <2>4, <2>5
<1>7. CASE Ensure \/ TakeSignature \/ Reset \/ Commit \/ Compare \/ KeeperEnsures \/ CrashBuild
  BY <1>7, <1>n, NotReading DEF Transaction
<1>8. CASE Begin \/ FinishTimesOut \/ CacheSignature \/ KeeperLooks \/ KeeperLocks
           \/ KeeperUnlocks
  <2>1. look' = look
    BY <1>8, LookKept DEF Maintain
  <2>2. UNCHANGED <<build, sig>>
    BY <1>8 DEF Begin, FinishTimesOut, CacheSignature, KeeperLooks, KeeperLocks, KeeperUnlocks
  <2> QED BY <1>k, <2>1, <2>2
<1>9. CASE CrashMutation
  <2>1. look' = look /\ sig' = sig /\ build' \in {NoBuild, build}
    BY <1>9 DEF CrashMutation
  <2>2. NoBuild.pc # "read"
    BY DEF NoBuild
  <2> QED BY <1>k, <1>n, <2>1, <2>2 DEF Transaction
<1> QED
  BY <1>1, <1>2, <1>3, <1>4, <1>5, <1>6, <1>7, <1>8, <1>9
  DEF Next, Step, Mutate, Rebuild, BuildStep, Lookup, Maintain, WritingActions

-----------------------------------------------------------------------------
(* The induction.                                                          *)

LEMMA InitIInv == Init => IInv
<1> SUFFICES ASSUME Init PROVE IInv
  OBVIOUS
<1>1. TypeOK
  BY InitTyped
<1>2. /\ mut.pc = "idle" /\ mut.wasCurrent = FALSE /\ build.pc = "idle" /\ build.before = 0
      /\ look.pc = "idle" /\ sig = Absent /\ rev = 1 /\ cache = Absent /\ probe = 1 /\ settled = 0
  BY DEF Init, NoMutation, NoBuild, NoLookup
<1>3. FaithfulUnlessWiped
  BY <1>2, AbsentApart DEF FaithfulUnlessWiped, IndexFaithful, IsCurrent
<1>4. Destined /\ Bounds /\ CacheFresh
  BY <1>2 DEF Destined, Bounds, CacheFresh
<1>5. ReadSoFar /\ BuildInWindow
  BY <1>2 DEF ReadSoFar, BuildInWindow, Transaction
<1>6. Others /\ Own /\ WindowOpen /\ RowsInWindow
  BY <1>2 DEF Others, Own, Applying, WindowOpen, RowsInWindow
<1> QED BY <1>1, <1>3, <1>4, <1>5, <1>6 DEF IInv

LEMMA StepIInv == IInv /\ [Next]_vars => IInv'
<1> SUFFICES ASSUME IInv, [Next]_vars PROVE IInv'
  OBVIOUS
<1>1. TypeOK' /\ Destined'
  BY StepTyped, StepDestined DEF IInv
<1>2. Bounds' /\ CacheFresh'
  BY <1>1, StepBounds, StepCache DEF IInv
<1>3. CASE UNCHANGED vars
  <2>1. UNCHANGED <<files, rev, sig, rows, mut, build, look, wiped>>
    BY <1>3 DEF vars, sourceVars, indexVars
  <2>2. /\ FaithfulUnlessWiped' = FaithfulUnlessWiped
        /\ ReadSoFar' = ReadSoFar
        /\ Others' = Others
    BY <2>1, FilesKept DEF FaithfulUnlessWiped, IndexFaithful, IsCurrent, ReadSoFar, Others,
      Applying, Transaction
  <2>3. Own' = Own
    BY <2>1 DEF Own, Applying, HomesOf
  <2>4. WindowOpen' = WindowOpen /\ RowsInWindow' = RowsInWindow /\ BuildInWindow' = BuildInWindow
    BY <2>1 DEF WindowOpen, RowsInWindow, BuildInWindow, Answer, Excused, Transaction
  <2> QED BY <1>1, <1>2, <2>2, <2>3, <2>4 DEF IInv
<1>4. CASE Next
  <2>1. FaithfulUnlessWiped' /\ ReadSoFar' /\ Others' /\ Own'
    BY <1>1, <1>4, StepFaithful, StepReadSoFar, StepOthers, StepOwn DEF IInv
  <2>2. WindowOpen' /\ BuildInWindow'
    BY <1>4, StepWindow, StepBuild DEF IInv
  <2>3. RowsInWindow'
    BY <1>1, <1>4, <2>1, <2>2, StepRows DEF IInv
  <2> QED BY <1>1, <1>2, <2>1, <2>2, <2>3 DEF IInv
<1> QED BY <1>3, <1>4

LEMMA Inductive == Spec => []IInv
BY InitIInv, StepIInv, PTL DEF Spec

(* The index, the files, the rebuild and the lookup keep their shape: a    *)
(* row is a sprint and a version that was written (sqlite_index.py).       *)
THEOREM IndexTyped == Spec => []TypeOK
BY Inductive, PTL DEF IInv

(* An index that carries the signature of the sources holds exactly their  *)
(* tickets, whatever rebuilds, mutations, rotations and deaths do, unless  *)
(* it was deleted under a mutation about to apply itself.                  *)
THEOREM FaithfulUnlessWipedCorrect == Spec => []FaithfulUnlessWiped
BY Inductive, PTL DEF IInv

(* A lookup through the index never answers with a version its ticket did  *)
(* not have while it ran, and says there is no ticket only when there was  *)
(* none or a torn rebuild was committed meanwhile; a signature the API     *)
(* process reuses hides none of its own mutations.                         *)
THEOREM AnswersHonestCorrect == Spec => []AnswersHonest
<1>1. ASSUME IInv PROVE RowsAreHonest
  BY <1>1 DEF IInv, RowsInWindow, RowsAreHonest, Excused
<1>2. ASSUME IInv PROVE CacheSeesLocal
  BY <1>2 DEF IInv, CacheFresh, CacheSeesLocal, Usable
<1>3. IInv => AnswersHonest
  BY <1>1, <1>2 DEF AnswersHonest
<1> QED BY Inductive, <1>3, PTL
=============================================================================
