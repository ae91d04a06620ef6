---------------------------- MODULE TicketIndex ----------------------------
(***************************************************************************)
(* The disposable SQLite projection of the sprint files                    *)
(* (planfile/core/sqlite_index.py and store.py 1186-1476).                 *)
(*                                                                         *)
(* The signature of the sources is the stat of every sprint file and every *)
(* evidence journal: whatever is written changes it, so it is modelled by  *)
(* rev, the number of writes so far.  A mutation asks, before its first    *)
(* write, whether the index is current; if it was, it puts its own tickets *)
(* into the index at its end and stamps the index with the signature the   *)
(* sources have then.  A rebuild reads every file without the mutation     *)
(* lock, inside one SQLite write transaction, and stamps the index with    *)
(* the signature the sources had before it started to read.                *)
(***************************************************************************)
EXTENDS Integers, FiniteSets, Sequences

CONSTANTS
  Tickets,
  Order,       \* the sprints in the order files are read, current first
  Placed,      \* the sprint each ticket is in at the start
  Kinds,       \* kinds of mutations a run allows
  Absent,      \* no ticket, no row, no signature
  Observers,   \* of "lookup", "cache", "keeper": each behaviour has one
  MaxRev,      \* bound: writes of a run, the first made the files
  MaxCrashes   \* bound: deaths of a run

Sprints == {Order[i] : i \in 1..Len(Order)}
Current == Order[1]

(* A version is the number of the write that made it.                      *)
Versions == 1..MaxRev
Revs == 0..MaxRev
Homes == [sprint : Sprints, ver : Versions]
NoRows == [t \in Tickets |-> Absent]

(* "put" creates or updates, "delete" deletes and "move" moves, and each   *)
(* ends by applying itself to the index.  "rotate" (a rotation to history, *)
(* or a mutation that ended in one) and "save" (a bulk save) do not.       *)
AllKinds == {"put", "delete", "move", "rotate", "save"}
Applies(kind) == kind \in {"put", "delete", "move"}

ASSUME IndexAssumption ==
  /\ Tickets # {}
  /\ Placed \in [Tickets -> Sprints]
  /\ MaxRev \in Nat \ {0}
  /\ MaxCrashes \in Nat
  /\ Order \in Seq(Sprints)
  /\ Len(Order) > 0
  /\ Kinds \subseteq AllKinds
  /\ Observers \subseteq {"lookup", "cache", "keeper"}
  /\ Absent \notin Homes
  /\ Absent \notin Revs

VARIABLES
  files,     \* files[s][t]: the version of ticket t in sprint file s
  rev,       \* the signature of the sources
  sig, rows, \* the index: its source_signature and its tickets
  mut,       \* the mutation that holds .store.lock
  build,     \* the rebuild that holds index/.rebuild.lock
  look,      \* one get_ticket of another process
  cache,     \* the signature an API process reuses for a moment
  probe,     \* stat of the current sprint file
  settled,   \* history: rev when that process last finished a mutation
  keeper,    \* the candidate signature of _maintain_ticket_index
  observer,  \* who looks at the index in this behaviour
  wiped,     \* history: the index was deleted under a mutation that applies
  crashes

sourceVars == <<files, rev, probe>>
indexVars == <<sig, rows>>
apiVars == <<cache, settled, keeper>>
vars == <<sourceVars, indexVars, mut, build, look, apiVars, observer, wiped, crashes>>

Mutations == [pc : {"idle", "first", "second", "finish", "repair", "repairing"},
              kind : AllKinds, ticket : Tickets, from : Sprints, to : Sprints,
              wasCurrent : BOOLEAN, local : BOOLEAN]
Builds == [pc : {"idle", "stamp", "begin", "read", "reset", "compare"},
           force : BOOLEAN, attempt : 1..2, again : BOOLEAN, repair : BOOLEAN,
           before : Revs, next : 1..(Len(Order) + 1),
           rows : [Tickets -> Homes \cup {Absent}]]
Lookups == [pc : {"idle", "checked", "row"}, ticket : Tickets,
            sig : Revs, reset : BOOLEAN, torn : BOOLEAN,
            window : SUBSET (Versions \cup {Absent})]

TypeOK ==
  /\ files \in [Sprints -> [Tickets -> Versions \cup {Absent}]]
  /\ rev \in Revs
  /\ sig \in Revs \cup {Absent}
  /\ rows \in [Tickets -> Homes \cup {Absent}]
  /\ mut \in Mutations
  /\ build \in Builds
  /\ look \in Lookups
  /\ cache \in [sig : Revs, probe : Revs] \cup {Absent}
  /\ probe \in Revs
  /\ settled \in Revs
  /\ keeper \in Revs \cup {Absent}
  /\ observer \in Observers
  /\ wiped \in BOOLEAN
  /\ crashes \in 0..MaxCrashes

-----------------------------------------------------------------------------
HomesIn(f, t) == {s \in Sprints : f[s][t] # Absent}
ValuesIn(f, t) == IF HomesIn(f, t) = {} THEN {Absent}
                  ELSE {f[s][t] : s \in HomesIn(f, t)}
HomesOf(t) == HomesIn(files, t)
Torn == \E t \in Tickets : \E r, s \in HomesOf(t) : r # s

IsCurrent(signature) == sig = signature

AnyTicket == CHOOSE t \in Tickets : TRUE
NoMutation == [pc |-> "idle", kind |-> "put", ticket |-> AnyTicket, from |-> Current,
               to |-> Current, wasCurrent |-> FALSE, local |-> FALSE]
NoBuild == [pc |-> "idle", force |-> FALSE, attempt |-> 1, again |-> FALSE,
            repair |-> FALSE, before |-> 0, next |-> 1, rows |-> NoRows]
NoLookup == [pc |-> "idle", ticket |-> AnyTicket, sig |-> 0, reset |-> FALSE,
             torn |-> FALSE, window |-> {}]

(* The sprint files exist, the index does not yet.                         *)
Init ==
  /\ files = [s \in Sprints |-> [t \in Tickets |-> IF s = Placed[t] THEN 1 ELSE Absent]]
  /\ rev = 1
  /\ sig = Absent
  /\ rows = NoRows
  /\ mut = NoMutation
  /\ build = NoBuild
  /\ look = NoLookup
  /\ cache = Absent
  /\ probe = 1
  /\ settled = 0
  /\ keeper = Absent
  /\ observer \in Observers
  /\ wiped = FALSE
  /\ crashes = 0

-----------------------------------------------------------------------------
(* Mutations.  Every write makes a version and moves the signature; a      *)
(* lookup that is under way may return any value its ticket had meanwhile. *)

Write(s, t, v) ==
  /\ rev < MaxRev
  /\ rev' = rev + 1
  /\ files' = [files EXCEPT ![s][t] = v]
  /\ probe' = IF s = Current THEN rev + 1 ELSE probe
  /\ look' = IF look.pc # "idle" /\ look.ticket = t
             THEN [look EXCEPT !.window = @ \cup ValuesIn(files', t)] ELSE look

(* mutation_lock drops the cached signature of its own process when it is  *)
(* taken and again when it is given back.                                  *)
Invalidate(m) == cache' = IF m.local THEN Absent ELSE cache

(* A mutant: the signature is dropped only when the lock is taken.         *)
UnlockKeepingCacheMutant(m, r) ==
  /\ mut' = NoMutation
  /\ cache' = cache
  /\ settled' = IF m.local THEN r ELSE settled

Unlock(m, r) ==
  /\ mut' = NoMutation
  /\ Invalidate(m)
  /\ settled' = IF m.local THEN r ELSE settled

(* _begin_index_mutation under mutation_lock: a put goes where the ticket  *)
(* already is, or to any sprint when it is new.                            *)
Begin ==
  /\ mut.pc = "idle"
  /\ \E k \in Kinds, t \in Tickets, r, s \in Sprints, local \in BOOLEAN :
       /\ local => observer = "cache"
       /\ CASE k \in {"put", "save"} -> HomesOf(t) \subseteq {s} /\ r = s
            [] k = "delete" -> r \in HomesOf(t) /\ r = s
            [] OTHER -> r \in HomesOf(t) /\ s \notin HomesOf(t)
       /\ mut' = [pc |-> "first", kind |-> k, ticket |-> t, from |-> r,
                  to |-> s, wasCurrent |-> IsCurrent(rev), local |-> local]
  /\ Invalidate(mut')
  /\ UNCHANGED <<sourceVars, indexVars, build, look, settled, keeper, crashes>>

(* The only write of a put, a save or a deletion; the write of the         *)
(* destination of a move or a rotation.                                    *)
WriteFirst ==
  /\ mut.pc = "first"
  /\ IF mut.kind = "delete" THEN Write(mut.from, mut.ticket, Absent)
     ELSE Write(mut.to, mut.ticket, rev + 1)
  /\ mut' = [mut EXCEPT !.pc =
               IF mut.kind \in {"move", "rotate"} THEN "second" ELSE "finish"]
  /\ UNCHANGED <<indexVars, build, apiVars, crashes>>

WriteSecond ==
  /\ mut.pc = "second"
  /\ Write(mut.from, mut.ticket, Absent)
  /\ mut' = [mut EXCEPT !.pc = "finish"]
  /\ UNCHANGED <<indexVars, build, apiVars, crashes>>

(* The source of a move cannot be written: the destination is restored and *)
(* the error leaves move_ticket before the index is touched.               *)
UndoMove ==
  /\ mut.pc = "second" /\ mut.kind = "move"
  /\ Write(mut.to, mut.ticket, Absent)
  /\ Unlock(mut, rev + 1)
  /\ UNCHANGED <<indexVars, build, keeper, crashes>>

Transaction == build.pc = "read"

RowAfter(m) ==
  IF m.kind = "delete" THEN Absent
  ELSE [sprint |-> m.to, ver |-> files[m.to][m.ticket]]

(* SQLiteTicketIndex.apply; an index that is missing is created first.     *)
Apply ==
  /\ rows' = [rows EXCEPT ![mut.ticket] = RowAfter(mut)]
  /\ sig' = rev

(* A mutant: what the mutation changed is applied without asking whether   *)
(* the index was current when it began.                                    *)
FinishUncheckedMutant ==
  /\ mut.pc = "finish" /\ ~Transaction
  /\ IF Applies(mut.kind) THEN Apply ELSE UNCHANGED indexVars
  /\ Unlock(mut, rev)
  /\ UNCHANGED <<sourceVars, build, look, keeper, crashes>>

Finish ==
  /\ mut.pc = "finish"
  /\ IF mut.wasCurrent /\ Applies(mut.kind) THEN ~Transaction /\ Apply
     ELSE UNCHANGED indexVars
  /\ Unlock(mut, rev)
  /\ UNCHANGED <<sourceVars, build, look, keeper, crashes>>

(* A rebuild holds the database for longer than the busy timeout: the      *)
(* mutation raises after its files were written, and the index stays.      *)
FinishTimesOut ==
  /\ mut.pc = "finish" /\ mut.wasCurrent /\ Applies(mut.kind)
  /\ Transaction
  /\ Unlock(mut, rev)
  /\ UNCHANGED <<sourceVars, indexVars, build, look, keeper, crashes>>

-----------------------------------------------------------------------------
(* Rebuilds: ensure_ticket_index with the rebuild lock, and                *)
(* _rebuild_ticket_index_unlocked.                                         *)

Ensure ==
  /\ build.pc = "idle" /\ observer # "cache"
  /\ \E forced \in BOOLEAN :
       /\ forced \/ ~IsCurrent(rev)
       /\ build' = [NoBuild EXCEPT !.pc = "stamp", !.force = forced]
  /\ UNCHANGED <<sourceVars, indexVars, mut, look, apiVars, crashes>>

(* Attempt n takes the signature first; an index another process made      *)
(* current meanwhile is left alone.                                        *)
TakeSignature ==
  /\ build.pc = "stamp"
  /\ build' = IF ~build.force /\ IsCurrent(rev) THEN NoBuild
              ELSE [build EXCEPT !.pc = "begin", !.before = rev, !.again = FALSE]
  /\ UNCHANGED <<sourceVars, indexVars, mut, look, apiVars, crashes>>

BeginTransaction ==
  /\ build.pc = "begin"
  /\ build' = [build EXCEPT !.pc = "read", !.rows = NoRows, !.next = 1]
  /\ UNCHANGED <<sourceVars, indexVars, mut, look, apiVars, crashes>>

(* One sprint file; a ticket id read twice breaks the primary key.  The    *)
(* transaction is rolled back, and the index is deleted and built once     *)
(* more; the second time the error leaves ensure_ticket_index.             *)
ReadSprint ==
  /\ Transaction /\ build.next <= Len(Order)
  /\ LET s == Order[build.next]
         held == {t \in Tickets : files[s][t] # Absent}
     IN build' =
          IF \A t \in held : build.rows[t] = Absent
          THEN [build EXCEPT !.next = @ + 1,
                  !.rows = [t \in Tickets |->
                     IF t \in held THEN [sprint |-> s, ver |-> files[s][t]] ELSE @[t]]]
          ELSE IF build.again THEN NoBuild
               ELSE [build EXCEPT !.pc = "reset", !.rows = NoRows, !.next = 1]
  /\ UNCHANGED <<sourceVars, indexVars, mut, look, apiVars, crashes>>

Reset ==
  /\ build.pc = "reset"
  /\ sig' = Absent
  /\ rows' = NoRows
  /\ build' = [build EXCEPT !.pc = "begin", !.again = TRUE]
  /\ look' = [look EXCEPT !.reset = look.pc # "idle"]
  /\ UNCHANGED <<sourceVars, mut, apiVars, crashes>>

(* The rows are committed before anyone asks whether the sources moved     *)
(* while they were read.                                                   *)
Commit ==
  /\ Transaction /\ build.next = Len(Order) + 1
  /\ rows' = build.rows
  /\ sig' = build.before
  /\ build' = [build EXCEPT !.pc = "compare", !.rows = NoRows, !.next = 1]
  /\ look' = [look EXCEPT !.torn = @ \/ (look.pc # "idle" /\ build.before # rev)]
  /\ UNCHANGED <<sourceVars, mut, apiVars, crashes>>

(* The sources moved while they were read: one more attempt, then the      *)
(* caller is told to read the files.                                       *)
Compare ==
  /\ build.pc = "compare"
  /\ build' = IF build.before = rev \/ build.attempt = 2
              THEN NoBuild
              ELSE [build EXCEPT !.pc = "stamp", !.force = TRUE, !.attempt = 2]
  /\ UNCHANGED <<sourceVars, indexVars, mut, look, apiVars, crashes>>

-----------------------------------------------------------------------------
(* get_ticket through the index: the signature is taken, compared with the *)
(* index, and the row is read in another transaction.                      *)

StartLookup ==
  /\ look.pc = "idle" /\ observer = "lookup"
  /\ \E t \in Tickets :
       look' = [pc |-> "checked", ticket |-> t, sig |-> rev, reset |-> FALSE,
                torn |-> FALSE, window |-> ValuesIn(files, t)]
  /\ UNCHANGED <<sourceVars, indexVars, mut, build, apiVars, crashes>>

(* A mutant: the row is read whatever the index was built from.            *)
CheckNothingMutant ==
  /\ look.pc = "checked"
  /\ look' = IF sig # Absent THEN [look EXCEPT !.pc = "row"] ELSE NoLookup
  /\ UNCHANGED <<sourceVars, indexVars, mut, build, apiVars, crashes>>

CheckCurrent ==
  /\ look.pc = "checked"
  /\ look' = IF IsCurrent(look.sig) THEN [look EXCEPT !.pc = "row"] ELSE NoLookup
  /\ UNCHANGED <<sourceVars, indexVars, mut, build, apiVars, crashes>>

Answer == IF rows[look.ticket] = Absent THEN Absent ELSE rows[look.ticket].ver

ReadRow ==
  /\ look.pc = "row"
  /\ look' = NoLookup
  /\ UNCHANGED <<sourceVars, indexVars, mut, build, apiVars, crashes>>

-----------------------------------------------------------------------------
(* _cached_ticket_index_signature in the API process: the current sprint   *)
(* file is looked at first; the signature is reused while it has not       *)
(* changed and the signature is young enough (age is not modelled: any     *)
(* reuse may find it too old).                                             *)
CacheSignature ==
  /\ observer = "cache"
  /\ cache' = [sig |-> rev, probe |-> probe]
  /\ UNCHANGED <<sourceVars, indexVars, mut, build, look, settled, keeper, crashes>>

Usable == cache # Absent /\ cache.probe = probe

(* A mutant: the second look starts the candidate anew.                    *)
KeeperForgetsMutant ==
  /\ observer = "keeper"
  /\ keeper' = IF IsCurrent(rev) \/ keeper # Absent THEN Absent ELSE rev
  /\ UNCHANGED <<sourceVars, indexVars, mut, build, look, cache, settled, crashes>>

(* _maintain_ticket_index: the same stale signature seen twice in a row is *)
(* repaired under the mutation lock, unless the sources moved meanwhile.   *)
KeeperLooks ==
  /\ observer = "keeper"
  /\ keeper' = IF IsCurrent(rev) THEN Absent ELSE rev
  /\ UNCHANGED <<sourceVars, indexVars, mut, build, look, cache, settled, crashes>>

KeeperLocks ==
  /\ ~IsCurrent(rev) /\ keeper = rev
  /\ mut.pc = "idle"
  /\ mut' = [NoMutation EXCEPT !.pc = "repair", !.local = TRUE]
  /\ Invalidate(mut')
  /\ UNCHANGED <<sourceVars, indexVars, build, look, settled, keeper, crashes>>

KeeperEnsures ==
  /\ mut.pc = "repair"
  /\ build.pc = "idle"
  /\ ~IsCurrent(rev)
  /\ build' = [NoBuild EXCEPT !.pc = "stamp", !.repair = TRUE]
  /\ mut' = [mut EXCEPT !.pc = "repairing"]
  /\ UNCHANGED <<sourceVars, indexVars, look, apiVars, crashes>>

KeeperUnlocks ==
  /\ \/ mut.pc = "repair" /\ IsCurrent(rev)
     \/ mut.pc = "repairing" /\ ~build.repair
  /\ Unlock(mut, rev)
  /\ keeper' = Absent
  /\ UNCHANGED <<sourceVars, indexVars, build, look, crashes>>

-----------------------------------------------------------------------------
(* Deaths: the kernel drops the locks and SQLite rolls back.  A bound: not *)
(* in the behaviours that watch a lookup.                                  *)
MayDie == crashes < MaxCrashes /\ observer # "lookup"

CrashMutation ==
  /\ mut.pc # "idle" /\ MayDie
  /\ mut' = NoMutation
  /\ build' = IF build.repair THEN NoBuild ELSE build
  /\ IF mut.local THEN cache' = Absent /\ keeper' = Absent ELSE UNCHANGED <<cache, keeper>>
  /\ crashes' = crashes + 1
  /\ UNCHANGED <<sourceVars, indexVars, look, settled>>

CrashBuild ==
  /\ build.pc # "idle" /\ ~build.repair /\ MayDie
  /\ build' = NoBuild
  /\ crashes' = crashes + 1
  /\ UNCHANGED <<sourceVars, indexVars, mut, look, apiVars>>

Mutate == Begin \/ WriteFirst \/ WriteSecond \/ UndoMove \/ Finish \/ FinishTimesOut
BuildStep == \/ TakeSignature \/ BeginTransaction \/ ReadSprint
             \/ Reset \/ Commit \/ Compare
Rebuild == Ensure \/ BuildStep
Lookup == StartLookup \/ CheckCurrent \/ ReadRow
Maintain == KeeperLooks \/ KeeperLocks \/ KeeperEnsures \/ KeeperUnlocks

Step == \/ Mutate \/ Rebuild \/ Lookup \/ CacheSignature \/ Maintain
        \/ CrashMutation \/ CrashBuild

(* A reset beside a mutation that found the index current and will apply    *)
(* itself to whatever index it finds.                                      *)
Wipes == build.pc = "reset" /\ build'.pc = "begin"
         /\ mut.pc # "idle" /\ mut.wasCurrent

Next == /\ Step
        /\ wiped' = (wiped \/ Wipes)
        /\ UNCHANGED observer

Spec == Init /\ [][Next]_vars

(* The maintenance task sleeps between looks and is never stopped; a       *)
(* rebuild, once begun, runs to its end or dies.                           *)
Fair(A) == A /\ wiped' = (wiped \/ Wipes) /\ UNCHANGED observer
FairSpec == Spec /\ WF_vars(Fair(KeeperLooks)) /\ WF_vars(Fair(KeeperLocks))
                 /\ WF_vars(Fair(KeeperEnsures)) /\ WF_vars(Fair(KeeperUnlocks))
                 /\ WF_vars(Fair(BuildStep))

-----------------------------------------------------------------------------
(* Properties                                                              *)

(* An index whose signature is the one of the sources holds exactly the    *)
(* tickets of the files: rebuilds read beside mutations, mutations die and *)
(* rotations do not apply themselves, and no reader is misled.             *)
RowMatches(t) ==
  IF rows[t] = Absent THEN HomesOf(t) = {}
  ELSE HomesOf(t) = {rows[t].sprint} /\ files[rows[t].sprint][t] = rows[t].ver
IndexFaithful == IsCurrent(rev) => \A t \in Tickets : RowMatches(t)

(* The only way to mislead a reader is to delete the index under a         *)
(* mutation that will apply its own ticket to an empty one.                *)
FaithfulUnlessWiped == ~wiped => IndexFaithful

(* What a lookup answers from the index is a value its ticket had between  *)
(* the start of the lookup and its end, unless the index was deleted       *)
(* between its check and its row or is the one IndexFaithful excepts.  A   *)
(* rebuild that read while a ticket moved misses it, and until it compares *)
(* signatures a lookup may say there is no such ticket; it never answers   *)
(* with an old version.                                                    *)
RowsAreHonest ==
  look.pc = "row" =>
    \/ Answer \in look.window
    \/ Answer = Absent /\ look.torn
    \/ look.reset \/ wiped

(* A signature the API process reuses hides no mutation it has finished    *)
(* itself, and no change of the current sprint by anyone.                  *)
CacheSeesLocal ==
  Usable => cache.sig >= settled /\ cache.sig >= probe

AnswersHonest == RowsAreHonest /\ CacheSeesLocal

(* Once mutations stop, leaving no ticket in two files, the maintenance    *)
(* makes the index current for good.                                       *)
EventuallyCurrent ==
  observer = "keeper" /\ <>[](mut.pc \in {"idle", "repair", "repairing"} /\ ~Torn) => <>[]IsCurrent(rev)
=============================================================================
