---------------------------- MODULE TicketStore ----------------------------
(***************************************************************************)
(* The file-backed ticket store (planfile/core/store.py, single-YAML       *)
(* backend).  Every sprint is one YAML file holding tickets; terminal      *)
(* tickets are rotated from the current sprint into one history file per   *)
(* day; a small locator file remembers which history file a ticket went    *)
(* to.  Any number of processes mutate the directory.  Mutations serialize *)
(* on an advisory file lock that a dying process drops, and one mutation   *)
(* is several atomic file replacements with a possible death between any   *)
(* two.  Bulk saves start from a snapshot read without the lock.           *)
(*                                                                         *)
(* A mutation reads under the lock, so what it will write is fixed when it *)
(* begins: a "job" holds the files it has still to replace, in the phases  *)
(*   dst      replace the files of job.todo (destinations come first),     *)
(*   loc      replace the locator (archiving only),                        *)
(*   src      replace the file the tickets are taken from,                 *)
(*   archive  rotate the current sprint before the lock is dropped,        *)
(*   release  drop the lock.                                               *)
(***************************************************************************)
EXTENDS Integers, FiniteSets

CONSTANTS
  Procs,          \* processes sharing the .planfile directory
  NoProc,         \* the lock is free
  Absent,         \* no record, no locator entry, no snapshot
  MaxTickets,     \* bound: ids the counter may hand out
  MoveTargets,    \* sprints a move may name
  MaxClock,       \* bound: stamps, one for each mutation that takes one
  Current, Backlog, Histories,   \* sprint ids
  Rank,           \* order in which files are searched: Current first,
                  \* histories last, by date
  DayOf,          \* UTC date of a stamp
  HistoryOf,      \* history file of a date
  RetainDays, RetainTerminal, MaxCurrent,   \* archive settings; 0 = off
  Ops             \* operations and faults a run allows

TicketIds == 1..MaxTickets
Stamps == 0..MaxClock
Operational == {Current, Backlog}
Sprints == Operational \cup Histories

(* open stands for every active status, blocked for the terminal statuses  *)
(* that may be reopened (blocked, failed), done for done and canceled.     *)
Statuses == {"open", "blocked", "done"}
Terminal == {"blocked", "done"}
ImmutableTerminal == {"done"}

(* fin is execution.finished_at, with 0 for none.                          *)
Records == [status : Statuses, upd : Stamps, fin : Stamps]
Contents == [TicketIds -> Records \cup {Absent}]
NoTickets == [t \in TicketIds |-> Absent]

ASSUME IdsAssumption == MaxTickets \in Nat /\ MaxClock \in Nat
ASSUME ProcsAssumption == NoProc \notin Procs
ASSUME SprintsAssumption ==
  /\ Current # Backlog
  /\ Operational \cap Histories = {}
  /\ Absent \notin Records
  /\ Absent \notin Sprints
  /\ MoveTargets \subseteq Sprints
ASSUME RankAssumption ==
  /\ Rank \in [Sprints -> Nat]
  /\ \A r, s \in Sprints : Rank[r] = Rank[s] => r = s
  /\ \A s \in Sprints \ {Current} : Rank[Current] < Rank[s]
ASSUME DateAssumption ==
  /\ DayOf \in [Stamps -> Nat]
  /\ \A i \in Stamps : HistoryOf[DayOf[i]] \in Histories
ASSUME ConfigAssumption ==
  RetainDays \in Nat /\ RetainTerminal \in Nat /\ MaxCurrent \in Nat

VARIABLES
  files,     \* content of each sprint file
  exists,    \* sprint files present on disk
  locator,   \* index/history-locations.yaml
  nextId,    \* next_id of config.yaml
  clock,     \* stamp of the latest mutation
  lock,      \* holder of .store.lock
  pc, job,   \* what each process still has to do under the lock
  snap,      \* snapshot a process loaded for a later bulk save
  created, deleted, acked
             \* history: ids whose creation or deletion reached the disk, and
             \* the stamp of the last mutation of each ticket that completed

storeVars == <<files, exists, locator, nextId>>
procVars == <<lock, pc, job, snap>>
histVars == <<created, deleted, acked>>
vars == <<storeVars, clock, procVars, histVars>>

Phases == {"idle", "dst", "loc", "src", "undo", "archive", "rearm", "release"}
JobOps == {"none", "create", "update", "archive", "move", "delete", "save"}

(* One job: the destination files to replace (todo) with their contents,   *)
(* the file to take tickets from last, the history files of archived ones, *)
(* the destination of a move (existed: it was on disk before), and whether *)
(* a rotation of the current sprint follows.                               *)
Jobs == [op : JobOps, tickets : SUBSET TicketIds, stamp : Stamps,
         todo : SUBSET Sprints, dst : [Sprints -> Contents],
         from : Sprints, rest : Contents, to : Sprints,
         homes : [TicketIds -> Histories \cup {Absent}],
         rotate : BOOLEAN, existed : BOOLEAN]

NoJob == [op |-> "none", tickets |-> {}, stamp |-> 0, todo |-> {},
          dst |-> [s \in Sprints |-> NoTickets], from |-> Current,
          rest |-> NoTickets, to |-> Current, homes |-> NoTickets,
          rotate |-> FALSE, existed |-> TRUE]

Snapshots == [sprint : Operational, tickets : Contents]

-----------------------------------------------------------------------------
Holders(t) == {s \in Sprints : files[s][t] # Absent}

(* Mutations scan the sprint files in search order and act on the first    *)
(* copy they find.                                                         *)
IsFirst(s, t) ==
  s \in Holders(t) /\ \A r \in Holders(t) : Rank[s] <= Rank[r]

(* get_ticket looks at the current sprint, then where the locator points,  *)
(* then at every file in search order.                                     *)
Lookup(t) ==
  IF files[Current][t] # Absent THEN files[Current][t]
  ELSE IF locator[t] # Absent /\ files[locator[t]][t] # Absent
       THEN files[locator[t]][t]
       ELSE IF Holders(t) # {} THEN files[CHOOSE s \in Sprints : IsFirst(s, t)][t]
            ELSE Absent

Put(content, t, r) == [content EXCEPT ![t] = r]
Drop(content, T) == [t \in TicketIds |-> IF t \in T THEN Absent ELSE content[t]]
Held(content) == {t \in TicketIds : content[t] # Absent}

-----------------------------------------------------------------------------
(* Archiving                                                               *)

ArchiveStamp(r) == IF r.fin # 0 THEN r.fin ELSE r.upd
HistoryFile(r) == HistoryOf[DayOf[ArchiveStamp(r)]]

TerminalIn(content) == {t \in Held(content) : content[t].status \in Terminal}

(* A mutant: the k newest leave.                                           *)
NewestMutant(content, T, k) ==
  {t \in T : Cardinality({u \in T : ArchiveStamp(content[u]) > ArchiveStamp(content[t])}) < k}

(* The k oldest of T by (stamp, id).                                       *)
Oldest(content, T, k) ==
  {t \in T : Cardinality({u \in T :
     \/ ArchiveStamp(content[u]) < ArchiveStamp(content[t])
     \/ ArchiveStamp(content[u]) = ArchiveStamp(content[t]) /\ u < t}) < k}

Stale(content, terminal, today) ==
  {t \in terminal :
     RetainDays = 0 \/ DayOf[ArchiveStamp(content[t])] < today - (RetainDays - 1)}

(* A mutant: one terminal ticket too many stays.                           *)
ArchiveOneLessMutant(content, force) ==
  LET terminal == IF "archive" \in Ops THEN TerminalIn(content) ELSE {}
      full == force \/ (MaxCurrent > 0 /\ Cardinality(Held(content)) > MaxCurrent)
      surplus == Cardinality(terminal) - RetainTerminal - 1
  IN Stale(content, terminal, DayOf[clock])
     \cup (IF full THEN Oldest(content, terminal, surplus) ELSE {})

(* "archive" \in Ops is the setting archive.enabled.                       *)
ArchiveCandidates(content, force) ==
  LET terminal == IF "archive" \in Ops THEN TerminalIn(content) ELSE {}
      full == force \/ (MaxCurrent > 0 /\ Cardinality(Held(content)) > MaxCurrent)
      surplus == Cardinality(terminal) - RetainTerminal
  IN Stale(content, terminal, DayOf[clock])
     \cup (IF full THEN Oldest(content, terminal, surplus) ELSE {})

(* The tickets of T leave content for the history file of their date.      *)
ArchiveJob(content, T) ==
  [NoJob EXCEPT
     !.op = "archive",
     !.tickets = T,
     !.todo = {HistoryFile(content[t]) : t \in T},
     !.dst = [s \in Sprints |-> [t \in TicketIds |->
                IF t \in T /\ HistoryFile(content[t]) = s
                THEN content[t] ELSE files[s][t]]],
     !.rest = Drop(content, T),
     !.homes = [t \in TicketIds |->
                  IF t \in T THEN HistoryFile(content[t]) ELSE Absent]]

-----------------------------------------------------------------------------
Init ==
  /\ files = [s \in Sprints |-> NoTickets]
  /\ exists = Operational
  /\ locator = [t \in TicketIds |-> Absent]
  /\ nextId = 1
  /\ clock = 0
  /\ lock = NoProc
  /\ pc = [p \in Procs |-> "idle"]
  /\ job = [p \in Procs |-> NoJob]
  /\ snap = [p \in Procs |-> Absent]
  /\ created = {}
  /\ deleted = {}
  /\ acked = [t \in TicketIds |-> 0]

Goto(p, phase) == pc' = [pc EXCEPT ![p] = phase]
Tick == clock < MaxClock /\ clock' = clock + 1

(* A mutant: the files are read, and the job begun, without the lock.      *)
EnterUnlockedMutant(p, from, phase, j) ==
  /\ pc[p] = from
  /\ lock' = p
  /\ job' = [job EXCEPT ![p] = j]
  /\ Goto(p, phase)

(* Enter the mutation lock and read the files: the job is fixed here.      *)
Enter(p, from, phase, j) ==
  /\ pc[p] = from
  /\ lock = NoProc
  /\ lock' = p
  /\ job' = [job EXCEPT ![p] = j]
  /\ Goto(p, phase)

(* A job that replaces the files of todo and takes nothing from elsewhere. *)
WriteJob(op, T, stamp, todo, dst) ==
  [NoJob EXCEPT !.op = op, !.tickets = T, !.stamp = stamp, !.todo = todo,
                !.dst = dst, !.rotate = op # "delete" /\ Current \in todo]

(* create_ticket(s): n ids are reserved in config.yaml, each ticket then   *)
(* goes into the file of its sprint.                                       *)
NewIds(n) == nextId..(nextId + n - 1)

BeginCreate(p, n, sprintOf, status) ==
  LET ids == NewIds(n)
      new == [status |-> status, upd |-> clock + 1, fin |-> 0]
  IN /\ "create" \in Ops
     /\ nextId + n - 1 <= MaxTickets
     /\ Tick
     /\ nextId' = nextId + n
     /\ Enter(p, "idle", "dst",
          WriteJob("create", ids, clock + 1, {sprintOf[t] : t \in ids},
                   [s \in Sprints |-> [t \in TicketIds |->
                      IF t \in ids /\ sprintOf[t] = s THEN new ELSE files[s][t]]]))
     /\ UNCHANGED <<files, exists, locator, snap, histVars>>

(* A mutant: the guard on done tickets is gone.                            *)
MayBecomeMutant(old, status) == TRUE

(* A done ticket takes no active status back.                              *)
MayBecome(old, status) ==
  old.status \in ImmutableTerminal => status \in Terminal

(* A status update stamps finished_at when the status is terminal;         *)
(* otherwise the caller's execution keeps it or clears it.                 *)
Updates(old) ==
  {[old EXCEPT !.upd = clock + 1, !.fin = f] : f \in {old.fin, 0}} \cup
  {[status |-> st, upd |-> clock + 1,
    fin |-> IF st \in Terminal THEN clock + 1 ELSE IF keep THEN old.fin ELSE 0] :
      st \in {st \in Statuses : MayBecome(old, st)}, keep \in BOOLEAN}

(* A mutant: the ticket is read before the lock is held.                   *)
UpdateUnlockedMutant(p, t, f) ==
  /\ "update" \in Ops
  /\ IsFirst(f, t)
  /\ Tick
  /\ \E new \in Updates(files[f][t]) :
       EnterUnlockedMutant(p, "idle", "dst",
         WriteJob("update", {t}, clock + 1, {f},
                  [files EXCEPT ![f] = Put(files[f], t, new)]))
  /\ UNCHANGED <<storeVars, snap, histVars>>

BeginUpdate(p, t, f) ==
  /\ "update" \in Ops
  /\ IsFirst(f, t)
  /\ Tick
  /\ \E new \in Updates(files[f][t]) :
       Enter(p, "idle", "dst",
         WriteJob("update", {t}, clock + 1, {f},
                  [files EXCEPT ![f] = Put(files[f], t, new)]))
  /\ UNCHANGED <<storeVars, snap, histVars>>

(* delete_ticket(s)_bulk: the first copy of each ticket goes.              *)
BeginDelete(p, T) ==
  LET doomed(s) == {t \in T : IsFirst(s, t)} IN
    /\ "delete" \in Ops
    /\ T # {}
    /\ \A t \in T : Holders(t) # {}
    /\ Enter(p, "idle", "dst",
         WriteJob("delete", T, 0, {s \in Sprints : doomed(s) # {}},
                  [s \in Sprints |-> Drop(files[s], doomed(s))]))
    /\ UNCHANGED <<storeVars, clock, snap, histVars>>

(* A mutant: the ticket is not taken from the source.                      *)
MoveJobMutant(t, from, to, moved) ==
  [NoJob EXCEPT !.op = "move", !.tickets = {t}, !.stamp = clock + 1, !.todo = {to},
                !.dst = [files EXCEPT ![to] = Put(files[to], t, moved)],
                !.from = from, !.rest = files[from], !.to = to,
                !.existed = to \in exists]

(* move_ticket: refused when the destination already holds the ticket.     *)
MoveJob(t, from, to, moved) ==
  [NoJob EXCEPT !.op = "move", !.tickets = {t}, !.stamp = clock + 1, !.todo = {to},
                !.dst = [files EXCEPT ![to] = Put(files[to], t, moved)],
                !.from = from, !.rest = Drop(files[from], {t}), !.to = to,
                !.existed = to \in exists]

(* A mutant: the ticket is read before the lock is held.                   *)
MoveUnlockedMutant(p, t, f, to) ==
  /\ "move" \in Ops
  /\ IsFirst(f, t)
  /\ f # to
  /\ files[to][t] = Absent
  /\ Tick
  /\ EnterUnlockedMutant(p, "idle", "dst",
       MoveJob(t, f, to, [files[f][t] EXCEPT !.upd = clock + 1]))
  /\ UNCHANGED <<storeVars, snap, histVars>>

BeginMove(p, t, f, to) ==
  /\ "move" \in Ops
  /\ IsFirst(f, t)
  /\ f # to
  /\ files[to][t] = Absent
  /\ Tick
  /\ Enter(p, "idle", "dst", MoveJob(t, f, to, [files[f][t] EXCEPT !.upd = clock + 1]))
  /\ UNCHANGED <<storeVars, snap, histVars>>

(* load_sprint: a snapshot is read without the lock.                       *)
Load(p, s) ==
  /\ "save" \in Ops
  /\ pc[p] = "idle"
  /\ snap[p] = Absent
  /\ snap' = [snap EXCEPT ![p] = [sprint |-> s, tickets |-> files[s]]]
  /\ UNCHANGED <<storeVars, clock, lock, pc, job, histVars>>

(* External synchronisation overwrites fields of its snapshot in place and *)
(* leaves updated_at alone.                                                *)
EditSnapshot(p, t, status) ==
  /\ pc[p] = "idle"
  /\ snap[p] # Absent
  /\ snap[p].tickets[t] # Absent
  /\ snap' = [snap EXCEPT ![p] =
                [sprint |-> snap[p].sprint,
                 tickets |-> Put(snap[p].tickets, t,
                                 [snap[p].tickets[t] EXCEPT !.status = status])]]
  /\ UNCHANGED <<storeVars, clock, lock, pc, job, histVars>>

(* Two mutants: the version on disk, or the locator, is not consulted.     *)
MergedVersionMutant(s, incoming) ==
  [t \in TicketIds |-> IF incoming[t] = Absent \/ locator[t] # Absent
                       THEN files[s][t] ELSE incoming[t]]
MergedLocatorMutant(s, incoming) ==
  [t \in TicketIds |->
     IF incoming[t] = Absent \/ (files[s][t] # Absent /\ files[s][t].upd > incoming[t].upd)
     THEN files[s][t] ELSE incoming[t]]

(* Tickets the locator places in a history file are left out of a save to  *)
(* an operational sprint; of two versions of a ticket the one on disk      *)
(* stays only if it is newer; tickets absent from the snapshot stay.       *)
Merged(s, incoming) ==
  [t \in TicketIds |->
     IF \/ incoming[t] = Absent
        \/ locator[t] # Absent
        \/ files[s][t] # Absent /\ files[s][t].upd > incoming[t].upd
     THEN files[s][t]
     ELSE incoming[t]]

BeginSave(p) ==
  /\ "save" \in Ops
  /\ snap[p] # Absent
  /\ LET s == snap[p].sprint IN
       Enter(p, "idle", "dst",
         WriteJob("save", {}, 0, {s},
                  [files EXCEPT ![s] = Merged(s, snap[p].tickets)]))
  /\ snap' = [snap EXCEPT ![p] = Absent]
  /\ UNCHANGED <<storeVars, clock, histVars>>

(* archive_completed, called by itself or after a save of the current      *)
(* sprint; the other mutations rotate under the lock they already hold.    *)
BeginArchive(p, from, force) ==
  /\ ArchiveCandidates(files[Current], force) # {}
  /\ Enter(p, from, "dst",
       ArchiveJob(files[Current], ArchiveCandidates(files[Current], force)))
  /\ UNCHANGED <<storeVars, clock, snap, histVars>>

NothingToArchive(p) ==
  /\ pc[p] = "rearm"
  /\ lock = NoProc
  /\ ArchiveCandidates(files[Current], FALSE) = {}
  /\ Goto(p, "idle")
  /\ UNCHANGED <<storeVars, clock, lock, job, snap, histVars>>

Rotate(p) ==
  /\ pc[p] = "archive"
  /\ LET T == ArchiveCandidates(files[Current], FALSE) IN
       IF T = {}
       THEN Goto(p, "release") /\ UNCHANGED job
       ELSE Goto(p, "dst") /\ job' = [job EXCEPT ![p] = ArchiveJob(files[Current], T)]
  /\ UNCHANGED <<storeVars, clock, lock, snap, histVars>>

Acknowledge(p) ==
  acked' = [t \in TicketIds |->
              IF t \in job[p].tickets /\ job[p].stamp # 0 THEN job[p].stamp ELSE acked[t]]

(* A mutant: a bulk save is not followed by a rotation.                    *)
AfterWritesMutant(j) ==
  IF j.op = "archive" THEN "loc" ELSE IF j.op = "move" THEN "src"
  ELSE IF j.op = "save" THEN "idle" ELSE IF j.rotate THEN "archive" ELSE "release"

AfterWrites(j) ==
  IF j.op = "archive" THEN "loc"
  ELSE IF j.op = "move" THEN "src"
  ELSE IF j.op = "save" THEN IF j.rotate THEN "rearm" ELSE "idle"
  ELSE IF j.rotate THEN "archive"
  ELSE "release"

(* A bulk save drops the lock with its write and takes it again to rotate: *)
(* the lock is not re-entrant.  A mutant: it rotates inside.               *)
DropsLockMutant(j) == FALSE
DropsLock(j) == j.op = "save"

(* Replace one file of the job.                                            *)
WriteFile(p, s) ==
  LET j == job[p]
      last == j.todo = {s}
      left == last /\ DropsLock(j)
  IN /\ pc[p] = "dst"
     /\ s \in j.todo
     /\ files' = [files EXCEPT ![s] = j.dst[s]]
     /\ exists' = exists \cup {s}
     /\ created' = IF j.op = "create" THEN created \cup (j.tickets \cap Held(j.dst[s]))
                   ELSE created
     /\ deleted' = IF j.op = "delete" THEN deleted \cup (Held(files[s]) \ Held(j.dst[s]))
                   ELSE deleted
     /\ IF last /\ j.op # "move" THEN Acknowledge(p) ELSE UNCHANGED acked
     /\ job' = [job EXCEPT ![p] = IF left THEN NoJob ELSE [j EXCEPT !.todo = @ \ {s}]]
     /\ lock' = IF left THEN NoProc ELSE lock
     /\ IF last THEN Goto(p, AfterWrites(j)) ELSE UNCHANGED pc
     /\ UNCHANGED <<locator, nextId, clock, snap>>

(* A mutant: the locator is not written.                                   *)
WriteLocatorMutant(p) ==
  /\ pc[p] = "loc"
  /\ Goto(p, "src")
  /\ UNCHANGED <<storeVars, clock, lock, job, snap, histVars>>

(* _record_history_locations: entries are added, never removed.            *)
WriteLocator(p) ==
  /\ pc[p] = "loc"
  /\ locator' = [t \in TicketIds |->
                   IF job[p].homes[t] # Absent THEN job[p].homes[t] ELSE locator[t]]
  /\ Goto(p, "src")
  /\ UNCHANGED <<files, exists, nextId, clock, lock, job, snap, histVars>>

(* A mutant: the tickets may leave the source before they are written to   *)
(* their destinations.                                                     *)
SourceFirstMutant(p) ==
  /\ pc[p] = "src" \/ (pc[p] = "dst" /\ job[p].op \in {"archive", "move"})
  /\ files' = [files EXCEPT ![job[p].from] = job[p].rest]
  /\ IF job[p].op = "move" THEN Acknowledge(p) ELSE UNCHANGED acked
  /\ IF pc[p] = "src" THEN Goto(p, "release") ELSE UNCHANGED pc
  /\ UNCHANGED <<exists, locator, nextId, clock, lock, job, snap, created, deleted>>

(* Replace the file the tickets were taken from.                           *)
WriteSource(p) ==
  /\ pc[p] = "src"
  /\ files' = [files EXCEPT ![job[p].from] = job[p].rest]
  /\ IF job[p].op = "move" THEN Acknowledge(p) ELSE UNCHANGED acked
  /\ Goto(p, "release")
  /\ UNCHANGED <<exists, locator, nextId, clock, lock, job, snap, created, deleted>>

(* The write of the source fails: a move rolls its destination back.  A    *)
(* destination that existed is "restored" from the dict the move inserted  *)
(* the ticket into, so the ticket stays; a new one is unlinked.            *)
SourceWriteFails(p) ==
  /\ "fail" \in Ops
  /\ pc[p] = "src"
  /\ Goto(p, IF job[p].op = "move" THEN "undo" ELSE "release")
  /\ UNCHANGED <<storeVars, clock, lock, job, snap, histVars>>

UndoMove(p) ==
  LET j == job[p] IN
    /\ pc[p] = "undo"
    /\ files' = [files EXCEPT ![j.to] = IF j.existed THEN j.dst[j.to] ELSE NoTickets]
    /\ exists' = IF j.existed THEN exists ELSE exists \ {j.to}
    /\ Goto(p, "release")
    /\ UNCHANGED <<locator, nextId, clock, lock, job, snap, histVars>>

Release(p) ==
  /\ pc[p] = "release"
  /\ lock' = NoProc
  /\ job' = [job EXCEPT ![p] = NoJob]
  /\ Goto(p, "idle")
  /\ UNCHANGED <<storeVars, clock, snap, histVars>>

(* A process dies: the kernel drops its flock, its memory is gone.         *)
Crash(p) ==
  /\ "crash" \in Ops
  /\ pc[p] # "idle"
  /\ lock' = IF lock = p THEN NoProc ELSE lock
  /\ job' = [job EXCEPT ![p] = NoJob]
  /\ snap' = [snap EXCEPT ![p] = Absent]
  /\ Goto(p, "idle")
  /\ UNCHANGED <<storeVars, clock, histVars>>

-----------------------------------------------------------------------------
Begin(p) ==
  \/ \E n \in 1..MaxTickets, st \in Statuses :
       \E sprintOf \in [NewIds(n) -> Operational] : BeginCreate(p, n, sprintOf, st)
  \/ \E t \in TicketIds, f \in Sprints : BeginUpdate(p, t, f)
  \/ \E T \in SUBSET TicketIds : BeginDelete(p, T)
  \/ \E t \in TicketIds, f \in Sprints, to \in MoveTargets : BeginMove(p, t, f, to)
  \/ \E s \in Operational : Load(p, s)
  \/ \E t \in TicketIds, st \in Statuses : EditSnapshot(p, t, st)
  \/ BeginSave(p)
  \/ \E force \in BOOLEAN : BeginArchive(p, "idle", force)

Continue(p) ==
  \/ \E s \in Sprints : WriteFile(p, s)
  \/ WriteLocator(p)
  \/ WriteSource(p)
  \/ UndoMove(p)
  \/ BeginArchive(p, "rearm", FALSE)
  \/ NothingToArchive(p)
  \/ Rotate(p)
  \/ Release(p)

Next == \E p \in Procs : Begin(p) \/ Continue(p) \/ SourceWriteFails(p) \/ Crash(p)

(* A process inside the lock keeps running until it leaves or dies.        *)
Fairness == \A p \in Procs : WF_vars(Continue(p))

Spec == Init /\ [][Next]_vars
FairSpec == Spec /\ Fairness

-----------------------------------------------------------------------------
TypeOK ==
  /\ files \in [Sprints -> Contents]
  /\ exists \subseteq Sprints
  /\ locator \in [TicketIds -> Histories \cup {Absent}]
  /\ nextId \in 1..(MaxTickets + 1)
  /\ clock \in Stamps
  /\ lock \in Procs \cup {NoProc}
  /\ pc \in [Procs -> Phases]
  /\ job \in [Procs -> Jobs]
  /\ snap \in [Procs -> Snapshots \cup {Absent}]
  /\ created \subseteq TicketIds
  /\ deleted \subseteq TicketIds
  /\ acked \in [TicketIds -> Stamps]

Live == created \ deleted

(* "Can never lose a ticket": whatever process dies between whatever two   *)
(* file replacements, a created and not deleted ticket is in some file.    *)
NeverLost == \A t \in Live : Holders(t) # {}

(* Why NeverLost holds.  Only the lock holder has a job under way, so what *)
(* it read is still on disk; it adds before it removes.                    *)
InLock == {"dst", "loc", "src", "undo", "archive", "release"}

LockOwned == \A p \in Procs : pc[p] \in InLock => lock = p

(* A file that is not on disk holds nothing.                               *)
GhostFilesEmpty == \A s \in Sprints \ exists : Held(files[s]) = {}

(* Unless it deletes, a job writes no file that lacks what is there now.   *)
WritesKeep(j) == j.op # "delete" => \A s \in j.todo : Held(files[s]) \subseteq Held(j.dst[s])

(* What will leave the source is, or will be by then, somewhere else.      *)
Covered(j, todo) ==
  /\ j.from \notin todo
  /\ Held(j.rest) \subseteq Held(files[j.from])
  /\ \A t \in Held(files[j.from]) \ Held(j.rest) :
       \E s \in Sprints \ {j.from} :
         t \in Held(files[s]) \/ (s \in todo /\ t \in Held(j.dst[s]))

(* A move can be undone: its ticket is still in the source, and unlinking  *)
(* a destination it created takes nothing else.                            *)
Undoable(j, atDst) ==
  j.op = "move" =>
    /\ j.from # j.to
    /\ j.tickets \subseteq Held(files[j.from])
    /\ j.existed => Held(files[j.to]) \subseteq Held(j.dst[j.to])
    /\ ~ j.existed => Held(atDst) \subseteq j.tickets

JobSound(p) ==
  LET j == job[p] IN
    /\ pc[p] = "dst" => WritesKeep(j)
    /\ pc[p] = "dst" /\ j.op \in {"archive", "move"} => Covered(j, j.todo)
    /\ pc[p] = "dst" => (j.op = "move" => j.todo = {j.to}) /\ Undoable(j, j.dst[j.to])
    /\ pc[p] \in {"loc", "src"} => Covered(j, {})
    /\ pc[p] \in {"loc", "src"} => Undoable(j, files[j.to])
    /\ pc[p] \in {"loc", "src", "undo"} /\ j.op = "move" => j.to \in exists
    /\ pc[p] = "undo" => j.op = "move" /\ Undoable(j, files[j.to])

IInv ==
  /\ TypeOK
  /\ LockOwned
  /\ GhostFilesEmpty
  /\ \A p \in Procs : JobSound(p)
  /\ NeverLost

(* What an operation acknowledged stays visible: looking a live ticket up  *)
(* never returns a version older than the last acknowledged mutation.      *)
AckedVisible ==
  \A t \in Live : Lookup(t) # Absent /\ Lookup(t).upd >= acked[t]

(* Without faults and bulk saves the store is an atomic map of tickets:    *)
(* every file replacement is one atomic change of what lookups return, or  *)
(* none at all (a rotation, the half of a move that is not looked at).     *)
Map == INSTANCE TicketMap WITH
         Ids <- TicketIds, Active <- "open", Blocked <- "blocked", Done <- "done",
         MaxStamp <- MaxClock,
         view <- [t \in TicketIds |-> Lookup(t)], used <- created
ImplementsMap == Map!Spec

(* Between mutations a ticket is owned by one file.                        *)
OneHome ==
  lock = NoProc => \A t \in TicketIds : Cardinality(Holders(t)) <= 1

(* A deletion that reached the disk is final: once no mutation is under    *)
(* way no file holds the ticket.                                           *)
DeletedGone == lock = NoProc => \A t \in deleted : Holders(t) = {}

(* What lookups return while nobody dies: what was acknowledged, from one  *)
(* file for each ticket, and nothing that was deleted.                     *)
LookupsTrue == AckedVisible /\ OneHome /\ DeletedGone

(* Work seen as done takes no active status back.                          *)
DoneNotReopened ==
  [][\A t \in TicketIds :
       Lookup(t) # Absent /\ Lookup(t).status = "done" /\ Lookup(t)' # Absent
       => Lookup(t)'.status \in Terminal]_vars

(* Ordinary updates are monotonic after done: work once seen as done never *)
(* takes an active status again.                                           *)
CompletedStaysTerminal ==
  \A t \in TicketIds :
    [](Lookup(t) # Absent /\ Lookup(t).status = "done"
       => [](Lookup(t) # Absent => Lookup(t).status \in Terminal))

(* Only a move may bring a ticket owned by history back to an operational  *)
(* sprint: a stale bulk snapshot must not.                                 *)
NoResurrection ==
  [][\A t \in TicketIds :
       /\ \E h \in Histories : files[h][t] # Absent
       /\ \A s \in Operational : files[s][t] = Absent
       /\ ~ \E p \in Procs : job[p].op = "move"
       => \A s \in Operational : files'[s][t] = Absent]_vars

(* With retain_terminal_days 0 the current sprint is active-only: no       *)
(* terminal ticket stays in it once the mutation and its rotation ended.   *)
Quiet == lock = NoProc /\ \A p \in Procs : pc[p] # "rearm"
CurrentActiveOnly == Quiet => TerminalIn(files[Current]) = {}

(* Stale bulk saves leave what lookups return true, and current active.    *)
SavesTrue == LookupsTrue /\ CurrentActiveOnly

(* Over the size limit the current sprint keeps at most RetainTerminal     *)
(* terminal tickets, and those it keeps are not older than the ones that   *)
(* left it.                                                                *)
CapacityRespected ==
  Quiet /\ Cardinality(Held(files[Current])) > MaxCurrent
  => Cardinality(TerminalIn(files[Current])) <= RetainTerminal

OldestLeaveFirst ==
  [][\A t \in TerminalIn(files[Current]) : files'[Current][t] = Absent =>
       \A u \in TerminalIn(files'[Current]) :
         ArchiveStamp(files[Current][t]) <= ArchiveStamp(files'[Current][u])]_files

(* Terminal tickets in history are grouped by completion date.             *)
GroupedByDate ==
  Quiet => \A h \in Histories : \A t \in TerminalIn(files[h]) :
             HistoryFile(files[h][t]) = h

(* Of two versions of a ticket a bulk save keeps the newer one; in         *)
(* particular an edit of an unchanged ticket reaches the disk.             *)
SaveKeepsNewer ==
  [][\A p \in Procs :
       pc[p] = "idle" /\ job'[p].op = "save" =>
         LET s == snap[p].sprint
             mine == snap[p].tickets
         IN \A t \in Held(mine) \cap Held(files[s]) :
              files[s][t].upd <= mine[t].upd => job'[p].dst[s][t] = mine[t]]_vars

(* When an archive run removes tickets from the current sprint, each of    *)
(* them is left in exactly one file: a later run repairs the duplicates an *)
(* interrupted one left.                                                   *)
RetryRepairs ==
  [][\A p \in Procs :
       pc[p] = "src" /\ job[p].op = "archive" /\ pc'[p] = "release" /\ files' # files
       => \A t \in job[p].tickets : Cardinality(Holders(t)') = 1]_vars

(* A move whose source removal failed leaves the ticket where it was.      *)
MoveRolledBack ==
  [][\A p \in Procs :
       pc[p] = "undo" /\ pc'[p] = "release"
       => \A t \in job[p].tickets : files'[job[p].to][t] = Absent]_vars

(* Whoever holds the mutation lock leaves it: a save that rotates would    *)
(* wait for itself if it did not drop the lock first.                      *)
LockReleased == \A p \in Procs : lock = p ~> lock # p
=============================================================================
