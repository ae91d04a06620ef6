------------------------- MODULE TicketStoreProofs -------------------------
(***************************************************************************)
(* Proofs about TicketStore, for every set of processes, every number of   *)
(* tickets and history files, every archive setting and every choice of    *)
(* the operations and faults that may occur.                               *)
(***************************************************************************)
EXTENDS TicketStore, FiniteSetTheorems, NaturalsInduction, WellFoundedInduction, TLAPS

-----------------------------------------------------------------------------
(* What the helpers return.                                                *)

(* Putting a record into a file content, or dropping tickets from it,      *)
(* gives a file content.                                                   *)
LEMMA ContentTypes ==
  ASSUME NEW content \in Contents
  PROVE  /\ \A t \in TicketIds, r \in Records \cup {Absent} :
              Put(content, t, r) \in Contents
         /\ \A T : Drop(content, T) \in Contents
         /\ Held(content) \subseteq TicketIds
         /\ \A t \in Held(content) : content[t] \in Records
BY DEF Contents, Put, Drop, Held

LEMMA NoTicketsType == NoTickets \in Contents
BY DEF NoTickets, Contents

LEMMA NoJobType == NoJob \in Jobs
<1>1. Current \in Sprints /\ {} \subseteq Sprints
  BY DEF Sprints, Operational
<1>2. 0 \in Stamps
  BY IdsAssumption DEF Stamps
<1>3. [s \in Sprints |-> NoTickets] \in [Sprints -> Contents]
  BY NoTicketsType
<1>4. NoTickets \in [TicketIds -> Histories \cup {Absent}]
  BY DEF NoTickets
<1> QED BY <1>1, <1>2, <1>3, <1>4, NoTicketsType DEF NoJob, Jobs, JobOps

(* A job that only replaces files is well-formed when its contents are.    *)
LEMMA WriteJobType ==
  ASSUME NEW op \in JobOps, NEW T \in SUBSET TicketIds, NEW stamp \in Stamps,
         NEW todo \in SUBSET Sprints, NEW dst \in [Sprints -> Contents]
  PROVE  WriteJob(op, T, stamp, todo, dst) \in Jobs
BY NoJobType DEF WriteJob, Jobs

LEMMA MoveJobType ==
  ASSUME NEW t \in TicketIds, NEW from \in Sprints, NEW to \in Sprints,
         NEW moved \in Records, files \in [Sprints -> Contents], clock + 1 \in Stamps
  PROVE  MoveJob(t, from, to, moved) \in Jobs
<1>1. Put(files[to], t, moved) \in Contents /\ Drop(files[from], {t}) \in Contents
  BY ContentTypes
<1>2. [files EXCEPT ![to] = Put(files[to], t, moved)] \in [Sprints -> Contents]
  BY <1>1
<1>3. (to \in exists) \in BOOLEAN
  OBVIOUS
<1> QED BY <1>1, <1>2, <1>3, NoJobType DEF MoveJob, Jobs, JobOps

(* The history file of a record is a history file.                         *)
LEMMA HistoryFileType ==
  ASSUME NEW r \in Records
  PROVE  HistoryFile(r) \in Histories
BY DateAssumption DEF HistoryFile, ArchiveStamp, Records

(* Only terminal tickets of the content are archived.                      *)
LEMMA CandidatesHeld ==
  ASSUME NEW content, NEW force
  PROVE  ArchiveCandidates(content, force) \subseteq TerminalIn(content)
BY DEF ArchiveCandidates, Stale, Oldest, TerminalIn

LEMMA ArchiveJobType ==
  ASSUME NEW content \in Contents, NEW T \in SUBSET Held(content),
         files \in [Sprints -> Contents]
  PROVE  ArchiveJob(content, T) \in Jobs
<1>1. T \subseteq TicketIds /\ \A t \in T : content[t] \in Records
  BY ContentTypes
<1>2. {HistoryFile(content[t]) : t \in T} \subseteq Sprints
  BY <1>1, HistoryFileType DEF Sprints
<1>3. ASSUME NEW s \in Sprints
      PROVE  [t \in TicketIds |-> IF t \in T /\ HistoryFile(content[t]) = s
                                  THEN content[t] ELSE files[s][t]] \in Contents
  BY <1>1 DEF Contents
<1>4. Drop(content, T) \in Contents
  BY ContentTypes
<1>5. [t \in TicketIds |-> IF t \in T THEN HistoryFile(content[t]) ELSE Absent]
        \in [TicketIds -> Histories \cup {Absent}]
  BY <1>1, HistoryFileType
<1> QED BY <1>1, <1>2, <1>3, <1>4, <1>5, NoJobType DEF ArchiveJob, Jobs, JobOps

(* What a bulk save merges is again a file content.                        *)
LEMMA MergedType ==
  ASSUME NEW s \in Sprints, NEW incoming \in Contents,
         files \in [Sprints -> Contents]
  PROVE  Merged(s, incoming) \in Contents
BY DEF Merged, Contents

LEMMA ClockType ==
  ASSUME TypeOK, Tick
  PROVE  clock + 1 \in Stamps /\ clock' \in Stamps /\ clock' = clock + 1
BY IdsAssumption DEF Tick, Stamps, TypeOK

(* Every version an update may write is a record.                          *)
LEMMA UpdatesType ==
  ASSUME NEW old \in Records, clock + 1 \in Stamps
  PROVE  Updates(old) \subseteq Records
<1>1. 0 \in Stamps
  BY IdsAssumption DEF Stamps
<1>2. ASSUME NEW f \in {old.fin, 0}
      PROVE  [old EXCEPT !.upd = clock + 1, !.fin = f] \in Records
  BY <1>1 DEF Records
<1>3. ASSUME NEW st \in Statuses, NEW keep \in BOOLEAN
      PROVE  [status |-> st, upd |-> clock + 1,
              fin |-> IF st \in Terminal THEN clock + 1
                      ELSE IF keep THEN old.fin ELSE 0] \in Records
  BY <1>1 DEF Records
<1> QED BY <1>2, <1>3 DEF Updates

(* Entering the lock changes nothing but lock, pc and job.                 *)
LEMMA EnterType ==
  ASSUME TypeOK, NEW p \in Procs, NEW from \in Phases, NEW phase \in Phases,
         NEW j \in Jobs, Enter(p, from, phase, j)
  PROVE  /\ lock' \in Procs \cup {NoProc}
         /\ pc' \in [Procs -> Phases]
         /\ job' \in [Procs -> Jobs]
BY DEF TypeOK, Enter, Goto

-----------------------------------------------------------------------------
(* Type correctness: initially, and preserved by every step.               *)
LEMMA TypeInit == Init => TypeOK
<1>1. ASSUME Init PROVE TypeOK
  <2>1. 0 \in Stamps /\ 1 \in 1..(MaxTickets + 1)
    BY IdsAssumption DEF Stamps
  <2>2. exists \subseteq Sprints
    BY <1>1 DEF Init, Sprints
  <2> QED BY <1>1, <2>1, <2>2, NoTicketsType, NoJobType DEF Init, TypeOK, Phases
<1> QED BY <1>1

LEMMA TypeStep == TypeOK /\ [Next]_vars => TypeOK'
<1> SUFFICES ASSUME TypeOK, [Next]_vars PROVE TypeOK'
  OBVIOUS
<1> USE DEF storeVars, histVars
<1>1. ASSUME NEW p \in Procs, NEW n \in 1..MaxTickets, NEW st \in Statuses,
             NEW sprintOf \in [NewIds(n) -> Operational],
             BeginCreate(p, n, sprintOf, st)
      PROVE  TypeOK'
  <2> DEFINE ids == NewIds(n)
             new == [status |-> st, upd |-> clock + 1, fin |-> 0]
             dst == [s \in Sprints |-> [t \in TicketIds |->
                       IF t \in ids /\ sprintOf[t] = s THEN new ELSE files[s][t]]]
             todo == {sprintOf[t] : t \in ids}
  <2>1. clock + 1 \in Stamps /\ clock' \in Stamps
    BY <1>1, ClockType DEF BeginCreate
  <2>2. new \in Records
    BY <2>1, IdsAssumption DEF Records, Stamps
  <2>3. dst \in [Sprints -> Contents]
    BY <2>2 DEF TypeOK, Contents
  <2>4. todo \subseteq Sprints
    BY DEF Sprints
  <2>5. ids \subseteq TicketIds /\ nextId' \in 1..(MaxTickets + 1)
    BY <1>1, IdsAssumption DEF BeginCreate, NewIds, TicketIds, TypeOK
  <2>6. WriteJob("create", ids, clock + 1, todo, dst) \in Jobs
    BY <2>1, <2>3, <2>4, <2>5, WriteJobType DEF JobOps
  <2>7. /\ lock' \in Procs \cup {NoProc}
        /\ pc' \in [Procs -> Phases]
        /\ job' \in [Procs -> Jobs]
    BY <1>1, <2>6, EnterType DEF BeginCreate, Phases
  <2> QED BY <1>1, <2>1, <2>5, <2>7 DEF BeginCreate, TypeOK
<1>2. ASSUME NEW p \in Procs, NEW t \in TicketIds, NEW f \in Sprints,
             BeginUpdate(p, t, f)
      PROVE  TypeOK'
  <2>1. clock + 1 \in Stamps /\ clock' \in Stamps
    BY <1>2, ClockType DEF BeginUpdate
  <2>2. files[f][t] \in Records
    BY <1>2 DEF BeginUpdate, IsFirst, Holders, TypeOK, Contents
  <2>3. PICK new \in Updates(files[f][t]) :
           Enter(p, "idle", "dst",
             WriteJob("update", {t}, clock + 1, {f},
                      [files EXCEPT ![f] = Put(files[f], t, new)]))
    BY <1>2 DEF BeginUpdate
  <2>4. new \in Records
    BY <2>1, <2>2, UpdatesType
  <2>5. [files EXCEPT ![f] = Put(files[f], t, new)] \in [Sprints -> Contents]
    BY <2>4, ContentTypes DEF TypeOK
  <2>6. WriteJob("update", {t}, clock + 1, {f},
                 [files EXCEPT ![f] = Put(files[f], t, new)]) \in Jobs
    BY <2>1, <2>5, WriteJobType DEF JobOps
  <2>7. /\ lock' \in Procs \cup {NoProc}
        /\ pc' \in [Procs -> Phases]
        /\ job' \in [Procs -> Jobs]
    BY <2>3, <2>6, EnterType DEF Phases
  <2> QED BY <1>2, <2>1, <2>7 DEF BeginUpdate, TypeOK
<1>3. ASSUME NEW p \in Procs, NEW T \in SUBSET TicketIds, BeginDelete(p, T)
      PROVE  TypeOK'
  <2> DEFINE doomed(s) == {t \in T : IsFirst(s, t)}
             dst == [s \in Sprints |-> Drop(files[s], doomed(s))]
             todo == {s \in Sprints : doomed(s) # {}}
  <2>1. dst \in [Sprints -> Contents]
    BY ContentTypes DEF TypeOK
  <2>2. WriteJob("delete", T, 0, todo, dst) \in Jobs
    <3>1. todo \subseteq Sprints /\ 0 \in Stamps
      BY IdsAssumption DEF Stamps
    <3> HIDE DEF dst, todo
    <3> QED BY <2>1, <3>1, WriteJobType DEF JobOps
  <2>3. /\ lock' \in Procs \cup {NoProc}
        /\ pc' \in [Procs -> Phases]
        /\ job' \in [Procs -> Jobs]
    BY <1>3, <2>2, EnterType DEF BeginDelete, Phases
  <2> QED BY <1>3, <2>3 DEF BeginDelete, TypeOK
<1>4. ASSUME NEW p \in Procs, NEW t \in TicketIds, NEW f \in Sprints,
             NEW to \in MoveTargets, BeginMove(p, t, f, to)
      PROVE  TypeOK'
  <2> DEFINE moved == [files[f][t] EXCEPT !.upd = clock + 1]
  <2>1. clock + 1 \in Stamps /\ clock' \in Stamps
    BY <1>4, ClockType DEF BeginMove
  <2>2. moved \in Records
    BY <1>4, <2>1 DEF BeginMove, IsFirst, Holders, TypeOK, Contents, Records
  <2>3. MoveJob(t, f, to, moved) \in Jobs
    BY <2>1, <2>2, MoveJobType, SprintsAssumption DEF TypeOK
  <2>4. /\ lock' \in Procs \cup {NoProc}
        /\ pc' \in [Procs -> Phases]
        /\ job' \in [Procs -> Jobs]
    BY <1>4, <2>3, EnterType DEF BeginMove, Phases
  <2> QED BY <1>4, <2>1, <2>4 DEF BeginMove, TypeOK
<1>5. ASSUME NEW p \in Procs, NEW s \in Operational, Load(p, s)
      PROVE  TypeOK'
  <2>1. [sprint |-> s, tickets |-> files[s]] \in Snapshots
    BY DEF TypeOK, Snapshots, Sprints
  <2> QED BY <1>5, <2>1 DEF Load, TypeOK
<1>6. ASSUME NEW p \in Procs, NEW t \in TicketIds, NEW st \in Statuses,
             EditSnapshot(p, t, st)
      PROVE  TypeOK'
  <2>1. snap[p] \in Snapshots
    BY <1>6 DEF EditSnapshot, TypeOK
  <2>2. [snap[p].tickets[t] EXCEPT !.status = st] \in Records
    BY <1>6, <2>1 DEF EditSnapshot, Snapshots, Contents, Records
  <2>3. Put(snap[p].tickets, t, [snap[p].tickets[t] EXCEPT !.status = st]) \in Contents
    BY <2>1, <2>2, ContentTypes DEF Snapshots
  <2> QED BY <1>6, <2>1, <2>3 DEF EditSnapshot, TypeOK, Snapshots
<1>7. ASSUME NEW p \in Procs, BeginSave(p)
      PROVE  TypeOK'
  <2> DEFINE s == snap[p].sprint
             dst == [files EXCEPT ![s] = Merged(s, snap[p].tickets)]
  <2>1. s \in Sprints /\ snap[p].tickets \in Contents
    BY <1>7 DEF BeginSave, TypeOK, Snapshots, Sprints
  <2>2. dst \in [Sprints -> Contents]
    BY <2>1, MergedType DEF TypeOK
  <2>3. WriteJob("save", {}, 0, {s}, dst) \in Jobs
    <3> HIDE DEF dst, s
    <3> QED BY <2>1, <2>2, WriteJobType, IdsAssumption DEF JobOps, Stamps
  <2>4. /\ lock' \in Procs \cup {NoProc}
        /\ pc' \in [Procs -> Phases]
        /\ job' \in [Procs -> Jobs]
    BY <1>7, <2>3, EnterType DEF BeginSave, Phases
  <2> QED BY <1>7, <2>4 DEF BeginSave, TypeOK
<1>8. ASSUME NEW p \in Procs, NEW from \in {"idle", "rearm"}, NEW force \in BOOLEAN,
             BeginArchive(p, from, force)
      PROVE  TypeOK'
  <2> DEFINE T == ArchiveCandidates(files[Current], force)
  <2>1. files[Current] \in Contents
    BY DEF TypeOK, Sprints, Operational
  <2>2. T \in SUBSET Held(files[Current])
    BY CandidatesHeld DEF TerminalIn
  <2>3. ArchiveJob(files[Current], T) \in Jobs
    BY <2>1, <2>2, ArchiveJobType DEF TypeOK
  <2>4. /\ lock' \in Procs \cup {NoProc}
        /\ pc' \in [Procs -> Phases]
        /\ job' \in [Procs -> Jobs]
    BY <1>8, <2>3, EnterType DEF BeginArchive, Phases
  <2> QED BY <1>8, <2>4 DEF BeginArchive, TypeOK
<1>9. ASSUME NEW p \in Procs, NEW s \in Sprints, WriteFile(p, s)
      PROVE  TypeOK'
  <2> DEFINE j == job[p]
  <2>1. j \in Jobs /\ j.dst[s] \in Contents
    BY DEF TypeOK, Jobs
  <2>2. files' \in [Sprints -> Contents] /\ exists' \subseteq Sprints
    BY <1>9, <2>1 DEF WriteFile, TypeOK
  <2>3. created' \subseteq TicketIds /\ deleted' \subseteq TicketIds
    BY <1>9, ContentTypes DEF WriteFile, TypeOK, Jobs, Held
  <2>4. acked' \in [TicketIds -> Stamps]
    BY <1>9, <2>1 DEF WriteFile, Acknowledge, TypeOK, Jobs
  <2>5. [j EXCEPT !.todo = @ \ {s}] \in Jobs
    BY <2>1 DEF Jobs
  <2>6. job' \in [Procs -> Jobs]
    BY <1>9, <2>5, NoJobType DEF WriteFile, TypeOK
  <2>7. AfterWrites(j) \in Phases
    BY DEF AfterWrites, Phases
  <2>8. pc' \in [Procs -> Phases] /\ lock' \in Procs \cup {NoProc}
    BY <1>9, <2>7 DEF WriteFile, Goto, TypeOK
  <2> QED BY <1>9, <2>2, <2>3, <2>4, <2>6, <2>8 DEF WriteFile, TypeOK
<1>10. ASSUME NEW p \in Procs, WriteLocator(p)
       PROVE  TypeOK'
  <2>1. locator' \in [TicketIds -> Histories \cup {Absent}]
    BY <1>10 DEF WriteLocator, TypeOK, Jobs
  <2> QED BY <1>10, <2>1 DEF WriteLocator, Goto, TypeOK, Phases
<1>11. ASSUME NEW p \in Procs, WriteSource(p)
       PROVE  TypeOK'
  <2>1. job[p] \in Jobs /\ job[p].rest \in Contents
    BY DEF TypeOK, Jobs
  <2>2. acked' \in [TicketIds -> Stamps]
    BY <1>11, <2>1 DEF WriteSource, Acknowledge, TypeOK, Jobs
  <2> QED BY <1>11, <2>1, <2>2 DEF WriteSource, Goto, TypeOK, Phases
<1>12. ASSUME NEW p \in Procs, UndoMove(p)
       PROVE  TypeOK'
  <2>1. job[p].to \in Sprints /\ job[p].dst[job[p].to] \in Contents
    BY DEF TypeOK, Jobs
  <2> QED BY <1>12, <2>1, NoTicketsType DEF UndoMove, Goto, TypeOK, Phases
<1>13. ASSUME NEW p \in Procs, NothingToArchive(p)
       PROVE  TypeOK'
  BY <1>13 DEF NothingToArchive, Goto, TypeOK, Phases
<1>14. ASSUME NEW p \in Procs, Rotate(p)
       PROVE  TypeOK'
  <2> DEFINE T == ArchiveCandidates(files[Current], FALSE)
  <2>1. files[Current] \in Contents
    BY DEF TypeOK, Sprints, Operational
  <2>2. T \in SUBSET Held(files[Current])
    BY CandidatesHeld DEF TerminalIn
  <2>3. ArchiveJob(files[Current], T) \in Jobs
    BY <2>1, <2>2, ArchiveJobType DEF TypeOK
  <2> QED BY <1>14, <2>3 DEF Rotate, Goto, TypeOK, Phases
<1>15. ASSUME NEW p \in Procs, Release(p)
       PROVE  TypeOK'
  BY <1>15, NoJobType DEF Release, Goto, TypeOK, Phases
<1>16. ASSUME NEW p \in Procs, SourceWriteFails(p)
       PROVE  TypeOK'
  BY <1>16 DEF SourceWriteFails, Goto, TypeOK, Phases
<1>17. ASSUME NEW p \in Procs, Crash(p)
       PROVE  TypeOK'
  BY <1>17, NoJobType DEF Crash, Goto, TypeOK, Phases
<1>18. CASE UNCHANGED vars
  BY <1>18 DEF vars, procVars, TypeOK
<1> QED BY <1>1, <1>2, <1>3, <1>4, <1>5, <1>6, <1>7, <1>8, <1>9, <1>10, <1>11,
           <1>12, <1>13, <1>14, <1>15, <1>16, <1>17, <1>18 DEF Next, Begin, Continue

(* Every state of the store is well-typed.                                 *)
THEOREM TypeCorrect == Spec => []TypeOK
BY TypeInit, TypeStep, PTL DEF Spec

-----------------------------------------------------------------------------
(* No ticket is ever lost.                                                 *)

(* What Put, Drop, a merge and an archive job leave in a content.          *)
LEMMA HeldFacts ==
  ASSUME NEW content \in Contents
  PROVE  /\ \A t \in TicketIds, r \in Records :
              Held(Put(content, t, r)) = Held(content) \cup {t}
         /\ \A T : Held(Drop(content, T)) = Held(content) \ T
         /\ Held(NoTickets) = {}
BY SprintsAssumption DEF Contents, Put, Drop, Held, NoTickets

(* A job for one process does not touch what another may rely on.          *)
LEMMA OtherJob ==
  ASSUME NEW q \in Procs, JobSound(q), pc'[q] = pc[q], job'[q] = job[q],
         UNCHANGED <<files, exists>>
  PROVE  JobSound(q)'
BY DEF JobSound, WritesKeep, Covered, Undoable, Held

(* A process with no file to write has a sound job.                        *)
LEMMA NoWriteSound ==
  ASSUME NEW p \in Procs, pc'[p] \in {"idle", "archive", "rearm", "release"}
  PROVE  JobSound(p)'
BY DEF JobSound

(* The lock holder is the only process with a job under way, so whatever   *)
(* it writes, the jobs of the others stay sound.                           *)
LEMMA OthersOutside ==
  ASSUME NEW p \in Procs, NEW q \in Procs, p # q, LockOwned, JobSound(q),
         pc[p] \in InLock, pc'[q] = pc[q], NoProc \notin Procs
  PROVE  JobSound(q)'
<1>1. pc[q] \notin InLock
  BY DEF LockOwned
<1> QED BY <1>1 DEF JobSound, InLock

(* Steps that leave every file as it is, and give p a sound job, keep the  *)
(* invariant.                                                              *)
LEMMA QuietStep ==
  ASSUME IInv, TypeOK', LockOwned', NEW p \in Procs, JobSound(p)',
         UNCHANGED <<files, exists, created, deleted>>,
         \A q \in Procs \ {p} : pc'[q] = pc[q] /\ job'[q] = job[q]
  PROVE  IInv'
<1>1. \A q \in Procs : JobSound(q)'
  <2> TAKE q \in Procs
  <2>1. CASE q = p BY <2>1
  <2>2. CASE q # p BY <2>2, OtherJob DEF IInv
  <2> QED BY <2>1, <2>2
<1>2. GhostFilesEmpty' /\ NeverLost'
  BY DEF IInv, GhostFilesEmpty, NeverLost, Live, Holders, Held
<1> QED BY <1>1, <1>2 DEF IInv

(* Steps outside the files, the lock and the jobs.                         *)
LEMMA JobUntouched ==
  ASSUME IInv, TypeOK', UNCHANGED <<files, exists, created, deleted, lock, pc, job>>
  PROVE  IInv'
<1>1. \A q \in Procs : JobSound(q)'
  BY OtherJob DEF IInv
<1>2. GhostFilesEmpty' /\ NeverLost' /\ LockOwned'
  BY DEF IInv, GhostFilesEmpty, NeverLost, Live, Holders, Held, LockOwned
<1> QED BY <1>1, <1>2 DEF IInv

(* Entering the lock keeps it owned by the process inside.                 *)
LEMMA EnterLock ==
  ASSUME TypeOK, LockOwned, NEW p \in Procs, NEW from, NEW phase, NEW j,
         Enter(p, from, phase, j)
  PROVE  /\ LockOwned'
         /\ pc'[p] = phase /\ job'[p] = j
         /\ \A q \in Procs \ {p} : pc'[q] = pc[q] /\ job'[q] = job[q]
BY ProcsAssumption DEF TypeOK, LockOwned, Enter, Goto

(* A job that enters the phase "dst" must be sound with respect to the     *)
(* files it was computed from, which are still on disk.                    *)
LEMMA DstSound ==
  ASSUME NEW p \in Procs, NEW j, pc'[p] = "dst", job'[p] = j,
         UNCHANGED <<files, exists>>,
         WritesKeep(j),
         j.op \in {"archive", "move"} => Covered(j, j.todo),
         j.op = "move" => j.todo = {j.to},
         Undoable(j, j.dst[j.to])
  PROVE  JobSound(p)'
BY DEF JobSound, WritesKeep, Covered, Undoable, Held

(* Archiving takes tickets from the current sprint only, and writes each   *)
(* of them to a history file first.                                        *)
LEMMA ArchiveSound ==
  ASSUME TypeOK, NEW p \in Procs, pc'[p] = "dst", UNCHANGED <<files, exists>>,
         NEW T \in SUBSET Held(files[Current]),
         job'[p] = ArchiveJob(files[Current], T)
  PROVE  JobSound(p)'
<1> DEFINE j == ArchiveJob(files[Current], T)
           content == files[Current]
<1>1. content \in Contents /\ T \subseteq TicketIds
  BY ContentTypes DEF TypeOK, Sprints, Operational
<1>2. \A t \in T : content[t] \in Records /\ HistoryFile(content[t]) \in Histories
  BY <1>1, ContentTypes, HistoryFileType
<1>3. /\ j.op = "archive" /\ j.from = Current /\ j.rest = Drop(content, T)
      /\ j.todo = {HistoryFile(content[t]) : t \in T}
      /\ \A s \in Sprints : j.dst[s] = [t \in TicketIds |->
            IF t \in T /\ HistoryFile(content[t]) = s THEN content[t] ELSE files[s][t]]
  BY DEF ArchiveJob, NoJob
<1>4. j.todo \subseteq Histories /\ j.todo \subseteq Sprints /\ Current \notin j.todo
  BY <1>2, <1>3, SprintsAssumption DEF Sprints, Operational
<1>5. ASSUME NEW s \in j.todo PROVE Held(files[s]) \subseteq Held(j.dst[s])
  <2>1. s \in Sprints
    BY <1>4
  <2>2. j.dst[s] = [t \in TicketIds |->
            IF t \in T /\ HistoryFile(content[t]) = s THEN content[t] ELSE files[s][t]]
    BY <1>3, <2>1
  <2>3. \A t \in T : content[t] # Absent
    BY DEF Held
  <2> HIDE DEF j, content
  <2> QED BY <2>2, <2>3 DEF Held
<1>6. Held(j.rest) = Held(content) \ T
  BY <1>1, <1>3, HeldFacts
<1>7. ASSUME NEW t \in Held(content) \ Held(j.rest)
      PROVE  \E s \in Sprints \ {Current} : s \in j.todo /\ t \in Held(j.dst[s])
  <2>1. t \in T /\ t \in TicketIds
    BY <1>1, <1>6
  <2>2. HistoryFile(content[t]) \in j.todo
    BY <2>1, <1>3
  <2>3. t \in Held(j.dst[HistoryFile(content[t])])
    BY <2>1, <2>2, <1>2, <1>3, <1>4, SprintsAssumption DEF Held
  <2> QED BY <2>2, <2>3, <1>4
<1>8. WritesKeep(j)
  BY <1>5 DEF WritesKeep
<1>9. Covered(j, j.todo)
  <2> HIDE DEF j
  <2> QED BY <1>3, <1>4, <1>6, <1>7 DEF Covered
<1>10. Undoable(j, j.dst[j.to]) /\ j.op = "archive" /\ job'[p] = j
  <2>1. job'[p] = j
    OBVIOUS
  <2> HIDE DEF j
  <2> QED BY <1>3, <2>1 DEF Undoable
<1> HIDE DEF j
<1> QED BY <1>8, <1>9, <1>10, DstSound

(* Entering the lock with a sound job keeps the invariant.                 *)
LEMMA EnterInv ==
  ASSUME IInv, TypeOK', NEW p \in Procs, NEW from, NEW j, Enter(p, from, "dst", j),
         UNCHANGED <<files, exists, created, deleted>>,
         WritesKeep(j),
         j.op \in {"archive", "move"} => Covered(j, j.todo),
         j.op = "move" => j.todo = {j.to},
         Undoable(j, j.dst[j.to])
  PROVE  IInv'
<1>1. TypeOK /\ LockOwned
  BY DEF IInv
<1>2. /\ LockOwned'
      /\ pc'[p] = "dst" /\ job'[p] = j
      /\ \A q \in Procs \ {p} : pc'[q] = pc[q] /\ job'[q] = job[q]
  BY <1>1, EnterLock
<1>3. JobSound(p)'
  BY <1>2, DstSound
<1> QED BY <1>2, <1>3, QuietStep

(* A job that takes nothing from another file is sound when it keeps what  *)
(* the files it replaces hold, or deletes.                                 *)
LEMMA EnterWriteInv ==
  ASSUME IInv, TypeOK', NEW p \in Procs, NEW op \in {"create", "update", "delete", "save"},
         NEW T, NEW stamp, NEW todo, NEW dst,
         Enter(p, "idle", "dst", WriteJob(op, T, stamp, todo, dst)),
         UNCHANGED <<files, exists, created, deleted>>,
         op # "delete" => \A s \in todo : Held(files[s]) \subseteq Held(dst[s])
  PROVE  IInv'
<1> DEFINE j == WriteJob(op, T, stamp, todo, dst)
<1>1. j.op = op /\ j.todo = todo /\ j.dst = dst
  BY DEF WriteJob, NoJob
<1> HIDE DEF j
<1>2. WritesKeep(j) /\ Undoable(j, j.dst[j.to])
  BY <1>1 DEF WritesKeep, Undoable
<1>3. Enter(p, "idle", "dst", j)
  BY DEF j
<1> QED BY <1>1, <1>2, <1>3, EnterInv

LEMMA CreateInv ==
  ASSUME IInv, TypeOK', NEW p \in Procs, NEW n \in 1..MaxTickets, NEW st \in Statuses,
         NEW sprintOf \in [NewIds(n) -> Operational],
         BeginCreate(p, n, sprintOf, st)
  PROVE  IInv'
<1> DEFINE ids == NewIds(n)
           new == [status |-> st, upd |-> clock + 1, fin |-> 0]
           dst == [s \in Sprints |-> [t \in TicketIds |->
                     IF t \in ids /\ sprintOf[t] = s THEN new ELSE files[s][t]]]
           todo == {sprintOf[t] : t \in ids}
<1>1. new # Absent
  <2>1. clock + 1 \in Stamps
    BY ClockType DEF BeginCreate, IInv
  <2> QED BY <2>1, IdsAssumption, SprintsAssumption DEF Records, Stamps
<1>2. \A s \in Sprints : Held(files[s]) \subseteq Held(dst[s])
  <2> HIDE DEF new, ids
  <2> QED BY <1>1 DEF Held
<1>3. todo \subseteq Sprints
  BY DEF Sprints
<1>4. /\ Enter(p, "idle", "dst", WriteJob("create", ids, clock + 1, todo, dst))
      /\ UNCHANGED <<files, exists, created, deleted>>
  BY DEF BeginCreate, histVars
<1> HIDE DEF dst, todo
<1> QED BY <1>2, <1>3, <1>4, EnterWriteInv

LEMMA UpdateInv ==
  ASSUME IInv, TypeOK', NEW p \in Procs, NEW t \in TicketIds, NEW f \in Sprints,
         BeginUpdate(p, t, f)
  PROVE  IInv'
<1>1. clock + 1 \in Stamps /\ files[f] \in Contents
  BY ClockType DEF BeginUpdate, IInv, TypeOK
<1>2. files[f][t] \in Records
  BY <1>1 DEF BeginUpdate, IsFirst, Holders, Contents
<1>3. PICK new \in Updates(files[f][t]) :
         Enter(p, "idle", "dst",
           WriteJob("update", {t}, clock + 1, {f},
                    [files EXCEPT ![f] = Put(files[f], t, new)]))
  BY DEF BeginUpdate
<1> DEFINE dst == [files EXCEPT ![f] = Put(files[f], t, new)]
<1>4. new \in Records
  BY <1>1, <1>2, UpdatesType
<1>5. dst[f] = Put(files[f], t, new)
  BY DEF IInv, TypeOK
<1>6. Held(files[f]) \subseteq Held(dst[f])
  BY <1>1, <1>4, <1>5, HeldFacts
<1>7. UNCHANGED <<files, exists, created, deleted>>
  BY DEF BeginUpdate, storeVars, histVars
<1> HIDE DEF dst
<1>8. Enter(p, "idle", "dst", WriteJob("update", {t}, clock + 1, {f}, dst))
  BY <1>3 DEF dst
<1> QED BY <1>6, <1>7, <1>8, EnterWriteInv

LEMMA DeleteInv ==
  ASSUME IInv, TypeOK', NEW p \in Procs, NEW T \in SUBSET TicketIds, BeginDelete(p, T)
  PROVE  IInv'
<1> DEFINE doomed(s) == {t \in T : IsFirst(s, t)}
           todo == {s \in Sprints : doomed(s) # {}}
           dst == [s \in Sprints |-> Drop(files[s], doomed(s))]
<1>1. /\ Enter(p, "idle", "dst", WriteJob("delete", T, 0, todo, dst))
      /\ UNCHANGED <<files, exists, created, deleted>>
  BY DEF BeginDelete, storeVars, histVars
<1> HIDE DEF todo, dst
<1> QED BY <1>1, EnterWriteInv

LEMMA SaveInv ==
  ASSUME IInv, TypeOK', NEW p \in Procs, BeginSave(p)
  PROVE  IInv'
<1> DEFINE s == snap[p].sprint
           dst == [files EXCEPT ![s] = Merged(s, snap[p].tickets)]
<1>1. s \in Sprints
  BY DEF BeginSave, IInv, TypeOK, Snapshots, Sprints
<1>2. dst[s] = Merged(s, snap[p].tickets)
  BY <1>1 DEF IInv, TypeOK
<1>3. Held(files[s]) \subseteq Held(Merged(s, snap[p].tickets))
  BY DEF Held, Merged
<1>4. /\ Enter(p, "idle", "dst", WriteJob("save", {}, 0, {s}, dst))
      /\ UNCHANGED <<files, exists, created, deleted>>
  BY DEF BeginSave, storeVars, histVars
<1> HIDE DEF s, dst
<1> QED BY <1>2, <1>3, <1>4, EnterWriteInv

(* A move writes its ticket to the destination before it takes it from the *)
(* source; a destination it has to create holds nothing yet.               *)
LEMMA MoveInv ==
  ASSUME IInv, TypeOK', NEW p \in Procs, NEW t \in TicketIds, NEW f \in Sprints,
         NEW to \in MoveTargets, BeginMove(p, t, f, to)
  PROVE  IInv'
<1> DEFINE moved == [files[f][t] EXCEPT !.upd = clock + 1]
           j == MoveJob(t, f, to, moved)
<1>1. /\ clock + 1 \in Stamps /\ to \in Sprints /\ f # to
      /\ files \in [Sprints -> Contents]
      /\ t \in Held(files[f])
  BY ClockType, SprintsAssumption DEF BeginMove, IsFirst, Holders, IInv, TypeOK, Held
<1>2. files[f] \in Contents /\ files[to] \in Contents
  BY <1>1
<1>3. moved \in Records
  BY <1>1, <1>2 DEF Held, Contents, Records
<1>4. /\ j.op = "move" /\ j.tickets = {t} /\ j.todo = {to} /\ j.from = f /\ j.to = to
      /\ j.rest = Drop(files[f], {t}) /\ (j.existed <=> to \in exists)
      /\ j.dst = [files EXCEPT ![to] = Put(files[to], t, moved)]
  <2> HIDE DEF moved
  <2> QED BY DEF MoveJob, NoJob
<1>5. Enter(p, "idle", "dst", j) /\ UNCHANGED <<files, exists, created, deleted>>
  BY DEF BeginMove, storeVars, histVars
<1>6. ~ j.existed => Held(files[to]) = {}
  BY <1>1, <1>4 DEF IInv, GhostFilesEmpty
<1> HIDE DEF moved, j
<1>7. Held(j.dst[to]) = Held(files[to]) \cup {t}
  BY <1>1, <1>2, <1>3, <1>4, HeldFacts
<1>8. Held(j.rest) = Held(files[f]) \ {t}
  BY <1>2, <1>4, HeldFacts
<1>9. WritesKeep(j)
  BY <1>4, <1>7 DEF WritesKeep
<1>10. Covered(j, j.todo)
  BY <1>1, <1>4, <1>7, <1>8 DEF Covered
<1>11. Undoable(j, j.dst[j.to])
  BY <1>1, <1>4, <1>6, <1>7 DEF Undoable
<1> QED BY <1>4, <1>5, <1>9, <1>10, <1>11, EnterInv

(* A rotation, under a lock taken for it or held already.                  *)
LEMMA ArchiveInv ==
  ASSUME IInv, TypeOK', NEW p \in Procs,
         NEW from \in {"idle", "rearm"}, NEW force \in BOOLEAN,
         BeginArchive(p, from, force)
  PROVE  IInv'
<1> DEFINE T == ArchiveCandidates(files[Current], force)
           j == ArchiveJob(files[Current], T)
<1>1. TypeOK /\ LockOwned
  BY DEF IInv
<1>2. Enter(p, from, "dst", j) /\ UNCHANGED <<files, exists, created, deleted>>
  BY DEF BeginArchive, storeVars, histVars
<1>3. T \in SUBSET Held(files[Current])
  BY CandidatesHeld DEF TerminalIn
<1>4. /\ LockOwned'
      /\ pc'[p] = "dst" /\ job'[p] = j
      /\ \A q \in Procs \ {p} : pc'[q] = pc[q] /\ job'[q] = job[q]
  <2> HIDE DEF j
  <2> QED BY <1>1, <1>2, EnterLock
<1> HIDE DEF T
<1>5. JobSound(p)'
  BY <1>1, <1>2, <1>3, <1>4, ArchiveSound
<1> QED BY <1>2, <1>4, <1>5, QuietStep

LEMMA RotateInv ==
  ASSUME IInv, TypeOK', NEW p \in Procs, Rotate(p)
  PROVE  IInv'
<1> DEFINE T == ArchiveCandidates(files[Current], FALSE)
<1>1. TypeOK /\ LockOwned /\ pc[p] = "archive"
  BY DEF IInv, Rotate
<1>2. /\ UNCHANGED <<files, exists, created, deleted, lock>>
      /\ \A q \in Procs \ {p} : pc'[q] = pc[q] /\ job'[q] = job[q]
  BY <1>1 DEF Rotate, Goto, TypeOK, storeVars, histVars
<1>3. LockOwned'
  BY <1>1, <1>2 DEF LockOwned, InLock
<1>4. T \in SUBSET Held(files[Current])
  BY CandidatesHeld DEF TerminalIn
<1>5. CASE T = {}
  <2>1. pc'[p] = "release"
    BY <1>1, <1>5 DEF Rotate, Goto, TypeOK
  <2> QED BY <1>2, <1>3, <2>1, NoWriteSound, QuietStep
<1>6. CASE T # {}
  <2>1. pc'[p] = "dst" /\ job'[p] = ArchiveJob(files[Current], T)
    BY <1>1, <1>6 DEF Rotate, Goto, TypeOK
  <2> HIDE DEF T
  <2>2. JobSound(p)'
    BY <1>1, <1>2, <1>4, <2>1, ArchiveSound
  <2> QED BY <1>2, <1>3, <2>2, QuietStep
<1> QED BY <1>5, <1>6

(* Steps of the lock holder that change files: the jobs of the others      *)
(* claim nothing about them.                                               *)
LEMMA FileStep ==
  ASSUME IInv, TypeOK', LockOwned', GhostFilesEmpty', NeverLost',
         NEW p \in Procs, pc[p] \in InLock, JobSound(p)',
         \A q \in Procs \ {p} : pc'[q] = pc[q]
  PROVE  IInv'
<1>1. ASSUME NEW q \in Procs PROVE JobSound(q)'
  <2>1. CASE q = p BY <2>1
  <2>2. CASE q # p BY <2>2, OthersOutside, ProcsAssumption DEF IInv
  <2> QED BY <2>1, <2>2
<1> QED BY <1>1 DEF IInv

(* Replacing a file of the job: a job that does not delete keeps what the  *)
(* file holds, and a deletion is recorded with the file it takes effect in.*)
LEMMA WriteFileInv ==
  ASSUME IInv, TypeOK', NEW p \in Procs, NEW s \in Sprints, WriteFile(p, s)
  PROVE  IInv'
<1> DEFINE j == job[p]
           last == j.todo = {s}
           left == last /\ DropsLock(j)
<1>1. /\ pc[p] = "dst" /\ s \in j.todo /\ lock = p
      /\ j \in Jobs /\ j.dst[s] \in Contents
      /\ files \in [Sprints -> Contents]
  BY DEF WriteFile, IInv, TypeOK, LockOwned, InLock, Jobs
<1>2. /\ files'[s] = j.dst[s]
      /\ \A r \in Sprints \ {s} : files'[r] = files[r]
      /\ exists' = exists \cup {s}
  BY <1>1 DEF WriteFile
<1>3. /\ \A q \in Procs \ {p} : pc'[q] = pc[q]
      /\ pc'[p] = IF last THEN AfterWrites(j) ELSE "dst"
      /\ job'[p] = IF left THEN NoJob ELSE [j EXCEPT !.todo = @ \ {s}]
      /\ lock' = IF left THEN NoProc ELSE lock
  BY <1>1 DEF WriteFile, Goto, IInv, TypeOK
<1>4. WritesKeep(j)
  BY <1>1 DEF IInv, JobSound
<1>5. j.op # "delete" => \A r \in Sprints : Held(files[r]) \subseteq Held(files'[r])
  BY <1>1, <1>2, <1>4 DEF WritesKeep
<1>6. LockOwned'
  <2>1. left => AfterWrites(j) \notin InLock
    BY DEF AfterWrites, InLock, DropsLock
  <2> QED BY <1>1, <1>3, <2>1 DEF LockOwned, IInv
<1>7. GhostFilesEmpty'
  BY <1>2 DEF GhostFilesEmpty, IInv, Held
<1>8. NeverLost'
  <2> SUFFICES ASSUME NEW t \in Live' PROVE Holders(t)' # {}
    BY DEF NeverLost
  <2>1. CASE j.op = "delete"
    <3>1. t \in Live /\ ~ (t \in Held(files[s]) \ Held(j.dst[s]))
      BY <2>1 DEF WriteFile, Live
    <3>2. PICK r \in Sprints : files[r][t] # Absent
      BY <3>1 DEF IInv, NeverLost, Holders
    <3>3. t \in TicketIds
      BY <3>1 DEF Live, IInv, TypeOK
    <3> QED BY <3>1, <3>2, <3>3, <1>2 DEF Holders, Held
  <2>2. CASE j.op # "delete"
    <3>1. t \in TicketIds /\ (t \in Live \/ t \in Held(files'[s]))
      BY <2>2, <1>2, ContentTypes, <1>1 DEF WriteFile, Live, IInv, TypeOK
    <3>2. CASE t \in Held(files'[s])
      BY <3>2 DEF Holders, Held
    <3>3. CASE t \in Live
      <4>1. PICK r \in Sprints : files[r][t] # Absent
        BY <3>3 DEF IInv, NeverLost, Holders
      <4> QED BY <4>1, <3>1, <2>2, <1>5 DEF Holders, Held
    <3> QED BY <3>1, <3>2, <3>3
  <2> QED BY <2>1, <2>2
<1>9. JobSound(p)'
  <2>1. CASE ~ left /\ (~ last \/ j.op \in {"archive", "move"})
    <3> DEFINE k == [j EXCEPT !.todo = @ \ {s}]
    <3>1. /\ job'[p] = k /\ k.todo = j.todo \ {s}
          /\ k.op = j.op /\ k.dst = j.dst /\ k.from = j.from /\ k.rest = j.rest
          /\ k.to = j.to /\ k.existed = j.existed /\ k.tickets = j.tickets
      BY <1>1, <1>3, <2>1 DEF Jobs
    <3> HIDE DEF k
    <3>2. WritesKeep(job[p])'
      BY <1>1, <1>2, <1>4, <3>1 DEF WritesKeep, Jobs
    <3>3. ASSUME j.op \in {"archive", "move"}
          PROVE  Covered(job[p], job[p].todo)'
      <4>1. Covered(j, j.todo)
        BY <1>1, <3>3 DEF IInv, JobSound
      <4>2. j.from # s /\ j.from \in Sprints /\ files'[j.from] = files[j.from]
        BY <1>1, <1>2, <4>1 DEF Covered, Jobs
      <4>3. ASSUME NEW t \in Held(files[j.from]) \ Held(j.rest)
            PROVE  \E r \in Sprints \ {j.from} :
                     t \in Held(files'[r]) \/ (r \in k.todo /\ t \in Held(j.dst[r]))
        <5>1. PICK r \in Sprints \ {j.from} :
                t \in Held(files[r]) \/ (r \in j.todo /\ t \in Held(j.dst[r]))
          BY <4>1, <4>3 DEF Covered
        <5> QED BY <5>1, <1>2, <1>5, <3>1, <3>3
      <4> HIDE DEF j
      <4>4. job'[p].from = j.from /\ job'[p].rest = j.rest /\ job'[p].dst = j.dst
        BY <3>1
      <4>5. Held(job'[p].rest) = Held(j.rest) /\ Held(files'[j.from]) = Held(files[j.from])
        BY <4>4, <4>2
      <4> QED BY <4>1, <4>2, <4>3, <4>4, <4>5, <3>1 DEF Covered, Held
    <3>4. j.op = "move" => last /\ s = j.to
      BY <1>1 DEF IInv, JobSound
    <3>5. ASSUME j.op = "move" PROVE Undoable(job[p], files[job[p].to])'
      <4>1. Undoable(j, j.dst[j.to]) /\ s = j.to
        BY <1>1, <3>4, <3>5 DEF IInv, JobSound
      <4>2. j.from \in Sprints
        BY <1>1 DEF Jobs
      <4> HIDE DEF j
      <4> QED BY <4>1, <4>2, <3>5, <3>1, <1>2 DEF Undoable, Held
    <3>6. CASE ~ last
      <4>1. pc'[p] = "dst"
        BY <1>3, <3>6
      <4>2. job'[p].op # "move"
        BY <3>1, <3>4, <3>6
      <4> QED BY <3>1, <3>2, <3>3, <4>1, <4>2 DEF JobSound, Undoable
    <3>7. CASE last /\ j.op = "archive"
      <4>1. pc'[p] = "loc" /\ job'[p].todo = {} /\ job'[p].op = "archive"
        BY <1>3, <3>1, <3>7 DEF AfterWrites
      <4> QED BY <3>3, <3>7, <4>1 DEF JobSound, Undoable
    <3>8. CASE last /\ j.op = "move"
      <4>1. pc'[p] = "src" /\ job'[p].todo = {} /\ job'[p].to = s
        BY <1>3, <3>1, <3>4, <3>8 DEF AfterWrites
      <4> QED BY <1>2, <3>3, <3>5, <3>8, <4>1 DEF JobSound
    <3> QED BY <2>1, <3>6, <3>7, <3>8
  <2>2. CASE left \/ (last /\ j.op \notin {"archive", "move"})
    <3>1. pc'[p] \in {"idle", "archive", "rearm", "release"}
      BY <2>2, <1>3 DEF AfterWrites, DropsLock
    <3> QED BY <3>1, NoWriteSound
  <2> QED BY <2>1, <2>2
<1> QED BY <1>1, <1>3, <1>6, <1>7, <1>8, <1>9, FileStep DEF InLock

(* Taking tickets from the source: each that goes is somewhere else.       *)
LEMMA WriteSourceInv ==
  ASSUME IInv, TypeOK', NEW p \in Procs, WriteSource(p)
  PROVE  IInv'
<1> DEFINE j == job[p]
<1>1. /\ pc[p] = "src" /\ j \in Jobs /\ j.from \in Sprints
      /\ files \in [Sprints -> Contents]
  BY DEF WriteSource, IInv, TypeOK, Jobs
<1>2. /\ files'[j.from] = j.rest
      /\ \A r \in Sprints \ {j.from} : files'[r] = files[r]
      /\ UNCHANGED <<exists, created, deleted, lock>>
      /\ pc'[p] = "release" /\ \A q \in Procs \ {p} : pc'[q] = pc[q]
  BY <1>1 DEF WriteSource, Goto, IInv, TypeOK
<1>3. Covered(j, {})
  BY <1>1 DEF IInv, JobSound
<1>4. LockOwned'
  BY <1>1, <1>2 DEF LockOwned, IInv, InLock
<1>5. GhostFilesEmpty'
  BY <1>1, <1>2, <1>3 DEF GhostFilesEmpty, IInv, Covered, Held
<1>6. NeverLost'
  <2> SUFFICES ASSUME NEW t \in Live' PROVE Holders(t)' # {}
    BY DEF NeverLost
  <2>1. t \in Live /\ t \in TicketIds
    BY <1>2 DEF Live, IInv, TypeOK
  <2>2. PICK r \in Sprints : t \in Held(files[r])
    BY <2>1 DEF IInv, NeverLost, Holders, Held
  <2>3. PICK h \in Sprints : t \in Held(files'[h])
    BY <2>2, <1>1, <1>2, <1>3 DEF Covered
  <2> QED BY <2>3 DEF Holders, Held
<1> QED BY <1>1, <1>2, <1>4, <1>5, <1>6, NoWriteSound, FileStep DEF InLock

(* Undoing a move: its ticket is still in the source.                      *)
LEMMA UndoMoveInv ==
  ASSUME IInv, TypeOK', NEW p \in Procs, UndoMove(p)
  PROVE  IInv'
<1> DEFINE j == job[p]
<1>1. /\ pc[p] = "undo" /\ j \in Jobs /\ j.from \in Sprints /\ j.to \in Sprints
      /\ files \in [Sprints -> Contents]
  BY DEF UndoMove, IInv, TypeOK, Jobs
<1>2. /\ files'[j.to] = IF j.existed THEN j.dst[j.to] ELSE NoTickets
      /\ exists' = IF j.existed THEN exists ELSE exists \ {j.to}
      /\ \A r \in Sprints \ {j.to} : files'[r] = files[r]
      /\ UNCHANGED <<created, deleted, lock>>
      /\ pc'[p] = "release" /\ \A q \in Procs \ {p} : pc'[q] = pc[q]
  BY <1>1 DEF UndoMove, Goto, IInv, TypeOK, histVars
<1>3. /\ j.op = "move" /\ j.to \in exists
      /\ Undoable(j, files[j.to])
  BY <1>1 DEF IInv, JobSound
<1>4. LockOwned'
  BY <1>1, <1>2 DEF LockOwned, IInv, InLock
<1>5. Held(NoTickets) = {}
  BY DEF Held, NoTickets
<1>6. GhostFilesEmpty'
  BY <1>2, <1>3, <1>5 DEF GhostFilesEmpty, IInv, Held
<1>7. NeverLost'
  <2> SUFFICES ASSUME NEW t \in Live' PROVE Holders(t)' # {}
    BY DEF NeverLost
  <2>1. t \in Live /\ t \in TicketIds
    BY <1>2 DEF Live, IInv, TypeOK
  <2>2. PICK r \in Sprints : t \in Held(files[r])
    BY <2>1 DEF IInv, NeverLost, Holders, Held
  <2>3. PICK h \in Sprints : t \in Held(files'[h])
    BY <2>2, <1>1, <1>2, <1>3 DEF Undoable
  <2> QED BY <2>3 DEF Holders, Held
<1> QED BY <1>1, <1>2, <1>4, <1>6, <1>7, NoWriteSound, FileStep DEF InLock

-----------------------------------------------------------------------------
LEMMA IInvInit == Init => IInv
<1>1. ASSUME Init PROVE IInv
  <2>1. TypeOK
    BY <1>1, TypeInit
  <2>2. \A p \in Procs : pc[p] = "idle" /\ JobSound(p)
    BY <1>1 DEF Init, JobSound
  <2>3. LockOwned
    BY <2>2 DEF LockOwned, InLock
  <2>4. GhostFilesEmpty
    BY <1>1 DEF Init, GhostFilesEmpty, Held, NoTickets
  <2>5. NeverLost
    BY <1>1 DEF Init, NeverLost, Live
  <2> QED BY <2>1, <2>2, <2>3, <2>4, <2>5 DEF IInv
<1> QED BY <1>1

LEMMA IInvStep == IInv /\ [Next]_vars => IInv'
<1> SUFFICES ASSUME IInv, [Next]_vars PROVE IInv'
  OBVIOUS
<1>0. TypeOK /\ LockOwned /\ TypeOK'
  BY TypeStep DEF IInv
<1>1. ASSUME NEW p \in Procs, Begin(p) PROVE IInv'
  <2>1. ASSUME NEW s \in Operational, Load(p, s) PROVE IInv'
    BY <1>0, <2>1, JobUntouched DEF Load, storeVars, histVars
  <2>2. ASSUME NEW t \in TicketIds, NEW st \in Statuses, EditSnapshot(p, t, st)
        PROVE  IInv'
    BY <1>0, <2>2, JobUntouched DEF EditSnapshot, storeVars, histVars
  <2> QED BY <1>0, <1>1, <2>1, <2>2, CreateInv, UpdateInv, DeleteInv, MoveInv, SaveInv,
             ArchiveInv DEF Begin
<1>2. ASSUME NEW p \in Procs, WriteLocator(p) PROVE IInv'
  <2>1. /\ pc[p] = "loc" /\ pc'[p] = "src" /\ job' = job
        /\ UNCHANGED <<files, exists, created, deleted, lock>>
        /\ \A q \in Procs \ {p} : pc'[q] = pc[q]
    BY <1>0, <1>2 DEF WriteLocator, Goto, TypeOK, histVars
  <2>2. JobSound(p)'
    BY <2>1 DEF IInv, JobSound, Covered, Undoable, Held
  <2>3. LockOwned'
    BY <1>0, <2>1 DEF LockOwned, InLock
  <2> QED BY <1>0, <2>1, <2>2, <2>3, QuietStep
<1>3. ASSUME NEW p \in Procs, SourceWriteFails(p) PROVE IInv'
  <2>1. /\ pc[p] = "src" /\ job' = job
        /\ pc'[p] = IF job[p].op = "move" THEN "undo" ELSE "release"
        /\ UNCHANGED <<files, exists, created, deleted, lock>>
        /\ \A q \in Procs \ {p} : pc'[q] = pc[q]
    BY <1>0, <1>3 DEF SourceWriteFails, Goto, TypeOK, storeVars, histVars
  <2>2. JobSound(p)'
    BY <2>1 DEF IInv, JobSound, Undoable, Held
  <2>3. LockOwned'
    BY <1>0, <2>1 DEF LockOwned, InLock
  <2> QED BY <1>0, <2>1, <2>2, <2>3, QuietStep
<1>4. ASSUME NEW p \in Procs, Release(p) \/ Crash(p) \/ NothingToArchive(p) PROVE IInv'
  <2>1. /\ pc'[p] = "idle"
        /\ UNCHANGED <<files, exists, created, deleted>>
        /\ \A q \in Procs \ {p} : pc'[q] = pc[q] /\ job'[q] = job[q]
    BY <1>0, <1>4 DEF Release, Crash, NothingToArchive, Goto, TypeOK, storeVars, histVars
  <2>2. LockOwned'
    BY <1>0, <1>4, <2>1 DEF Release, Crash, NothingToArchive, LockOwned, InLock
  <2> QED BY <1>0, <2>1, <2>2, NoWriteSound, QuietStep
<1>5. CASE UNCHANGED vars
  <2>1. /\ UNCHANGED <<files, exists, created, deleted, lock, pc, job>>
    BY <1>5 DEF vars, storeVars, procVars, histVars
  <2> QED BY <1>0, <2>1, JobUntouched
<1> QED BY <1>0, <1>1, <1>2, <1>3, <1>4, <1>5, WriteFileInv, WriteSourceInv, UndoMoveInv,
           ArchiveInv, RotateInv DEF Next, Continue

(* A created ticket that no deletion removed is in some sprint file, in    *)
(* every state: no interleaving of mutations, failed write or death of a   *)
(* process between two file replacements loses it.                         *)
THEOREM NeverLostCorrect == Spec => []NeverLost
<1>1. IInv => NeverLost
  BY DEF IInv
<1> QED BY IInvInit, IInvStep, <1>1, PTL DEF Spec

-----------------------------------------------------------------------------
(***************************************************************************)
(* While no process dies and no write fails the files of TicketStore are   *)
(* an atomic map of tickets, and bulk saves leave it true.  What a job has *)
(* still to write is related, file by file, to what is on disk: that       *)
(* relation says which copies of a ticket exist in the middle of a         *)
(* mutation, and so what a lookup may return there.                        *)
(***************************************************************************)

(* No death of a process and no failed write; bulk saves only where no     *)
(* ticket is deleted or moved by hand.                                     *)
Calm ==
  /\ Ops \cap {"crash", "fail"} = {}
  /\ "save" \in Ops => Ops \cap {"delete", "move"} = {}

(* No bulk saves either.                                                   *)
Undisturbed == Ops \cap {"save", "crash", "fail"} = {}

-----------------------------------------------------------------------------
(* The inductive invariant.                                                *)

Unique(S) == \A r, s \in S : r = s
Where(dst, t) == {s \in Sprints : dst[s][t] # Absent}

(* new may replace old.                                                    *)
Newer(old, new) ==
  /\ old # Absent /\ new # Absent
  /\ old.upd < new.upd
  /\ old.status = "done" => new.status \in Terminal

(* dst agrees with the disk except for the tickets of the job in the files *)
(* still to be replaced.                                                   *)
InStep(j) ==
  /\ \A s \in Sprints \ j.todo : files[s] = j.dst[s]
  /\ j.op # "save" =>
       \A s \in Sprints : \A t \in TicketIds \ j.tickets : files[s][t] = j.dst[s][t]

Stamped(j) ==
  /\ j.op \in {"create", "update", "delete", "move", "archive", "save"}
  /\ j.op \in {"delete", "move", "save"} => j.op \in Ops
  /\ j.op \in {"create", "update", "move"} => j.stamp = clock
  /\ j.op \in {"delete", "archive", "save"} => j.stamp = 0

(* New tickets share one record and have one file each.                    *)
Creates(j) ==
  j.op = "create" =>
    /\ j.tickets \subseteq 1..(nextId - 1) /\ j.tickets \cap deleted = {}
    /\ \A s \in j.todo, t \in j.tickets : files[s][t] = Absent
    /\ \E r \in Records :
         /\ r.upd = j.stamp
         /\ \A t \in j.tickets, s \in Sprints : j.dst[s][t] \in {Absent, r}
    /\ \A t \in j.tickets : Unique(Where(j.dst, t))

Changes(j) ==
  j.op = "update" =>
    \E t \in TicketIds :
      /\ j.tickets = {t}
      /\ \A s \in j.todo : Newer(files[s][t], j.dst[s][t])
      /\ \A s \in Where(j.dst, t) : j.dst[s][t].upd = j.stamp

Deletes(j) ==
  j.op = "delete" =>
    \A s \in j.todo, t \in TicketIds : j.dst[s][t] \in {files[s][t], Absent}

(* A bulk save stores no ticket its file does not hold, and no older one.  *)
Saves(j) ==
  j.op = "save" =>
    /\ j.tickets = {} /\ Unique(j.todo)
    /\ \A s \in j.todo, t \in TicketIds :
         /\ files[s][t] = Absent <=> j.dst[s][t] = Absent
         /\ files[s][t] # Absent =>
              files[s][t].upd <= j.dst[s][t].upd /\ j.dst[s][t].upd <= clock

(* A ticket on its way is in its source and in one other file: the same    *)
(* record when it is archived, a newer one when it is moved.               *)
Transfers(j) ==
  j.op \in {"move", "archive"} =>
    /\ j.from \notin j.todo
    /\ \A t \in TicketIds :
         j.rest[t] = IF t \in j.tickets THEN Absent ELSE j.dst[j.from][t]
    /\ \A t \in j.tickets : \E h \in Sprints \ {j.from} : Where(j.dst, t) = {j.from, h}
    /\ \A s \in j.todo, t \in j.tickets : files[s][t] = Absent

Archives(j) ==
  j.op = "archive" =>
    /\ j.from = Current
    /\ \A t \in j.tickets :
         /\ j.homes[t] # Absent
         /\ \A s \in Where(j.dst, t) : j.dst[s][t] = j.dst[j.from][t]

Moves(j) ==
  j.op = "move" =>
    \E t \in TicketIds :
      /\ j.tickets = {t} /\ j.todo \subseteq Where(j.dst, t)
      /\ \A s \in Where(j.dst, t) \ {j.from} :
           Newer(j.dst[j.from][t], j.dst[s][t]) /\ j.dst[s][t].upd = j.stamp

JobFacts(j) ==
  InStep(j) /\ Stamped(j) /\ Creates(j) /\ Changes(j) /\ Deletes(j)
  /\ Saves(j) /\ Transfers(j) /\ Archives(j) /\ Moves(j)

Writing == {"dst", "loc", "src"}

JobTrue(p) ==
  pc[p] \in Writing =>
    /\ JobFacts(job[p])
    /\ pc[p] # "dst" => job[p].todo = {} /\ job[p].op \in {"move", "archive"}
    /\ pc[p] = "loc" => job[p].op = "archive"
    /\ pc[p] = "src" /\ job[p].op = "archive" =>
         \A t \in job[p].tickets : locator[t] # Absent

Moving(p, t) ==
  pc[p] \in Writing /\ job[p].op \in {"move", "archive"} /\ t \in job[p].tickets

NoUndo == \A p \in Procs : pc[p] # "undo"

(* A ticket a snapshot holds is still in its file, or the locator says     *)
(* where it went.                                                          *)
SnapTrue ==
  \A p \in Procs : snap[p] # Absent =>
    /\ "save" \in Ops
    /\ \A t \in Held(snap[p].tickets) :
         /\ snap[p].tickets[t].upd <= clock
         /\ files[snap[p].sprint][t] # Absent \/ locator[t] # Absent

Alive == \A t \in TicketIds : t \in Live <=> Holders(t) # {}

Numbered == created \cup deleted \subseteq 1..(nextId - 1)

Versions ==
  /\ \A t \in TicketIds : acked[t] <= clock
  /\ \A t \in TicketIds : \A s \in Holders(t) :
       acked[t] <= files[s][t].upd /\ files[s][t].upd <= clock

Homes ==
  \A t \in TicketIds : Unique(Holders(t)) \/ \E p \in Procs : Moving(p, t)

QInv ==
  /\ IInv
  /\ NoUndo
  /\ SnapTrue
  /\ Alive
  /\ Numbered
  /\ Versions
  /\ Homes
  /\ \A p \in Procs : JobTrue(p)

(* Every completed ticket is due for rotation at once, and nothing but a   *)
(* mutation that rotates puts tickets into the current sprint.             *)
RotatesAll == "archive" \in Ops /\ RetainDays = 0 /\ "move" \notin Ops

(* A process that left a terminal ticket in the current sprint has still   *)
(* to rotate it.                                                           *)
Rotating(p) ==
  \/ pc[p] \in {"archive", "rearm"}
  \/ pc[p] = "dst" /\ job[p].op # "archive" /\ job[p].rotate
  \/ /\ pc[p] \in Writing /\ job[p].op = "archive"
     /\ TerminalIn(job[p].rest) = {}

RotateDue(p) ==
  pc[p] = "dst" /\ job[p].op \notin {"archive", "delete"} /\ Current \in job[p].todo
  => job[p].rotate

Active ==
  /\ TerminalIn(files[Current]) = {} \/ \E p \in Procs : Rotating(p)
  /\ \A p \in Procs : RotateDue(p)

-----------------------------------------------------------------------------
(* What a lookup returns.                                                  *)

(* The least of a set of numbers: the order of the naturals is well        *)
(* founded.                                                                *)
LEMMA LeastOf ==
  ASSUME NEW S, S \subseteq Nat, S # {}
  PROVE  \E x \in S : \A y \in S : x <= y
<1> DEFINE Less == {ss \in Nat \X Nat : ss[1] < ss[2]}
<1>1. IsWellFoundedOn(Less, Nat)
  BY NatLessThanWellFounded DEF OpToRel
<1> HIDE DEF Less
<1>2. PICK x \in S : \A y \in S : <<y, x>> \notin Less
  BY <1>1, WFMin, Zenon
<1>3. \A y \in S : ~(y < x)
  BY <1>2 DEF Less
<1> QED BY <1>3

(* Some copy of a stored ticket is the first in search order.              *)
LEMMA FirstExists ==
  ASSUME NEW t \in TicketIds, Holders(t) # {}
  PROVE  \E s \in Sprints : IsFirst(s, t)
<1> DEFINE S == {Rank[s] : s \in Holders(t)}
<1>1. Holders(t) \subseteq Sprints
  BY DEF Holders
<1>2. S \subseteq Nat /\ S # {}
  BY <1>1, RankAssumption
<1>3. PICK x \in S : \A y \in S : x <= y
  <2> HIDE DEF S
  <2> QED BY <1>2, LeastOf
<1>4. PICK s \in Holders(t) : x = Rank[s]
  OBVIOUS
<1>5. \A r \in Holders(t) : Rank[s] <= Rank[r]
  BY <1>3, <1>4
<1> QED BY <1>1, <1>4, <1>5 DEF IsFirst

(* A lookup returns one of the copies of the ticket, and nothing when      *)
(* there is none.                                                          *)
LEMMA LookupHolder ==
  ASSUME TypeOK, NEW t \in TicketIds
  PROVE  /\ Holders(t) = {} => Lookup(t) = Absent
         /\ Holders(t) # {} => \E s \in Holders(t) : Lookup(t) = files[s][t]
<1>1. Current \in Sprints /\ (locator[t] # Absent => locator[t] \in Sprints)
  BY DEF Sprints, Operational, TypeOK
<1>2. CASE files[Current][t] # Absent
  BY <1>1, <1>2 DEF Lookup, Holders
<1>3. CASE files[Current][t] = Absent /\ locator[t] # Absent /\ files[locator[t]][t] # Absent
  BY <1>1, <1>3 DEF Lookup, Holders
<1>4. CASE files[Current][t] = Absent /\ ~(locator[t] # Absent /\ files[locator[t]][t] # Absent)
  <2>1. CASE Holders(t) = {}
    BY <1>4, <2>1 DEF Lookup
  <2>2. CASE Holders(t) # {}
    <3> DEFINE first == CHOOSE s \in Sprints : IsFirst(s, t)
    <3>1. Lookup(t) = files[first][t]
      BY <1>4, <2>2 DEF Lookup
    <3>2. IsFirst(first, t)
      BY <2>2, FirstExists, Zenon
    <3> HIDE DEF first
    <3> QED BY <3>1, <3>2 DEF IsFirst
  <2> QED BY <2>1, <2>2
<1> QED BY <1>2, <1>3, <1>4

(* Copies that agree are what a lookup returns.                            *)
LEMMA LookupAgreed ==
  ASSUME TypeOK, NEW t \in TicketIds, NEW h \in Holders(t),
         \A s \in Holders(t) : files[s][t] = files[h][t]
  PROVE  Lookup(t) = files[h][t]
BY LookupHolder

(* The same in the next state.                                             *)
LEMMA LookupNext ==
  ASSUME TypeOK', NEW t \in TicketIds
  PROVE  /\ Holders(t)' = {} => Lookup(t)' = Absent
         /\ Holders(t)' # {} => \E s \in Holders(t)' : Lookup(t)' = files'[s][t]
<1>1. (TypeOK => /\ Holders(t) = {} => Lookup(t) = Absent
                 /\ Holders(t) # {} => \E s \in Holders(t) : Lookup(t) = files[s][t])'
  BY LookupHolder, PTL
<1> QED BY <1>1

(* A ticket with one file, or with copies that agree and still do, is      *)
(* looked up as before.                                                    *)
LEMMA LookupKept ==
  ASSUME TypeOK, TypeOK', NEW t \in TicketIds, NEW r,
         \A s \in Holders(t) : files[s][t] = r,
         \A s \in Holders(t)' : files'[s][t] = r,
         Holders(t) = {} <=> Holders(t)' = {}
  PROVE  Lookup(t)' = Lookup(t)
BY LookupHolder, LookupNext

(* Lookups depend on the files and the locator alone.                      *)
LEMMA LookupSame ==
  ASSUME UNCHANGED <<files, locator>>, NEW t \in TicketIds
  PROVE  Lookup(t)' = Lookup(t) /\ Holders(t)' = Holders(t)
BY DEF Lookup, Holders, IsFirst

-----------------------------------------------------------------------------
(* One process at a time is writing.                                       *)
LEMMA OneWriter ==
  ASSUME LockOwned, NEW p \in Procs, NEW q \in Procs, p # q,
         lock = NoProc \/ lock = p
  PROVE  pc[q] \notin Writing
BY ProcsAssumption DEF LockOwned, InLock, Writing

(* Between jobs every ticket has one file.                                 *)
LEMMA HomesBetween ==
  ASSUME QInv, NEW p \in Procs, lock = NoProc \/ lock = p, pc[p] \notin Writing
  PROVE  \A t \in TicketIds : Unique(Holders(t))
<1>1. \A q \in Procs : pc[q] \notin Writing
  BY OneWriter DEF QInv, IInv
<1> QED BY <1>1 DEF QInv, Homes, Moving

(* What is true of a job stays true while what it is compared with stays.  *)
LEMMA FactsSame ==
  ASSUME UNCHANGED <<files, nextId, clock, deleted, job>>, NEW p, JobFacts(job[p])
  PROVE  JobFacts(job[p])'
<1> DEFINE j == job[p]
<1>1. job'[p] = j
  OBVIOUS
<1>2. JobFacts(j)
  OBVIOUS
<1> HIDE DEF j
<1>3. InStep(job[p])' /\ Stamped(job[p])'
  BY <1>1, <1>2 DEF JobFacts, InStep, Stamped
<1>4. Creates(job[p])'
  BY <1>1, <1>2 DEF JobFacts, Creates, Where
<1>5. Changes(job[p])' /\ Deletes(job[p])' /\ Saves(job[p])'
  BY <1>1, <1>2 DEF JobFacts, Changes, Deletes, Saves, Where
<1>6. Transfers(job[p])' /\ Archives(job[p])' /\ Moves(job[p])'
  BY <1>1, <1>2 DEF JobFacts, Transfers, Archives, Moves, Where
<1> QED BY <1>3, <1>4, <1>5, <1>6 DEF JobFacts

LEMMA JobSame ==
  ASSUME UNCHANGED <<files, locator, nextId, clock, deleted, pc, job>>,
         NEW p \in Procs, JobTrue(p)
  PROVE  JobTrue(p)'
BY FactsSame DEF JobTrue

(* Snapshots stay true while the files stay, or are dropped.               *)
LEMMA SnapKept ==
  ASSUME QInv, UNCHANGED files, clock' \in {clock, clock + 1},
         \A q \in Procs : snap'[q] \in {snap[q], Absent},
         \A t \in TicketIds : locator[t] # Absent => locator'[t] # Absent
  PROVE  SnapTrue'
<1>1. TypeOK /\ SnapTrue
  BY DEF QInv, IInv
<1> SUFFICES ASSUME NEW q \in Procs, snap'[q] # Absent, NEW t \in Held(snap'[q].tickets)
             PROVE  /\ "save" \in Ops
                    /\ snap'[q].tickets[t].upd <= clock'
                    /\ files'[snap'[q].sprint][t] # Absent \/ locator'[t] # Absent
  <2>1. \A q \in Procs : snap'[q] # Absent => "save" \in Ops
    BY <1>1 DEF SnapTrue
  <2> QED BY <2>1 DEF SnapTrue
<1>2. snap'[q] = snap[q] /\ snap[q] \in Snapshots /\ t \in TicketIds
  BY <1>1 DEF TypeOK, Held
<1>3. snap[q].tickets[t].upd \in Nat /\ clock \in Nat
  BY <1>1, <1>2, IdsAssumption
     DEF TypeOK, Snapshots, Contents, Held, Records, Stamps
<1>4. /\ "save" \in Ops /\ snap[q].tickets[t].upd <= clock
      /\ files[snap[q].sprint][t] # Absent \/ locator[t] # Absent
  BY <1>1, <1>2 DEF SnapTrue
<1> QED BY <1>2, <1>3, <1>4

(* They stay true while no ticket leaves its file, or the locator knows    *)
(* where it went.                                                          *)
LEMMA SnapWiden ==
  ASSUME QInv, UNCHANGED <<locator, clock, snap>>,
         "save" \in Ops => \A r \in Sprints, t \in TicketIds :
           files[r][t] # Absent => files'[r][t] # Absent \/ locator[t] # Absent
  PROVE  SnapTrue'
<1>1. TypeOK /\ SnapTrue
  BY DEF QInv, IInv
<1>2. \A q \in Procs : snap[q] # Absent =>
         snap[q].sprint \in Sprints /\ Held(snap[q].tickets) \subseteq TicketIds
  BY <1>1 DEF TypeOK, Snapshots, Sprints, Held
<1> QED BY <1>1, <1>2 DEF SnapTrue

(* A step that leaves the files alone and gives p a true job, or none,     *)
(* keeps the invariant.                                                    *)
LEMMA QuietTrue ==
  ASSUME QInv, IInv', SnapTrue', NEW p \in Procs, lock = NoProc \/ lock = p,
         UNCHANGED <<files, created, deleted, acked>>,
         clock' \in {clock, clock + 1}, nextId' \in Nat, nextId' >= nextId,
         pc'[p] # "undo",
         \A q \in Procs \ {p} : pc'[q] = pc[q] /\ job'[q] = job[q],
         JobTrue(p)',
         pc[p] \notin Writing \/ (pc'[p] \in Writing /\ job'[p] = job[p])
  PROVE  QInv'
<1>1. \A q \in Procs \ {p} : pc[q] \notin Writing
  BY OneWriter DEF QInv, IInv
<1>2. \A q \in Procs : JobTrue(q)'
  BY <1>1 DEF JobTrue
<1>3. \A t \in TicketIds : Holders(t)' = Holders(t)
  BY DEF Holders
<1>4. NoUndo' /\ Alive'
  BY <1>3 DEF QInv, NoUndo, Alive, Live
<1>5. Numbered'
  BY DEF QInv, Numbered, IInv, TypeOK
<1>6. Versions'
  <2>1. clock \in Int /\ \A t \in TicketIds : acked[t] \in Int
    BY IdsAssumption DEF QInv, IInv, TypeOK, Stamps
  <2>2. ASSUME NEW t \in TicketIds, NEW s \in Holders(t)
        PROVE  files[s][t].upd \in Int
    BY IdsAssumption DEF QInv, IInv, TypeOK, Contents, Records, Stamps, Holders
  <2>3. clock' >= clock /\ clock' \in Int
    BY <2>1
  <2> QED BY <1>3, <2>1, <2>2, <2>3 DEF QInv, Versions
<1>7. Homes'
  <2> SUFFICES ASSUME NEW t \in TicketIds, ~ Unique(Holders(t))'
               PROVE  \E q \in Procs : Moving(q, t)'
    BY DEF Homes
  <2>1. PICK q \in Procs : Moving(q, t)
    BY <1>3 DEF QInv, Homes, Unique
  <2>2. q = p
    BY <1>1, <2>1 DEF Moving
  <2> QED BY <2>1, <2>2 DEF Moving
<1> QED BY <1>2, <1>4, <1>5, <1>6, <1>7 DEF QInv

-----------------------------------------------------------------------------
(* Jobs are true when they begin.                                          *)

(* Entering the lock with a true job keeps the invariant.                  *)
LEMMA EnterTrue ==
  ASSUME QInv, IInv', NEW p \in Procs, NEW from, NEW j, Enter(p, from, "dst", j),
         UNCHANGED <<files, created, deleted, acked, locator>>,
         \A q \in Procs : snap'[q] \in {snap[q], Absent},
         clock' \in {clock, clock + 1}, nextId' \in Nat, nextId' >= nextId,
         from \notin Writing, JobFacts(j)'
  PROVE  QInv'
<1>1. TypeOK /\ LockOwned
  BY DEF QInv, IInv
<1>2. /\ pc'[p] = "dst" /\ job'[p] = j
      /\ \A q \in Procs \ {p} : pc'[q] = pc[q] /\ job'[q] = job[q]
  BY <1>1, EnterLock
<1>3. JobTrue(p)'
  <2>1. JobFacts(job[p])'
    BY <1>2
  <2> QED BY <1>2, <2>1 DEF JobTrue
<1>4. lock = NoProc /\ pc[p] \notin Writing /\ pc'[p] # "undo"
  BY <1>2 DEF Enter
<1>5. \A q \in Procs \ {p} : pc'[q] = pc[q] /\ job'[q] = job[q]
  BY <1>2
<1>6. SnapTrue'
  BY SnapKept
<1> QED BY <1>3, <1>4, <1>5, <1>6, QuietTrue, Zenon

(* The facts about stamps and stored records used below.                   *)
LEMMA Stored ==
  ASSUME QInv
  PROVE  /\ clock \in Nat /\ nextId \in Nat
         /\ files \in [Sprints -> Contents]
         /\ \A s \in Sprints, t \in TicketIds :
              files[s][t] # Absent =>
                /\ files[s][t] \in Records /\ files[s][t].upd \in Nat
                /\ s \in Holders(t)
                /\ acked[t] <= files[s][t].upd /\ files[s][t].upd <= clock
<1>1. TypeOK
  BY DEF QInv, IInv
<1>2. clock \in Nat /\ nextId \in Nat /\ files \in [Sprints -> Contents]
  BY <1>1, IdsAssumption DEF TypeOK, Stamps
<1>3. ASSUME NEW s \in Sprints, NEW t \in TicketIds, files[s][t] # Absent
      PROVE  files[s][t] \in Records /\ files[s][t].upd \in Nat
  BY <1>2, <1>3, IdsAssumption DEF Contents, Records, Stamps
<1>4. ASSUME NEW s \in Sprints, NEW t \in TicketIds, files[s][t] # Absent
      PROVE  s \in Holders(t) /\ acked[t] <= files[s][t].upd /\ files[s][t].upd <= clock
  BY <1>4 DEF Holders, QInv, Versions
<1> QED BY <1>2, <1>3, <1>4

LEMMA CreateTrue ==
  ASSUME QInv, IInv', NEW p \in Procs, NEW n \in 1..MaxTickets, NEW st \in Statuses,
         NEW sprintOf \in [NewIds(n) -> Operational],
         BeginCreate(p, n, sprintOf, st)
  PROVE  QInv'
<1> DEFINE ids == NewIds(n)
           new == [status |-> st, upd |-> clock + 1, fin |-> 0]
           dst == [s \in Sprints |-> [t \in TicketIds |->
                     IF t \in ids /\ sprintOf[t] = s THEN new ELSE files[s][t]]]
           todo == {sprintOf[t] : t \in ids}
<1>0. TypeOK /\ clock + 1 \in Stamps /\ clock' = clock + 1
  BY ClockType DEF BeginCreate, QInv, IInv
<1>1. new \in Records /\ new # Absent /\ new.upd = clock'
  BY <1>0, IdsAssumption, SprintsAssumption DEF Records, Stamps
<1>2. ids \subseteq TicketIds /\ nextId' = nextId + n /\ nextId \in Nat /\ n \in Nat
  BY <1>0, IdsAssumption DEF BeginCreate, NewIds, TicketIds, TypeOK
<1>3. ASSUME NEW t \in ids PROVE t \notin created \cup deleted /\ t \in 1..(nextId' - 1)
  <2>1. t \in Nat /\ t >= nextId /\ t < nextId + n /\ t >= 1
    BY <1>2 DEF NewIds, TicketIds
  <2>2. created \cup deleted \subseteq 1..(nextId - 1)
    BY DEF QInv, Numbered
  <2> QED BY <1>2, <2>1, <2>2
<1>4. \A t \in ids, s \in Sprints : files[s][t] = Absent
  BY <1>2, <1>3 DEF QInv, Alive, Live, Holders
<1>5. PICK j : /\ j = WriteJob("create", ids, clock + 1, todo, dst)
               /\ Enter(p, "idle", "dst", j)
  BY DEF BeginCreate
<1>6. /\ UNCHANGED <<files, created, deleted, acked, locator, snap>>
      /\ files \in [Sprints -> Contents]
  BY <1>0 DEF BeginCreate, histVars, TypeOK
<1>7. /\ j.op = "create" /\ j.tickets = ids /\ j.stamp = clock'
      /\ j.todo = todo /\ j.dst = dst
  <2> HIDE DEF ids, todo, dst
  <2> QED BY <1>0, <1>5 DEF WriteJob, NoJob
<1>8. /\ todo \subseteq Sprints
      /\ \A t \in ids : sprintOf[t] \in todo
  BY DEF Sprints
<1>9. \A s \in Sprints : /\ dst[s] \in [TicketIds -> Records \cup {Absent}]
                         /\ \A t \in TicketIds :
                              dst[s][t] = IF t \in ids /\ sprintOf[t] = s
                                          THEN new ELSE files[s][t]
  BY <1>1, <1>6 DEF Contents
<1> HIDE DEF ids, new, dst, todo
<1>10. InStep(j)'
  <2>1. ASSUME NEW s \in Sprints \ todo PROVE files[s] = dst[s]
    <3>1. \A t \in TicketIds : dst[s][t] = files[s][t]
      BY <1>8, <1>9
    <3> QED BY <1>6, <1>9, <3>1 DEF Contents
  <2> QED BY <2>1, <1>6, <1>7, <1>9 DEF InStep
<1>11. Creates(j)'
  <2>1. j.tickets \subseteq 1..(nextId' - 1) /\ j.tickets \cap deleted' = {}
    BY <1>3, <1>6, <1>7
  <2>2. \A s \in j.todo, t \in j.tickets : files'[s][t] = Absent
    BY <1>4, <1>6, <1>7, <1>8
  <2>3. \A t \in j.tickets, s \in Sprints : j.dst[s][t] \in {Absent, new}
    BY <1>2, <1>4, <1>7, <1>9
  <2>4. \A t \in j.tickets : Unique(Where(j.dst, t))
    BY <1>2, <1>4, <1>7, <1>9 DEF Unique, Where
  <2>5. new.upd = j.stamp
    BY <1>1, <1>7
  <2> QED BY <1>1, <2>1, <2>2, <2>3, <2>4, <2>5 DEF Creates
<1>12. JobFacts(j)'
  BY <1>7, <1>10, <1>11
     DEF JobFacts, Stamped, Changes, Deletes, Saves, Transfers, Archives, Moves
<1> QED BY <1>0, <1>2, <1>5, <1>6, <1>12, EnterTrue DEF Writing

(* Every version an update may write may replace the old one.              *)
LEMMA UpdatesNewer ==
  ASSUME NEW old \in Records, clock \in Nat, clock + 1 \in Stamps, old.upd \in Nat,
         old.upd <= clock, NEW new \in Updates(old)
  PROVE  Newer(old, new) /\ new.upd = clock + 1
<1>1. old # Absent /\ new # Absent
  BY SprintsAssumption, UpdatesType
<1>2. CASE \E f \in {old.fin, 0} : new = [old EXCEPT !.upd = clock + 1, !.fin = f]
  <2>1. new.upd = clock + 1 /\ new.status = old.status
    BY <1>2 DEF Records
  <2> QED BY <1>1, <2>1 DEF Newer, Terminal
<1>3. CASE \E st \in {st \in Statuses : MayBecome(old, st)}, keep \in BOOLEAN :
             new = [status |-> st, upd |-> clock + 1,
                    fin |-> IF st \in Terminal THEN clock + 1
                            ELSE IF keep THEN old.fin ELSE 0]
  <2>1. new.upd = clock + 1 /\ MayBecome(old, new.status)
    BY <1>3
  <2> QED BY <1>1, <2>1 DEF Newer, MayBecome, ImmutableTerminal
<1> QED BY <1>2, <1>3 DEF Updates

LEMMA UpdateTrue ==
  ASSUME QInv, IInv', NEW p \in Procs, NEW t \in TicketIds, NEW f \in Sprints,
         BeginUpdate(p, t, f)
  PROVE  QInv'
<1>0. TypeOK /\ clock + 1 \in Stamps /\ clock' = clock + 1
  BY ClockType DEF BeginUpdate, QInv, IInv
<1>1. /\ f \in Holders(t) /\ files[f][t] \in Records /\ files[f][t].upd \in Nat
      /\ files[f][t].upd <= clock /\ clock \in Nat /\ nextId \in Nat
      /\ files \in [Sprints -> Contents]
  BY Stored DEF BeginUpdate, IsFirst, Holders
<1>2. PICK new \in Updates(files[f][t]) :
         Enter(p, "idle", "dst",
           WriteJob("update", {t}, clock + 1, {f},
                    [files EXCEPT ![f] = Put(files[f], t, new)]))
  BY DEF BeginUpdate
<1> DEFINE dst == [files EXCEPT ![f] = Put(files[f], t, new)]
<1>3. PICK j : /\ j = WriteJob("update", {t}, clock + 1, {f}, dst)
               /\ Enter(p, "idle", "dst", j)
  BY <1>2
<1>4. UNCHANGED <<files, created, deleted, acked, locator, snap, nextId>>
  BY DEF BeginUpdate, storeVars, histVars
<1>5. Newer(files[f][t], new) /\ new.upd = clock'
  BY <1>0, <1>1, UpdatesNewer
<1>6. /\ \A s \in Sprints \ {f} : dst[s] = files[s]
      /\ dst[f][t] = new /\ \A u \in TicketIds \ {t} : dst[f][u] = files[f][u]
  BY <1>1 DEF Put, Contents
<1> HIDE DEF dst
<1>7. /\ j.op = "update" /\ j.tickets = {t} /\ j.stamp = clock'
      /\ j.todo = {f} /\ j.dst = dst
  BY <1>0, <1>3 DEF WriteJob, NoJob
<1>8. Unique(Holders(t))
  BY HomesBetween DEF BeginUpdate, Enter, Writing
<1>9. InStep(j)'
  BY <1>4, <1>6, <1>7 DEF InStep
<1>10. Changes(j)'
  <2>1. \A s \in Where(dst, t) : s = f
    BY <1>1, <1>6, <1>8 DEF Where, Unique, Holders
  <2> QED BY <2>1, <1>4, <1>5, <1>6, <1>7 DEF Changes
<1>11. JobFacts(j)'
  BY <1>7, <1>9, <1>10
     DEF JobFacts, Stamped, Creates, Deletes, Saves, Transfers, Archives, Moves
<1> QED BY <1>0, <1>1, <1>3, <1>4, <1>11, EnterTrue DEF Writing

LEMMA DeleteTrue ==
  ASSUME QInv, IInv', NEW p \in Procs, NEW T \in SUBSET TicketIds, BeginDelete(p, T)
  PROVE  QInv'
<1> DEFINE doomed(s) == {t \in T : IsFirst(s, t)}
           todo == {s \in Sprints : doomed(s) # {}}
           dst == [s \in Sprints |-> Drop(files[s], doomed(s))]
<1>1. /\ UNCHANGED <<files, created, deleted, acked, locator, snap, nextId, clock>>
      /\ files \in [Sprints -> Contents] /\ nextId \in Nat /\ "delete" \in Ops
  BY Stored DEF BeginDelete, storeVars, histVars
<1>2. PICK j : j = WriteJob("delete", T, 0, todo, dst) /\ Enter(p, "idle", "dst", j)
  BY DEF BeginDelete
<1>3. \A s \in Sprints : /\ dst[s] \in [TicketIds -> Records \cup {Absent}]
                         /\ \A t \in TicketIds :
                              dst[s][t] = IF t \in doomed(s) THEN Absent ELSE files[s][t]
  BY <1>1 DEF Drop, Contents
<1>4. j.op = "delete" /\ j.tickets = T /\ j.stamp = 0 /\ j.todo = todo /\ j.dst = dst
  <2> HIDE DEF todo, dst
  <2> QED BY <1>2 DEF WriteJob, NoJob
<1>5. \A s \in Sprints \ todo : files[s] = dst[s]
  <2> SUFFICES ASSUME NEW s \in Sprints \ todo PROVE files[s] = dst[s]
    OBVIOUS
  <2>1. \A t \in TicketIds : dst[s][t] = files[s][t]
    BY <1>3
  <2> HIDE DEF dst
  <2> QED BY <1>1, <1>3, <2>1 DEF Contents
<1>6. InStep(j)'
  <2>1. \A s \in Sprints : \A t \in TicketIds \ T : files[s][t] = dst[s][t]
    BY <1>3
  <2> HIDE DEF dst, todo
  <2> QED BY <1>1, <1>4, <1>5, <2>1 DEF InStep
<1>7. Deletes(j)'
  <2>1. \A s \in Sprints, t \in TicketIds : dst[s][t] \in {files[s][t], Absent}
    BY <1>3
  <2>2. todo \subseteq Sprints
    OBVIOUS
  <2> HIDE DEF dst, todo
  <2> QED BY <1>1, <1>4, <2>1, <2>2 DEF Deletes
<1> HIDE DEF dst, todo
<1>8. JobFacts(j)'
  BY <1>1, <1>4, <1>6, <1>7
     DEF JobFacts, Stamped, Creates, Changes, Saves, Transfers, Archives, Moves
<1>9. clock' \in {clock, clock + 1}
  BY <1>1
<1> QED BY <1>1, <1>2, <1>8, <1>9, EnterTrue DEF Writing

LEMMA MoveTrue ==
  ASSUME QInv, IInv', NEW p \in Procs, NEW t \in TicketIds, NEW f \in Sprints,
         NEW to \in MoveTargets, BeginMove(p, t, f, to)
  PROVE  QInv'
<1> DEFINE moved == [files[f][t] EXCEPT !.upd = clock + 1]
<1>0. TypeOK /\ clock + 1 \in Stamps /\ clock' = clock + 1
  BY ClockType DEF BeginMove, QInv, IInv
<1>1. /\ f \in Holders(t) /\ files[f][t] \in Records /\ files[f][t] # Absent
      /\ files[f][t].upd \in Nat
      /\ files[f][t].upd <= clock /\ clock \in Nat /\ nextId \in Nat
      /\ files \in [Sprints -> Contents] /\ to \in Sprints /\ f # to
  BY Stored, SprintsAssumption DEF BeginMove, IsFirst, Holders
<1>2. PICK j : j = MoveJob(t, f, to, moved) /\ Enter(p, "idle", "dst", j)
  BY DEF BeginMove
<1>3. /\ UNCHANGED <<files, created, deleted, acked, locator, snap, nextId>>
      /\ files[to][t] = Absent /\ "move" \in Ops
  BY DEF BeginMove, storeVars, histVars
<1>4. moved \in Records /\ moved # Absent /\ moved.upd = clock'
      /\ moved.status = files[f][t].status
  BY <1>0, <1>1, SprintsAssumption DEF Records
<1>5. Newer(files[f][t], moved)
  <2>1. files[f][t].upd < moved.upd
    BY <1>0, <1>1, <1>4
  <2> HIDE DEF moved
  <2> QED BY <1>1, <1>4, <2>1 DEF Newer, Terminal
<1> HIDE DEF moved
<1> DEFINE dst == [files EXCEPT ![to] = Put(files[to], t, moved)]
<1>6. /\ j.op = "move" /\ j.tickets = {t} /\ j.stamp = clock' /\ j.todo = {to}
      /\ j.from = f /\ j.rest = Drop(files[f], {t}) /\ j.dst = dst
  BY <1>0, <1>2 DEF MoveJob, NoJob
<1>7. /\ \A s \in Sprints \ {to} : dst[s] = files[s]
      /\ dst[to][t] = moved /\ \A u \in TicketIds \ {t} : dst[to][u] = files[to][u]
  BY <1>1 DEF Put, Contents
<1> HIDE DEF dst
<1>8. \A s \in Sprints : files[s][t] # Absent => s = f
  <2>1. Unique(Holders(t))
    BY HomesBetween DEF BeginMove, Enter, Writing
  <2> QED BY <1>1, <2>1 DEF Unique, Holders
<1>9. InStep(j)'
  BY <1>3, <1>6, <1>7 DEF InStep
<1>10. Where(dst, t) = {f, to}
  BY <1>1, <1>4, <1>7, <1>8 DEF Where
<1>11. Transfers(j)'
  <2>1. \A u \in TicketIds : j.rest[u] = IF u \in {t} THEN Absent ELSE dst[f][u]
    BY <1>1, <1>6, <1>7 DEF Drop
  <2> QED BY <1>1, <1>3, <1>6, <1>10, <2>1 DEF Transfers
<1>12. Moves(j)'
  <2>1. \A s \in Where(j.dst, t) \ {j.from} :
          Newer(j.dst[j.from][t], j.dst[s][t]) /\ j.dst[s][t].upd = j.stamp
    BY <1>1, <1>4, <1>5, <1>6, <1>7, <1>10
  <2> QED BY <1>1, <1>6, <1>10, <2>1 DEF Moves
<1>13. JobFacts(j)'
  BY <1>3, <1>6, <1>9, <1>11, <1>12
     DEF JobFacts, Stamped, Creates, Changes, Deletes, Saves, Archives
<1> QED BY <1>0, <1>1, <1>2, <1>3, <1>13, EnterTrue DEF Writing

(* What an archive run is about to write when every ticket has one file.   *)
LEMMA ArchiveFacts ==
  ASSUME TypeOK, \A t \in TicketIds : Unique(Holders(t)), UNCHANGED files,
         NEW T \in SUBSET Held(files[Current]), NEW j, j = ArchiveJob(files[Current], T)
  PROVE  JobFacts(j)'
<1> DEFINE content == files[Current]
           dst == [s \in Sprints |-> [t \in TicketIds |->
                     IF t \in T /\ HistoryFile(content[t]) = s
                     THEN content[t] ELSE files[s][t]]]
           todo == {HistoryFile(content[t]) : t \in T}
           homes == [t \in TicketIds |->
                       IF t \in T THEN HistoryFile(content[t]) ELSE Absent]
<1>1. /\ files \in [Sprints -> Contents] /\ content \in Contents
      /\ Current \in Sprints /\ Current \notin Histories
  BY SprintsAssumption DEF TypeOK, Sprints, Operational
<1>2. T \subseteq TicketIds /\ \A t \in T : content[t] \in Records /\ content[t] # Absent
  BY <1>1, ContentTypes, SprintsAssumption
<1>3. \A t \in T : /\ HistoryFile(content[t]) \in Histories
                   /\ HistoryFile(content[t]) \in todo
                   /\ HistoryFile(content[t]) \in Sprints \ {Current}
  BY <1>1, <1>2, HistoryFileType DEF Sprints
<1>4. /\ j.op = "archive" /\ j.tickets = T /\ j.stamp = 0 /\ j.todo = todo
      /\ j.from = Current /\ j.rest = Drop(content, T) /\ j.dst = dst
      /\ j.homes = homes
  <2>1. j = [NoJob EXCEPT !.op = "archive", !.tickets = T, !.todo = todo, !.dst = dst,
                          !.rest = Drop(content, T), !.homes = homes]
    BY Zenon DEF ArchiveJob
  <2> HIDE DEF content, todo, dst, homes
  <2> QED BY <2>1 DEF NoJob
<1>5. \A s \in Sprints : /\ dst[s] \in [TicketIds -> Records \cup {Absent}]
                         /\ \A t \in TicketIds :
                              dst[s][t] = IF t \in T /\ HistoryFile(content[t]) = s
                                          THEN content[t] ELSE files[s][t]
  BY <1>1, <1>2 DEF Contents
<1>6. todo \subseteq Sprints /\ Current \notin todo
  BY <1>1, <1>3 DEF Sprints
<1>7. \A t \in T, s \in Sprints : files[s][t] # Absent => s = Current
  <2> SUFFICES ASSUME NEW t \in T, NEW s \in Sprints, files[s][t] # Absent
               PROVE  s = Current
    OBVIOUS
  <2>1. Current \in Holders(t) /\ s \in Holders(t) /\ t \in TicketIds
    BY <1>1, <1>2 DEF Holders
  <2> QED BY <2>1 DEF Unique
<1>14. \A t \in T : homes[t] # Absent
  <2>1. \A t \in T : homes[t] \in Sprints
    BY <1>2, <1>3
  <2> QED BY <2>1, SprintsAssumption
<1> HIDE DEF dst, todo, homes
<1>8. \A s \in Sprints \ todo : files[s] = dst[s]
  <2> SUFFICES ASSUME NEW s \in Sprints \ todo PROVE files[s] = dst[s]
    OBVIOUS
  <2>1. \A t \in TicketIds : dst[s][t] = files[s][t]
    BY <1>3, <1>5
  <2> QED BY <1>1, <1>5, <2>1 DEF Contents
<1>9. InStep(j)'
  <2>1. \A s \in Sprints : \A t \in TicketIds \ T : files[s][t] = dst[s][t]
    BY <1>5
  <2> QED BY <1>4, <1>8, <2>1 DEF InStep
<1>10. ASSUME NEW t \in T
       PROVE  /\ Where(dst, t) = {Current, HistoryFile(content[t])}
              /\ \A s \in Where(dst, t) : dst[s][t] = dst[Current][t]
  <2>1. dst[Current][t] = content[t] /\ dst[HistoryFile(content[t])][t] = content[t]
    BY <1>1, <1>2, <1>3, <1>5
  <2>2. \A s \in Sprints \ {Current, HistoryFile(content[t])} : dst[s][t] = Absent
    BY <1>2, <1>5, <1>7
  <2> HIDE DEF content
  <2> QED BY <1>1, <1>2, <1>3, <2>1, <2>2 DEF Where
<1>11. Transfers(j)'
  <2>1. \A t \in TicketIds : j.rest[t] = IF t \in T THEN Absent ELSE dst[Current][t]
    BY <1>1, <1>4, <1>5 DEF Drop
  <2>2. \A s \in todo, t \in T : files[s][t] = Absent
    BY <1>6, <1>7
  <2>3. \A t \in T : \E h \in Sprints \ {Current} : Where(dst, t) = {Current, h}
    BY <1>3, <1>10
  <2> HIDE DEF content
  <2> QED BY <1>4, <1>6, <2>1, <2>2, <2>3 DEF Transfers
<1>12. Archives(j)'
  BY <1>4, <1>10, <1>14 DEF Archives
<1> QED BY <1>4, <1>9, <1>11, <1>12
           DEF JobFacts, Stamped, Creates, Changes, Deletes, Saves, Moves

LEMMA ArchiveTrue ==
  ASSUME QInv, IInv', NEW p \in Procs, NEW from \in {"idle", "rearm"},
         NEW force \in BOOLEAN, BeginArchive(p, from, force)
  PROVE  QInv'
<1> DEFINE T == ArchiveCandidates(files[Current], force)
<1>1. TypeOK /\ clock \in Nat /\ nextId \in Nat
  BY Stored DEF QInv, IInv
<1>2. PICK j : j = ArchiveJob(files[Current], T) /\ Enter(p, from, "dst", j)
  BY DEF BeginArchive
<1>3. UNCHANGED <<files, created, deleted, acked, locator, snap, nextId, clock>>
  BY DEF BeginArchive, storeVars, histVars
<1>4. T \in SUBSET Held(files[Current])
  BY CandidatesHeld DEF TerminalIn
<1>5. \A t \in TicketIds : Unique(Holders(t))
  BY HomesBetween DEF BeginArchive, Enter, Writing
<1> HIDE DEF T
<1>6. JobFacts(j)'
  BY <1>1, <1>2, <1>3, <1>4, <1>5, ArchiveFacts
<1> QED BY <1>1, <1>2, <1>3, <1>6, EnterTrue DEF Writing

LEMMA RotateTrue ==
  ASSUME QInv, IInv', NEW p \in Procs, Rotate(p)
  PROVE  QInv'
<1> DEFINE T == ArchiveCandidates(files[Current], FALSE)
<1>1. TypeOK /\ clock \in Nat /\ nextId \in Nat
  BY Stored DEF QInv, IInv
<1>2. /\ pc[p] = "archive" /\ lock = p /\ pc[p] \notin Writing
      /\ UNCHANGED <<files, created, deleted, acked, locator, snap, nextId, clock>>
      /\ \A q \in Procs \ {p} : pc'[q] = pc[q] /\ job'[q] = job[q]
  BY <1>1 DEF Rotate, QInv, IInv, LockOwned, InLock, Writing, Goto, TypeOK, storeVars, histVars
<1>3. T \in SUBSET Held(files[Current])
  BY CandidatesHeld DEF TerminalIn
<1>4. \A t \in TicketIds : Unique(Holders(t))
  BY <1>2, HomesBetween
<1>5. JobTrue(p)' /\ pc'[p] # "undo"
  <2>1. CASE T = {}
    <3>1. pc'[p] = "release"
      BY <1>1, <1>2, <2>1 DEF Rotate, Goto, TypeOK
    <3> QED BY <3>1 DEF JobTrue, Writing
  <2>2. CASE T # {}
    <3>1. PICK j : j = ArchiveJob(files[Current], T)
      OBVIOUS
    <3>2. pc'[p] = "dst" /\ job'[p] = j
      BY <1>1, <1>2, <2>2, <3>1 DEF Rotate, Goto, TypeOK
    <3> HIDE DEF T
    <3>3. JobFacts(j)'
      BY <1>1, <1>2, <1>3, <1>4, <3>1, ArchiveFacts
    <3>4. JobFacts(job[p])'
      BY <3>2, <3>3
    <3> QED BY <3>2, <3>4 DEF JobTrue
  <2> QED BY <2>1, <2>2
<1>6. SnapTrue'
  BY <1>2, SnapKept
<1> QED BY <1>1, <1>2, <1>5, <1>6, QuietTrue

(* Reading or editing a snapshot.                                          *)
LEMMA SnapshotTrue ==
  ASSUME QInv, IInv', NEW p \in Procs,
         (\E s \in Operational : Load(p, s))
         \/ (\E t \in TicketIds, st \in Statuses : EditSnapshot(p, t, st))
  PROVE  QInv'
<1>1. /\ UNCHANGED <<files, created, deleted, acked, locator, nextId, clock, lock, pc, job>>
      /\ pc[p] = "idle" /\ snap' = [snap EXCEPT ![p] = snap'[p]]
  BY DEF Load, EditSnapshot, storeVars, histVars, QInv, IInv, TypeOK
<1>2. TypeOK /\ SnapTrue /\ clock \in Nat /\ nextId \in Nat
  BY Stored DEF QInv, IInv
<1>3. ASSUME NEW s \in Operational, Load(p, s) PROVE SnapTrue'
  <2>1. "save" \in Ops /\ snap' = [snap EXCEPT ![p] = [sprint |-> s, tickets |-> files[s]]]
    BY <1>3 DEF Load
  <2>2. s \in Sprints
    BY DEF Sprints
  <2>3. \A t \in Held(files[s]) : files[s][t].upd <= clock /\ files[s][t] # Absent
    BY <2>2, Stored DEF Held
  <2> QED BY <1>1, <1>2, <2>1, <2>3 DEF SnapTrue, TypeOK
<1>4. ASSUME NEW t \in TicketIds, NEW st \in Statuses, EditSnapshot(p, t, st)
      PROVE  SnapTrue'
  <2>1. snap[p] \in Snapshots /\ t \in Held(snap[p].tickets)
    BY <1>2, <1>4 DEF EditSnapshot, TypeOK, Held
  <2> DEFINE r == [snap[p].tickets[t] EXCEPT !.status = st]
  <2>2. r \in Records /\ r.upd = snap[p].tickets[t].upd /\ r # Absent
    BY <2>1, SprintsAssumption DEF Snapshots, Contents, Records, Held
  <2>3. snap' = [snap EXCEPT ![p] = [sprint |-> snap[p].sprint,
                                     tickets |-> Put(snap[p].tickets, t, r)]]
    BY <1>4 DEF EditSnapshot
  <2> HIDE DEF r
  <2>4. \A u \in Held(Put(snap[p].tickets, t, r)) :
          u \in Held(snap[p].tickets)
          /\ Put(snap[p].tickets, t, r)[u].upd = snap[p].tickets[u].upd
    BY <2>1, <2>2 DEF Snapshots, Contents, Held, Put
  <2>5. snap'[p].sprint = snap[p].sprint
        /\ snap'[p].tickets = Put(snap[p].tickets, t, r) /\ snap[p] # Absent
    BY <1>2, <1>4, <2>3 DEF TypeOK, EditSnapshot
  <2>6. \A q \in Procs \ {p} : snap'[q] = snap[q]
    BY <1>1, <1>2 DEF TypeOK
  <2> QED BY <1>1, <1>2, <2>4, <2>5, <2>6 DEF SnapTrue
<1>5. SnapTrue'
  BY <1>3, <1>4
<1>6. /\ \A t \in TicketIds : Holders(t)' = Holders(t)
      /\ \A q \in Procs : JobTrue(q)'
  BY <1>1, JobSame DEF Holders, QInv
<1>7. NoUndo' /\ Alive' /\ Numbered' /\ Versions' /\ Homes'
  BY <1>1, <1>6 DEF QInv, NoUndo, Alive, Live, Numbered, Versions, Homes, Unique, Moving
<1> QED BY <1>5, <1>6, <1>7 DEF QInv

(* Of a snapshot the versions that are not older are merged; what left the *)
(* file since it was read is left out, because the locator knows it.       *)
LEMMA SaveTrue ==
  ASSUME QInv, IInv', NEW p \in Procs, BeginSave(p)
  PROVE  QInv'
<1> DEFINE s == snap[p].sprint
           mine == snap[p].tickets
           dst == [files EXCEPT ![s] = Merged(s, mine)]
<1>1. /\ UNCHANGED <<files, created, deleted, acked, locator, nextId, clock>>
      /\ \A q \in Procs : snap'[q] \in {snap[q], Absent}
      /\ files \in [Sprints -> Contents] /\ nextId \in Nat /\ "save" \in Ops
      /\ s \in Sprints /\ mine \in Contents /\ clock \in Nat
  BY Stored DEF BeginSave, storeVars, histVars, QInv, IInv, TypeOK, Snapshots, Sprints
<1>2. PICK j : j = WriteJob("save", {}, 0, {s}, dst) /\ Enter(p, "idle", "dst", j)
  BY DEF BeginSave
<1>3. dst[s] = Merged(s, mine) /\ \A r \in Sprints \ {s} : dst[r] = files[r]
  BY <1>1
<1>4. \A t \in Held(mine) : mine[t].upd <= clock
                            /\ (files[s][t] # Absent \/ locator[t] # Absent)
  BY DEF BeginSave, QInv, SnapTrue
<1> HIDE DEF dst
<1>5. j.op = "save" /\ j.tickets = {} /\ j.stamp = 0 /\ j.todo = {s} /\ j.dst = dst
  BY <1>2 DEF WriteJob, NoJob
<1> HIDE DEF s, mine
<1>6. ASSUME NEW t \in TicketIds
      PROVE  /\ files[s][t] = Absent <=> dst[s][t] = Absent
             /\ files[s][t] # Absent =>
                  files[s][t].upd <= dst[s][t].upd /\ dst[s][t].upd <= clock
  <2>1. CASE dst[s][t] = files[s][t]
    <3>1. files[s][t] # Absent => files[s][t].upd \in Nat /\ files[s][t].upd <= clock
      BY <1>1, Stored
    <3> QED BY <2>1, <3>1
  <2>2. CASE dst[s][t] # files[s][t]
    <3>1. /\ dst[s][t] = mine[t] /\ mine[t] # Absent /\ locator[t] = Absent
          /\ ~(files[s][t] # Absent /\ files[s][t].upd > mine[t].upd)
      BY <1>3, <2>2 DEF Merged
    <3>2. mine[t].upd <= clock /\ files[s][t] # Absent
      BY <1>4, <3>1 DEF Held
    <3>3. mine[t].upd \in Nat /\ files[s][t].upd \in Nat
      BY <1>1, <3>1, <3>2, Stored, IdsAssumption DEF Contents, Records, Stamps
    <3> QED BY <3>1, <3>2, <3>3
  <2> QED BY <2>1, <2>2
<1>7. JobFacts(j)'
  <2>1. InStep(j)'
    BY <1>1, <1>3, <1>5 DEF InStep
  <2>2. Saves(j)'
    BY <1>1, <1>5, <1>6 DEF Saves, Unique
  <2> QED BY <1>1, <1>5, <2>1, <2>2
             DEF JobFacts, Stamped, Creates, Changes, Deletes, Transfers, Archives, Moves
<1> QED BY <1>1, <1>2, <1>7, EnterTrue DEF Writing

LEMMA NothingTrue ==
  ASSUME QInv, IInv', NEW p \in Procs, NothingToArchive(p)
  PROVE  QInv'
<1>1. /\ pc[p] = "rearm" /\ lock = NoProc /\ pc'[p] = "idle"
      /\ UNCHANGED <<files, created, deleted, acked, locator, snap, nextId, clock, job>>
      /\ \A q \in Procs \ {p} : pc'[q] = pc[q]
  BY DEF NothingToArchive, Goto, storeVars, histVars, QInv, IInv, TypeOK
<1>2. clock \in Nat /\ nextId \in Nat
  BY Stored
<1>3. JobTrue(p)' /\ pc[p] \notin Writing
  BY <1>1 DEF JobTrue, Writing
<1>4. SnapTrue'
  BY <1>1, SnapKept
<1> QED BY <1>1, <1>2, <1>3, <1>4, QuietTrue

-----------------------------------------------------------------------------
(* Jobs stay true while their files are replaced.                          *)

(* What is true while a process is about to replace a file in a mutation.  *)
LEMMA WriteShape ==
  ASSUME QInv, NEW p \in Procs, NEW s \in Sprints, WriteFile(p, s), job[p].op # "save"
  PROVE  /\ pc[p] = "dst" /\ s \in job[p].todo /\ JobFacts(job[p]) /\ lock = p
         /\ job[p].todo \subseteq Sprints /\ job[p].tickets \subseteq TicketIds
         /\ job[p].from \in Sprints
         /\ files'[s] = job[p].dst[s]
         /\ \A r \in Sprints \ {s} : files'[r] = files[r]
         /\ \A t \in TicketIds \ job[p].tickets, r \in Sprints : files'[r][t] = files[r][t]
         /\ job'[p] = [job[p] EXCEPT !.todo = @ \ {s}]
         /\ pc'[p] = IF job[p].todo = {s} THEN AfterWrites(job[p]) ELSE "dst"
         /\ \A q \in Procs \ {p} : pc'[q] = pc[q] /\ job'[q] = job[q] /\ pc[q] \notin Writing
         /\ UNCHANGED <<locator, nextId, clock, snap>>
<1>1. TypeOK /\ LockOwned
  BY DEF QInv, IInv
<1>2. /\ pc[p] = "dst" /\ s \in job[p].todo /\ lock = p /\ job[p] \in Jobs
      /\ files \in [Sprints -> Contents]
  BY <1>1 DEF WriteFile, LockOwned, InLock, TypeOK
<1>3. JobFacts(job[p])
  BY <1>2 DEF QInv, JobTrue, Writing
<1>4. ~ DropsLock(job[p])
  BY DEF DropsLock
<1>5. /\ files'[s] = job[p].dst[s]
      /\ \A r \in Sprints \ {s} : files'[r] = files[r]
      /\ UNCHANGED <<locator, nextId, clock, snap>>
  BY <1>2 DEF WriteFile
<1>6. \A t \in TicketIds \ job[p].tickets, r \in Sprints : files'[r][t] = files[r][t]
  BY <1>3, <1>5 DEF JobFacts, InStep
<1>7. /\ job'[p] = [job[p] EXCEPT !.todo = @ \ {s}]
      /\ pc'[p] = IF job[p].todo = {s} THEN AfterWrites(job[p]) ELSE "dst"
      /\ \A q \in Procs \ {p} : pc'[q] = pc[q] /\ job'[q] = job[q]
  BY <1>1, <1>2, <1>4 DEF WriteFile, Goto, TypeOK
<1>8. \A q \in Procs \ {p} : pc[q] \notin Writing
  BY <1>1, <1>2, OneWriter
<1>9. /\ job[p].todo \subseteq Sprints /\ job[p].tickets \subseteq TicketIds
      /\ job[p].from \in Sprints
  BY <1>2 DEF Jobs
<1> QED BY <1>2, <1>3, <1>5, <1>6, <1>7, <1>8, <1>9

(* Outside moves and rotations a ticket has one file.                      *)
LEMMA HomeOf ==
  ASSUME QInv, NEW p \in Procs, lock = NoProc \/ lock = p, NEW t \in TicketIds,
         t \notin job[p].tickets \/ job[p].op \notin {"move", "archive"}
  PROVE  Unique(Holders(t))
<1>1. \A q \in Procs \ {p} : pc[q] \notin Writing
  BY OneWriter DEF QInv, IInv
<1> QED BY <1>1 DEF QInv, Homes, Moving

(* The job of the writer after the write.                                  *)
LEMMA WriteFileJob ==
  ASSUME QInv, NEW p \in Procs, NEW s \in Sprints, WriteFile(p, s), job[p].op # "save"
  PROVE  JobTrue(p)'
<1> DEFINE j == job[p]
           k == [j EXCEPT !.todo = @ \ {s}]
<1>1. /\ s \in j.todo /\ j.todo \subseteq Sprints /\ JobFacts(j)
      /\ j.tickets \subseteq TicketIds /\ j.from \in Sprints
      /\ files'[s] = j.dst[s] /\ \A r \in Sprints \ {s} : files'[r] = files[r]
      /\ \A t \in TicketIds \ j.tickets, r \in Sprints : files'[r][t] = files[r][t]
      /\ job'[p] = k
      /\ pc'[p] = IF j.todo = {s} THEN AfterWrites(j) ELSE "dst"
      /\ j.op # "save" /\ UNCHANGED <<nextId, clock>>
  BY WriteShape
<1>2. /\ k.todo = j.todo \ {s} /\ k.op = j.op /\ k.tickets = j.tickets
      /\ k.stamp = j.stamp /\ k.dst = j.dst /\ k.from = j.from /\ k.rest = j.rest
      /\ k.homes = j.homes
  BY DEF QInv, IInv, TypeOK, Jobs
<1> HIDE DEF k
<1>3. \A r \in k.todo : r \in Sprints \ {s} /\ r \in j.todo /\ files'[r] = files[r]
  BY <1>1, <1>2
<1>4. InStep(job[p])'
  <2>1. InStep(j)
    BY <1>1 DEF JobFacts
  <2> HIDE DEF j
  <2>2. \A r \in Sprints \ k.todo : files'[r] = k.dst[r]
    BY <1>1, <1>2, <2>1 DEF InStep
  <2>3. \A r \in Sprints : \A t \in TicketIds \ k.tickets : files'[r][t] = k.dst[r][t]
    BY <1>1, <1>2, <2>1 DEF InStep
  <2> QED BY <1>1, <2>2, <2>3 DEF InStep
<1>5. Stamped(job[p])'
  <2>1. Stamped(j)
    BY <1>1 DEF JobFacts
  <2> HIDE DEF j
  <2> QED BY <1>1, <1>2, <2>1 DEF Stamped
<1>6. Creates(job[p])'
  <2>1. Creates(j) /\ (j.op = "create" => deleted' = deleted)
    BY <1>1 DEF JobFacts, WriteFile
  <2> HIDE DEF j
  <2> QED BY <1>1, <1>2, <1>3, <2>1 DEF Creates
<1>7. Changes(job[p])' /\ Deletes(job[p])'
  <2>1. Changes(j) /\ Deletes(j)
    BY <1>1 DEF JobFacts
  <2> HIDE DEF j
  <2> QED BY <1>1, <1>2, <1>3, <2>1 DEF Changes, Deletes
<1>8. Transfers(job[p])'
  <2>1. Transfers(j)
    BY <1>1 DEF JobFacts
  <2> HIDE DEF j
  <2> QED BY <1>1, <1>2, <1>3, <2>1 DEF Transfers
<1>9. Archives(job[p])' /\ Moves(job[p])'
  <2>1. Archives(j) /\ Moves(j)
    BY <1>1 DEF JobFacts
  <2> HIDE DEF j
  <2> QED BY <1>1, <1>2, <1>3, <2>1 DEF Archives, Moves
<1>10. JobFacts(job[p])'
  <2>1. Saves(job[p])'
    BY <1>1, <1>2 DEF Saves
  <2> QED BY <1>4, <1>5, <1>6, <1>7, <1>8, <1>9, <2>1 DEF JobFacts
<1>11. pc'[p] \in Writing /\ pc'[p] # "dst" =>
         /\ k.todo = {} /\ k.op \in {"move", "archive"}
         /\ pc'[p] = "loc" => k.op = "archive"
         /\ pc'[p] = "src" => k.op # "archive"
  BY <1>1, <1>2 DEF AfterWrites, Writing
<1> QED BY <1>1, <1>10, <1>11 DEF JobTrue

(* The copies of a ticket after the write.                                 *)
LEMMA WriteFileAlive ==
  ASSUME QInv, IInv', NEW p \in Procs, NEW s \in Sprints, WriteFile(p, s),
         job[p].op # "save"
  PROVE  Alive' /\ Numbered'
<1> DEFINE j == job[p]
<1>1. /\ s \in j.todo /\ JobFacts(j) /\ lock = p
      /\ j.tickets \subseteq TicketIds /\ j.from \in Sprints
      /\ files'[s] = j.dst[s] /\ \A r \in Sprints \ {s} : files'[r] = files[r]
      /\ \A t \in TicketIds \ j.tickets, r \in Sprints : files'[r][t] = files[r][t]
      /\ nextId' = nextId /\ j.op # "save"
  BY WriteShape
<1>2. /\ created' = IF j.op = "create" THEN created \cup (j.tickets \cap Held(j.dst[s]))
                    ELSE created
      /\ deleted' = IF j.op = "delete" THEN deleted \cup (Held(files[s]) \ Held(j.dst[s]))
                    ELSE deleted
  BY DEF WriteFile
<1>3. /\ InStep(j) /\ Stamped(j) /\ Creates(j) /\ Changes(j) /\ Deletes(j) /\ Transfers(j)
      /\ (j.op \notin {"move", "archive"} => \A t \in TicketIds : Unique(Holders(t)))
  BY <1>1, HomeOf DEF JobFacts
<1>4. Alive /\ Numbered
  BY DEF QInv
<1> HIDE DEF j
<1>5. ASSUME NEW t \in TicketIds PROVE t \in Live' <=> Holders(t)' # {}
  <2>1. CASE j.op = "delete"
    <3>1. CASE files[s][t] # Absent /\ j.dst[s][t] = Absent
      <4>1. t \notin Live'
        BY <1>2, <2>1, <3>1 DEF Live, Held
      <4>2. \A r \in Sprints : files'[r][t] = Absent
        BY <1>1, <1>3, <2>1, <3>1 DEF Unique, Holders
      <4> QED BY <4>1, <4>2 DEF Holders
    <3>2. CASE ~ (files[s][t] # Absent /\ j.dst[s][t] = Absent)
      <4>1. j.dst[s][t] = files[s][t]
        BY <1>1, <1>3, <2>1, <3>2 DEF Deletes
      <4>2. \A r \in Sprints : files'[r][t] = files[r][t]
        BY <1>1, <4>1
      <4>3. t \in Live' <=> t \in Live
        BY <1>2, <2>1, <3>2 DEF Live, Held
      <4> QED BY <1>4, <4>2, <4>3 DEF Alive, Holders
    <3> QED BY <3>1, <3>2
  <2>2. CASE t \notin j.tickets /\ j.op # "delete"
    <3>1. t \in Live' <=> t \in Live
      BY <1>2, <2>2 DEF Live
    <3> QED BY <1>1, <1>4, <2>2, <3>1 DEF Alive, Holders
  <2>3. CASE t \in j.tickets /\ j.op = "create"
    <3>1. files[s][t] = Absent /\ t \notin deleted
      BY <1>1, <1>3, <2>3 DEF Creates
    <3>2. t \in Live' <=> t \in Live \/ j.dst[s][t] # Absent
      BY <1>2, <2>3, <3>1 DEF Live, Held
    <3> QED BY <1>1, <1>4, <3>1, <3>2 DEF Alive, Holders
  <2>4. CASE t \in j.tickets /\ j.op = "update"
    <3>1. files[s][t] # Absent /\ files'[s][t] # Absent
      BY <1>1, <1>3, <2>4 DEF Changes, Newer
    <3>2. t \in Live' <=> t \in Live
      BY <1>2, <2>4 DEF Live
    <3> QED BY <1>4, <3>1, <3>2 DEF Alive, Holders
  <2>5. CASE t \in j.tickets /\ j.op \in {"move", "archive"}
    <3>1. j.from \in Where(j.dst, t) /\ j.from # s /\ files[j.from] = j.dst[j.from]
      BY <1>1, <1>3, <2>5 DEF Transfers, InStep
    <3>2. files[j.from][t] # Absent /\ files'[j.from][t] # Absent
      BY <1>1, <3>1 DEF Where
    <3>3. t \in Live' <=> t \in Live
      BY <1>2, <2>5 DEF Live
    <3> QED BY <1>1, <1>4, <3>2, <3>3 DEF Alive, Holders
  <2> QED BY <1>1, <1>3, <2>1, <2>2, <2>3, <2>4, <2>5 DEF Stamped
<1>6. Numbered'
  <2>1. created' \subseteq 1..(nextId - 1)
    BY <1>2, <1>3, <1>4 DEF Numbered, Creates
  <2>2. Held(files[s]) \subseteq created
    BY <1>4 DEF Held, Alive, Holders, Live
  <2> QED BY <1>1, <1>2, <1>4, <2>1, <2>2 DEF Numbered
<1> QED BY <1>5, <1>6 DEF Alive

(* What the job writes for its tickets is as new as the ticket demands and *)
(* not from the future.                                                    *)
LEMMA WrittenVersions ==
  ASSUME QInv, NEW p \in Procs, JobFacts(job[p]), NEW s \in Sprints, NEW t \in TicketIds,
         job[p].dst[s][t] # Absent, job[p].op # "save"
  PROVE  /\ acked[t] <= job[p].dst[s][t].upd /\ job[p].dst[s][t].upd <= clock
         /\ t \in job[p].tickets /\ job[p].op \in {"create", "update"}
              => job[p].dst[s][t].upd = job[p].stamp
         /\ t \in job[p].tickets /\ job[p].op = "move" /\ s # job[p].from
              => job[p].dst[s][t].upd = job[p].stamp
<1> DEFINE j == job[p]
<1>1. /\ InStep(j) /\ Stamped(j) /\ Creates(j) /\ Changes(j) /\ Deletes(j) /\ Transfers(j)
      /\ Archives(j) /\ Moves(j) /\ j.dst[s][t] # Absent /\ j.from \in Sprints
      /\ j.op # "save"
  BY DEF JobFacts, QInv, IInv, TypeOK, Jobs
<1>2. acked[t] <= clock /\ clock \in Nat /\ acked[t] \in Nat
  BY Stored, IdsAssumption DEF QInv, Versions, IInv, TypeOK, Stamps
<1>3. \A r \in Sprints : files[r][t] # Absent =>
         acked[t] <= files[r][t].upd /\ files[r][t].upd <= clock
  BY Stored
<1> HIDE DEF j
<1>4. CASE files[s][t] = j.dst[s][t]
  <2>1. acked[t] <= j.dst[s][t].upd /\ j.dst[s][t].upd <= clock
    BY <1>1, <1>3, <1>4
  <2>2. t \in j.tickets /\ j.op = "create" => j.dst[s][t].upd = j.stamp
    BY <1>1 DEF Creates
  <2>3. t \in j.tickets /\ j.op = "update" => j.dst[s][t].upd = j.stamp
    BY <1>1 DEF Changes, Where
  <2>4. t \in j.tickets /\ j.op = "move" /\ s # j.from => j.dst[s][t].upd = j.stamp
    BY <1>1 DEF Moves, Where
  <2> QED BY <2>1, <2>2, <2>3, <2>4 DEF j
<1>5. CASE files[s][t] # j.dst[s][t]
  <2>1. s \in j.todo /\ t \in j.tickets
    BY <1>1, <1>5 DEF InStep
  <2>2. CASE j.op \in {"create", "update"}
    <3>1. j.dst[s][t].upd = j.stamp /\ j.stamp = clock
      BY <1>1, <2>1, <2>2 DEF Creates, Changes, Where, Stamped
    <3> QED BY <1>2, <2>2, <3>1 DEF j
  <2>3. CASE j.op = "delete"
    BY <1>1, <1>5, <2>1, <2>3 DEF Deletes
  <2>4. CASE j.op = "move"
    <3>1. s # j.from
      BY <1>1, <2>1, <2>4 DEF Transfers
    <3>2. j.dst[s][t].upd = j.stamp /\ j.stamp = clock
      BY <1>1, <2>1, <2>4, <3>1 DEF Moves, Where, Stamped
    <3> QED BY <1>2, <2>4, <3>2 DEF j
  <2>5. CASE j.op = "archive"
    <3>1. j.from \notin j.todo /\ j.dst[j.from][t] = j.dst[s][t]
      BY <1>1, <2>1, <2>5 DEF Transfers, Archives, Where
    <3>2. files[j.from][t] = j.dst[s][t]
      BY <1>1, <3>1 DEF InStep
    <3>3. acked[t] <= j.dst[s][t].upd /\ j.dst[s][t].upd <= clock
      BY <1>1, <1>3, <3>2
    <3> QED BY <2>5, <3>3 DEF j
  <2> QED BY <1>1, <2>2, <2>3, <2>4, <2>5 DEF Stamped
<1> QED BY <1>4, <1>5

LEMMA WriteFileVersions ==
  ASSUME QInv, IInv', NEW p \in Procs, NEW s \in Sprints, WriteFile(p, s),
         job[p].op # "save"
  PROVE  Versions'
<1> DEFINE j == job[p]
           acks == j.todo = {s} /\ j.op # "move" /\ j.stamp # 0
<1>1. /\ s \in j.todo /\ JobFacts(j) /\ InStep(j) /\ Stamped(j)
      /\ files'[s] = j.dst[s] /\ \A r \in Sprints \ {s} : files'[r] = files[r]
      /\ clock' = clock /\ j.op # "save"
  BY WriteShape DEF JobFacts
<1>2. \A t \in TicketIds : acked'[t] = IF acks /\ t \in j.tickets THEN j.stamp ELSE acked[t]
  <2>1. acked \in [TicketIds -> Stamps]
    BY DEF QInv, IInv, TypeOK
  <2>2. CASE j.todo = {s} /\ j.op # "move"
    BY <2>2 DEF WriteFile, Acknowledge
  <2>3. CASE ~(j.todo = {s} /\ j.op # "move")
    BY <2>3 DEF WriteFile
  <2> QED BY <2>2, <2>3
<1>3. acks => j.stamp = clock /\ j.op \in {"create", "update"}
  BY <1>1 DEF Stamped
<1>4. clock \in Nat
  BY Stored
<1>5. \A t \in TicketIds : acked'[t] <= clock'
  BY <1>1, <1>2, <1>3, <1>4 DEF QInv, Versions
<1>6. ASSUME NEW t \in TicketIds, NEW r \in Holders(t)'
      PROVE  acked'[t] <= files'[r][t].upd /\ files'[r][t].upd <= clock'
  <2>1. r \in Sprints /\ files'[r][t] # Absent
    BY <1>6 DEF Holders
  <2>2. CASE files'[r][t] = j.dst[r][t]
    <3>1. /\ acked[t] <= j.dst[r][t].upd /\ j.dst[r][t].upd <= clock
          /\ t \in j.tickets /\ j.op \in {"create", "update"} => j.dst[r][t].upd = j.stamp
      BY <1>1, <2>1, <2>2, WrittenVersions
    <3>2. CASE acks /\ t \in j.tickets
      <4>1. files'[r][t].upd = clock /\ acked'[t] = clock
        BY <1>2, <1>3, <2>2, <3>1, <3>2
      <4> QED BY <1>1, <1>4, <4>1
    <3>3. CASE ~(acks /\ t \in j.tickets)
      BY <1>1, <1>2, <2>2, <3>1, <3>3
    <3> QED BY <3>2, <3>3
  <2>3. CASE files'[r][t] # j.dst[r][t]
    <3>1. r # s /\ files'[r][t] = files[r][t] /\ r \in j.todo
      BY <1>1, <2>1, <2>3 DEF InStep
    <3>2. acked'[t] = acked[t]
      BY <1>1, <1>2, <3>1
    <3>3. acked[t] <= files[r][t].upd /\ files[r][t].upd <= clock
      BY Stored, <2>1, <3>1
    <3> QED BY <1>1, <3>1, <3>2, <3>3
  <2> QED BY <2>2, <2>3
<1> QED BY <1>5, <1>6 DEF Versions

LEMMA WriteFileHomes ==
  ASSUME QInv, NEW p \in Procs, NEW s \in Sprints, WriteFile(p, s), job[p].op # "save"
  PROVE  Homes'
<1> DEFINE j == job[p]
<1>1. /\ s \in j.todo /\ JobFacts(j) /\ lock = p
      /\ files'[s] = j.dst[s] /\ \A r \in Sprints \ {s} : files'[r] = files[r]
      /\ \A t \in TicketIds \ j.tickets, r \in Sprints : files'[r][t] = files[r][t]
      /\ job'[p] = [j EXCEPT !.todo = @ \ {s}]
      /\ pc'[p] = IF j.todo = {s} THEN AfterWrites(j) ELSE "dst"
      /\ j.op # "save"
  BY WriteShape
<1>2. InStep(j) /\ Stamped(j) /\ Creates(j) /\ Changes(j) /\ Deletes(j)
  BY <1>1 DEF JobFacts
<1>3. job'[p].op = j.op /\ job'[p].tickets = j.tickets
  BY <1>1 DEF QInv, IInv, TypeOK, Jobs
<1>4. \A t \in TicketIds : t \notin j.tickets \/ j.op \notin {"move", "archive"}
                             => Unique(Holders(t))
  BY <1>1, HomeOf
<1> HIDE DEF j
<1> SUFFICES ASSUME NEW t \in TicketIds
             PROVE  Unique(Holders(t))' \/ \E q \in Procs : Moving(q, t)'
  BY DEF Homes
<1>5. CASE t \in j.tickets /\ j.op \in {"move", "archive"}
  <2>1. pc'[p] \in Writing
    BY <1>1, <1>5 DEF AfterWrites, Writing
  <2> QED BY <1>3, <1>5, <2>1 DEF Moving
<1>6. CASE t \notin j.tickets
  <2>1. Holders(t)' = Holders(t)
    BY <1>1, <1>6 DEF Holders
  <2> QED BY <1>4, <1>6, <2>1 DEF Unique
<1>7. CASE t \in j.tickets /\ j.op \in {"update", "delete"}
  <2>1. \A r \in Sprints : files'[r][t] # Absent => files[r][t] # Absent
    BY <1>1, <1>2, <1>7 DEF Changes, Deletes, Newer
  <2> QED BY <1>4, <1>7, <2>1 DEF Unique, Holders
<1>8. CASE t \in j.tickets /\ j.op = "create"
  <2>1. \A r \in Sprints : files'[r][t] # Absent => r \in Where(j.dst, t)
    BY <1>1, <1>2, <1>8 DEF Creates, InStep, Where
  <2>2. Unique(Where(j.dst, t))
    BY <1>2, <1>8 DEF Creates
  <2> QED BY <2>1, <2>2 DEF Unique, Holders
<1> QED BY <1>1, <1>2, <1>5, <1>6, <1>7, <1>8 DEF Stamped

LEMMA WriteFileTrue ==
  ASSUME Calm, QInv, IInv', NEW p \in Procs, NEW s \in Sprints, WriteFile(p, s),
         job[p].op # "save"
  PROVE  QInv'
<1>1. /\ \A q \in Procs \ {p} : pc'[q] = pc[q] /\ job'[q] = job[q] /\ pc[q] \notin Writing
      /\ pc[p] = "dst" /\ JobFacts(job[p]) /\ s \in job[p].todo
      /\ files'[s] = job[p].dst[s] /\ \A r \in Sprints \ {s} : files'[r] = files[r]
      /\ UNCHANGED <<locator, clock, snap>>
      /\ pc'[p] = IF job[p].todo = {s} THEN AfterWrites(job[p]) ELSE "dst"
  BY WriteShape
<1>2. \A q \in Procs : JobTrue(q)'
  BY <1>1, WriteFileJob DEF JobTrue
<1>3. NoUndo'
  BY <1>1 DEF QInv, NoUndo, AfterWrites
<1>4. SnapTrue'
  <2>1. "save" \in Ops => job[p].op # "delete"
    BY <1>1 DEF Calm, JobFacts, Stamped
  <2>2. job[p].op # "delete" => \A t \in TicketIds :
           files[s][t] # Absent => files'[s][t] # Absent
    BY <1>1 DEF QInv, IInv, JobSound, WritesKeep, Held
  <2>3. "save" \in Ops => \A r \in Sprints, t \in TicketIds :
           files[r][t] # Absent => files'[r][t] # Absent
    BY <1>1, <2>1, <2>2
  <2> QED BY <1>1, <2>3, SnapWiden
<1> QED BY <1>2, <1>3, <1>4, WriteFileAlive, WriteFileVersions, WriteFileHomes DEF QInv

(* A bulk save replaces the versions of its file and leaves the job.       *)
LEMMA SavedShape ==
  ASSUME QInv, NEW p \in Procs, NEW s \in Sprints, WriteFile(p, s), job[p].op = "save"
  PROVE  /\ pc[p] = "dst" /\ lock = p /\ JobFacts(job[p])
         /\ job[p].todo = {s} /\ job[p].tickets = {}
         /\ files'[s] = job[p].dst[s] /\ \A r \in Sprints \ {s} : files'[r] = files[r]
         /\ UNCHANGED <<locator, nextId, clock, snap, created, deleted>>
         /\ \A q \in Procs \ {p} : pc'[q] = pc[q] /\ job'[q] = job[q] /\ pc[q] \notin Writing
         /\ pc'[p] = IF job[p].rotate THEN "rearm" ELSE "idle"
         /\ \A r \in Sprints, t \in TicketIds : files'[r][t] = Absent <=> files[r][t] = Absent
<1> DEFINE j == job[p]
<1>1. TypeOK /\ LockOwned
  BY DEF QInv, IInv
<1>2. /\ pc[p] = "dst" /\ lock = p /\ s \in j.todo
      /\ files'[s] = j.dst[s] /\ \A r \in Sprints \ {s} : files'[r] = files[r]
      /\ UNCHANGED <<locator, nextId, clock, snap, created, deleted>>
  BY <1>1 DEF WriteFile, LockOwned, InLock, TypeOK
<1>3. JobFacts(j)
  BY <1>2 DEF QInv, JobTrue, Writing
<1>4. /\ j.todo = {s} /\ j.tickets = {}
      /\ \A t \in TicketIds : files[s][t] = Absent <=> j.dst[s][t] = Absent
  BY <1>2, <1>3 DEF JobFacts, Saves, Unique
<1>5. \A q \in Procs \ {p} : pc'[q] = pc[q] /\ job'[q] = job[q]
  BY <1>1 DEF WriteFile, Goto, TypeOK
<1>6. pc'[p] = IF j.rotate THEN "rearm" ELSE "idle"
  BY <1>1, <1>4 DEF WriteFile, Goto, AfterWrites, TypeOK
<1>7. \A q \in Procs \ {p} : pc[q] \notin Writing
  BY <1>1, <1>2, OneWriter
<1> HIDE DEF j
<1>8. \A r \in Sprints, t \in TicketIds : files'[r][t] = Absent <=> files[r][t] = Absent
  BY <1>2, <1>4
<1> QED BY <1>2, <1>3, <1>4, <1>5, <1>6, <1>7, <1>8 DEF j

LEMMA WriteSavedTrue ==
  ASSUME QInv, IInv', NEW p \in Procs, NEW s \in Sprints, WriteFile(p, s),
         job[p].op = "save"
  PROVE  QInv'
<1> DEFINE j == job[p]
<1>1. TypeOK /\ LockOwned
  BY DEF QInv, IInv
<1>2. /\ pc[p] = "dst" /\ lock = p /\ JobFacts(j) /\ j.todo = {s} /\ j.tickets = {}
      /\ files'[s] = j.dst[s] /\ \A r \in Sprints \ {s} : files'[r] = files[r]
      /\ UNCHANGED <<locator, nextId, clock, snap, created, deleted>>
  BY SavedShape
<1>4. \A t \in TicketIds : files[s][t] # Absent =>
         files[s][t].upd <= j.dst[s][t].upd /\ j.dst[s][t].upd <= clock
  BY <1>2 DEF JobFacts, Saves
<1>5. /\ \A q \in Procs \ {p} : pc'[q] = pc[q] /\ job'[q] = job[q] /\ pc[q] \notin Writing
      /\ pc'[p] \in {"idle", "rearm"}
  BY SavedShape
<1>6. acked' = acked
  <2>1. acked' = [t \in TicketIds |-> acked[t]]
    BY <1>2 DEF WriteFile, Acknowledge
  <2> QED BY <1>1, <2>1 DEF TypeOK
<1>7. \A r \in Sprints, t \in TicketIds : files'[r][t] = Absent <=> files[r][t] = Absent
  BY SavedShape
<1> HIDE DEF j
<1>8. \A t \in TicketIds : Holders(t)' = Holders(t)
  BY <1>7 DEF Holders
<1>9. Alive' /\ Numbered' /\ NoUndo'
  BY <1>2, <1>5, <1>8 DEF QInv, Alive, Live, Numbered, NoUndo
<1>10. SnapTrue'
  BY <1>2, <1>7, SnapWiden
<1>11. Versions'
  <2>1. ASSUME NEW t \in TicketIds, NEW r \in Holders(t)'
        PROVE  acked'[t] <= files'[r][t].upd /\ files'[r][t].upd <= clock'
    <3>1. r \in Sprints /\ files[r][t] # Absent /\ files'[r][t] # Absent
      BY <1>7, <2>1 DEF Holders
    <3>2. files[r][t].upd \in Nat /\ acked[t] <= files[r][t].upd /\ files[r][t].upd <= clock
      BY <3>1, Stored
    <3>3. acked[t] \in Nat /\ files'[r][t].upd \in Nat
      <4>1. TypeOK'
        BY DEF IInv
      <4> QED BY <1>1, <3>1, <4>1, IdsAssumption DEF TypeOK, Contents, Records, Stamps
    <3>4. CASE r = s
      BY <1>2, <1>4, <1>6, <3>1, <3>2, <3>3, <3>4
    <3>5. CASE r # s
      BY <1>2, <1>6, <3>1, <3>2, <3>5
    <3> QED BY <3>4, <3>5
  <2> QED BY <1>2, <1>6, <2>1 DEF QInv, Versions
<1>12. Homes'
  <2>1. \A t \in TicketIds : Unique(Holders(t))
    BY <1>2, HomeOf DEF j
  <2> QED BY <1>8, <2>1 DEF Homes, Unique
<1>13. \A q \in Procs : JobTrue(q)'
  BY <1>5 DEF JobTrue, Writing
<1> QED BY <1>9, <1>10, <1>11, <1>12, <1>13 DEF QInv

(* What is true while a process is about to take tickets from a file: all  *)
(* it wrote is on disk.                                                    *)
LEMMA SourceShape ==
  ASSUME QInv, NEW p \in Procs, pc[p] \in {"loc", "src"}
  PROVE  /\ lock = p /\ JobFacts(job[p]) /\ job[p].op \in {"move", "archive"}
         /\ \A s \in Sprints : files[s] = job[p].dst[s]
         /\ job[p].from \in Sprints /\ job[p].tickets \subseteq TicketIds
         /\ \A t \in TicketIds \ job[p].tickets : Unique(Holders(t))
         /\ \A t \in job[p].tickets :
              \E h \in Sprints \ {job[p].from} : Holders(t) = {job[p].from, h}
<1> DEFINE j == job[p]
<1>1. lock = p /\ j.from \in Sprints /\ j.tickets \subseteq TicketIds
  BY DEF QInv, IInv, LockOwned, InLock, TypeOK, Jobs
<1>2. JobFacts(j) /\ j.op \in {"move", "archive"} /\ j.todo = {}
  BY DEF QInv, JobTrue, Writing
<1>3. \A s \in Sprints : files[s] = j.dst[s]
  BY <1>2 DEF JobFacts, InStep
<1>4. \A t \in TicketIds : Holders(t) = Where(j.dst, t)
  BY <1>3 DEF Holders, Where
<1>5. \A t \in j.tickets : \E h \in Sprints \ {j.from} : Where(j.dst, t) = {j.from, h}
  BY <1>2 DEF JobFacts, Transfers
<1>6. \A t \in TicketIds \ j.tickets : Unique(Holders(t))
  BY <1>1, HomeOf
<1>7. \A t \in j.tickets : \E h \in Sprints \ {j.from} : Holders(t) = {j.from, h}
  BY <1>1, <1>4, <1>5
<1> QED BY <1>1, <1>2, <1>3, <1>6, <1>7

(* The copies of a ticket before and after it leaves its source.           *)
LEMMA SourceCopies ==
  ASSUME QInv, NEW p \in Procs, WriteSource(p)
  PROVE  /\ \A s \in Sprints \ {job[p].from} : files'[s] = files[s]
         /\ \A t \in TicketIds \ job[p].tickets, s \in Sprints : files'[s][t] = files[s][t]
         /\ \A t \in job[p].tickets :
              \E h \in Sprints \ {job[p].from} :
                Holders(t) = {job[p].from, h} /\ Holders(t)' = {h}
<1> DEFINE j == job[p]
<1>1. /\ JobFacts(j) /\ j.op \in {"move", "archive"}
      /\ \A s \in Sprints : files[s] = j.dst[s]
      /\ j.from \in Sprints /\ j.tickets \subseteq TicketIds
      /\ \A t \in j.tickets : \E h \in Sprints \ {j.from} : Holders(t) = {j.from, h}
  BY SourceShape DEF WriteSource
<1>2. files'[j.from] = j.rest /\ \A s \in Sprints \ {j.from} : files'[s] = files[s]
  BY <1>1 DEF WriteSource, QInv, IInv, TypeOK
<1>3. \A t \in TicketIds :
         j.rest[t] = IF t \in j.tickets THEN Absent ELSE j.dst[j.from][t]
  BY <1>1 DEF JobFacts, Transfers
<1>4. \A t \in TicketIds \ j.tickets, s \in Sprints : files'[s][t] = files[s][t]
  BY <1>1, <1>2, <1>3
<1>5. ASSUME NEW t \in j.tickets
      PROVE  \E h \in Sprints \ {j.from} : Holders(t) = {j.from, h} /\ Holders(t)' = {h}
  <2>1. PICK h \in Sprints \ {j.from} : Holders(t) = {j.from, h}
    BY <1>1
  <2>2. files'[j.from][t] = Absent
    BY <1>1, <1>2, <1>3
  <2>3. \A s \in Sprints : files'[s][t] # Absent <=> s # j.from /\ files[s][t] # Absent
    BY <1>2, <2>2
  <2>4. Holders(t)' = Holders(t) \ {j.from}
    BY <2>3 DEF Holders
  <2> QED BY <2>1, <2>4
<1> QED BY <1>2, <1>4, <1>5

LEMMA WriteSourceTrue ==
  ASSUME Calm, QInv, IInv', NEW p \in Procs, WriteSource(p)
  PROVE  QInv'
<1> DEFINE j == job[p]
<1>1. /\ pc[p] = "src" /\ pc'[p] = "release" /\ UNCHANGED <<job, snap, created, deleted>>
      /\ UNCHANGED <<nextId, clock>> /\ \A q \in Procs \ {p} : pc'[q] = pc[q]
  BY DEF WriteSource, Goto, QInv, IInv, TypeOK
<1>2. /\ lock = p /\ JobFacts(j) /\ j.op \in {"move", "archive"}
      /\ \A s \in Sprints : files[s] = j.dst[s]
      /\ j.from \in Sprints /\ j.tickets \subseteq TicketIds
      /\ \A t \in TicketIds \ j.tickets : Unique(Holders(t))
  BY <1>1, SourceShape
<1>3. /\ \A s \in Sprints \ {j.from} : files'[s] = files[s]
      /\ \A t \in TicketIds \ j.tickets, s \in Sprints : files'[s][t] = files[s][t]
      /\ \A t \in j.tickets :
           \E h \in Sprints \ {j.from} : Holders(t) = {j.from, h} /\ Holders(t)' = {h}
  BY SourceCopies
<1>4. \A t \in TicketIds \ j.tickets : Holders(t)' = Holders(t)
  BY <1>3 DEF Holders
<1>5. NoUndo' /\ Numbered' /\ SnapTrue'
  <2>1. NoUndo' /\ Numbered'
    BY <1>1 DEF QInv, NoUndo, Numbered
  <2>2. "save" \in Ops => j.op = "archive"
    BY <1>2 DEF Calm, JobFacts, Stamped
  <2>3. j.op = "archive" => \A t \in j.tickets : locator[t] # Absent
    BY <1>1 DEF QInv, JobTrue, Writing
  <2>4. locator' = locator
    BY DEF WriteSource
  <2>5. "save" \in Ops => \A r \in Sprints, t \in TicketIds :
           files[r][t] # Absent => files'[r][t] # Absent \/ locator[t] # Absent
    BY <1>3, <2>2, <2>3
  <2> QED BY <1>1, <2>1, <2>4, <2>5, SnapWiden
<1>6. \A t \in TicketIds : Holders(t)' # {} <=> Holders(t) # {}
  BY <1>3, <1>4
<1>7. Alive'
  BY <1>1, <1>6 DEF QInv, Alive, Live
<1>8. Homes'
  BY <1>2, <1>3, <1>4 DEF Homes, Unique
<1>9. Versions'
  <2>1. acked' = [t \in TicketIds |->
                    IF j.op = "move" /\ t \in j.tickets /\ j.stamp # 0
                    THEN j.stamp ELSE acked[t]]
    <3>1. acked \in [TicketIds -> Stamps]
      BY DEF QInv, IInv, TypeOK
    <3>2. CASE j.op = "move" BY <3>2 DEF WriteSource, Acknowledge
    <3>3. CASE j.op # "move" BY <3>1, <3>3 DEF WriteSource
    <3> QED BY <3>2, <3>3
  <2>2. j.op = "move" => j.stamp = clock
    BY <1>2 DEF JobFacts, Stamped
  <2>3. clock \in Nat /\ \A t \in TicketIds : acked[t] <= clock
    BY Stored DEF QInv, Versions
  <2>4. \A t \in TicketIds : acked'[t] <= clock
    BY <2>1, <2>2, <2>3
  <2>5. ASSUME NEW t \in TicketIds, NEW s \in Holders(t)'
        PROVE  acked'[t] <= files'[s][t].upd /\ files'[s][t].upd <= clock
    <3>1. /\ s \in Sprints /\ files[s][t] # Absent /\ files'[s][t] = files[s][t]
          /\ (t \in j.tickets => s # j.from)
      BY <1>3, <2>5 DEF Holders
    <3>2. acked[t] <= files[s][t].upd /\ files[s][t].upd <= clock
      BY <3>1, Stored
    <3>3. t \in j.tickets /\ j.op = "move" => files[s][t].upd = j.stamp
      BY <1>2, <3>1, WrittenVersions
    <3>4. CASE j.op = "move" /\ t \in j.tickets
      <4>1. files'[s][t].upd = clock
        BY <2>2, <3>1, <3>3, <3>4
      <4> QED BY <2>3, <2>4, <4>1
    <3>5. CASE ~(j.op = "move" /\ t \in j.tickets)
      BY <2>1, <3>1, <3>2, <3>5
    <3> QED BY <3>4, <3>5
  <2> QED BY <1>1, <2>4, <2>5 DEF Versions
<1>10. \A q \in Procs : JobTrue(q)'
  <2>1. \A q \in Procs \ {p} : pc[q] \notin Writing
    BY <1>2, OneWriter DEF QInv, IInv
  <2> QED BY <1>1, <2>1 DEF JobTrue, Writing
<1> QED BY <1>5, <1>7, <1>8, <1>9, <1>10 DEF QInv

-----------------------------------------------------------------------------
LEMMA QInvInit == Init => QInv
<1>1. ASSUME Init PROVE QInv
  <2>1. IInv
    BY <1>1, IInvInit
  <2>2. \A t \in TicketIds : Holders(t) = {}
    BY <1>1 DEF Init, Holders, NoTickets
  <2>3. NoUndo /\ SnapTrue /\ Numbered
    BY <1>1 DEF Init, NoUndo, SnapTrue, Numbered
  <2>4. Alive /\ Homes
    BY <1>1, <2>2 DEF Init, Alive, Live, Homes, Unique
  <2>5. Versions
    BY <1>1, <2>2 DEF Init, Versions
  <2>6. \A p \in Procs : JobTrue(p)
    BY <1>1 DEF Init, JobTrue, Writing
  <2> QED BY <2>1, <2>3, <2>4, <2>5, <2>6 DEF QInv
<1> QED BY <1>1

(* Without deaths and failed writes these steps are all there are.         *)
LEMMA Steps ==
  ASSUME Calm, NoUndo, Next
  PROVE  \E p \in Procs :
           \/ \E n \in 1..MaxTickets, st \in Statuses :
                \E sprintOf \in [NewIds(n) -> Operational] : BeginCreate(p, n, sprintOf, st)
           \/ \E t \in TicketIds, f \in Sprints : BeginUpdate(p, t, f)
           \/ \E T \in SUBSET TicketIds : BeginDelete(p, T)
           \/ \E t \in TicketIds, f \in Sprints, to \in MoveTargets : BeginMove(p, t, f, to)
           \/ \E s \in Operational : Load(p, s)
           \/ \E t \in TicketIds, st \in Statuses : EditSnapshot(p, t, st)
           \/ BeginSave(p)
           \/ \E from \in {"idle", "rearm"}, force \in BOOLEAN : BeginArchive(p, from, force)
           \/ \E s \in Sprints : WriteFile(p, s)
           \/ WriteLocator(p)
           \/ WriteSource(p)
           \/ NothingToArchive(p)
           \/ Rotate(p)
           \/ Release(p)
<1>1. PICK p \in Procs : Begin(p) \/ Continue(p) \/ SourceWriteFails(p) \/ Crash(p)
  BY DEF Next
<1>2. "crash" \notin Ops /\ "fail" \notin Ops
  BY DEF Calm
<1>3. ~ SourceWriteFails(p) /\ ~ Crash(p)
  BY <1>2 DEF SourceWriteFails, Crash
<1>4. ~ UndoMove(p)
  BY DEF UndoMove, NoUndo
<1>5. CASE Begin(p)
  BY <1>5, Zenon DEF Begin
<1>6. CASE Continue(p)
  BY <1>4, <1>6, Zenon DEF Continue
<1> QED BY <1>1, <1>3, <1>5, <1>6

LEMMA WriteLocatorTrue ==
  ASSUME QInv, IInv', NEW p \in Procs, WriteLocator(p)
  PROVE  QInv'
<1>1. /\ pc[p] = "loc" /\ pc'[p] = "src" /\ job' = job
      /\ UNCHANGED <<files, created, deleted, acked, snap, nextId, clock>>
      /\ \A q \in Procs \ {p} : pc'[q] = pc[q]
      /\ \A t \in TicketIds : locator[t] # Absent \/ job[p].homes[t] # Absent
                                => locator'[t] # Absent
  BY DEF WriteLocator, Goto, histVars, QInv, IInv, TypeOK
<1>2. lock = p /\ clock \in Nat /\ nextId \in Nat
  BY <1>1, Stored, SourceShape
<1>3. /\ JobFacts(job[p]) /\ job[p].todo = {} /\ job[p].op \in {"move", "archive"}
      /\ job[p].tickets \subseteq TicketIds
  BY <1>1 DEF QInv, JobTrue, Writing, IInv, TypeOK, Jobs
<1>4. JobFacts(job[p])'
  BY <1>1, <1>3, FactsSame
<1>5. JobTrue(p)'
  <2>1. job[p].op = "archive" => \A t \in job[p].tickets : locator'[t] # Absent
    BY <1>1, <1>3 DEF JobFacts, Archives
  <2> QED BY <1>1, <1>3, <1>4, <2>1 DEF JobTrue
<1>6. pc'[p] \in Writing
  BY <1>1 DEF Writing
<1>7. SnapTrue'
  BY <1>1, <1>2, SnapKept
<1> QED BY <1>1, <1>2, <1>5, <1>6, <1>7, QuietTrue

LEMMA ReleaseTrue ==
  ASSUME QInv, IInv', NEW p \in Procs, Release(p)
  PROVE  QInv'
<1>1. /\ pc[p] = "release" /\ pc'[p] = "idle"
      /\ UNCHANGED <<files, created, deleted, acked, snap, locator, nextId, clock>>
      /\ \A q \in Procs \ {p} : pc'[q] = pc[q] /\ job'[q] = job[q]
  BY DEF Release, Goto, storeVars, histVars, QInv, IInv, TypeOK
<1>2. lock = p /\ clock \in Nat /\ nextId \in Nat
  BY <1>1, Stored DEF QInv, IInv, LockOwned, InLock
<1>3. JobTrue(p)' /\ pc[p] \notin Writing
  BY <1>1 DEF JobTrue, Writing
<1>4. SnapTrue'
  BY <1>1, <1>2, SnapKept
<1> QED BY <1>1, <1>2, <1>3, <1>4, QuietTrue

LEMMA QInvStep == Calm /\ QInv /\ [Next]_vars => QInv'
<1> SUFFICES ASSUME Calm, QInv, [Next]_vars PROVE QInv'
  OBVIOUS
<1>1. IInv' /\ NoUndo
  BY IInvStep DEF QInv
<1>2. CASE Next
  <2>1. ASSUME NEW p \in Procs, NEW from \in {"idle", "rearm"}, NEW force \in BOOLEAN,
               BeginArchive(p, from, force)
        PROVE  QInv'
    BY <1>1, <2>1, ArchiveTrue
  <2>2. ASSUME NEW p \in Procs, NEW s \in Sprints, WriteFile(p, s) PROVE QInv'
    BY <1>1, <2>2, WriteFileTrue, WriteSavedTrue
  <2>3. ASSUME NEW p \in Procs,
               (\E s \in Operational : Load(p, s))
               \/ (\E t \in TicketIds, st \in Statuses : EditSnapshot(p, t, st))
        PROVE  QInv'
    BY <1>1, <2>3, SnapshotTrue
  <2> QED BY <1>1, <1>2, <2>1, <2>2, <2>3, Steps, CreateTrue, UpdateTrue, DeleteTrue,
             MoveTrue, SaveTrue, NothingTrue, WriteLocatorTrue, WriteSourceTrue,
             RotateTrue, ReleaseTrue
<1>3. CASE UNCHANGED vars
  <2>1. UNCHANGED <<files, locator, nextId, clock, pc, job, snap, created, deleted, acked>>
    BY <1>3 DEF vars, storeVars, procVars, histVars
  <2>2. NoUndo' /\ SnapTrue' /\ Alive' /\ Numbered' /\ Versions'
    BY <2>1 DEF QInv, NoUndo, SnapTrue, Alive, Live, Numbered, Versions, Holders, Held
  <2>3. Homes'
    BY <2>1 DEF QInv, Homes, Unique, Moving, Holders
  <2>4. \A p \in Procs : JobTrue(p)'
    BY <2>1, JobSame DEF QInv
  <2> QED BY <1>1, <2>2, <2>3, <2>4 DEF QInv
<1> QED BY <1>2, <1>3

-----------------------------------------------------------------------------
LEMMA LookupsTrueHolds == QInv => LookupsTrue
<1> SUFFICES ASSUME QInv PROVE LookupsTrue
  OBVIOUS
<1>1. TypeOK /\ LockOwned /\ Alive
  BY DEF QInv, IInv
<1>2. AckedVisible
  <2> SUFFICES ASSUME NEW t \in Live PROVE Lookup(t) # Absent /\ Lookup(t).upd >= acked[t]
    BY DEF AckedVisible
  <2>1. t \in TicketIds /\ Holders(t) # {}
    BY <1>1 DEF Alive, Live, TypeOK
  <2>2. PICK s \in Holders(t) : Lookup(t) = files[s][t]
    BY <1>1, <2>1, LookupHolder
  <2>3. s \in Sprints /\ files[s][t] # Absent
    BY <2>2 DEF Holders
  <2>4. /\ acked[t] <= files[s][t].upd /\ files[s][t].upd \in Nat
        /\ acked[t] \in Nat
    BY <1>1, <2>1, <2>3, Stored, IdsAssumption DEF TypeOK, Stamps
  <2> QED BY <2>2, <2>3, <2>4
<1>3. ASSUME lock = NoProc, NEW t \in TicketIds PROVE Unique(Holders(t))
  <2>1. \A q \in Procs : pc[q] \notin Writing
    BY <1>1, <1>3, ProcsAssumption DEF LockOwned, InLock, Writing
  <2> QED BY <2>1 DEF QInv, Homes, Moving
<1>4. OneHome
  <2> SUFFICES ASSUME lock = NoProc, NEW t \in TicketIds PROVE Cardinality(Holders(t)) <= 1
    BY DEF OneHome
  <2>1. CASE Holders(t) = {}
    BY <2>1, FS_EmptySet
  <2>2. CASE Holders(t) # {}
    <3>1. PICK s \in Holders(t) : TRUE
      BY <2>2
    <3>2. Holders(t) = {s}
      BY <1>3, <3>1 DEF Unique
    <3>3. Cardinality({s}) = 1
      BY FS_Singleton
    <3> QED BY <3>2, <3>3
  <2> QED BY <2>1, <2>2
<1>5. DeletedGone
  BY <1>1 DEF DeletedGone, Alive, Live, TypeOK
<1> QED BY <1>2, <1>4, <1>5 DEF LookupsTrue

(* While no process dies and no write fails, and tickets are not deleted   *)
(* or moved by hand where snapshots are saved in bulk, a                   *)
(* lookup of a live ticket returns, in every state, a version at least as  *)
(* new as the last mutation acknowledged for it; between mutations a       *)
(* ticket is in one file at most, and a deleted one in none.               *)
THEOREM LookupsTrueCorrect ==
  ASSUME Calm PROVE Spec => []LookupsTrue
<1>1. QInv /\ [Next]_vars => QInv'
  BY QInvStep
<1> QED BY QInvInit, <1>1, LookupsTrueHolds, PTL DEF Spec

-----------------------------------------------------------------------------
(* Where bulk saves may put tickets.                                       *)

(* A mutation other than a move puts no ticket that only history holds     *)
(* into an operational file.                                               *)
LEMMA WriteFileHistory ==
  ASSUME QInv, NEW p \in Procs, NEW s \in Operational, WriteFile(p, s),
         job[p].op \notin {"save", "move"}, NEW t \in TicketIds,
         NEW h \in Histories, files[h][t] # Absent,
         \A r \in Operational : files[r][t] = Absent
  PROVE  files'[s][t] = Absent
<1> DEFINE j == job[p]
<1>1. s \in Sprints /\ h \in Sprints /\ h # s /\ Current \in Operational
  BY SprintsAssumption DEF Sprints, Operational
<1>2. /\ s \in j.todo /\ JobFacts(j) /\ files'[s] = j.dst[s] /\ files[s][t] = Absent
      /\ \A r \in Sprints : t \notin j.tickets => files'[r][t] = files[r][t]
  BY <1>1, WriteShape
<1>3. /\ InStep(j) /\ Stamped(j) /\ Creates(j) /\ Changes(j) /\ Deletes(j)
      /\ Transfers(j) /\ Archives(j) /\ j.op \notin {"save", "move"}
  BY <1>2 DEF JobFacts
<1> HIDE DEF j
<1>4. CASE t \notin j.tickets
  BY <1>1, <1>2, <1>4
<1>5. CASE t \in j.tickets /\ j.op = "create"
  <2>1. h \in Where(j.dst, t)
    BY <1>1, <1>3, <1>5 DEF Creates, InStep, Where
  <2>2. s \notin Where(j.dst, t)
    BY <1>1, <1>3, <1>5, <2>1 DEF Creates, Unique
  <2> QED BY <1>1, <1>2, <2>2 DEF Where
<1>6. CASE t \in j.tickets /\ j.op = "update"
  BY <1>2, <1>3, <1>6 DEF Changes, Newer
<1>7. CASE j.op = "delete"
  BY <1>2, <1>3, <1>7 DEF Deletes
<1>8. CASE t \in j.tickets /\ j.op = "archive"
  <2>1. j.from = Current /\ j.from \notin j.todo /\ Current \in Where(j.dst, t)
    BY <1>3, <1>8 DEF Archives, Transfers
  <2>2. files[Current][t] # Absent
    BY <1>1, <1>3, <2>1 DEF InStep, Where
  <2> QED BY <1>1, <2>2
<1> QED BY <1>3, <1>4, <1>5, <1>6, <1>7, <1>8 DEF Stamped

(* While no process dies and no write fails, and tickets are not deleted   *)
(* or moved by hand where snapshots are saved in bulk, no step but a move  *)
(* brings a ticket that only history holds back to an operational sprint:  *)
(* not a snapshot saved late, whatever it was taken of.                    *)
THEOREM NoResurrectionCorrect ==
  ASSUME Calm PROVE Spec => NoResurrection
<1> DEFINE Stays ==
      \A t \in TicketIds :
        /\ \E h \in Histories : files[h][t] # Absent
        /\ \A s \in Operational : files[s][t] = Absent
        /\ ~ \E p \in Procs : job[p].op = "move"
        => \A s \in Operational : files'[s][t] = Absent
<1>1. QInv /\ [Next]_vars => QInv'
  BY QInvStep
<1>2. QInv /\ [Next]_vars => [Stays]_vars
  <2> SUFFICES ASSUME QInv, Next PROVE Stays
    BY Zenon
  <2> SUFFICES ASSUME NEW t \in TicketIds, NEW h \in Histories, files[h][t] # Absent,
                      \A s \in Operational : files[s][t] = Absent,
                      ~ \E p \in Procs : job[p].op = "move",
                      NEW r \in Operational
               PROVE  files'[r][t] = Absent
    OBVIOUS
  <2>1. CASE files' = files
    BY <2>1
  <2>2. ASSUME NEW p \in Procs, NEW s \in Sprints, WriteFile(p, s)
        PROVE  files'[r][t] = Absent
    <3>1. r \in Sprints
      BY DEF Sprints
    <3>2. CASE job[p].op = "save"
      BY <2>2, <3>1, <3>2, SavedShape
    <3>3. CASE job[p].op # "save" /\ s = r
      BY <2>2, <3>3, WriteFileHistory
    <3>4. CASE job[p].op # "save" /\ s # r
      <4>1. \A u \in Sprints \ {s} : files'[u] = files[u]
        BY <2>2, <3>4, WriteShape
      <4> QED BY <3>1, <3>4, <4>1
    <3> QED BY <3>2, <3>3, <3>4
  <2>3. ASSUME NEW p \in Procs, WriteSource(p) PROVE files'[r][t] = Absent
    <3>1. r \in Sprints /\ files[r][t] = Absent
      BY DEF Sprints
    <3>2. CASE t \in job[p].tickets
      BY <2>3, <3>1, <3>2, SourceCopies DEF Holders
    <3>3. CASE t \notin job[p].tickets
      BY <2>3, <3>1, <3>3, SourceCopies
    <3> QED BY <3>2, <3>3
  <2>4. Calm /\ NoUndo
    BY DEF QInv
  <2>5. files' = files \/ \E p \in Procs : WriteSource(p) \/ \E s \in Sprints : WriteFile(p, s)
    BY <2>4, Steps DEF BeginCreate, BeginUpdate, BeginDelete, BeginMove, Load, EditSnapshot,
       BeginSave, BeginArchive, WriteLocator, NothingToArchive, Rotate, Release, storeVars
  <2> QED BY <2>1, <2>2, <2>3, <2>5
<1> QED BY <1>1, <1>2, QInvInit, PTL DEF Spec, NoResurrection

-----------------------------------------------------------------------------
(* The current sprint is active-only.                                      *)

(* All terminal tickets are candidates.                                    *)
LEMMA CandidatesAll ==
  ASSUME RotatesAll, NEW force \in BOOLEAN
  PROVE  TerminalIn(files[Current]) \subseteq ArchiveCandidates(files[Current], force)
<1>1. "archive" \in Ops /\ RetainDays = 0
  BY DEF RotatesAll
<1> QED BY <1>1 DEF ArchiveCandidates, Stale

(* A step of p keeps the current sprint active-only, or due for rotation.  *)
LEMMA ActiveKept ==
  ASSUME Active, NEW p \in Procs, RotateDue(p)',
         \A q \in Procs \ {p} : pc'[q] = pc[q] /\ job'[q] = job[q],
         \/ Rotating(p)'
         \/ TerminalIn(files'[Current]) = {}
         \/ ~ Rotating(p) /\ TerminalIn(files'[Current]) \subseteq TerminalIn(files[Current])
  PROVE  Active'
<1>1. \A q \in Procs \ {p} : Rotating(q)' = Rotating(q) /\ RotateDue(q)' = RotateDue(q)
  BY DEF Rotating, RotateDue, TerminalIn, Held
<1>2. \A q \in Procs : RotateDue(q)'
  BY <1>1 DEF Active
<1>3. TerminalIn(files'[Current]) = {} \/ \E q \in Procs : Rotating(q)'
  BY <1>1 DEF Active
<1>4. TerminalIn(files[Current])' = TerminalIn(files'[Current])
  BY DEF TerminalIn, Held
<1> QED BY <1>2, <1>3, <1>4 DEF Active

(* A job that takes every candidate leaves nothing terminal behind.        *)
LEMMA RotatesRest ==
  ASSUME RotatesAll, NEW force \in BOOLEAN, NEW j,
         j = ArchiveJob(files[Current], ArchiveCandidates(files[Current], force))
  PROVE  j.op = "archive" /\ TerminalIn(j.rest) = {}
<1> DEFINE content == files[Current]
           T == ArchiveCandidates(content, force)
<1>1. TerminalIn(content) \subseteq T
  BY CandidatesAll
<1>2. j.op = "archive" /\ j.rest = Drop(content, T)
  BY DEF ArchiveJob, NoJob
<1> HIDE DEF T, content
<1>3. TerminalIn(Drop(content, T)) = {}
  BY <1>1 DEF TerminalIn, Held, Drop, Terminal
<1> QED BY <1>2, <1>3

LEMMA ActiveWriteFile ==
  ASSUME Calm, RotatesAll, QInv, Active, NEW p \in Procs, NEW s \in Sprints, WriteFile(p, s)
  PROVE  Active'
<1> DEFINE j == job[p]
<1>1. /\ s \in j.todo /\ pc[p] = "dst" /\ JobFacts(j)
      /\ files'[s] = j.dst[s] /\ \A r \in Sprints \ {s} : files'[r] = files[r]
      /\ \A q \in Procs \ {p} : pc'[q] = pc[q] /\ job'[q] = job[q]
  <2>1. CASE job[p].op = "save"
    BY <2>1, SavedShape
  <2>2. CASE job[p].op # "save"
    BY <2>2, WriteShape
  <2> QED BY <2>1, <2>2
<1>2. Current \in Sprints /\ job[p] \in Jobs /\ RotateDue(p)
  BY DEF Sprints, Operational, QInv, IInv, TypeOK, Active
<1>3. CASE j.op = "save"
  <2>1. pc'[p] = IF j.rotate THEN "rearm" ELSE "idle"
    BY <1>3, SavedShape
  <2>2. s = Current => j.rotate
    BY <1>1, <1>2, <1>3 DEF RotateDue
  <2>3. RotateDue(p)' /\ (j.rotate => Rotating(p)')
    BY <2>1 DEF RotateDue, Rotating
  <2>4. ~ j.rotate => ~ Rotating(p) /\ files'[Current] = files[Current]
    BY <1>1, <1>2, <1>3, <2>2 DEF Rotating
  <2> QED BY <1>1, <2>3, <2>4, ActiveKept
<1>4. CASE j.op # "save"
  <2>1. /\ job'[p] = [j EXCEPT !.todo = @ \ {s}]
        /\ pc'[p] = IF j.todo = {s} THEN AfterWrites(j) ELSE "dst"
    BY <1>4, WriteShape
  <2>2. /\ job'[p].op = j.op /\ job'[p].rotate = j.rotate /\ job'[p].rest = j.rest
        /\ job'[p].todo = j.todo \ {s}
    BY <1>2, <2>1 DEF Jobs
  <2>3. RotateDue(p)'
    BY <1>1, <1>2, <2>1, <2>2 DEF RotateDue, AfterWrites
  <2>4. j.op # "move" /\ Archives(j) /\ Transfers(j) /\ Deletes(j)
    BY <1>1 DEF JobFacts, Stamped, RotatesAll
  <2>5. CASE j.op = "archive"
    <3>1. Rotating(p) => Rotating(p)'
      <4>1. pc'[p] \in Writing
        BY <2>1, <2>5 DEF AfterWrites, Writing
      <4>2. Rotating(p) => TerminalIn(j.rest) = {}
        BY <1>1, <2>5 DEF Rotating
      <4>3. TerminalIn(job[p].rest)' = TerminalIn(j.rest)
        BY <2>2 DEF TerminalIn, Held
      <4> QED BY <2>2, <2>5, <4>1, <4>2, <4>3 DEF Rotating
    <3>2. s # Current
      BY <1>1, <2>4, <2>5 DEF Archives, Transfers
    <3> QED BY <1>1, <1>2, <2>3, <3>1, <3>2, ActiveKept
  <2>6. CASE j.op # "archive"
    <3>1. j.rotate => Rotating(p)'
      BY <1>4, <2>1, <2>2, <2>4, <2>6 DEF Rotating, AfterWrites
    <3>2. ~ j.rotate => ~ Rotating(p)
      BY <1>1, <2>6 DEF Rotating
    <3>3. CASE s # Current
      BY <1>1, <1>2, <2>3, <3>1, <3>2, <3>3, ActiveKept
    <3>4. CASE s = Current /\ j.op # "delete"
      BY <1>1, <1>2, <2>3, <2>6, <3>1, <3>4, ActiveKept DEF RotateDue
    <3>5. CASE s = Current /\ j.op = "delete"
      <4>1. \A t \in TicketIds : j.dst[s][t] \in {files[s][t], Absent}
        BY <1>1, <2>4, <3>5 DEF Deletes
      <4>2. TerminalIn(files'[Current]) \subseteq TerminalIn(files[Current])
        BY <1>1, <3>5, <4>1 DEF TerminalIn, Held
      <4> QED BY <1>1, <2>3, <3>1, <3>2, <4>2, ActiveKept
    <3> QED BY <3>3, <3>4, <3>5
  <2> QED BY <2>5, <2>6
<1> QED BY <1>3, <1>4

LEMMA ActiveWriteSource ==
  ASSUME RotatesAll, QInv, Active, NEW p \in Procs, WriteSource(p)
  PROVE  Active'
<1> DEFINE j == job[p]
<1>1. /\ JobFacts(j) /\ j.op \in {"move", "archive"}
      /\ \A s \in Sprints : files[s] = j.dst[s]
  BY SourceShape DEF WriteSource
<1>2. j.op = "archive" /\ j.from = Current /\ Transfers(j)
  BY <1>1 DEF JobFacts, Stamped, RotatesAll, Archives
<1>3. Current \in Sprints /\ TypeOK
  BY DEF Sprints, Operational, QInv, IInv
<1>4. files'[Current] = j.rest
  BY <1>2, <1>3 DEF WriteSource, TypeOK
<1>5. /\ \A q \in Procs \ {p} : pc'[q] = pc[q] /\ job'[q] = job[q]
      /\ pc[p] = "src" /\ pc'[p] = "release"
  BY <1>3 DEF WriteSource, Goto, TypeOK
<1>6. \A t \in TicketIds : j.rest[t] \in {files[Current][t], Absent}
  BY <1>1, <1>2, <1>3 DEF Transfers
<1>7. TerminalIn(files'[Current]) \subseteq TerminalIn(files[Current])
  BY <1>4, <1>6 DEF TerminalIn, Held
<1>8. Rotating(p) => TerminalIn(files'[Current]) = {}
  BY <1>4, <1>5 DEF Rotating
<1>9. RotateDue(p)'
  BY <1>5 DEF RotateDue
<1> QED BY <1>5, <1>7, <1>8, <1>9, ActiveKept

(* A job that begins with nothing to rotate.                               *)
LEMMA ActiveEnter ==
  ASSUME QInv, Active, NEW p \in Procs, NEW j, Enter(p, "idle", "dst", j), files' = files,
         j.op # "delete" /\ Current \in j.todo => j.rotate
  PROVE  Active'
<1>1. /\ pc'[p] = "dst" /\ job'[p] = j
      /\ \A q \in Procs \ {p} : pc'[q] = pc[q] /\ job'[q] = job[q]
  BY EnterLock DEF QInv, IInv
<1>2. RotateDue(p)'
  BY <1>1 DEF RotateDue
<1>3. ~ Rotating(p)
  BY DEF Enter, Rotating, Writing
<1> QED BY <1>1, <1>2, <1>3, ActiveKept

LEMMA ActiveBegin ==
  ASSUME QInv, Active, NEW p \in Procs,
         \/ \E n \in 1..MaxTickets, st \in Statuses :
              \E sprintOf \in [NewIds(n) -> Operational] : BeginCreate(p, n, sprintOf, st)
         \/ \E t \in TicketIds, f \in Sprints : BeginUpdate(p, t, f)
         \/ \E T \in SUBSET TicketIds : BeginDelete(p, T)
         \/ BeginSave(p)
  PROVE  Active'
<1>1. PICK op, T, stamp, todo, dst :
         Enter(p, "idle", "dst", WriteJob(op, T, stamp, todo, dst))
  BY DEF BeginCreate, BeginUpdate, BeginDelete, BeginSave
<1>2. files' = files
  BY DEF BeginCreate, BeginUpdate, BeginDelete, BeginSave, storeVars
<1>3. PICK j : j = WriteJob(op, T, stamp, todo, dst)
  OBVIOUS
<1>4. j.op # "delete" /\ Current \in j.todo => j.rotate
  BY <1>3 DEF WriteJob, NoJob
<1> QED BY <1>1, <1>2, <1>3, <1>4, ActiveEnter

LEMMA ActiveArchive ==
  ASSUME RotatesAll, QInv, Active, NEW p \in Procs,
         \/ \E from \in {"idle", "rearm"}, force \in BOOLEAN : BeginArchive(p, from, force)
         \/ Rotate(p)
         \/ NothingToArchive(p)
  PROVE  Active'
<1>1. TypeOK /\ LockOwned
  BY DEF QInv, IInv
<1>2. ASSUME NEW j, j.op = "archive", TerminalIn(j.rest) = {}, pc'[p] = "dst", job'[p] = j,
             \A q \in Procs \ {p} : pc'[q] = pc[q] /\ job'[q] = job[q]
      PROVE  Active'
  <2>1. RotateDue(p)' /\ Rotating(p)'
    BY <1>2 DEF RotateDue, Rotating, Writing, TerminalIn, Held
  <2> QED BY <1>2, <2>1, ActiveKept
<1>3. ASSUME NEW from \in {"idle", "rearm"}, NEW force \in BOOLEAN, BeginArchive(p, from, force)
      PROVE  Active'
  <2>1. PICK j : j = ArchiveJob(files[Current], ArchiveCandidates(files[Current], force))
                 /\ Enter(p, from, "dst", j)
    BY <1>3 DEF BeginArchive
  <2>2. /\ pc'[p] = "dst" /\ job'[p] = j
        /\ \A q \in Procs \ {p} : pc'[q] = pc[q] /\ job'[q] = job[q]
    BY <1>1, <2>1, EnterLock
  <2> QED BY <1>2, <2>1, <2>2, RotatesRest
<1>4. ASSUME ArchiveCandidates(files[Current], FALSE) = {}, files' = files,
             pc'[p] \notin Writing,
             \A q \in Procs \ {p} : pc'[q] = pc[q] /\ job'[q] = job[q]
      PROVE  Active'
  <2>1. TerminalIn(files'[Current]) = {}
    BY <1>4, CandidatesAll
  <2>2. RotateDue(p)'
    BY <1>4 DEF RotateDue, Writing
  <2> QED BY <1>4, <2>1, <2>2, ActiveKept
<1>5. CASE NothingToArchive(p)
  <2>1. /\ ArchiveCandidates(files[Current], FALSE) = {} /\ files' = files
        /\ pc'[p] \notin Writing
        /\ \A q \in Procs \ {p} : pc'[q] = pc[q] /\ job'[q] = job[q]
    BY <1>1, <1>5 DEF NothingToArchive, Goto, Writing, TypeOK, storeVars
  <2> QED BY <1>4, <2>1
<1>6. CASE Rotate(p)
  <2> DEFINE T == ArchiveCandidates(files[Current], FALSE)
  <2>1. files' = files /\ \A q \in Procs \ {p} : pc'[q] = pc[q] /\ job'[q] = job[q]
    BY <1>1, <1>6 DEF Rotate, Goto, TypeOK, storeVars
  <2>2. CASE T = {}
    <3>1. pc'[p] = "release"
      BY <1>1, <1>6, <2>2 DEF Rotate, Goto, TypeOK
    <3>2. pc'[p] \notin Writing
      BY <3>1 DEF Writing
    <3> QED BY <1>4, <2>1, <2>2, <3>2
  <2>3. CASE T # {}
    <3>1. PICK j : j = ArchiveJob(files[Current], T)
      OBVIOUS
    <3>2. pc'[p] = "dst" /\ job'[p] = j
      BY <1>1, <1>6, <2>3, <3>1 DEF Rotate, Goto, TypeOK
    <3> QED BY <1>2, <2>1, <3>1, <3>2, RotatesRest
  <2> QED BY <2>2, <2>3
<1> QED BY <1>3, <1>5, <1>6

LEMMA ActiveStep == Calm /\ RotatesAll /\ QInv /\ Active /\ [Next]_vars => Active'
<1> SUFFICES ASSUME Calm, RotatesAll, QInv, Active, [Next]_vars PROVE Active'
  OBVIOUS
<1>1. TypeOK /\ NoUndo
  BY DEF QInv, IInv
<1>2. CASE files' = files /\ pc' = pc /\ job' = job
  BY <1>2 DEF Active, Rotating, RotateDue
<1>3. ASSUME NEW p \in Procs, (\E s \in Operational : Load(p, s))
                              \/ (\E t \in TicketIds, st \in Statuses : EditSnapshot(p, t, st))
      PROVE  Active'
  <2>1. files' = files /\ pc' = pc /\ job' = job
    BY <1>3 DEF Load, EditSnapshot, storeVars
  <2> QED BY <1>2, <2>1
<1>4. ASSUME NEW p \in Procs, WriteLocator(p) PROVE Active'
  <2>1. /\ files' = files /\ job' = job /\ pc[p] = "loc" /\ pc'[p] = "src"
        /\ \A q \in Procs \ {p} : pc'[q] = pc[q]
    BY <1>1, <1>4 DEF WriteLocator, Goto, TypeOK
  <2>2. RotateDue(p)' /\ (Rotating(p) => Rotating(p)')
    BY <2>1 DEF RotateDue, Rotating, Writing
  <2> QED BY <2>1, <2>2, ActiveKept
<1>5. ASSUME NEW p \in Procs, Release(p) PROVE Active'
  <2>1. /\ files' = files /\ pc[p] = "release" /\ pc'[p] = "idle"
        /\ \A q \in Procs \ {p} : pc'[q] = pc[q] /\ job'[q] = job[q]
    BY <1>1, <1>5 DEF Release, Goto, TypeOK, storeVars
  <2>2. RotateDue(p)' /\ ~ Rotating(p)
    BY <2>1 DEF RotateDue, Rotating, Writing
  <2> QED BY <2>1, <2>2, ActiveKept
<1>6. \A p, t, f, to : ~ BeginMove(p, t, f, to)
  BY DEF BeginMove, RotatesAll
<1>7. CASE Next
  BY <1>1, <1>3, <1>4, <1>5, <1>6, <1>7, Steps, ActiveBegin, ActiveArchive,
     ActiveWriteFile, ActiveWriteSource
<1>8. CASE UNCHANGED vars
  BY <1>2, <1>8 DEF vars, storeVars, procVars
<1> QED BY <1>7, <1>8

(* While no process dies, no write fails and no ticket is moved by hand,   *)
(* nor deleted where snapshots are saved in bulk, a stale bulk save leaves *)
(* what lookups return true; and with retain_terminal_days 0 no terminal   *)
(* ticket is in the current sprint once each mutation, save and rotation   *)
(* under way has ended.                                                    *)
THEOREM SavesTrueCorrect ==
  ASSUME Calm, RotatesAll PROVE Spec => []SavesTrue
<1>1. Init => Active
  <2> SUFFICES ASSUME Init PROVE Active
    OBVIOUS
  <2>1. TerminalIn(files[Current]) = {}
    BY DEF Init, TerminalIn, Held, NoTickets, Sprints, Operational
  <2>2. \A p \in Procs : RotateDue(p)
    BY DEF Init, RotateDue
  <2> QED BY <2>1, <2>2 DEF Active
<1>2. QInv /\ Active /\ [Next]_vars => QInv' /\ Active'
  BY QInvStep, ActiveStep
<1>3. QInv /\ Active => SavesTrue
  <2> SUFFICES ASSUME QInv, Active PROVE SavesTrue
    OBVIOUS
  <2>1. ASSUME Quiet, NEW p \in Procs PROVE ~ Rotating(p)
    BY <2>1, ProcsAssumption DEF Quiet, Rotating, Writing, QInv, IInv, LockOwned, InLock
  <2>2. CurrentActiveOnly
    BY <2>1 DEF CurrentActiveOnly, Active
  <2> QED BY <2>2, LookupsTrueHolds DEF SavesTrue
<1> QED BY QInvInit, <1>1, <1>2, <1>3, PTL DEF Spec

-----------------------------------------------------------------------------
(* The files implement the map.                                            *)

(* How a step changes what lookups return: not at all, by a creation, by   *)
(* the update of one ticket, or by a deletion.                             *)
Unseen ==
  created' = created /\ \A t \in TicketIds : Lookup(t)' = Lookup(t)

SeenCreated ==
  \E T \in SUBSET TicketIds, r \in Records :
    /\ T \cap created = {} /\ created' = created \cup T
    /\ \A t \in TicketIds : Lookup(t)' = IF t \in T THEN r ELSE Lookup(t)

SeenUpdated ==
  \E t \in TicketIds :
    /\ created' = created
    /\ Newer(Lookup(t), Lookup(t)') /\ Lookup(t)' \in Records
    /\ \A u \in TicketIds \ {t} : Lookup(u)' = Lookup(u)

SeenDeleted ==
  \E T \in SUBSET TicketIds :
    /\ created' = created
    /\ \A t \in T : Lookup(t) # Absent
    /\ \A t \in TicketIds : Lookup(t)' = IF t \in T THEN Absent ELSE Lookup(t)

(* Each of these is a step of the map, or none.                            *)
LEMMA SeenIsMapStep ==
  ASSUME Unseen \/ SeenCreated \/ SeenUpdated \/ SeenDeleted
  PROVE  [Map!Next]_<<[t \in TicketIds |-> Lookup(t)], created>>
<1> DEFINE view == [t \in TicketIds |-> Lookup(t)]
<1>1. CASE Unseen
  BY <1>1 DEF Unseen
<1>2. CASE SeenCreated
  <2>1. PICK T \in SUBSET TicketIds, r \in Records :
           /\ T \cap created = {} /\ created' = created \cup T
           /\ \A t \in TicketIds : Lookup(t)' = IF t \in T THEN r ELSE Lookup(t)
    BY <1>2 DEF SeenCreated
  <2>2. Map!Create(T, r)
    BY <2>1 DEF Map!Create
  <2>3. r \in Map!Record
    BY DEF Map!Record, Records, Statuses, Stamps
  <2> QED BY <2>2, <2>3 DEF Map!Next
<1>3. CASE SeenUpdated
  <2>1. PICK t \in TicketIds :
           /\ created' = created
           /\ Newer(Lookup(t), Lookup(t)') /\ Lookup(t)' \in Records
           /\ \A u \in TicketIds \ {t} : Lookup(u)' = Lookup(u)
    BY <1>3 DEF SeenUpdated
  <2>2. Lookup(t)' \in Map!Record
    BY <2>1 DEF Map!Record, Records, Statuses, Stamps
  <2>3. view' = [view EXCEPT ![t] = Lookup(t)']
    BY <2>1
  <2>4. Map!Update(t)
    BY <2>1, <2>2, <2>3 DEF Map!Update, Newer, Terminal
  <2> QED BY <2>4 DEF Map!Next
<1>4. CASE SeenDeleted
  <2>1. PICK T \in SUBSET TicketIds :
           /\ created' = created
           /\ \A t \in T : Lookup(t) # Absent
           /\ \A t \in TicketIds : Lookup(t)' = IF t \in T THEN Absent ELSE Lookup(t)
    BY <1>4 DEF SeenDeleted
  <2>2. Map!Delete(T)
    BY <2>1 DEF Map!Delete
  <2> QED BY <2>2 DEF Map!Next
<1> QED BY <1>1, <1>2, <1>3, <1>4

(* A ticket in one file, none of whose copies change, is looked up as      *)
(* before.                                                                 *)
LEMMA LookupUntouched ==
  ASSUME TypeOK, TypeOK', NEW t \in TicketIds, Unique(Holders(t)),
         \A s \in Sprints : files'[s][t] = files[s][t]
  PROVE  Lookup(t)' = Lookup(t)
<1>1. Holders(t)' = Holders(t)
  BY DEF Holders
<1>2. CASE Holders(t) = {}
  BY <1>1, <1>2, LookupHolder, LookupNext
<1>3. CASE Holders(t) # {}
  <2>1. PICK h \in Holders(t) : Holders(t) = {h}
    BY <1>3 DEF Unique
  <2>2. files'[h][t] = files[h][t]
    BY <2>1 DEF Holders
  <2> QED BY <1>1, <2>1, <2>2, LookupKept
<1> QED BY <1>2, <1>3

LEMMA WriteFileSeen ==
  ASSUME QInv, TypeOK', NEW p \in Procs, NEW s \in Sprints, WriteFile(p, s),
         job[p].op # "save"
  PROVE  Unseen \/ SeenCreated \/ SeenUpdated \/ SeenDeleted
<1> DEFINE j == job[p]
<1>1. /\ s \in j.todo /\ JobFacts(j) /\ lock = p
      /\ j.tickets \subseteq TicketIds /\ j.from \in Sprints /\ j.todo \subseteq Sprints
      /\ files'[s] = j.dst[s] /\ \A r \in Sprints \ {s} : files'[r] = files[r]
      /\ \A t \in TicketIds \ j.tickets, r \in Sprints : files'[r][t] = files[r][t]
      /\ j.op # "save"
  BY WriteShape
<1>2. created' = IF j.op = "create" THEN created \cup (j.tickets \cap Held(j.dst[s]))
                 ELSE created
  BY DEF WriteFile
<1>3. /\ InStep(j) /\ Stamped(j) /\ Creates(j) /\ Changes(j) /\ Deletes(j)
      /\ Transfers(j) /\ Archives(j) /\ Moves(j)
  BY <1>1 DEF JobFacts
<1>4. \A t \in TicketIds : t \notin j.tickets \/ j.op \notin {"move", "archive"}
                             => Unique(Holders(t))
  BY <1>1, HomeOf
<1>5. TypeOK /\ Alive
  BY DEF QInv, IInv
<1> HIDE DEF j
<1>6. ASSUME NEW t \in TicketIds,
             t \notin j.tickets \/ j.op \notin {"move", "archive"},
             files'[s][t] = files[s][t]
      PROVE  Lookup(t)' = Lookup(t)
  <2>1. \A r \in Sprints : files'[r][t] = files[r][t]
    BY <1>1, <1>6
  <2> QED BY <1>4, <1>5, <1>6, <2>1, LookupUntouched
<1>7. CASE j.op = "create"
  <2> DEFINE T == j.tickets \cap Held(j.dst[s])
  <2>1. PICK r \in Records : \A t \in j.tickets, u \in Sprints : j.dst[u][t] \in {Absent, r}
    BY <1>3, <1>7 DEF Creates
  <2>2. ASSUME NEW t \in T
        PROVE  t \notin created /\ Lookup(t)' = r
    <3>1. t \in TicketIds /\ t \in j.tickets /\ j.dst[s][t] = r /\ r # Absent
      BY <1>1, <2>1 DEF Held
    <3>2. \A u \in Sprints : files[u][t] = Absent
      <4>1. s \in Where(j.dst, t)
        BY <3>1 DEF Where
      <4>2. \A u \in Where(j.dst, t) : u = s
        <5>1. Unique(Where(j.dst, t))
          BY <1>3, <1>7, <3>1 DEF Creates
        <5> QED BY <4>1, <5>1 DEF Unique
      <4>3. ASSUME NEW u \in Sprints PROVE files[u][t] = Absent
        <5>1. CASE u \in j.todo
          BY <1>3, <1>7, <3>1, <5>1 DEF Creates
        <5>2. CASE u \notin j.todo
          BY <1>1, <1>3, <4>2, <5>2 DEF InStep, Where
        <5> QED BY <5>1, <5>2
      <4> QED BY <4>3
    <3>3. t \notin Live /\ t \notin deleted
      BY <1>3, <1>5, <1>7, <3>1, <3>2 DEF Alive, Holders, Creates
    <3>4. \A u \in Holders(t)' : u = s
      BY <1>1, <3>2 DEF Holders
    <3>5. s \in Holders(t)' /\ files'[s][t] = r
      BY <1>1, <3>1 DEF Holders
    <3>6. Lookup(t)' = r
      BY <3>1, <3>4, <3>5, LookupNext
    <3> QED BY <3>3, <3>6 DEF Live
  <2>3. ASSUME NEW t \in TicketIds \ T PROVE Lookup(t)' = Lookup(t)
    <3>1. CASE t \in j.tickets
      <4>1. files'[s][t] = Absent /\ files[s][t] = Absent
        BY <1>1, <1>3, <1>7, <3>1 DEF Creates, Held
      <4> QED BY <1>6, <1>7, <4>1
    <3>2. CASE t \notin j.tickets
      BY <1>1, <1>6, <3>2
    <3> QED BY <3>1, <3>2
  <2>4. T \in SUBSET TicketIds /\ T \cap created = {} /\ created' = created \cup T
    BY <1>1, <1>2, <1>7, <2>2
  <2> HIDE DEF T
  <2>5. SeenCreated
    BY <2>2, <2>3, <2>4 DEF SeenCreated
  <2> QED BY <2>5
<1>8. CASE j.op = "update"
  <2>1. PICK t \in TicketIds :
          j.tickets = {t} /\ \A u \in j.todo : Newer(files[u][t], j.dst[u][t])
    BY <1>3, <1>8 DEF Changes
  <2>2. Newer(files[s][t], files'[s][t])
    BY <1>1, <2>1
  <2>3. files[s][t] # Absent /\ files'[s][t] # Absent
    BY <2>2 DEF Newer
  <2>4. Unique(Holders(t)) /\ s \in Holders(t)
    BY <1>4, <1>8, <2>3 DEF Holders
  <2>5. Holders(t) = {s} /\ Holders(t)' = {s}
    BY <1>1, <2>3, <2>4 DEF Unique, Holders
  <2>6. Lookup(t) = files[s][t] /\ Lookup(t)' = files'[s][t]
    BY <1>5, <2>5, LookupHolder, LookupNext
  <2>7. files'[s][t] \in Records
    BY <2>3 DEF TypeOK, Contents
  <2>8. \A u \in TicketIds \ {t} : Lookup(u)' = Lookup(u)
    BY <1>1, <1>6, <2>1
  <2>9. SeenUpdated
    BY <1>2, <1>8, <2>2, <2>6, <2>7, <2>8 DEF SeenUpdated
  <2> QED BY <2>9
<1>9. CASE j.op = "delete"
  <2> DEFINE T == {t \in TicketIds : files[s][t] # Absent /\ j.dst[s][t] = Absent}
  <2>1. ASSUME NEW t \in T PROVE Lookup(t) # Absent /\ Lookup(t)' = Absent
    <3>1. Unique(Holders(t)) /\ s \in Holders(t)
      BY <1>4, <1>9 DEF Holders
    <3>2. Holders(t) = {s} /\ Holders(t)' = {}
      BY <1>1, <3>1 DEF Unique, Holders
    <3> QED BY <1>5, <3>2, LookupHolder, LookupNext
  <2>2. ASSUME NEW t \in TicketIds \ T PROVE Lookup(t)' = Lookup(t)
    <3>1. files'[s][t] = files[s][t]
      BY <1>1, <1>3, <1>9, <2>2 DEF Deletes
    <3> QED BY <1>6, <1>9, <3>1
  <2>3. T \in SUBSET TicketIds /\ created' = created
    BY <1>2, <1>9
  <2> HIDE DEF T
  <2>4. SeenDeleted
    BY <2>1, <2>2, <2>3 DEF SeenDeleted
  <2> QED BY <2>4
<1>10. CASE j.op \in {"move", "archive"}
  <2>1. \A t \in TicketIds \ j.tickets : Lookup(t)' = Lookup(t)
    BY <1>1, <1>6
  <2>2. ASSUME NEW t \in j.tickets
        PROVE  /\ j.from \in Where(j.dst, t) /\ files[j.from] = j.dst[j.from]
               /\ j.from # s /\ files'[j.from] = j.dst[j.from]
               /\ \A u \in Holders(t) :
                    u \in Where(j.dst, t) /\ u \notin j.todo /\ files[u] = j.dst[u]
               /\ \A u \in Holders(t)' : u \in Where(j.dst, t) /\ files'[u] = j.dst[u]
    <3>1. j.from \in Where(j.dst, t) /\ j.from \notin j.todo
      BY <1>3, <1>10 DEF Transfers
    <3>2. files[j.from] = j.dst[j.from] /\ j.from # s /\ files'[j.from] = files[j.from]
      BY <1>1, <1>3, <3>1 DEF InStep
    <3>3. ASSUME NEW u \in Holders(t)
          PROVE  u \in Where(j.dst, t) /\ u \notin j.todo /\ files[u] = j.dst[u]
      BY <1>3, <1>10 DEF Transfers, InStep, Holders, Where
    <3>4. ASSUME NEW u \in Holders(t)'
          PROVE  u \in Where(j.dst, t) /\ files'[u] = j.dst[u]
      <4>1. CASE u = s
        BY <1>1, <4>1 DEF Holders, Where
      <4>2. CASE u # s
        BY <1>1, <3>3, <4>2 DEF Holders
      <4> QED BY <4>1, <4>2
    <3> QED BY <3>1, <3>2, <3>3, <3>4
  <2>3. CASE j.op = "archive"
    <3>1. ASSUME NEW t \in j.tickets PROVE Lookup(t)' = Lookup(t)
      <4>1. \A u \in Where(j.dst, t) : j.dst[u][t] = j.dst[j.from][t]
        BY <1>3, <2>3 DEF Archives
      <4>2. j.from \in Holders(t) /\ j.from \in Holders(t)'
        BY <2>2 DEF Holders, Where
      <4>3. /\ \A u \in Holders(t) : files[u][t] = j.dst[j.from][t]
            /\ \A u \in Holders(t)' : files'[u][t] = j.dst[j.from][t]
        BY <2>2, <4>1
      <4> QED BY <1>1, <1>5, <4>2, <4>3, LookupKept
    <3> QED BY <1>2, <2>1, <2>3, <3>1 DEF Unseen
  <2>4. CASE j.op = "move"
    <3>1. PICK t \in TicketIds :
            /\ j.tickets = {t} /\ j.todo \subseteq Where(j.dst, t)
            /\ \A u \in Where(j.dst, t) \ {j.from} : Newer(j.dst[j.from][t], j.dst[u][t])
      BY <1>3, <2>4 DEF Moves
    <3>2. Where(j.dst, t) = {j.from, s}
      BY <1>1, <1>3, <1>10, <2>2, <3>1 DEF Transfers
    <3>3. Lookup(t) = j.dst[j.from][t]
      <4>1. \A u \in Holders(t) : u = j.from
        BY <1>1, <2>2, <3>1, <3>2
      <4>2. j.from \in Holders(t)
        BY <2>2, <3>1 DEF Holders, Where
      <4> QED BY <1>5, <2>2, <3>1, <4>1, <4>2, LookupHolder
    <3>4. Lookup(t)' \in {j.dst[j.from][t], j.dst[s][t]}
      <4>1. \A u \in Holders(t)' : u \in {j.from, s} /\ files'[u] = j.dst[u]
        BY <2>2, <3>1, <3>2
      <4>2. Holders(t)' # {}
        BY <2>2, <3>1 DEF Holders, Where
      <4> QED BY <4>1, <4>2, LookupNext
    <3>5. CASE Lookup(t)' = Lookup(t)
      BY <1>2, <2>1, <2>4, <3>1, <3>5 DEF Unseen
    <3>6. CASE Lookup(t)' = j.dst[s][t]
      <4>1. Newer(Lookup(t), Lookup(t)')
        BY <2>2, <3>1, <3>2, <3>3, <3>6
      <4>2. Lookup(t)' \in Records
        BY <1>1, <3>6, <4>1 DEF Newer, TypeOK, Contents
      <4>3. SeenUpdated
        BY <1>2, <2>1, <2>4, <3>1, <4>1, <4>2 DEF SeenUpdated
      <4> QED BY <4>3
    <3> QED BY <3>3, <3>4, <3>5, <3>6
  <2> QED BY <1>10, <2>3, <2>4
<1> QED BY <1>1, <1>3, <1>7, <1>8, <1>9, <1>10 DEF Stamped

LEMMA WriteLocatorSeen ==
  ASSUME QInv, TypeOK', NEW p \in Procs, WriteLocator(p)
  PROVE  Unseen
<1> DEFINE j == job[p]
<1>1. /\ JobFacts(j) /\ \A s \in Sprints : files[s] = j.dst[s]
      /\ \A t \in TicketIds \ j.tickets : Unique(Holders(t))
      /\ \A t \in j.tickets : Holders(t) # {}
      /\ j.from \in Sprints
  BY SourceShape DEF WriteLocator
<1>2. j.op = "archive"
  BY DEF WriteLocator, QInv, JobTrue, Writing
<1>3. Archives(j) /\ TypeOK
  BY <1>1 DEF JobFacts, QInv, IInv
<1>4. files' = files /\ created' = created /\ \A t : Holders(t)' = Holders(t)
  BY DEF WriteLocator, histVars, Holders
<1> HIDE DEF j
<1>5. ASSUME NEW t \in TicketIds PROVE Lookup(t)' = Lookup(t)
  <2>1. CASE t \notin j.tickets
    BY <1>1, <1>3, <1>4, <2>1, LookupUntouched
  <2>2. CASE t \in j.tickets
    <3>1. \A s \in Holders(t) : files[s][t] = j.dst[j.from][t]
      BY <1>1, <1>2, <1>3, <2>2 DEF Archives, Where, Holders
    <3> QED BY <1>3, <1>4, <3>1, LookupKept
  <2> QED BY <2>1, <2>2
<1> QED BY <1>4, <1>5 DEF Unseen

LEMMA WriteSourceSeen ==
  ASSUME QInv, TypeOK', NEW p \in Procs, WriteSource(p)
  PROVE  Unseen \/ SeenUpdated
<1> DEFINE j == job[p]
<1>1. /\ JobFacts(j) /\ \A s \in Sprints : files[s] = j.dst[s]
      /\ j.from \in Sprints /\ j.op \in {"move", "archive"} /\ j.tickets \subseteq TicketIds
      /\ \A t \in TicketIds \ j.tickets : Unique(Holders(t))
  BY SourceShape DEF WriteSource
<1>2. /\ \A s \in Sprints \ {j.from} : files'[s] = files[s]
      /\ \A t \in TicketIds \ j.tickets, s \in Sprints : files'[s][t] = files[s][t]
      /\ \A t \in j.tickets :
           \E h \in Sprints \ {j.from} : Holders(t) = {j.from, h} /\ Holders(t)' = {h}
  BY SourceCopies
<1>3. Archives(j) /\ Moves(j) /\ TypeOK /\ created' = created
  BY <1>1 DEF JobFacts, QInv, IInv, WriteSource
<1>4. \A t \in TicketIds : Holders(t) = Where(j.dst, t)
  BY <1>1 DEF Holders, Where
<1> HIDE DEF j
<1>5. \A t \in TicketIds \ j.tickets : Lookup(t)' = Lookup(t)
  BY <1>1, <1>2, <1>3, LookupUntouched
<1>6. ASSUME NEW t \in j.tickets
      PROVE  \E h \in Where(j.dst, t) \ {j.from} :
               /\ Lookup(t) \in {j.dst[j.from][t], j.dst[h][t]}
               /\ Lookup(t)' = j.dst[h][t]
  <2>1. PICK h \in Sprints \ {j.from} : Holders(t) = {j.from, h} /\ Holders(t)' = {h}
    BY <1>2
  <2>2. Lookup(t) \in {files[j.from][t], files[h][t]}
    BY <1>1, <1>3, <2>1, LookupHolder
  <2>3. Lookup(t)' = files'[h][t]
    BY <1>1, <2>1, LookupNext
  <2> QED BY <1>1, <1>2, <1>4, <2>1, <2>2, <2>3
<1>7. CASE j.op = "archive"
  <2>1. ASSUME NEW t \in j.tickets PROVE Lookup(t)' = Lookup(t)
    BY <1>3, <1>6, <1>7 DEF Archives
  <2> QED BY <1>3, <1>5, <2>1 DEF Unseen
<1>8. CASE j.op = "move"
  <2>1. PICK t \in TicketIds :
          /\ j.tickets = {t}
          /\ \A u \in Where(j.dst, t) \ {j.from} : Newer(j.dst[j.from][t], j.dst[u][t])
    BY <1>3, <1>8 DEF Moves
  <2>2. PICK h \in Where(j.dst, t) \ {j.from} :
          /\ Lookup(t) \in {j.dst[j.from][t], j.dst[h][t]}
          /\ Lookup(t)' = j.dst[h][t]
    BY <1>6, <2>1
  <2>3. CASE Lookup(t) = j.dst[h][t]
    BY <1>3, <1>5, <2>1, <2>2, <2>3 DEF Unseen
  <2>4. CASE Lookup(t) = j.dst[j.from][t]
    <3>1. Newer(Lookup(t), Lookup(t)')
      BY <2>1, <2>2, <2>4
    <3>2. Lookup(t)' \in Records
      <4>1. h \in Sprints /\ files[h][t] # Absent /\ Lookup(t)' = files[h][t]
        BY <1>1, <2>2 DEF Where
      <4> QED BY <4>1, Stored
    <3> QED BY <1>3, <1>5, <2>1, <3>1, <3>2 DEF SeenUpdated
  <2> QED BY <2>2, <2>3, <2>4
<1> QED BY <1>1, <1>7, <1>8

(* Every step is a step of the map, or none.                               *)
LEMMA StepSeen ==
  ASSUME Undisturbed, QInv, [Next]_vars
  PROVE  Unseen \/ SeenCreated \/ SeenUpdated \/ SeenDeleted
<1>1. TypeOK' /\ NoUndo /\ Calm
  BY TypeStep DEF QInv, IInv, Calm, Undisturbed
<1>2. ASSUME UNCHANGED <<files, locator, created>> PROVE Unseen
  BY <1>2, LookupSame DEF Unseen
<1>3. CASE UNCHANGED vars
  BY <1>2, <1>3 DEF vars, storeVars, histVars
<1>4. CASE Next
  <2>1. PICK p \in Procs :
           \/ \E n \in 1..MaxTickets, st \in Statuses :
                \E sprintOf \in [NewIds(n) -> Operational] : BeginCreate(p, n, sprintOf, st)
           \/ \E t \in TicketIds, f \in Sprints : BeginUpdate(p, t, f)
           \/ \E T \in SUBSET TicketIds : BeginDelete(p, T)
           \/ \E t \in TicketIds, f \in Sprints, to \in MoveTargets : BeginMove(p, t, f, to)
           \/ \E s \in Operational : Load(p, s)
           \/ \E t \in TicketIds, st \in Statuses : EditSnapshot(p, t, st)
           \/ BeginSave(p)
           \/ \E from \in {"idle", "rearm"}, force \in BOOLEAN : BeginArchive(p, from, force)
           \/ \E s \in Sprints : WriteFile(p, s)
           \/ WriteLocator(p)
           \/ WriteSource(p)
           \/ NothingToArchive(p)
           \/ Rotate(p)
           \/ Release(p)
    BY <1>1, <1>4, Steps
  <2>2. ASSUME NEW n, NEW st, NEW sprintOf, BeginCreate(p, n, sprintOf, st) PROVE Unseen
    BY <1>2, <2>2 DEF BeginCreate, histVars
  <2>3. ASSUME NEW t, NEW f, BeginUpdate(p, t, f) PROVE Unseen
    BY <1>2, <2>3 DEF BeginUpdate, storeVars, histVars
  <2>4. ASSUME NEW T, BeginDelete(p, T) PROVE Unseen
    BY <1>2, <2>4 DEF BeginDelete, storeVars, histVars
  <2>5. ASSUME NEW t, NEW f, NEW to, BeginMove(p, t, f, to) PROVE Unseen
    BY <1>2, <2>5 DEF BeginMove, storeVars, histVars
  <2>6. ASSUME NEW from, NEW force, BeginArchive(p, from, force) PROVE Unseen
    BY <1>2, <2>6 DEF BeginArchive, storeVars, histVars
  <2>7. ASSUME NothingToArchive(p) \/ Rotate(p) \/ Release(p) PROVE Unseen
    BY <1>2, <2>7 DEF NothingToArchive, Rotate, Release, storeVars, histVars
  <2>8. /\ \A s : ~ Load(p, s)
        /\ ~ BeginSave(p)
    BY DEF Undisturbed, Load, BeginSave
  <2>9. ASSUME NEW t, NEW st, EditSnapshot(p, t, st) PROVE Unseen
    BY <1>2, <2>9 DEF EditSnapshot, storeVars, histVars
  <2>10. ASSUME NEW s \in Sprints, WriteFile(p, s)
         PROVE  Unseen \/ SeenCreated \/ SeenUpdated \/ SeenDeleted
    <3>1. job[p].op # "save"
      BY <2>10 DEF Undisturbed, WriteFile, QInv, JobTrue, JobFacts, Stamped, Writing
    <3> QED BY <1>1, <2>10, <3>1, WriteFileSeen
  <2> QED BY <1>1, <2>1, <2>2, <2>3, <2>4, <2>5, <2>6, <2>7, <2>8, <2>9, <2>10,
             WriteLocatorSeen, WriteSourceSeen
<1> QED BY <1>3, <1>4

(* While no process dies, no write fails and no stale snapshot is saved,   *)
(* the directory of files is one atomic map: whatever a mutation does in   *)
(* several file replacements, every change of what lookups return is the   *)
(* creation, update or deletion of tickets in one step.                    *)
THEOREM ImplementsMapCorrect ==
  ASSUME Undisturbed PROVE Spec => ImplementsMap
<1> DEFINE view == [t \in TicketIds |-> Lookup(t)]
<1>1. Init => Map!Init
  <2> SUFFICES ASSUME Init PROVE Map!Init
    OBVIOUS
  <2>1. TypeOK /\ \A t \in TicketIds : Holders(t) = {}
    BY TypeInit DEF Init, Holders, NoTickets
  <2>2. \A t \in TicketIds : Lookup(t) = Absent
    BY <2>1, LookupHolder
  <2> QED BY <2>2 DEF Map!Init, Init
<1>2. QInv /\ [Next]_vars => QInv'
  BY QInvStep DEF Undisturbed, Calm
<1>3. QInv /\ [Next]_vars => [Map!Next]_<<view, created>>
  BY StepSeen, SeenIsMapStep
<1> QED BY <1>1, <1>2, <1>3, QInvInit, PTL DEF Spec, ImplementsMap, Map!Spec

(* A ticket looked up as done is never looked up with an active status by  *)
(* the next step.                                                          *)
THEOREM DoneNotReopenedCorrect ==
  ASSUME Undisturbed PROVE Spec => DoneNotReopened
<1> DEFINE Kept ==
      \A t \in TicketIds :
        Lookup(t) # Absent /\ Lookup(t).status = "done" /\ Lookup(t)' # Absent
        => Lookup(t)'.status \in Terminal
<1>1. QInv /\ [Next]_vars => QInv'
  BY QInvStep DEF Undisturbed, Calm
<1>2. QInv /\ [Next]_vars => [Kept]_vars
  <2> SUFFICES ASSUME QInv, [Next]_vars, NEW t \in TicketIds,
                      Lookup(t) # Absent, Lookup(t).status = "done", Lookup(t)' # Absent
               PROVE  Lookup(t)'.status \in Terminal
    BY Zenon
  <2>1. CASE Lookup(t)' = Lookup(t)
    BY <2>1 DEF Terminal
  <2>2. t \in created
    <3>1. Holders(t) # {}
      BY LookupHolder DEF QInv, IInv
    <3> QED BY <3>1 DEF QInv, Alive, Live
  <2>3. Lookup(t)' = Lookup(t) \/ Newer(Lookup(t), Lookup(t)')
    BY <2>2, StepSeen DEF Unseen, SeenCreated, SeenUpdated, SeenDeleted
  <2> QED BY <2>1, <2>3 DEF Newer
<1> QED BY <1>1, <1>2, QInvInit, PTL DEF Spec, DoneNotReopened

=============================================================================
