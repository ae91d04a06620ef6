--------------------------- MODULE StorageProofs ---------------------------
(***************************************************************************)
(* The invariants of the parts of MCStorage, for any number of events,     *)
(* callers, processes, tickets, mutations, runs and deaths: the migration  *)
(* to shards, the journal with its forensic log, the evidence, the sharded *)
(* backend, the retention of a sprint and the audits of the mirror.        *)
(***************************************************************************)
EXTENDS MCStorage, FiniteSetTheorems, SequenceTheorems, WellFoundedInduction, TLAPS
-----------------------------------------------------------------------------
LEMMA LeastOf ==
  ASSUME NEW Good \in SUBSET Nat, Good # {}
  PROVE  \E n \in Good : \A m \in Good : n <= m
<1>1. IsWellFoundedOn(OpToRel(<, Nat), Nat)
  BY NatLessThanWellFounded
<1>2. PICK n \in Good : \A m \in Good : ~(<<m, n>> \in OpToRel(<, Nat))
  BY <1>1, WFMin, Zenon
<1>3. \A m \in Good : ~(m < n)
  BY <1>2 DEF OpToRel
<1> QED BY <1>3

(* Induction, with a set in the place of a predicate.                      *)
LEMMA Upwards ==
  ASSUME NEW N \in Nat, NEW Good, 0 \in Good, \A n \in 1..N : n - 1 \in Good => n \in Good
  PROVE  \A n \in 0..N : n \in Good
<1> DEFINE Bad == {n \in 0..N : n \notin Good}
<1>1. Bad \in SUBSET Nat
  OBVIOUS
<1>2. ASSUME NEW n \in Bad, \A m \in Bad : n <= m PROVE FALSE
  <2>1. n \in 1..N
    BY <1>2
  <2>2. n - 1 \in 0..N /\ n - 1 \notin Bad
    BY <1>2, <2>1
  <2> QED BY <1>2, <2>1, <2>2
<1> HIDE DEF Bad
<1>3. Bad = {}
  BY <1>1, <1>2, LeastOf
<1> QED BY <1>3 DEF Bad

-----------------------------------------------------------------------------
(* Migration.                                                              *)

Revs == (0..MaxMutations) \cup {MAbsent}
Backends == {"single-yaml", "sharded-yaml"}

MigTyped ==
  /\ legacy \in [MSprints -> [MTickets -> Revs]]
  /\ dirs \in [MSprints -> [MTickets -> Revs] \cup {MAbsent}]
  /\ expect \in [MTickets -> Revs]
  /\ written \in 0..MaxMutations
  /\ backend \in Backends
  /\ mig.pc \in {"idle", "copy", "switch", "move"}
  /\ mig = [pc |-> mig.pc, copied |-> mig.copied, created |-> mig.created, moved |-> mig.moved]
  /\ waiter = [pc |-> waiter.pc, kind |-> waiter.kind, backend |-> waiter.backend]
  /\ waiter.pc \in {"idle", "waiting", "locked"}

(* The lock is of one of them; a mutation that holds it writes to the      *)
(* backend in use unless it strayed.                                       *)
LockHeld ==
  /\ mig.pc # "idle" => holder = "migration"
  /\ waiter.pc = "locked" => holder = "mutation"
  /\ waiter.pc = "waiting" => (waiter.kind = "put" <=> waiter.backend = "none")
  /\ waiter.pc = "waiting" /\ waiter.kind # "put" => waiter.backend \in Backends
  /\ waiter.pc = "locked" /\ ~strayed => waiter.backend = backend

(* What was copied is what the sprint files hold, until they are moved.    *)
Copied ==
  /\ mig.pc \in {"copy", "switch"} =>
       backend = "single-yaml" /\ \A s \in mig.copied : s \in MSprints => dirs[s] = legacy[s]
  /\ mig.pc = "switch" => mig.copied = MSprints
  /\ mig.pc = "move" => backend = "sharded-yaml"

Shows(b) == \A t \in MTickets :
  IF expect[t] = MAbsent THEN M!Where(b, t) = {}
  ELSE \E s \in MSprints : M!Where(b, t) = {s} /\ M!Files(b)[s][t] = expect[t]

MigInv == MigTyped /\ LockHeld /\ Copied /\ (~strayed => Shows(backend))

LEMMA MigrationInit == M!MInit => MigInv
<1> SUFFICES ASSUME M!MInit PROVE MigInv
  OBVIOUS
<1>1. PICK s \in MSprints : legacy = [r \in MSprints |->
         IF r = s THEN [t \in MTickets |-> 0] ELSE M!Nothing]
  BY DEF M!MInit
<1>2. 0 \in Revs /\ MAbsent \in Revs /\ 0 # MAbsent /\ 0 \in 0..MaxMutations
  BY MigrationAssumption DEF Revs
<1>3. MigTyped
  BY <1>1, <1>2 DEF MigTyped, M!MInit, M!Nothing, M!NoMigration, M!NoWaiter, Backends
<1>4. LockHeld /\ Copied
  BY DEF LockHeld, Copied, M!MInit, M!NoMigration, M!NoWaiter
<1>5. Shows(backend)
  <2> SUFFICES ASSUME NEW t \in MTickets
               PROVE  M!Where(backend, t) = {s} /\ M!Files(backend)[s][t] = 0 /\ expect[t] = 0
    BY <1>2 DEF Shows
  <2>1. M!Files(backend) = legacy /\ expect[t] = 0
    BY DEF M!MInit, M!Files
  <2> QED BY <1>1, <1>2, <2>1 DEF M!Where, M!Nothing
<1> QED BY <1>3, <1>4, <1>5 DEF MigInv

(* Where neither the answers nor the files of the backend in use change.   *)
LEMMA ShowsStays ==
  ASSUME Shows(backend), expect' = expect, backend' = backend,
         M!Files(backend)' = M!Files(backend)
  PROVE  Shows(backend)'
BY DEF Shows, M!Where

(* A directory is never taken for a missing one.                           *)
LEMMA DirsAreFiles ==
  ASSUME MigInv
  PROVE  /\ \A b : M!Files(b) \in [MSprints -> [MTickets -> Revs]]
         /\ \A f \in [MTickets -> Revs] : f # MAbsent
<1>1. M!Nothing \in [MTickets -> Revs]
  BY DEF M!Nothing, Revs
<1>2. \A f \in [MTickets -> Revs] : f # MAbsent
  BY MigrationAssumption DEF Revs
<1>3. legacy \in [MSprints -> [MTickets -> Revs]] /\ dirs \in [MSprints -> [MTickets -> Revs] \cup {MAbsent}]
  BY DEF MigInv, MigTyped
<1> QED BY <1>1, <1>2, <1>3 DEF M!Files

LEMMA CopyStep ==
  ASSUME MigInv, M!StartMigration \/ M!CopySprint \/ M!CopyFails
  PROVE  MigInv'
<1>i. MigTyped /\ LockHeld /\ Copied /\ (~strayed => Shows(backend))
  BY DEF MigInv
<1>1. backend = "single-yaml" /\ backend' = backend /\ legacy' = legacy /\ expect' = expect
      /\ strayed' = strayed /\ waiter' = waiter /\ written' = written
  BY <1>i DEF M!StartMigration, M!Starts, M!CopySprint, M!CopyFails, Copied
<1>2. M!Files(backend)' = M!Files(backend)
  BY <1>1 DEF M!Files
<1>3. ~strayed' => Shows(backend)'
  BY <1>i, <1>1, <1>2, ShowsStays
<1>4. CASE M!StartMigration
  <2>1. MigTyped'
    BY <1>i, <1>1, <1>4 DEF MigTyped, M!StartMigration, M!Starts, M!NoMigration
  <2>2. LockHeld' /\ Copied'
    BY <1>i, <1>1, <1>4 DEF LockHeld, Copied, M!StartMigration, M!Starts, M!NoMigration
  <2> QED BY <1>3, <2>1, <2>2 DEF MigInv
<1>5. CASE M!CopySprint
  <2>1. PICK s \in MSprints \ mig.copied :
          /\ dirs' = [dirs EXCEPT ![s] = legacy[s]]
          /\ mig' = [mig EXCEPT !.copied = @ \cup {s}, !.created = @ \cup {s},
                       !.pc = IF mig.copied \cup {s} = MSprints THEN "switch" ELSE "copy"]
    BY <1>5 DEF M!CopySprint
  <2>2. mig.pc = "copy" /\ holder' = holder
    BY <1>5 DEF M!CopySprint
  <2>3. legacy[s] \in [MTickets -> Revs]
    BY <1>i DEF MigTyped
  <2>4. MigTyped'
    BY <1>i, <1>1, <2>1, <2>3 DEF MigTyped
  <2>5. LockHeld'
    BY <1>i, <1>1, <2>2 DEF LockHeld
  <2>6. /\ mig'.copied = mig.copied \cup {s}
        /\ mig'.pc = IF mig.copied \cup {s} = MSprints THEN "switch" ELSE "copy"
    BY <1>i, <2>1 DEF MigTyped
  <2>7. dirs'[s] = legacy[s] /\ \A r \in MSprints : r # s => dirs'[r] = dirs[r]
    BY <1>i, <2>1 DEF MigTyped
  <2>8. Copied'
    BY <1>i, <1>1, <2>2, <2>6, <2>7 DEF Copied
  <2> QED BY <1>3, <2>4, <2>5, <2>8 DEF MigInv
<1>6. CASE M!CopyFails
  <2>1. MigTyped'
    BY <1>i, <1>1, <1>6 DEF MigTyped, M!CopyFails, M!NoMigration
  <2>2. LockHeld' /\ Copied'
    BY <1>i, <1>1, <1>6 DEF LockHeld, Copied, M!CopyFails, M!NoMigration
  <2> QED BY <1>3, <2>1, <2>2 DEF MigInv
<1> QED BY <1>4, <1>5, <1>6

(* The switch shows what was copied, and the backup moves what is no       *)
(* longer shown.                                                           *)
LEMMA SwitchStep ==
  ASSUME MigInv, M!Switch \/ M!BackUp
  PROVE  MigInv'
<1>i. MigTyped /\ LockHeld /\ Copied /\ (~strayed => Shows(backend))
  BY DEF MigInv
<1>1. dirs' = dirs /\ expect' = expect /\ strayed' = strayed /\ waiter' = waiter
      /\ written' = written /\ backend' = "sharded-yaml"
  BY <1>i DEF M!Switch, M!BackUp, Copied
<1>w. waiter.pc # "locked"
  BY <1>i DEF LockHeld, M!Switch, M!BackUp
<1>2. CASE M!Switch
  <2>1. \A s \in MSprints : dirs[s] = legacy[s] /\ dirs[s] # MAbsent
    <3>1. \A s \in MSprints : dirs[s] = legacy[s]
      BY <1>i, <1>2 DEF Copied, M!Switch
    <3>2. \A s \in MSprints : legacy[s] \in [MTickets -> Revs]
      BY <1>i DEF MigTyped
    <3> QED BY <3>1, <3>2, DirsAreFiles
  <2>2. M!Files("sharded-yaml") = M!Files("single-yaml")
    BY <1>i, <2>1 DEF M!Files, MigTyped
  <2>3. /\ M!Files(backend)' = M!Files("sharded-yaml") /\ M!Files(backend) = M!Files("single-yaml")
    BY <1>1, <1>2, <1>i DEF M!Files, Copied, M!Switch
  <2>4. ~strayed' => Shows(backend)'
    BY <1>i, <1>1, <2>2, <2>3 DEF Shows, M!Where
  <2>5. MigTyped'
    BY <1>i, <1>1, <1>2 DEF MigTyped, M!Switch, Backends
  <2>6. LockHeld' /\ Copied'
    BY <1>i, <1>1, <1>w, <1>2 DEF LockHeld, Copied, M!Switch, MigTyped
  <2> QED BY <2>4, <2>5, <2>6 DEF MigInv
<1>3. CASE M!BackUp
  <2>1. mig.pc = "move" /\ backend' = backend /\ backend = "sharded-yaml"
    BY <1>i, <1>3 DEF M!BackUp, Copied
  <2>2. M!Files(backend)' = M!Files(backend)
    BY <1>1, <2>1 DEF M!Files
  <2>3. ~strayed' => Shows(backend)'
    BY <1>i, <1>1, <2>1, <2>2, ShowsStays
  <2>4. M!Nothing \in [MTickets -> Revs]
    BY DEF M!Nothing, Revs
  <2>5. \/ /\ mig' = M!NoMigration /\ legacy' = legacy
        \/ /\ holder' = holder
           /\ \E s \in MSprints : /\ legacy' = [legacy EXCEPT ![s] = M!Nothing]
                                  /\ mig' = [mig EXCEPT !.moved = @ \cup {s}]
    BY <1>3 DEF M!BackUp
  <2>6. CASE mig' = M!NoMigration /\ legacy' = legacy
    <3>1. MigTyped'
      BY <1>i, <1>1, <2>1, <2>6 DEF MigTyped, M!NoMigration
    <3>2. LockHeld' /\ Copied'
      BY <1>i, <1>1, <1>w, <2>1, <2>6 DEF LockHeld, Copied, M!NoMigration
    <3> QED BY <2>3, <3>1, <3>2 DEF MigInv
  <2>7. CASE /\ holder' = holder
             /\ \E s \in MSprints : /\ legacy' = [legacy EXCEPT ![s] = M!Nothing]
                                    /\ mig' = [mig EXCEPT !.moved = @ \cup {s}]
    <3>0. PICK s \in MSprints : /\ legacy' = [legacy EXCEPT ![s] = M!Nothing]
                                /\ mig' = [mig EXCEPT !.moved = @ \cup {s}]
      BY <2>7
    <3>1. MigTyped'
      BY <1>i, <1>1, <2>1, <2>4, <3>0 DEF MigTyped
    <3>2. mig'.pc = mig.pc
      BY <1>i, <3>0 DEF MigTyped
    <3>3. LockHeld' /\ Copied'
      BY <1>i, <1>1, <1>w, <2>1, <2>7, <3>2 DEF LockHeld, Copied
    <3> QED BY <2>3, <3>1, <3>3 DEF MigInv
  <2> QED BY <2>5, <2>6, <2>7
<1> QED BY <1>2, <1>3

LEMMA WaitStep ==
  ASSUME MigInv, M!Arrive \/ M!TakeLock \/ M!MigrationDies
  PROVE  MigInv'
<1>i. MigTyped /\ LockHeld /\ Copied /\ (~strayed => Shows(backend))
  BY DEF MigInv
<1>1. UNCHANGED <<backend, legacy, dirs, expect, written>>
  BY DEF M!Arrive, M!TakeLock, M!MigrationDies
<1>2. M!Files(backend)' = M!Files(backend)
  BY <1>1 DEF M!Files
<1>3. ~strayed' => ~strayed
  BY DEF M!Arrive, M!TakeLock, M!MigrationDies
<1>4. ~strayed' => Shows(backend)'
  BY <1>i, <1>1, <1>2, <1>3, ShowsStays
<1>5. CASE M!Arrive
  <2>1. PICK k \in {"put", "save", "delete"} :
          waiter' = [pc |-> "waiting", kind |-> k,
                     backend |-> IF k = "put" THEN "none" ELSE backend]
    BY <1>5 DEF M!Arrive
  <2>2. mig' = mig /\ holder' = holder
    BY <1>5 DEF M!Arrive
  <2>3. MigTyped' /\ Copied'
    BY <1>i, <1>1, <2>1, <2>2 DEF MigTyped, Copied
  <2>4. LockHeld'
    BY <1>i, <1>1, <2>1, <2>2 DEF LockHeld, MigTyped, Backends
  <2> QED BY <1>4, <2>3, <2>4 DEF MigInv
<1>6. CASE M!TakeLock
  <2>1. /\ waiter.pc = "waiting" /\ holder = "nobody" /\ holder' = "mutation" /\ mig' = mig
        /\ waiter' = [waiter EXCEPT !.pc = "locked",
                        !.backend = IF @ = "none" THEN backend ELSE @]
        /\ ~strayed' => ~(waiter.kind # "put" /\ waiter.backend # backend)
    BY <1>6 DEF M!TakeLock
  <2>2. /\ waiter'.pc = "locked"
        /\ waiter'.backend = IF waiter.backend = "none" THEN backend ELSE waiter.backend
    BY <1>i, <2>1 DEF MigTyped
  <2>3. MigTyped' /\ Copied'
    BY <1>i, <1>1, <2>1 DEF MigTyped, Copied
  <2>4. LockHeld'
    BY <1>i, <1>1, <2>1, <2>2 DEF LockHeld
  <2> QED BY <1>4, <2>3, <2>4 DEF MigInv
<1>7. CASE M!MigrationDies
  <2>1. MigTyped' /\ Copied'
    BY <1>i, <1>1, <1>7 DEF MigTyped, Copied, M!MigrationDies, M!NoMigration
  <2>2. LockHeld'
    BY <1>i, <1>1, <1>7 DEF LockHeld, M!MigrationDies, M!NoMigration
  <2> QED BY <1>4, <2>1, <2>2 DEF MigInv
<1> QED BY <1>5, <1>6, <1>7

(* A mutation changes one ticket of one sprint of the backend it chose.    *)
LEMMA SetShows ==
  ASSUME MigInv, NEW b, NEW t \in MTickets, NEW s \in MSprints, NEW v \in Revs,
         M!Where(b, t) \subseteq {s}, M!Set(b, s, t, v)
  PROVE  /\ legacy' \in [MSprints -> [MTickets -> Revs]]
         /\ dirs' \in [MSprints -> [MTickets -> Revs] \cup {MAbsent}]
         /\ M!Where(b, t)' = (IF v = MAbsent THEN {} ELSE {s}) /\ M!Files(b)'[s][t] = v
         /\ \A u \in MTickets : u # t => /\ M!Where(b, u)' = M!Where(b, u)
                                         /\ \A r \in MSprints : M!Files(b)'[r][u] = M!Files(b)[r][u]
<1>1. M!Files(b) \in [MSprints -> [MTickets -> Revs]] /\ \A f \in [MTickets -> Revs] : f # MAbsent
  BY DirsAreFiles
<1> DEFINE new == [M!Files(b)[s] EXCEPT ![t] = v]
<1>2. new \in [MTickets -> Revs] /\ new # MAbsent /\ new[t] = v
      /\ \A u \in MTickets : u # t => new[u] = M!Files(b)[s][u]
  BY <1>1
<1>3. legacy \in [MSprints -> [MTickets -> Revs]] /\ dirs \in [MSprints -> [MTickets -> Revs] \cup {MAbsent}]
  BY DEF MigInv, MigTyped
<1>4. /\ legacy' \in [MSprints -> [MTickets -> Revs]]
      /\ dirs' \in [MSprints -> [MTickets -> Revs] \cup {MAbsent}]
      /\ M!Files(b)'[s] = new /\ \A r \in MSprints : r # s => M!Files(b)'[r] = M!Files(b)[r]
  <2>1. CASE b = "single-yaml"
    <3>1. legacy' = [legacy EXCEPT ![s][t] = v] /\ dirs' = dirs /\ M!Files(b) = legacy
          /\ M!Files(b)' = legacy'
      BY <2>1 DEF M!Set, M!Files
    <3> QED BY <1>1, <1>2, <1>3, <3>1
  <2>2. CASE b # "single-yaml"
    <3>1. dirs' = [dirs EXCEPT ![s] = new] /\ legacy' = legacy
      BY <2>2 DEF M!Set
    <3>2. /\ M!Files(b)' = [r \in MSprints |-> IF dirs'[r] = MAbsent THEN M!Nothing ELSE dirs'[r]]
          /\ M!Files(b) = [r \in MSprints |-> IF dirs[r] = MAbsent THEN M!Nothing ELSE dirs[r]]
      BY <2>2 DEF M!Files
    <3> HIDE DEF new
    <3> QED BY <1>1, <1>2, <1>3, <3>1, <3>2
  <2> QED BY <2>1, <2>2
<1> HIDE DEF new
<1>5. \A r \in MSprints, u \in MTickets :
        M!Files(b)'[r][u] = IF r = s /\ u = t THEN v ELSE M!Files(b)[r][u]
  BY <1>2, <1>4
<1>6. \A r \in MSprints : M!Files(b)[r][t] # MAbsent => r = s
  BY DEF M!Where
<1>7. M!Where(b, t)' = {r \in MSprints : M!Files(b)'[r][t] # MAbsent}
      /\ M!Where(b, t) = {r \in MSprints : M!Files(b)[r][t] # MAbsent}
  BY DEF M!Where
<1>8. M!Where(b, t)' = (IF v = MAbsent THEN {} ELSE {s})
  BY <1>5, <1>6, <1>7
<1>9. \A u \in MTickets : u # t => M!Where(b, u)' = M!Where(b, u)
  BY <1>5 DEF M!Where
<1> QED BY <1>4, <1>5, <1>8, <1>9

LEMMA MutatedStep ==
  ASSUME MigInv, M!Mutated
  PROVE  MigInv'
<1>i. MigTyped /\ LockHeld /\ Copied /\ (~strayed => Shows(backend))
  BY DEF MigInv
<1>1. /\ waiter.pc = "locked" /\ mig.pc = "idle" /\ waiter' = M!NoWaiter /\ holder' = "nobody"
      /\ UNCHANGED <<backend, mig, strayed>>
  BY <1>i DEF M!Mutated, LockHeld, MigTyped
<1>2. LockHeld' /\ Copied'
  BY <1>i, <1>1 DEF LockHeld, Copied, M!NoWaiter
<1>b. PICK b : b = waiter.backend
  OBVIOUS
<1>s. ~strayed => b = backend
  BY <1>i, <1>1, <1>b DEF LockHeld
<1>3. CASE UNCHANGED <<legacy, dirs, expect, written>>
  <2>1. MigTyped'
    BY <1>i, <1>1, <1>3 DEF MigTyped, M!NoWaiter
  <2>2. M!Files(backend)' = M!Files(backend)
    BY <1>1, <1>3 DEF M!Files
  <2> QED BY <1>i, <1>1, <1>2, <1>3, <2>1, <2>2, ShowsStays DEF MigInv
<1>4. ASSUME NEW t \in MTickets, NEW s \in MSprints, NEW v \in Revs,
             ~strayed => M!Where(b, t) \subseteq {s}, M!Set(b, s, t, v),
             expect' = [expect EXCEPT ![t] = v], written' \in 0..MaxMutations
      PROVE  MigInv'
  <2>1. MigTyped'
    <3>0. legacy \in [MSprints -> [MTickets -> Revs]] /\ dirs \in [MSprints -> [MTickets -> Revs] \cup {MAbsent}]
          /\ expect \in [MTickets -> Revs]
      BY <1>i DEF MigTyped
    <3>1. M!Files(b) \in [MSprints -> [MTickets -> Revs]]
      BY DirsAreFiles
    <3>2. /\ legacy' \in [MSprints -> [MTickets -> Revs]]
          /\ dirs' \in [MSprints -> [MTickets -> Revs] \cup {MAbsent}]
      <4>1. CASE b = "single-yaml"
        BY <1>4, <3>0, <4>1 DEF M!Set
      <4>2. CASE b # "single-yaml"
        <5>1. dirs' = [dirs EXCEPT ![s] = [M!Files(b)[s] EXCEPT ![t] = v]] /\ legacy' = legacy
          BY <1>4, <4>2 DEF M!Set
        <5>2. [M!Files(b)[s] EXCEPT ![t] = v] \in [MTickets -> Revs]
          BY <3>1
        <5> QED BY <3>0, <5>1, <5>2
      <4> QED BY <4>1, <4>2
    <3>3. expect' \in [MTickets -> Revs]
      BY <1>4, <3>0
    <3> QED BY <1>i, <1>1, <1>4, <3>2, <3>3 DEF MigTyped, M!NoWaiter
  <2>2. ASSUME ~strayed PROVE Shows(backend)'
    <3>1. b = backend /\ Shows(b) /\ backend' = b
      BY <1>i, <1>1, <1>s, <2>2
    <3>2. /\ M!Where(b, t)' = (IF v = MAbsent THEN {} ELSE {s}) /\ M!Files(b)'[s][t] = v
          /\ \A u \in MTickets : u # t => /\ M!Where(b, u)' = M!Where(b, u)
                                          /\ \A r \in MSprints : M!Files(b)'[r][u] = M!Files(b)[r][u]
      BY <1>4, <2>2, SetShows
    <3>3. /\ \A u \in MTickets : expect'[u] = IF u = t THEN v ELSE expect[u]
      BY <1>i, <1>4 DEF MigTyped
    <3>4. /\ \A u \in MTickets : M!Where(backend, u)' = M!Where(b, u)'
          /\ M!Files(backend)' = M!Files(b)'
      BY <1>1, <3>1 DEF M!Where, M!Files
    <3>5. ASSUME NEW u \in MTickets
          PROVE  IF expect'[u] = MAbsent THEN M!Where(backend, u)' = {}
                 ELSE \E r \in MSprints : M!Where(backend, u)' = {r}
                                          /\ M!Files(backend)'[r][u] = expect'[u]
      <4>1. CASE u = t
        BY <3>2, <3>3, <3>4, <4>1
      <4>2. CASE u # t
        BY <3>1, <3>2, <3>3, <3>4, <4>2 DEF Shows
      <4> QED BY <4>1, <4>2
    <3> QED BY <3>5 DEF Shows
  <2> QED BY <1>1, <1>2, <2>1, <2>2 DEF MigInv
<1>5. CASE waiter.kind \in {"put", "save"} /\ written < MaxMutations
  <2>1. CASE \E t \in MTickets, s \in MSprints :
               /\ M!Where(b, t) \subseteq {s} /\ M!Set(b, s, t, written + 1)
               /\ expect' = [expect EXCEPT ![t] = written + 1] /\ written' = written + 1
    <3>1. written + 1 \in Revs /\ written + 1 \in 0..MaxMutations
      BY <1>i, <1>5, MigrationAssumption DEF MigTyped, Revs
    <3> QED BY <1>4, <2>1, <3>1
  <2>2. CASE waiter.kind = "delete"
    BY <1>5, <2>2
  <2> QED BY <1>b, <1>5, <2>1, <2>2 DEF M!Mutated
<1>6. CASE waiter.kind = "delete"
  <2>1. PICK t \in MTickets :
          IF M!Where(b, t) = {} THEN UNCHANGED <<legacy, dirs, expect>>
          ELSE /\ M!Set(b, CHOOSE s \in M!Where(b, t) : TRUE, t, MAbsent)
               /\ expect' = [expect EXCEPT ![t] = MAbsent]
    BY <1>b, <1>6 DEF M!Mutated
  <2>2. written' = written /\ written \in 0..MaxMutations /\ MAbsent \in Revs
    BY <1>i, <1>6 DEF M!Mutated, MigTyped, Revs
  <2>3. CASE M!Where(b, t) = {}
    BY <1>3, <2>1, <2>2, <2>3
  <2>4. CASE M!Where(b, t) # {}
    <3>1. PICK s : s = CHOOSE r \in M!Where(b, t) : TRUE
      OBVIOUS
    <3>2. s \in M!Where(b, t) /\ s \in MSprints
      BY <2>4, <3>1 DEF M!Where
    <3>3. ~strayed => M!Where(b, t) \subseteq {s}
      <4> SUFFICES ASSUME ~strayed PROVE M!Where(b, t) \subseteq {s}
        OBVIOUS
      <4>1. Shows(b)
        BY <1>i, <1>s
      <4>2. M!Where(b, t) = {} \/ \E r : M!Where(b, t) = {r}
        BY <4>1 DEF Shows
      <4> QED BY <3>2, <4>2
    <3>4. M!Set(b, s, t, MAbsent) /\ expect' = [expect EXCEPT ![t] = MAbsent]
      BY <2>1, <2>4, <3>1
    <3> QED BY <1>4, <2>2, <3>2, <3>3, <3>4
  <2> QED BY <2>3, <2>4
<1> QED BY <1>5, <1>6 DEF M!Mutated

LEMMA MigrationStep == MigInv /\ [M!MNext]_migrationVars => MigInv'
<1> SUFFICES ASSUME MigInv, [M!MNext]_migrationVars PROVE MigInv'
  OBVIOUS
<1>1. CASE UNCHANGED migrationVars
  <2>1. UNCHANGED <<backend, legacy, dirs, holder, mig, waiter, expect, strayed, written>>
    BY <1>1 DEF migrationVars
  <2>2. MigTyped' /\ LockHeld' /\ Copied'
    BY <2>1 DEF MigInv, MigTyped, LockHeld, Copied
  <2>3. M!Files(backend)' = M!Files(backend)
    BY <2>1 DEF M!Files
  <2> QED BY <2>1, <2>2, <2>3, ShowsStays DEF MigInv
<1>2. CASE M!MNext
  BY <1>2, CopyStep, SwitchStep, WaitStep, MutatedStep DEF M!MNext
<1> QED BY <1>1, <1>2

(* Whatever the migration has done so far and wherever it dies, the        *)
(* backend in use shows for every ticket what was acknowledged last, for   *)
(* any number of sprints, tickets, mutations and deaths.                   *)
THEOREM MigratedCorrect == StorageSpec => []Migrated
<1>1. StorageInit => MigInv
  BY MigrationInit DEF StorageInit
<1>2. MigInv /\ [StorageNext]_allVars => MigInv'
  <2>1. [StorageNext]_allVars => [M!MNext]_migrationVars
    BY DEF StorageNext, allVars
  <2> QED BY <2>1, MigrationStep
<1>3. MigInv => Migrated
  BY DEF MigInv, Shows, Migrated, M!Migrated
<1> QED BY <1>1, <1>2, <1>3, PTL DEF StorageSpec

-----------------------------------------------------------------------------
(* The operational journal and the forensic log.                           *)

Reads(e) == live[e] > 0 \/ \E d \in J!Days : hist[d][e] > 0

JournalTyped ==
  /\ day \in J!Days
  /\ date \in [Events -> 0..LastDay] /\ \A e \in Events : date[e] <= day
  /\ ops \subseteq Events
  /\ live \in [Events -> Nat] /\ hist \in [J!Days -> [Events -> Nat]]
  /\ liveDay \in 0..LastDay
  /\ app = [pc |-> app.pc, phase |-> app.phase, done |-> app.done, events |-> app.events,
            today |-> app.today, past |-> app.past, day |-> app.day]
  /\ app.pc \in {"idle", "rotate", "unlink", "stamp", "batch", "group", "write", "receipt",
                 "journal"}
  /\ app.phase \in {"ensure", "backfill", "append"}
  /\ app.done \subseteq ops /\ app.events \subseteq Events
  /\ app.pc = "idle" => app = J!NoAppend
  /\ app.day \in 0..LastDay /\ app.day <= day
  /\ jcrashes \in Nat

(* Lines stand under their day, and the day an append has chosen is none   *)
(* before that of any event.                                               *)
Dated ==
  /\ \A e \in ops \cup app.events : date[e] # 0
  /\ \A e \in Events : live[e] > 0 => date[e] = liveDay /\ date[e] # 0
  /\ \A d \in J!Days, e \in Events : hist[d][e] > 0 => date[e] = d
  /\ app.pc \notin {"idle", "rotate"} => \A e \in Events : date[e] <= app.day
  /\ app.pc = "stamp" => \A e \in Events : live[e] > 0 => date[e] = app.day
  /\ app.pc \in {"group", "write"} => liveDay = app.day
  /\ app.pc = "write" => \A e \in app.today : date[e] = liveDay

(* What the append under way has left to write.                            *)
Pending ==
  /\ app.pc \in {"batch", "receipt"} => app.phase = "backfill"
  /\ app.pc = "journal" => app.phase = "append"
  /\ app.pc = "group" => app.phase # "ensure"
  /\ app.pc = "write" => /\ app.phase # "ensure"
                         /\ app.today \cup app.past \subseteq J!Projected
                         /\ app.today \cap app.past = {}
  /\ app.phase = "append" => receipt
  /\ app.phase = "backfill" => ~receipt

(* What can be read for sure: what the backfill has done, what an append   *)
(* no longer has to write, and after the receipt the whole journal.        *)
Readable ==
  /\ app.pc = "unlink" => /\ liveDay \in J!Days
                          /\ \A e \in Events : live[e] > 0 => hist[liveDay][e] > 0
  /\ \A e \in app.done : Reads(e)
  /\ app.pc = "write" => \A e \in J!Projected : e \in app.today \cup app.past \/ Reads(e)
  /\ app.pc = "receipt" => \A e \in ops : Reads(e)
  /\ app.pc = "journal" => \A e \in app.events : Reads(e)
  /\ receipt => \A e \in ops : Reads(e)

(* What cannot be read yet, so that no line is written twice.              *)
Unread ==
  /\ app.events \cap ops = {}
  /\ ~(app.phase = "append" /\ app.pc \in {"write", "journal"}) =>
       \A e \in app.events : ~Reads(e)
  /\ app.phase = "append" /\ app.pc = "write" =>
       \A e \in app.today \cup app.past : ~Reads(e)
  /\ jcrashes = 0 =>
       /\ ~receipt /\ app.phase = "ensure" => \A e \in Events : ~Reads(e)
       /\ app.phase = "backfill" => \A e \in Events : Reads(e) =>
            \/ e \in app.done
            \/ app.pc = "write" /\ e \in J!NextBatch \ (app.today \cup app.past)
       /\ \A e \in Events, d \in J!Days :
            IF app.pc = "unlink" THEN hist[d][e] <= 1 ELSE live[e] + hist[d][e] <= 1

JournalInv == JournalTyped /\ Dated /\ Pending /\ Readable /\ Unread

LEMMA JournalStarts == J!JInit => JournalInv
<1> SUFFICES ASSUME J!JInit PROVE JournalInv
  OBVIOUS
<1>1. /\ day = 1 /\ date = [e \in Events |-> IF e \in Legacy THEN 1 ELSE 0] /\ ops = Legacy
      /\ live = J!NoLines /\ liveDay = 0 /\ hist = [d \in J!Days |-> J!NoLines]
      /\ receipt = FALSE /\ app = J!NoAppend /\ jcrashes = 0
  BY DEF J!JInit
<1>2. /\ 1 \in J!Days /\ \A d \in J!Days : d \in 1..LastDay /\ d # 0
      /\ Legacy \subseteq Events /\ LastDay \in Nat \ {0}
  BY JournalAssumption DEF J!Days
<1>3. \A e \in Events : live[e] = 0 /\ \A d \in J!Days : hist[d][e] = 0
  BY <1>1 DEF J!NoLines
<1>4. JournalTyped
  BY <1>1, <1>2 DEF JournalTyped, J!NoAppend, J!NoLines
<1>5. Dated /\ Pending
  BY <1>1, <1>2, <1>3 DEF Dated, Pending, J!NoAppend
<1>6. Readable /\ Unread
  BY <1>1, <1>2, <1>3 DEF Readable, Unread, Reads, J!NoAppend
<1> QED BY <1>4, <1>5, <1>6 DEF JournalInv

(* The backfill ends when the whole journal is done.                       *)
LEMMA BatchesReachTheEnd ==
  ASSUME JournalInv, J!NextBatch = {}
  PROVE  ops \subseteq app.done
<1> SUFFICES ASSUME ops \ app.done # {} PROVE FALSE
  OBVIOUS
<1> DEFINE rest == ops \ app.done
<1>1. rest \subseteq Nat
  BY JournalAssumption DEF JournalInv, JournalTyped
<1>3. PICK e \in rest : \A f \in rest : e <= f
  BY <1>1, LeastOf
<1>4. \A f \in rest : ~(f < e)
  BY <1>1, <1>3
<1>5. {f \in rest : f < e} = {}
  BY <1>4
<1>6. Cardinality({f \in rest : f < e}) < Batch
  BY <1>5, FS_EmptySet, JournalAssumption
<1>7. e \in J!NextBatch
  BY <1>3, <1>6 DEF J!NextBatch, J!Cardinality, Cardinality
<1> QED BY <1>7

LEMMA BeginStep ==
  ASSUME JournalInv, J!Midnight \/ J!BeginAppend
  PROVE  JournalInv'
<1>i. JournalTyped /\ Dated /\ Pending /\ Readable /\ Unread
  BY DEF JournalInv
<1>1. UNCHANGED <<ops, live, liveDay, hist, receipt, jcrashes>>
  BY DEF J!Midnight, J!BeginAppend
<1>2. \A e : Reads(e)' <=> Reads(e)
  BY <1>1 DEF Reads
<1>3. CASE J!Midnight
  <2>1. day < LastDay /\ day' = day + 1 /\ date' = date /\ app' = app
    BY <1>3 DEF J!Midnight
  <2>2. J!Projected' = J!Projected /\ J!NextBatch' = J!NextBatch
    BY <1>1, <2>1 DEF J!Projected, J!NextBatch
  <2>3. JournalTyped'
    <3>1. day \in Nat /\ LastDay \in Nat /\ day' \in J!Days /\ \A e \in Events : date[e] \in Nat
      BY <1>i, <2>1, JournalAssumption DEF JournalTyped, J!Days
    <3>2. \A e \in Events : date'[e] <= day'
      BY <1>i, <2>1, <3>1 DEF JournalTyped
    <3>3. app.day \in Nat /\ app'.day <= day'
      BY <1>i, <2>1, <3>1, JournalAssumption DEF JournalTyped
    <3> QED BY <1>i, <1>1, <2>1, <3>1, <3>2, <3>3 DEF JournalTyped
  <2>4. Dated' /\ Pending'
    BY <1>i, <1>1, <2>1, <2>2 DEF Dated, Pending
  <2>5. Readable' /\ Unread'
    BY <1>i, <1>1, <1>2, <2>1, <2>2 DEF Readable, Unread
  <2> QED BY <2>3, <2>4, <2>5 DEF JournalInv
<1>4. CASE J!BeginAppend
  <2>0. app = J!NoAppend
    BY <1>i, <1>4 DEF JournalTyped, J!BeginAppend
  <2>1. PICK Wr \in SUBSET {e \in Events : date[e] = 0} : \E when \in [Wr -> 1..day] :
          /\ date' = [e \in Events |-> IF e \in Wr THEN when[e] ELSE date[e]]
          /\ app' = [J!NoAppend EXCEPT !.pc = "rotate", !.events = Wr]
          /\ day' = day
    BY <1>4 DEF J!BeginAppend
  <2>2. /\ \A e \in Events : IF e \in Wr THEN date[e] = 0 /\ date'[e] \in 1..day
                             ELSE date'[e] = date[e]
        /\ DOMAIN date' = Events /\ date' = [e \in Events |-> date'[e]]
    BY <2>1
  <2>3. day \in 1..LastDay /\ day \in Nat /\ LastDay \in Nat
    BY <1>i, JournalAssumption DEF JournalTyped, J!Days
  <2>4. JournalTyped'
    <3>1. date' \in [Events -> 0..LastDay] /\ \A e \in Events : date'[e] <= day
      BY <1>i, <2>1, <2>2, <2>3 DEF JournalTyped
    <3>2. /\ app'.pc = "rotate" /\ app'.phase = "ensure" /\ app'.done = {} /\ app'.events = Wr
          /\ app'.today = {} /\ app'.past = {} /\ app'.day = 0
          /\ app' = [pc |-> app'.pc, phase |-> app'.phase, done |-> app'.done,
                     events |-> app'.events, today |-> app'.today, past |-> app'.past,
                     day |-> app'.day]
      BY <2>1 DEF J!NoAppend
    <3> QED BY <1>i, <1>1, <2>1, <2>3, <3>1, <3>2 DEF JournalTyped
  <2>5. \A e \in Wr : ~Reads(e) /\ e \notin ops
    <3>1. \A d \in J!Days : d # 0
      BY DEF J!Days
    <3> QED BY <1>i, <2>1, <3>1 DEF Dated, Reads
  <2>6. \A e \in Events : Reads(e) \/ e \in ops => date'[e] = date[e]
    BY <2>2, <2>5
  <2>7. Dated'
    <3>1. \A e \in Events : live[e] > 0 => date'[e] = liveDay /\ date'[e] # 0
      BY <1>i, <2>6 DEF Dated, Reads
    <3>2. \A d \in J!Days, e \in Events : hist[d][e] > 0 => date'[e] = d
      BY <1>i, <2>6 DEF Dated, Reads
    <3>3. \A e \in ops \cup Wr : date'[e] # 0
      BY <1>i, <2>1, <2>2, <2>6, <2>3 DEF Dated, JournalTyped
    <3> QED BY <1>1, <2>1, <3>1, <3>2, <3>3 DEF Dated, J!NoAppend
  <2>8. Pending' /\ Readable'
    BY <1>i, <1>1, <1>2, <2>0, <2>1 DEF Pending, Readable, J!NoAppend
  <2>9. Unread'
    BY <1>i, <1>1, <1>2, <2>0, <2>1, <2>5 DEF Unread, J!NoAppend
  <2> QED BY <2>4, <2>7, <2>8, <2>9 DEF JournalInv
<1> QED BY <1>3, <1>4

(* A rotation copies the log of a past day and then removes it.            *)
LEMMA RotateStep ==
  ASSUME JournalInv, J!Rotate \/ J!Unlink
  PROVE  JournalInv'
<1>i. JournalTyped /\ Dated /\ Pending /\ Readable /\ Unread
  BY DEF JournalInv
<1>1. UNCHANGED <<day, date, ops, liveDay, receipt, jcrashes>>
  BY DEF J!Rotate, J!Unlink
<1>2. LastDay \in Nat /\ day \in 1..LastDay /\ J!Days = 1..LastDay
  BY <1>i, JournalAssumption DEF JournalTyped, J!Days
<1>3. CASE J!Rotate
  <2>0. app.pc = "rotate" /\ live' = live
    BY <1>3 DEF J!Rotate
  <2>1. CASE liveDay \notin {0, day}
    <3>1. /\ hist' = [hist EXCEPT ![liveDay] = [e \in Events |-> @[e] + live[e]]]
          /\ app' = [app EXCEPT !.pc = "unlink", !.day = day]
      BY <1>3, <2>1 DEF J!Rotate
    <3>2. liveDay \in J!Days
      BY <1>i, <1>2, <2>1 DEF JournalTyped
    <3>3. /\ hist' \in [J!Days -> [Events -> Nat]]
          /\ \A d \in J!Days, e \in Events :
               hist'[d][e] = IF d = liveDay THEN hist[d][e] + live[e] ELSE hist[d][e]
          /\ \A d \in J!Days, e \in Events : hist[d][e] \in Nat /\ live[e] \in Nat
      BY <1>i, <3>1, <3>2 DEF JournalTyped
    <3>4. /\ app'.pc = "unlink" /\ app'.day = day /\ app'.phase = app.phase
          /\ app'.done = app.done /\ app'.events = app.events
          /\ app' = [pc |-> app'.pc, phase |-> app'.phase, done |-> app'.done,
                     events |-> app'.events, today |-> app'.today, past |-> app'.past,
                     day |-> app'.day]
      BY <1>i, <3>1 DEF JournalTyped
    <3>5. \A e \in Events : Reads(e)' <=> Reads(e)
      BY <2>0, <3>2, <3>3 DEF Reads
    <3>6. JournalTyped'
      BY <1>i, <1>1, <1>2, <2>0, <3>3, <3>4 DEF JournalTyped
    <3>7. Dated'
      BY <1>i, <1>1, <2>0, <3>3, <3>4 DEF Dated, JournalTyped
    <3>8. Pending'
      BY <1>i, <1>1, <2>0, <3>4 DEF Pending
    <3>9. Readable'
      BY <1>i, <1>1, <2>0, <3>2, <3>3, <3>4, <3>5 DEF Readable, JournalTyped
    <3>10. Unread'
      <4>1. \A e \in Events, d \in J!Days : jcrashes = 0 => hist'[d][e] <= 1
        BY <1>i, <2>0, <3>3 DEF Unread
      <4> QED BY <1>i, <1>1, <2>0, <3>4, <3>5, <4>1 DEF Unread, JournalTyped
    <3> QED BY <3>6, <3>7, <3>8, <3>9, <3>10 DEF JournalInv
  <2>2. CASE liveDay \in {0, day}
    <3>1. hist' = hist /\ app' = [app EXCEPT !.pc = "stamp", !.day = day]
      BY <1>3, <2>2 DEF J!Rotate
    <3>4. /\ app'.pc = "stamp" /\ app'.day = day /\ app'.phase = app.phase
          /\ app'.done = app.done /\ app'.events = app.events
          /\ app' = [pc |-> app'.pc, phase |-> app'.phase, done |-> app'.done,
                     events |-> app'.events, today |-> app'.today, past |-> app'.past,
                     day |-> app'.day]
      BY <1>i, <3>1 DEF JournalTyped
    <3>5. \A e \in Events : Reads(e)' <=> Reads(e)
      BY <2>0, <3>1 DEF Reads
    <3>6. JournalTyped'
      BY <1>i, <1>1, <1>2, <2>0, <3>1, <3>4 DEF JournalTyped
    <3>7. Dated'
      BY <1>i, <1>1, <2>0, <2>2, <3>1, <3>4 DEF Dated, JournalTyped
    <3>8. Pending'
      BY <1>i, <1>1, <2>0, <3>4 DEF Pending
    <3>9. Readable'
      BY <1>i, <1>1, <2>0, <3>1, <3>4, <3>5 DEF Readable, JournalTyped
    <3>10. Unread'
      BY <1>i, <1>1, <2>0, <3>1, <3>4, <3>5 DEF Unread, JournalTyped
    <3> QED BY <3>6, <3>7, <3>8, <3>9, <3>10 DEF JournalInv
  <2> QED BY <2>1, <2>2
<1>4. CASE J!Unlink
  <2>1. app.pc = "unlink" /\ live' = J!NoLines /\ hist' = hist /\ app' = [app EXCEPT !.pc = "stamp"]
    BY <1>4 DEF J!Unlink
  <2>2. /\ live' \in [Events -> Nat] /\ \A e \in Events : live'[e] = 0
        /\ \A e \in Events : live[e] \in Nat /\ \A d \in J!Days : hist[d][e] \in Nat
    BY <1>i, <2>1 DEF J!NoLines, JournalTyped
  <2>3. /\ app'.pc = "stamp" /\ app'.day = app.day /\ app'.phase = app.phase
        /\ app'.done = app.done /\ app'.events = app.events
        /\ app' = [pc |-> app'.pc, phase |-> app'.phase, done |-> app'.done,
                   events |-> app'.events, today |-> app'.today, past |-> app'.past,
                   day |-> app'.day]
    BY <1>i, <2>1 DEF JournalTyped
  <2>4. \A e \in Events : Reads(e)' <=> Reads(e)
    BY <1>i, <2>1, <2>2 DEF Reads, Readable
  <2>5. JournalTyped'
    BY <1>i, <1>1, <2>1, <2>2, <2>3 DEF JournalTyped
  <2>6. Dated'
    BY <1>i, <1>1, <2>1, <2>2, <2>3 DEF Dated
  <2>7. Pending'
    BY <1>i, <1>1, <2>1, <2>3 DEF Pending
  <2>8. Readable'
    BY <1>i, <1>1, <2>1, <2>2, <2>3, <2>4 DEF Readable, JournalTyped
  <2>9. Unread'
    BY <1>i, <1>1, <2>1, <2>2, <2>3, <2>4 DEF Unread, JournalTyped
  <2> QED BY <2>5, <2>6, <2>7, <2>8, <2>9 DEF JournalInv
<1> QED BY <1>3, <1>4

(* Where the append goes on and no file changes.                           *)
LEMMA AppendGoesOn ==
  ASSUME JournalInv, UNCHANGED <<day, date, ops, live, hist, receipt, jcrashes>>,
         app.pc # "idle", app'.pc # "idle",
         app' = [pc |-> app'.pc, phase |-> app'.phase, done |-> app'.done,
                 events |-> app.events, today |-> app'.today, past |-> app'.past,
                 day |-> app.day]
  PROVE  /\ \A e \in Events : Reads(e)' <=> Reads(e)
         /\ /\ app'.pc \in {"idle", "rotate", "unlink", "stamp", "batch", "group", "write",
                            "receipt", "journal"}
            /\ app'.phase \in {"ensure", "backfill", "append"}
            /\ app'.done \subseteq ops /\ liveDay' \in 0..LastDay
            => JournalTyped'
BY DEF JournalInv, JournalTyped, Reads

LEMMA StampStep ==
  ASSUME JournalInv, J!Stamp \/ J!TakeBatch
  PROVE  JournalInv'
<1>i. JournalTyped /\ Dated /\ Pending /\ Readable /\ Unread
  BY DEF JournalInv
<1>1. UNCHANGED <<day, date, ops, live, hist, receipt, jcrashes>>
  BY DEF J!Stamp, J!Stamped, J!TakeBatch
<1>3. CASE J!Stamp
  <2>1. /\ app.pc = "stamp" /\ liveDay' = app.day
        /\ app' = IF app.phase # "ensure" THEN [app EXCEPT !.pc = "group"]
                  ELSE IF receipt THEN [app EXCEPT !.pc = "rotate", !.phase = "append"]
                  ELSE [app EXCEPT !.pc = "batch", !.phase = "backfill"]
    BY <1>3 DEF J!Stamp, J!Stamped
  <2>2. /\ app'.pc = IF app.phase # "ensure" THEN "group" ELSE IF receipt THEN "rotate" ELSE "batch"
        /\ app'.phase = IF app.phase # "ensure" THEN app.phase ELSE IF receipt THEN "append"
                        ELSE "backfill"
        /\ app'.done = app.done /\ app'.events = app.events /\ app'.day = app.day
        /\ app' = [pc |-> app'.pc, phase |-> app'.phase, done |-> app'.done,
                   events |-> app.events, today |-> app'.today, past |-> app'.past,
                   day |-> app.day]
    BY <1>i, <2>1 DEF JournalTyped
  <2>3. (\A e \in Events : Reads(e)' <=> Reads(e)) /\ JournalTyped'
    BY <1>i, <1>1, <2>1, <2>2, AppendGoesOn DEF JournalTyped
  <2>4. Dated'
    BY <1>i, <1>1, <2>1, <2>2 DEF Dated, JournalTyped
  <2>5. Pending'
    BY <1>i, <1>1, <2>1, <2>2 DEF Pending, JournalTyped
  <2>6. Readable'
    BY <1>i, <1>1, <2>1, <2>2, <2>3 DEF Readable, JournalTyped
  <2>7. Unread'
    BY <1>i, <1>1, <2>1, <2>2, <2>3 DEF Unread, JournalTyped
  <2> QED BY <2>3, <2>4, <2>5, <2>6, <2>7 DEF JournalInv
<1>4. CASE J!TakeBatch
  <2>1. /\ app.pc = "batch" /\ liveDay' = liveDay /\ app.phase = "backfill"
        /\ app' = [app EXCEPT !.pc = IF J!NextBatch = {} THEN "receipt" ELSE "rotate"]
    BY <1>i, <1>4 DEF J!TakeBatch, Pending
  <2>2. /\ app'.pc = IF J!NextBatch = {} THEN "receipt" ELSE "rotate"
        /\ app'.phase = app.phase /\ app'.day = app.day
        /\ app'.done = app.done /\ app'.events = app.events
        /\ app' = [pc |-> app'.pc, phase |-> app'.phase, done |-> app'.done,
                   events |-> app.events, today |-> app'.today, past |-> app'.past,
                   day |-> app.day]
    BY <1>i, <2>1 DEF JournalTyped
  <2>3. (\A e \in Events : Reads(e)' <=> Reads(e)) /\ JournalTyped'
    BY <1>i, <1>1, <2>1, <2>2, AppendGoesOn DEF JournalTyped
  <2>4. Dated'
    BY <1>i, <1>1, <2>1, <2>2 DEF Dated, JournalTyped
  <2>5. Pending'
    BY <1>i, <1>1, <2>1, <2>2 DEF Pending
  <2>6. Readable'
    <3>1. J!NextBatch = {} => \A e \in ops : Reads(e)
      BY <1>i, BatchesReachTheEnd DEF Readable
    <3> QED BY <1>i, <1>1, <2>1, <2>2, <2>3, <3>1 DEF Readable, JournalTyped
  <2>7. Unread'
    BY <1>i, <1>1, <2>1, <2>2, <2>3 DEF Unread, JournalTyped
  <2> QED BY <2>3, <2>4, <2>5, <2>6, <2>7 DEF JournalInv
<1> QED BY <1>3, <1>4

(* The files are chosen for every event before the first line is written;  *)
(* none has a day after that of the rotation.                              *)
LEMMA GroupStep ==
  ASSUME JournalInv, J!Group
  PROVE  JournalInv'
<1>i. JournalTyped /\ Dated /\ Pending /\ Readable /\ Unread
  BY DEF JournalInv
<1>1. UNCHANGED <<day, date, ops, live, liveDay, hist, receipt, jcrashes>> /\ app.pc = "group"
  BY DEF J!Group
<1> DEFINE now == {e \in J!Projected : date[e] = day}
           past == {e \in J!Projected : date[e] # day}
<1>2. /\ app'.pc = "write" /\ app'.phase = app.phase /\ app'.day = app.day
      /\ app'.done = app.done /\ app'.events = app.events
      /\ app'.today = now /\ app'.past = past
      /\ app' = [pc |-> app'.pc, phase |-> app'.phase, done |-> app'.done,
                 events |-> app.events, today |-> app'.today, past |-> app'.past,
                 day |-> app.day]
  BY <1>i DEF JournalTyped, J!Group
<1>3. J!Projected' = J!Projected /\ J!NextBatch' = J!NextBatch
  BY <1>1, <1>2 DEF J!Projected, J!NextBatch
<1>4. now \cup past = J!Projected /\ now \cap past = {}
  OBVIOUS
<1>5. J!Projected \subseteq Events /\ J!NextBatch \subseteq ops \ app.done
  BY <1>i DEF J!Projected, J!NextBatch, JournalTyped
<1>6. (\A e \in Events : Reads(e)' <=> Reads(e)) /\ JournalTyped'
  BY <1>i, <1>1, <1>2, AppendGoesOn DEF JournalTyped
<1>7. Dated'
  <2>1. \A e \in now : date[e] = liveDay
    <3>1. LastDay \in Nat /\ day \in Nat /\ app.day \in Nat /\ \A e \in Events : date[e] \in Nat
      BY <1>i, JournalAssumption DEF JournalTyped, J!Days
    <3> QED BY <1>i, <1>1, <1>5, <3>1 DEF Dated, JournalTyped
  <2> HIDE DEF now, past
  <2> QED BY <1>i, <1>1, <1>2, <2>1 DEF Dated
<1> HIDE DEF now, past
<1>8. Pending'
  BY <1>i, <1>1, <1>2, <1>3, <1>4 DEF Pending
<1>9. Readable'
  BY <1>i, <1>1, <1>2, <1>3, <1>4, <1>5, <1>6 DEF Readable, JournalTyped
<1>10. Unread'
  <2>1. app.phase = "append" => \A e \in now \cup past : ~Reads(e)
    BY <1>i, <1>1, <1>4 DEF Unread, J!Projected
  <2> QED BY <1>i, <1>1, <1>2, <1>3, <1>4, <1>5, <1>6, <2>1 DEF Unread, JournalTyped
<1> QED BY <1>6, <1>7, <1>8, <1>9, <1>10 DEF JournalInv

(* Lines of one day are written to one file: they can be read from then on.*)
LEMMA LinesWritten ==
  ASSUME JournalInv, app.pc = "write", NEW Wr, Wr \subseteq app.today \cup app.past,
         UNCHANGED <<day, date, ops, liveDay, receipt, jcrashes>>,
         app' = [app EXCEPT !.today = @ \ Wr, !.past = @ \ Wr],
         \/ /\ Wr \subseteq app.today /\ live' = J!Plus(live, Wr) /\ hist' = hist
         \/ /\ live' = live
            /\ \E d \in J!Days : /\ \A e \in Wr : date[e] = d
                                 /\ hist' = [hist EXCEPT ![d] = J!Plus(@, Wr)]
  PROVE  JournalInv'
<1>i. JournalTyped /\ Dated /\ Pending /\ Readable /\ Unread
  BY DEF JournalInv
<1>1. /\ app'.pc = "write" /\ app'.phase = app.phase /\ app'.day = app.day
      /\ app'.done = app.done /\ app'.events = app.events
      /\ app'.today = app.today \ Wr /\ app'.past = app.past \ Wr
      /\ app' = [pc |-> app'.pc, phase |-> app'.phase, done |-> app'.done,
                 events |-> app'.events, today |-> app'.today, past |-> app'.past,
                 day |-> app'.day]
  BY <1>i DEF JournalTyped
<1>2. J!Projected' = J!Projected /\ J!NextBatch' = J!NextBatch
  BY <1>1 DEF J!Projected, J!NextBatch
<1>3. /\ J!Projected \subseteq Events /\ J!NextBatch \subseteq ops \ app.done
      /\ Wr \subseteq J!Projected
      /\ app.phase = "append" => J!Projected = app.events
      /\ app.phase = "backfill" => J!Projected = J!NextBatch
  BY <1>i DEF J!Projected, J!NextBatch, JournalTyped, Pending
<1>4. /\ \A e \in Events : date[e] \in Nat /\ live[e] \in Nat
      /\ \A d \in J!Days, e \in Events : hist[d][e] \in Nat
  BY <1>i, JournalAssumption DEF JournalTyped
<1> DEFINE Goes(L, d) ==
        /\ live' \in [Events -> Nat] /\ hist' \in [J!Days -> [Events -> Nat]]
        /\ \A e \in Events : live'[e] = live[e] + (IF e \in L THEN 1 ELSE 0)
        /\ \A c \in J!Days, e \in Events :
             hist'[c][e] = hist[c][e] + (IF c = d /\ e \in Wr \ L THEN 1 ELSE 0)
        /\ L \subseteq app.today /\ \A e \in Wr \ L : date[e] = d
<1>w. \E L \in SUBSET Wr, d \in J!Days : Goes(L, d)
  <2>1. CASE Wr \subseteq app.today /\ live' = J!Plus(live, Wr) /\ hist' = hist
    <3>1. day \in J!Days
      BY <1>i DEF JournalTyped
    <3>2. /\ live' \in [Events -> Nat]
          /\ \A e \in Events : live'[e] = live[e] + (IF e \in Wr THEN 1 ELSE 0)
      BY <1>4, <2>1 DEF J!Plus
    <3>3. hist' \in [J!Days -> [Events -> Nat]] /\ \A c \in J!Days, e \in Events : hist'[c][e] = hist[c][e] + 0
      BY <1>i, <1>4, <2>1 DEF JournalTyped
    <3>4. Goes(Wr, day)
      BY <2>1, <3>2, <3>3
    <3> HIDE DEF Goes
    <3> QED BY <3>1, <3>4
  <2>2. CASE /\ live' = live
             /\ \E d \in J!Days : /\ \A e \in Wr : date[e] = d
                                  /\ hist' = [hist EXCEPT ![d] = J!Plus(@, Wr)]
    <3>1. PICK d \in J!Days : /\ \A e \in Wr : date[e] = d
                              /\ hist' = [hist EXCEPT ![d] = J!Plus(hist[d], Wr)]
      BY <2>2
    <3>2. /\ J!Plus(hist[d], Wr) \in [Events -> Nat]
          /\ \A e \in Events : J!Plus(hist[d], Wr)[e] = hist[d][e] + (IF e \in Wr THEN 1 ELSE 0)
      BY <1>4 DEF J!Plus
    <3>3. /\ hist' \in [J!Days -> [Events -> Nat]]
          /\ \A c \in J!Days, e \in Events :
               hist'[c][e] = hist[c][e] + (IF c = d /\ e \in Wr THEN 1 ELSE 0)
      BY <1>i, <1>4, <3>1, <3>2 DEF JournalTyped
    <3>4. live' \in [Events -> Nat] /\ \A e \in Events : live'[e] = live[e] + 0
      BY <1>i, <1>4, <2>2 DEF JournalTyped
    <3>5. Goes({}, d)
      BY <3>1, <3>3, <3>4
    <3> HIDE DEF Goes
    <3> QED BY <3>5
  <2> QED BY <2>1, <2>2
<1>5. PICK L \in SUBSET Wr, d \in J!Days : Goes(L, d)
  BY <1>w
<1>6. \A e \in Events : Reads(e)' <=> Reads(e) \/ e \in Wr
  <2> TAKE e \in Events
  <2>1. CASE e \in Wr
    BY <1>4, <1>5, <2>1 DEF Reads
  <2>2. CASE e \notin Wr
    BY <1>4, <1>5, <2>2 DEF Reads
  <2> QED BY <2>1, <2>2
<1>7. JournalTyped'
  BY <1>i, <1>1, <1>5 DEF JournalTyped
<1>8. Dated'
  <2>1. \A e \in Wr : date[e] # 0
    BY <1>i, <1>3 DEF Dated, J!Projected, J!NextBatch
  <2>2. \A e \in Events : live'[e] > 0 => date[e] = liveDay /\ date[e] # 0
    BY <1>i, <1>4, <1>5, <2>1 DEF Dated
  <2>3. \A c \in J!Days, e \in Events : hist'[c][e] > 0 => date[e] = c
    BY <1>i, <1>4, <1>5 DEF Dated
  <2> QED BY <1>i, <1>1, <2>2, <2>3 DEF Dated
<1>9. Pending'
  BY <1>i, <1>1, <1>2 DEF Pending
<1>10. Readable'
  BY <1>i, <1>1, <1>2, <1>3, <1>6 DEF Readable, JournalTyped
<1>11. Unread'
  <2>1. (app.phase = "append" \/ jcrashes = 0) => \A e \in Wr : ~Reads(e)
    BY <1>i, <1>3 DEF Unread, Pending, JournalTyped
  <2>2. jcrashes = 0 => \A e \in Events, c \in J!Days : live'[e] + hist'[c][e] <= 1
    <3> SUFFICES ASSUME jcrashes = 0, NEW e \in Events, NEW c \in J!Days
                 PROVE  live'[e] + hist'[c][e] <= 1
      OBVIOUS
    <3>1. live[e] + hist[c][e] <= 1
      BY <1>i DEF Unread
    <3>2. e \in Wr => live[e] = 0 /\ hist[c][e] = 0
      BY <1>4, <2>1 DEF Reads
    <3> QED BY <1>4, <1>5, <3>1, <3>2
  <2>3. ~(app.phase = "append") => app.phase = "backfill" /\ app.events \cap Wr = {}
    BY <1>i, <1>3 DEF Unread, Pending, JournalTyped
  <2>4. ~(app'.phase = "append" /\ app'.pc \in {"write", "journal"}) =>
           \A e \in app'.events : ~Reads(e)'
    BY <1>i, <1>1, <1>6, <2>3 DEF Unread, JournalTyped
  <2>5. app'.phase = "append" => \A e \in app'.today \cup app'.past : ~Reads(e)'
    BY <1>i, <1>1, <1>3, <1>6 DEF Unread, Pending
  <2>6. jcrashes = 0 /\ app.phase = "backfill" => \A e \in Events : Reads(e)' =>
          e \in app'.done \/ e \in J!NextBatch \ (app'.today \cup app'.past)
    BY <1>i, <1>1, <1>3, <1>6 DEF Unread
  <2>7. app.phase # "ensure"
    BY <1>i DEF Pending
  <2>8. app'.events \cap ops' = {}
    BY <1>i, <1>1 DEF Unread
  <2> QED BY <1>1, <1>2, <2>2, <2>4, <2>5, <2>6, <2>7, <2>8 DEF Unread
<1> QED BY <1>7, <1>8, <1>9, <1>10, <1>11 DEF JournalInv

LEMMA WriteStep ==
  ASSUME JournalInv, J!WriteLines
  PROVE  JournalInv'
<1>i. JournalTyped /\ Dated /\ Pending /\ Readable /\ Unread
  BY DEF JournalInv
<1>1. UNCHANGED <<day, date, ops, liveDay, receipt, jcrashes>> /\ app.pc = "write"
  BY DEF J!WriteLines
<1>2. CASE app.today # {} /\ live' = J!Plus(live, app.today) /\ app' = [app EXCEPT !.today = {}]
           /\ hist' = hist
  <2>1. PICK Wr : Wr = app.today
    OBVIOUS
  <2>2. app.past \ Wr = app.past /\ app.today \ Wr = {}
    BY <1>i, <1>1, <2>1 DEF Pending
  <2>3. app' = [app EXCEPT !.today = @ \ Wr, !.past = @ \ Wr]
    BY <1>i, <1>2, <2>2 DEF JournalTyped
  <2> QED BY <1>1, <1>2, <2>1, <2>3, LinesWritten
<1>3. CASE /\ \E d \in {date[e] : e \in app.past} :
                LET Wr == {e \in app.past : date[e] = d}
                IN /\ hist' = [hist EXCEPT ![d] = J!Plus(@, Wr)]
                   /\ app' = [app EXCEPT !.past = @ \ Wr]
           /\ live' = live
  <2>1. PICK d \in {date[e] : e \in app.past} :
                LET Wr == {e \in app.past : date[e] = d}
                IN /\ hist' = [hist EXCEPT ![d] = J!Plus(@, Wr)]
                   /\ app' = [app EXCEPT !.past = @ \ Wr]
    BY <1>3
  <2>2. PICK Wr : Wr = {e \in app.past : date[e] = d}
    OBVIOUS
  <2>3. d \in J!Days
    <3>1. \A e \in app.past : e \in Events /\ date[e] # 0 /\ date[e] \in 0..LastDay
      BY <1>i, <1>1 DEF Pending, Dated, JournalTyped, J!Projected, J!NextBatch
    <3> QED BY <2>1, <3>1, JournalAssumption DEF J!Days
  <2>4. app.today \ Wr = app.today
    BY <1>i, <1>1, <2>2 DEF Pending
  <2>5. app' = [app EXCEPT !.today = @ \ Wr, !.past = @ \ Wr]
    BY <1>i, <2>1, <2>2, <2>4 DEF JournalTyped
  <2>6. /\ Wr \subseteq app.today \cup app.past /\ \A e \in Wr : date[e] = d
        /\ hist' = [hist EXCEPT ![d] = J!Plus(hist[d], Wr)]
    BY <2>1, <2>2
  <2> QED BY <1>1, <1>3, <2>3, <2>5, <2>6, LinesWritten
<1>4. CASE /\ app.today = {} /\ app.past = {} /\ live' = live /\ hist' = hist
           /\ app' = IF app.phase = "append" THEN [app EXCEPT !.pc = "journal"]
                     ELSE [app EXCEPT !.pc = "batch", !.done = @ \cup J!NextBatch]
  <2>1. /\ app'.pc = IF app.phase = "append" THEN "journal" ELSE "batch"
        /\ app'.phase = app.phase /\ app'.day = app.day /\ app'.events = app.events
        /\ app'.done = IF app.phase = "append" THEN app.done ELSE app.done \cup J!NextBatch
        /\ app' = [pc |-> app'.pc, phase |-> app'.phase, done |-> app'.done,
                   events |-> app.events, today |-> app'.today, past |-> app'.past,
                   day |-> app.day]
    BY <1>i, <1>4 DEF JournalTyped
  <2>2. J!NextBatch \subseteq ops
    BY DEF J!NextBatch
  <2>3. (\A e \in Events : Reads(e)' <=> Reads(e)) /\ JournalTyped'
    BY <1>i, <1>1, <1>4, <2>1, <2>2, AppendGoesOn DEF JournalTyped
  <2>4. Dated' /\ Pending'
    BY <1>i, <1>1, <1>4, <2>1 DEF Dated, Pending, JournalTyped
  <2>5. Readable'
    <3>1. \A e \in J!Projected : Reads(e)
      BY <1>i, <1>1, <1>4 DEF Readable
    <3> QED BY <1>i, <1>1, <1>4, <2>1, <2>2, <2>3, <3>1 DEF Readable, Pending, JournalTyped, J!Projected
  <2>6. Unread'
    BY <1>i, <1>1, <1>4, <2>1, <2>2, <2>3 DEF Unread, Pending, JournalTyped
  <2> QED BY <2>3, <2>4, <2>5, <2>6 DEF JournalInv
<1> QED BY <1>1, <1>2, <1>3, <1>4 DEF J!WriteLines

LEMMA EndStep ==
  ASSUME JournalInv, J!WriteReceipt \/ J!WriteJournal \/ J!JCrash
  PROVE  JournalInv'
<1>i. JournalTyped /\ Dated /\ Pending /\ Readable /\ Unread
  BY DEF JournalInv
<1>1. UNCHANGED <<day, date, live, liveDay, hist>>
  BY DEF J!WriteReceipt, J!WriteJournal, J!JCrash
<1>2. \A e \in Events : Reads(e)' <=> Reads(e)
  BY <1>1 DEF Reads
<1>3. CASE J!WriteReceipt
  <2>1. app.pc = "receipt" /\ receipt' = TRUE /\ ops' = ops /\ jcrashes' = jcrashes
        /\ app.phase = "backfill"
    BY <1>i, <1>3 DEF J!WriteReceipt, Pending
  <2>2. /\ app'.pc = "rotate" /\ app'.phase = "append" /\ app'.day = app.day
        /\ app'.done = app.done /\ app'.events = app.events
        /\ app' = [pc |-> app'.pc, phase |-> app'.phase, done |-> app'.done,
                   events |-> app'.events, today |-> app'.today, past |-> app'.past,
                   day |-> app'.day]
    BY <1>i, <1>3 DEF J!WriteReceipt, JournalTyped
  <2>3. JournalTyped' /\ Dated' /\ Pending'
    BY <1>i, <1>1, <2>1, <2>2 DEF JournalTyped, Dated, Pending
  <2>4. Readable' /\ Unread'
    BY <1>i, <1>1, <1>2, <2>1, <2>2 DEF JournalTyped, Readable, Unread
  <2> QED BY <2>3, <2>4 DEF JournalInv
<1>4. CASE J!WriteJournal
  <2>1. app.pc = "journal" /\ ops' = ops \cup app.events /\ app' = J!NoAppend
        /\ receipt' = receipt /\ jcrashes' = jcrashes /\ app.phase = "append" /\ receipt
    BY <1>i, <1>4 DEF J!WriteJournal, Pending
  <2>2. JournalTyped'
    <3>1. LastDay \in Nat /\ day \in Nat
      BY <1>i, JournalAssumption DEF JournalTyped, J!Days
    <3> QED BY <1>i, <1>1, <2>1, <3>1 DEF JournalTyped, J!NoAppend
  <2>3. Dated' /\ Pending'
    BY <1>i, <1>1, <2>1 DEF Dated, Pending, J!NoAppend
  <2>4. Readable' /\ Unread'
    BY <1>i, <1>1, <1>2, <2>1 DEF JournalTyped, Readable, Unread, J!NoAppend
  <2> QED BY <2>2, <2>3, <2>4 DEF JournalInv
<1>5. CASE J!JCrash
  <2>1. app' = J!NoAppend /\ jcrashes' = jcrashes + 1 /\ ops' = ops /\ receipt' = receipt
        /\ jcrashes \in Nat
    BY <1>i, <1>5 DEF J!JCrash, JournalTyped
  <2>2. JournalTyped'
    <3>1. LastDay \in Nat /\ day \in Nat
      BY <1>i, JournalAssumption DEF JournalTyped, J!Days
    <3> QED BY <1>i, <1>1, <2>1, <3>1 DEF JournalTyped, J!NoAppend
  <2>3. Dated' /\ Pending'
    BY <1>i, <1>1, <2>1 DEF Dated, Pending, J!NoAppend
  <2>4. Readable' /\ Unread'
    BY <1>i, <1>1, <1>2, <2>1 DEF Readable, Unread, JournalTyped, J!NoAppend
  <2> QED BY <2>2, <2>3, <2>4 DEF JournalInv
<1> QED BY <1>3, <1>4, <1>5

LEMMA JournalStep == JournalInv /\ [J!JNext]_journalVars => JournalInv'
<1> SUFFICES ASSUME JournalInv, [J!JNext]_journalVars PROVE JournalInv'
  OBVIOUS
<1>1. CASE UNCHANGED journalVars
  <2>1. UNCHANGED <<day, date, ops, live, liveDay, hist, receipt, app, jcrashes>>
    BY <1>1 DEF journalVars
  <2>2. J!NextBatch' = J!NextBatch /\ J!Projected' = J!Projected /\ \A e : Reads(e)' <=> Reads(e)
    BY <2>1 DEF J!NextBatch, J!Projected, Reads
  <2> QED BY <2>1, <2>2 DEF JournalInv, JournalTyped, Dated, Pending, Readable, Unread
<1>2. CASE J!JNext
  BY <1>2, BeginStep, RotateStep, StampStep, GroupStep, WriteStep, EndStep DEF J!JNext
<1> QED BY <1>1, <1>2

LEMMA JournalTold ==
  JournalInv => J!AllProjected /\ J!RightDay /\ J!ProjectedOnce
<1> SUFFICES ASSUME JournalInv PROVE J!AllProjected /\ J!RightDay /\ J!ProjectedOnce
  OBVIOUS
<1>1. J!AllProjected
  BY DEF JournalInv, Readable, Reads, J!AllProjected
<1>2. J!RightDay
  BY DEF JournalInv, Dated, J!RightDay
<1>3. J!ProjectedOnce
  BY DEF JournalInv, Unread, J!ProjectedOnce
<1> QED BY <1>1, <1>2, <1>3

-----------------------------------------------------------------------------
(* Evidence.                                                               *)

ItemsIn(items) == {items[i] : i \in 1..Len(items)}
Took(items, line) ==
  IF ~line.whole \/ line.key \in E!KeysOf(items) THEN items ELSE Append(items, line.item)

(* f[n] is what the stored outputs show with the first n lines.            *)
Projects(f, stored, lines) ==
  f = [n \in 0..Len(lines) |-> IF n = 0 THEN stored ELSE Took(f[n - 1], lines[n])]

LEMMA TookItems ==
  ASSUME NEW items \in Seq(E!Items), NEW line \in E!Lines
  PROVE  /\ Took(items, line) \in Seq(E!Items)
         /\ E!KeysOf(items) = {x.key : x \in ItemsIn(items)}
         /\ ItemsIn(Took(items, line)) =
              IF ~line.whole \/ line.key \in E!KeysOf(items) THEN ItemsIn(items)
              ELSE ItemsIn(items) \cup {line.item}
<1>1. line.item \in E!Items /\ Len(items) \in Nat
  BY DEF E!Lines
<1>2. E!KeysOf(items) = {x.key : x \in ItemsIn(items)}
  BY DEF E!KeysOf, ItemsIn
<1>3. CASE ~line.whole \/ line.key \in E!KeysOf(items)
  BY <1>2, <1>3 DEF Took
<1>4. CASE ~(~line.whole \/ line.key \in E!KeysOf(items))
  <2> DEFINE more == Append(items, line.item)
  <2>1. Took(items, line) = more
    BY <1>4 DEF Took
  <2>2. /\ more \in Seq(E!Items) /\ Len(more) = Len(items) + 1
        /\ \A i \in 1..Len(items) : more[i] = items[i]
        /\ more[Len(items) + 1] = line.item
    BY <1>1
  <2> HIDE DEF more
  <2>3. ItemsIn(more) = ItemsIn(items) \cup {line.item}
    <3>1. \A i \in 1..Len(more) : i \in 1..Len(items) \/ i = Len(items) + 1
      BY <1>1, <2>2
    <3>2. 1..Len(items) \subseteq 1..Len(more) /\ Len(items) + 1 \in 1..Len(more)
      BY <1>1, <2>2
    <3> QED BY <2>2, <3>1, <3>2 DEF ItemsIn
  <2> QED BY <1>2, <1>4, <2>1, <2>2, <2>3
<1> QED BY <1>3, <1>4

LEMMA ProjectionExists ==
  ASSUME NEW stored, NEW lines, Len(lines) \in Nat
  PROVE  \E f : Projects(f, stored, lines)
<1> DEFINE Upto(f, n) == f = [m \in 0..n |-> IF m = 0 THEN stored ELSE Took(f[m - 1], lines[m])]
           Good == {n \in 0..Len(lines) : \E f : Upto(f, n)}
<1>1. 0 \in Good
  <2> DEFINE f == [m \in 0..0 |-> stored]
  <2>1. f = [m \in 0..0 |-> IF m = 0 THEN stored ELSE Took(f[m - 1], lines[m])]
    <3>1. \A m \in 0..0 : m = 0
      OBVIOUS
    <3> HIDE DEF f
    <3>2. \A m \in 0..0 : stored = IF m = 0 THEN stored ELSE Took(f[m - 1], lines[m])
      BY <3>1
    <3> USE DEF f
    <3> QED BY <3>2, Zenon
  <2>2. Upto(f, 0)
    BY <2>1, Zenon
  <2> HIDE DEF f, Upto
  <2>3. 0 \in 0..Len(lines) /\ \E h : Upto(h, 0)
    BY <2>2
  <2> QED BY <2>3
<1>2. ASSUME NEW n \in 1..Len(lines), n - 1 \in Good PROVE n \in Good
  <2>1. PICK g : Upto(g, n - 1)
    BY <1>2
  <2> DEFINE f == [m \in 0..n |-> IF m = n THEN Took(g[n - 1], lines[n]) ELSE g[m]]
  <2>2. \A m \in 0..n : m # 0 => m - 1 \in 0..(n - 1) /\ f[m - 1] = g[m - 1]
    OBVIOUS
  <2>3. \A m \in 0..n : f[m] = IF m = 0 THEN stored ELSE Took(f[m - 1], lines[m])
    <3> TAKE m \in 0..n
    <3>1. CASE m = n
      BY <2>2, <3>1
    <3>2. CASE m # n
      <4>1. m \in 0..(n - 1) /\ f[m] = g[m]
        BY <3>2
      <4>2. g[m] = IF m = 0 THEN stored ELSE Took(g[m - 1], lines[m])
        BY <2>1, <4>1
      <4> HIDE DEF f
      <4> QED BY <2>2, <4>1, <4>2
    <3> QED BY <3>1, <3>2
  <2>4. DOMAIN f = 0..n /\ f = [m \in 0..n |-> f[m]]
    OBVIOUS
  <2> HIDE DEF f
  <2>5. Upto(f, n)
    BY <2>3, <2>4
  <2> QED BY <2>5
<1> HIDE DEF Good
<1>3. \A n \in 0..Len(lines) : n \in Good
  BY <1>1, <1>2, Upwards
<1>4. \E f : Upto(f, Len(lines))
  BY <1>3 DEF Good
<1> QED BY <1>4 DEF Projects

LEMMA ShownProjects ==
  Len(journal) \in Nat =>
    \E f : Projects(f, outputs, journal) /\ E!Shown = f[Len(journal)]
<1> SUFFICES ASSUME Len(journal) \in Nat
             PROVE  \E f : Projects(f, outputs, journal) /\ E!Shown = f[Len(journal)]
  OBVIOUS
<1> DEFINE g == CHOOSE f : Projects(f, outputs, journal)
<1>1. \E f : Projects(f, outputs, journal)
  BY ProjectionExists
<1>2. Projects(g, outputs, journal)
  BY <1>1
<1>3. E!Shown = g[Len(journal)]
  BY DEF E!Shown, Projects, Took
<1> QED BY <1>2, <1>3

LEMMA ShownProjectsNext ==
  (Len(journal) \in Nat =>
     \E f : Projects(f, outputs, journal) /\ E!Shown = f[Len(journal)])'
BY ShownProjects, PTL

LEMMA ProjectionSteps ==
  ASSUME NEW stored, NEW lines, NEW f, Len(lines) \in Nat, Projects(f, stored, lines)
  PROVE  f[0] = stored /\ \A n \in 1..Len(lines) : f[n] = Took(f[n - 1], lines[n])
<1> DEFINE Next(n) == IF n = 0 THEN stored ELSE Took(f[n - 1], lines[n])
<1>1. f = [n \in 0..Len(lines) |-> Next(n)]
  BY Zenon DEF Projects
<1> HIDE DEF Next
<1>2. \A n \in 0..Len(lines) : f[n] = Next(n)
  BY <1>1
<1> USE DEF Next
<1>3. \A n \in 0..Len(lines) : f[n] = IF n = 0 THEN stored ELSE Took(f[n - 1], lines[n])
  BY <1>2
<1> QED BY <1>3

(* Items are only added.                                                   *)
LEMMA ProjectionGrows ==
  ASSUME NEW stored \in Seq(E!Items), NEW lines \in Seq(E!Lines), NEW f,
         Projects(f, stored, lines)
  PROVE  \A n \in 0..Len(lines) :
           /\ f[n] \in Seq(E!Items)
           /\ \A m \in 0..n : ItemsIn(f[m]) \subseteq ItemsIn(f[n])
<1>0. Len(lines) \in Nat /\ f[0] = stored
      /\ \A n \in 1..Len(lines) : f[n] = Took(f[n - 1], lines[n]) /\ lines[n] \in E!Lines
  BY ProjectionSteps
<1> DEFINE Good == {n \in 0..Len(lines) :
                   /\ f[n] \in Seq(E!Items)
                   /\ \A m \in 0..n : ItemsIn(f[m]) \subseteq ItemsIn(f[n])}
<1>1. 0 \in Good
  BY <1>0
<1>2. ASSUME NEW n \in 1..Len(lines), n - 1 \in Good PROVE n \in Good
  <2>1. f[n - 1] \in Seq(E!Items) /\ f[n] = Took(f[n - 1], lines[n]) /\ lines[n] \in E!Lines
    BY <1>0, <1>2
  <2>2. f[n] \in Seq(E!Items) /\ ItemsIn(f[n - 1]) \subseteq ItemsIn(f[n])
    <3>1. PICK items, line : items = f[n - 1] /\ line = lines[n]
      OBVIOUS
    <3>2. items \in Seq(E!Items) /\ line \in E!Lines /\ f[n] = Took(items, line)
      BY <2>1, <3>1
    <3>3. /\ Took(items, line) \in Seq(E!Items)
          /\ \/ ItemsIn(Took(items, line)) = ItemsIn(items)
             \/ ItemsIn(Took(items, line)) = ItemsIn(items) \cup {line.item}
      BY <3>2, TookItems
    <3> QED BY <3>1, <3>2, <3>3
  <2>3. \A m \in 0..n : m = n \/ m \in 0..(n - 1)
    OBVIOUS
  <2> QED BY <1>2, <2>2, <2>3
<1> HIDE DEF Good
<1>3. \A n \in 0..Len(lines) : n \in Good
  BY <1>0, <1>1, <1>2, Upwards
<1> QED BY <1>3 DEF Good

(* What the first lines show depends on no others.                         *)
LEMMA ProjectionAgrees ==
  ASSUME NEW stored, NEW lines, NEW longer, Len(lines) \in Nat, Len(longer) \in Nat,
         Len(lines) <= Len(longer), \A n \in 1..Len(lines) : longer[n] = lines[n],
         NEW f, NEW g, Projects(f, stored, lines), Projects(g, stored, longer)
  PROVE  \A n \in 0..Len(lines) : g[n] = f[n]
<1>0. /\ f[0] = stored /\ g[0] = stored
      /\ \A n \in 1..Len(lines) : f[n] = Took(f[n - 1], lines[n]) /\ g[n] = Took(g[n - 1], lines[n])
  <2>1. f[0] = stored /\ \A n \in 1..Len(lines) : f[n] = Took(f[n - 1], lines[n])
    BY ProjectionSteps
  <2>2. g[0] = stored /\ \A n \in 1..Len(longer) : g[n] = Took(g[n - 1], longer[n])
    BY ProjectionSteps
  <2> QED BY <2>1, <2>2
<1> DEFINE Good == {n \in 0..Len(lines) : g[n] = f[n]}
<1>1. 0 \in Good
  BY <1>0
<1>2. ASSUME NEW n \in 1..Len(lines), n - 1 \in Good PROVE n \in Good
  BY <1>0, <1>2
<1> HIDE DEF Good
<1>3. \A n \in 0..Len(lines) : n \in Good
  BY <1>1, <1>2, Upwards
<1> QED BY <1>3 DEF Good

OneEach(items) == \A i, j \in 1..Len(items) : items[i].key = items[j].key => i = j

(* A key that is taken is not taken again, where lines name their items.   *)
LEMMA ProjectionOneEach ==
  ASSUME NEW stored \in Seq(E!Items), NEW lines \in Seq(E!Lines), NEW f,
         Projects(f, stored, lines), OneEach(stored),
         \A n \in 1..Len(lines) : lines[n].key = lines[n].item.key
  PROVE  \A n \in 0..Len(lines) : OneEach(f[n])
<1>0. Len(lines) \in Nat /\ f[0] = stored
      /\ \A n \in 1..Len(lines) : f[n] = Took(f[n - 1], lines[n]) /\ lines[n] \in E!Lines
  BY ProjectionSteps
<1> DEFINE Good == {n \in 0..Len(lines) : OneEach(f[n])}
<1>1. 0 \in Good
  BY <1>0
<1>2. ASSUME NEW n \in 1..Len(lines), n - 1 \in Good PROVE n \in Good
  <2> DEFINE items == f[n - 1]
             line == lines[n]
  <2>1. /\ items \in Seq(E!Items) /\ f[n] = Took(items, line) /\ line \in E!Lines
        /\ OneEach(items) /\ line.key = line.item.key
    BY <1>0, <1>2, ProjectionGrows
  <2> HIDE DEF items, line
  <2>2. CASE ~line.whole \/ line.key \in E!KeysOf(items)
    BY <2>1, <2>2 DEF Took
  <2>3. CASE ~(~line.whole \/ line.key \in E!KeysOf(items))
    <3>1. f[n] = Append(items, line.item)
      BY <2>1, <2>3 DEF Took
    <3>2. /\ Len(items) \in Nat /\ Len(f[n]) = Len(items) + 1
          /\ \A i \in 1..Len(items) : f[n][i] = items[i]
          /\ f[n][Len(items) + 1] = line.item
      BY <2>1, <3>1 DEF E!Lines
    <3>3. \A i \in 1..Len(items) : items[i].key # line.item.key
      BY <2>1, <2>3 DEF E!KeysOf
    <3>4. \A i \in 1..Len(f[n]) : i \in 1..Len(items) \/ i = Len(items) + 1
      BY <3>2
    <3>5. OneEach(f[n])
      BY <2>1, <3>2, <3>3, <3>4 DEF OneEach
    <3> QED BY <3>5
  <2> QED BY <2>2, <2>3
<1> HIDE DEF Good
<1>3. \A n \in 0..Len(lines) : n \in Good
  BY <1>0, <1>1, <1>2, Upwards
<1> QED BY <1>3 DEF Good

(* Outputs that were seen with the first k lines and are stored later show *)
(* the same items again.                                                   *)
LEMMA ProjectionRestored ==
  ASSUME NEW stored \in Seq(E!Items), NEW lines \in Seq(E!Lines), NEW f, NEW g,
         NEW k \in 0..Len(lines), Projects(f, stored, lines), Projects(g, f[k], lines)
  PROVE  ItemsIn(g[Len(lines)]) = ItemsIn(f[Len(lines)])
<1>0. /\ Len(lines) \in Nat /\ g[0] = f[k]
      /\ \A n \in 1..Len(lines) : /\ f[n] = Took(f[n - 1], lines[n]) /\ lines[n] \in E!Lines
                                  /\ g[n] = Took(g[n - 1], lines[n])
  <2>1. \A n \in 1..Len(lines) : f[n] = Took(f[n - 1], lines[n]) /\ lines[n] \in E!Lines
    BY ProjectionSteps
  <2>2. g[0] = f[k] /\ \A n \in 1..Len(lines) : g[n] = Took(g[n - 1], lines[n])
    BY ProjectionSteps
  <2> QED BY <2>1, <2>2
<1>f. \A n \in 0..Len(lines) : /\ f[n] \in Seq(E!Items)
                               /\ \A m \in 0..n : ItemsIn(f[m]) \subseteq ItemsIn(f[n])
  BY ProjectionGrows
<1>g. \A n \in 0..Len(lines) : g[n] \in Seq(E!Items)
  <2>1. f[k] \in Seq(E!Items)
    BY <1>f
  <2> QED BY <2>1, ProjectionGrows
<1> DEFINE Late(n) == IF n <= k THEN k ELSE n
           Good == {n \in 0..Len(lines) : ItemsIn(g[n]) = ItemsIn(f[Late(n)])}
<1>1. 0 \in Good
  BY <1>0
<1>2. ASSUME NEW n \in 1..Len(lines), n - 1 \in Good PROVE n \in Good
  <2> DEFINE line == lines[n]
  <2>1. /\ f[n] = Took(f[n - 1], line) /\ g[n] = Took(g[n - 1], line) /\ line \in E!Lines
        /\ f[n - 1] \in Seq(E!Items) /\ g[n - 1] \in Seq(E!Items) /\ n - 1 \in 0..Len(lines)
        /\ ItemsIn(g[n - 1]) = ItemsIn(f[Late(n - 1)])
    BY <1>0, <1>f, <1>g, <1>2
  <2> HIDE DEF line
  <2>2. /\ ItemsIn(f[n]) = IF ~line.whole \/ line.key \in {x.key : x \in ItemsIn(f[n - 1])}
                           THEN ItemsIn(f[n - 1]) ELSE ItemsIn(f[n - 1]) \cup {line.item}
        /\ ItemsIn(g[n]) = IF ~line.whole \/ line.key \in {x.key : x \in ItemsIn(g[n - 1])}
                           THEN ItemsIn(g[n - 1]) ELSE ItemsIn(g[n - 1]) \cup {line.item}
    BY <2>1, TookItems
  <2>3. CASE n > k
    <3>1. Late(n) = n /\ ItemsIn(g[n - 1]) = ItemsIn(f[n - 1])
      BY <2>1, <2>3
    <3> HIDE DEF Late
    <3> QED BY <2>2, <3>1
  <2>4. CASE n <= k
    <3>1. Late(n) = k /\ Late(n - 1) = k /\ n \in 0..k /\ n - 1 \in 0..k
      BY <2>4
    <3>2. ItemsIn(f[n - 1]) \subseteq ItemsIn(f[k]) /\ ItemsIn(f[n]) \subseteq ItemsIn(f[k])
      BY <1>f, <3>1
    <3> HIDE DEF Late
    <3>3. ItemsIn(g[n]) = ItemsIn(f[k])
      BY <2>1, <2>2, <3>1, <3>2
    <3> QED BY <3>1, <3>3
  <2> QED BY <2>3, <2>4
<1> HIDE DEF Good
<1>3. \A n \in 0..Len(lines) : n \in Good
  BY <1>0, <1>1, <1>2, Upwards
<1>4. Len(lines) \in Good /\ Late(Len(lines)) = Len(lines)
  BY <1>0, <1>3
<1> HIDE DEF Late
<1> QED BY <1>4 DEF Good

Calls == [pc : {"append", "log"}, key : Keys, item : E!Items]

EvidenceTyped ==
  /\ outputs \in Seq(E!Items) /\ journal \in Seq(E!Lines) /\ torn \in BOOLEAN
  /\ call \in [Callers -> Calls \cup {E!NoCall}]
  /\ recorded \subseteq [key : Keys, item : E!Items]
  /\ \A c \in Callers : call[c] # E!NoCall => elock = c
  /\ torn => Len(journal) > 0 /\ ~journal[Len(journal)].whole

(* The writer holds what the first lines showed.                           *)
SeenOnce ==
  writer.pc = "write" =>
    \E f, k : /\ Projects(f, outputs, journal) /\ k \in 0..Len(journal)
              /\ writer.seen = f[k]

(* An append goes on under a key nobody took; what it has written can be   *)
(* read unless a torn line swallowed it.                                   *)
CallsGoOn == \A c \in Callers :
  /\ call[c].pc = "append" => call[c].key \notin E!KeysOf(E!Shown)
  /\ call[c].pc = "log" => E!Swallowed \/ call[c].item \in ItemsIn(E!Shown)

StaysRead == ~E!Swallowed => \A r \in recorded : r.item \in ItemsIn(E!Shown)

EvidenceInv == /\ EvidenceTyped /\ SeenOnce /\ CallsGoOn /\ StaysRead
               /\ ~E!Foreign => OneEach(outputs)

LEMMA EvidenceStarts == E!EInit => EvidenceInv
<1> SUFFICES ASSUME E!EInit PROVE EvidenceInv
  OBVIOUS
<1>1. /\ outputs = <<>> /\ journal = <<>> /\ torn = FALSE
      /\ call = [c \in Callers |-> E!NoCall]
      /\ elock = "" /\ writer = E!NoWriter /\ recorded = {}
  BY DEF E!EInit
<1>2. EvidenceTyped /\ OneEach(outputs)
  <2>1. outputs \in Seq(E!Items) /\ journal \in Seq(E!Lines) /\ Len(outputs) = 0
    BY <1>1, EmptySeq
  <2>2. call \in [Callers -> Calls \cup {E!NoCall}] /\ \A c \in Callers : call[c] = E!NoCall
    BY <1>1
  <2>3. OneEach(outputs)
    BY <2>1 DEF OneEach
  <2> QED BY <1>1, <2>1, <2>2, <2>3 DEF EvidenceTyped
<1>3. SeenOnce /\ CallsGoOn /\ StaysRead
  BY <1>1 DEF SeenOnce, CallsGoOn, StaysRead, E!NoCall, E!NoWriter
<1> QED BY <1>2, <1>3 DEF EvidenceInv

LEMMA ShownTyped ==
  EvidenceTyped => /\ E!Shown \in Seq(E!Items) /\ Len(journal) \in Nat
                   /\ E!KeysOf(E!Shown) = {x.key : x \in ItemsIn(E!Shown)}
<1> SUFFICES ASSUME EvidenceTyped
             PROVE  /\ E!Shown \in Seq(E!Items) /\ Len(journal) \in Nat
                    /\ E!KeysOf(E!Shown) = {x.key : x \in ItemsIn(E!Shown)}
  OBVIOUS
<1>1. outputs \in Seq(E!Items) /\ journal \in Seq(E!Lines) /\ Len(journal) \in Nat
  BY DEF EvidenceTyped
<1>2. PICK f : Projects(f, outputs, journal) /\ E!Shown = f[Len(journal)]
  BY <1>1, ShownProjects
<1>3. Len(journal) \in 0..Len(journal)
  BY <1>1
<1>4. PICK o, j : o = outputs /\ j = journal
  OBVIOUS
<1>5. f[Len(j)] \in Seq(E!Items)
  BY <1>1, <1>2, <1>3, <1>4, ProjectionGrows
<1> QED BY <1>1, <1>2, <1>4, <1>5 DEF E!KeysOf, ItemsIn

(* One more line shows its item unless its key is taken.                   *)
LEMMA AppendShows ==
  ASSUME EvidenceTyped, NEW line \in E!Lines, outputs' = outputs,
         journal' = Append(journal, line)
  PROVE  /\ E!Shown' = Took(E!Shown, line)
         /\ SeenOnce /\ writer' = writer => SeenOnce'
<1>1. journal \in Seq(E!Lines) /\ Len(journal) \in Nat
  BY DEF EvidenceTyped
<1>2. /\ journal' \in Seq(E!Lines) /\ Len(journal') = Len(journal) + 1
      /\ \A n \in 1..Len(journal) : journal'[n] = journal[n]
      /\ journal'[Len(journal) + 1] = line
  BY <1>1
<1>3. (Len(journal) \in Nat =>
         \E f : Projects(f, outputs, journal) /\ E!Shown = f[Len(journal)])'
  BY ShownProjectsNext
<1>4. PICK g : Projects(g, outputs', journal') /\ E!Shown' = g[Len(journal')]
  BY <1>1, <1>2, <1>3
<1>5. PICK o, j, l : o = outputs /\ j = journal /\ l = journal'
  OBVIOUS
<1>6. ASSUME NEW f, Projects(f, outputs, journal)
      PROVE  \A n \in 0..Len(journal) : g[n] = f[n]
  <2>1. Projects(f, o, j) /\ Projects(g, o, l)
    BY <1>4, <1>5, <1>6
  <2>2. /\ Len(j) \in Nat /\ Len(l) \in Nat /\ Len(j) <= Len(l)
        /\ \A n \in 1..Len(j) : l[n] = j[n]
    BY <1>1, <1>2, <1>5
  <2>3. \A n \in 0..Len(j) : g[n] = f[n]
    BY <2>1, <2>2, ProjectionAgrees
  <2> QED BY <1>5, <2>3
<1>7. PICK f : Projects(f, outputs, journal) /\ E!Shown = f[Len(journal)]
  BY <1>1, ShownProjects
<1>8. E!Shown' = Took(E!Shown, line)
  <2>1. g[Len(l)] = Took(g[Len(l) - 1], l[Len(l)])
    <3>1. Len(l) \in Nat /\ Len(l) \in 1..Len(l) /\ Projects(g, o, l)
      BY <1>1, <1>2, <1>4, <1>5
    <3>2. \A n \in 1..Len(l) : g[n] = Took(g[n - 1], l[n])
      BY <3>1, ProjectionSteps
    <3> QED BY <3>1, <3>2
  <2>2. Len(l) - 1 = Len(journal) /\ Len(journal) \in 0..Len(journal)
    BY <1>1, <1>2, <1>5
  <2> QED BY <1>2, <1>4, <1>5, <1>6, <1>7, <2>1, <2>2
<1>9. SeenOnce /\ writer' = writer => SeenOnce'
  <2> SUFFICES ASSUME SeenOnce, writer' = writer, writer.pc = "write" PROVE SeenOnce'
    BY DEF SeenOnce
  <2>1. PICK h, k : /\ Projects(h, outputs, journal) /\ k \in 0..Len(journal)
                    /\ writer.seen = h[k]
    BY DEF SeenOnce
  <2>2. g[k] = h[k] /\ k \in 0..Len(journal')
    BY <1>1, <1>2, <1>6, <2>1
  <2> QED BY <1>4, <2>1, <2>2 DEF SeenOnce
<1> QED BY <1>8, <1>9

(* A call is answered: nothing that is shown changes.                      *)
LEMMA AnswerStep ==
  ASSUME EvidenceInv, NEW c \in Callers, NEW key \in Keys, NEW item \in E!Items,
         UNCHANGED <<outputs, journal, torn, writer>>, E!AnswersAs(c, key, item),
         elock = "" \/ elock = c, E!Swallowed \/ item \in ItemsIn(E!Shown)
  PROVE  EvidenceInv'
<1>i. EvidenceTyped /\ SeenOnce /\ CallsGoOn /\ StaysRead /\ (~E!Foreign => OneEach(outputs))
  BY DEF EvidenceInv
<1>1. E!Shown' = E!Shown /\ (E!Swallowed' <=> E!Swallowed)
  BY DEF E!Shown, E!Swallowed
<1>2. /\ call' = [call EXCEPT ![c] = E!NoCall] /\ elock' = ""
      /\ recorded' = recorded \cup {[key |-> key, item |-> item]}
  BY DEF E!AnswersAs
<1>3. EvidenceTyped'
  <2>1. \A d \in Callers : d # c => call[d] = E!NoCall
    BY <1>i, EvidenceAssumption DEF EvidenceTyped
  <2>2. call' \in [Callers -> Calls \cup {E!NoCall}] /\ \A d \in Callers : call'[d] = E!NoCall
    BY <1>i, <1>2, <2>1 DEF EvidenceTyped
  <2>3. recorded' \subseteq [key : Keys, item : E!Items]
    <3>1. [key |-> key, item |-> item] \in [key : Keys, item : E!Items]
      OBVIOUS
    <3> QED BY <1>i, <1>2, <3>1 DEF EvidenceTyped
  <2> QED BY <1>i, <2>2, <2>3 DEF EvidenceTyped
<1>4. SeenOnce'
  BY <1>i DEF SeenOnce
<1>5. CallsGoOn'
  BY <1>i, <1>1, <1>2 DEF CallsGoOn, EvidenceTyped, E!NoCall
<1>6. StaysRead'
  <2> SUFFICES ASSUME ~E!Swallowed, NEW r \in recorded' PROVE r.item \in ItemsIn(E!Shown)
    BY <1>1 DEF StaysRead, ItemsIn
  <2>1. r \in recorded \/ r = [key |-> key, item |-> item]
    BY <1>2
  <2>2. CASE r \in recorded
    BY <1>i, <2>2 DEF StaysRead
  <2>3. CASE r = [key |-> key, item |-> item]
    BY <2>3
  <2> QED BY <2>1, <2>2, <2>3
<1>7. E!Foreign => E!Foreign'
  BY <1>2 DEF E!Foreign
<1> QED BY <1>i, <1>3, <1>4, <1>5, <1>6, <1>7 DEF EvidenceInv

LEMMA CheckStep ==
  ASSUME EvidenceInv, NEW c \in Callers, E!LockAndCheck(c)
  PROVE  EvidenceInv'
<1>i. EvidenceTyped /\ SeenOnce /\ CallsGoOn /\ StaysRead /\ (~E!Foreign => OneEach(outputs))
  BY DEF EvidenceInv
<1>1. elock = "" /\ UNCHANGED <<outputs, journal, torn, writer>>
  BY DEF E!LockAndCheck
<1>2. PICK key \in Keys, item \in E!Items :
        \/ E!NewCall(c, key, item) /\ elock' = c
        \/ E!Repeated(c, key, item)
  BY DEF E!LockAndCheck, E!Items
<1>3. E!Found(key) # {} <=> key \in E!KeysOf(E!Shown)
  BY DEF E!Found, E!KeysOf
<1>4. CASE E!NewCall(c, key, item) /\ elock' = c
  <2>1. E!Shown' = E!Shown /\ (E!Swallowed' <=> E!Swallowed) /\ recorded' = recorded
        /\ call' = [call EXCEPT ![c] = [pc |-> "append", key |-> key, item |-> item]]
    BY <1>1, <1>4 DEF E!Shown, E!Swallowed, E!NewCall
  <2>2. EvidenceTyped'
    <3>1. \A d \in Callers : call[d] = E!NoCall
      BY <1>i, <1>1, EvidenceAssumption DEF EvidenceTyped
    <3> QED BY <1>i, <1>1, <1>4, <2>1, <3>1 DEF EvidenceTyped, Calls
  <2>3. key \notin E!KeysOf(E!Shown)
    BY <1>3, <1>4 DEF E!NewCall
  <2>4. CallsGoOn'
    <3>1. call'[c].pc = "append" /\ call'[c].key = key /\ \A d \in Callers : d # c => call'[d] = call[d]
      BY <1>i, <2>1 DEF EvidenceTyped
    <3> QED BY <1>i, <2>1, <2>3, <3>1 DEF CallsGoOn, E!KeysOf
  <2>5. SeenOnce' /\ (E!Foreign' <=> E!Foreign)
    BY <1>i, <1>1, <2>1 DEF SeenOnce, E!Foreign
  <2>6. StaysRead'
    BY <1>i, <2>1 DEF StaysRead, ItemsIn
  <2> QED BY <1>i, <1>1, <2>2, <2>4, <2>5, <2>6 DEF EvidenceInv
<1>5. CASE E!Repeated(c, key, item)
  <2>1. item \in ItemsIn(E!Shown)
    BY <1>5 DEF E!Repeated, E!Found, ItemsIn
  <2>2. E!AnswersAs(c, key, item)
    BY <1>5 DEF E!Repeated
  <2> QED BY <1>1, <2>1, <2>2, AnswerStep
<1> QED BY <1>2, <1>4, <1>5

(* A line is written behind a whole one, or swallowed by a torn one.       *)
LEMMA LineStep ==
  ASSUME EvidenceInv, NEW c \in Callers, E!AppendLine(c)
  PROVE  EvidenceInv'
<1>i. EvidenceTyped /\ SeenOnce /\ CallsGoOn /\ StaysRead /\ (~E!Foreign => OneEach(outputs))
  BY DEF EvidenceInv
<1>1. /\ call[c].pc = "append" /\ torn' = FALSE /\ UNCHANGED <<outputs, writer, recorded, elock>>
      /\ call' = [call EXCEPT ![c].pc = "log"]
      /\ journal' = IF torn THEN journal ELSE Append(journal, E!Line(call[c], TRUE))
  BY DEF E!AppendLine
<1>2. /\ call[c] \in Calls /\ elock = c /\ \A d \in Callers : d # c => call[d] = E!NoCall
      /\ call[c].key \in Keys /\ call[c].item \in E!Items
  BY <1>i, <1>1 DEF EvidenceTyped, E!NoCall, Calls
<1> DEFINE line == E!Line(call[c], TRUE)
<1>3. line \in E!Lines /\ line.whole /\ line.key = call[c].key /\ line.item = call[c].item
  BY <1>2 DEF E!Line, E!Lines
<1>4. /\ call' \in [Callers -> Calls \cup {E!NoCall}]
      /\ call'[c].pc = "log" /\ call'[c].item = call[c].item /\ call'[c] # E!NoCall
      /\ \A d \in Callers : d # c => call'[d] = E!NoCall
  BY <1>i, <1>1, <1>2 DEF EvidenceTyped, E!NoCall, Calls
<1>5. Len(journal) \in Nat /\ E!Shown \in Seq(E!Items)
      /\ E!KeysOf(E!Shown) = {x.key : x \in ItemsIn(E!Shown)}
  BY <1>i, ShownTyped
<1>6. EvidenceTyped'
  <2>1. journal' \in Seq(E!Lines)
    <3>1. journal \in Seq(E!Lines) /\ (journal' = journal \/ journal' = Append(journal, line))
      BY <1>i, <1>1 DEF EvidenceTyped
    <3> HIDE DEF line
    <3> QED BY <1>3, <3>1, AppendProperties
  <2> QED BY <1>i, <1>1, <1>2, <1>4, <2>1 DEF EvidenceTyped
<1>7. CASE torn
  <2>1. journal' = journal /\ E!Shown' = E!Shown
    BY <1>1, <1>7 DEF E!Shown
  <2>2. E!Swallowed'
    <3>1. Len(journal) \in 1..Len(journal) /\ ~journal[Len(journal)].whole
      BY <1>i, <1>5, <1>7 DEF EvidenceTyped
    <3> QED BY <1>1, <2>1, <3>1 DEF E!Swallowed
  <2>3. CallsGoOn' /\ StaysRead'
    BY <1>4, <2>2 DEF CallsGoOn, StaysRead, E!NoCall
  <2>4. SeenOnce' /\ (E!Foreign' <=> E!Foreign)
    BY <1>i, <1>1, <2>1 DEF SeenOnce, E!Foreign
  <2> QED BY <1>i, <1>1, <1>6, <2>3, <2>4 DEF EvidenceInv
<1>8. CASE ~torn
  <2>1. journal' = Append(journal, line)
    BY <1>1, <1>8
  <2> HIDE DEF line
  <2>2. PICK new : new = line
    OBVIOUS
  <2>3. E!Shown' = Took(E!Shown, new) /\ SeenOnce'
    BY <1>i, <1>1, <1>3, <2>1, <2>2, AppendShows
  <2>4. call[c].key \notin E!KeysOf(E!Shown)
    BY <1>i, <1>1 DEF CallsGoOn
  <2>5. ItemsIn(E!Shown)' = ItemsIn(E!Shown) \cup {call[c].item}
    <3>1. PICK items : items = E!Shown
      OBVIOUS
    <3>2. new \in E!Lines /\ items \in Seq(E!Items) /\ new.whole /\ new.key \notin E!KeysOf(items)
      BY <1>3, <1>5, <2>2, <2>4, <3>1 DEF E!KeysOf
    <3>3. ItemsIn(Took(items, new)) = ItemsIn(items) \cup {new.item}
      BY <3>2, TookItems
    <3>4. ItemsIn(E!Shown)' = ItemsIn(Took(items, new))
      BY <2>3, <3>1 DEF ItemsIn
    <3> QED BY <1>3, <2>2, <3>1, <3>3, <3>4
  <2>6. /\ Len(journal') = Len(journal) + 1
        /\ \A n \in 1..Len(journal) : n \in 1..Len(journal') /\ journal'[n] = journal[n]
    <3>1. journal \in Seq(E!Lines) /\ line \in E!Lines
      BY <1>i, <1>3 DEF EvidenceTyped
    <3> QED BY <1>5, <2>1, <3>1
  <2>7. E!Swallowed => E!Swallowed'
    BY <1>1, <1>8, <2>6 DEF E!Swallowed
  <2>8. E!Foreign => E!Foreign'
    BY <1>1, <2>6 DEF E!Foreign
  <2>9. CallsGoOn'
    BY <1>4, <2>5 DEF CallsGoOn, E!NoCall
  <2>10. StaysRead'
    BY <1>i, <1>1, <2>5, <2>7 DEF StaysRead
  <2> QED BY <1>i, <1>1, <1>6, <2>3, <2>8, <2>9, <2>10 DEF EvidenceInv
<1> QED BY <1>7, <1>8

LEMMA TearStep ==
  ASSUME EvidenceInv, NEW c \in Callers, E!TearLine(c)
  PROVE  EvidenceInv'
<1>i. EvidenceTyped /\ SeenOnce /\ CallsGoOn /\ StaysRead /\ (~E!Foreign => OneEach(outputs))
  BY DEF EvidenceInv
<1>1. /\ call[c].pc = "append" /\ ~torn /\ torn' = TRUE /\ UNCHANGED <<outputs, writer, recorded>>
      /\ call' = [call EXCEPT ![c] = E!NoCall] /\ elock' = ""
      /\ journal' = Append(journal, E!Line(call[c], FALSE))
  BY DEF E!TearLine
<1>2. /\ call[c] \in Calls /\ elock = c /\ \A d \in Callers : d # c => call[d] = E!NoCall
      /\ call[c].key \in Keys /\ call[c].item \in E!Items
  <2>0. call[c].pc = "append"
    BY <1>1
  <2>1. call[c] # E!NoCall
    BY <2>0 DEF E!NoCall
  <2>2. call[c] \in Calls /\ elock = c
    BY <1>i, <2>1 DEF EvidenceTyped
  <2>3. \A d \in Callers : d # c => call[d] = E!NoCall
    BY <1>i, <2>2 DEF EvidenceTyped
  <2>4. call[c].key \in Keys /\ call[c].item \in E!Items
    BY <2>2 DEF Calls
  <2> QED BY <2>2, <2>3, <2>4
<1>3. PICK new : new = E!Line(call[c], FALSE)
  OBVIOUS
<1>4. new \in E!Lines /\ ~new.whole
  BY <1>2, <1>3 DEF E!Line, E!Lines
<1>5. Len(journal) \in Nat /\ journal \in Seq(E!Lines)
  BY <1>i, ShownTyped DEF EvidenceTyped
<1>6. /\ journal' \in Seq(E!Lines) /\ Len(journal') = Len(journal) + 1
      /\ journal'[Len(journal) + 1] = new
      /\ \A n \in 1..Len(journal) : n \in 1..Len(journal') /\ journal'[n] = journal[n]
  <2>1. journal' = Append(journal, new)
    BY <1>1, <1>3
  <2> QED BY <1>4, <1>5, <2>1, AppendProperties
<1>7. EvidenceTyped'
  <2>1. call' \in [Callers -> Calls \cup {E!NoCall}] /\ \A d \in Callers : call'[d] = E!NoCall
    BY <1>i, <1>1, <1>2 DEF EvidenceTyped
  <2>2. Len(journal') > 0 /\ ~journal'[Len(journal')].whole
    BY <1>4, <1>5, <1>6
  <2> QED BY <1>i, <1>1, <1>6, <2>1, <2>2 DEF EvidenceTyped
<1>8. E!Shown' = Took(E!Shown, new) /\ SeenOnce'
  BY <1>i, <1>1, <1>3, <1>4, AppendShows
<1>9. E!Shown' = E!Shown
  BY <1>4, <1>8 DEF Took
<1>10. E!Swallowed => E!Swallowed'
  <2> SUFFICES ASSUME E!Swallowed PROVE E!Swallowed'
    OBVIOUS
  <2>1. PICK n \in 1..Len(journal) : ~journal[n].whole
    BY DEF E!Swallowed
  <2>2. n # Len(journal')
    BY <1>5, <1>6
  <2> QED BY <1>6, <2>1, <2>2 DEF E!Swallowed
<1>11. E!Foreign => E!Foreign'
  BY <1>1, <1>6 DEF E!Foreign
<1>12. CallsGoOn' /\ StaysRead'
  <2>1. \A d \in Callers : call'[d] = E!NoCall
    BY <1>i, <1>1, <1>2 DEF EvidenceTyped
  <2>2. CallsGoOn'
    BY <2>1 DEF CallsGoOn, E!NoCall
  <2>3. StaysRead'
    BY <1>i, <1>1, <1>9, <1>10 DEF StaysRead, ItemsIn
  <2> QED BY <2>2, <2>3
<1> QED BY <1>i, <1>1, <1>7, <1>8, <1>11, <1>12 DEF EvidenceInv

LEMMA AnsweredStep ==
  ASSUME EvidenceInv, NEW c \in Callers, E!LogAndAnswer(c) \/ E!DieAppending(c)
  PROVE  EvidenceInv'
<1>i. EvidenceTyped /\ SeenOnce /\ CallsGoOn /\ StaysRead /\ (~E!Foreign => OneEach(outputs))
  BY DEF EvidenceInv
<1>1. /\ call[c].pc # "idle" /\ UNCHANGED <<outputs, journal, torn, writer>>
  BY DEF E!LogAndAnswer, E!DieAppending
<1>2. call[c] \in Calls /\ elock = c /\ \A d \in Callers : d # c => call[d] = E!NoCall
  BY <1>i, <1>1 DEF EvidenceTyped, E!NoCall
<1>3. CASE E!LogAndAnswer(c)
  <2>1. PICK key, item : key = call[c].key /\ item = call[c].item
    OBVIOUS
  <2>2. key \in Keys /\ item \in E!Items /\ E!AnswersAs(c, key, item)
        /\ (E!Swallowed \/ item \in ItemsIn(E!Shown))
    BY <1>i, <1>2, <1>3, <2>1 DEF E!LogAndAnswer, Calls, CallsGoOn
  <2> QED BY <1>1, <1>2, <2>2, AnswerStep
<1>4. CASE E!DieAppending(c)
  <2>1. /\ call' = [call EXCEPT ![c] = E!NoCall] /\ elock' = "" /\ recorded' = recorded
    BY <1>4 DEF E!DieAppending
  <2>2. call' \in [Callers -> Calls \cup {E!NoCall}] /\ \A d \in Callers : call'[d] = E!NoCall
    BY <1>i, <1>2, <2>1 DEF EvidenceTyped
  <2>3. EvidenceTyped'
    BY <1>i, <1>1, <2>1, <2>2 DEF EvidenceTyped
  <2>c. CallsGoOn'
    BY <2>2 DEF CallsGoOn, E!NoCall
  <2>4. E!Shown' = E!Shown /\ (E!Swallowed' <=> E!Swallowed) /\ (E!Foreign' <=> E!Foreign)
    BY <1>1, <2>1 DEF E!Shown, E!Swallowed, E!Foreign
  <2>5. SeenOnce' /\ StaysRead'
    BY <1>i, <1>1, <2>1, <2>4 DEF SeenOnce, StaysRead, ItemsIn
  <2> QED BY <1>i, <1>1, <2>3, <2>c, <2>4, <2>5 DEF EvidenceInv
<1> QED BY <1>3, <1>4

(* A writer stores what it saw; the journal shows the rest on top of it.   *)
LEMMA WriterStep ==
  ASSUME EvidenceInv, E!ReadOutputs \/ E!StoreOutputs
  PROVE  EvidenceInv'
<1>i. EvidenceTyped /\ SeenOnce /\ CallsGoOn /\ StaysRead /\ (~E!Foreign => OneEach(outputs))
  BY DEF EvidenceInv
<1>1. UNCHANGED <<journal, torn, call, elock, recorded>>
  BY DEF E!ReadOutputs, E!StoreOutputs, E!StoreSeen
<1>2. (E!Swallowed' <=> E!Swallowed) /\ (E!Foreign' <=> E!Foreign)
  BY <1>1 DEF E!Swallowed, E!Foreign
<1>3. CASE E!ReadOutputs
  <2>1. outputs' = outputs /\ writer' = [pc |-> "write", seen |-> E!Shown]
    BY <1>3 DEF E!ReadOutputs
  <2>2. E!Shown' = E!Shown
    BY <1>1, <2>1 DEF E!Shown
  <2>3. EvidenceTyped' /\ CallsGoOn' /\ StaysRead'
    BY <1>i, <1>1, <1>2, <2>1, <2>2 DEF EvidenceTyped, CallsGoOn, StaysRead, ItemsIn, E!KeysOf
  <2>4. Len(journal) \in Nat
    BY <1>i, ShownTyped
  <2>5. PICK f : Projects(f, outputs, journal) /\ E!Shown = f[Len(journal)]
    BY <2>4, ShownProjects
  <2>6. SeenOnce'
    BY <1>1, <2>1, <2>4, <2>5 DEF SeenOnce
  <2> QED BY <1>i, <1>2, <2>1, <2>3, <2>6 DEF EvidenceInv
<1>4. CASE E!StoreOutputs
  <2>1. /\ writer.pc = "write" /\ elock = "" /\ outputs' = writer.seen /\ writer' = E!NoWriter
    BY <1>4 DEF E!StoreOutputs, E!StoreSeen
  <2>4. (Len(journal) \in Nat =>
           \E f : Projects(f, outputs, journal) /\ E!Shown = f[Len(journal)])'
    BY ShownProjectsNext
  <2>2. PICK f, k : /\ Projects(f, outputs, journal) /\ k \in 0..Len(journal)
                    /\ writer.seen = f[k]
    BY <1>i, <2>1 DEF SeenOnce
  <2>3. outputs \in Seq(E!Items) /\ journal \in Seq(E!Lines) /\ Len(journal) \in Nat
    BY <1>i, ShownTyped DEF EvidenceTyped
  <2>5. PICK g : Projects(g, outputs', journal') /\ E!Shown' = g[Len(journal')]
    BY <1>1, <2>3, <2>4
  <2>6. PICK h : Projects(h, outputs, journal) /\ E!Shown = h[Len(journal)]
    BY <2>3, ShownProjects
  <2>7. PICK o, j : o = outputs /\ j = journal
    OBVIOUS
  <2>8. o \in Seq(E!Items) /\ j \in Seq(E!Lines) /\ k \in 0..Len(j) /\ Len(j) \in 0..Len(j)
        /\ Projects(f, o, j) /\ Projects(h, o, j) /\ Projects(g, f[k], j)
        /\ E!Shown = h[Len(j)] /\ E!Shown' = g[Len(j)]
    <3>1. o \in Seq(E!Items) /\ j \in Seq(E!Lines) /\ k \in 0..Len(j) /\ Len(j) \in 0..Len(j)
      BY <2>2, <2>3, <2>7
    <3>2. Projects(f, o, j) /\ Projects(h, o, j) /\ E!Shown = h[Len(j)]
      BY <2>2, <2>6, <2>7
    <3>3. outputs' = f[k] /\ journal' = j
      BY <1>1, <2>1, <2>2, <2>7
    <3>4. Projects(g, f[k], j) /\ E!Shown' = g[Len(j)]
      BY <2>5, <3>3
    <3> QED BY <3>1, <3>2, <3>4
  <2>9. ItemsIn(E!Shown)' = ItemsIn(E!Shown)
    <3>1. ItemsIn(g[Len(j)]) = ItemsIn(f[Len(j)])
      BY <2>8, ProjectionRestored
    <3>2. \A n \in 0..Len(j) : h[n] = f[n]
      <4>1. Len(j) \in Nat /\ Len(j) <= Len(j) /\ \A n \in 1..Len(j) : j[n] = j[n]
        BY <2>3, <2>7
      <4> QED BY <2>8, <4>1, ProjectionAgrees
    <3>3. ItemsIn(E!Shown)' = ItemsIn(g[Len(j)]) /\ ItemsIn(E!Shown) = ItemsIn(f[Len(j)])
      BY <2>8, <3>2 DEF ItemsIn
    <3> QED BY <3>1, <3>3
  <2>10. f[k] \in Seq(E!Items)
    BY <2>8, ProjectionGrows
  <2>11. \A d \in Callers : call[d] = E!NoCall
    BY <1>i, <2>1, EvidenceAssumption DEF EvidenceTyped
  <2>12. EvidenceTyped'
    <3>1. outputs' \in Seq(E!Items)
      BY <2>1, <2>2, <2>10
    <3> QED BY <1>i, <1>1, <3>1 DEF EvidenceTyped
  <2>c. CallsGoOn'
    BY <1>1, <2>11 DEF CallsGoOn, E!NoCall
  <2>13. StaysRead' /\ SeenOnce'
    BY <1>i, <1>1, <1>2, <2>1, <2>9 DEF StaysRead, SeenOnce, E!NoWriter
  <2>14. ~E!Foreign => OneEach(outputs')
    <3> SUFFICES ASSUME ~E!Foreign PROVE OneEach(f[k])
      BY <2>1, <2>2
    <3>1. OneEach(o) /\ \A n \in 1..Len(j) : j[n].key = j[n].item.key
      BY <1>i, <2>7 DEF E!Foreign, OneEach
    <3> QED BY <2>8, <3>1, ProjectionOneEach
  <2> QED BY <1>2, <2>12, <2>c, <2>13, <2>14 DEF EvidenceInv, OneEach
<1> QED BY <1>3, <1>4

LEMMA EvidenceStep == EvidenceInv /\ [E!ENext]_evidenceVars => EvidenceInv'
<1> SUFFICES ASSUME EvidenceInv, [E!ENext]_evidenceVars PROVE EvidenceInv'
  OBVIOUS
<1>1. CASE UNCHANGED evidenceVars
  <2>1. UNCHANGED <<outputs, journal, torn, call, elock, writer, recorded>>
    BY <1>1 DEF evidenceVars
  <2>2. E!Shown' = E!Shown /\ (E!Swallowed' <=> E!Swallowed) /\ (E!Foreign' <=> E!Foreign)
    BY <2>1 DEF E!Shown, E!Swallowed, E!Foreign
  <2>3. EvidenceTyped' /\ SeenOnce' /\ (~E!Foreign' => OneEach(outputs'))
    BY <2>1, <2>2 DEF EvidenceInv, EvidenceTyped, SeenOnce, OneEach
  <2>4. CallsGoOn' /\ StaysRead'
    BY <2>1, <2>2 DEF EvidenceInv, CallsGoOn, StaysRead, ItemsIn, E!KeysOf
  <2> QED BY <2>3, <2>4 DEF EvidenceInv, OneEach
<1>2. CASE E!ENext
  BY <1>2, CheckStep, LineStep, TearStep, AnsweredStep, WriterStep DEF E!ENext
<1> QED BY <1>1, <1>2

LEMMA EvidenceTold ==
  ASSUME EvidenceInv
  PROVE  E!EvidenceKept /\ E!RecordedOnce /\ E!OnePayload
<1>i. EvidenceTyped /\ StaysRead /\ (~E!Foreign => OneEach(outputs))
  BY DEF EvidenceInv
<1>1. E!EvidenceKept
  BY <1>i DEF StaysRead, ItemsIn, E!EvidenceKept
<1>2. ~E!Foreign => OneEach(E!Shown)
  <2> SUFFICES ASSUME ~E!Foreign PROVE OneEach(E!Shown)
    OBVIOUS
  <2>1. Len(journal) \in Nat
    BY <1>i, ShownTyped
  <2>2. PICK f : Projects(f, outputs, journal) /\ E!Shown = f[Len(journal)]
    BY <2>1, ShownProjects
  <2>3. PICK o, j : o = outputs /\ j = journal
    OBVIOUS
  <2>4. /\ o \in Seq(E!Items) /\ j \in Seq(E!Lines) /\ Projects(f, o, j) /\ OneEach(o)
        /\ Len(j) \in 0..Len(j) /\ \A n \in 1..Len(j) : j[n].key = j[n].item.key
    BY <1>i, <2>1, <2>2, <2>3 DEF EvidenceTyped, E!Foreign, OneEach
  <2>5. \A n \in 0..Len(j) : OneEach(f[n])
    BY <2>4, ProjectionOneEach
  <2> QED BY <2>2, <2>3, <2>4, <2>5 DEF OneEach
<1>3. E!RecordedOnce
  BY <1>2 DEF OneEach, E!RecordedOnce
<1>4. E!OnePayload
  <2> SUFFICES ASSUME ~E!Foreign, ~E!Swallowed, NEW r \in recorded, NEW q \in recorded, r.key = q.key
               PROVE  r.item = q.item
    BY DEF E!OnePayload
  <2>1. PICK i \in 1..Len(E!Shown) : E!Shown[i] = r.item
    BY <1>1 DEF E!EvidenceKept
  <2>2. PICK k \in 1..Len(E!Shown) : E!Shown[k] = q.item
    BY <1>1 DEF E!EvidenceKept
  <2>3. r.key = r.item.key /\ q.key = q.item.key
    BY DEF E!Foreign
  <2> QED BY <1>2, <2>1, <2>2, <2>3 DEF OneEach
<1> QED BY <1>1, <1>3, <1>4

(* Wherever a process dies and however often an effect is reported, every  *)
(* journalled event reaches the forensic log under its own day, and once   *)
(* while nobody dies; and evidence that was answered as recorded stays     *)
(* visible, one item for its key.                                          *)
THEOREM JournalsExactCorrect == StorageSpec => []JournalsExact
<1>1. StorageInit => JournalInv /\ EvidenceInv
  BY JournalStarts, EvidenceStarts DEF StorageInit
<1>2. JournalInv /\ [StorageNext]_allVars => JournalInv'
  <2>1. [StorageNext]_allVars => [J!JNext]_journalVars
    BY DEF StorageNext, allVars
  <2> QED BY <2>1, JournalStep
<1>3. EvidenceInv /\ [StorageNext]_allVars => EvidenceInv'
  <2>1. [StorageNext]_allVars => [E!ENext]_evidenceVars
    BY DEF StorageNext, allVars
  <2> QED BY <2>1, EvidenceStep
<1>4. JournalInv /\ EvidenceInv => JournalsExact
  BY JournalTold, EvidenceTold DEF JournalsExact
<1> QED BY <1>1, <1>2, <1>3, <1>4, PTL DEF StorageSpec

-----------------------------------------------------------------------------
(* Sharded storage.                                                        *)

Held == [Tickets -> Nat \cup {Absent}]
FileSets == UNION {[B -> Held] : B \in SUBSET Buckets}
ShardStages == [what : {"metadata", "empty", "shards", "manifest"}, sprint : S!Sprints,
                files : FileSets, touched : SUBSET Buckets]
ShardJobs == [op : S!AllOps \cup {"none"}, todo : Seq(ShardStages), tickets : SUBSET Tickets,
              to : S!Sprints, undo : BOOLEAN]

(* A stage that is still to come writes the shard of t, and puts t into    *)
(* its sprint or takes it away.                                            *)
Writes(stage, t) == BucketOf[t] \in DOMAIN stage.files
Value(stage, t) == stage.files[BucketOf[t]][t]
Brings(stage, t) == Writes(stage, t) /\ Value(stage, t) # Absent
Drops(stage, t) == Writes(stage, t) /\ Value(stage, t) = Absent

ShardTyped ==
  /\ shards = [s \in S!Sprints |-> [b \in Buckets |-> shards[s][b]]]
  /\ \A s \in S!Sprints, b \in Buckets : shards[s][b].held \in Held
  /\ begun \in Nat
  /\ job \in ShardJobs
  /\ \A i \in 1..Len(job.todo) : job.todo[i].what # "shards" => DOMAIN job.todo[i].files = {}
  /\ sure \subseteq Tickets

(* t is in a sprint from which it is taken only when it is in another.     *)
Kept(t) == \E s \in S!Sprints :
  /\ S!IsIn(t, s)
  /\ \A i \in 1..Len(job.todo) : job.todo[i].sprint = s /\ Drops(job.todo[i], t) =>
       \E k \in 1..(i - 1) :
         /\ Brings(job.todo[k], t)
         /\ \A n \in 1..Len(job.todo) :
              job.todo[n].sprint = job.todo[k].sprint => ~Drops(job.todo[n], t)

(* What the job will acknowledge is in its sprint, or will be.             *)
Promised ==
  job.op \in {"put", "move", "save"} /\ ~job.undo => \A t \in job.tickets :
    /\ \A i \in 1..Len(job.todo) : job.todo[i].sprint = job.to => ~Drops(job.todo[i], t)
    /\ \/ S!IsIn(t, job.to)
       \/ \E i \in 1..Len(job.todo) : job.todo[i].sprint = job.to /\ Brings(job.todo[i], t)

(* A move writes its source last, and until then the ticket is there.      *)
SourceLast ==
  job.op = "move" /\ ~job.undo => \E t \in Tickets :
    /\ job.tickets = {t}
    /\ \A i \in 1..Len(job.todo) : job.todo[i].sprint # job.to =>
         /\ job.todo[i].what \in {"shards", "manifest"}
         /\ job.todo[i].what = "shards" =>
              /\ i = Len(job.todo) - 1
              /\ DOMAIN job.todo[i].files = {BucketOf[t]}
              /\ S!IsIn(t, job.todo[i].sprint)

AllKept == "manifest" \notin Failing => \A t \in sure : Kept(t)
ShardInv == ShardTyped /\ AllKept /\ Promised /\ SourceLast

LEMMA ShardConstants ==
  /\ BucketOf \in [Tickets -> Buckets] /\ \A t \in Tickets : BucketOf[t] \in Buckets
  /\ S!Sprints = {"current", "history"} /\ S!Current = "current" /\ S!History = "history"
  /\ Absent \notin Nat
<1>1. Len(Order) = 2 /\ Order[1] = "current" /\ Order[2] = "history"
  BY DEF Order
<1>2. S!Sprints = {"current", "history"} /\ S!Current = "current" /\ S!History = "history"
  BY <1>1 DEF S!Sprints, S!Current, S!History
<1>3. BucketOf \in [Tickets -> Buckets]
  BY ShardAssumption DEF BucketOf, Tickets
<1> QED BY <1>2, <1>3, ShardAssumption

LEMMA FileSetsMade ==
  ASSUME NEW B \in SUBSET Buckets, NEW f \in [B -> Held]
  PROVE  f \in FileSets
BY DEF FileSets

LEMMA FileSetsAre ==
  ASSUME NEW f \in FileSets
  PROVE  /\ DOMAIN f \in SUBSET Buckets /\ f = [b \in DOMAIN f |-> f[b]]
         /\ \A b \in DOMAIN f : f[b] \in Held
BY DEF FileSets

LEMMA NoFiles == <<>> \in FileSets /\ DOMAIN <<>> = {}
<1>1. <<>> \in [{} -> Held] /\ DOMAIN <<>> = {}
  OBVIOUS
<1> QED BY <1>1, FileSetsMade

LEMMA StageMade ==
  ASSUME NEW what \in {"metadata", "empty", "shards", "manifest"}, NEW s \in S!Sprints,
         NEW f \in FileSets, NEW T \in SUBSET Buckets
  PROVE  /\ S!Stage(what, s, f, T) \in ShardStages
         /\ S!Stage(what, s, f, T).what = what /\ S!Stage(what, s, f, T).sprint = s
         /\ S!Stage(what, s, f, T).files = f
BY DEF S!Stage, ShardStages

(* What the stages of a list have in common, those of two lists have.      *)
LEMMA Both ==
  ASSUME NEW X, NEW p \in Seq(X), NEW q \in Seq(X), NEW Good,
         \A i \in 1..Len(p) : p[i] \in Good, \A i \in 1..Len(q) : q[i] \in Good
  PROVE  /\ p \o q \in Seq(X) /\ Len(p \o q) = Len(p) + Len(q)
         /\ \A i \in 1..Len(p \o q) : (p \o q)[i] \in Good
         /\ \A i \in 1..Len(p) : i \in 1..Len(p \o q) /\ (p \o q)[i] = p[i]
         /\ \A i \in 1..Len(q) : Len(p) + i \in 1..Len(p \o q) /\ (p \o q)[Len(p) + i] = q[i]
<1>1. p \o q \in Seq(X) /\ Len(p \o q) = Len(p) + Len(q)
  OBVIOUS
<1>2. \A i \in 1..(Len(p) + Len(q)) :
        (p \o q)[i] = IF i <= Len(p) THEN p[i] ELSE q[i - Len(p)]
  OBVIOUS
<1>3. Len(p) \in Nat /\ Len(q) \in Nat
  OBVIOUS
<1>4. \A i \in 1..Len(p) : i \in 1..(Len(p) + Len(q)) /\ (p \o q)[i] = p[i]
  BY <1>2, <1>3
<1>5. \A i \in 1..Len(q) : /\ Len(p) + i \in 1..(Len(p) + Len(q)) /\ (Len(p) + i) - Len(p) = i
                            /\ ~(Len(p) + i <= Len(p))
  BY <1>3
<1>6. \A i \in 1..Len(q) : (p \o q)[Len(p) + i] = q[i]
  BY <1>2, <1>5
<1>7. \A i \in 1..(Len(p) + Len(q)) : (p \o q)[i] \in Good
  <2> SUFFICES ASSUME NEW i \in 1..(Len(p) + Len(q)) PROVE (p \o q)[i] \in Good
    OBVIOUS
  <2>1. CASE i <= Len(p)
    <3>1. i \in 1..Len(p)
      BY <1>3, <2>1
    <3> QED BY <1>4, <3>1
  <2>2. CASE ~(i <= Len(p))
    <3>1. i - Len(p) \in 1..Len(q)
      BY <1>3, <2>2
    <3> QED BY <1>2, <2>2, <3>1
  <2> QED BY <2>1, <2>2
<1> QED BY <1>1, <1>4, <1>5, <1>6, <1>7

LEMMA ShardStarts == S!Init => ShardInv
<1> SUFFICES ASSUME S!Init PROVE ShardInv
  OBVIOUS
<1>1. PICK T \in {{}, Tickets}, valid \in BOOLEAN :
        /\ sure = T /\ job = S!NoJob /\ begun = 1
        /\ LET held == [t \in Tickets |-> IF t \in T THEN 1 ELSE Absent]
               files0 == [b \in Buckets |-> IF S!Part(held, b) = S!Empty THEN S!Missing
                                            ELSE [stat |-> 2, held |-> S!Part(held, b)]]
           IN shards = [s \in S!Sprints |-> IF s = S!Current THEN files0
                                            ELSE [b \in Buckets |-> S!Missing]]
  BY DEF S!Init
<1> DEFINE held == [t \in Tickets |-> IF t \in T THEN 1 ELSE Absent]
<1>2. \A b \in Buckets : S!Part(held, b) \in Held
  BY DEF S!Part, Held
<1>3. S!Missing.held \in Held /\ S!Missing.held = S!Empty
  BY DEF S!Missing, S!Empty, Held
<1>4. shards = [s \in S!Sprints |-> IF s = S!Current
                 THEN [b \in Buckets |-> IF S!Part(held, b) = S!Empty THEN S!Missing
                                         ELSE [stat |-> 2, held |-> S!Part(held, b)]]
                 ELSE [b \in Buckets |-> S!Missing]]
  BY <1>1
<1>5. \A b \in Buckets : shards[S!Current][b].held = S!Part(held, b)
  BY <1>3, <1>4, ShardConstants
<1>6. \A s \in S!Sprints, b \in Buckets : shards[s][b].held \in Held
  <2> TAKE s \in S!Sprints, b \in Buckets
  <2>1. CASE s = S!Current
    BY <1>2, <1>5, <2>1
  <2>2. CASE s # S!Current
    BY <1>3, <1>4, <2>2
  <2> QED BY <2>1, <2>2
<1>7. shards = [s \in S!Sprints |-> [b \in Buckets |-> shards[s][b]]]
  BY <1>4
<1>8. job = [op |-> "none", todo |-> <<>>, tickets |-> {}, to |-> "current", undo |-> FALSE]
  BY <1>1, ShardConstants DEF S!NoJob
<1>9. ShardTyped
  <2>1. job \in ShardJobs /\ Len(job.todo) = 0
    BY <1>8, ShardConstants DEF ShardJobs
  <2>2. \A i \in 1..Len(job.todo) : FALSE
    BY <2>1
  <2>3. sure \subseteq Tickets /\ begun \in Nat
    BY <1>1
  <2> QED BY <1>6, <1>7, <2>1, <2>2, <2>3 DEF ShardTyped
<1>10. \A t \in sure : Kept(t)
  <2> SUFFICES ASSUME NEW t \in sure PROVE Kept(t)
    OBVIOUS
  <2>1. t \in Tickets /\ t \in T
    BY <1>1
  <2>2. shards[S!Current][BucketOf[t]].held[t] = 1
    BY <1>5, <2>1, ShardConstants DEF S!Part
  <2>3. S!IsIn(t, S!Current)
    BY <2>2, ShardConstants DEF S!IsIn
  <2>4. \A i \in 1..Len(job.todo) : FALSE
    BY <1>8
  <2>5. S!Current \in S!Sprints
    BY ShardConstants
  <2> HIDE DEF held
  <2> QED BY <2>3, <2>4, <2>5, Zenon DEF Kept
<1>11. Promised /\ SourceLast
  BY <1>8 DEF Promised, SourceLast
<1> QED BY <1>9, <1>10, <1>11 DEF ShardInv, AllKept

(* No stage of a mutation drops a ticket its new content has.              *)
LEMMA EnsureMade ==
  ASSUME NEW s \in S!Sprints
  PROVE  /\ S!EnsureSprint(s) \in Seq(ShardStages)
         /\ \A i \in 1..Len(S!EnsureSprint(s)) :
              /\ S!EnsureSprint(s)[i].sprint = s /\ S!EnsureSprint(s)[i].what # "shards"
              /\ DOMAIN S!EnsureSprint(s)[i].files = {}
<1>1. PICK x, y : x = S!Stage("metadata", s, <<>>, {}) /\ y = S!Stage("empty", s, <<>>, {})
  OBVIOUS
<1>2. /\ x \in ShardStages /\ x.what = "metadata" /\ x.sprint = s /\ DOMAIN x.files = {}
      /\ y \in ShardStages /\ y.what = "empty" /\ y.sprint = s /\ DOMAIN y.files = {}
  BY <1>1, StageMade, NoFiles
<1>3. CASE s \in made
  BY <1>3 DEF S!EnsureSprint
<1>4. CASE s \notin made
  <2>1. S!EnsureSprint(s) = <<x, y>>
    BY <1>1, <1>4 DEF S!EnsureSprint
  <2>2. <<x, y>> \in Seq(ShardStages) /\ Len(<<x, y>>) = 2 /\ <<x, y>>[1] = x /\ <<x, y>>[2] = y
    BY <1>2
  <2>3. \A i \in 1..2 : i = 1 \/ i = 2
    OBVIOUS
  <2> QED BY <1>2, <2>1, <2>2, <2>3
<1> QED BY <1>3, <1>4

LEMMA ShardsMade ==
  ASSUME NEW s \in S!Sprints, NEW f \in FileSets
  PROVE  /\ S!Shards(s, f) \in Seq(ShardStages)
         /\ \A i \in 1..Len(S!Shards(s, f)) :
              /\ S!Shards(s, f)[i].sprint = s /\ S!Shards(s, f)[i].what = "shards"
              /\ S!Shards(s, f)[i].files = f
         /\ Len(S!Shards(s, f)) = IF DOMAIN f = {} THEN 0 ELSE 1
<1>1. PICK x : x = S!Stage("shards", s, f, {})
  OBVIOUS
<1>2. x \in ShardStages /\ x.what = "shards" /\ x.sprint = s /\ x.files = f
  BY <1>1, StageMade
<1>3. CASE DOMAIN f = {}
  BY <1>3 DEF S!Shards
<1>4. CASE DOMAIN f # {}
  <2>1. S!Shards(s, f) = <<x>>
    BY <1>1, <1>4 DEF S!Shards
  <2>2. <<x>> \in Seq(ShardStages) /\ Len(<<x>>) = 1 /\ <<x>>[1] = x
    BY <1>2
  <2> QED BY <1>2, <1>4, <2>1, <2>2
<1> QED BY <1>3, <1>4

(* The stages of an upsert, a deletion and a saved sprint: what each of    *)
(* them may drop and what one of them brings.                              *)
Carries(stage, new) == \A t \in Tickets : Writes(stage, t) => Value(stage, t) = new[t]
OneWrite(q) == \E n \in Nat : \A i \in 1..Len(q) : DOMAIN q[i].files # {} => i = n
Harmless(stage, s, T) ==
  /\ stage \in ShardStages /\ stage.sprint = s
  /\ stage.what # "shards" => DOMAIN stage.files = {}
  /\ \A t \in T : ~Drops(stage, t)

LEMMA WritesBetween ==
  ASSUME NEW X, NEW p \in Seq(X), NEW q \in Seq(X), NEW r \in Seq(X), Len(q) <= 1,
         \A i \in 1..Len(p) : DOMAIN p[i].files = {}, \A i \in 1..Len(r) : DOMAIN r[i].files = {}
  PROVE  OneWrite(p \o q \o r)
<1>1. PICK a : a = p \o q
  OBVIOUS
<1>2. Len(p) \in Nat /\ Len(q) \in Nat /\ Len(r) \in Nat
  OBVIOUS
<1>3. /\ a \in Seq(X) /\ Len(a) = Len(p) + Len(q)
      /\ \A i \in 1..(Len(p) + Len(q)) : a[i] = IF i <= Len(p) THEN p[i] ELSE q[i - Len(p)]
  BY <1>1
<1>4. /\ Len(a \o r) = Len(a) + Len(r)
      /\ \A i \in 1..(Len(a) + Len(r)) : (a \o r)[i] = IF i <= Len(a) THEN a[i] ELSE r[i - Len(a)]
  BY <1>3
<1>5. \A i \in 1..Len(a \o r) : DOMAIN (a \o r)[i].files # {} => i = Len(p) + 1
  <2> SUFFICES ASSUME NEW i \in 1..Len(a \o r), i # Len(p) + 1
               PROVE  DOMAIN (a \o r)[i].files = {}
    OBVIOUS
  <2>1. CASE i <= Len(p)
    <3>1. i \in 1..Len(p) /\ (a \o r)[i] = p[i]
      BY <1>2, <1>3, <1>4, <2>1
    <3> QED BY <3>1
  <2>2. CASE ~(i <= Len(p))
    <3>1. i - Len(a) \in 1..Len(r) /\ (a \o r)[i] = r[i - Len(a)]
      BY <1>2, <1>3, <1>4, <2>2
    <3> QED BY <3>1
  <2> QED BY <2>1, <2>2
<1> DEFINE n == Len(p) + 1
<1>6. n \in Nat /\ \A i \in 1..Len(a \o r) : DOMAIN (a \o r)[i].files # {} => i = n
  BY <1>2, <1>5
<1> HIDE DEF n
<1>7. OneWrite(a \o r)
  BY <1>6, Zenon DEF OneWrite
<1> QED BY <1>1, <1>7

LEMMA UpsertsMade ==
  ASSUME ShardTyped, NEW s \in S!Sprints, NEW T \in SUBSET Tickets, NEW v \in Nat
  PROVE  LET q == S!Upserts(s, T, v)
         IN /\ q \in Seq(ShardStages)
            /\ \A i \in 1..Len(q) : Harmless(q[i], s, T \cup {t \in Tickets : S!IsIn(t, s)})
            /\ \A t \in T : \E i \in 1..Len(q) : Brings(q[i], t)
            /\ OneWrite(q)
            /\ \A i \in 1..Len(q) :
                 Carries(q[i], [t \in Tickets |-> IF t \in T THEN v ELSE S!Content(s)[t]])
<1> DEFINE new == [t \in Tickets |-> IF t \in T THEN v ELSE S!Content(s)[t]]
           touched == {BucketOf[t] : t \in T}
           f == [b \in touched |-> S!Part(new, b)]
           held == T \cup {t \in Tickets : S!IsIn(t, s)}
           Good == {stage \in ShardStages : Harmless(stage, s, held) /\ Carries(stage, new)}
           manif == <<S!Stage("manifest", s, <<>>, touched)>>
<1>1. touched \in SUBSET Buckets
  BY ShardConstants
<1>2. new \in Held
  <2>1. \A t \in Tickets : S!Content(s)[t] \in Nat \cup {Absent}
    BY ShardConstants DEF ShardTyped, S!Content, Held
  <2> QED BY <2>1 DEF Held
<1>3. \A b \in Buckets : S!Part(new, b) \in Held
  BY <1>2 DEF S!Part, Held
<1>4. f \in FileSets
  BY <1>1, <1>3, FileSetsMade
<1>5. \A t \in held : new[t] # Absent
  BY ShardConstants DEF S!Content, S!IsIn
<1>6. \A t \in held : BucketOf[t] \in touched => f[BucketOf[t]][t] # Absent
  BY <1>5 DEF S!Part
<1>7. S!Upserts(s, T, v) = S!EnsureSprint(s) \o S!Shards(s, f) \o manif
  BY DEF S!Upserts
<1>8. /\ S!EnsureSprint(s) \in Seq(ShardStages)
      /\ \A i \in 1..Len(S!EnsureSprint(s)) : S!EnsureSprint(s)[i] \in Good
  <2> HIDE DEF held
  <2> QED BY EnsureMade DEF Harmless, Drops, Carries, Writes, Value
<1>9. manif \in Seq(ShardStages) /\ \A i \in 1..Len(manif) : manif[i] \in Good
  <2>1. PICK x : x = S!Stage("manifest", s, <<>>, touched)
    OBVIOUS
  <2>2. x \in ShardStages /\ x.what = "manifest" /\ x.sprint = s /\ DOMAIN x.files = {}
    BY <1>1, <2>1, StageMade, NoFiles
  <2>3. x \in Good
    BY <2>2 DEF Harmless, Drops, Carries, Writes, Value
  <2>4. <<x>> \in Seq(ShardStages) /\ \A i \in 1..Len(<<x>>) : <<x>>[i] = x
    BY <2>2
  <2> QED BY <2>1, <2>3, <2>4
<1> HIDE DEF manif
<1>10. /\ S!Shards(s, f) \in Seq(ShardStages)
       /\ \A i \in 1..Len(S!Shards(s, f)) : S!Shards(s, f)[i] \in Good
  <2>0. DOMAIN f = touched
    OBVIOUS
  <2>3. \A b \in DOMAIN f : \A t \in Tickets : BucketOf[t] = b => f[b][t] = new[t]
    BY DEF S!Part
  <2> HIDE DEF f, held, touched, new
  <2>1. \A i \in 1..Len(S!Shards(s, f)) : S!Shards(s, f)[i] \in ShardStages
    BY <1>4, ShardsMade
  <2> QED BY <1>4, <1>6, <2>0, <2>1, <2>3, ShardsMade DEF Harmless, Drops, Carries, Writes, Value
<1>11. \A t \in T : /\ Len(S!Shards(s, f)) = 1
                    /\ 1 \in 1..Len(S!Shards(s, f)) /\ Brings(S!Shards(s, f)[1], t)
  <2> SUFFICES ASSUME NEW t \in T
               PROVE  /\ Len(S!Shards(s, f)) = 1
                      /\ 1 \in 1..Len(S!Shards(s, f)) /\ Brings(S!Shards(s, f)[1], t)
    OBVIOUS
  <2>1. BucketOf[t] \in DOMAIN f /\ f[BucketOf[t]][t] # Absent
    BY <1>6
  <2> HIDE DEF f
  <2>2. Len(S!Shards(s, f)) = 1
    BY <1>4, <2>1, ShardsMade
  <2>3. \A i \in 1..Len(S!Shards(s, f)) : S!Shards(s, f)[i].files = f
    BY <1>4, ShardsMade
  <2>4. 1 \in 1..Len(S!Shards(s, f))
    BY <2>2
  <2>5. S!Shards(s, f)[1].files = f
    BY <2>3, <2>4
  <2> QED BY <2>1, <2>2, <2>4, <2>5 DEF Brings, Writes, Value
<1> HIDE DEF Good, f, held, new
<1>12. PICK p, q, r : p = S!EnsureSprint(s) /\ q = S!Shards(s, f) /\ r = manif
  OBVIOUS
<1>13. /\ p \o q \in Seq(ShardStages) /\ \A i \in 1..Len(p \o q) : (p \o q)[i] \in Good
       /\ \A i \in 1..Len(q) : Len(p) + i \in 1..Len(p \o q) /\ (p \o q)[Len(p) + i] = q[i]
  <2>1. /\ p \in Seq(ShardStages) /\ \A i \in 1..Len(p) : p[i] \in Good
        /\ q \in Seq(ShardStages) /\ \A i \in 1..Len(q) : q[i] \in Good
    BY <1>8, <1>10, <1>12
  <2>2. p \o q \in Seq(ShardStages)
    BY <2>1, Both
  <2>3. \A i \in 1..Len(p \o q) : (p \o q)[i] \in Good
    BY <2>1, Both
  <2>4. \A i \in 1..Len(q) : Len(p) + i \in 1..Len(p \o q) /\ (p \o q)[Len(p) + i] = q[i]
    BY <2>1, Both
  <2> QED BY <2>2, <2>3, <2>4
<1>14. PICK a : a = p \o q
  OBVIOUS
<1>15. /\ a \o r \in Seq(ShardStages) /\ \A i \in 1..Len(a \o r) : (a \o r)[i] \in Good
       /\ \A i \in 1..Len(a) : i \in 1..Len(a \o r) /\ (a \o r)[i] = a[i]
  <2>1. /\ a \in Seq(ShardStages) /\ \A i \in 1..Len(a) : a[i] \in Good
        /\ r \in Seq(ShardStages) /\ \A i \in 1..Len(r) : r[i] \in Good
    BY <1>9, <1>12, <1>13, <1>14
  <2>2. a \o r \in Seq(ShardStages)
    BY <2>1, Both
  <2>3. \A i \in 1..Len(a \o r) : (a \o r)[i] \in Good
    BY <2>1, Both
  <2>4. \A i \in 1..Len(a) : i \in 1..Len(a \o r) /\ (a \o r)[i] = a[i]
    BY <2>1, Both
  <2> QED BY <2>2, <2>3, <2>4
<1>16. S!Upserts(s, T, v) = a \o r
  BY <1>7, <1>12, <1>14
<1>17. \A t \in T : \E i \in 1..Len(a \o r) : Brings((a \o r)[i], t)
  <2> TAKE t \in T
  <2>1. 1 \in 1..Len(q) /\ Brings(q[1], t)
    BY <1>11, <1>12
  <2>2. Len(p) + 1 \in 1..Len(a) /\ a[Len(p) + 1] = q[1]
    BY <1>13, <1>14, <2>1
  <2> QED BY <1>15, <2>1, <2>2
<1>18. \A i \in 1..Len(a \o r) : Harmless((a \o r)[i], s, held)
  BY <1>15 DEF Good
<1>19. \A i \in 1..Len(a \o r) : Carries((a \o r)[i], new)
  BY <1>15 DEF Good
<1>20. OneWrite(a \o r)
  <2>1. \A i \in 1..Len(p) : DOMAIN p[i].files = {}
    BY <1>12, EnsureMade
  <2>2. \A i \in 1..Len(r) : DOMAIN r[i].files = {}
    <3>1. PICK x : x = S!Stage("manifest", s, <<>>, touched)
      OBVIOUS
    <3>2. DOMAIN x.files = {}
      BY <1>1, <3>1, StageMade, NoFiles
    <3> QED BY <1>12, <3>1, <3>2 DEF manif
  <2>3. Len(q) <= 1
    BY <1>4, <1>12, ShardsMade
  <2>4. p \in Seq(ShardStages) /\ q \in Seq(ShardStages) /\ r \in Seq(ShardStages)
    BY <1>8, <1>9, <1>10, <1>12
  <2> QED BY <1>14, <2>1, <2>2, <2>3, <2>4, WritesBetween
<1> QED BY <1>15, <1>16, <1>17, <1>18, <1>19, <1>20 DEF held, new

LEMMA DeleteMade ==
  ASSUME ShardTyped, NEW s \in S!Sprints, NEW t \in Tickets
  PROVE  LET q == S!DeleteFrom(s, t)
         IN /\ q \in Seq(ShardStages) /\ Len(q) = 2
            /\ q[1].what = "shards" /\ DOMAIN q[1].files = {BucketOf[t]}
            /\ q[2].what = "manifest"
            /\ OneWrite(q)
            /\ \A i \in 1..Len(q) : Carries(q[i], [S!Content(s) EXCEPT ![t] = Absent])
            /\ \A i \in 1..Len(q) : Harmless(q[i], s, {u \in Tickets \ {t} : S!IsIn(u, s)})
<1> DEFINE b == BucketOf[t]
           f == [c \in {b} |-> S!Part([S!Content(s) EXCEPT ![t] = Absent], b)]
           held == {u \in Tickets \ {t} : S!IsIn(u, s)}
<1>1. [S!Content(s) EXCEPT ![t] = Absent] \in Held
      /\ \A u \in held : [S!Content(s) EXCEPT ![t] = Absent][u] # Absent
  <2>1. \A u \in Tickets : S!Content(s)[u] \in Nat \cup {Absent}
    BY ShardConstants DEF ShardTyped, S!Content, Held
  <2>2. S!Content(s) \in Held
    BY <2>1 DEF S!Content, Held
  <2>3. \A u \in held : S!Content(s)[u] # Absent
    BY DEF S!Content, S!IsIn
  <2> QED BY <2>2, <2>3 DEF Held
<1>2. f \in [{b} -> Held] /\ \A u \in held : BucketOf[u] = b => f[b][u] # Absent
  BY <1>1 DEF S!Part, Held
<1>2c. \A u \in Tickets : BucketOf[u] = b => f[b][u] = [S!Content(s) EXCEPT ![t] = Absent][u]
  BY DEF S!Part
<1>3. f \in FileSets /\ DOMAIN f = {b}
  BY <1>2, FileSetsMade, ShardConstants
<1>4. PICK x, y : x = S!Stage("shards", s, f, {}) /\ y = S!Stage("manifest", s, <<>>, {b})
  OBVIOUS
<1>5. S!DeleteFrom(s, t) = <<x>> \o <<y>>
  <2>1. S!DeleteFrom(s, t) = S!Shards(s, f) \o <<S!Stage("manifest", s, <<>>, {b})>>
    BY DEF S!DeleteFrom
  <2>2. S!Shards(s, f) = <<x>>
    BY <1>3, <1>4 DEF S!Shards
  <2> HIDE DEF f
  <2>3. S!DeleteFrom(s, t) = <<x>> \o <<y>>
    BY <1>4, <2>1, <2>2
  <2> QED BY <2>3
<1> HIDE DEF f, held
<1>6. x \in ShardStages /\ x.what = "shards" /\ x.sprint = s /\ x.files = f
  BY <1>3, <1>4, StageMade
<1>7. y \in ShardStages /\ y.what = "manifest" /\ y.sprint = s /\ DOMAIN y.files = {}
  BY <1>4, StageMade, NoFiles, ShardConstants
<1>8. Harmless(x, s, held)
  BY <1>2, <1>3, <1>6 DEF Harmless, Drops, Writes, Value
<1>9. Harmless(y, s, held)
  BY <1>7 DEF Harmless, Drops, Writes, Value
<1>8c. /\ Carries(x, [S!Content(s) EXCEPT ![t] = Absent])
       /\ Carries(y, [S!Content(s) EXCEPT ![t] = Absent])
  BY <1>2c, <1>3, <1>6, <1>7 DEF Carries, Writes, Value
<1>10. PICK p, r, q : p = <<x>> /\ r = <<y>> /\ q = p \o r
  OBVIOUS
<1>11. /\ p \in Seq(ShardStages) /\ Len(p) = 1 /\ p[1] = x
       /\ r \in Seq(ShardStages) /\ Len(r) = 1 /\ r[1] = y
  BY <1>6, <1>7, <1>10
<1>12. /\ q \in Seq(ShardStages) /\ Len(q) = 2 /\ q[1] = x /\ q[2] = y
       /\ \A i \in 1..Len(q) : q[i] \in {x, y}
  <2>1. /\ \A i \in 1..Len(p) : p[i] \in {x, y}
        /\ \A i \in 1..Len(r) : r[i] \in {x, y}
    BY <1>11
  <2>2. /\ q \in Seq(ShardStages) /\ Len(q) = Len(p) + Len(r)
        /\ \A i \in 1..Len(q) : q[i] \in {x, y}
        /\ \A i \in 1..Len(p) : i \in 1..Len(q) /\ q[i] = p[i]
        /\ \A i \in 1..Len(r) : Len(p) + i \in 1..Len(q) /\ q[Len(p) + i] = r[i]
    BY <1>10, <1>11, <2>1, Both
  <2> QED BY <1>11, <2>2
<1>13. \A i \in 1..Len(q) : Harmless(q[i], s, held)
  BY <1>8, <1>9, <1>12
<1>14. OneWrite(q)
  <2>1. \A i \in 1..Len(q) : i = 1 \/ i = 2
    BY <1>12
  <2>2. \A i \in 1..Len(q) : DOMAIN q[i].files # {} => i = 1
    BY <1>7, <1>12, <2>1
  <2> QED BY <2>2 DEF OneWrite
<1>15. \A i \in 1..Len(q) : Carries(q[i], [S!Content(s) EXCEPT ![t] = Absent])
  BY <1>8c, <1>12
<1> QED BY <1>3, <1>5, <1>6, <1>7, <1>10, <1>12, <1>13, <1>14, <1>15 DEF held

LEMMA SavedMade ==
  ASSUME ShardTyped, NEW s \in S!Sprints, NEW new \in Held
  PROVE  LET q == S!WriteSprint(s, new)
         IN /\ q \in Seq(ShardStages)
            /\ \A i \in 1..Len(q) : Harmless(q[i], s, {t \in Tickets : new[t] # Absent})
            /\ \A t \in Tickets : new[t] # Absent =>
                 S!IsIn(t, s) \/ \E i \in 1..Len(q) : Brings(q[i], t)
            /\ OneWrite(q)
            /\ \A i \in 1..Len(q) : Carries(q[i], new)
            /\ \A t \in Tickets : new[t] # S!Content(s)[t] =>
                 \E i \in 1..Len(q) : Writes(q[i], t)
<1> DEFINE changed == {b \in Buckets : S!Part(new, b) # shards[s][b].held}
           f == [b \in changed |-> S!Part(new, b)]
           held == {t \in Tickets : new[t] # Absent}
           Good == {stage \in ShardStages : Harmless(stage, s, held) /\ Carries(stage, new)}
<1>1. \A b \in Buckets : S!Part(new, b) \in Held
  BY DEF S!Part, Held
<1>2. f \in FileSets /\ DOMAIN f = changed /\ changed \in SUBSET Buckets
  BY <1>1, FileSetsMade
<1>3. \A t \in held : BucketOf[t] \in changed => f[BucketOf[t]][t] # Absent
  BY DEF S!Part
<1>4. \A t \in held : S!IsIn(t, s) \/ BucketOf[t] \in changed
  <2> SUFFICES ASSUME NEW t \in held, BucketOf[t] \notin changed PROVE S!IsIn(t, s)
    OBVIOUS
  <2>1. S!Part(new, BucketOf[t]) = shards[s][BucketOf[t]].held
    BY ShardConstants
  <2>2. S!Part(new, BucketOf[t])[t] = new[t]
    BY DEF S!Part
  <2> QED BY <2>1, <2>2 DEF S!IsIn
<1>4c. \A t \in Tickets : BucketOf[t] \in changed => f[BucketOf[t]][t] = new[t]
  BY DEF S!Part
<1>4w. \A t \in Tickets : new[t] # S!Content(s)[t] => BucketOf[t] \in changed
  <2> SUFFICES ASSUME NEW t \in Tickets, BucketOf[t] \notin changed PROVE new[t] = S!Content(s)[t]
    OBVIOUS
  <2>1. S!Part(new, BucketOf[t]) = shards[s][BucketOf[t]].held
    BY ShardConstants
  <2>2. S!Part(new, BucketOf[t])[t] = new[t]
    BY DEF S!Part
  <2> QED BY <2>1, <2>2 DEF S!Content
<1>5. PICK x, y : x = S!Stage("metadata", s, <<>>, {}) /\ y = S!Stage("manifest", s, <<>>, Buckets)
  OBVIOUS
<1>6. S!WriteSprint(s, new) = <<x>> \o S!Shards(s, f) \o <<y>>
  BY <1>5 DEF S!WriteSprint
<1> HIDE DEF f, held, changed
<1>7. /\ x \in ShardStages /\ x.what = "metadata" /\ x.sprint = s /\ DOMAIN x.files = {}
      /\ y \in ShardStages /\ y.what = "manifest" /\ y.sprint = s /\ DOMAIN y.files = {}
  BY <1>5, StageMade, NoFiles
<1>8. x \in Good /\ y \in Good
  BY <1>7 DEF Harmless, Drops, Carries, Writes, Value
<1>9. PICK p, q, r : p = <<x>> /\ q = S!Shards(s, f) /\ r = <<y>>
  OBVIOUS
<1>10. /\ p \in Seq(ShardStages) /\ \A i \in 1..Len(p) : p[i] \in Good
       /\ r \in Seq(ShardStages) /\ \A i \in 1..Len(r) : r[i] \in Good
  BY <1>7, <1>8, <1>9
<1>11. q \in Seq(ShardStages) /\ \A i \in 1..Len(q) : q[i] \in Good
  <2>1. \A i \in 1..Len(S!Shards(s, f)) : S!Shards(s, f)[i] \in ShardStages
    BY <1>2, ShardsMade
  <2> QED BY <1>2, <1>3, <1>4c, <1>9, <2>1, ShardsMade DEF Harmless, Drops, Carries, Writes, Value
<1>12. \A t \in held : S!IsIn(t, s) \/ (1 \in 1..Len(q) /\ Brings(q[1], t))
  <2> SUFFICES ASSUME NEW t \in held, BucketOf[t] \in changed
               PROVE  1 \in 1..Len(q) /\ Brings(q[1], t)
    BY <1>4
  <2>1. Len(q) = 1
    BY <1>2, <1>9, ShardsMade
  <2>2. q[1].files = f
    BY <1>2, <1>9, <2>1, ShardsMade
  <2> QED BY <1>2, <1>3, <2>1, <2>2 DEF Brings, Writes, Value
<1>12w. \A t \in Tickets : new[t] # S!Content(s)[t] => 1 \in 1..Len(q) /\ Writes(q[1], t)
  <2> SUFFICES ASSUME NEW t \in Tickets, BucketOf[t] \in changed
               PROVE  1 \in 1..Len(q) /\ Writes(q[1], t)
    BY <1>4w
  <2>1. Len(q) = 1
    BY <1>2, <1>9, ShardsMade
  <2>2. q[1].files = f
    BY <1>2, <1>9, <2>1, ShardsMade
  <2> QED BY <1>2, <2>1, <2>2 DEF Writes
<1> HIDE DEF Good
<1>13. /\ p \o q \in Seq(ShardStages) /\ \A i \in 1..Len(p \o q) : (p \o q)[i] \in Good
       /\ \A i \in 1..Len(q) : Len(p) + i \in 1..Len(p \o q) /\ (p \o q)[Len(p) + i] = q[i]
  <2>1. /\ p \in Seq(ShardStages) /\ \A i \in 1..Len(p) : p[i] \in Good
        /\ q \in Seq(ShardStages) /\ \A i \in 1..Len(q) : q[i] \in Good
    BY <1>10, <1>11
  <2>2. p \o q \in Seq(ShardStages)
    BY <2>1, Both
  <2>3. \A i \in 1..Len(p \o q) : (p \o q)[i] \in Good
    BY <2>1, Both
  <2>4. \A i \in 1..Len(q) : Len(p) + i \in 1..Len(p \o q) /\ (p \o q)[Len(p) + i] = q[i]
    BY <2>1, Both
  <2> QED BY <2>2, <2>3, <2>4
<1>14. PICK a : a = p \o q
  OBVIOUS
<1>15. /\ a \o r \in Seq(ShardStages) /\ \A i \in 1..Len(a \o r) : (a \o r)[i] \in Good
       /\ \A i \in 1..Len(a) : i \in 1..Len(a \o r) /\ (a \o r)[i] = a[i]
  <2>1. /\ a \in Seq(ShardStages) /\ \A i \in 1..Len(a) : a[i] \in Good
        /\ r \in Seq(ShardStages) /\ \A i \in 1..Len(r) : r[i] \in Good
    BY <1>10, <1>13, <1>14
  <2>2. a \o r \in Seq(ShardStages)
    BY <2>1, Both
  <2>3. \A i \in 1..Len(a \o r) : (a \o r)[i] \in Good
    BY <2>1, Both
  <2>4. \A i \in 1..Len(a) : i \in 1..Len(a \o r) /\ (a \o r)[i] = a[i]
    BY <2>1, Both
  <2> QED BY <2>2, <2>3, <2>4
<1>16. S!WriteSprint(s, new) = a \o r
  BY <1>6, <1>9, <1>14
<1>17. \A t \in held : S!IsIn(t, s) \/ \E i \in 1..Len(a \o r) : Brings((a \o r)[i], t)
  <2> SUFFICES ASSUME NEW t \in held, ~S!IsIn(t, s)
               PROVE  \E i \in 1..Len(a \o r) : Brings((a \o r)[i], t)
    OBVIOUS
  <2>1. 1 \in 1..Len(q) /\ Brings(q[1], t)
    BY <1>12
  <2>2. Len(p) + 1 \in 1..Len(a) /\ a[Len(p) + 1] = q[1]
    BY <1>13, <1>14, <2>1
  <2> QED BY <1>15, <2>1, <2>2
<1>18. \A i \in 1..Len(a \o r) : Harmless((a \o r)[i], s, held)
  BY <1>15 DEF Good
<1>19. \A i \in 1..Len(a \o r) : Carries((a \o r)[i], new)
  BY <1>15 DEF Good
<1>20. OneWrite(a \o r)
  <2>1. /\ \A i \in 1..Len(p) : DOMAIN p[i].files = {}
        /\ \A i \in 1..Len(r) : DOMAIN r[i].files = {}
    BY <1>7, <1>9
  <2>2. Len(q) <= 1
    BY <1>2, <1>9, ShardsMade
  <2>3. p \in Seq(ShardStages) /\ q \in Seq(ShardStages) /\ r \in Seq(ShardStages)
    BY <1>10, <1>11
  <2> QED BY <1>14, <2>1, <2>2, <2>3, WritesBetween
<1>21. \A t \in Tickets : new[t] # S!Content(s)[t] =>
         \E i \in 1..Len(a \o r) : Writes((a \o r)[i], t)
  <2> SUFFICES ASSUME NEW t \in Tickets, new[t] # S!Content(s)[t]
               PROVE  \E i \in 1..Len(a \o r) : Writes((a \o r)[i], t)
    OBVIOUS
  <2>1. 1 \in 1..Len(q) /\ Writes(q[1], t)
    BY <1>12w
  <2>2. Len(p) + 1 \in 1..Len(a) /\ a[Len(p) + 1] = q[1]
    BY <1>13, <1>14, <2>1
  <2> QED BY <1>15, <2>1, <2>2
<1> QED BY <1>15, <1>16, <1>17, <1>18, <1>19, <1>20, <1>21 DEF held

(* A mutation begins: nothing is written yet, and what it has to write     *)
(* leaves every ticket in a sprint.                                        *)
LEMMA BegunTyped ==
  ASSUME ShardTyped, shards' = shards, begun' = begun + 1, sure' \subseteq sure,
         NEW op \in S!AllOps, NEW T \in SUBSET Tickets, NEW to \in S!Sprints,
         NEW q \in Seq(ShardStages),
         \A i \in 1..Len(q) : q[i].what # "shards" => DOMAIN q[i].files = {},
         job' = [op |-> op, todo |-> q, tickets |-> T, to |-> to, undo |-> FALSE]
  PROVE  ShardTyped'
<1>1. job' \in ShardJobs /\ job'.todo = q
  BY DEF ShardJobs
<1>2. begun' \in Nat /\ sure' \subseteq Tickets
  BY DEF ShardTyped
<1>3. \A i \in 1..Len(job'.todo) : job'.todo[i].what # "shards" => DOMAIN job'.todo[i].files = {}
  BY <1>1
<1>4. /\ shards' = [s \in S!Sprints |-> [b \in Buckets |-> shards'[s][b]]]
      /\ \A s \in S!Sprints, b \in Buckets : shards'[s][b].held \in Held
  BY DEF ShardTyped
<1> QED BY <1>1, <1>2, <1>3, <1>4 DEF ShardTyped

LEMMA OneKept ==
  ASSUME shards' = shards, NEW s \in S!Sprints, NEW T, NEW q, job'.todo = q,
         \A i \in 1..Len(q) : Harmless(q[i], s, T),
         NEW u \in Tickets, NEW w \in S!Sprints, S!IsIn(u, w), S!IsIn(u, s) => u \in T
  PROVE  Kept(u)'
<1>1. S!IsIn(u, w)'
  BY DEF S!IsIn
<1>2. \A i \in 1..Len(job'.todo) : job'.todo[i].sprint = w => ~Drops(job'.todo[i], u)
  BY DEF Harmless
<1> QED BY <1>1, <1>2 DEF Kept

LEMMA TwoKept ==
  ASSUME shards' = shards, NEW s \in S!Sprints, NEW z \in S!Sprints, s # z, NEW T, NEW U,
         NEW p \in Seq(ShardStages), NEW d \in Seq(ShardStages), job'.todo = p \o d,
         \A i \in 1..Len(p) : Harmless(p[i], s, T),
         \A i \in 1..Len(d) : Harmless(d[i], z, U),
         NEW u \in Tickets, NEW w \in S!Sprints, S!IsIn(u, w),
         S!IsIn(u, s) => u \in T,
         S!IsIn(u, z) => u \in U \/ S!IsIn(u, s)
                         \/ (u \in T /\ \E i \in 1..Len(p) : Brings(p[i], u))
  PROVE  Kept(u)'
<1>1. PICK q : q = p \o d
  OBVIOUS
<1>2. /\ Len(q) = Len(p) + Len(d) /\ Len(p) \in Nat /\ Len(d) \in Nat
      /\ \A i \in 1..Len(p) : i \in 1..Len(q) /\ q[i] = p[i]
  <2>1. /\ \A i \in 1..Len(p) : p[i] \in ShardStages
        /\ \A i \in 1..Len(d) : d[i] \in ShardStages
    OBVIOUS
  <2> QED BY <1>1, <2>1, Both
<1>3. \A i \in 1..Len(q) : \/ i \in 1..Len(p) /\ q[i] = p[i]
                           \/ i > Len(p) /\ i - Len(p) \in 1..Len(d) /\ q[i] = d[i - Len(p)]
  <2> SUFFICES ASSUME NEW i \in 1..Len(q), ~(i \in 1..Len(p))
               PROVE  i > Len(p) /\ i - Len(p) \in 1..Len(d) /\ q[i] = d[i - Len(p)]
    BY <1>2
  <2>1. i > Len(p) /\ i - Len(p) \in 1..Len(d)
    BY <1>2
  <2>2. (p \o d)[i] = d[i - Len(p)]
    BY <1>1, <1>2, <2>1
  <2> QED BY <1>1, <2>1, <2>2
<1>4. \A i \in 1..Len(q) : \/ i \in 1..Len(p) /\ q[i].sprint = s /\ (u \in T => ~Drops(q[i], u))
                           \/ i > Len(p) /\ q[i].sprint = z /\ (u \in U => ~Drops(q[i], u))
  BY <1>3 DEF Harmless
<1>5. \A x \in S!Sprints : S!IsIn(u, x)' <=> S!IsIn(u, x)
  BY DEF S!IsIn
<1>6. job'.todo = q
  BY <1>1
<1>7. CASE S!IsIn(u, s)
  <2>1. \A i \in 1..Len(q) : ~(q[i].sprint = s /\ Drops(q[i], u))
    BY <1>4, <1>7
  <2> QED BY <1>5, <1>6, <1>7, <2>1 DEF Kept
<1>8. CASE ~S!IsIn(u, s) /\ (w # z \/ u \in U)
  <2>1. \A i \in 1..Len(q) : ~(q[i].sprint = w /\ Drops(q[i], u))
    BY <1>4, <1>8
  <2> QED BY <1>5, <1>6, <2>1 DEF Kept
<1>9. CASE ~S!IsIn(u, s) /\ w = z /\ u \notin U
  <2>1. u \in T
    BY <1>9
  <2>2. PICK k \in 1..Len(p) : Brings(p[k], u)
    BY <1>9
  <2>3. k \in 1..Len(q) /\ Brings(q[k], u) /\ q[k].sprint = s
    BY <1>2, <2>2 DEF Harmless
  <2>4. \A n \in 1..Len(q) : q[n].sprint = q[k].sprint => ~Drops(q[n], u)
    BY <1>4, <2>1, <2>3
  <2>5. \A i \in 1..Len(q) : q[i].sprint = z => k \in 1..(i - 1)
    BY <1>2, <1>4, <2>2
  <2>6. \A i \in 1..Len(q) : q[i].sprint = z /\ Drops(q[i], u) =>
          \E n \in 1..(i - 1) : /\ Brings(q[n], u)
                                /\ \A m \in 1..Len(q) : q[m].sprint = q[n].sprint => ~Drops(q[m], u)
    BY <2>3, <2>4, <2>5
  <2>7. S!IsIn(u, z)'
    BY <1>5, <1>9
  <2> QED BY <1>6, <2>6, <2>7 DEF Kept
<1> QED BY <1>7, <1>8, <1>9

LEMMA HeldBefore ==
  ASSUME NEW t \in Tickets, Kept(t) PROVE \E w \in S!Sprints : S!IsIn(t, w)
BY DEF Kept

LEMMA PutStep ==
  ASSUME ShardInv, S!Put PROVE ShardInv'
<1>i. ShardTyped /\ AllKept
  BY DEF ShardInv
<1>1. PICK T \in S!Bulks, s \in S!Sprints : S!Begin("put", T, s, S!Upserts(s, T, begun + 1))
  BY DEF S!Put
<1>2. T \in SUBSET Tickets /\ begun + 1 \in Nat
  BY <1>i DEF S!Bulks, ShardTyped
<1>3. PICK q : q = S!Upserts(s, T, begun + 1)
  OBVIOUS
<1>4. /\ q \in Seq(ShardStages)
      /\ \A i \in 1..Len(q) : Harmless(q[i], s, T \cup {t \in Tickets : S!IsIn(t, s)})
      /\ \A t \in T : \E i \in 1..Len(q) : Brings(q[i], t)
  BY <1>i, <1>2, <1>3, UpsertsMade
<1>5. /\ job' = [op |-> "put", todo |-> q, tickets |-> T, to |-> s, undo |-> FALSE]
      /\ shards' = shards /\ begun' = begun + 1 /\ sure' = sure
  BY <1>1, <1>3 DEF S!Begin, S!fileVars
<1>6. ShardTyped'
  <2>1. \A i \in 1..Len(q) : q[i].what # "shards" => DOMAIN q[i].files = {}
    BY <1>4 DEF Harmless
  <2> QED BY <1>i, <1>2, <1>4, <1>5, <2>1, BegunTyped DEF S!AllOps
<1>7. ASSUME "manifest" \notin Failing, NEW u \in sure PROVE Kept(u)'
  <2>1. u \in Tickets
    BY <1>i DEF ShardTyped
  <2>2. PICK w \in S!Sprints : S!IsIn(u, w)
    BY <1>i, <1>7, <2>1, HeldBefore DEF AllKept
  <2> DEFINE U == T \cup {t \in Tickets : S!IsIn(t, s)}
  <2>3. job'.todo = q /\ (S!IsIn(u, s) => u \in U) /\ \A i \in 1..Len(q) : Harmless(q[i], s, U)
    BY <1>4, <1>5, <2>1
  <2> HIDE DEF U
  <2> QED BY <1>5, <2>1, <2>2, <2>3, OneKept
<1>8. Promised'
  <2>1. \A t \in T : \A i \in 1..Len(q) : q[i].sprint = s /\ ~Drops(q[i], t)
    BY <1>4 DEF Harmless
  <2>2. job'.todo = q /\ job'.to = s /\ job'.tickets = T
    BY <1>5
  <2> QED BY <1>4, <2>1, <2>2 DEF Promised
<1>9. SourceLast'
  BY <1>5 DEF SourceLast
<1> QED BY <1>5, <1>6, <1>7, <1>8, <1>9 DEF ShardInv, AllKept

LEMMA LocatedHolds ==
  ASSUME NEW t \in Tickets, S!Holders(t) # {}
  PROVE  S!Located(t) \in S!Sprints /\ S!IsIn(t, S!Located(t))
<1>1. Len(Order) = 2 /\ Order[1] = "current" /\ Order[2] = "history"
  BY DEF Order
<1> DEFINE First(i) == S!IsIn(t, Order[i]) /\ \A k \in 1..(i - 1) : ~S!IsIn(t, Order[k])
           i == CHOOSE i \in 1..Len(Order) : First(i)
<1>2. \E i0 \in 1..Len(Order) : First(i0)
  <2>1. \E w \in {"current", "history"} : S!IsIn(t, w)
    BY ShardConstants DEF S!Holders
  <2>2. CASE S!IsIn(t, "current")
    <3>1. First(1) /\ 1 \in 1..Len(Order)
      BY <1>1, <2>2
    <3> QED BY <3>1
  <2>3. CASE ~S!IsIn(t, "current")
    <3>1. \A k \in 1..(2 - 1) : k = 1
      OBVIOUS
    <3>2. First(2) /\ 2 \in 1..Len(Order)
      BY <1>1, <2>1, <2>3, <3>1
    <3> QED BY <3>2
  <2> QED BY <2>2, <2>3
<1>3. i \in 1..Len(Order) /\ First(i)
  BY <1>2
<1>4. S!Located(t) = Order[i]
  BY DEF S!Located
<1> QED BY <1>3, <1>4 DEF S!Sprints

LEMMA DeleteStep ==
  ASSUME ShardInv, S!Delete PROVE ShardInv'
<1>i. ShardTyped /\ AllKept
  BY DEF ShardInv
<1>1. PICK t \in Tickets : /\ S!Holders(t) # {}
                          /\ S!Begin("delete", {t}, S!Located(t), S!DeleteFrom(S!Located(t), t))
  BY DEF S!Delete
<1>2. PICK s \in S!Sprints : s = S!Located(t)
  BY <1>1, LocatedHolds
<1>3. PICK q : q = S!DeleteFrom(s, t)
  OBVIOUS
<1>4. /\ q \in Seq(ShardStages)
      /\ \A i \in 1..Len(q) : Harmless(q[i], s, {u \in Tickets \ {t} : S!IsIn(u, s)})
  BY <1>i, <1>3, DeleteMade
<1>5. /\ job' = [op |-> "delete", todo |-> q, tickets |-> {t}, to |-> s, undo |-> FALSE]
      /\ shards' = shards /\ begun' = begun + 1 /\ sure' = sure \ {t}
  BY <1>1, <1>2, <1>3 DEF S!Begin, S!fileVars
<1>6. ShardTyped'
  <2>1. \A i \in 1..Len(q) : q[i].what # "shards" => DOMAIN q[i].files = {}
    BY <1>4 DEF Harmless
  <2>2. sure' \subseteq sure /\ {t} \in SUBSET Tickets
    BY <1>5
  <2> QED BY <1>i, <1>4, <1>5, <2>1, <2>2, BegunTyped DEF S!AllOps
<1>7. ASSUME "manifest" \notin Failing, NEW u \in sure' PROVE Kept(u)'
  <2>1. u \in Tickets /\ u # t /\ u \in sure
    BY <1>i, <1>5 DEF ShardTyped
  <2>2. PICK w \in S!Sprints : S!IsIn(u, w)
    BY <1>i, <1>7, <2>1, HeldBefore DEF AllKept
  <2> DEFINE U == {x \in Tickets \ {t} : S!IsIn(x, s)}
  <2>3. job'.todo = q /\ (S!IsIn(u, s) => u \in U) /\ \A i \in 1..Len(q) : Harmless(q[i], s, U)
    BY <1>4, <1>5, <2>1
  <2> HIDE DEF U
  <2> QED BY <1>5, <2>1, <2>2, <2>3, OneKept
<1>8. Promised' /\ SourceLast'
  BY <1>5 DEF Promised, SourceLast
<1> QED BY <1>6, <1>7, <1>8 DEF ShardInv, AllKept

LEMMA SaveStep ==
  ASSUME ShardInv, S!Save PROVE ShardInv'
<1>i. ShardTyped /\ AllKept
  BY DEF ShardInv
<1> DEFINE New(s, T) == [t \in Tickets |-> IF t \in T THEN begun + 1 ELSE S!Content(s)[t]]
<1>1. PICK s \in S!Sprints, T \in S!Bulks :
        /\ \A t \in T : S!IsIn(t, s)
        /\ S!Begin("save", T, s, S!WriteSprint(s, New(s, T)))
  BY DEF S!Save
<1>2. T \in SUBSET Tickets /\ begun + 1 \in Nat
  BY <1>i DEF S!Bulks, ShardTyped
<1>3. PICK new, q : new = New(s, T) /\ q = S!WriteSprint(s, new)
  OBVIOUS
<1>4. new \in Held /\ \A t \in Tickets : S!IsIn(t, s) => new[t] # Absent
  <2>1. \A t \in Tickets : S!Content(s)[t] \in Nat \cup {Absent}
    BY <1>i, ShardConstants DEF ShardTyped, S!Content, Held
  <2>2. new \in Held
    BY <1>2, <1>3, <2>1 DEF Held
  <2> QED BY <1>2, <1>3, <2>2, ShardConstants DEF S!Content, S!IsIn
<1>5. /\ q \in Seq(ShardStages)
      /\ \A i \in 1..Len(q) : Harmless(q[i], s, {t \in Tickets : new[t] # Absent})
  BY <1>i, <1>3, <1>4, SavedMade
<1>6. /\ job' = [op |-> "save", todo |-> q, tickets |-> T, to |-> s, undo |-> FALSE]
      /\ shards' = shards /\ begun' = begun + 1 /\ sure' = sure
  BY <1>1, <1>3 DEF S!Begin, S!fileVars
<1>7. ShardTyped'
  <2>1. \A i \in 1..Len(q) : q[i].what # "shards" => DOMAIN q[i].files = {}
    BY <1>5 DEF Harmless
  <2> QED BY <1>i, <1>2, <1>5, <1>6, <2>1, BegunTyped DEF S!AllOps
<1>8. ASSUME "manifest" \notin Failing, NEW u \in sure PROVE Kept(u)'
  <2>1. u \in Tickets
    BY <1>i DEF ShardTyped
  <2>2. PICK w \in S!Sprints : S!IsIn(u, w)
    BY <1>i, <1>8, <2>1, HeldBefore DEF AllKept
  <2> DEFINE U == {t \in Tickets : new[t] # Absent}
  <2>3. job'.todo = q /\ (S!IsIn(u, s) => u \in U) /\ \A i \in 1..Len(q) : Harmless(q[i], s, U)
    BY <1>4, <1>5, <1>6, <2>1
  <2> HIDE DEF U
  <2> QED BY <1>6, <2>1, <2>2, <2>3, OneKept
<1>9. Promised'
  <2>1. \A t \in T : S!IsIn(t, s) /\ t \in Tickets /\ new[t] # Absent
    BY <1>1, <1>2, <1>4
  <2>2. \A t \in T : \A i \in 1..Len(q) : ~Drops(q[i], t)
    BY <1>5, <2>1 DEF Harmless
  <2>3. job'.todo = q /\ job'.to = s /\ job'.tickets = T
    BY <1>6
  <2>4. \A t \in T : S!IsIn(t, s)'
    BY <1>6, <2>1 DEF S!IsIn
  <2> QED BY <2>2, <2>3, <2>4 DEF Promised
<1>10. SourceLast'
  BY <1>6 DEF SourceLast
<1> QED BY <1>6, <1>7, <1>8, <1>9, <1>10 DEF ShardInv, AllKept

LEMMA RotationStep ==
  ASSUME ShardInv, S!Rotate PROVE ShardInv'
<1>i. ShardTyped /\ AllKept
  BY DEF ShardInv
<1> DEFINE Old(T) == [t \in Tickets |-> IF t \in T THEN S!Content(S!Current)[t]
                                       ELSE S!Content(S!History)[t]]
           Rest(T) == [t \in Tickets |-> IF t \in T THEN Absent ELSE S!Content(S!Current)[t]]
<1>1. PICK T \in S!Bulks :
        /\ \A t \in T : S!IsIn(t, S!Current)
        /\ S!Begin("rotate", T, S!History, S!WriteSprint(S!History, Old(T))
                                          \o S!WriteSprint(S!Current, Rest(T)))
  BY DEF S!Rotate
<1>2. T \in SUBSET Tickets
  BY DEF S!Bulks
<1>3. PICK s, z, old, rest, p, d :
        /\ s = S!History /\ z = S!Current /\ old = Old(T) /\ rest = Rest(T)
        /\ p = S!WriteSprint(s, old) /\ d = S!WriteSprint(z, rest)
  OBVIOUS
<1>4. s \in S!Sprints /\ z \in S!Sprints /\ s # z
  BY <1>3, ShardConstants
<1>5. /\ old \in Held /\ rest \in Held
      /\ \A t \in Tickets : S!IsIn(t, s) \/ t \in T => old[t] # Absent
      /\ \A t \in Tickets : S!IsIn(t, z) /\ t \notin T => rest[t] # Absent
  <2>1. \A t \in Tickets : /\ S!Content(s)[t] \in Nat \cup {Absent}
                           /\ S!Content(z)[t] \in Nat \cup {Absent}
                           /\ S!IsIn(t, s) <=> S!Content(s)[t] # Absent
                           /\ S!IsIn(t, z) <=> S!Content(z)[t] # Absent
    BY <1>i, <1>4, ShardConstants DEF ShardTyped, S!Content, Held, S!IsIn
  <2>2. \A t \in T : S!IsIn(t, z)
    BY <1>1, <1>3
  <2>3. old \in Held /\ rest \in Held
    BY <1>3, <2>1 DEF Held
  <2> QED BY <1>2, <1>3, <2>1, <2>2, <2>3
<1>6. /\ p \in Seq(ShardStages)
      /\ \A i \in 1..Len(p) : Harmless(p[i], s, {t \in Tickets : old[t] # Absent})
      /\ \A t \in Tickets : old[t] # Absent =>
           S!IsIn(t, s) \/ \E i \in 1..Len(p) : Brings(p[i], t)
  BY <1>i, <1>3, <1>4, <1>5, SavedMade
<1>7. /\ d \in Seq(ShardStages)
      /\ \A i \in 1..Len(d) : Harmless(d[i], z, {t \in Tickets : rest[t] # Absent})
  BY <1>i, <1>3, <1>4, <1>5, SavedMade
<1>8. /\ job' = [op |-> "rotate", todo |-> p \o d, tickets |-> T, to |-> s, undo |-> FALSE]
      /\ shards' = shards /\ begun' = begun + 1 /\ sure' = sure
  BY <1>1, <1>3 DEF S!Begin, S!fileVars
<1>9. ShardTyped'
  <2> DEFINE Good == {stage \in ShardStages : stage.what # "shards" => DOMAIN stage.files = {}}
  <2>1. /\ \A i \in 1..Len(p) : p[i] \in Good
        /\ \A i \in 1..Len(d) : d[i] \in Good
    BY <1>6, <1>7 DEF Harmless
  <2> HIDE DEF Good
  <2>2. p \o d \in Seq(ShardStages) /\ \A i \in 1..Len(p \o d) : (p \o d)[i] \in Good
    BY <1>6, <1>7, <2>1, Both
  <2>3. \A i \in 1..Len(p \o d) : (p \o d)[i].what # "shards" => DOMAIN (p \o d)[i].files = {}
    BY <2>2 DEF Good
  <2>4. PICK q : q = p \o d
    OBVIOUS
  <2> QED BY <1>i, <1>2, <1>4, <1>8, <2>2, <2>3, <2>4, BegunTyped DEF S!AllOps
<1>10. ASSUME "manifest" \notin Failing, NEW u \in sure PROVE Kept(u)'
  <2>1. u \in Tickets
    BY <1>i DEF ShardTyped
  <2>2. PICK w \in S!Sprints : S!IsIn(u, w)
    BY <1>i, <1>10, <2>1, HeldBefore DEF AllKept
  <2> DEFINE V == {t \in Tickets : old[t] # Absent}
             U == {t \in Tickets : rest[t] # Absent}
  <2>3. /\ \A i \in 1..Len(p) : Harmless(p[i], s, V)
        /\ \A i \in 1..Len(d) : Harmless(d[i], z, U)
        /\ S!IsIn(u, s) => u \in V
        /\ S!IsIn(u, z) => u \in U \/ S!IsIn(u, s)
                           \/ (u \in V /\ \E i \in 1..Len(p) : Brings(p[i], u))
    BY <1>5, <1>6, <1>7, <2>1
  <2> HIDE DEF V, U
  <2>4. job'.todo = p \o d
    BY <1>8
  <2> QED BY <1>4, <1>6, <1>7, <1>8, <2>1, <2>2, <2>3, <2>4, TwoKept
<1>11. Promised' /\ SourceLast'
  BY <1>8 DEF Promised, SourceLast
<1> QED BY <1>8, <1>9, <1>10, <1>11 DEF ShardInv, AllKept

LEMMA MovingStep ==
  ASSUME ShardInv, S!Move PROVE ShardInv'
<1>i. ShardTyped /\ AllKept
  BY DEF ShardInv
<1>1. PICK t \in Tickets, s \in S!Sprints :
        /\ S!Holders(t) # {} /\ ~S!IsIn(t, s)
        /\ S!Begin("move", {t}, s, S!Upserts(s, {t}, begun + 1)
                                  \o S!DeleteFrom(S!Located(t), t))
  BY DEF S!Move
<1>2. PICK z \in S!Sprints : z = S!Located(t) /\ S!IsIn(t, z)
  BY <1>1, LocatedHolds
<1>3. PICK p, d : p = S!Upserts(s, {t}, begun + 1) /\ d = S!DeleteFrom(z, t)
  OBVIOUS
<1>4. s # z /\ {t} \in SUBSET Tickets /\ begun + 1 \in Nat
  BY <1>i, <1>1, <1>2 DEF ShardTyped
<1>5. /\ p \in Seq(ShardStages)
      /\ \A i \in 1..Len(p) : Harmless(p[i], s, {t} \cup {u \in Tickets : S!IsIn(u, s)})
      /\ \A u \in {t} : \E i \in 1..Len(p) : Brings(p[i], u)
  BY <1>i, <1>3, <1>4, UpsertsMade
<1>6. /\ d \in Seq(ShardStages) /\ Len(d) = 2
      /\ d[1].what = "shards" /\ DOMAIN d[1].files = {BucketOf[t]} /\ d[2].what = "manifest"
      /\ \A i \in 1..Len(d) : Harmless(d[i], z, {u \in Tickets \ {t} : S!IsIn(u, z)})
  BY <1>i, <1>3, DeleteMade
<1>7. /\ job' = [op |-> "move", todo |-> p \o d, tickets |-> {t}, to |-> s, undo |-> FALSE]
      /\ shards' = shards /\ begun' = begun + 1 /\ sure' = sure
  BY <1>1, <1>2, <1>3 DEF S!Begin, S!fileVars
<1> DEFINE V == {t} \cup {u \in Tickets : S!IsIn(u, s)}
           U == {u \in Tickets \ {t} : S!IsIn(u, z)}
<1>8. /\ \A i \in 1..Len(p) : Harmless(p[i], s, V)
      /\ \A i \in 1..Len(d) : Harmless(d[i], z, U)
      /\ \A u \in Tickets : S!IsIn(u, s) => u \in V
      /\ \A u \in Tickets : S!IsIn(u, z) =>
           u \in U \/ (u \in V /\ \E i \in 1..Len(p) : Brings(p[i], u))
      /\ t \in V
  BY <1>5, <1>6
<1> HIDE DEF V, U
<1>9. PICK q : q = p \o d
  OBVIOUS
<1>10. /\ q \in Seq(ShardStages) /\ Len(q) = Len(p) + 2 /\ Len(p) \in Nat
       /\ \A i \in 1..Len(p) : i \in 1..Len(q) /\ q[i] = p[i]
       /\ q[Len(p) + 1] = d[1] /\ q[Len(p) + 2] = d[2]
  <2>0. p \in Seq(ShardStages) /\ d \in Seq(ShardStages)
    BY <1>5, <1>6
  <2>1. /\ \A i \in 1..Len(p) : p[i] \in ShardStages
        /\ \A i \in 1..Len(d) : d[i] \in ShardStages
    BY <2>0
  <2>2. /\ q \in Seq(ShardStages) /\ Len(q) = Len(p) + Len(d)
        /\ \A i \in 1..Len(p) : i \in 1..Len(q) /\ q[i] = p[i]
        /\ \A i \in 1..Len(d) : Len(p) + i \in 1..Len(q) /\ q[Len(p) + i] = d[i]
    BY <1>9, <2>0, <2>1, Both
  <2>3. Len(p) \in Nat
    BY <2>0
  <2>4. Len(d) = 2 /\ 1 \in 1..Len(d) /\ 2 \in 1..Len(d)
    BY <1>6
  <2> QED BY <2>2, <2>3, <2>4
<1>11. \A i \in 1..Len(q) : (i \in 1..Len(p) /\ q[i] = p[i])
                            \/ i = Len(p) + 1 \/ i = Len(p) + 2
  BY <1>10
<1>12. 1 \in 1..Len(d) /\ 2 \in 1..Len(d)
  BY <1>6
<1>13. ShardTyped'
  <2>1. /\ \A i \in 1..Len(p) : p[i].what # "shards" => DOMAIN p[i].files = {}
        /\ d[2].what # "shards" => DOMAIN d[2].files = {}
    BY <1>8, <1>12 DEF Harmless
  <2>2. \A i \in 1..Len(q) : q[i].what # "shards" => DOMAIN q[i].files = {}
    BY <1>6, <1>10, <1>11, <2>1
  <2>3. sure' \subseteq sure /\ "move" \in S!AllOps
    BY <1>7 DEF S!AllOps
  <2>4. job' = [op |-> "move", todo |-> q, tickets |-> {t}, to |-> s, undo |-> FALSE]
    BY <1>7, <1>9
  <2> QED BY <1>i, <1>4, <1>7, <1>10, <2>2, <2>3, <2>4, BegunTyped
<1>14. ASSUME "manifest" \notin Failing, NEW u \in sure PROVE Kept(u)'
  <2>1. u \in Tickets
    BY <1>i DEF ShardTyped
  <2>2. PICK w \in S!Sprints : S!IsIn(u, w)
    BY <1>i, <1>14, <2>1, HeldBefore DEF AllKept
  <2>3. /\ S!IsIn(u, s) => u \in V
        /\ S!IsIn(u, z) => u \in U \/ S!IsIn(u, s)
                           \/ (u \in V /\ \E i \in 1..Len(p) : Brings(p[i], u))
    BY <1>8, <2>1
  <2>4. job'.todo = p \o d
    BY <1>7
  <2> QED BY <1>4, <1>5, <1>6, <1>7, <1>8, <2>1, <2>2, <2>3, <2>4, TwoKept
<1>15. \A i \in 1..Len(p) : q[i] = p[i] /\ q[i].sprint = s /\ ~Drops(q[i], t)
  BY <1>8, <1>10 DEF Harmless
<1>16. d[1].sprint = z /\ d[2].sprint = z
  BY <1>8, <1>12 DEF Harmless
<1>17. job'.todo = q /\ job'.to = s /\ job'.tickets = {t} /\ job'.op = "move" /\ ~job'.undo
  BY <1>7, <1>9
<1>18. Promised'
  <2>1. PICK k \in 1..Len(p) : Brings(p[k], t)
    BY <1>5
  <2>2. k \in 1..Len(q) /\ q[k].sprint = s /\ Brings(q[k], t)
    BY <1>10, <1>15, <2>1
  <2>3. \A i \in 1..Len(q) : q[i].sprint = s => ~Drops(q[i], t)
    BY <1>4, <1>10, <1>11, <1>15, <1>16
  <2> QED BY <1>17, <2>2, <2>3 DEF Promised
<1>19. SourceLast'
  <2>1. S!IsIn(t, z)'
    BY <1>2, <1>7 DEF S!IsIn
  <2>2. \A i \in 1..Len(q) : q[i].sprint # s =>
          /\ q[i].what \in {"shards", "manifest"}
          /\ q[i].what = "shards" => /\ i = Len(q) - 1
                                     /\ DOMAIN q[i].files = {BucketOf[t]}
                                     /\ q[i].sprint = z
    BY <1>6, <1>10, <1>11, <1>15, <1>16
  <2>3. \A i \in 1..Len(q) : q[i].sprint # s =>
          /\ q[i].what \in {"shards", "manifest"}
          /\ q[i].what = "shards" => /\ i = Len(q) - 1
                                     /\ DOMAIN q[i].files = {BucketOf[t]}
                                     /\ S!IsIn(t, q[i].sprint)'
    BY <2>1, <2>2
  <2> QED BY <1>17, <2>3 DEF SourceLast
<1> QED BY <1>7, <1>13, <1>14, <1>18, <1>19 DEF ShardInv, AllKept

(* The process dies, or a write raises: what has been written stays.       *)
LEMMA ShardsOver ==
  ASSUME ShardInv, shards' = shards, sure' = sure, begun' = begun, job' = S!NoJob
  PROVE  ShardInv'
<1>1. job' = [op |-> "none", todo |-> <<>>, tickets |-> {}, to |-> "current", undo |-> FALSE]
  BY ShardConstants DEF S!NoJob
<1>2. job' \in ShardJobs /\ Len(job'.todo) = 0
  BY <1>1, ShardConstants DEF ShardJobs
<1>3. \A i \in 1..Len(job'.todo) : FALSE
  BY <1>2
<1>4. ShardTyped'
  <2>1. /\ shards' = [s \in S!Sprints |-> [b \in Buckets |-> shards'[s][b]]]
        /\ \A s \in S!Sprints, b \in Buckets : shards'[s][b].held \in Held
        /\ begun' \in Nat /\ sure' \subseteq Tickets
    BY DEF ShardInv, ShardTyped
  <2> QED BY <1>2, <1>3, <2>1 DEF ShardTyped
<1>5. ASSUME "manifest" \notin Failing, NEW u \in sure PROVE Kept(u)'
  <2>1. u \in Tickets /\ Kept(u)
    BY <1>5 DEF ShardInv, ShardTyped, AllKept
  <2>2. PICK w \in S!Sprints : S!IsIn(u, w)
    BY <2>1, HeldBefore
  <2>3. S!IsIn(u, w)'
    BY <2>2 DEF S!IsIn
  <2> QED BY <1>3, <2>3, Zenon DEF Kept
<1>6. Promised' /\ SourceLast'
  BY <1>1 DEF Promised, SourceLast
<1> QED BY <1>4, <1>5, <1>6 DEF ShardInv, AllKept

LEMMA UndoStep ==
  ASSUME ShardInv, S!WriteFails PROVE ShardInv'
<1>1. /\ job.todo # <<>> /\ Head(job.todo).what \in Failing
      /\ shards' = shards /\ sure' = sure /\ begun' = begun
      /\ job' = IF S!Removing
                THEN [job EXCEPT !.undo = TRUE,
                        !.todo = S!DeleteFrom(job.to, CHOOSE t \in job.tickets : TRUE)]
                ELSE S!NoJob
  BY DEF S!WriteFails, S!fileVars
<1>2. CASE ~S!Removing
  BY <1>1, <1>2, ShardsOver
<1>3. CASE S!Removing
  <2>i. ShardTyped /\ AllKept /\ SourceLast
    BY DEF ShardInv
  <2>1. job.op = "move" /\ ~job.undo /\ Head(job.todo).sprint # job.to
    BY <1>3 DEF S!Removing
  <2>2. PICK t \in Tickets :
          /\ job.tickets = {t}
          /\ \A i \in 1..Len(job.todo) : job.todo[i].sprint # job.to =>
               /\ job.todo[i].what \in {"shards", "manifest"}
               /\ job.todo[i].what = "shards" => S!IsIn(t, job.todo[i].sprint)
    BY <2>i, <2>1 DEF SourceLast
  <2>3. job \in ShardJobs /\ job.todo \in Seq(ShardStages) /\ job.to \in S!Sprints
    BY <2>i DEF ShardTyped, ShardJobs
  <2>4. /\ 1 \in 1..Len(job.todo) /\ Head(job.todo) = job.todo[1]
        /\ job.todo[1] \in ShardStages /\ job.todo[1].sprint \in S!Sprints
    <3>1. job.todo \in Seq(ShardStages) /\ job.todo # <<>>
      BY <1>1, <2>3
    <3>2. PICK todo \in Seq(ShardStages) : todo = job.todo
      BY <3>1
    <3>3. 1 \in 1..Len(todo) /\ Head(todo) = todo[1] /\ todo[1] \in ShardStages
      BY <3>1, <3>2
    <3>4. todo[1].sprint \in S!Sprints
      BY <3>3 DEF ShardStages
    <3> QED BY <3>2, <3>3, <3>4
  <2>5. ASSUME "manifest" \notin Failing
        PROVE  \E z \in S!Sprints : z # job.to /\ S!IsIn(t, z)
    BY <1>1, <2>1, <2>2, <2>4, <2>5
  <2>6. PICK s \in S!Sprints : s = job.to
    BY <2>3
  <2>7. PICK q : q = S!DeleteFrom(s, t)
    OBVIOUS
  <2>8. /\ q \in Seq(ShardStages)
        /\ \A i \in 1..Len(q) : Harmless(q[i], s, {u \in Tickets \ {t} : S!IsIn(u, s)})
    BY <2>i, <2>7, DeleteMade
  <2>9. job' = [job EXCEPT !.undo = TRUE, !.todo = q]
    <3>1. (CHOOSE u \in job.tickets : TRUE) = t
      BY <2>2
    <3> QED BY <1>1, <1>3, <2>6, <2>7, <3>1
  <2>10. job' \in ShardJobs /\ job'.todo = q /\ job'.undo
    BY <2>3, <2>8, <2>9 DEF ShardJobs
  <2>11. ShardTyped'
    <3>1. \A i \in 1..Len(q) : q[i].what # "shards" => DOMAIN q[i].files = {}
      BY <2>8 DEF Harmless
    <3>2. /\ shards' = [w \in S!Sprints |-> [b \in Buckets |-> shards'[w][b]]]
          /\ \A w \in S!Sprints, b \in Buckets : shards'[w][b].held \in Held
          /\ begun' \in Nat /\ sure' \subseteq Tickets
      BY <1>1, <2>i DEF ShardTyped
    <3> QED BY <2>10, <3>1, <3>2 DEF ShardTyped
  <2>12. ASSUME "manifest" \notin Failing, NEW u \in sure PROVE Kept(u)'
    <3> DEFINE U == {x \in Tickets \ {t} : S!IsIn(x, s)}
    <3>1. u \in Tickets
      BY <2>i DEF ShardTyped
    <3>2. \A i \in 1..Len(q) : Harmless(q[i], s, U)
      BY <2>8
    <3>3. CASE u # t
      <4>1. PICK w \in S!Sprints : S!IsIn(u, w)
        BY <2>i, <2>12, <3>1, HeldBefore DEF AllKept
      <4>2. S!IsIn(u, s) => u \in U
        BY <3>1, <3>3
      <4> HIDE DEF U
      <4> QED BY <1>1, <2>10, <3>1, <3>2, <4>1, <4>2, OneKept
    <3>4. CASE u = t
      <4>0. PICK z \in S!Sprints : z # job.to /\ S!IsIn(t, z)
        BY <2>5, <2>12
      <4>1. S!IsIn(u, z)'
        BY <1>1, <3>4, <4>0 DEF S!IsIn
      <4>2. \A i \in 1..Len(q) : q[i].sprint # z
        BY <2>6, <3>2, <4>0 DEF Harmless
      <4> QED BY <2>10, <4>1, <4>2 DEF Kept
    <3> QED BY <3>3, <3>4
  <2>13. Promised' /\ SourceLast'
    BY <2>10 DEF Promised, SourceLast
  <2> QED BY <1>1, <2>11, <2>12, <2>13 DEF ShardInv, AllKept
<1> QED BY <1>2, <1>3

LEMMA AcknowledgeStep ==
  ASSUME ShardInv, S!Acknowledge PROVE ShardInv'
<1>i. ShardTyped /\ AllKept /\ Promised
  BY DEF ShardInv
<1>1. /\ job.todo = <<>> /\ job' = S!NoJob /\ job.op # "none"
      /\ shards' = shards /\ begun' = begun
  BY DEF S!Acknowledge, S!Idle, S!fileVars
<1>2. \A i \in 1..Len(job.todo) : FALSE
  BY <1>1
<1>3. sure' = sure \/ (sure' = sure \cup job.tickets /\ job.op \in {"put", "move", "save"} /\ ~job.undo)
  <2>1. job.op \in S!AllOps
    BY <1>i, <1>1 DEF ShardTyped, ShardJobs
  <2> QED BY <2>1 DEF S!Acknowledge, S!AllOps
<1>4. job.tickets \in SUBSET Tickets /\ job.to \in S!Sprints /\ sure \subseteq Tickets
  BY <1>i DEF ShardTyped, ShardJobs
<1>5. ASSUME "manifest" \notin Failing, NEW u \in sure'
      PROVE  u \in Tickets /\ \E w \in S!Sprints : S!IsIn(u, w)
  <2>1. CASE u \in sure
    BY <1>i, <1>4, <1>5, <2>1, HeldBefore DEF AllKept
  <2>2. CASE u \notin sure
    BY <1>i, <1>2, <1>3, <1>4, <1>5, <2>2 DEF Promised
  <2> QED BY <2>1, <2>2
<1>6. job' = [op |-> "none", todo |-> <<>>, tickets |-> {}, to |-> "current", undo |-> FALSE]
  BY <1>1, ShardConstants DEF S!NoJob
<1>7. job' \in ShardJobs /\ Len(job'.todo) = 0
  BY <1>6, ShardConstants DEF ShardJobs
<1>8. \A i \in 1..Len(job'.todo) : FALSE
  BY <1>7
<1>9. ShardTyped'
  <2>1. /\ shards' = [s \in S!Sprints |-> [b \in Buckets |-> shards'[s][b]]]
        /\ \A s \in S!Sprints, b \in Buckets : shards'[s][b].held \in Held
        /\ begun' \in Nat
    BY <1>i, <1>1 DEF ShardTyped
  <2>2. sure' \subseteq Tickets
    BY <1>3, <1>4
  <2> QED BY <1>7, <1>8, <2>1, <2>2 DEF ShardTyped
<1>10. ASSUME "manifest" \notin Failing, NEW u \in sure' PROVE Kept(u)'
  <2>1. PICK w \in S!Sprints : S!IsIn(u, w)
    BY <1>5, <1>10
  <2>2. S!IsIn(u, w)'
    BY <1>1, <2>1 DEF S!IsIn
  <2> QED BY <1>8, <2>2, Zenon DEF Kept
<1>11. Promised' /\ SourceLast'
  BY <1>6 DEF Promised, SourceLast
<1> QED BY <1>9, <1>10, <1>11 DEF ShardInv, AllKept

(* One write of the job: shard b of the first stage, if it has one, is     *)
(* replaced, and the stage goes with the last of its shards (d = 1).       *)
Wrote(d, b) ==
  /\ job' = [job EXCEPT !.todo = job'.todo] /\ sure' = sure /\ begun' = begun
  /\ job'.todo \in Seq(ShardStages) /\ Len(job'.todo) = Len(job.todo) - d
  /\ 1 \in 1..Len(job.todo)
  /\ \A i \in 1..Len(job'.todo) :
       /\ i + d \in 1..Len(job.todo)
       /\ job'.todo[i].sprint = job.todo[i + d].sprint
       /\ job'.todo[i].what = job.todo[i + d].what
       /\ i + d # 1 => job'.todo[i] = job.todo[i + d]
       /\ i + d = 1 => /\ job.todo[1].what = "shards" /\ b \in DOMAIN job.todo[1].files
                       /\ DOMAIN job'.todo[1].files # {}
                       /\ DOMAIN job'.todo[1].files = DOMAIN job.todo[1].files \ {b}
       /\ \A t \in Tickets : Drops(job'.todo[i], t) <=>
            Drops(job.todo[i + d], t) /\ ~(i + d = 1 /\ BucketOf[t] = b)
       /\ \A t \in Tickets : Brings(job'.todo[i], t) <=>
            Brings(job.todo[i + d], t) /\ ~(i + d = 1 /\ BucketOf[t] = b)
       /\ \A t \in Tickets : Writes(job'.todo[i], t) <=>
            Writes(job.todo[i + d], t) /\ ~(i + d = 1 /\ BucketOf[t] = b)
       /\ \A t \in Tickets : Writes(job'.todo[i], t) =>
            Value(job'.todo[i], t) = Value(job.todo[i + d], t)
  /\ d = 1 => DOMAIN job.todo[1].files \subseteq {b}
  /\ \A t \in Tickets, s \in S!Sprints : S!IsIn(t, s)' <=>
       IF s = job.todo[1].sprint /\ BucketOf[t] = b /\ b \in DOMAIN job.todo[1].files
       THEN Brings(job.todo[1], t) ELSE S!IsIn(t, s)
  /\ b \in DOMAIN job.todo[1].files \/ (DOMAIN job.todo[1].files = {} /\ d = 1)
  /\ \A s \in S!Sprints, c \in Buckets : shards'[s][c] =
       IF s = job.todo[1].sprint /\ c = b /\ b \in DOMAIN job.todo[1].files
       THEN S!Stored(job.todo[1].files[b]) ELSE shards[s][c]
  /\ shards' = [s \in S!Sprints |-> [c \in Buckets |-> shards'[s][c]]]
  /\ \A s \in S!Sprints, c \in Buckets : shards'[s][c].held \in Held

WroteShard(b) == b \in DOMAIN Head(job.todo).files => S!WriteShard(Head(job.todo).sprint, b)

LEMMA WorkWrites ==
  ASSUME ShardTyped, S!Work
  PROVE  \E d \in {0, 1}, b \in Buckets : Wrote(d, b) /\ WroteShard(b)
<1> DEFINE todo == job.todo
           head == Head(todo)
           left == Tail(todo)
<1>0. head.what = "shards" => \E b \in DOMAIN head.files :
        /\ S!WriteShard(head.sprint, b)
        /\ job' = [job EXCEPT !.todo =
             S!Shards(head.sprint, [c \in DOMAIN head.files \ {b} |-> head.files[c]]) \o left]
  BY DEF S!Work
<1>w. head.what # "shards" /\ DOMAIN head.files = {} =>
        shards' = shards /\ job' = [job EXCEPT !.todo = left]
  BY DEF S!Work, S!WriteManifest, S!WriteFirstManifest, S!WriteMetadata
<1>1. todo = job.todo
  OBVIOUS
<1>3. head = Head(todo) /\ left = Tail(todo)
  OBVIOUS
<1> HIDE DEF todo, head, left
<1>2. job \in ShardJobs /\ todo \in Seq(ShardStages) /\ todo # <<>>
  BY <1>1 DEF ShardTyped, ShardJobs, S!Work
<1>4. /\ head \in ShardStages /\ head = todo[1] /\ 1 \in 1..Len(todo)
      /\ left \in Seq(ShardStages) /\ Len(left) = Len(todo) - 1 /\ Len(todo) \in Nat
      /\ \A i \in 1..Len(left) : i + 1 \in 1..Len(todo) /\ left[i] = todo[i + 1]
  BY <1>2, <1>3
<1>5. sure' = sure /\ begun' = begun
  BY DEF S!Work
<1>6. head.sprint \in S!Sprints /\ head.files \in FileSets
  BY <1>4 DEF ShardStages
<1>7. DOMAIN head.files \in SUBSET Buckets /\ \A b \in DOMAIN head.files : head.files[b] \in Held
  BY <1>6, FileSetsAre
<1>8. CASE head.what # "shards"
  <2>1. DOMAIN head.files = {}
    BY <1>1, <1>4, <1>8 DEF ShardTyped
  <2>2. shards' = shards /\ job' = [job EXCEPT !.todo = left]
    BY <1>w, <1>8, <2>1
  <2>3. job'.todo = left /\ job' = [job EXCEPT !.todo = job'.todo]
    BY <1>2, <2>2 DEF ShardJobs
  <2>4. PICK b \in Buckets : TRUE
    BY ShardAssumption
  <2>5. /\ shards' = [s \in S!Sprints |-> [c \in Buckets |-> shards'[s][c]]]
        /\ \A s \in S!Sprints, c \in Buckets : shards'[s][c].held \in Held
        /\ \A t \in Tickets, s \in S!Sprints : S!IsIn(t, s)' <=> S!IsIn(t, s)
        /\ \A s \in S!Sprints, c \in Buckets : shards'[s][c] = shards[s][c]
    BY <2>2 DEF ShardTyped, S!IsIn
  <2>6. \A i \in 1..Len(left) : i + 1 # 1 /\ i + 1 \in 1..Len(todo) /\ left[i] = todo[i + 1]
    BY <1>4
  <2>7. Wrote(1, b)
    BY <1>1, <1>4, <1>5, <2>1, <2>3, <2>5, <2>6 DEF Wrote
  <2>8. WroteShard(b)
    BY <2>1 DEF WroteShard, head, todo
  <2> QED BY <2>7, <2>8
<1>9. CASE head.what = "shards"
  <2>1. PICK b \in DOMAIN head.files :
          /\ S!WriteShard(head.sprint, b)
          /\ job' = [job EXCEPT !.todo =
               S!Shards(head.sprint, [c \in DOMAIN head.files \ {b} |-> head.files[c]]) \o left]
    BY <1>0, <1>9
  <2> DEFINE f == [c \in DOMAIN head.files \ {b} |-> head.files[c]]
  <2>2. b \in Buckets /\ f \in FileSets /\ DOMAIN f = DOMAIN head.files \ {b}
        /\ \A c \in DOMAIN f : f[c] = head.files[c]
    <3>1. DOMAIN head.files \ {b} \in SUBSET Buckets /\ f \in [DOMAIN head.files \ {b} -> Held]
      BY <1>7
    <3> QED BY <1>7, <3>1, FileSetsMade
  <2>3. shards' = [shards EXCEPT ![head.sprint][b] = S!Stored(head.files[b])]
    BY <1>1, <1>3 , <2>1 DEF S!WriteShard
  <2>4. S!Stored(head.files[b]).held = head.files[b]
    BY DEF S!Stored, S!Missing
  <2>5. /\ shards' = [s \in S!Sprints |-> [c \in Buckets |-> shards'[s][c]]]
        /\ \A s \in S!Sprints, c \in Buckets : shards'[s][c].held =
             IF s = head.sprint /\ c = b THEN head.files[b] ELSE shards[s][c].held
    <3>1. /\ shards = [s \in S!Sprints |-> [c \in Buckets |-> shards[s][c]]]
          /\ head.sprint \in S!Sprints
      BY <1>6 DEF ShardTyped
    <3>2. shards' = [s \in S!Sprints |-> [c \in Buckets |->
                      IF s = head.sprint /\ c = b THEN S!Stored(head.files[b]) ELSE shards[s][c]]]
      BY <2>2, <2>3, <3>1
    <3> QED BY <2>4, <3>2
  <2>6. \A s \in S!Sprints, c \in Buckets : shards'[s][c].held \in Held
    BY <1>7, <2>5 DEF ShardTyped
  <2>7. \A t \in Tickets, s \in S!Sprints : S!IsIn(t, s)' <=>
          IF s = head.sprint /\ BucketOf[t] = b /\ b \in DOMAIN head.files
          THEN Brings(head, t) ELSE S!IsIn(t, s)
    BY <2>5, ShardConstants DEF S!IsIn, Brings, Writes, Value
  <2> HIDE DEF f
  <2>7s. \A s \in S!Sprints, c \in Buckets : shards'[s][c] =
           IF s = todo[1].sprint /\ c = b /\ b \in DOMAIN todo[1].files
           THEN S!Stored(todo[1].files[b]) ELSE shards[s][c]
    BY <1>4, <1>6, <2>2, <2>3 DEF ShardTyped
  <2>7w. WroteShard(b)
    BY <2>1 DEF WroteShard, head, todo
  <2>8. CASE DOMAIN f = {}
    <3>1. S!Shards(head.sprint, f) = <<>>
      BY <2>8 DEF S!Shards
    <3>2. <<>> \o left = left
      BY <1>4
    <3>3. job' = [job EXCEPT !.todo = left]
      BY <2>1, <3>1, <3>2 DEF f
    <3>4. job'.todo = left /\ job' = [job EXCEPT !.todo = job'.todo]
      BY <1>2, <3>3 DEF ShardJobs
    <3>5. \A i \in 1..Len(left) : i + 1 # 1 /\ i + 1 \in 1..Len(todo) /\ left[i] = todo[i + 1]
      BY <1>4
    <3>6. DOMAIN todo[1].files \subseteq {b} /\ b \in DOMAIN todo[1].files
      BY <1>4, <2>2, <2>8
    <3>6t. \A t \in Tickets, s \in S!Sprints : S!IsIn(t, s)' <=>
             IF s = todo[1].sprint /\ BucketOf[t] = b /\ b \in DOMAIN todo[1].files
             THEN Brings(todo[1], t) ELSE S!IsIn(t, s)
      BY <1>4, <2>7
    <3>7. Wrote(1, b)
      BY <1>1, <1>4, <1>5, <2>5, <2>6, <2>7s, <3>4, <3>5, <3>6, <3>6t DEF Wrote
    <3> QED BY <2>2, <2>7w, <3>7
  <2>9. CASE DOMAIN f # {}
    <3>1. PICK x : x = S!Stage("shards", head.sprint, f, {})
      OBVIOUS
    <3>2. x \in ShardStages /\ x.what = "shards" /\ x.sprint = head.sprint /\ x.files = f
      BY <1>6, <2>2, <3>1, StageMade
    <3>3. S!Shards(head.sprint, f) = <<x>>
      BY <2>9, <3>1 DEF S!Shards
    <3>4. PICK q : q = <<x>> \o left
      OBVIOUS
    <3>5. /\ q \in Seq(ShardStages) /\ Len(q) = Len(todo) /\ q[1] = x
          /\ \A i \in 1..Len(q) : i # 1 => q[i] = todo[i]
      <4>1. PICK p : p = <<x>>
        OBVIOUS
      <4>2. p \in Seq(ShardStages) /\ Len(p) = 1 /\ p[1] = x
        BY <3>2, <4>1
      <4>3. q = p \o left
        BY <3>4, <4>1
      <4>0. left \in Seq(ShardStages)
        BY <1>4
      <4>4. q \in Seq(ShardStages) /\ Len(q) = 1 + Len(left)
        <5>1. /\ \A i \in 1..Len(p) : p[i] \in ShardStages
              /\ \A i \in 1..Len(left) : left[i] \in ShardStages
          BY <3>2, <4>0, <4>2
        <5>2. p \in Seq(ShardStages)
          BY <4>2
        <5>3. p \o left \in Seq(ShardStages) /\ Len(p \o left) = Len(p) + Len(left)
          BY <4>0, <5>1, <5>2, Both
        <5> QED BY <4>2, <4>3, <5>3
      <4>5. \A i \in 1..Len(q) : q[i] = IF i <= 1 THEN p[i] ELSE left[i - 1]
        BY <4>0, <4>2, <4>3, <4>4
      <4>6. \A i \in 1..Len(q) : i # 1 => i - 1 \in 1..Len(left) /\ (i - 1) + 1 = i
        BY <1>4, <4>4
      <4>7. 1 \in 1..Len(q) /\ Len(q) = Len(todo)
        BY <1>4, <4>4
      <4>8. q[1] = x
        BY <4>2, <4>5, <4>7
      <4>9. \A i \in 1..Len(q) : i # 1 => q[i] = left[i - 1] /\ left[i - 1] = todo[i]
        BY <1>4, <4>5, <4>6
      <4> QED BY <4>4, <4>7, <4>8, <4>9
    <3>6. job' = [job EXCEPT !.todo = q]
      BY <2>1, <3>3, <3>4 DEF f
    <3>7. job'.todo = q /\ job' = [job EXCEPT !.todo = job'.todo]
      BY <1>2, <3>6 DEF ShardJobs
    <3>8. \A t \in Tickets : /\ Drops(x, t) <=> Drops(head, t) /\ BucketOf[t] # b
                             /\ Brings(x, t) <=> Brings(head, t) /\ BucketOf[t] # b
                             /\ Writes(x, t) <=> Writes(head, t) /\ BucketOf[t] # b
                             /\ Writes(x, t) => Value(x, t) = Value(head, t)
      BY <2>2, <3>2 DEF Drops, Brings, Writes, Value
    <3>9. \A i \in 1..Len(q) :
            /\ i + 0 = i /\ i + 0 \in 1..Len(todo)
            /\ q[i].sprint = todo[i].sprint /\ q[i].what = todo[i].what
            /\ i # 1 => q[i] = todo[i]
            /\ \A t \in Tickets : Drops(q[i], t) <=>
                 Drops(todo[i], t) /\ ~(i = 1 /\ BucketOf[t] = b)
            /\ \A t \in Tickets : Brings(q[i], t) <=>
                 Brings(todo[i], t) /\ ~(i = 1 /\ BucketOf[t] = b)
            /\ \A t \in Tickets : Writes(q[i], t) <=>
                 Writes(todo[i], t) /\ ~(i = 1 /\ BucketOf[t] = b)
            /\ \A t \in Tickets : Writes(q[i], t) => Value(q[i], t) = Value(todo[i], t)
      <4> TAKE i \in 1..Len(q)
      <4>1. i + 0 = i /\ i + 0 \in 1..Len(todo)
        BY <3>5
      <4>2. CASE i = 1
        BY <1>4, <1>9, <3>2, <3>5, <3>8, <4>1, <4>2
      <4>3. CASE i # 1
        BY <3>5, <4>1, <4>3
      <4> QED BY <4>2, <4>3
    <3>10. /\ DOMAIN q[1].files # {} /\ DOMAIN q[1].files = DOMAIN todo[1].files \ {b}
           /\ b \in DOMAIN todo[1].files /\ todo[1].what = "shards"
      BY <1>4, <1>9, <2>2, <2>9, <3>2, <3>5
    <3>11. Len(q) = Len(todo) - 0
      BY <1>4, <3>5
    <3>12. Wrote(0, b)
      <4>1. \A i \in 1..Len(q) : i + 0 = 1 => i = 1
        BY <3>9
      <4>2. \A t \in Tickets, s \in S!Sprints : S!IsIn(t, s)' <=>
              IF s = todo[1].sprint /\ BucketOf[t] = b /\ b \in DOMAIN todo[1].files
              THEN Brings(todo[1], t) ELSE S!IsIn(t, s)
        BY <1>4, <2>7
      <4> QED BY <1>1, <1>4, <1>5, <2>5, <2>6, <2>7s, <3>5, <3>7, <3>9, <3>10, <3>11, <4>1, <4>2 DEF Wrote
    <3> QED BY <2>2, <2>7w, <3>12
  <2> QED BY <2>8, <2>9
<1> QED BY <1>8, <1>9

LEMMA WorkStep ==
  ASSUME ShardInv, S!Work PROVE ShardInv'
<1>i. ShardTyped /\ AllKept /\ Promised /\ SourceLast
  BY DEF ShardInv
<1>1. PICK d \in {0, 1}, b \in Buckets : Wrote(d, b)
  BY <1>i, WorkWrites
<1>2. PICK old, new : old = job.todo /\ new = job'.todo
  OBVIOUS
<1>3. /\ job \in ShardJobs /\ job' = [job EXCEPT !.todo = new] /\ sure' = sure /\ begun' = begun
      /\ old \in Seq(ShardStages) /\ new \in Seq(ShardStages) /\ Len(new) = Len(old) - d
      /\ 1 \in 1..Len(old)
  BY <1>i, <1>1, <1>2 DEF Wrote, ShardTyped, ShardJobs
<1>4. \A i \in 1..Len(new) :
        /\ i + d \in 1..Len(old)
        /\ new[i].sprint = old[i + d].sprint /\ new[i].what = old[i + d].what
        /\ i + d # 1 => new[i] = old[i + d]
        /\ \A t \in Tickets : Drops(new[i], t) =>
             Drops(old[i + d], t) /\ ~(i + d = 1 /\ BucketOf[t] = b)
        /\ \A t \in Tickets : Brings(old[i + d], t) =>
             Brings(new[i], t) \/ (i + d = 1 /\ BucketOf[t] = b)
  BY <1>1, <1>2 DEF Wrote
<1>5. /\ d = 0 => /\ old[1].what = "shards" /\ b \in DOMAIN old[1].files
                  /\ DOMAIN new[1].files # {}
                  /\ DOMAIN new[1].files = DOMAIN old[1].files \ {b}
      /\ d = 1 => DOMAIN old[1].files \subseteq {b}
  <2>1. CASE d = 0
    <3>1. 1 \in 1..Len(new) /\ 1 + d = 1
      BY <1>3, <2>1
    <3> QED BY <1>1, <1>2, <2>1, <3>1 DEF Wrote
  <2>2. CASE d = 1
    BY <1>1, <1>2, <2>2 DEF Wrote
  <2> QED BY <2>1, <2>2
<1>6. \A t \in Tickets, s \in S!Sprints : S!IsIn(t, s)' <=>
        IF s = old[1].sprint /\ BucketOf[t] = b /\ b \in DOMAIN old[1].files
        THEN Brings(old[1], t) ELSE S!IsIn(t, s)
  BY <1>1, <1>2 DEF Wrote
<1>7. job' \in ShardJobs /\ job'.todo = new /\ job'.op = job.op /\ job'.undo = job.undo
      /\ job'.to = job.to /\ job'.tickets = job.tickets
  BY <1>3 DEF ShardJobs
<1>8. ShardTyped'
  <2>1. \A i \in 1..Len(new) : new[i].what # "shards" => DOMAIN new[i].files = {}
    <3> SUFFICES ASSUME NEW i \in 1..Len(new), new[i].what # "shards"
                 PROVE  DOMAIN new[i].files = {}
      OBVIOUS
    <3>1. i + d \in 1..Len(old) /\ old[i + d].what # "shards"
      BY <1>4
    <3>2. DOMAIN old[i + d].files = {}
      BY <1>i, <1>2, <3>1 DEF ShardTyped
    <3>3. CASE i + d = 1
      <4>1. d = 0
        BY <1>3, <3>3
      <4> QED BY <1>5, <3>1, <3>3, <4>1
    <3>4. CASE i + d # 1
      BY <1>4, <3>2, <3>4
    <3> QED BY <3>3, <3>4
  <2>2. /\ shards' = [s \in S!Sprints |-> [c \in Buckets |-> shards'[s][c]]]
        /\ \A s \in S!Sprints, c \in Buckets : shards'[s][c].held \in Held
    BY <1>1 DEF Wrote
  <2>3. begun' \in Nat /\ sure' \subseteq Tickets
    BY <1>i, <1>3 DEF ShardTyped
  <2> QED BY <1>7, <2>1, <2>2, <2>3 DEF ShardTyped
<1>9. \A i \in 2..Len(old) : i - d \in 1..Len(new) /\ (i - d) + d = i
  BY <1>3
<1>10. \A t \in Tickets : Brings(old[1], t) /\ BucketOf[t] # b => d = 0
  BY <1>5 DEF Brings, Writes, Value
<1>11. d = 0 => 1 \in 1..Len(new) /\ 1 + d = 1
  BY <1>3
<1>12. \A t \in Tickets, s \in S!Sprints :
         /\ S!IsIn(t, s) /\ ~(old[1].sprint = s /\ Drops(old[1], t)) => S!IsIn(t, s)'
         /\ s = old[1].sprint /\ BucketOf[t] = b /\ Brings(old[1], t) => S!IsIn(t, s)'
  BY <1>6 DEF Brings, Drops, Writes, Value
<1>13. \A i \in 1..Len(old) : old[i].sprint \in S!Sprints
  <2>1. old \in Seq(ShardStages)
    BY <1>3
  <2>2. \A i \in 1..Len(old) : old[i] \in ShardStages
    BY <2>1
  <2> QED BY <2>2 DEF ShardStages
<1>14. ASSUME "manifest" \notin Failing, NEW u \in sure PROVE Kept(u)'
  <2>1. u \in Tickets /\ Kept(u)
    BY <1>i, <1>14 DEF ShardTyped, AllKept
  <2> DEFINE NoDrop(s) == \A n \in 1..Len(old) : old[n].sprint = s => ~Drops(old[n], u)
  <2>2. PICK s \in S!Sprints :
          /\ S!IsIn(u, s)
          /\ \A i \in 1..Len(old) : old[i].sprint = s /\ Drops(old[i], u) =>
               \E k \in 1..(i - 1) : Brings(old[k], u) /\ NoDrop(old[k].sprint)
    BY <1>2, <2>1 DEF Kept
  <2>3. \A x : NoDrop(x) => \A n \in 1..Len(new) : new[n].sprint = x => ~Drops(new[n], u)
    BY <1>4, <2>1
  <2>4. CASE BucketOf[u] = b /\ Brings(old[1], u) /\ NoDrop(old[1].sprint)
    <3>0. old[1].sprint \in S!Sprints
      BY <1>3, <1>13
    <3>1. S!IsIn(u, old[1].sprint)'
      BY <1>12, <2>1, <2>4, <3>0
    <3>2. \A n \in 1..Len(new) : new[n].sprint = old[1].sprint => ~Drops(new[n], u)
      BY <2>3, <2>4
    <3> HIDE DEF NoDrop
    <3>3. \A n \in 1..Len(job'.todo) :
            ~(job'.todo[n].sprint = old[1].sprint /\ Drops(job'.todo[n], u))
      BY <1>7, <3>2
    <3> QED BY <3>0, <3>1, <3>3, Zenon DEF Kept
  <2>5. CASE ~(BucketOf[u] = b /\ Brings(old[1], u) /\ NoDrop(old[1].sprint))
    <3> HIDE DEF NoDrop
    <3>1. ~(old[1].sprint = s /\ Drops(old[1], u))
      <4>1. \A k \in 1..(1 - 1) : FALSE
        OBVIOUS
      <4> QED BY <1>3, <2>2, <4>1
    <3>2. S!IsIn(u, s)'
      BY <1>12, <2>1, <2>2, <3>1
    <3>3. ASSUME NEW i \in 1..Len(new), new[i].sprint = s, Drops(new[i], u)
          PROVE  \E k \in 1..(i - 1) :
                   /\ Brings(new[k], u)
                   /\ \A n \in 1..Len(new) : new[n].sprint = new[k].sprint => ~Drops(new[n], u)
      <4>1. i + d \in 1..Len(old) /\ old[i + d].sprint = s /\ Drops(old[i + d], u)
        BY <1>4, <2>1, <3>3
      <4>2. PICK k \in 1..(i + d - 1) : Brings(old[k], u) /\ NoDrop(old[k].sprint)
        BY <2>2, <4>1
      <4>3. k \in 1..Len(old)
        BY <1>3, <4>1
      <4>4. ~(k = 1 /\ BucketOf[u] = b)
        BY <2>5, <4>2
      <4>5. k - d \in 1..Len(new) /\ (k - d) + d = k /\ k - d \in 1..(i - 1)
        <5>1. CASE k = 1
          <6>1. d = 0
            BY <1>10, <2>1, <4>2, <4>4, <5>1
          <6> QED BY <1>11, <5>1, <6>1, <4>2
        <5>2. CASE k # 1
          <6>1. k \in 2..Len(old) /\ d \in {0, 1}
            BY <4>3, <5>2
          <6> QED BY <1>9, <4>2, <5>2, <6>1
        <5> QED BY <5>1, <5>2
      <4>6. Brings(new[k - d], u) /\ new[k - d].sprint = old[k].sprint
        BY <1>4, <2>1, <4>2, <4>4, <4>5
      <4>7. \A n \in 1..Len(new) : new[n].sprint = new[k - d].sprint => ~Drops(new[n], u)
        BY <2>3, <4>2, <4>6
      <4> QED BY <4>5, <4>6, <4>7
    <3>4. \A i \in 1..Len(new) : new[i].sprint = s /\ Drops(new[i], u) =>
             \E k \in 1..(i - 1) :
               /\ Brings(new[k], u)
               /\ \A n \in 1..Len(new) : new[n].sprint = new[k].sprint => ~Drops(new[n], u)
      BY <3>3
    <3>5. new = job'.todo
      BY <1>7
    <3> QED BY <2>2, <3>2, <3>4, <3>5 DEF Kept
  <2> QED BY <2>4, <2>5
<1>t. PICK to : to = job.to
  OBVIOUS
<1>15. Promised'
  <2> SUFFICES ASSUME job.op \in {"put", "move", "save"}, ~job.undo, NEW t \in job.tickets
               PROVE  /\ \A i \in 1..Len(new) : new[i].sprint = to => ~Drops(new[i], t)
                      /\ \/ S!IsIn(t, to)'
                         \/ \E i \in 1..Len(new) : new[i].sprint = to /\ Brings(new[i], t)
    BY <1>7, <1>t DEF Promised
  <2>1. t \in Tickets /\ to \in S!Sprints
    BY <1>3, <1>t DEF ShardJobs
  <2>2. /\ \A i \in 1..Len(old) : old[i].sprint = to => ~Drops(old[i], t)
        /\ \/ S!IsIn(t, to)
           \/ \E i \in 1..Len(old) : old[i].sprint = to /\ Brings(old[i], t)
    BY <1>i, <1>2, <1>t DEF Promised
  <2>3. \A i \in 1..Len(new) : new[i].sprint = to => ~Drops(new[i], t)
    BY <1>4, <2>1, <2>2
  <2>4. CASE S!IsIn(t, to)
    <3>1. 1 \in 1..Len(old)
      BY <1>3
    <3>2. ~(old[1].sprint = to /\ Drops(old[1], t))
      BY <2>2, <3>1
    <3>3. S!IsIn(t, to)'
      BY <1>12, <2>1, <2>4, <3>2
    <3> QED BY <2>3, <3>3
  <2>5. CASE \E i \in 1..Len(old) : old[i].sprint = to /\ Brings(old[i], t)
    <3>1. PICK i \in 1..Len(old) : old[i].sprint = to /\ Brings(old[i], t)
      BY <2>5
    <3>2. CASE i = 1 /\ BucketOf[t] = b
      <4>1. S!IsIn(t, to)'
        BY <1>12, <2>1, <3>1, <3>2
      <4> QED BY <2>3, <4>1
    <3>3. CASE ~(i = 1 /\ BucketOf[t] = b)
      <4>1. i - d \in 1..Len(new) /\ (i - d) + d = i
        <5>1. CASE i = 1
          <6>1. d = 0
            BY <1>10, <2>1, <3>1, <3>3, <5>1
          <6> QED BY <1>11, <5>1, <6>1
        <5>2. CASE i # 1
          <6>1. i \in 2..Len(old)
            BY <3>1, <5>2
          <6> QED BY <1>9, <6>1
        <5> QED BY <5>1, <5>2
      <4>2. new[i - d].sprint = to /\ Brings(new[i - d], t)
        BY <1>4, <2>1, <3>1, <3>3, <4>1
      <4> QED BY <2>3, <4>1, <4>2
    <3> QED BY <3>2, <3>3
  <2> QED BY <2>2, <2>4, <2>5
<1>16. SourceLast'
  <2> SUFFICES ASSUME job.op = "move", ~job.undo
               PROVE  \E t \in Tickets :
                        /\ job.tickets = {t}
                        /\ \A i \in 1..Len(new) : new[i].sprint # job.to =>
                             /\ new[i].what \in {"shards", "manifest"}
                             /\ new[i].what = "shards" => /\ i = Len(new) - 1
                                                          /\ DOMAIN new[i].files = {BucketOf[t]}
                                                          /\ S!IsIn(t, new[i].sprint)'
    BY <1>7 DEF SourceLast
  <2>1. PICK t \in Tickets :
          /\ job.tickets = {t}
          /\ \A i \in 1..Len(old) : old[i].sprint # job.to =>
               /\ old[i].what \in {"shards", "manifest"}
               /\ old[i].what = "shards" => /\ i = Len(old) - 1
                                            /\ DOMAIN old[i].files = {BucketOf[t]}
                                            /\ S!IsIn(t, old[i].sprint)
    BY <1>i, <1>2 DEF SourceLast
  <2>2. ASSUME NEW i \in 1..Len(new), new[i].sprint # job.to
        PROVE  /\ new[i].what \in {"shards", "manifest"}
               /\ new[i].what = "shards" => /\ i = Len(new) - 1
                                            /\ DOMAIN new[i].files = {BucketOf[t]}
                                            /\ S!IsIn(t, new[i].sprint)'
    <3>1. i + d \in 1..Len(old) /\ new[i].sprint = old[i + d].sprint /\ new[i].what = old[i + d].what
      BY <1>4
    <3>2. new[i].what \in {"shards", "manifest"}
      BY <2>1, <2>2, <3>1
    <3>3. ASSUME new[i].what = "shards"
          PROVE  /\ i = Len(new) - 1
                 /\ DOMAIN new[i].files = {BucketOf[t]}
                 /\ S!IsIn(t, new[i].sprint)'
      <4>1. /\ i + d = Len(old) - 1 /\ DOMAIN old[i + d].files = {BucketOf[t]}
            /\ S!IsIn(t, old[i + d].sprint)
        BY <2>1, <2>2, <3>1, <3>3
      <4>2. i = Len(new) - 1
        BY <1>3, <4>1
      <4>3. i + d # 1
        <5> SUFFICES ASSUME i + d = 1 PROVE FALSE
          OBVIOUS
        <5>1. d = 0
          BY <1>3
        <5>2. DOMAIN old[1].files = {BucketOf[t]} /\ DOMAIN old[1].files \ {b} # {}
          BY <1>5, <4>1, <5>1
        <5>3. b \in DOMAIN old[1].files
          BY <1>5, <5>1
        <5> QED BY <5>2, <5>3
      <4>4. new[i] = old[i + d]
        BY <1>4, <4>3
      <4>5. ~(old[1].sprint = old[i + d].sprint /\ Drops(old[1], t))
        <5> SUFFICES ASSUME old[1].sprint = old[i + d].sprint, Drops(old[1], t) PROVE FALSE
          OBVIOUS
        <5>1. old[1].sprint # job.to /\ DOMAIN old[1].files # {}
          BY <2>2, <3>1 DEF Drops, Writes, Value
        <5>2. old[1].what = "shards"
          BY <1>i, <1>2, <1>3, <5>1 DEF ShardTyped
        <5>3. 1 = Len(old) - 1
          BY <1>3, <2>1, <5>1, <5>2
        <5> QED BY <4>1, <4>3, <5>3
      <4>6. old[i + d].sprint \in S!Sprints
        BY <1>13, <3>1
      <4>7. S!IsIn(t, old[i + d].sprint)'
        BY <1>12, <4>1, <4>5, <4>6
      <4> QED BY <3>1, <4>1, <4>2, <4>4, <4>7
    <3> QED BY <3>2, <3>3
  <2> QED BY <2>1, <2>2
<1> QED BY <1>3, <1>8, <1>14, <1>15, <1>16 DEF ShardInv, AllKept

LEMMA ShardsQuiet ==
  ASSUME ShardInv, shards' = shards, job' = job, begun' = begun, sure' = sure
  PROVE  ShardInv'
<1>i. ShardTyped /\ AllKept /\ Promised /\ SourceLast
  BY DEF ShardInv
<1>1. ShardTyped'
  BY <1>i DEF ShardTyped
<1>2. \A t, s : S!IsIn(t, s)' <=> S!IsIn(t, s)
  BY DEF S!IsIn
<1>3. \A t : Kept(t)' <=> Kept(t)
  BY <1>2 DEF Kept
<1>4. Promised'
  BY <1>i, <1>2 DEF Promised, S!IsIn
<1>5. SourceLast'
  BY <1>i, <1>2 DEF SourceLast, S!IsIn
<1> QED BY <1>i, <1>1, <1>3, <1>4, <1>5 DEF ShardInv, AllKept

LEMMA ShardStep ==
  ShardInv /\ [S!Next]_shardVars => ShardInv'
<1> SUFFICES ASSUME ShardInv, [S!Next]_shardVars PROVE ShardInv'
  OBVIOUS
<1>1. CASE UNCHANGED shardVars
  BY <1>1, ShardsQuiet DEF shardVars
<1>2. CASE S!Put \/ S!Delete \/ S!Move \/ S!Save \/ S!Rotate
  BY <1>2, PutStep, DeleteStep, MovingStep, SaveStep, RotationStep
<1>3. CASE S!Work \/ S!Acknowledge \/ S!WriteFails
  BY <1>3, WorkStep, AcknowledgeStep, UndoStep
<1>4. CASE S!Crash
  BY <1>4, ShardsOver DEF S!Crash, S!fileVars
<1>5. CASE S!StartList \/ S!LoadShard \/ S!EndList
  BY <1>5, ShardsQuiet DEF S!StartList, S!LoadShard, S!EndList, S!fileVars, S!jobVars
<1>6. CASE S!StartSummary \/ S!CountShard \/ S!StatShard \/ S!EndSummary
  BY <1>6, ShardsQuiet
     DEF S!StartSummary, S!CountShard, S!StatShard, S!EndSummary, S!fileVars, S!jobVars
<1>7. S!Next => \/ S!Put \/ S!Delete \/ S!Move \/ S!Save \/ S!Rotate
                \/ S!Work \/ S!Acknowledge \/ S!WriteFails \/ S!Crash
                \/ S!StartList \/ S!LoadShard \/ S!EndList
                \/ S!StartSummary \/ S!CountShard \/ S!StatShard \/ S!EndSummary
  BY DEF S!Next
<1> QED BY <1>1, <1>2, <1>3, <1>4, <1>5, <1>6, <1>7

(* Whatever dies between whatever two files of a mutation, and whichever   *)
(* write of a shard raises, a ticket that was created and not deleted is   *)
(* in a shard. A manifest that cannot be written after the source of a     *)
(* move excludes this: the move is then undone at its destination.         *)
THEOREM NeverLostCorrect ==
  ASSUME "manifest" \notin Failing
  PROVE  StorageSpec => []NeverLost
<1>1. StorageInit => ShardInv
  BY ShardStarts DEF StorageInit
<1>2. ShardInv /\ [StorageNext]_allVars => ShardInv'
  <2>1. [StorageNext]_allVars => [S!Next]_shardVars
    BY DEF StorageNext, allVars
  <2> QED BY <2>1, ShardStep
<1>3. ShardInv => NeverLost
  BY HeldBefore DEF ShardInv, ShardTyped, AllKept, NeverLost, S!NeverLost, S!Holders
<1> QED BY <1>1, <1>2, <1>3, PTL DEF StorageSpec

-----------------------------------------------------------------------------
(* What readers of the shards see.                                         *)

(* Somebody remembers x as the stat of shard b of sprint s: the file       *)
(* itself, its manifest, the rebuild of it, the list that is loaded and    *)
(* the one that is cached.                                                 *)
Remembered(s, b, x) ==
  \/ x = shards[s][b].stat \/ x = manifest[s].entry[b].stat
  \/ s = sum.sprint /\ x = sum.entry[b].stat
  \/ s = S!Current /\ x = list.sig[b]
  \/ s = S!Current /\ cache # Absent /\ x = cache.sig[b]

(* The lists of stages write a shard once.                                 *)
Once == \A i, k \in 1..Len(job.todo) :
  /\ job.todo[i].sprint = job.todo[k].sprint
  /\ DOMAIN job.todo[i].files # {} /\ DOMAIN job.todo[k].files # {}
  => i = k

(* A job is about to write shard b of sprint s, with a stat that nobody    *)
(* remembers.                                                              *)
Coming(s, b) ==
  \E i \in 1..Len(job.todo) : job.todo[i].sprint = s /\ b \in DOMAIN job.todo[i].files
FreshStats ==
  /\ begun \in Nat \ {0}
  /\ \A s \in S!Sprints, b \in Buckets : \A x : Remembered(s, b, x) =>
       /\ x \in Nat /\ x <= 2 * begun + 1
       /\ ~S!Idle /\ ~job.undo => x <= 2 * begun
       /\ Coming(s, b) => x < S!Stat

NoneMissing ==
  \A s \in S!Sprints, b \in Buckets : shards[s][b].stat = 0 => shards[s][b].held = S!Empty

(* A stat that a file still has tells how much it holds.                   *)
Tells(entry, file) ==
  /\ entry.stat = file.stat => entry.count = S!Count(file.held)
  /\ entry.stat = 0 => entry.count = 0
ManifestsTell ==
  ~raced =>
    /\ \A s \in S!Sprints, b \in Buckets : Tells(manifest[s].entry[b], shards[s][b])
    /\ \A b \in Buckets : Tells(sum.entry[b], shards[sum.sprint][b])
    /\ sum.pc = "stat" => sum.count = S!Count(shards[sum.sprint][sum.bucket].held)

(* A stat that a file still has tells what it holds of t.                  *)
Reveals(x, value, file, t) ==
  /\ x = file.stat => value = file.held[t]
  /\ x = 0 => value = Absent
File(t) == shards[S!Current][BucketOf[t]]
LoadsTell == list.pc = "load" => \A t \in Tickets :
  /\ File(t).held[t] \in list.window[t]
  /\ list.sig[BucketOf[t]] = 0 => BucketOf[t] \notin list.left
  /\ BucketOf[t] \notin list.left =>
       /\ list.seen[t] \in list.window[t]
       /\ Reveals(list.sig[BucketOf[t]], list.seen[t], File(t), t)
CacheTells ==
  cache # Absent =>
    /\ cache.models = [t \in Tickets |-> cache.models[t]]
    /\ \A t \in Tickets : Reveals(cache.sig[BucketOf[t]], cache.models[t], File(t), t)

ReadsTyped ==
  /\ manifest = [s \in S!Sprints |-> [valid |-> manifest[s].valid,
                                      entry |-> [b \in Buckets |-> manifest[s].entry[b]]]]
  /\ list = [pc |-> list.pc, left |-> list.left, seen |-> [t \in Tickets |-> list.seen[t]],
             sig |-> [b \in Buckets |-> list.sig[b]],
             window |-> [t \in Tickets |-> list.window[t]]]
  /\ sum = [pc |-> sum.pc, sprint |-> sum.sprint, left |-> sum.left, bucket |-> sum.bucket,
            count |-> sum.count, entry |-> [b \in Buckets |-> sum.entry[b]]]
  /\ sum.sprint \in S!Sprints /\ sum.bucket \in Buckets /\ sum.left \subseteq Buckets

ReadsInv == ReadsTyped /\ Once /\ FreshStats /\ NoneMissing
            /\ ManifestsTell /\ LoadsTell /\ CacheTells

(* Versions, while nothing fails: a ticket that no job has is in one       *)
(* sprint at most and stays what it is; one of the job leaves every other  *)
(* sprint for that of the job; and nothing is older than what was          *)
(* acknowledged.                                                           *)
OneHolder == \A t \in Tickets \ job.tickets : \A s, z \in S!Sprints :
  S!IsIn(t, s) /\ S!IsIn(t, z) => s = z
OthersStay ==
  \A t \in Tickets \ job.tickets : \A i \in 1..Len(job.todo) :
    Writes(job.todo[i], t) => Value(job.todo[i], t) = S!Content(job.todo[i].sprint)[t]
Puts == job.op \in {"put", "move", "save"}
TicketsGo ==
  \A t \in job.tickets :
    /\ \A i \in 1..Len(job.todo) : Writes(job.todo[i], t) =>
         IF job.todo[i].sprint = job.to THEN Puts => Value(job.todo[i], t) = begun
         ELSE Value(job.todo[i], t) = Absent
    /\ \A s \in S!Sprints : S!IsIn(t, s) /\ s # job.to =>
         \E i \in 1..Len(job.todo) : job.todo[i].sprint = s /\ Writes(job.todo[i], t)
    /\ Puts => \/ S!Content(job.to)[t] = begun
               \/ \E i \in 1..Len(job.todo) : job.todo[i].sprint = job.to /\ Writes(job.todo[i], t)
NothingOlder ==
  \A t \in sure :
    /\ kept[t] \in Nat /\ kept[t] <= begun
    /\ \A s \in S!Sprints : S!IsIn(t, s) => S!Content(s)[t] >= kept[t]
    /\ \A i \in 1..Len(job.todo) : Brings(job.todo[i], t) => Value(job.todo[i], t) >= kept[t]
Versions == ~job.undo /\ OneHolder /\ OthersStay /\ TicketsGo /\ NothingOlder
IdleOwnsNone == S!Idle => job.tickets = {}
VersionInv ==
  /\ faults \in Nat
  /\ IdleOwnsNone
  /\ faults = 0 => Versions

LEMMA OfBoth ==
  ASSUME NEW X, NEW p \in Seq(X), NEW d \in Seq(X), NEW i \in 1..Len(p \o d)
  PROVE  \/ i \in 1..Len(p) /\ (p \o d)[i] = p[i]
         \/ i - Len(p) \in 1..Len(d) /\ (p \o d)[i] = d[i - Len(p)]
<1>1. /\ Len(p) \in Nat /\ Len(d) \in Nat /\ Len(p \o d) = Len(p) + Len(d)
      /\ (p \o d)[i] = IF i <= Len(p) THEN p[i] ELSE d[i - Len(p)]
  OBVIOUS
<1>2. CASE i <= Len(p)
  BY <1>1, <1>2
<1>3. CASE ~(i <= Len(p))
  BY <1>1, <1>3
<1> QED BY <1>2, <1>3

LEMMA OnceInOne ==
  ASSUME NEW s, NEW q, job'.todo = q, OneWrite(q), \A i \in 1..Len(q) : q[i].sprint = s
  PROVE  Once'
<1>1. PICK n \in Nat : \A i \in 1..Len(q) : DOMAIN q[i].files # {} => i = n
  BY DEF OneWrite
<1> QED BY <1>1 DEF Once

LEMMA OnceInTwo ==
  ASSUME NEW s, NEW z, s # z, NEW p \in Seq(ShardStages), NEW d \in Seq(ShardStages),
         job'.todo = p \o d, OneWrite(p), OneWrite(d),
         \A i \in 1..Len(p) : p[i].sprint = s, \A i \in 1..Len(d) : d[i].sprint = z
  PROVE  Once'
<1>1. PICK m \in Nat : \A i \in 1..Len(p) : DOMAIN p[i].files # {} => i = m
  BY DEF OneWrite
<1>2. PICK n \in Nat : \A i \in 1..Len(d) : DOMAIN d[i].files # {} => i = n
  BY DEF OneWrite
<1>3. PICK q : q = p \o d
  OBVIOUS
<1>4. \A i \in 1..Len(q) : DOMAIN q[i].files # {} =>
        \/ q[i].sprint = s /\ i = m
        \/ q[i].sprint = z /\ i = Len(p) + n
  <2> SUFFICES ASSUME NEW i \in 1..Len(q), DOMAIN q[i].files # {}
               PROVE  \/ q[i].sprint = s /\ i = m
                      \/ q[i].sprint = z /\ i = Len(p) + n
    OBVIOUS
  <2>1. \/ i \in 1..Len(p) /\ q[i] = p[i]
        \/ i - Len(p) \in 1..Len(d) /\ q[i] = d[i - Len(p)]
    BY <1>3, OfBoth
  <2>2. CASE i \in 1..Len(p) /\ q[i] = p[i]
    BY <1>1, <2>2
  <2>3. CASE i - Len(p) \in 1..Len(d) /\ q[i] = d[i - Len(p)]
    <3>1. q[i].sprint = z /\ i - Len(p) = n
      BY <1>2, <2>3
    <3>2. Len(p) \in Nat
      OBVIOUS
    <3> QED BY <3>1, <3>2
  <2> QED BY <2>1, <2>2, <2>3
<1>5. job'.todo = q
  BY <1>3
<1> QED BY <1>4, <1>5 DEF Once

(* What a job of T is about to write is for the others what they are, and  *)
(* for T the version of the job or one that T has.                         *)
Steady(q, T) == \A t \in Tickets \ T : \A i \in 1..Len(q) :
  Writes(q[i], t) => Value(q[i], t) = S!Content(q[i].sprint)[t]
Recent(q, T, v) == \A t \in T : \A i \in 1..Len(q) :
  Brings(q[i], t) => \/ Value(q[i], t) = v
                     \/ \E s \in S!Sprints : S!IsIn(t, s) /\ Value(q[i], t) = S!Content(s)[t]

LEMMA BegunVersions ==
  ASSUME ShardTyped, IdleOwnsNone, S!Idle, OneHolder, NothingOlder,
         shards' = shards, begun' = begun + 1, kept' = kept, sure' \subseteq sure,
         NEW T \in SUBSET Tickets, NEW q \in Seq(ShardStages),
         job'.todo = q, job'.tickets = T,
         \A i \in 1..Len(q) : q[i].sprint \in S!Sprints,
         Steady(q, T), Recent(q, T, begun + 1)
  PROVE  OneHolder' /\ OthersStay' /\ NothingOlder'
<1>1. \A t, s : (S!IsIn(t, s)' <=> S!IsIn(t, s)) /\ S!Content(s)' = S!Content(s)
  BY DEF S!IsIn, S!Content
<1>2. OneHolder'
  BY <1>1 DEF OneHolder, IdleOwnsNone, S!IsIn
<1>3. OthersStay'
  <2> SUFFICES ASSUME NEW t \in Tickets \ T, NEW i \in 1..Len(q), Writes(q[i], t)
               PROVE  Value(q[i], t) = (S!Content(q[i].sprint)[t])'
    BY DEF OthersStay
  <2>1. Value(q[i], t) = S!Content(q[i].sprint)[t]
    BY DEF Steady
  <2>2. (S!Content(q[i].sprint)[t])' = S!Content(q[i].sprint)[t]
    BY DEF S!Content
  <2> QED BY <2>1, <2>2
<1>4. NothingOlder'
  <2>0. begun \in Nat /\ sure \subseteq Tickets
    BY DEF ShardTyped
  <2> SUFFICES ASSUME NEW t \in sure'
               PROVE  /\ kept'[t] \in Nat /\ kept'[t] <= begun'
                      /\ \A s \in S!Sprints : S!IsIn(t, s)' => (S!Content(s)[t])' >= kept'[t]
                      /\ \A i \in 1..Len(q) : Brings(q[i], t) => Value(q[i], t) >= kept'[t]
    BY DEF NothingOlder
  <2>1. t \in sure /\ t \in Tickets
    BY <2>0
  <2>2. /\ kept[t] \in Nat /\ kept[t] <= begun
        /\ \A s \in S!Sprints : S!IsIn(t, s) => S!Content(s)[t] >= kept[t]
    BY <2>1 DEF NothingOlder
  <2>3. \A s \in S!Sprints : S!IsIn(t, s)' => (S!Content(s)[t])' >= kept[t]
    BY <2>2 DEF S!IsIn, S!Content
  <2>4. ASSUME NEW i \in 1..Len(q), Brings(q[i], t) PROVE Value(q[i], t) >= kept[t]
    <3>1. CASE t \in T
      <4>1. \/ Value(q[i], t) = begun + 1
            \/ \E s \in S!Sprints : S!IsIn(t, s) /\ Value(q[i], t) = S!Content(s)[t]
        BY <2>4, <3>1 DEF Recent
      <4> QED BY <2>0, <2>2, <4>1
    <3>2. CASE t \notin T
      <4>1. Value(q[i], t) = S!Content(q[i].sprint)[t] /\ Value(q[i], t) # Absent
        BY <2>1, <2>4, <3>2 DEF Steady, Brings
      <4>2. S!IsIn(t, q[i].sprint)
        BY <2>1, <4>1 DEF S!IsIn, S!Content
      <4> QED BY <2>2, <4>1, <4>2
    <3> QED BY <3>1, <3>2
  <2> QED BY <2>0, <2>2, <2>3, <2>4
<1> QED BY <1>2, <1>3, <1>4

LEMMA PutReads ==
  ASSUME ShardTyped, IdleOwnsNone, S!Put
  PROVE  Once' /\ (Versions => Versions')
<1>1. PICK T \in S!Bulks, s \in S!Sprints :
        /\ \/ \A t \in T : S!Holders(t) = {}
           \/ \E t \in T : T = {t} /\ S!Holders(t) # {} /\ s = S!Located(t)
        /\ S!Begin("put", T, s, S!Upserts(s, T, begun + 1))
  BY DEF S!Put
<1>2. T \in SUBSET Tickets /\ begun + 1 \in Nat
  BY DEF S!Bulks, ShardTyped
<1>3. PICK q, new : /\ q = S!Upserts(s, T, begun + 1)
                    /\ new = [t \in Tickets |-> IF t \in T THEN begun + 1 ELSE S!Content(s)[t]]
  OBVIOUS
<1>4. /\ q \in Seq(ShardStages) /\ OneWrite(q)
      /\ \A i \in 1..Len(q) : q[i].sprint = s /\ Carries(q[i], new)
      /\ \A t \in T : \E i \in 1..Len(q) : Brings(q[i], t)
  <2>1. /\ q \in Seq(ShardStages) /\ OneWrite(q)
        /\ \A i \in 1..Len(q) : Harmless(q[i], s, T \cup {t \in Tickets : S!IsIn(t, s)})
        /\ \A t \in T : \E i \in 1..Len(q) : Brings(q[i], t)
    BY <1>2, <1>3, UpsertsMade
  <2>2. \A i \in 1..Len(q) :
          Carries(q[i], [t \in Tickets |-> IF t \in T THEN begun + 1 ELSE S!Content(s)[t]])
    BY <1>2, <1>3, UpsertsMade
  <2>3. \A i \in 1..Len(q) : Carries(q[i], new)
    BY <1>3, <2>2
  <2> QED BY <2>1, <2>3 DEF Harmless
<1>5. /\ job' = [op |-> "put", todo |-> q, tickets |-> T, to |-> s, undo |-> FALSE]
      /\ S!Idle /\ shards' = shards /\ begun' = begun + 1 /\ sure' = sure /\ kept' = kept
  BY <1>1, <1>3 DEF S!Begin, S!fileVars
<1>6. /\ job'.todo = q /\ job'.tickets = T /\ job'.to = s /\ job'.op = "put" /\ ~job'.undo
  BY <1>5
<1>7. Once'
  BY <1>4, <1>6, OnceInOne
<1>8. Steady(q, T) /\ Recent(q, T, begun + 1)
  BY <1>2, <1>3, <1>4 DEF Steady, Recent, Carries, Brings
<1>9. ASSUME Versions PROVE Versions'
  <2>1. OneHolder' /\ OthersStay' /\ NothingOlder'
    BY <1>2, <1>4, <1>5, <1>6, <1>8, <1>9, BegunVersions DEF Versions
  <2>2. \A t \in T : \A w \in S!Sprints : S!IsIn(t, w)' => w = s
    <3>0. \A t, w : S!IsIn(t, w)' <=> S!IsIn(t, w)
      BY <1>5 DEF S!IsIn
    <3>1. CASE \A t \in T : S!Holders(t) = {}
      BY <3>0, <3>1 DEF S!Holders
    <3>2. CASE \E t \in T : T = {t} /\ S!Holders(t) # {} /\ s = S!Located(t)
      <4>1. PICK t \in Tickets : T = {t} /\ S!Holders(t) # {} /\ s = S!Located(t)
        BY <1>2, <3>2
      <4>2. S!IsIn(t, s)
        BY <4>1, LocatedHolds
      <4>3. \A w \in S!Sprints : S!IsIn(t, w) => w = s
        BY <1>5, <1>9, <4>2 DEF Versions, OneHolder, IdleOwnsNone
      <4> QED BY <3>0, <4>1, <4>3
    <3> QED BY <1>1, <3>1, <3>2
  <2>3. TicketsGo'
    <3> SUFFICES ASSUME NEW t \in T
                 PROVE  /\ \A i \in 1..Len(q) : Writes(q[i], t) =>
                             q[i].sprint = s /\ Value(q[i], t) = begun'
                        /\ \A w \in S!Sprints : S!IsIn(t, w)' => w = s
                        /\ \E i \in 1..Len(q) : q[i].sprint = s /\ Writes(q[i], t)
      BY <1>6 DEF TicketsGo, Puts
    <3>1. \A i \in 1..Len(q) : Writes(q[i], t) => Value(q[i], t) = begun + 1
      BY <1>2, <1>3, <1>4 DEF Carries
    <3> QED BY <1>4, <1>5, <2>2, <3>1 DEF Brings
  <2> QED BY <1>6, <2>1, <2>3 DEF Versions
<1> QED BY <1>7, <1>9

LEMMA OneOnly ==
  ASSUME IdleOwnsNone, S!Idle, OneHolder, NEW t \in Tickets, NEW s \in S!Sprints,
         S!IsIn(t, s)
  PROVE  \A w \in S!Sprints : S!IsIn(t, w) => w = s
BY DEF OneHolder, IdleOwnsNone

LEMMA DeleteReads ==
  ASSUME ShardTyped, IdleOwnsNone, S!Delete
  PROVE  Once' /\ (Versions => Versions')
<1>1. PICK t \in Tickets :
        /\ S!Holders(t) # {}
        /\ S!Begin("delete", {t}, S!Located(t), S!DeleteFrom(S!Located(t), t))
  BY DEF S!Delete
<1>2. PICK s \in S!Sprints : s = S!Located(t) /\ S!IsIn(t, s)
  BY <1>1, LocatedHolds
<1>3. PICK q : q = S!DeleteFrom(s, t)
  OBVIOUS
<1>4. /\ q \in Seq(ShardStages) /\ OneWrite(q)
      /\ \A i \in 1..Len(q) : q[i].sprint = s
      /\ \A i \in 1..Len(q) : Carries(q[i], [S!Content(s) EXCEPT ![t] = Absent])
  <2>1. q \in Seq(ShardStages) /\ OneWrite(q)
    BY <1>3, DeleteMade
  <2>2. \A i \in 1..Len(q) : Carries(q[i], [S!Content(s) EXCEPT ![t] = Absent])
    BY <1>3, DeleteMade
  <2>3. \A i \in 1..Len(q) : Harmless(q[i], s, {u \in Tickets \ {t} : S!IsIn(u, s)})
    BY <1>3, DeleteMade
  <2> QED BY <2>1, <2>2, <2>3 DEF Harmless
<1>5. /\ job' = [op |-> "delete", todo |-> q, tickets |-> {t}, to |-> s, undo |-> FALSE]
      /\ S!Idle /\ shards' = shards /\ begun' = begun + 1 /\ sure' = sure \ {t} /\ kept' = kept
  BY <1>1, <1>2, <1>3 DEF S!Begin, S!fileVars
<1>6. /\ job'.todo = q /\ job'.tickets = {t} /\ job'.to = s /\ job'.op = "delete" /\ ~job'.undo
  BY <1>5
<1>7. Once'
  BY <1>4, <1>6, OnceInOne
<1>8. \A u \in Tickets : \A i \in 1..Len(q) : Writes(q[i], u) =>
        Value(q[i], u) = IF u = t THEN Absent ELSE S!Content(s)[u]
  BY <1>4 DEF Carries, S!Content
<1>9. Steady(q, {t}) /\ Recent(q, {t}, begun + 1)
  BY <1>4, <1>8 DEF Steady, Recent, Brings
<1>10. ASSUME Versions PROVE Versions'
  <2>1. OneHolder' /\ OthersStay' /\ NothingOlder'
    BY <1>4, <1>5, <1>6, <1>9, <1>10, BegunVersions DEF Versions
  <2>2. \A w \in S!Sprints : S!IsIn(t, w) => w = s
    BY <1>2, <1>5, <1>10, OneOnly DEF Versions
  <2>3. \A w \in S!Sprints : S!IsIn(t, w)' => w = s
    BY <1>5, <2>2 DEF S!IsIn
  <2>4. TicketsGo'
    BY <1>4, <1>6, <2>3 DEF TicketsGo, Puts
  <2> QED BY <1>6, <2>1, <2>4 DEF Versions
<1> QED BY <1>7, <1>10

\* What the saved sprint's stages mean for who reads them.
LEMMA SavedGives ==
  ASSUME ShardTyped, NEW s \in S!Sprints, NEW new \in Held
  PROVE  LET q == S!WriteSprint(s, new)
         IN /\ q \in Seq(ShardStages) /\ OneWrite(q)
            /\ \A i \in 1..Len(q) : q[i].sprint = s /\ Carries(q[i], new)
            /\ \A t \in Tickets : new[t] # S!Content(s)[t] => \E i \in 1..Len(q) : Writes(q[i], t)
<1>1. PICK q : q = S!WriteSprint(s, new)
  OBVIOUS
<1>2. /\ q \in Seq(ShardStages)
      /\ \A i \in 1..Len(q) : Harmless(q[i], s, {t \in Tickets : new[t] # Absent})
      /\ OneWrite(q)
      /\ \A i \in 1..Len(q) : Carries(q[i], new)
      /\ \A t \in Tickets : new[t] # S!Content(s)[t] => \E i \in 1..Len(q) : Writes(q[i], t)
  BY <1>1, SavedMade
<1>3. \A i \in 1..Len(q) : q[i].sprint = s
  BY <1>2 DEF Harmless
<1> QED BY <1>1, <1>2, <1>3

LEMMA SaveReads ==
  ASSUME ShardTyped, IdleOwnsNone, S!Save
  PROVE  Once' /\ (Versions => Versions')
<1> DEFINE New(s, T) == [t \in Tickets |-> IF t \in T THEN begun + 1 ELSE S!Content(s)[t]]
<1>1. PICK s \in S!Sprints, T \in S!Bulks :
        /\ \A t \in T : S!IsIn(t, s)
        /\ S!Begin("save", T, s, S!WriteSprint(s, New(s, T)))
  BY DEF S!Save
<1>2. T \in SUBSET Tickets /\ begun + 1 \in Nat
  BY DEF S!Bulks, ShardTyped
<1>3. PICK new, q : new = New(s, T) /\ q = S!WriteSprint(s, new)
  OBVIOUS
<1>4. new \in Held
  <2>1. \A t \in Tickets : S!Content(s)[t] \in Nat \cup {Absent}
    BY ShardConstants DEF ShardTyped, S!Content, Held
  <2> QED BY <1>2, <1>3, <2>1 DEF Held
<1>5. /\ q \in Seq(ShardStages) /\ OneWrite(q)
      /\ \A i \in 1..Len(q) : q[i].sprint = s /\ Carries(q[i], new)
      /\ \A t \in Tickets : new[t] # S!Content(s)[t] => \E i \in 1..Len(q) : Writes(q[i], t)
  BY <1>3, <1>4, SavedGives
<1>6. /\ job' = [op |-> "save", todo |-> q, tickets |-> T, to |-> s, undo |-> FALSE]
      /\ S!Idle /\ shards' = shards /\ begun' = begun + 1 /\ sure' = sure /\ kept' = kept
  BY <1>1, <1>3 DEF S!Begin, S!fileVars
<1>7. /\ job'.todo = q /\ job'.tickets = T /\ job'.to = s /\ job'.op = "save" /\ ~job'.undo
  BY <1>6
<1>8. Once'
  BY <1>5, <1>7, OnceInOne
<1>9. Steady(q, T) /\ Recent(q, T, begun + 1)
  BY <1>2, <1>3, <1>5 DEF Steady, Recent, Carries, Brings
<1>10. ASSUME Versions PROVE Versions'
  <2>1. OneHolder' /\ OthersStay' /\ NothingOlder'
    BY <1>2, <1>5, <1>6, <1>7, <1>9, <1>10, BegunVersions DEF Versions
  <2>2. TicketsGo'
    <3> SUFFICES ASSUME NEW t \in T
                 PROVE  /\ \A i \in 1..Len(q) : Writes(q[i], t) =>
                             q[i].sprint = s /\ Value(q[i], t) = begun'
                        /\ \A w \in S!Sprints : S!IsIn(t, w)' => w = s
                        /\ \/ (S!Content(s)[t])' = begun'
                           \/ \E i \in 1..Len(q) : q[i].sprint = s /\ Writes(q[i], t)
      BY <1>7 DEF TicketsGo, Puts, S!Content
    <3>1. t \in Tickets /\ new[t] = begun + 1
      BY <1>2, <1>3
    <3>2. \A i \in 1..Len(q) : Writes(q[i], t) => q[i].sprint = s /\ Value(q[i], t) = begun'
      BY <1>5, <1>6, <3>1 DEF Carries
    <3>3. \A w \in S!Sprints : S!IsIn(t, w) => w = s
      BY <1>1, <1>6, <1>10, <3>1, OneOnly DEF Versions
    <3>4. \A w \in S!Sprints : S!IsIn(t, w)' => w = s
      BY <1>6, <3>3 DEF S!IsIn
    <3>5. \/ S!Content(s)[t] = begun'
          \/ \E i \in 1..Len(q) : q[i].sprint = s /\ Writes(q[i], t)
      BY <1>5, <1>6, <3>1
    <3>6. (S!Content(s)[t])' = S!Content(s)[t]
      BY <1>6 DEF S!Content
    <3> QED BY <3>2, <3>4, <3>5, <3>6
  <2> QED BY <1>7, <2>1, <2>2 DEF Versions
<1> QED BY <1>8, <1>10

LEMMA MoveReads ==
  ASSUME ShardTyped, IdleOwnsNone, S!Move
  PROVE  Once' /\ (Versions => Versions')
<1>1. PICK t \in Tickets, s \in S!Sprints :
        /\ S!Holders(t) # {} /\ ~S!IsIn(t, s)
        /\ S!Begin("move", {t}, s, S!Upserts(s, {t}, begun + 1)
                                  \o S!DeleteFrom(S!Located(t), t))
  BY DEF S!Move
<1>2. PICK z \in S!Sprints : z = S!Located(t) /\ S!IsIn(t, z)
  BY <1>1, LocatedHolds
<1>3. PICK p, d : p = S!Upserts(s, {t}, begun + 1) /\ d = S!DeleteFrom(z, t)
  OBVIOUS
<1>q. PICK q : q = p \o d
  OBVIOUS
<1>4. s # z /\ {t} \in SUBSET Tickets /\ begun + 1 \in Nat
  BY <1>1, <1>2 DEF ShardTyped
<1>5. /\ p \in Seq(ShardStages) /\ OneWrite(p)
      /\ \A i \in 1..Len(p) : Harmless(p[i], s, {t} \cup {u \in Tickets : S!IsIn(u, s)})
      /\ \A u \in {t} : \E i \in 1..Len(p) : Brings(p[i], u)
  BY <1>3, <1>4, UpsertsMade
<1>6. /\ d \in Seq(ShardStages) /\ OneWrite(d) /\ Len(d) = 2
      /\ DOMAIN d[1].files = {BucketOf[t]}
      /\ \A i \in 1..Len(d) : d[i].sprint = z
      /\ \A i \in 1..Len(d) : Carries(d[i], [S!Content(z) EXCEPT ![t] = Absent])
  <2>1. /\ d \in Seq(ShardStages) /\ OneWrite(d) /\ Len(d) = 2
        /\ DOMAIN d[1].files = {BucketOf[t]}
        /\ \A i \in 1..Len(d) : Harmless(d[i], z, {u \in Tickets \ {t} : S!IsIn(u, z)})
    BY <1>3, DeleteMade
  <2>2. \A i \in 1..Len(d) : Carries(d[i], [S!Content(z) EXCEPT ![t] = Absent])
    BY <1>3, DeleteMade
  <2>3. \A i \in 1..Len(d) : d[i].sprint = z
    BY <2>1 DEF Harmless
  <2> QED BY <2>1, <2>2, <2>3
<1>pd. p \in Seq(ShardStages) /\ d \in Seq(ShardStages)
  BY <1>5, <1>6
<1>7. \A u \in Tickets : \A i \in 1..Len(p) : Writes(p[i], u) =>
        Value(p[i], u) = IF u = t THEN begun + 1 ELSE S!Content(s)[u]
  <2>1. \A i \in 1..Len(p) :
          Carries(p[i], [u \in Tickets |-> IF u \in {t} THEN begun + 1 ELSE S!Content(s)[u]])
    BY <1>3, <1>4, UpsertsMade
  <2> QED BY <2>1 DEF Carries
<1>8. \A u \in Tickets : \A i \in 1..Len(d) : Writes(d[i], u) =>
        Value(d[i], u) = IF u = t THEN Absent ELSE S!Content(z)[u]
  BY <1>6 DEF Carries, S!Content
<1>9. /\ job' = [op |-> "move", todo |-> q, tickets |-> {t}, to |-> s, undo |-> FALSE]
      /\ S!Idle /\ shards' = shards /\ begun' = begun + 1 /\ sure' = sure /\ kept' = kept
  BY <1>1, <1>2, <1>3, <1>q DEF S!Begin, S!fileVars
<1>10. /\ job'.todo = q /\ job'.tickets = {t} /\ job'.to = s /\ job'.op = "move" /\ ~job'.undo
  BY <1>9
<1>11. \A i \in 1..Len(p) : p[i].sprint = s
  BY <1>5 DEF Harmless
<1>12. Once'
  <2>1. job'.todo = p \o d
    BY <1>10, <1>q
  <2>2. OneWrite(p) /\ OneWrite(d) /\ \A i \in 1..Len(d) : d[i].sprint = z
    BY <1>5, <1>6
  <2> QED BY <1>4, <1>11, <1>pd, <2>1, <2>2, OnceInTwo
<1>13. /\ q \in Seq(ShardStages)
       /\ \A i \in 1..Len(p) : i \in 1..Len(q) /\ q[i] = p[i]
       /\ \A i \in 1..Len(d) : Len(p) + i \in 1..Len(q) /\ q[Len(p) + i] = d[i]
  <2>1. /\ \A i \in 1..Len(p) : p[i] \in ShardStages
        /\ \A i \in 1..Len(d) : d[i] \in ShardStages
    BY <1>pd
  <2> QED BY <1>q, <1>pd, <2>1, Both
<1>14. \A i \in 1..Len(q) :
         \/ q[i].sprint = s /\ \A u \in Tickets : Writes(q[i], u) =>
              Value(q[i], u) = IF u = t THEN begun + 1 ELSE S!Content(s)[u]
         \/ q[i].sprint = z /\ \A u \in Tickets : Writes(q[i], u) =>
              Value(q[i], u) = IF u = t THEN Absent ELSE S!Content(z)[u]
  <2> TAKE i \in 1..Len(q)
  <2>1. \/ i \in 1..Len(p) /\ q[i] = p[i]
        \/ i - Len(p) \in 1..Len(d) /\ q[i] = d[i - Len(p)]
    BY <1>q, <1>pd, OfBoth
  <2>2. CASE i \in 1..Len(p) /\ q[i] = p[i]
    BY <1>7, <1>11, <2>2
  <2>3. CASE i - Len(p) \in 1..Len(d) /\ q[i] = d[i - Len(p)]
    BY <1>6, <1>8, <2>3
  <2> QED BY <2>1, <2>2, <2>3
<1>15. Steady(q, {t}) /\ Recent(q, {t}, begun + 1)
  BY <1>14 DEF Steady, Recent, Brings
<1>16. ASSUME Versions PROVE Versions'
  <2>0. \A i \in 1..Len(q) : q[i].sprint \in S!Sprints
    BY <1>14
  <2>1. OneHolder' /\ OthersStay' /\ NothingOlder'
    BY <1>9, <1>10, <1>13, <1>15, <1>16, <2>0, BegunVersions DEF Versions
  <2>2. \A w \in S!Sprints : S!IsIn(t, w)' => w = z
    <3>1. \A w \in S!Sprints : S!IsIn(t, w) => w = z
      BY <1>2, <1>9, <1>16, OneOnly DEF Versions
    <3> QED BY <1>9, <3>1 DEF S!IsIn
  <2>3. \E i \in 1..Len(q) : q[i].sprint = s /\ Writes(q[i], t)
    <3>1. PICK i \in 1..Len(p) : Brings(p[i], t)
      BY <1>5
    <3> QED BY <1>11, <1>13, <3>1 DEF Brings
  <2>4. \E i \in 1..Len(q) : q[i].sprint = z /\ Writes(q[i], t)
    <3>1. 1 \in 1..Len(d)
      BY <1>6
    <3> QED BY <1>6, <1>13, <3>1 DEF Writes
  <2>5. \A i \in 1..Len(q) : Writes(q[i], t) =>
          Value(q[i], t) = IF q[i].sprint = s THEN begun' ELSE Absent
    BY <1>4, <1>9, <1>14
  <2>6. TicketsGo'
    BY <1>10, <2>2, <2>3, <2>4, <2>5 DEF TicketsGo, Puts
  <2> QED BY <1>10, <2>1, <2>6 DEF Versions
<1> QED BY <1>12, <1>16

LEMMA RotationReads ==
  ASSUME ShardTyped, IdleOwnsNone, S!Rotate
  PROVE  Once' /\ (Versions => Versions')
<1> DEFINE Old(T) == [t \in Tickets |-> IF t \in T THEN S!Content(S!Current)[t]
                                       ELSE S!Content(S!History)[t]]
           Rest(T) == [t \in Tickets |-> IF t \in T THEN Absent ELSE S!Content(S!Current)[t]]
<1>1. PICK T \in S!Bulks :
        /\ \A t \in T : S!IsIn(t, S!Current)
        /\ S!Begin("rotate", T, S!History, S!WriteSprint(S!History, Old(T))
                                          \o S!WriteSprint(S!Current, Rest(T)))
  BY DEF S!Rotate
<1>2. T \in SUBSET Tickets
  BY DEF S!Bulks
<1>3. PICK s, z, old, rest, p, d :
        /\ s = S!History /\ z = S!Current /\ old = Old(T) /\ rest = Rest(T)
        /\ p = S!WriteSprint(s, old) /\ d = S!WriteSprint(z, rest)
  OBVIOUS
<1>q. PICK q : q = p \o d
  OBVIOUS
<1>4. s \in S!Sprints /\ z \in S!Sprints /\ s # z
  BY <1>3, ShardConstants
<1>5. /\ old \in Held /\ rest \in Held
      /\ \A t \in Tickets : old[t] = IF t \in T THEN S!Content(z)[t] ELSE S!Content(s)[t]
      /\ \A t \in Tickets : rest[t] = IF t \in T THEN Absent ELSE S!Content(z)[t]
  <2>1. \A t \in Tickets : /\ S!Content(s)[t] \in Nat \cup {Absent}
                           /\ S!Content(z)[t] \in Nat \cup {Absent}
    BY <1>4, ShardConstants DEF ShardTyped, S!Content, Held
  <2> QED BY <1>3, <2>1 DEF Held
<1>6. /\ p \in Seq(ShardStages) /\ OneWrite(p)
      /\ \A i \in 1..Len(p) : p[i].sprint = s /\ Carries(p[i], old)
  <2>1. p = S!WriteSprint(s, old) /\ s \in S!Sprints /\ old \in Held
    BY <1>3, <1>4, <1>5
  <2> QED BY <2>1, SavedGives
<1>7. /\ d \in Seq(ShardStages) /\ OneWrite(d)
      /\ \A i \in 1..Len(d) : d[i].sprint = z /\ Carries(d[i], rest)
      /\ \A t \in Tickets : rest[t] # S!Content(z)[t] => \E i \in 1..Len(d) : Writes(d[i], t)
  <2>1. d = S!WriteSprint(z, rest) /\ z \in S!Sprints /\ rest \in Held
    BY <1>3, <1>4, <1>5
  <2> QED BY <2>1, SavedGives
<1>8. /\ job' = [op |-> "rotate", todo |-> q, tickets |-> T, to |-> s, undo |-> FALSE]
      /\ S!Idle /\ shards' = shards /\ begun' = begun + 1 /\ sure' = sure /\ kept' = kept
  BY <1>1, <1>3, <1>q DEF S!Begin, S!fileVars
<1>pd. p \in Seq(ShardStages) /\ d \in Seq(ShardStages)
  BY <1>6, <1>7
<1>9. /\ job'.todo = q /\ job'.tickets = T /\ job'.to = s /\ job'.op = "rotate" /\ ~job'.undo
  BY <1>8
<1>10. Once'
  <2>1. job'.todo = p \o d
    BY <1>9, <1>q
  <2>2. /\ OneWrite(p) /\ \A i \in 1..Len(p) : p[i].sprint = s
        /\ OneWrite(d) /\ \A i \in 1..Len(d) : d[i].sprint = z
    BY <1>6, <1>7
  <2> QED BY <1>4, <1>pd, <2>1, <2>2, OnceInTwo
<1>11. /\ q \in Seq(ShardStages)
       /\ \A i \in 1..Len(d) : Len(p) + i \in 1..Len(q) /\ q[Len(p) + i] = d[i]
  <2>1. /\ \A i \in 1..Len(p) : p[i] \in ShardStages
        /\ \A i \in 1..Len(d) : d[i] \in ShardStages
    BY <1>pd
  <2> QED BY <1>q, <1>pd, <2>1, Both
<1>12. \A i \in 1..Len(q) : \/ q[i].sprint = s /\ Carries(q[i], old)
                            \/ q[i].sprint = z /\ Carries(q[i], rest)
  <2> TAKE i \in 1..Len(q)
  <2>1. \/ i \in 1..Len(p) /\ q[i] = p[i]
        \/ i - Len(p) \in 1..Len(d) /\ q[i] = d[i - Len(p)]
    BY <1>q, <1>pd, OfBoth
  <2>2. CASE i \in 1..Len(p) /\ q[i] = p[i]
    BY <1>6, <2>2
  <2>3. CASE i - Len(p) \in 1..Len(d) /\ q[i] = d[i - Len(p)]
    BY <1>7, <2>3
  <2> QED BY <2>1, <2>2, <2>3
<1>13. \A t \in T : t \in Tickets /\ S!IsIn(t, z) /\ S!Content(z)[t] # Absent
  BY <1>1, <1>2, <1>3 DEF S!IsIn, S!Content
<1>14. Steady(q, T)
  BY <1>5, <1>12 DEF Steady, Carries
<1>15. Recent(q, T, begun + 1)
  BY <1>4, <1>5, <1>12, <1>13 DEF Recent, Carries, Brings
<1>16. ASSUME Versions PROVE Versions'
  <2>0. \A i \in 1..Len(q) : q[i].sprint \in S!Sprints
    BY <1>4, <1>12
  <2>1. OneHolder' /\ OthersStay' /\ NothingOlder'
    BY <1>2, <1>8, <1>9, <1>11, <1>14, <1>15, <1>16, <2>0, BegunVersions DEF Versions
  <2>2. TicketsGo'
    <3> SUFFICES ASSUME NEW t \in T
                 PROVE  /\ \A i \in 1..Len(q) : Writes(q[i], t) =>
                             (q[i].sprint # s => Value(q[i], t) = Absent)
                        /\ \A w \in S!Sprints : S!IsIn(t, w)' /\ w # s =>
                             \E i \in 1..Len(q) : q[i].sprint = w /\ Writes(q[i], t)
      BY <1>9 DEF TicketsGo, Puts
    <3>1. \A w \in S!Sprints : S!IsIn(t, w)' => w = z
      <4>1. \A w \in S!Sprints : S!IsIn(t, w) => w = z
        BY <1>4, <1>8, <1>13, <1>16, OneOnly DEF Versions
      <4> QED BY <1>8, <4>1 DEF S!IsIn
    <3>2. PICK i \in 1..Len(d) : Writes(d[i], t)
      BY <1>5, <1>7, <1>13
    <3>3. Len(p) + i \in 1..Len(q) /\ q[Len(p) + i].sprint = z /\ Writes(q[Len(p) + i], t)
      BY <1>7, <1>11, <3>2
    <3>4. \A k \in 1..Len(q) : Writes(q[k], t) /\ q[k].sprint # s => Value(q[k], t) = Absent
      BY <1>5, <1>12, <1>13 DEF Carries
    <3> QED BY <3>1, <3>3, <3>4
  <2> QED BY <1>9, <2>1, <2>2 DEF Versions
<1> QED BY <1>10, <1>16

LEMMA WroteContent ==
  ASSUME NEW d, NEW b, Wrote(d, b), NEW t \in Tickets, NEW s \in S!Sprints
  PROVE  (S!Content(s)[t])' =
           IF s = job.todo[1].sprint /\ BucketOf[t] = b /\ Writes(job.todo[1], t)
           THEN Value(job.todo[1], t) ELSE S!Content(s)[t]
<1>1. shards'[s][BucketOf[t]] =
        IF s = job.todo[1].sprint /\ BucketOf[t] = b /\ b \in DOMAIN job.todo[1].files
        THEN S!Stored(job.todo[1].files[b]) ELSE shards[s][BucketOf[t]]
  BY ShardConstants DEF Wrote
<1>2. \A held : S!Stored(held).held = held
  BY DEF S!Stored, S!Missing
<1>3. (S!Content(s)[t])' = shards'[s][BucketOf[t]].held[t]
  BY DEF S!Content
<1>4. S!Content(s)[t] = shards[s][BucketOf[t]].held[t]
  BY DEF S!Content
<1> QED BY <1>1, <1>2, <1>3, <1>4 DEF Writes, Value

LEMMA WroteLeft ==
  ASSUME NEW d \in {0, 1}, NEW b, Wrote(d, b), NEW t \in Tickets,
         NEW i \in 1..Len(job.todo), Writes(job.todo[i], t), ~(i = 1 /\ BucketOf[t] = b)
  PROVE  i - d \in 1..Len(job'.todo) /\ (i - d) + d = i
<1>0. PICK old, new : old = job.todo /\ new = job'.todo
  OBVIOUS
<1>1. /\ Len(new) = Len(old) - d /\ new \in Seq(ShardStages)
      /\ d = 1 => DOMAIN old[1].files \subseteq {b}
  BY <1>0 DEF Wrote
<1>2. i \in 1..Len(old) /\ (i = 1 => d = 0)
  BY <1>0, <1>1 DEF Writes
<1>3. Len(new) \in Nat
  BY <1>1
<1>4. i - d \in 1..Len(new) /\ (i - d) + d = i
  BY <1>1, <1>2, <1>3
<1> QED BY <1>0, <1>4

LEMMA WorkOnce ==
  ASSUME Once, NEW d \in {0, 1}, NEW b, Wrote(d, b)
  PROVE  Once'
<1>1. PICK old, new : old = job.todo /\ new = job'.todo
  OBVIOUS
<1>2. \A i \in 1..Len(new) :
        /\ i + d \in 1..Len(old) /\ new[i].sprint = old[i + d].sprint
        /\ DOMAIN new[i].files # {} => DOMAIN old[i + d].files # {}
  <2> TAKE i \in 1..Len(new)
  <2>1. /\ i + d \in 1..Len(old) /\ new[i].sprint = old[i + d].sprint
        /\ i + d # 1 => new[i] = old[i + d]
        /\ i + d = 1 => b \in DOMAIN old[1].files
    BY <1>1 DEF Wrote
  <2> QED BY <2>1
<1>3. \A i, k \in 1..Len(new) : i + d = k + d => i = k
  OBVIOUS
<1>4. \A i, k \in 1..Len(old) :
        /\ old[i].sprint = old[k].sprint
        /\ DOMAIN old[i].files # {} /\ DOMAIN old[k].files # {}
        => i = k
  BY <1>1 DEF Once
<1>5. \A i, k \in 1..Len(new) :
        /\ new[i].sprint = new[k].sprint
        /\ DOMAIN new[i].files # {} /\ DOMAIN new[k].files # {}
        => i = k
  <2> SUFFICES ASSUME NEW i \in 1..Len(new), NEW k \in 1..Len(new),
                      new[i].sprint = new[k].sprint,
                      DOMAIN new[i].files # {}, DOMAIN new[k].files # {}
               PROVE  i = k
    OBVIOUS
  <2>1. i + d \in 1..Len(old) /\ k + d \in 1..Len(old)
    BY <1>2
  <2>2. /\ old[i + d].sprint = old[k + d].sprint
        /\ DOMAIN old[i + d].files # {} /\ DOMAIN old[k + d].files # {}
    BY <1>2
  <2>3. i + d = k + d
    BY <1>4, <2>1, <2>2
  <2> QED BY <1>3, <2>3
<1> QED BY <1>1, <1>5 DEF Once

LEMMA WorkVersions ==
  ASSUME ShardTyped, Versions, NEW d \in {0, 1}, NEW b \in Buckets, Wrote(d, b), kept' = kept
  PROVE  Versions'
<1>1. PICK old, new, to, T : old = job.todo /\ new = job'.todo /\ to = job.to /\ T = job.tickets
  OBVIOUS
<1>2. /\ job'.to = to /\ job'.tickets = T /\ job'.op = job.op /\ job'.undo = job.undo
      /\ sure' = sure /\ begun' = begun /\ begun \in Nat
  BY <1>1 DEF Wrote, ShardTyped, ShardJobs
<1>3. T \in SUBSET Tickets /\ to \in S!Sprints /\ sure \subseteq Tickets /\ 1 \in 1..Len(old)
  BY <1>1 DEF Wrote, ShardTyped, ShardJobs
<1>4. \A i \in 1..Len(old) : old[i].sprint \in S!Sprints
  <2>1. old \in Seq(ShardStages)
    BY <1>1 DEF ShardTyped, ShardJobs
  <2>2. \A i \in 1..Len(old) : old[i] \in ShardStages
    BY <2>1
  <2> QED BY <2>2 DEF ShardStages
<1>5. \A i \in 1..Len(new) :
        /\ i + d \in 1..Len(old) /\ new[i].sprint = old[i + d].sprint
        /\ \A t \in Tickets : Writes(new[i], t) =>
             Writes(old[i + d], t) /\ Value(new[i], t) = Value(old[i + d], t)
        /\ \A t \in Tickets : Writes(old[i + d], t) /\ ~(i + d = 1 /\ BucketOf[t] = b) =>
             Writes(new[i], t)
  BY <1>1 DEF Wrote
<1> DEFINE Hit(t, s) == s = old[1].sprint /\ BucketOf[t] = b /\ Writes(old[1], t)
<1>6. \A t \in Tickets, s \in S!Sprints :
        (S!Content(s)[t])' = IF Hit(t, s) THEN Value(old[1], t) ELSE S!Content(s)[t]
  BY <1>1, WroteContent
<1>7. \A t \in Tickets, s \in S!Sprints :
        /\ S!IsIn(t, s) <=> S!Content(s)[t] # Absent
        /\ S!IsIn(t, s)' <=> (S!Content(s)[t])' # Absent
  BY DEF S!IsIn, S!Content
<1>8. \A t \in Tickets \ T : \A i \in 1..Len(old) :
        Writes(old[i], t) => Value(old[i], t) = S!Content(old[i].sprint)[t]
  BY <1>1 DEF Versions, OthersStay
<1>9. \A t \in Tickets \ T : \A s \in S!Sprints : (S!Content(s)[t])' = S!Content(s)[t]
  BY <1>3, <1>6, <1>8
<1>10. OneHolder'
  <2>1. \A t \in Tickets \ T : \A s, z \in S!Sprints : S!IsIn(t, s)' /\ S!IsIn(t, z)' => s = z
    BY <1>1, <1>7, <1>9 DEF Versions, OneHolder
  <2> QED BY <1>2, <2>1 DEF OneHolder
<1>11. OthersStay'
  <2> SUFFICES ASSUME NEW t \in Tickets \ T, NEW i \in 1..Len(new), Writes(new[i], t)
               PROVE  Value(new[i], t) = (S!Content(new[i].sprint)[t])'
    BY <1>1, <1>2 DEF OthersStay, S!Content
  <2>1. Value(new[i], t) = S!Content(old[i + d].sprint)[t]
    BY <1>5, <1>8
  <2>2. PICK s \in S!Sprints : s = old[i + d].sprint /\ s = new[i].sprint
    BY <1>4, <1>5
  <2>3. (S!Content(s)[t])' = S!Content(s)[t]
    BY <1>9
  <2>4. (S!Content(new[i].sprint)[t])' = (S!Content(s)[t])'
    BY <2>2 DEF S!Content
  <2> QED BY <2>1, <2>2, <2>3, <2>4
<1>12. ASSUME NEW t \in Tickets, NEW i \in 1..Len(old), Writes(old[i], t),
              ~(i = 1 /\ BucketOf[t] = b)
       PROVE  \E k \in 1..Len(new) : new[k].sprint = old[i].sprint /\ Writes(new[k], t)
  <2>1. i - d \in 1..Len(new) /\ (i - d) + d = i
    BY <1>1, <1>12, WroteLeft
  <2>2. new[i - d].sprint = old[i].sprint /\ Writes(new[i - d], t)
    BY <1>5, <1>12, <2>1
  <2> QED BY <2>1, <2>2
<1>13. ASSUME NEW t \in T
       PROVE  /\ \A i \in 1..Len(new) : Writes(new[i], t) =>
                   IF new[i].sprint = to THEN Puts => Value(new[i], t) = begun
                   ELSE Value(new[i], t) = Absent
              /\ \A s \in S!Sprints : S!IsIn(t, s)' /\ s # to =>
                   \E i \in 1..Len(new) : new[i].sprint = s /\ Writes(new[i], t)
              /\ Puts => \/ (S!Content(to)[t])' = begun
                         \/ \E i \in 1..Len(new) : new[i].sprint = to /\ Writes(new[i], t)
  <2>1. /\ \A i \in 1..Len(old) : Writes(old[i], t) =>
             IF old[i].sprint = to THEN Puts => Value(old[i], t) = begun
             ELSE Value(old[i], t) = Absent
        /\ \A s \in S!Sprints : S!IsIn(t, s) /\ s # to =>
             \E i \in 1..Len(old) : old[i].sprint = s /\ Writes(old[i], t)
        /\ Puts => \/ S!Content(to)[t] = begun
                   \/ \E i \in 1..Len(old) : old[i].sprint = to /\ Writes(old[i], t)
    BY <1>1 DEF Versions, TicketsGo
  <2>2. t \in Tickets
    BY <1>3
  <2>3. \A i \in 1..Len(new) : Writes(new[i], t) =>
          IF new[i].sprint = to THEN Puts => Value(new[i], t) = begun
          ELSE Value(new[i], t) = Absent
    BY <1>5, <2>1, <2>2
  <2>4. ASSUME NEW s \in S!Sprints, S!IsIn(t, s)', s # to
        PROVE  \E i \in 1..Len(new) : new[i].sprint = s /\ Writes(new[i], t)
    <3>1. ~Hit(t, s)
      <4> SUFFICES ASSUME Hit(t, s) PROVE FALSE
        OBVIOUS
      <4>1. Value(old[1], t) = Absent
        BY <1>3, <2>1, <2>4
      <4> QED BY <1>6, <1>7, <2>2, <2>4, <4>1
    <3>2. S!IsIn(t, s)
      BY <1>6, <1>7, <2>2, <2>4, <3>1
    <3>3. PICK i \in 1..Len(old) : old[i].sprint = s /\ Writes(old[i], t)
      BY <2>1, <2>4, <3>2
    <3>4. ~(i = 1 /\ BucketOf[t] = b)
      BY <3>1, <3>3
    <3> QED BY <1>12, <2>2, <3>3, <3>4
  <2>5. ASSUME Puts
        PROVE  \/ (S!Content(to)[t])' = begun
               \/ \E i \in 1..Len(new) : new[i].sprint = to /\ Writes(new[i], t)
    <3>1. CASE Hit(t, to)
      <4>1. Value(old[1], t) = begun
        BY <1>3, <2>1, <2>5, <3>1
      <4> QED BY <1>3, <1>6, <2>2, <3>1, <4>1
    <3>2. CASE ~Hit(t, to) /\ S!Content(to)[t] = begun
      BY <1>3, <1>6, <2>2, <3>2
    <3>3. CASE ~Hit(t, to) /\ \E i \in 1..Len(old) : old[i].sprint = to /\ Writes(old[i], t)
      <4>1. PICK i \in 1..Len(old) : old[i].sprint = to /\ Writes(old[i], t)
        BY <3>3
      <4>2. ~(i = 1 /\ BucketOf[t] = b)
        BY <3>3, <4>1
      <4> QED BY <1>12, <2>2, <4>1, <4>2
    <3> QED BY <2>1, <2>5, <3>1, <3>2, <3>3
  <2> QED BY <2>3, <2>4, <2>5
<1>14. TicketsGo'
  <2>1. Puts' <=> Puts
    BY <1>2 DEF Puts
  <2>2. \A t : (S!Content(job.to)[t])' = (S!Content(to)[t])'
    BY <1>2 DEF S!Content
  <2> QED BY <1>1, <1>2, <1>13, <2>1, <2>2 DEF TicketsGo
<1>15. NothingOlder'
  <2> SUFFICES ASSUME NEW t \in sure
               PROVE  /\ kept[t] \in Nat /\ kept[t] <= begun
                      /\ \A s \in S!Sprints : S!IsIn(t, s)' => (S!Content(s)[t])' >= kept[t]
                      /\ \A i \in 1..Len(new) : Brings(new[i], t) => Value(new[i], t) >= kept[t]
    BY <1>1, <1>2 DEF NothingOlder
  <2>1. /\ kept[t] \in Nat /\ kept[t] <= begun
        /\ \A s \in S!Sprints : S!IsIn(t, s) => S!Content(s)[t] >= kept[t]
        /\ \A i \in 1..Len(old) : Brings(old[i], t) => Value(old[i], t) >= kept[t]
    BY <1>1 DEF Versions, NothingOlder
  <2>2. t \in Tickets
    BY <1>3
  <2>3. ASSUME NEW s \in S!Sprints, S!IsIn(t, s)' PROVE (S!Content(s)[t])' >= kept[t]
    <3>1. CASE Hit(t, s)
      <4>1. Brings(old[1], t) /\ (S!Content(s)[t])' = Value(old[1], t)
        BY <1>6, <1>7, <2>2, <2>3, <3>1 DEF Brings
      <4> QED BY <1>3, <2>1, <4>1
    <3>2. CASE ~Hit(t, s)
      <4>1. S!IsIn(t, s) /\ (S!Content(s)[t])' = S!Content(s)[t]
        BY <1>6, <1>7, <2>2, <2>3, <3>2
      <4> QED BY <2>1, <4>1
    <3> QED BY <3>1, <3>2
  <2>4. \A i \in 1..Len(new) : Brings(new[i], t) => Value(new[i], t) >= kept[t]
    BY <1>5, <2>1, <2>2 DEF Brings
  <2> QED BY <2>1, <2>3, <2>4
<1>16. ~job'.undo
  BY <1>2 DEF Versions
<1> QED BY <1>10, <1>11, <1>14, <1>15, <1>16 DEF Versions

(* The job is over: what it was about is in its sprint alone.              *)
LEMMA AcknowledgeVersions ==
  ASSUME ShardTyped, Versions, S!Acknowledge
  PROVE  Versions'
<1>1. /\ job.todo = <<>> /\ job' = S!NoJob /\ shards' = shards /\ begun' = begun
  BY DEF S!Acknowledge, S!fileVars
<1>2. job' = [op |-> "none", todo |-> <<>>, tickets |-> {}, to |-> "current", undo |-> FALSE]
  BY <1>1, ShardConstants DEF S!NoJob
<1>3. /\ Len(job.todo) = 0 /\ Len(job'.todo) = 0 /\ job'.tickets = {} /\ ~job'.undo
      /\ job'.op = "none"
  BY <1>1, <1>2
<1>4. (\A i \in 1..Len(job.todo) : FALSE) /\ (\A i \in 1..Len(job'.todo) : FALSE)
  BY <1>3
<1>5. \A t, s : /\ S!IsIn(t, s)' <=> S!IsIn(t, s)
                /\ (S!Content(s)[t])' = S!Content(s)[t]
  BY <1>1 DEF S!IsIn, S!Content
<1>6. job.tickets \in SUBSET Tickets /\ sure \subseteq Tickets /\ begun \in Nat
      /\ job.op \in S!AllOps \cup {"none"}
  BY DEF ShardTyped, ShardJobs
<1>7. \A t \in job.tickets : \A s \in S!Sprints : S!IsIn(t, s) => s = job.to
  BY <1>4 DEF Versions, TicketsGo
<1>8. OneHolder'
  <2>1. \A t \in Tickets : \A s, z \in S!Sprints : S!IsIn(t, s) /\ S!IsIn(t, z) => s = z
    BY <1>6, <1>7 DEF Versions, OneHolder
  <2> QED BY <1>3, <1>5, <2>1 DEF OneHolder
<1>9. OthersStay' /\ TicketsGo'
  BY <1>3, <1>4 DEF OthersStay, TicketsGo
<1>10. \/ sure' = sure /\ kept' = kept
       \/ /\ Puts /\ sure' = sure \cup job.tickets
          /\ kept' = [t \in Tickets |-> IF t \in job.tickets THEN begun ELSE kept[t]]
  <2>1. ~S!Idle
    BY DEF S!Acknowledge
  <2> QED BY <1>6, <2>1 DEF S!Acknowledge, Puts, S!AllOps, S!Idle, Versions
<1>11. ASSUME NEW t \in sure'
       PROVE  /\ kept'[t] \in Nat /\ kept'[t] <= begun
              /\ \A s \in S!Sprints : S!IsIn(t, s) => S!Content(s)[t] >= kept'[t]
  <2>1. CASE t \in sure /\ kept'[t] = kept[t]
    BY <2>1 DEF Versions, NothingOlder
  <2>2. CASE ~(t \in sure /\ kept'[t] = kept[t])
    <3>1. Puts /\ t \in job.tickets /\ kept'[t] = begun
      BY <1>6, <1>10, <2>2
    <3>2. S!Content(job.to)[t] = begun
      BY <1>4, <3>1 DEF Versions, TicketsGo
    <3> QED BY <1>6, <1>7, <3>1, <3>2
  <2> QED BY <2>1, <2>2
<1>12. NothingOlder'
  BY <1>1, <1>4, <1>5, <1>11 DEF NothingOlder
<1> QED BY <1>3, <1>8, <1>9, <1>12 DEF Versions

-----------------------------------------------------------------------------
(* The stats of the shards.                                                *)

LEMMA StagesTyped ==
  ASSUME NEW x \in ShardJobs, NEW i \in 1..Len(x.todo)
  PROVE  /\ x.todo[i].sprint \in S!Sprints /\ DOMAIN x.todo[i].files \in SUBSET Buckets
         /\ \A b \in DOMAIN x.todo[i].files : x.todo[i].files[b] \in Held
<1>1. x.todo \in Seq(ShardStages)
  BY DEF ShardJobs
<1>2. x.todo[i] \in ShardStages
  BY <1>1
<1> QED BY <1>2, FileSetsAre DEF ShardStages

LEMMA FreshBegun ==
  ASSUME FreshStats, \A s, b, x : Remembered(s, b, x)' => Remembered(s, b, x),
         begun' = begun + 1, ~job'.undo
  PROVE  FreshStats'
<1>1. begun \in Nat \ {0} /\ begun' \in Nat \ {0}
  BY DEF FreshStats
<1>2. ASSUME NEW s \in S!Sprints, NEW b \in Buckets, NEW x, Remembered(s, b, x)'
      PROVE  x \in Nat /\ x <= 2 * begun' /\ x < S!Stat'
  <2>1. x \in Nat /\ x <= 2 * begun + 1
    BY <1>2 DEF FreshStats
  <2>2. S!Stat' = 2 * begun' + 0
    BY DEF S!Stat
  <2> QED BY <1>1, <2>1, <2>2
<1>3. \A s \in S!Sprints, b \in Buckets : \A x : Remembered(s, b, x)' =>
        x \in Nat /\ x <= 2 * begun' + 1 /\ x <= 2 * begun' /\ x < S!Stat'
  BY <1>1, <1>2
<1> QED BY <1>1, <1>3 DEF FreshStats

LEMMA FreshOver ==
  ASSUME FreshStats, \A s, b, x : Remembered(s, b, x)' => Remembered(s, b, x),
         begun' = begun, job' = S!NoJob
  PROVE  FreshStats'
<1>1. S!Idle' /\ \A s, b : ~Coming(s, b)'
  <2>1. job' = [op |-> "none", todo |-> <<>>, tickets |-> {}, to |-> "current", undo |-> FALSE]
    BY ShardConstants DEF S!NoJob
  <2>2. \A i \in 1..Len(job'.todo) : FALSE
    BY <2>1
  <2> QED BY <2>1, <2>2 DEF S!Idle, Coming
<1>2. begun' \in Nat \ {0}
  BY DEF FreshStats
<1>3. \A s \in S!Sprints, b \in Buckets : \A x : Remembered(s, b, x)' =>
        x \in Nat /\ x <= 2 * begun' + 1
  BY DEF FreshStats
<1> QED BY <1>1, <1>2, <1>3 DEF FreshStats

LEMMA FreshUndo ==
  ASSUME FreshStats, \A s, b, x : Remembered(s, b, x)' => Remembered(s, b, x),
         begun' = begun, ~S!Idle, ~job.undo, job'.undo
  PROVE  FreshStats'
<1>1. begun \in Nat \ {0} /\ begun' \in Nat \ {0}
  BY DEF FreshStats
<1>2. ASSUME NEW s \in S!Sprints, NEW b \in Buckets, NEW x, Remembered(s, b, x)'
      PROVE  x \in Nat /\ x <= 2 * begun' /\ x < S!Stat'
  <2>1. x \in Nat /\ x <= 2 * begun
    BY <1>2 DEF FreshStats
  <2>2. S!Stat' = 2 * begun' + 1
    BY DEF S!Stat
  <2> QED BY <1>1, <2>1, <2>2
<1>3. \A s \in S!Sprints, b \in Buckets : \A x : Remembered(s, b, x)' =>
        x \in Nat /\ x <= 2 * begun' + 1 /\ x <= 2 * begun' /\ x < S!Stat'
  BY <1>1, <1>2
<1> QED BY <1>1, <1>3 DEF FreshStats

LEMMA FreshQuiet ==
  ASSUME FreshStats, begun' = begun, S!Idle' = S!Idle, job'.undo = job.undo,
         job.undo \in BOOLEAN,
         \A s \in S!Sprints, b \in Buckets : \A x :
           Remembered(s, b, x)' => Remembered(s, b, x) \/ x = 0,
         \A s \in S!Sprints, b \in Buckets : Coming(s, b)' => Coming(s, b)
  PROVE  FreshStats'
<1>1. begun \in Nat \ {0} /\ begun' \in Nat \ {0}
  BY DEF FreshStats
<1>2. S!Stat' = S!Stat /\ 0 < S!Stat
  BY <1>1 DEF S!Stat
<1>3. ASSUME NEW s \in S!Sprints, NEW b \in Buckets, NEW x, Remembered(s, b, x)'
      PROVE  /\ x \in Nat /\ x <= 2 * begun + 1
             /\ ~S!Idle /\ ~job.undo => x <= 2 * begun
             /\ Coming(s, b)' => x < S!Stat
  <2>1. CASE x = 0
    BY <1>1, <1>2, <2>1
  <2>2. CASE Remembered(s, b, x)
    BY <2>2 DEF FreshStats
  <2> QED BY <1>3, <2>1, <2>2
<1>4. (~S!Idle /\ ~job.undo)' <=> (~S!Idle /\ ~job.undo)
  OBVIOUS
<1>5. \A s \in S!Sprints, b \in Buckets : \A x : Remembered(s, b, x)' =>
        /\ x \in Nat /\ x <= 2 * begun' + 1
        /\ (~S!Idle /\ ~job.undo)' => x <= 2 * begun'
        /\ Coming(s, b)' => x < S!Stat'
  BY <1>2, <1>3, <1>4
<1> QED BY <1>1, <1>5 DEF FreshStats

LEMMA ComingLeft ==
  ASSUME Once, NEW d \in {0, 1}, NEW b, Wrote(d, b), NEW s, NEW c, Coming(s, c)'
  PROVE  Coming(s, c) /\ ~(s = job.todo[1].sprint /\ c = b /\ b \in DOMAIN job.todo[1].files)
<1>1. PICK old, new : old = job.todo /\ new = job'.todo
  OBVIOUS
<1>2. PICK i \in 1..Len(new) : new[i].sprint = s /\ c \in DOMAIN new[i].files
  BY <1>1 DEF Coming
<1>3. /\ i + d \in 1..Len(old) /\ new[i].sprint = old[i + d].sprint
      /\ i + d # 1 => new[i] = old[i + d]
      /\ i + d = 1 => b \in DOMAIN old[1].files /\ DOMAIN new[1].files = DOMAIN old[1].files \ {b}
  BY <1>1 DEF Wrote
<1>4. 1 \in 1..Len(old)
  BY <1>1 DEF Wrote
<1>5. CASE i + d = 1
  <2>1. i = 1
    BY <1>5
  <2>2. old[1].sprint = s /\ c \in DOMAIN old[1].files /\ c # b
    BY <1>2, <1>3, <1>5, <2>1
  <2> QED BY <1>1, <1>4, <2>2 DEF Coming
<1>6. CASE i + d # 1
  <2>1. old[i + d].sprint = s /\ c \in DOMAIN old[i + d].files
    BY <1>2, <1>3, <1>6
  <2>2. ~(s = old[1].sprint /\ DOMAIN old[1].files # {})
    BY <1>1, <1>3, <1>4, <1>6, <2>1 DEF Once
  <2> QED BY <1>1, <1>3, <2>1, <2>2 DEF Coming
<1> QED BY <1>5, <1>6

(* The file of shard b of sprint s is replaced by one with stat n, or goes *)
(* when it is empty.                                                       *)
Replaced(s, b, n, held) ==
  /\ n \in {0, S!Stat} /\ (n = 0 => held = S!Empty)
  /\ \A z \in S!Sprints, c \in Buckets : shards'[z][c] =
       IF z = s /\ c = b THEN [stat |-> n, held |-> held] ELSE shards[z][c]
  /\ manifest' = manifest /\ sum' = sum /\ cache' = cache
  /\ raced' = (raced \/ (sum.pc # "idle" /\ sum.sprint = s))
  /\ list' = [list EXCEPT !.window = list'.window]
  /\ list'.window = [t \in Tickets |-> list'.window[t]]
  /\ \A t \in Tickets :
       /\ list.window[t] \subseteq list'.window[t]
       /\ list.pc = "load" /\ s = S!Current /\ BucketOf[t] = b =>
            held[t] = S!Content(s)[t] \/ held[t] \in list'.window[t]

LEMMA Replaces ==
  ASSUME ShardTyped, ReadsTyped, FreshStats, NEW d, NEW b \in Buckets, Wrote(d, b), WroteShard(b),
         b \in DOMAIN job.todo[1].files, S!Work
  PROVE  \E s \in S!Sprints, held \in Held, n \in Nat :
           /\ Replaced(s, b, n, held)
           /\ Coming(s, b) /\ s = job.todo[1].sprint
<1>1. /\ 1 \in 1..Len(job.todo) /\ Head(job.todo) = job.todo[1] /\ job \in ShardJobs
  <2>1. job.todo \in Seq(ShardStages) /\ 1 \in 1..Len(job.todo) /\ job \in ShardJobs
    BY DEF Wrote, ShardTyped, ShardJobs
  <2>2. PICK todo \in Seq(ShardStages) : todo = job.todo
    BY <2>1
  <2>3. Head(todo) = todo[1]
    BY <2>1, <2>2
  <2> QED BY <2>1, <2>2, <2>3
<1>2. PICK s, held : s = job.todo[1].sprint /\ held = job.todo[1].files[b]
  OBVIOUS
<1>3. s \in S!Sprints /\ held \in Held
  BY <1>1, <1>2, StagesTyped
<1>4. S!WriteShard(s, b)
  BY <1>1, <1>2 DEF WroteShard
<1>5. PICK n : n = S!Stored(held).stat
  OBVIOUS
<1>6. n \in {0, S!Stat} /\ n \in Nat /\ (n = 0 => held = S!Empty)
      /\ S!Stored(held) = [stat |-> n, held |-> held]
  <2>1. S!Stat \in Nat /\ S!Stat # 0
    BY DEF FreshStats, S!Stat
  <2> QED BY <1>5, <2>1 DEF S!Stored, S!Missing
<1>7. \A z \in S!Sprints, c \in Buckets : shards'[z][c] =
        IF z = s /\ c = b THEN [stat |-> n, held |-> held] ELSE shards[z][c]
  BY <1>2, <1>6 DEF Wrote
<1>8. /\ manifest' = manifest /\ sum' = sum /\ cache' = cache
      /\ raced' = (raced \/ (sum.pc # "idle" /\ sum.sprint = s))
      /\ S!Noticed(s, [t \in Tickets |-> IF BucketOf[t] = b THEN held[t] ELSE S!Content(s)[t]])
  BY <1>1, <1>2, <1>4 DEF S!WriteShard, S!Work
<1>9. /\ list' = [list EXCEPT !.window = list'.window]
      /\ list'.window = [t \in Tickets |-> list'.window[t]]
      /\ \A t \in Tickets :
           /\ list.window[t] \subseteq list'.window[t]
           /\ list.pc = "load" /\ s = S!Current /\ BucketOf[t] = b =>
                held[t] = S!Content(s)[t] \/ held[t] \in list'.window[t]
  <2> DEFINE now == [t \in Tickets |-> IF BucketOf[t] = b THEN held[t] ELSE S!Content(s)[t]]
             win == [t \in Tickets |-> IF now[t] # S!Content(s)[t]
                                       THEN list.window[t] \cup {now[t]} ELSE list.window[t]]
  <2>1. list = [pc |-> list.pc, left |-> list.left, seen |-> list.seen,
                sig |-> list.sig, window |-> list.window]
        /\ list.window = [t \in Tickets |-> list.window[t]]
    BY DEF ReadsTyped
  <2>2. CASE list.pc = "idle" \/ s # S!Current
    <3>1. list' = list
      BY <1>8, <2>2 DEF S!Noticed
    <3> QED BY <2>1, <2>2, <3>1
  <2>3. CASE ~(list.pc = "idle" \/ s # S!Current)
    <3>1. list' = [list EXCEPT !.window = win]
      BY <1>8, <2>3 DEF S!Noticed
    <3>2. \A t \in Tickets : /\ list.window[t] \subseteq win[t]
                             /\ BucketOf[t] = b =>
                                  held[t] = S!Content(s)[t] \/ held[t] \in win[t]
      OBVIOUS
    <3>3. win = [t \in Tickets |-> win[t]]
      OBVIOUS
    <3> HIDE DEF win
    <3>4. list'.window = win
      BY <2>1, <3>1
    <3> QED BY <3>1, <3>2, <3>3, <3>4
  <2> QED BY <2>2, <2>3
<1>10. Replaced(s, b, n, held)
  BY <1>6, <1>7, <1>8, <1>9 DEF Replaced
<1>11. Coming(s, b)
  BY <1>1, <1>2 DEF Coming
<1> QED BY <1>2, <1>3, <1>6, <1>10, <1>11

LEMMA FreshReplaced ==
  ASSUME ShardTyped, ReadsTyped, FreshStats, Once, NEW d \in {0, 1}, NEW b \in Buckets, Wrote(d, b),
         b \in DOMAIN job.todo[1].files,
         NEW s \in S!Sprints, NEW held \in Held, NEW n \in Nat,
         Replaced(s, b, n, held), s = job.todo[1].sprint, ~S!Idle
  PROVE  FreshStats'
<1>1. begun \in Nat \ {0} /\ begun' = begun /\ job.undo \in BOOLEAN
  BY DEF FreshStats, Wrote, ShardTyped, ShardJobs
<1>2. job'.undo = job.undo /\ job'.op = job.op
  BY DEF Wrote, ShardTyped, ShardJobs
<1>3. S!Stat' = S!Stat /\ ~S!Idle'
  BY <1>1, <1>2 DEF S!Stat, S!Idle
<1>4. ASSUME NEW z \in S!Sprints, NEW c \in Buckets, NEW x, Remembered(z, c, x)'
      PROVE  Remembered(z, c, x) \/ (z = s /\ c = b /\ x = n)
  <2>1. list'.sig = list.sig
    BY DEF Replaced, ReadsTyped
  <2>2. shards'[z][c].stat = IF z = s /\ c = b THEN n ELSE shards[z][c].stat
    BY DEF Replaced
  <2>3. manifest' = manifest /\ sum' = sum /\ cache' = cache
    BY DEF Replaced
  <2> QED BY <1>4, <2>1, <2>2, <2>3 DEF Remembered
<1>5. ASSUME NEW z \in S!Sprints, NEW c \in Buckets, NEW x, Remembered(z, c, x)'
      PROVE  /\ x \in Nat /\ x <= 2 * begun + 1
             /\ ~job.undo => x <= 2 * begun
             /\ Coming(z, c)' => x < S!Stat
  <2>1. CASE Remembered(z, c, x)
    <3>1. Coming(z, c)' => Coming(z, c)
      BY ComingLeft
    <3> QED BY <2>1, <3>1 DEF FreshStats
  <2>2. CASE z = s /\ c = b /\ x = n
    <3>1. ~Coming(z, c)'
      BY <2>2, ComingLeft
    <3>2. x = 0 \/ x = S!Stat
      BY <2>2 DEF Replaced
    <3> QED BY <1>1, <3>1, <3>2 DEF S!Stat
  <2> QED BY <1>4, <1>5, <2>1, <2>2
<1>6. \A z \in S!Sprints, c \in Buckets : \A x : Remembered(z, c, x)' =>
        /\ x \in Nat /\ x <= 2 * begun' + 1
        /\ (~S!Idle /\ ~job.undo)' => x <= 2 * begun'
        /\ Coming(z, c)' => x < S!Stat'
  BY <1>1, <1>2, <1>3, <1>5
<1> QED BY <1>1, <1>6 DEF FreshStats

-----------------------------------------------------------------------------
(* A shard is replaced under its readers.                                  *)

LEMMA SizeIs == \A X : S!Cardinality(X) = Cardinality(X)
BY DEF S!Cardinality, Cardinality

LEMMA NothingCounts == S!Count(S!Empty) = 0
<1>1. {t \in Tickets : S!Empty[t] # Absent} = {}
  BY DEF S!Empty
<1>2. S!Count(S!Empty) = Cardinality({t \in Tickets : S!Empty[t] # Absent})
  BY SizeIs DEF S!Count
<1>3. Cardinality({}) = 0
  BY FS_EmptySet
<1> QED BY <1>1, <1>2, <1>3, Zenon

LEMMA StaleTells ==
  ASSUME NEW entry, NEW file, Tells(entry, file), entry.stat < S!Stat,
         NEW held, NEW n \in {0, S!Stat}, n = 0 => held = S!Empty, S!Stat \in Nat \ {0}
  PROVE  Tells(entry, [stat |-> n, held |-> held])
<1>1. CASE n = 0
  BY <1>1, NothingCounts DEF Tells
<1>2. CASE n # 0
  <2>1. n = S!Stat /\ entry.stat # n
    BY <1>2
  <2> QED BY <2>1 DEF Tells
<1> QED BY <1>1, <1>2

LEMMA StaleReveals ==
  ASSUME NEW x, NEW value, NEW file, NEW t \in Tickets, Reveals(x, value, file, t), x < S!Stat,
         NEW held, NEW n \in {0, S!Stat}, n = 0 => held = S!Empty, S!Stat \in Nat \ {0}
  PROVE  Reveals(x, value, [stat |-> n, held |-> held], t)
<1>1. CASE n = 0
  BY <1>1 DEF Reveals, S!Empty
<1>2. CASE n # 0
  <2>1. n = S!Stat /\ x # n
    BY <1>2
  <2> QED BY <2>1 DEF Reveals
<1> QED BY <1>1, <1>2

LEMMA ReplacedTyped ==
  ASSUME ReadsTyped, NEW s, NEW b, NEW n, NEW held, Replaced(s, b, n, held)
  PROVE  ReadsTyped'
<1>1. PICK window : window = list'.window
  OBVIOUS
<1>2. list' = [list EXCEPT !.window = window] /\ window = [t \in Tickets |-> window[t]]
      /\ manifest' = manifest /\ sum' = sum
  BY <1>1 DEF Replaced
<1>3. list = [pc |-> list.pc, left |-> list.left, seen |-> [t \in Tickets |-> list.seen[t]],
              sig |-> [c \in Buckets |-> list.sig[c]],
              window |-> [t \in Tickets |-> list.window[t]]]
  BY DEF ReadsTyped
<1>4. list' = [pc |-> list.pc, left |-> list.left, seen |-> [t \in Tickets |-> list.seen[t]],
               sig |-> [c \in Buckets |-> list.sig[c]], window |-> window]
  BY <1>2, <1>3
<1>5. list' = [pc |-> list'.pc, left |-> list'.left, seen |-> [t \in Tickets |-> list'.seen[t]],
               sig |-> [c \in Buckets |-> list'.sig[c]],
               window |-> [t \in Tickets |-> list'.window[t]]]
  <2>1. /\ list'.pc = list.pc /\ list'.left = list.left /\ list'.window = window
        /\ list'.seen = [t \in Tickets |-> list.seen[t]]
        /\ list'.sig = [c \in Buckets |-> list.sig[c]]
    BY <1>4
  <2>2. \A t \in Tickets : list'.seen[t] = list.seen[t]
    BY <2>1
  <2>3. \A c \in Buckets : list'.sig[c] = list.sig[c]
    BY <2>1
  <2> QED BY <1>2, <1>4, <2>1, <2>2, <2>3
<1> QED BY <1>2, <1>5 DEF ReadsTyped

LEMMA ReplacedManifests ==
  ASSUME ReadsTyped, FreshStats, ManifestsTell,
         NEW s \in S!Sprints, NEW b \in Buckets, NEW n, NEW held,
         Replaced(s, b, n, held), Coming(s, b)
  PROVE  ManifestsTell'
<1>1. S!Stat \in Nat \ {0}
  BY DEF FreshStats, S!Stat
<1>2. n \in {0, S!Stat} /\ (n = 0 => held = S!Empty) /\ manifest' = manifest /\ sum' = sum
      /\ raced' = (raced \/ (sum.pc # "idle" /\ sum.sprint = s))
  BY DEF Replaced
<1> SUFFICES ASSUME ~raced'
             PROVE  /\ \A z \in S!Sprints, c \in Buckets : Tells(manifest[z].entry[c], shards'[z][c])
                    /\ \A c \in Buckets : Tells(sum.entry[c], shards'[sum.sprint][c])
                    /\ sum.pc = "stat" => sum.count = S!Count(shards'[sum.sprint][sum.bucket].held)
  BY <1>2 DEF ManifestsTell
<1>3. ~raced /\ (sum.pc = "idle" \/ sum.sprint # s)
  BY <1>2
<1>4. /\ \A z \in S!Sprints, c \in Buckets : Tells(manifest[z].entry[c], shards[z][c])
      /\ \A c \in Buckets : Tells(sum.entry[c], shards[sum.sprint][c])
      /\ sum.pc = "stat" => sum.count = S!Count(shards[sum.sprint][sum.bucket].held)
  BY <1>3 DEF ManifestsTell
<1>5. \A z \in S!Sprints, c \in Buckets : shards'[z][c] =
        IF z = s /\ c = b THEN [stat |-> n, held |-> held] ELSE shards[z][c]
  BY DEF Replaced
<1>6. ASSUME NEW z \in S!Sprints, NEW c \in Buckets, NEW entry, Tells(entry, shards[z][c]),
             Remembered(z, c, entry.stat)
      PROVE  Tells(entry, shards'[z][c])
  <2>1. CASE z = s /\ c = b
    <3>1. entry.stat < S!Stat
      BY <1>6, <2>1 DEF FreshStats
    <3>2. Tells(entry, [stat |-> n, held |-> held])
      BY <1>1, <1>2, <1>6, <3>1, StaleTells
    <3> QED BY <1>5, <2>1, <3>2
  <2>2. CASE ~(z = s /\ c = b)
    BY <1>5, <1>6, <2>2
  <2> QED BY <2>1, <2>2
<1>7. ASSUME NEW z \in S!Sprints, NEW c \in Buckets PROVE Tells(manifest[z].entry[c], shards'[z][c])
  BY <1>4, <1>6 DEF Remembered
<1>8. ASSUME NEW c \in Buckets PROVE Tells(sum.entry[c], shards'[sum.sprint][c])
  <2>1. sum.sprint \in S!Sprints
    BY DEF ReadsTyped
  <2> QED BY <1>4, <1>6, <2>1 DEF Remembered
<1>9. sum.pc = "stat" => shards'[sum.sprint][sum.bucket] = shards[sum.sprint][sum.bucket]
  BY <1>3, <1>5 DEF ReadsTyped
<1> QED BY <1>4, <1>7, <1>8, <1>9

LEMMA ReplacedFiles ==
  ASSUME NEW s \in S!Sprints, NEW b \in Buckets, NEW n, NEW held, Replaced(s, b, n, held),
         NEW t \in Tickets
  PROVE  File(t)' = IF s = S!Current /\ BucketOf[t] = b THEN [stat |-> n, held |-> held] ELSE File(t)
<1>1. S!Current \in S!Sprints /\ BucketOf[t] \in Buckets
  BY ShardConstants
<1> QED BY <1>1 DEF Replaced, File

LEMMA ReplacedReveals ==
  ASSUME FreshStats, NEW s \in S!Sprints, NEW b \in Buckets, NEW n, NEW held,
         Replaced(s, b, n, held), Coming(s, b),
         NEW t \in Tickets, NEW x, NEW value, Reveals(x, value, File(t), t),
         Remembered(S!Current, BucketOf[t], x)
  PROVE  Reveals(x, value, File(t)', t)
<1>1. S!Stat \in Nat \ {0}
  BY DEF FreshStats, S!Stat
<1>2. n \in {0, S!Stat} /\ (n = 0 => held = S!Empty)
  BY DEF Replaced
<1>3. PICK old, new : old = File(t) /\ new = File(t)'
  OBVIOUS
<1>4. new = IF s = S!Current /\ BucketOf[t] = b THEN [stat |-> n, held |-> held] ELSE old
  BY <1>3, ReplacedFiles
<1>5. CASE s = S!Current /\ BucketOf[t] = b
  <2>1. x < S!Stat
    BY <1>5 DEF FreshStats
  <2> QED BY <1>1, <1>2, <1>3, <1>4, <1>5, <2>1, StaleReveals
<1>6. CASE ~(s = S!Current /\ BucketOf[t] = b)
  BY <1>3, <1>4, <1>6
<1> QED BY <1>5, <1>6

LEMMA ReplacedLoads ==
  ASSUME ReadsTyped, FreshStats, LoadsTell,
         NEW s \in S!Sprints, NEW b \in Buckets, NEW n, NEW held,
         Replaced(s, b, n, held), Coming(s, b)
  PROVE  LoadsTell'
<1>1. PICK window : window = list'.window
  OBVIOUS
<1>2. /\ list' = [list EXCEPT !.window = window]
      /\ \A t \in Tickets :
           /\ list.window[t] \subseteq window[t]
           /\ list.pc = "load" /\ s = S!Current /\ BucketOf[t] = b =>
                held[t] = S!Content(s)[t] \/ held[t] \in window[t]
  BY <1>1 DEF Replaced
<1>3. /\ list'.pc = list.pc /\ list'.left = list.left /\ list'.seen = list.seen
      /\ list'.sig = list.sig
  BY <1>2 DEF ReadsTyped
<1> SUFFICES ASSUME list.pc = "load", NEW t \in Tickets
             PROVE  /\ File(t)'.held[t] \in window[t]
                    /\ list.sig[BucketOf[t]] = 0 => BucketOf[t] \notin list.left
                    /\ BucketOf[t] \notin list.left =>
                         /\ list.seen[t] \in window[t]
                         /\ Reveals(list.sig[BucketOf[t]], list.seen[t], File(t)', t)
  BY <1>1, <1>3 DEF LoadsTell
<1>4. /\ File(t).held[t] \in list.window[t]
      /\ list.sig[BucketOf[t]] = 0 => BucketOf[t] \notin list.left
      /\ BucketOf[t] \notin list.left =>
           /\ list.seen[t] \in list.window[t]
           /\ Reveals(list.sig[BucketOf[t]], list.seen[t], File(t), t)
  BY DEF LoadsTell
<1>5. File(t)'.held[t] \in window[t]
  <2>1. File(t)' = IF s = S!Current /\ BucketOf[t] = b THEN [stat |-> n, held |-> held] ELSE File(t)
    BY ReplacedFiles
  <2>2. CASE s = S!Current /\ BucketOf[t] = b
    <3>1. S!Content(s)[t] = File(t).held[t]
      BY <2>2 DEF S!Content, File
    <3>2. File(t)'.held[t] = held[t]
      BY <2>1, <2>2
    <3> QED BY <1>2, <1>4, <2>2, <3>1, <3>2
  <2>3. CASE ~(s = S!Current /\ BucketOf[t] = b)
    BY <1>2, <1>4, <2>1, <2>3
  <2> QED BY <2>2, <2>3
<1>6. BucketOf[t] \notin list.left =>
        /\ list.seen[t] \in window[t]
        /\ Reveals(list.sig[BucketOf[t]], list.seen[t], File(t)', t)
  <2>1. PICK x, value : x = list.sig[BucketOf[t]] /\ value = list.seen[t]
    OBVIOUS
  <2>2. Remembered(S!Current, BucketOf[t], x)
    BY <2>1 DEF Remembered
  <2>3. Reveals(x, value, File(t), t) => Reveals(x, value, File(t)', t)
    BY <2>2, ReplacedReveals
  <2> QED BY <1>2, <1>4, <2>1, <2>3
<1> QED BY <1>4, <1>5, <1>6

LEMMA ReplacedCache ==
  ASSUME FreshStats, CacheTells,
         NEW s \in S!Sprints, NEW b \in Buckets, NEW n, NEW held,
         Replaced(s, b, n, held), Coming(s, b)
  PROVE  CacheTells'
<1>1. PICK c : c = cache /\ c = cache'
  BY DEF Replaced
<1> SUFFICES ASSUME c # Absent
             PROVE  /\ c.models = [t \in Tickets |-> c.models[t]]
                    /\ \A t \in Tickets : Reveals(c.sig[BucketOf[t]], c.models[t], File(t)', t)
  BY <1>1 DEF CacheTells
<1>2. /\ c.models = [t \in Tickets |-> c.models[t]]
      /\ \A t \in Tickets : Reveals(c.sig[BucketOf[t]], c.models[t], File(t), t)
  BY <1>1 DEF CacheTells
<1>3. \A t \in Tickets : Remembered(S!Current, BucketOf[t], c.sig[BucketOf[t]])
  BY <1>1 DEF Remembered
<1>4. \A t \in Tickets : Reveals(c.sig[BucketOf[t]], c.models[t], File(t)', t)
  BY <1>2, <1>3, ReplacedReveals
<1> QED BY <1>2, <1>4

LEMMA ReplacedMissing ==
  ASSUME NoneMissing, NEW s \in S!Sprints, NEW b \in Buckets, NEW n, NEW held, Replaced(s, b, n, held)
  PROVE  NoneMissing'
BY DEF NoneMissing, Replaced

-----------------------------------------------------------------------------
(* Steps that replace no shard.                                            *)

LEMMA UnlistedTells ==
  ASSUME NoneMissing, NEW s \in S!Sprints, NEW b \in Buckets
  PROVE  Tells(S!Unlisted, shards[s][b])
BY NothingCounts DEF Tells, S!Unlisted, NoneMissing

LEMMA EntryTells ==
  ASSUME NoneMissing, NEW s \in S!Sprints, NEW b \in Buckets
  PROVE  Tells(S!Entry(shards[s][b]), shards[s][b])
<1>1. CASE shards[s][b].stat = 0
  BY <1>1, UnlistedTells DEF S!Entry
<1>2. CASE shards[s][b].stat # 0
  BY <1>2 DEF Tells, S!Entry
<1> QED BY <1>1, <1>2

LEMMA EntryStat ==
  ASSUME NEW file
  PROVE  S!Entry(file).stat = file.stat \/ S!Entry(file).stat = 0
BY DEF S!Entry, S!Unlisted

(* The stats that are remembered, and what the parts of the invariant say, *)
(* when the shards and one reader's variables stay.                        *)
LEMMA ReadsQuiet ==
  ASSUME ReadsTyped, NoneMissing, ManifestsTell, LoadsTell, CacheTells,
         shards' = shards, manifest' = manifest, list' = list, cache' = cache, sum' = sum,
         raced' = raced
  PROVE  /\ ReadsTyped' /\ NoneMissing' /\ ManifestsTell' /\ LoadsTell' /\ CacheTells'
         /\ \A s, b, x : Remembered(s, b, x)' => Remembered(s, b, x)
<1>1. ReadsTyped' /\ NoneMissing'
  BY DEF ReadsTyped, NoneMissing
<1>2. ManifestsTell'
  BY DEF ManifestsTell, Tells
<1>3. LoadsTell' /\ CacheTells'
  BY DEF LoadsTell, CacheTells, Reveals, File
<1>4. \A s, b, x : Remembered(s, b, x)' => Remembered(s, b, x)
  BY DEF Remembered
<1> QED BY <1>1, <1>2, <1>3, <1>4

(* An entry of a manifest stays, or is that of a missing or of a present   *)
(* file, or of a rebuild.                                                  *)
Listed(s, b, entry) ==
  \/ entry = manifest[s].entry[b] \/ entry = S!Unlisted \/ entry = S!Entry(shards[s][b])
  \/ s = sum.sprint /\ entry = sum.entry[b]

LEMMA ListedHolds ==
  ASSUME NoneMissing, NEW s \in S!Sprints, NEW b \in Buckets, NEW entry, Listed(s, b, entry)
  PROVE  /\ Remembered(s, b, entry.stat) \/ entry.stat = 0
         /\ ManifestsTell /\ ~raced => Tells(entry, shards[s][b])
<1>1. CASE entry = manifest[s].entry[b]
  BY <1>1 DEF Remembered, ManifestsTell
<1>2. CASE entry = S!Unlisted
  BY <1>2, UnlistedTells DEF S!Unlisted
<1>3. CASE entry = S!Entry(shards[s][b])
  BY <1>3, EntryTells, EntryStat DEF Remembered
<1>4. CASE s = sum.sprint /\ entry = sum.entry[b]
  BY <1>4 DEF Remembered, ManifestsTell
<1> QED BY <1>1, <1>2, <1>3, <1>4 DEF Listed

LEMMA ManifestReads ==
  ASSUME ReadsTyped, NoneMissing, ManifestsTell, LoadsTell, CacheTells,
         shards' = shards, list' = list, cache' = cache, raced' = raced,
         sum' = sum \/ sum' = S!NoSum,
         manifest' = [s \in S!Sprints |-> [valid |-> manifest'[s].valid,
                                           entry |-> [b \in Buckets |-> manifest'[s].entry[b]]]],
         \A s \in S!Sprints, b \in Buckets : Listed(s, b, manifest'[s].entry[b])
  PROVE  /\ ReadsTyped' /\ NoneMissing' /\ ManifestsTell' /\ LoadsTell' /\ CacheTells'
         /\ \A s \in S!Sprints, b \in Buckets : \A x :
              Remembered(s, b, x)' => Remembered(s, b, x) \/ x = 0
<1>1. NoneMissing' /\ LoadsTell' /\ CacheTells'
  BY DEF NoneMissing, LoadsTell, CacheTells, Reveals, File
<1>2. /\ S!NoSum.sprint \in S!Sprints /\ S!NoSum.bucket \in Buckets /\ S!NoSum.left \subseteq Buckets
      /\ S!NoSum = [pc |-> S!NoSum.pc, sprint |-> S!NoSum.sprint, left |-> S!NoSum.left,
                    bucket |-> S!NoSum.bucket, count |-> S!NoSum.count,
                    entry |-> [b \in Buckets |-> S!NoSum.entry[b]]]
      /\ \A b \in Buckets : S!NoSum.entry[b] = S!Unlisted
      /\ S!NoSum.pc = "idle"
  <2>1. PICK b : b = CHOOSE c \in Buckets : TRUE
    OBVIOUS
  <2>2. b \in Buckets
    BY <2>1, ShardAssumption, Zenon
  <2>3. S!NoSum = [pc |-> "idle", sprint |-> "current", left |-> {}, bucket |-> b, count |-> 0,
                   entry |-> [c \in Buckets |-> S!Unlisted]]
    BY <2>1, ShardConstants DEF S!NoSum
  <2> QED BY <2>2, <2>3, ShardConstants
<1>3. ReadsTyped'
  BY <1>2 DEF ReadsTyped
<1>4. \A s \in S!Sprints, b \in Buckets : \A x :
        Remembered(s, b, x)' => Remembered(s, b, x) \/ x = 0
  <2> TAKE s \in S!Sprints, b \in Buckets
  <2> TAKE x
  <2>1. x = manifest'[s].entry[b].stat => Remembered(s, b, x) \/ x = 0
    BY ListedHolds
  <2>2. s = sum'.sprint /\ x = sum'.entry[b].stat => Remembered(s, b, x) \/ x = 0
    BY <1>2 DEF Remembered, S!Unlisted
  <2> QED BY <2>1, <2>2 DEF Remembered
<1>5. ManifestsTell'
  <2> SUFFICES ASSUME ~raced
               PROVE  /\ \A s \in S!Sprints, b \in Buckets :
                           Tells(manifest'[s].entry[b], shards[s][b])
                      /\ \A b \in Buckets : Tells(sum'.entry[b], shards[sum'.sprint][b])
                      /\ sum'.pc = "stat" =>
                           sum'.count = S!Count(shards[sum'.sprint][sum'.bucket].held)
    BY DEF ManifestsTell
  <2>1. \A s \in S!Sprints, b \in Buckets : Tells(manifest'[s].entry[b], shards[s][b])
    BY ListedHolds
  <2>2. CASE sum' = sum
    BY <2>1, <2>2 DEF ManifestsTell
  <2>3. CASE sum' = S!NoSum
    BY <1>2, <2>1, <2>3, UnlistedTells
  <2> QED BY <2>1, <2>2, <2>3
<1> QED BY <1>1, <1>3, <1>4, <1>5

LEMMA ManifestsWritten ==
  ASSUME ReadsTyped, NEW s \in S!Sprints, NEW touched,
         S!WriteManifest(s, touched) \/ S!WriteFirstManifest(s) \/ S!WriteMetadata(s)
  PROVE  /\ shards' = shards /\ list' = list /\ raced' = raced
         /\ manifest' = [z \in S!Sprints |-> [valid |-> manifest'[z].valid,
                                              entry |-> [b \in Buckets |-> manifest'[z].entry[b]]]]
         /\ \A z \in S!Sprints, b \in Buckets : Listed(z, b, manifest'[z].entry[b])
<1>1. shards' = shards /\ list' = list /\ raced' = raced
  BY DEF S!WriteManifest, S!WriteFirstManifest, S!WriteMetadata
<1>2. manifest = [z \in S!Sprints |-> [valid |-> manifest[z].valid,
                                       entry |-> [b \in Buckets |-> manifest[z].entry[b]]]]
  BY DEF ReadsTyped
<1>3. CASE S!WriteManifest(s, touched)
  <2> DEFINE f == [b \in Buckets |-> IF b \in touched \/ ~manifest[s].valid
                                     THEN S!Entry(shards[s][b]) ELSE manifest[s].entry[b]]
  <2>1. manifest' = [manifest EXCEPT ![s] = [valid |-> TRUE, entry |-> f]]
    BY <1>2, <1>3 DEF S!WriteManifest
  <2>2. f = [b \in Buckets |-> f[b]]
        /\ \A b \in Buckets : f[b] = S!Entry(shards[s][b]) \/ f[b] = manifest[s].entry[b]
    OBVIOUS
  <2> HIDE DEF f
  <2>3. /\ manifest'[s] = [valid |-> TRUE, entry |-> f]
        /\ \A z \in S!Sprints : z # s => manifest'[z] = manifest[z]
        /\ manifest' = [z \in S!Sprints |-> manifest'[z]]
    BY <1>2, <2>1
  <2> QED BY <1>1, <1>2, <2>2, <2>3 DEF Listed
<1>4. CASE S!WriteFirstManifest(s)
  <2> DEFINE f == [b \in Buckets |-> S!Unlisted]
  <2>1. manifest' = [manifest EXCEPT ![s] = [valid |-> TRUE, entry |-> f]]
    BY <1>4 DEF S!WriteFirstManifest
  <2>2. f = [b \in Buckets |-> f[b]] /\ \A b \in Buckets : f[b] = S!Unlisted
    OBVIOUS
  <2> HIDE DEF f
  <2>3. /\ manifest'[s] = [valid |-> TRUE, entry |-> f]
        /\ \A z \in S!Sprints : z # s => manifest'[z] = manifest[z]
        /\ manifest' = [z \in S!Sprints |-> manifest'[z]]
    BY <1>2, <2>1
  <2> QED BY <1>1, <1>2, <2>2, <2>3 DEF Listed
<1>5. CASE S!WriteMetadata(s)
  <2>1. manifest' = manifest
    BY <1>5 DEF S!WriteMetadata
  <2> QED BY <1>1, <1>2, <2>1 DEF Listed
<1> QED BY <1>3, <1>4, <1>5

LEMMA WorkReads ==
  ASSUME ShardTyped, ReadsInv, S!Work
  PROVE  ReadsInv'
<1>i. ReadsTyped /\ Once /\ FreshStats /\ NoneMissing /\ ManifestsTell /\ LoadsTell /\ CacheTells
  BY DEF ReadsInv
<1>1. PICK d \in {0, 1}, b \in Buckets : Wrote(d, b) /\ WroteShard(b)
  BY WorkWrites
<1>2. ~S!Idle /\ cache' = cache /\ sum' = sum
  BY DEF S!Work
<1>3. Once'
  BY <1>i, <1>1, WorkOnce
<1>4. CASE b \in DOMAIN job.todo[1].files
  <2>1. PICK s \in S!Sprints, held \in Held, n \in Nat :
          Replaced(s, b, n, held) /\ Coming(s, b) /\ s = job.todo[1].sprint
    BY <1>i, <1>1, <1>4, Replaces
  <2>2. FreshStats'
    BY <1>i, <1>1, <1>2, <1>4, <2>1, FreshReplaced
  <2>3. ReadsTyped' /\ ManifestsTell' /\ LoadsTell' /\ CacheTells' /\ NoneMissing'
    BY <1>i, <2>1, ReplacedTyped, ReplacedManifests, ReplacedLoads, ReplacedCache, ReplacedMissing
  <2> QED BY <1>3, <2>2, <2>3 DEF ReadsInv
<1>5. CASE b \notin DOMAIN job.todo[1].files
  <2>1. DOMAIN job.todo[1].files = {}
    BY <1>1, <1>5 DEF Wrote
  <2>2. job.todo \in Seq(ShardStages) /\ 1 \in 1..Len(job.todo) /\ job \in ShardJobs
    BY <1>1 DEF Wrote, ShardTyped, ShardJobs
  <2>3. Head(job.todo) = job.todo[1] /\ job.todo[1].sprint \in S!Sprints
    <3>1. PICK todo \in Seq(ShardStages) : todo = job.todo
      BY <2>2
    <3>2. Head(todo) = todo[1]
      BY <2>2, <3>1
    <3> QED BY <2>2, <3>1, <3>2, StagesTyped
  <2>4. PICK s, touched : s = job.todo[1].sprint /\ touched = job.todo[1].touched
    OBVIOUS
  <2>5. S!WriteManifest(s, touched) \/ S!WriteFirstManifest(s) \/ S!WriteMetadata(s)
    BY <2>1, <2>3, <2>4 DEF S!Work
  <2>6. /\ shards' = shards /\ list' = list /\ raced' = raced
        /\ manifest' = [z \in S!Sprints |-> [valid |-> manifest'[z].valid,
                                             entry |-> [c \in Buckets |-> manifest'[z].entry[c]]]]
        /\ \A z \in S!Sprints, c \in Buckets : Listed(z, c, manifest'[z].entry[c])
    BY <1>i, <2>3, <2>4, <2>5, ManifestsWritten
  <2>7. /\ ReadsTyped' /\ NoneMissing' /\ ManifestsTell' /\ LoadsTell' /\ CacheTells'
        /\ \A z \in S!Sprints, c \in Buckets : \A x :
             Remembered(z, c, x)' => Remembered(z, c, x) \/ x = 0
    BY <1>i, <1>2, <2>6, ManifestReads
  <2>8. /\ begun' = begun /\ S!Idle' = S!Idle /\ job'.undo = job.undo /\ job.undo \in BOOLEAN
    <3>1. begun' = begun /\ job' = [job EXCEPT !.todo = job'.todo]
      BY <1>1 DEF Wrote
    <3>2. job'.op = job.op /\ job'.undo = job.undo /\ job.undo \in BOOLEAN
      BY <2>2, <3>1 DEF ShardJobs
    <3> QED BY <3>1, <3>2 DEF S!Idle
  <2>9. \A z \in S!Sprints, c \in Buckets : Coming(z, c)' => Coming(z, c)
    BY <1>i, <1>1, ComingLeft
  <2>10. FreshStats'
    BY <1>i, <2>7, <2>8, <2>9, FreshQuiet
  <2> QED BY <1>3, <2>7, <2>10 DEF ReadsInv
<1> QED BY <1>4, <1>5

(* Steps of the mutations that write nothing.                              *)
LEMMA BeginReads ==
  ASSUME ReadsInv, NEW op, NEW T, NEW to, NEW todo, S!Begin(op, T, to, todo), Once'
  PROVE  ReadsInv'
<1>i. ReadsTyped /\ Once /\ FreshStats /\ NoneMissing /\ ManifestsTell /\ LoadsTell /\ CacheTells
  BY DEF ReadsInv
<1>1. /\ shards' = shards /\ manifest' = manifest /\ list' = list /\ cache' = cache /\ sum' = sum
      /\ raced' = raced /\ begun' = begun + 1
      /\ job' = [op |-> op, todo |-> todo, tickets |-> T, to |-> to, undo |-> FALSE]
  BY DEF S!Begin, S!fileVars, S!listVars, S!sumVars
<1>2. /\ ReadsTyped' /\ NoneMissing' /\ ManifestsTell' /\ LoadsTell' /\ CacheTells'
      /\ \A s, b, x : Remembered(s, b, x)' => Remembered(s, b, x)
  BY <1>i, <1>1, ReadsQuiet
<1>3. ~job'.undo
  BY <1>1
<1>4. FreshStats'
  BY <1>i, <1>1, <1>2, <1>3, FreshBegun
<1> QED BY <1>2, <1>4 DEF ReadsInv

LEMMA OverReads ==
  ASSUME ReadsInv, job' = S!NoJob, begun' = begun, UNCHANGED <<S!fileVars, S!listVars, S!sumVars>>
  PROVE  ReadsInv'
<1>i. ReadsTyped /\ Once /\ FreshStats /\ NoneMissing /\ ManifestsTell /\ LoadsTell /\ CacheTells
  BY DEF ReadsInv
<1>1. /\ shards' = shards /\ manifest' = manifest /\ list' = list /\ cache' = cache /\ sum' = sum
      /\ raced' = raced
  BY DEF S!fileVars, S!listVars, S!sumVars
<1>2. /\ ReadsTyped' /\ NoneMissing' /\ ManifestsTell' /\ LoadsTell' /\ CacheTells'
      /\ \A s, b, x : Remembered(s, b, x)' => Remembered(s, b, x)
  BY <1>i, <1>1, ReadsQuiet
<1>3. FreshStats'
  BY <1>i, <1>2, FreshOver
<1>4. \A i \in 1..Len(job'.todo) : FALSE
  BY DEF S!NoJob
<1>5. Once'
  BY <1>4 DEF Once
<1> QED BY <1>2, <1>3, <1>5 DEF ReadsInv

LEMMA FailReads ==
  ASSUME ShardTyped, SourceLast, ReadsInv, S!WriteFails
  PROVE  ReadsInv'
<1>1. /\ ~S!Idle /\ UNCHANGED <<S!fileVars, S!listVars, S!sumVars>> /\ begun' = begun
      /\ job' = IF S!Removing
                THEN [job EXCEPT !.undo = TRUE,
                        !.todo = S!DeleteFrom(job.to, CHOOSE t \in job.tickets : TRUE)]
                ELSE S!NoJob
  BY DEF S!WriteFails
<1>2. CASE ~S!Removing
  BY <1>1, <1>2, OverReads
<1>3. CASE S!Removing
  <2>i. ReadsTyped /\ Once /\ FreshStats /\ NoneMissing /\ ManifestsTell /\ LoadsTell /\ CacheTells
    BY DEF ReadsInv
  <2>1. job.op = "move" /\ ~job.undo
    BY <1>3 DEF S!Removing
  <2>2. PICK t \in Tickets : job.tickets = {t}
    BY <2>1 DEF SourceLast
  <2>3. job \in ShardJobs
    BY DEF ShardTyped
  <2>4. PICK s \in S!Sprints : s = job.to
    BY <2>3 DEF ShardJobs
  <2>5. PICK q : q = S!DeleteFrom(s, t)
    OBVIOUS
  <2>6. OneWrite(q) /\ \A i \in 1..Len(q) : q[i].sprint = s
    <3>1. \A i \in 1..Len(q) : Harmless(q[i], s, {u \in Tickets \ {t} : S!IsIn(u, s)})
      BY <2>5, DeleteMade
    <3>2. OneWrite(q)
      BY <2>5, DeleteMade
    <3> QED BY <3>1, <3>2 DEF Harmless
  <2>7. (CHOOSE u \in job.tickets : TRUE) = t
    BY <2>2
  <2>8. job' = [job EXCEPT !.undo = TRUE, !.todo = q]
    BY <1>1, <1>3, <2>4, <2>5, <2>7
  <2>9. job'.todo = q /\ job'.undo
    BY <2>3, <2>8 DEF ShardJobs
  <2>10. Once'
    BY <2>6, <2>9, OnceInOne
  <2>11. /\ shards' = shards /\ manifest' = manifest /\ list' = list /\ cache' = cache /\ sum' = sum
         /\ raced' = raced
    BY <1>1 DEF S!fileVars, S!listVars, S!sumVars
  <2>12. /\ ReadsTyped' /\ NoneMissing' /\ ManifestsTell' /\ LoadsTell' /\ CacheTells'
         /\ \A z, b, x : Remembered(z, b, x)' => Remembered(z, b, x)
    BY <2>i, <2>11, ReadsQuiet
  <2>13. FreshStats'
    BY <1>1, <2>i, <2>1, <2>9, <2>12, FreshUndo
  <2> QED BY <2>10, <2>12, <2>13 DEF ReadsInv
<1> QED BY <1>2, <1>3

-----------------------------------------------------------------------------
(* Steps of the readers.                                                   *)

LEMMA ListReads ==
  ASSUME ReadsInv, shards' = shards, manifest' = manifest, sum' = sum, raced' = raced,
         job' = job, begun' = begun, job.undo \in BOOLEAN,
         list' = [pc |-> list'.pc, left |-> list'.left, seen |-> [t \in Tickets |-> list'.seen[t]],
                  sig |-> [b \in Buckets |-> list'.sig[b]],
                  window |-> [t \in Tickets |-> list'.window[t]]],
         LoadsTell', CacheTells',
         \A b \in Buckets : Remembered(S!Current, b, list'.sig[b]) \/ list'.sig[b] = 0,
         cache' # Absent =>
           \A b \in Buckets : Remembered(S!Current, b, cache'.sig[b]) \/ cache'.sig[b] = 0
  PROVE  ReadsInv'
<1>i. ReadsTyped /\ Once /\ FreshStats /\ NoneMissing /\ ManifestsTell
  BY DEF ReadsInv
<1>1. ReadsTyped' /\ NoneMissing'
  BY <1>i DEF ReadsTyped, NoneMissing
<1>2. ManifestsTell'
  BY <1>i DEF ManifestsTell, Tells
<1>3. \A s \in S!Sprints, b \in Buckets : \A x :
        Remembered(s, b, x)' => Remembered(s, b, x) \/ x = 0
  BY DEF Remembered
<1>4. Once' /\ (S!Idle' = S!Idle) /\ job'.undo = job.undo
      /\ \A s \in S!Sprints, b \in Buckets : Coming(s, b)' => Coming(s, b)
  BY <1>i DEF Once, S!Idle, Coming
<1>5. FreshStats'
  BY <1>i, <1>3, <1>4, FreshQuiet
<1> QED BY <1>1, <1>2, <1>4, <1>5 DEF ReadsInv

LEMMA SumReads ==
  ASSUME ReadsInv, shards' = shards, manifest' = manifest, list' = list, cache' = cache,
         raced' = raced, job' = job, begun' = begun, job.undo \in BOOLEAN,
         sum' = [pc |-> sum'.pc, sprint |-> sum'.sprint, left |-> sum'.left,
                 bucket |-> sum'.bucket, count |-> sum'.count,
                 entry |-> [b \in Buckets |-> sum'.entry[b]]],
         sum'.sprint \in S!Sprints, sum'.bucket \in Buckets, sum'.left \subseteq Buckets,
         \A b \in Buckets :
           Remembered(sum'.sprint, b, sum'.entry[b].stat) \/ sum'.entry[b].stat = 0,
         ~raced => /\ \A b \in Buckets : Tells(sum'.entry[b], shards[sum'.sprint][b])
                   /\ sum'.pc = "stat" =>
                        sum'.count = S!Count(shards[sum'.sprint][sum'.bucket].held)
  PROVE  ReadsInv'
<1>i. ReadsTyped /\ Once /\ FreshStats /\ NoneMissing /\ ManifestsTell /\ LoadsTell /\ CacheTells
  BY DEF ReadsInv
<1>1. ReadsTyped' /\ NoneMissing'
  BY <1>i DEF ReadsTyped, NoneMissing
<1>2. ManifestsTell'
  <2> SUFFICES ASSUME ~raced
               PROVE  /\ \A s \in S!Sprints, b \in Buckets :
                           Tells(manifest[s].entry[b], shards[s][b])
                      /\ \A b \in Buckets : Tells(sum'.entry[b], shards[sum'.sprint][b])
                      /\ sum'.pc = "stat" =>
                           sum'.count = S!Count(shards[sum'.sprint][sum'.bucket].held)
    BY DEF ManifestsTell
  <2> QED BY <1>i DEF ManifestsTell
<1>3. LoadsTell' /\ CacheTells'
  BY <1>i DEF LoadsTell, CacheTells, Reveals, File
<1>4. \A s \in S!Sprints, b \in Buckets : \A x :
        Remembered(s, b, x)' => Remembered(s, b, x) \/ x = 0
  BY DEF Remembered
<1>5. Once' /\ (S!Idle' = S!Idle) /\ job'.undo = job.undo
      /\ \A s \in S!Sprints, b \in Buckets : Coming(s, b)' => Coming(s, b)
  BY <1>i DEF Once, S!Idle, Coming
<1>6. FreshStats'
  BY <1>i, <1>4, <1>5, FreshQuiet
<1> QED BY <1>1, <1>2, <1>3, <1>5, <1>6 DEF ReadsInv

LEMMA StartListReads ==
  ASSUME ShardTyped, ReadsInv, S!StartList PROVE ReadsInv'
<1>i. NoneMissing /\ CacheTells
  BY DEF ReadsInv
<1>1. /\ shards' = shards /\ manifest' = manifest /\ sum' = sum /\ raced' = raced
      /\ job' = job /\ begun' = begun /\ cache' = cache /\ job.undo \in BOOLEAN
  BY DEF S!StartList, S!fileVars, S!jobVars, S!sumVars, ShardTyped, ShardJobs
<1>2. list' = [pc |-> "load", left |-> {b \in Buckets : shards[S!Current][b].stat # 0},
               seen |-> S!Empty, sig |-> [b \in Buckets |-> shards[S!Current][b].stat],
               window |-> [t \in Tickets |-> {S!Content(S!Current)[t]}]]
  BY DEF S!StartList, S!Signature
<1>3. /\ list'.left = {b \in Buckets : shards[S!Current][b].stat # 0}
      /\ list'.seen = [t \in Tickets |-> Absent]
      /\ list'.sig = [b \in Buckets |-> shards[S!Current][b].stat]
      /\ list'.window = [t \in Tickets |-> {File(t).held[t]}]
      /\ list'.pc = "load"
  BY <1>2 DEF S!Empty, S!Content, File
<1>4. list' = [pc |-> list'.pc, left |-> list'.left, seen |-> [t \in Tickets |-> list'.seen[t]],
               sig |-> [b \in Buckets |-> list'.sig[b]],
               window |-> [t \in Tickets |-> list'.window[t]]]
  BY <1>2, <1>3
<1>5. LoadsTell'
  <2> SUFFICES ASSUME NEW t \in Tickets
               PROVE  /\ File(t)'.held[t] \in list'.window[t]
                      /\ list'.sig[BucketOf[t]] = 0 => BucketOf[t] \notin list'.left
                      /\ BucketOf[t] \notin list'.left =>
                           /\ list'.seen[t] \in list'.window[t]
                           /\ Reveals(list'.sig[BucketOf[t]], list'.seen[t], File(t)', t)
    BY DEF LoadsTell
  <2>1. BucketOf[t] \in Buckets /\ S!Current \in S!Sprints /\ File(t)' = File(t)
    BY <1>1, ShardConstants DEF File
  <2>2. File(t).stat = 0 => File(t).held[t] = Absent
    BY <1>i, <2>1 DEF NoneMissing, File, S!Empty
  <2>3. /\ list'.sig[BucketOf[t]] = File(t).stat
        /\ BucketOf[t] \notin list'.left <=> File(t).stat = 0
        /\ list'.seen[t] = Absent /\ list'.window[t] = {File(t).held[t]}
    BY <1>3, <2>1 DEF File
  <2> QED BY <2>1, <2>2, <2>3 DEF Reveals
<1>6. CacheTells'
  BY <1>i, <1>1 DEF CacheTells, Reveals, File
<1>7. \A b \in Buckets : Remembered(S!Current, b, list'.sig[b])
  BY <1>3 DEF Remembered
<1>8. cache' # Absent => \A b \in Buckets : Remembered(S!Current, b, cache'.sig[b])
  BY <1>1 DEF Remembered
<1> QED BY <1>1, <1>4, <1>5, <1>6, <1>7, <1>8, ListReads

LEMMA LoadShardReads ==
  ASSUME ShardTyped, ReadsInv, S!LoadShard PROVE ReadsInv'
<1>i. ReadsTyped /\ NoneMissing /\ CacheTells /\ LoadsTell
  BY DEF ReadsInv
<1>1. /\ shards' = shards /\ manifest' = manifest /\ sum' = sum /\ raced' = raced
      /\ job' = job /\ begun' = begun /\ cache' = cache /\ job.undo \in BOOLEAN
      /\ list.pc = "load"
  BY DEF S!LoadShard, S!fileVars, S!jobVars, S!sumVars, ShardTyped, ShardJobs
<1>2. PICK b \in list.left :
        list' = [list EXCEPT !.left = @ \ {b}, !.seen = [t \in Tickets |->
                   IF BucketOf[t] = b THEN shards[S!Current][b].held[t] ELSE @[t]]]
  BY DEF S!LoadShard
<1> DEFINE seen == [t \in Tickets |-> IF BucketOf[t] = b THEN shards[S!Current][b].held[t]
                                      ELSE list.seen[t]]
<1>3. /\ seen = [t \in Tickets |-> seen[t]]
      /\ \A t \in Tickets : seen[t] = IF BucketOf[t] = b THEN File(t).held[t] ELSE list.seen[t]
  BY DEF File
<1>4. list = [pc |-> list.pc, left |-> list.left, seen |-> [t \in Tickets |-> list.seen[t]],
              sig |-> [c \in Buckets |-> list.sig[c]],
              window |-> [t \in Tickets |-> list.window[t]]]
  BY <1>i DEF ReadsTyped
<1>5. list' = [pc |-> list.pc, left |-> list.left \ {b}, seen |-> seen,
               sig |-> [c \in Buckets |-> list.sig[c]],
               window |-> [t \in Tickets |-> list.window[t]]]
  <2>1. list' = [list EXCEPT !.left = list.left \ {b}, !.seen = seen]
    BY <1>2
  <2> HIDE DEF seen
  <2>2. PICK phase, left, all, old, sig, window :
          /\ phase = list.pc /\ all = list.left /\ left = list.left \ {b} /\ old = list.seen
          /\ sig = [c \in Buckets |-> list.sig[c]]
          /\ window = [t \in Tickets |-> list.window[t]]
    OBVIOUS
  <2>3. list = [pc |-> phase, left |-> all, seen |-> old, sig |-> sig, window |-> window]
    BY <1>4, <2>2
  <2>4. list' = [list EXCEPT !.left = left, !.seen = seen]
    BY <2>1, <2>2
  <2>5. list' = [pc |-> phase, left |-> left, seen |-> seen, sig |-> sig, window |-> window]
    BY <2>3, <2>4
  <2> QED BY <2>2, <2>5
<1> HIDE DEF seen
<1>6. /\ list'.left = list.left \ {b} /\ list'.seen = seen /\ list'.pc = list.pc
      /\ list'.sig = [c \in Buckets |-> list.sig[c]]
      /\ list'.window = [t \in Tickets |-> list.window[t]]
  BY <1>5
<1>7. list' = [pc |-> list'.pc, left |-> list'.left, seen |-> [t \in Tickets |-> list'.seen[t]],
               sig |-> [c \in Buckets |-> list'.sig[c]],
               window |-> [t \in Tickets |-> list'.window[t]]]
  BY <1>3, <1>5, <1>6
<1>8. LoadsTell'
  <2> SUFFICES ASSUME NEW t \in Tickets
               PROVE  /\ File(t)'.held[t] \in list'.window[t]
                      /\ list'.sig[BucketOf[t]] = 0 => BucketOf[t] \notin list'.left
                      /\ BucketOf[t] \notin list'.left =>
                           /\ list'.seen[t] \in list'.window[t]
                           /\ Reveals(list'.sig[BucketOf[t]], list'.seen[t], File(t)', t)
    BY DEF LoadsTell
  <2>1. BucketOf[t] \in Buckets /\ File(t)' = File(t)
    BY <1>1, ShardConstants DEF File
  <2>2. /\ list'.sig[BucketOf[t]] = list.sig[BucketOf[t]] /\ list'.window[t] = list.window[t]
        /\ list'.seen[t] = IF BucketOf[t] = b THEN File(t).held[t] ELSE list.seen[t]
    BY <1>3, <1>6, <2>1
  <2>3. /\ File(t).held[t] \in list.window[t]
        /\ list.sig[BucketOf[t]] = 0 => BucketOf[t] \notin list.left
        /\ BucketOf[t] \notin list.left =>
             /\ list.seen[t] \in list.window[t]
             /\ Reveals(list.sig[BucketOf[t]], list.seen[t], File(t), t)
    BY <1>i, <1>1 DEF LoadsTell
  <2>4. CASE BucketOf[t] = b
    <3>1. list.sig[BucketOf[t]] # 0
      BY <1>2, <2>3, <2>4
    <3> QED BY <1>6, <2>1, <2>2, <2>3, <2>4, <3>1 DEF Reveals
  <2>5. CASE BucketOf[t] # b
    BY <1>6, <2>1, <2>2, <2>3, <2>5
  <2> QED BY <2>4, <2>5
<1>9. CacheTells'
  BY <1>i, <1>1 DEF CacheTells, Reveals, File
<1>10. \A c \in Buckets : Remembered(S!Current, c, list'.sig[c])
  BY <1>6 DEF Remembered
<1>11. cache' # Absent => \A c \in Buckets : Remembered(S!Current, c, cache'.sig[c])
  BY <1>1 DEF Remembered
<1> QED BY <1>1, <1>7, <1>8, <1>9, <1>10, <1>11, ListReads

LEMMA EndListReads ==
  ASSUME ShardTyped, ReadsInv, S!EndList PROVE ReadsInv'
<1>i. ReadsTyped /\ NoneMissing /\ CacheTells /\ LoadsTell
  BY DEF ReadsInv
<1>1. /\ shards' = shards /\ manifest' = manifest /\ sum' = sum /\ raced' = raced
      /\ job' = job /\ begun' = begun /\ job.undo \in BOOLEAN
      /\ list.pc = "load" /\ list.left = {} /\ list' = S!NoList
      /\ cache' = [sig |-> list.sig, models |-> list.seen]
  BY DEF S!EndList, S!fileVars, S!jobVars, S!sumVars, ShardTyped, ShardJobs
<1>2. list' = [pc |-> "idle", left |-> {}, seen |-> [t \in Tickets |-> Absent],
               sig |-> [b \in Buckets |-> 0], window |-> [t \in Tickets |-> {}]]
  BY <1>1 DEF S!NoList, S!Empty
<1>3. list' = [pc |-> list'.pc, left |-> list'.left, seen |-> [t \in Tickets |-> list'.seen[t]],
               sig |-> [b \in Buckets |-> list'.sig[b]],
               window |-> [t \in Tickets |-> list'.window[t]]]
      /\ \A b \in Buckets : list'.sig[b] = 0
  BY <1>2
<1>4. LoadsTell'
  BY <1>2 DEF LoadsTell
<1>5. cache'.sig = list.sig /\ cache'.models = list.seen
      /\ list.seen = [t \in Tickets |-> list.seen[t]]
  BY <1>i, <1>1 DEF ReadsTyped
<1>6. CacheTells'
  <2>1. \A t \in Tickets : File(t)' = File(t)
    BY <1>1 DEF File
  <2>2. \A t \in Tickets : Reveals(list.sig[BucketOf[t]], list.seen[t], File(t), t)
    BY <1>i, <1>1 DEF LoadsTell
  <2>3. \A t \in Tickets : Reveals(cache'.sig[BucketOf[t]], cache'.models[t], File(t)', t)
    BY <1>5, <2>1, <2>2
  <2>4. cache'.models = [t \in Tickets |-> cache'.models[t]]
    BY <1>5
  <2> QED BY <2>3, <2>4 DEF CacheTells
<1>7. \A b \in Buckets : Remembered(S!Current, b, cache'.sig[b])
  BY <1>5 DEF Remembered
<1> QED BY <1>1, <1>3, <1>4, <1>6, <1>7, ListReads

LEMMA StartSummaryReads ==
  ASSUME ShardTyped, ReadsInv, S!StartSummary PROVE ReadsInv'
<1>i. NoneMissing
  BY DEF ReadsInv
<1>1. /\ shards' = shards /\ manifest' = manifest /\ list' = list /\ cache' = cache
      /\ raced' = raced /\ job' = job /\ begun' = begun /\ job.undo \in BOOLEAN
  BY DEF S!StartSummary, S!fileVars, S!jobVars, S!listVars, ShardTyped, ShardJobs
<1>2. PICK s \in S!Sprints :
        sum' = [S!NoSum EXCEPT !.pc = "count", !.sprint = s,
                  !.left = {b \in Buckets : shards[s][b].stat # 0}]
  BY DEF S!StartSummary
<1>3. PICK b \in Buckets : S!NoSum = [pc |-> "idle", sprint |-> S!Current, left |-> {}, bucket |-> b,
                                      count |-> 0, entry |-> [c \in Buckets |-> S!Unlisted]]
  <2>1. (CHOOSE c \in Buckets : TRUE) \in Buckets
    BY ShardAssumption, Zenon
  <2> QED BY <2>1 DEF S!NoSum
<1>4. PICK left, entry : /\ left = {c \in Buckets : shards[s][c].stat # 0}
                         /\ entry = [c \in Buckets |-> S!Unlisted]
  OBVIOUS
<1>5. sum' = [S!NoSum EXCEPT !.pc = "count", !.sprint = s, !.left = left]
  BY <1>2, <1>4
<1>6. S!NoSum = [pc |-> "idle", sprint |-> S!Current, left |-> {}, bucket |-> b,
                 count |-> 0, entry |-> entry]
  BY <1>3, <1>4
<1>7. sum' = [pc |-> "count", sprint |-> s, left |-> left, bucket |-> b, count |-> 0,
              entry |-> entry]
  BY <1>5, <1>6
<1>8. \A c \in Buckets : entry[c] = S!Unlisted /\ S!Unlisted.stat = 0
  BY <1>4 DEF S!Unlisted
<1>9. \A c \in Buckets : Tells(S!Unlisted, shards[s][c])
  BY <1>i, UnlistedTells
<1>10. /\ sum'.pc = "count" /\ sum'.sprint = s /\ sum'.left = left /\ sum'.bucket = b
       /\ sum'.entry = entry /\ entry = [c \in Buckets |-> entry[c]] /\ left \subseteq Buckets
  BY <1>4, <1>7
<1>11. sum' = [pc |-> sum'.pc, sprint |-> sum'.sprint, left |-> sum'.left,
               bucket |-> sum'.bucket, count |-> sum'.count,
               entry |-> [c \in Buckets |-> sum'.entry[c]]]
  BY <1>7, <1>10
<1>12. \A c \in Buckets : sum'.entry[c] = S!Unlisted
  BY <1>8, <1>10
<1> QED BY <1>1, <1>8, <1>9, <1>10, <1>11, <1>12, SumReads

(* What a step of a rebuild leaves of it.                                  *)
LEMMA SumFields ==
  ASSUME ReadsTyped
  PROVE  \E phase, left, bucket, count, entry :
           /\ sum = [pc |-> phase, sprint |-> sum.sprint, left |-> left, bucket |-> bucket,
                     count |-> count, entry |-> entry]
           /\ phase = sum.pc /\ left = sum.left /\ bucket = sum.bucket /\ count = sum.count
           /\ entry = sum.entry /\ entry = [b \in Buckets |-> entry[b]]
           /\ left \subseteq Buckets /\ bucket \in Buckets /\ sum.sprint \in S!Sprints
<1>1. PICK entry : entry = [b \in Buckets |-> sum.entry[b]]
  OBVIOUS
<1>2. sum = [pc |-> sum.pc, sprint |-> sum.sprint, left |-> sum.left, bucket |-> sum.bucket,
             count |-> sum.count, entry |-> entry]
  BY <1>1 DEF ReadsTyped
<1>3. entry = sum.entry
  BY <1>2
<1> QED BY <1>1, <1>2, <1>3 DEF ReadsTyped

LEMMA CountShardReads ==
  ASSUME ShardTyped, ReadsInv, S!CountShard PROVE ReadsInv'
<1>i. ReadsTyped /\ NoneMissing /\ ManifestsTell
  BY DEF ReadsInv
<1>1. /\ shards' = shards /\ manifest' = manifest /\ list' = list /\ cache' = cache
      /\ raced' = raced /\ job' = job /\ begun' = begun /\ job.undo \in BOOLEAN
  BY DEF S!CountShard, S!fileVars, S!jobVars, S!listVars, ShardTyped, ShardJobs
<1>2. PICK s : s = sum.sprint
  OBVIOUS
<1>3. PICK c \in sum.left :
        sum' = [sum EXCEPT !.pc = "stat", !.bucket = c, !.left = @ \ {c},
                  !.count = S!Count(shards[sum.sprint][c].held)]
  BY DEF S!CountShard
<1>4. PICK phase, left, bucket, count, entry :
        /\ sum = [pc |-> phase, sprint |-> s, left |-> left, bucket |-> bucket,
                  count |-> count, entry |-> entry]
        /\ left = sum.left /\ entry = sum.entry /\ entry = [b \in Buckets |-> entry[b]]
        /\ left \subseteq Buckets /\ s \in S!Sprints
  BY <1>i, <1>2, SumFields
<1>5. PICK rest, size : rest = left \ {c} /\ size = S!Count(shards[s][c].held)
  OBVIOUS
<1>6. sum' = [sum EXCEPT !.pc = "stat", !.bucket = c, !.left = rest, !.count = size]
  BY <1>2, <1>3, <1>4, <1>5
<1>7. sum' = [pc |-> "stat", sprint |-> s, left |-> rest, bucket |-> c,
              count |-> size, entry |-> entry]
  BY <1>4, <1>6
<1>8. /\ sum'.pc = "stat" /\ sum'.sprint = s /\ sum'.left = rest /\ sum'.bucket = c
      /\ sum'.count = size /\ sum'.entry = entry
  BY <1>7
<1>9. sum' = [pc |-> sum'.pc, sprint |-> sum'.sprint, left |-> sum'.left,
              bucket |-> sum'.bucket, count |-> sum'.count,
              entry |-> [b \in Buckets |-> sum'.entry[b]]]
  BY <1>4, <1>7, <1>8
<1>10. \A b \in Buckets : Remembered(s, b, entry[b].stat)
  BY <1>2, <1>4 DEF Remembered
<1>11. ~raced => \A b \in Buckets : Tells(entry[b], shards[s][b])
  BY <1>i, <1>2, <1>4 DEF ManifestsTell
<1>12. c \in Buckets /\ rest \subseteq Buckets
  BY <1>3, <1>4, <1>5
<1> QED BY <1>1, <1>4, <1>5, <1>8, <1>9, <1>10, <1>11, <1>12, SumReads

LEMMA StatShardReads ==
  ASSUME ShardTyped, ReadsInv, S!StatShard PROVE ReadsInv'
<1>i. ReadsTyped /\ NoneMissing /\ ManifestsTell
  BY DEF ReadsInv
<1>1. /\ shards' = shards /\ manifest' = manifest /\ list' = list /\ cache' = cache
      /\ raced' = raced /\ job' = job /\ begun' = begun /\ job.undo \in BOOLEAN
      /\ sum.pc = "stat"
  BY DEF S!StatShard, S!fileVars, S!jobVars, S!listVars, ShardTyped, ShardJobs
<1>2. PICK s : s = sum.sprint
  OBVIOUS
<1>4. PICK phase, left, bucket, count, entry :
        /\ sum = [pc |-> phase, sprint |-> s, left |-> left, bucket |-> bucket,
                  count |-> count, entry |-> entry]
        /\ bucket = sum.bucket /\ count = sum.count
        /\ entry = sum.entry /\ entry = [b \in Buckets |-> entry[b]]
        /\ left \subseteq Buckets /\ bucket \in Buckets /\ s \in S!Sprints
  BY <1>i, <1>2, SumFields
<1>5. PICK now, new : /\ now = [count |-> count, stat |-> shards[s][bucket].stat]
                      /\ new = [entry EXCEPT ![bucket] = now]
  OBVIOUS
<1>6. sum' = [sum EXCEPT !.pc = "count", !.count = 0, !.entry = new]
  <2>1. sum' = [sum EXCEPT !.pc = "count", !.count = 0, !.entry[sum.bucket] =
                  [count |-> sum.count, stat |-> shards[sum.sprint][sum.bucket].stat]]
    BY DEF S!StatShard
  <2>2. sum' = [sum EXCEPT !.pc = "count", !.count = 0, !.entry[bucket] = now]
    BY <1>2, <1>4, <1>5, <2>1
  <2> QED BY <1>4, <1>5, <2>2
<1>7. sum' = [pc |-> "count", sprint |-> s, left |-> left, bucket |-> bucket,
              count |-> 0, entry |-> new]
  BY <1>4, <1>6
<1>8. /\ sum'.pc = "count" /\ sum'.sprint = s /\ sum'.left = left /\ sum'.bucket = bucket
      /\ sum'.entry = new /\ new = [b \in Buckets |-> new[b]]
      /\ \A b \in Buckets : new[b] = IF b = bucket THEN now ELSE entry[b]
  BY <1>4, <1>5, <1>7
<1>9. sum' = [pc |-> sum'.pc, sprint |-> sum'.sprint, left |-> sum'.left,
              bucket |-> sum'.bucket, count |-> sum'.count,
              entry |-> [b \in Buckets |-> sum'.entry[b]]]
  BY <1>7, <1>8
<1>10. \A b \in Buckets : Remembered(s, b, new[b].stat)
  <2>1. now.stat = shards[s][bucket].stat
    BY <1>5
  <2>2. \A b \in Buckets : Remembered(s, b, entry[b].stat)
    BY <1>2, <1>4 DEF Remembered
  <2> QED BY <1>8, <2>1, <2>2 DEF Remembered
<1>11. ~raced => \A b \in Buckets : Tells(new[b], shards[s][b])
  <2> SUFFICES ASSUME ~raced PROVE \A b \in Buckets : Tells(new[b], shards[s][b])
    OBVIOUS
  <2>1. \A b \in Buckets : Tells(entry[b], shards[s][b])
    BY <1>i, <1>2, <1>4 DEF ManifestsTell
  <2>2. count = S!Count(shards[s][bucket].held)
    BY <1>i, <1>1, <1>2, <1>4 DEF ManifestsTell
  <2>3. shards[s][bucket].stat = 0 => count = 0
    BY <1>i, <1>4, <2>2, NothingCounts DEF NoneMissing
  <2>4. Tells(now, shards[s][bucket])
    BY <1>5, <2>2, <2>3 DEF Tells
  <2> QED BY <1>8, <2>1, <2>4
<1> QED BY <1>1, <1>4, <1>8, <1>9, <1>10, <1>11, SumReads

LEMMA EndSummaryReads ==
  ASSUME ShardTyped, ReadsInv, S!EndSummary PROVE ReadsInv'
<1>i. ReadsTyped /\ Once /\ FreshStats /\ NoneMissing /\ ManifestsTell /\ LoadsTell /\ CacheTells
  BY DEF ReadsInv
<1>1. /\ shards' = shards /\ list' = list /\ cache' = cache
      /\ raced' = raced /\ job' = job /\ begun' = begun /\ job.undo \in BOOLEAN
      /\ sum' = S!NoSum
      /\ manifest' = [manifest EXCEPT ![sum.sprint] = [valid |-> TRUE, entry |-> sum.entry]]
  BY DEF S!EndSummary, S!jobVars, S!listVars, ShardTyped, ShardJobs
<1>2. PICK s, f : s = sum.sprint /\ f = sum.entry
  OBVIOUS
<1>3. f = [b \in Buckets |-> f[b]] /\ s \in S!Sprints
  BY <1>i, <1>2 DEF ReadsTyped
<1>4. manifest = [z \in S!Sprints |-> [valid |-> manifest[z].valid,
                                       entry |-> [b \in Buckets |-> manifest[z].entry[b]]]]
  BY <1>i DEF ReadsTyped
<1>5. /\ manifest'[s] = [valid |-> TRUE, entry |-> f]
      /\ \A z \in S!Sprints : z # s => manifest'[z] = manifest[z]
      /\ manifest' = [z \in S!Sprints |-> manifest'[z]]
  BY <1>1, <1>2, <1>3, <1>4
<1>6. /\ manifest' = [z \in S!Sprints |-> [valid |-> manifest'[z].valid,
                                           entry |-> [b \in Buckets |-> manifest'[z].entry[b]]]]
      /\ \A z \in S!Sprints, b \in Buckets : Listed(z, b, manifest'[z].entry[b])
  BY <1>2, <1>3, <1>4, <1>5 DEF Listed
<1>7. /\ ReadsTyped' /\ NoneMissing' /\ ManifestsTell' /\ LoadsTell' /\ CacheTells'
      /\ \A z \in S!Sprints, b \in Buckets : \A x :
           Remembered(z, b, x)' => Remembered(z, b, x) \/ x = 0
  BY <1>i, <1>1, <1>6, ManifestReads
<1>8. Once' /\ (S!Idle' = S!Idle) /\ job'.undo = job.undo
      /\ \A z \in S!Sprints, b \in Buckets : Coming(z, b)' => Coming(z, b)
  BY <1>i, <1>1 DEF Once, S!Idle, Coming
<1>9. FreshStats'
  BY <1>i, <1>1, <1>7, <1>8, FreshQuiet
<1> QED BY <1>7, <1>8, <1>9 DEF ReadsInv

-----------------------------------------------------------------------------
(* The invariant of the readers and of the versions.                       *)

LEMMA ReadsStart == S!Init => ReadsInv /\ VersionInv
<1> SUFFICES ASSUME S!Init PROVE ReadsInv /\ VersionInv
  OBVIOUS
<1>1. PICK T \in {{}, Tickets}, valid \in BOOLEAN :
        LET held == [t \in Tickets |-> IF t \in T THEN 1 ELSE Absent]
            files0 == [b \in Buckets |-> IF S!Part(held, b) = S!Empty THEN S!Missing
                                         ELSE [stat |-> 2, held |-> S!Part(held, b)]]
        IN /\ shards = [s \in S!Sprints |-> IF s = S!Current THEN files0
                                            ELSE [b \in Buckets |-> S!Missing]]
           /\ manifest = [s \in S!Sprints |-> [valid |-> valid /\ s = S!Current,
                entry |-> [b \in Buckets |-> IF valid /\ s = S!Current THEN S!Entry(files0[b])
                                             ELSE S!Unlisted]]]
           /\ sure = T /\ kept = held
           /\ job = S!NoJob /\ begun = 1 /\ list = S!NoList /\ cache = Absent
           /\ sum = S!NoSum /\ raced = FALSE /\ faults = 0
  BY DEF S!Init
<1> DEFINE held == [t \in Tickets |-> IF t \in T THEN 1 ELSE Absent]
           files0 == [b \in Buckets |-> IF S!Part(held, b) = S!Empty THEN S!Missing
                                        ELSE [stat |-> 2, held |-> S!Part(held, b)]]
<1>2. /\ shards = [s \in S!Sprints |-> IF s = S!Current THEN files0
                                       ELSE [b \in Buckets |-> S!Missing]]
      /\ manifest = [s \in S!Sprints |-> [valid |-> valid /\ s = S!Current,
           entry |-> [b \in Buckets |-> IF valid /\ s = S!Current THEN S!Entry(files0[b])
                                        ELSE S!Unlisted]]]
      /\ sure = T /\ kept = held
  BY <1>1
<1>3. /\ job = S!NoJob /\ begun = 1 /\ list = S!NoList /\ cache = Absent
      /\ sum = S!NoSum /\ raced = FALSE /\ faults = 0
  BY <1>1
<1>4. job = [op |-> "none", todo |-> <<>>, tickets |-> {}, to |-> "current", undo |-> FALSE]
  BY <1>3, ShardConstants DEF S!NoJob
<1>5. /\ job.op = "none" /\ job.tickets = {} /\ ~job.undo /\ Len(job.todo) = 0
      /\ \A i \in 1..Len(job.todo) : FALSE
  BY <1>4
<1>6. \A b \in Buckets :
        /\ files0[b].stat \in {0, 2} /\ (files0[b].stat = 0 => files0[b].held = S!Empty)
        /\ files0[b].held = S!Part(held, b)
  BY DEF S!Missing
<1>7. \A t \in Tickets : files0[BucketOf[t]].held[t] = held[t]
  BY <1>6, ShardConstants DEF S!Part
<1>8. \A s \in S!Sprints, b \in Buckets :
        /\ shards[s][b] = IF s = S!Current THEN files0[b] ELSE S!Missing
        /\ manifest[s].entry[b] \in {S!Unlisted, S!Entry(shards[s][b])}
  BY <1>2
<1> HIDE DEF files0
<1>9. \A s \in S!Sprints, b \in Buckets :
        /\ shards[s][b].stat \in {0, 2} /\ (shards[s][b].stat = 0 => shards[s][b].held = S!Empty)
  <2>1. S!Missing.stat = 0 /\ S!Missing.held = S!Empty
    BY DEF S!Missing
  <2> TAKE s \in S!Sprints, b \in Buckets
  <2>2. CASE s = S!Current
    BY <1>6, <1>8, <2>2
  <2>3. CASE s # S!Current
    BY <1>8, <2>1, <2>3
  <2> QED BY <2>2, <2>3
<1>10. NoneMissing
  BY <1>9 DEF NoneMissing
<1>11. \A s \in S!Sprints, b \in Buckets : /\ manifest[s].entry[b].stat \in {0, 2}
                                          /\ Tells(manifest[s].entry[b], shards[s][b])
  BY <1>8, <1>9, <1>10, UnlistedTells, EntryTells, EntryStat DEF S!Unlisted
<1>12. PICK b0 \in Buckets : sum = [pc |-> "idle", sprint |-> "current", left |-> {}, bucket |-> b0,
                                    count |-> 0, entry |-> [c \in Buckets |-> S!Unlisted]]
  <2>1. (CHOOSE c \in Buckets : TRUE) \in Buckets
    BY ShardAssumption, Zenon
  <2> QED BY <1>3, <2>1, ShardConstants DEF S!NoSum
<1>13. /\ sum.pc = "idle" /\ sum.sprint \in S!Sprints /\ sum.left = {} /\ sum.bucket \in Buckets
       /\ \A c \in Buckets : sum.entry[c] = S!Unlisted
  BY <1>12, ShardConstants
<1>14. list = [pc |-> "idle", left |-> {}, seen |-> [t \in Tickets |-> Absent],
               sig |-> [b \in Buckets |-> 0], window |-> [t \in Tickets |-> {}]]
  BY <1>3 DEF S!NoList, S!Empty
<1>15. ReadsTyped
  <2>1. manifest = [s \in S!Sprints |-> [valid |-> manifest[s].valid,
                                         entry |-> [b \in Buckets |-> manifest[s].entry[b]]]]
    BY <1>2
  <2>2. list = [pc |-> list.pc, left |-> list.left, seen |-> [t \in Tickets |-> list.seen[t]],
                sig |-> [b \in Buckets |-> list.sig[b]],
                window |-> [t \in Tickets |-> list.window[t]]]
    BY <1>14
  <2>3. sum = [pc |-> sum.pc, sprint |-> sum.sprint, left |-> sum.left, bucket |-> sum.bucket,
               count |-> sum.count, entry |-> [b \in Buckets |-> sum.entry[b]]]
    BY <1>12
  <2> QED BY <1>13, <2>1, <2>2, <2>3 DEF ReadsTyped
<1>16. ManifestsTell
  BY <1>10, <1>11, <1>13, UnlistedTells DEF ManifestsTell
<1>17. LoadsTell /\ CacheTells /\ Once
  BY <1>3, <1>5, <1>14 DEF LoadsTell, CacheTells, Once
<1>18. FreshStats
  <2>1. \A s \in S!Sprints, b \in Buckets : \A x : Remembered(s, b, x) => x \in {0, 2}
    BY <1>3, <1>9, <1>11, <1>13, <1>14 DEF Remembered, S!Unlisted
  <2>2. S!Idle /\ \A s, b : ~Coming(s, b)
    BY <1>5 DEF S!Idle, Coming
  <2> QED BY <1>3, <2>1, <2>2 DEF FreshStats
<1>19. VersionInv
  <2>1. \A t \in Tickets, s \in S!Sprints :
          S!Content(s)[t] = IF s = S!Current THEN held[t] ELSE Absent
    BY <1>7, <1>8, ShardConstants DEF S!Content, S!Missing, S!Empty
  <2>2. \A t \in Tickets, s \in S!Sprints : S!IsIn(t, s) => s = S!Current /\ held[t] = 1
    BY <1>7, <1>8, ShardConstants DEF S!IsIn, S!Missing, S!Empty
  <2>3. OneHolder
    BY <2>2 DEF OneHolder
  <2>4. OthersStay /\ TicketsGo
    BY <1>5 DEF OthersStay, TicketsGo
  <2>5. NothingOlder
    <3>1. \A t \in sure : t \in Tickets /\ kept[t] = 1
      BY <1>2
    <3>2. \A t \in Tickets, s \in S!Sprints : S!IsIn(t, s) => S!Content(s)[t] = 1
      BY <2>1, <2>2
    <3> HIDE DEF held
    <3> QED BY <1>3, <1>5, <3>1, <3>2 DEF NothingOlder
  <2>6. IdleOwnsNone
    BY <1>5 DEF IdleOwnsNone
  <2> QED BY <1>3, <1>5, <2>3, <2>4, <2>5, <2>6 DEF VersionInv, Versions
<1> QED BY <1>10, <1>15, <1>16, <1>17, <1>18, <1>19 DEF ReadsInv

LEMMA BegunReads ==
  ASSUME ShardTyped, ReadsInv, VersionInv, Once', Versions => Versions',
         NEW op \in S!AllOps, NEW T, NEW to, NEW todo, S!Begin(op, T, to, todo)
  PROVE  ReadsInv' /\ VersionInv'
<1>1. ReadsInv'
  BY BeginReads
<1>2. faults' = faults /\ job'.op = op
  BY DEF S!Begin
<1>3. op # "none"
  BY DEF S!AllOps
<1>4. IdleOwnsNone'
  BY <1>2, <1>3 DEF IdleOwnsNone, S!Idle
<1> QED BY <1>1, <1>2, <1>4 DEF VersionInv

LEMMA MutationsBegin ==
  ASSUME S!Put \/ S!Delete \/ S!Move \/ S!Save \/ S!Rotate
  PROVE  \E op \in S!AllOps : \E T, to, todo : S!Begin(op, T, to, todo)
<1>1. CASE S!Put
  BY <1>1 DEF S!Put, S!AllOps
<1>2. CASE S!Delete
  BY <1>2 DEF S!Delete, S!AllOps
<1>3. CASE S!Move
  BY <1>3 DEF S!Move, S!AllOps
<1>4. CASE S!Save
  BY <1>4 DEF S!Save, S!AllOps
<1>5. CASE S!Rotate
  BY <1>5 DEF S!Rotate, S!AllOps
<1> QED BY <1>1, <1>2, <1>3, <1>4, <1>5

LEMMA VersionsQuiet ==
  ASSUME VersionInv, shards' = shards, job' = job, begun' = begun, sure' = sure, kept' = kept,
         faults' = faults
  PROVE  VersionInv'
<1>1. IdleOwnsNone' <=> IdleOwnsNone
  BY DEF IdleOwnsNone, S!Idle
<1>2. /\ \A t, s : S!IsIn(t, s)' <=> S!IsIn(t, s)
      /\ \A s : S!Content(s)' = S!Content(s)
  BY DEF S!IsIn, S!Content
<1>3. OneHolder' <=> OneHolder
  BY DEF OneHolder, S!IsIn
<1>4. OthersStay' <=> OthersStay
  BY DEF OthersStay, S!Content
<1>5. TicketsGo' <=> TicketsGo
  BY DEF TicketsGo, S!Content, S!IsIn, Puts
<1>6. NothingOlder' <=> NothingOlder
  BY DEF NothingOlder, S!Content, S!IsIn
<1> QED BY <1>1, <1>3, <1>4, <1>5, <1>6 DEF VersionInv, Versions

LEMMA FaultVersions ==
  ASSUME ShardTyped, VersionInv, faults' = faults + 1,
         job' = S!NoJob \/ (job'.op = job.op /\ ~S!Idle)
  PROVE  VersionInv'
<1>1. faults' \in Nat /\ faults' # 0
  BY DEF VersionInv
<1>2. IdleOwnsNone'
  BY DEF IdleOwnsNone, S!Idle, S!NoJob
<1> QED BY <1>1, <1>2 DEF VersionInv

LEMMA ReadsStep ==
  ShardInv /\ ReadsInv /\ VersionInv /\ [S!Next]_shardVars => ReadsInv' /\ VersionInv'
<1> SUFFICES ASSUME ShardInv, ReadsInv, VersionInv, [S!Next]_shardVars
             PROVE  ReadsInv' /\ VersionInv'
  OBVIOUS
<1>i. ShardTyped /\ SourceLast /\ IdleOwnsNone
  BY DEF ShardInv, VersionInv
<1>1. CASE UNCHANGED shardVars
  <2>1. /\ shards' = shards /\ manifest' = manifest /\ list' = list /\ cache' = cache /\ sum' = sum
        /\ raced' = raced /\ job' = job /\ begun' = begun /\ sure' = sure /\ kept' = kept
        /\ faults' = faults
    BY <1>1 DEF shardVars
  <2>2. ReadsInv'
    <3>1. /\ ReadsTyped' /\ NoneMissing' /\ ManifestsTell' /\ LoadsTell' /\ CacheTells'
          /\ \A s, b, x : Remembered(s, b, x)' => Remembered(s, b, x)
      BY <2>1, ReadsQuiet DEF ReadsInv
    <3>2. Once' /\ (S!Idle' = S!Idle) /\ job'.undo = job.undo /\ job.undo \in BOOLEAN
          /\ \A s \in S!Sprints, b \in Buckets : Coming(s, b)' => Coming(s, b)
      BY <1>i, <2>1 DEF ReadsInv, Once, S!Idle, Coming, ShardTyped, ShardJobs
    <3>3. FreshStats'
      BY <2>1, <3>1, <3>2, FreshQuiet DEF ReadsInv
    <3> QED BY <3>1, <3>2, <3>3 DEF ReadsInv
  <2> QED BY <2>1, <2>2, VersionsQuiet
<1>2. CASE S!Put \/ S!Delete \/ S!Move \/ S!Save \/ S!Rotate
  <2>1. Once' /\ (Versions => Versions')
    BY <1>i, <1>2, PutReads, DeleteReads, MoveReads, SaveReads, RotationReads
  <2>2. PICK op \in S!AllOps : \E T, to, todo : S!Begin(op, T, to, todo)
    BY <1>2, MutationsBegin
  <2> QED BY <1>i, <2>1, <2>2, BegunReads
<1>3. CASE S!Work
  <2>1. ReadsInv'
    BY <1>i, <1>3, WorkReads
  <2>2. PICK d \in {0, 1}, b \in Buckets : Wrote(d, b)
    BY <1>i, <1>3, WorkWrites
  <2>3. kept' = kept /\ faults' = faults /\ ~S!Idle
    BY <1>3 DEF S!Work
  <2>4. Versions => Versions'
    BY <1>i, <2>2, <2>3, WorkVersions
  <2>5. job'.op = job.op
    BY <1>i, <2>2 DEF Wrote, ShardTyped, ShardJobs
  <2> QED BY <2>1, <2>3, <2>4, <2>5 DEF VersionInv, IdleOwnsNone, S!Idle
<1>4. CASE S!Acknowledge
  <2>1. /\ job' = S!NoJob /\ begun' = begun /\ faults' = faults
        /\ UNCHANGED <<S!fileVars, S!listVars, S!sumVars>>
    BY <1>4 DEF S!Acknowledge
  <2>2. ReadsInv'
    BY <2>1, OverReads
  <2>3. Versions => Versions'
    BY <1>i, <1>4, AcknowledgeVersions
  <2>4. job'.tickets = {}
    BY <2>1 DEF S!NoJob
  <2> QED BY <2>1, <2>2, <2>3, <2>4 DEF VersionInv, IdleOwnsNone
<1>5. CASE S!WriteFails
  <2>1. ReadsInv'
    BY <1>i, <1>5, FailReads
  <2>2. faults' = faults + 1 /\ ~S!Idle
    BY <1>5 DEF S!WriteFails
  <2>3. job' = S!NoJob \/ job'.op = job.op
    BY <1>i, <1>5 DEF S!WriteFails, ShardTyped, ShardJobs
  <2> QED BY <1>i, <2>1, <2>2, <2>3, FaultVersions
<1>6. CASE S!Crash
  <2>1. /\ job' = S!NoJob /\ begun' = begun /\ faults' = faults + 1
        /\ UNCHANGED <<S!fileVars, S!listVars, S!sumVars>>
    BY <1>6 DEF S!Crash
  <2> QED BY <1>i, <2>1, OverReads, FaultVersions
<1>7. CASE S!StartList \/ S!LoadShard \/ S!EndList
  <2>1. ReadsInv'
    BY <1>i, <1>7, StartListReads, LoadShardReads, EndListReads
  <2>2. /\ shards' = shards /\ job' = job /\ begun' = begun /\ sure' = sure /\ kept' = kept
        /\ faults' = faults
    BY <1>7 DEF S!StartList, S!LoadShard, S!EndList, S!fileVars, S!jobVars
  <2> QED BY <2>1, <2>2, VersionsQuiet
<1>8. CASE S!StartSummary \/ S!CountShard \/ S!StatShard \/ S!EndSummary
  <2>1. ReadsInv'
    BY <1>i, <1>8, StartSummaryReads, CountShardReads, StatShardReads, EndSummaryReads
  <2>2. /\ shards' = shards /\ job' = job /\ begun' = begun /\ sure' = sure /\ kept' = kept
        /\ faults' = faults
    BY <1>8 DEF S!StartSummary, S!CountShard, S!StatShard, S!EndSummary, S!fileVars, S!jobVars
  <2> QED BY <2>1, <2>2, VersionsQuiet
<1>9. S!Next => \/ S!Put \/ S!Delete \/ S!Move \/ S!Save \/ S!Rotate
                \/ S!Work \/ S!Acknowledge \/ S!WriteFails \/ S!Crash
                \/ S!StartList \/ S!LoadShard \/ S!EndList
                \/ S!StartSummary \/ S!CountShard \/ S!StatShard \/ S!EndSummary
  BY DEF S!Next
<1> QED BY <1>1, <1>2, <1>3, <1>4, <1>5, <1>6, <1>7, <1>8, <1>9

-----------------------------------------------------------------------------
LEMMA NewestHolds ==
  ASSUME ShardTyped, VersionInv
  PROVE  S!NewestFound
<1> SUFFICES ASSUME faults = 0
             PROVE  /\ \A t \in sure : S!Holders(t) # {} =>
                         S!Content(S!Located(t))[t] >= kept[t]
                    /\ S!Idle => \A t \in Tickets : S!Cardinality(S!Holders(t)) <= 1
  BY DEF S!NewestFound
<1>1. Versions /\ IdleOwnsNone
  BY DEF VersionInv
<1>2. ASSUME NEW t \in sure, S!Holders(t) # {}
      PROVE  S!Content(S!Located(t))[t] >= kept[t]
  <2>1. t \in Tickets
    BY DEF ShardTyped
  <2>2. PICK s \in S!Sprints : s = S!Located(t) /\ S!IsIn(t, s)
    BY <1>2, <2>1, LocatedHolds
  <2>3. S!Content(s)[t] >= kept[t]
    BY <1>1, <2>2 DEF Versions, NothingOlder
  <2> QED BY <2>2, <2>3
<1>3. ASSUME S!Idle, NEW t \in Tickets
      PROVE  S!Cardinality(S!Holders(t)) <= 1
  <2>1. CASE S!Holders(t) = {}
    <3>1. Cardinality({}) = 0
      BY FS_EmptySet
    <3>2. S!Cardinality(S!Holders(t)) = 0
      BY <2>1, <3>1, SizeIs
    <3> QED BY <3>2
  <2>2. CASE S!Holders(t) # {}
    <3>1. PICK s \in S!Sprints : S!IsIn(t, s)
      BY <2>2 DEF S!Holders
    <3>2. S!Holders(t) = {s}
      BY <1>1, <1>3, <3>1, OneOnly DEF S!Holders, Versions
    <3>3. Cardinality({s}) = 1
      BY FS_Singleton
    <3>4. S!Cardinality(S!Holders(t)) = 1
      BY <3>2, <3>3, SizeIs
    <3> QED BY <3>4
  <2> QED BY <2>1, <2>2
<1> QED BY <1>2, <1>3

LEMMA ReadsHold ==
  ASSUME ReadsInv
  PROVE  S!ManifestTruthful /\ S!LoadHonest /\ S!CacheFresh
<1>1. S!ManifestTruthful
  BY DEF ReadsInv, ManifestsTell, Tells, S!ManifestTruthful, S!Matches
<1>2. S!LoadHonest
  <2> SUFFICES ASSUME list.pc = "load", list.left = {}, NEW t \in Tickets
               PROVE  list.seen[t] \in list.window[t]
    BY DEF S!LoadHonest
  <2> QED BY DEF ReadsInv, LoadsTell
<1>3. S!CacheFresh
  <2> SUFFICES ASSUME cache # Absent, cache.sig = S!Signature(S!Current)
               PROVE  cache.models = S!Content(S!Current)
    BY DEF S!CacheFresh
  <2>1. PICK sig, models : sig = cache.sig /\ models = cache.models
    OBVIOUS
  <2>2. /\ models = [t \in Tickets |-> models[t]]
        /\ \A t \in Tickets : Reveals(sig[BucketOf[t]], models[t], File(t), t)
    BY <2>1 DEF ReadsInv, CacheTells
  <2>3. \A b \in Buckets : sig[b] = shards[S!Current][b].stat
    BY <2>1 DEF S!Signature
  <2>4. \A t \in Tickets : models[t] = shards[S!Current][BucketOf[t]].held[t]
    BY <2>2, <2>3, ShardConstants DEF Reveals, File
  <2>5. models = [t \in Tickets |-> shards[S!Current][BucketOf[t]].held[t]]
    BY <2>2, <2>4
  <2> QED BY <2>1, <2>5 DEF S!Content
<1> QED BY <1>1, <1>2, <1>3

(* What the readers of the shards see is true, whatever dies or fails and  *)
(* however the steps of a mutation, of a list and of a summary alternate:  *)
(* without faults lookups find what was acknowledged and no ticket is left *)
(* in two sprints; a manifest that matches its files counts them right     *)
(* unless a shard was replaced under its rebuild; a load shows values the  *)
(* sprint had while it ran; and models are served from the cache only      *)
(* while they are what the shards hold.                                    *)
THEOREM ShardReadsTrueCorrect == StorageSpec => []ShardReadsTrue
<1> DEFINE Inv == ShardInv /\ ReadsInv /\ VersionInv
<1>1. StorageInit => Inv
  BY ShardStarts, ReadsStart DEF StorageInit
<1>2. Inv /\ [StorageNext]_allVars => Inv'
  <2>1. [StorageNext]_allVars => [S!Next]_shardVars
    BY DEF StorageNext, allVars
  <2> QED BY <2>1, ShardStep, ReadsStep
<1>3. Inv => ShardReadsTrue
  BY NewestHolds, ReadsHold DEF ShardInv, ShardReadsTrue
<1> QED BY <1>1, <1>2, <1>3, PTL DEF StorageSpec

-----------------------------------------------------------------------------
(* Retention.  Of a set of k or more terminal tickets at least k are among *)
(* the k oldest, and none of those is younger than the others.             *)
AgeOf(c, t) == R!ArchiveStamp(c[t])
Before(c, u, t) == AgeOf(c, u) < AgeOf(c, t) \/ (AgeOf(c, u) = AgeOf(c, t) /\ u < t)

LEMMA RetSizeIs == \A X : R!Cardinality(X) = Cardinality(X)
BY DEF R!Cardinality, Cardinality

LEMMA OldestIs ==
  ASSUME NEW c, NEW T, NEW k
  PROVE  R!Oldest(c, T, k) = {t \in T : Cardinality({u \in T : Before(c, u, t)}) < k}
BY RetSizeIs DEF R!Oldest, Before, AgeOf

LEMMA FirstBefore ==
  ASSUME NEW c, NEW X \in SUBSET Nat, X # {}, \A t \in X : AgeOf(c, t) \in Nat
  PROVE  \E t \in X : \A u \in X : ~Before(c, u, t)
<1> DEFINE Ages == {AgeOf(c, t) : t \in X}
<1>1. Ages \in SUBSET Nat /\ Ages # {}
  OBVIOUS
<1>2. PICK a \in Ages : \A b \in Ages : a <= b
  <2> HIDE DEF Ages
  <2> QED BY <1>1, LeastOf
<1> DEFINE Those == {t \in X : AgeOf(c, t) = a}
<1>3. Those \in SUBSET Nat /\ Those # {}
  BY <1>2
<1>4. PICK t \in Those : \A u \in Those : t <= u
  <2> HIDE DEF Those
  <2> QED BY <1>3, LeastOf
<1>5. ASSUME NEW u \in X, Before(c, u, t) PROVE FALSE
  <2>1. a <= AgeOf(c, u) /\ AgeOf(c, t) = a /\ a \in Nat /\ AgeOf(c, u) \in Nat
    BY <1>1, <1>2, <1>4
  <2>2. AgeOf(c, u) = a /\ u < t
    BY <1>5, <2>1 DEF Before
  <2>3. t <= u
    BY <1>4, <2>2
  <2> QED BY <1>3, <1>4, <2>2, <2>3
<1> QED BY <1>4, <1>5

LEMMA OldestEnough ==
  ASSUME NEW c, NEW T \in SUBSET Nat, IsFiniteSet(T), \A t \in T : AgeOf(c, t) \in Nat,
         NEW k \in 0..Cardinality(T)
  PROVE  Cardinality(R!Oldest(c, T, k)) >= k
<1> DEFINE O(n) == {t \in T : Cardinality({u \in T : Before(c, u, t)}) < n}
           Short == {n \in 0..Cardinality(T) : ~(Cardinality(O(n)) >= n)}
<1>1. Cardinality(T) \in Nat /\ \A U \in SUBSET T : IsFiniteSet(U) /\ Cardinality(U) \in Nat
  BY FS_Subset, FS_CardinalityType
<1>2. ASSUME NEW n \in Short, \A m \in Short : n <= m PROVE FALSE
  <2>1. n # 0 /\ n - 1 \in 0..Cardinality(T) /\ n \in Nat
    <3>1. n \in 0..Cardinality(T) /\ ~(Cardinality(O(n)) >= n) /\ O(n) \in SUBSET T
      OBVIOUS
    <3> HIDE DEF O
    <3>2. Cardinality(O(n)) \in Nat
      BY <1>1, <3>1
    <3> QED BY <1>1, <3>1, <3>2
  <2>2. n - 1 \notin Short
    BY <1>2, <2>1
  <2>3. Cardinality(O(n - 1)) >= n - 1
    BY <2>1, <2>2
  <2>4. O(n - 1) \subseteq O(n)
    <3>1. \A t \in T : Cardinality({u \in T : Before(c, u, t)}) \in Nat
      BY <1>1
    <3>2. \A t \in T : Cardinality({u \in T : Before(c, u, t)}) < n - 1
                      => Cardinality({u \in T : Before(c, u, t)}) < n
      BY <2>1, <3>1
    <3> QED BY <3>2
  <2>5. Cardinality(O(n - 1)) = n - 1
    <3>1. O(n) \in SUBSET T /\ O(n - 1) \in SUBSET T
      OBVIOUS
    <3>2. Cardinality(O(n - 1)) <= Cardinality(O(n)) /\ Cardinality(O(n)) \in Nat /\ Cardinality(O(n - 1)) \in Nat
      BY <1>1, <2>4, <3>1, FS_Subset
    <3>3. ~(Cardinality(O(n)) >= n)
      OBVIOUS
    <3> HIDE DEF O
    <3> QED BY <2>1, <2>3, <3>2, <3>3
  <2>6. T \ O(n - 1) # {}
    <3>0. O(n - 1) \subseteq T
      OBVIOUS
    <3> HIDE DEF O
    <3>1. CASE T = O(n - 1)
      BY <1>1, <2>1, <2>5, <3>1
    <3> QED BY <3>0, <3>1
  <2> HIDE DEF O
  <2>7. PICK t \in T \ O(n - 1) : \A u \in T \ O(n - 1) : ~Before(c, u, t)
    <3>1. T \ O(n - 1) \in SUBSET Nat /\ \A u \in T \ O(n - 1) : AgeOf(c, u) \in Nat
      OBVIOUS
    <3> QED BY <2>6, <3>1, FirstBefore
  <2>8. {u \in T : Before(c, u, t)} \subseteq O(n - 1)
    BY <2>7
  <2>9. O(n - 1) \in SUBSET T
    BY DEF O
  <2>10. Cardinality({u \in T : Before(c, u, t)}) <= n - 1
    BY <1>1, <2>5, <2>8, <2>9, FS_Subset
  <2>11. t \in O(n)
    <3>1. Cardinality({u \in T : Before(c, u, t)}) < n
      <4>1. Cardinality({u \in T : Before(c, u, t)}) \in Nat
        BY <1>1
      <4> QED BY <2>1, <2>10, <4>1
    <3> QED BY <2>7, <3>1 DEF O
  <2>12. O(n - 1) \cup {t} \subseteq O(n)
    BY <2>4, <2>11
  <2>13. Cardinality(O(n - 1) \cup {t}) = n
    BY <1>1, <2>1, <2>5, <2>7, <2>9, FS_AddElement
  <2>14. O(n) \in SUBSET T
    BY DEF O
  <2>15. n <= Cardinality(O(n))
    BY <1>1, <2>12, <2>13, <2>14, FS_Subset
  <2>16. Cardinality(O(n)) \in Nat /\ ~(Cardinality(O(n)) >= n)
    BY <1>1, <2>14
  <2> QED BY <2>1, <2>15, <2>16
<1>3. Short = {}
  <2>1. Short \in SUBSET Nat
    BY <1>1
  <2> HIDE DEF Short
  <2> QED BY <1>2, <2>1, LeastOf
<1>4. k \notin Short
  <2> HIDE DEF Short
  <2> QED BY <1>3
<1>5. R!Oldest(c, T, k) = O(k)
  BY OldestIs
<1> QED BY <1>4, <1>5

-----------------------------------------------------------------------------
(* What a rotation takes and leaves.                                       *)
Over(c) == Cardinality(R!Held(c)) > MaxCurrent
Slim(c) == Over(c) => Cardinality(R!TerminalIn(c)) <= RetainTerminal
Staying(c, T) == R!TerminalIn(c) \ T
OldestGo(c, T) == \A t \in T, u \in Staying(c, T) : AgeOf(c, t) <= AgeOf(c, u)

LEMMA TermsAre ==
  ASSUME NEW c \in R!Contents
  PROVE  /\ R!TerminalIn(c) \in SUBSET Nat /\ IsFiniteSet(R!TerminalIn(c)) /\ R!TerminalIn(c) \subseteq R!Held(c)
         /\ R!Held(c) \in SUBSET (1..MaxStored) /\ IsFiniteSet(R!Held(c))
         /\ Cardinality(R!TerminalIn(c)) \in Nat /\ Cardinality(R!Held(c)) \in Nat
         /\ \A t \in R!TerminalIn(c) : AgeOf(c, t) \in 0..MaxStamp
<1>1. R!TicketIds = 1..MaxStored /\ MaxStored \in Nat
  BY RetentionAssumption DEF R!TicketIds
<1>2. R!Held(c) \in SUBSET (1..MaxStored) /\ R!TerminalIn(c) \subseteq R!Held(c)
  BY <1>1 DEF R!Held, R!TerminalIn
<1>3. IsFiniteSet(R!Held(c)) /\ IsFiniteSet(R!TerminalIn(c))
  BY <1>1, <1>2, FS_Interval, FS_Subset
<1>4. ASSUME NEW t \in R!TerminalIn(c) PROVE AgeOf(c, t) \in 0..MaxStamp
  <2>1. c[t] \in R!Records
    BY <1>1, <1>2 DEF R!Held, R!Contents
  <2> QED BY <2>1 DEF R!Records, R!Stamps, AgeOf, R!ArchiveStamp
<1> QED BY <1>1, <1>2, <1>3, <1>4, FS_CardinalityType

LEMMA DroppedIs ==
  ASSUME NEW c \in R!Contents, NEW T
  PROVE  /\ R!Drop(c, T) \in R!Contents /\ R!Held(R!Drop(c, T)) = R!Held(c) \ T
         /\ R!TerminalIn(R!Drop(c, T)) = Staying(c, T)
         /\ \A t \in R!TicketIds \ T : R!Drop(c, T)[t] = c[t]
<1>1. R!Drop(c, T) \in R!Contents /\ \A t \in R!TicketIds : R!Drop(c, T)[t] = IF t \in T THEN Absent ELSE c[t]
  BY DEF R!Drop, R!Contents
<1>2. R!Held(R!Drop(c, T)) = R!Held(c) \ T
  BY <1>1 DEF R!Held
<1>3. R!TerminalIn(R!Drop(c, T)) = Staying(c, T)
  BY <1>1, <1>2 DEF R!TerminalIn, Staying, R!Held
<1> QED BY <1>1, <1>2, <1>3

LEMMA CandidatesGo ==
  ASSUME NEW c \in R!Contents, NEW force, clock \in R!Stamps
  PROVE  /\ R!ArchiveCandidates(c, force) \subseteq R!TerminalIn(c)
         /\ Slim(R!Drop(c, R!ArchiveCandidates(c, force)))
         /\ OldestGo(c, R!ArchiveCandidates(c, force))
<1> DEFINE terminal == R!TerminalIn(c)
           full == force \/ (MaxCurrent > 0 /\ Over(c))
           surplus == Cardinality(terminal) - RetainTerminal
           today == IF clock <= 2 THEN 1 ELSE 2
           Day(n) == IF n <= 2 THEN 1 ELSE 2
           stale == {t \in terminal : RetainDays = 0 \/ Day(AgeOf(c, t)) < today - (RetainDays - 1)}
           old == IF full THEN R!Oldest(c, terminal, surplus) ELSE {}
<1>1. /\ terminal \in SUBSET Nat /\ IsFiniteSet(terminal) /\ Cardinality(terminal) \in Nat
      /\ \A t \in terminal : AgeOf(c, t) \in 0..MaxStamp
      /\ MaxStamp \in Nat /\ RetainDays \in Nat /\ RetainTerminal \in Nat /\ MaxCurrent \in Nat \ {0}
      /\ clock \in 0..MaxStamp
  BY TermsAre, RetentionAssumption DEF R!Stamps
<1>2. R!Stale(c, terminal, [i \in 0..MaxStamp |-> IF i <= 2 THEN 1 ELSE 2][clock]) = stale
  BY <1>1 DEF R!Stale, AgeOf
<1>3. R!ArchiveCandidates(c, force) = stale \cup old
  BY <1>2, RetSizeIs DEF R!ArchiveCandidates, Over
<1>4. R!Oldest(c, terminal, surplus) \subseteq terminal
  BY OldestIs
<1>5. Slim(R!Drop(c, stale \cup old))
  <2> SUFFICES ASSUME Over(R!Drop(c, stale \cup old))
               PROVE  Cardinality(Staying(c, stale \cup old)) <= RetainTerminal
    BY DroppedIs DEF Slim
  <2>1. full
    <3>1. R!Held(R!Drop(c, stale \cup old)) \subseteq R!Held(c) /\ IsFiniteSet(R!Held(c))
      BY DroppedIs, TermsAre
    <3>2. /\ Cardinality(R!Held(R!Drop(c, stale \cup old))) <= Cardinality(R!Held(c))
          /\ Cardinality(R!Held(R!Drop(c, stale \cup old))) \in Nat /\ Cardinality(R!Held(c)) \in Nat
      BY <3>1, FS_Subset, FS_CardinalityType
    <3> QED BY <1>1, <3>2 DEF Over
  <2>2. PICK o : o = R!Oldest(c, terminal, surplus)
    OBVIOUS
  <2>3. Staying(c, stale \cup old) \subseteq terminal \ o /\ o \in SUBSET terminal
    BY <1>4, <2>1, <2>2 DEF Staying
  <2>4. IsFiniteSet(terminal \ o) /\ Cardinality(terminal \ o) \in Nat /\ Cardinality(o) \in Nat
        /\ Cardinality(terminal \ o) = Cardinality(terminal) - Cardinality(o)
    <3>1. terminal \cap o = o
      BY <2>3
    <3> QED BY <1>1, <2>3, <3>1, FS_Subset, FS_Difference, FS_CardinalityType
  <2>5. Cardinality(Staying(c, stale \cup old)) <= Cardinality(terminal \ o)
        /\ Cardinality(Staying(c, stale \cup old)) \in Nat
    BY <2>3, <2>4, FS_Subset, FS_CardinalityType
  <2>6. Cardinality(terminal \ o) <= RetainTerminal
    <3>1. CASE surplus \in 0..Cardinality(terminal)
      <4>1. \A t \in terminal : AgeOf(c, t) \in Nat
        BY <1>1
      <4>2. Cardinality(o) >= surplus
        BY <1>1, <2>2, <3>1, <4>1, OldestEnough
      <4> QED BY <1>1, <2>4, <4>2
    <3>2. CASE surplus \notin 0..Cardinality(terminal)
      BY <1>1, <2>4, <3>2
    <3> QED BY <3>1, <3>2
  <2> QED BY <1>1, <2>4, <2>5, <2>6
<1>6. OldestGo(c, stale \cup old)
  <2> SUFFICES ASSUME NEW t \in stale \cup old, NEW u \in Staying(c, stale \cup old)
               PROVE  AgeOf(c, t) <= AgeOf(c, u)
    BY DEF OldestGo
  <2>1. t \in terminal /\ u \in terminal /\ u \notin stale /\ u \notin old
    BY <1>4 DEF Staying
  <2>2. PICK a, b : a = AgeOf(c, t) /\ b = AgeOf(c, u)
    OBVIOUS
  <2>3. a \in 0..MaxStamp /\ b \in 0..MaxStamp
    BY <1>1, <2>1, <2>2
  <2>4. CASE t \in stale
    <3>1. RetainDays # 0 /\ ~(Day(b) < today - (RetainDays - 1)) /\ Day(a) < today - (RetainDays - 1)
      BY <2>1, <2>2, <2>4
    <3> QED BY <1>1, <2>2, <2>3, <3>1
  <2>5. CASE t \in old /\ b < a
    <3>1. full /\ Cardinality({v \in terminal : Before(c, v, t)}) < surplus
          /\ ~(Cardinality({v \in terminal : Before(c, v, u)}) < surplus)
      BY <2>1, <2>5, OldestIs
    <3>2. ASSUME NEW v \in terminal, Before(c, v, u) PROVE Before(c, v, t)
      <4>1. AgeOf(c, v) \in 0..MaxStamp
        BY <1>1
      <4> QED BY <2>2, <2>3, <2>5, <3>2, <4>1 DEF Before
    <3>3. {v \in terminal : Before(c, v, u)} \subseteq {v \in terminal : Before(c, v, t)}
      BY <3>2
    <3>4. {v \in terminal : Before(c, v, t)} \in SUBSET terminal
      OBVIOUS
    <3>5. /\ Cardinality({v \in terminal : Before(c, v, u)}) <= Cardinality({v \in terminal : Before(c, v, t)})
          /\ Cardinality({v \in terminal : Before(c, v, u)}) \in Nat
          /\ Cardinality({v \in terminal : Before(c, v, t)}) \in Nat
      BY <1>1, <3>3, <3>4, FS_Subset, FS_CardinalityType
    <3> QED BY <1>1, <3>1, <3>5
  <2>6. b < a \/ a <= b
    BY <2>3
  <2> QED BY <2>2, <2>4, <2>5, <2>6
<1>7. stale \cup old \subseteq terminal
  BY <1>4
<1> QED BY <1>3, <1>5, <1>6, <1>7

-----------------------------------------------------------------------------
(* The current sprint is over its limits only while somebody will rotate   *)
(* it.                                                                     *)
Here == files["current"]
Leaves(j) ==
  /\ j.op = "archive" /\ j.from = "current" /\ "current" \notin j.todo
  /\ j.rest = R!Drop(Here, j.tickets) /\ Slim(j.rest) /\ OldestGo(Here, j.tickets)
Stores(j) ==
  /\ j.op \in {"create", "update"}
  /\ "current" \in j.todo => /\ j.rotate /\ j.dst["current"] \in R!Contents
                             /\ R!Held(Here) \subseteq R!Held(j.dst["current"])
Works(p) ==
  /\ pc[p] \in {"idle", "dst", "loc", "src", "archive", "release"}
  /\ pc[p] # "idle" => lock = p
  /\ pc[p] = "dst" => Leaves(work[p]) \/ Stores(work[p])
  /\ pc[p] \in {"loc", "src"} => Leaves(work[p])
Due(p) ==
  \/ pc[p] = "archive"
  \/ pc[p] \in {"dst", "loc", "src"} /\ Leaves(work[p])
  \/ pc[p] = "dst" /\ work[p].rotate
RetInv ==
  /\ clock \in R!Stamps /\ Here \in R!Contents /\ files = [s \in R!Sprints |-> files[s]]
  /\ pc = [p \in Procs |-> pc[p]] /\ work = [p \in Procs |-> work[p]]
  /\ \A p \in Procs : Works(p)
  /\ Slim(Here) \/ \E p \in Procs : Due(p)

LEMMA SprintsAre == R!Sprints = {"current", "backlog", "history-1", "history-2"}
BY DEF R!Sprints, R!Operational

LEMMA RetInit == ASSUME R!Init PROVE RetInv
<1>1. /\ clock = 0 /\ files = [s \in R!Sprints |-> R!NoTickets]
      /\ pc = [p \in Procs |-> "idle"] /\ work = [p \in Procs |-> R!NoJob]
  BY DEF R!Init
<1>2. Here = R!NoTickets /\ R!NoTickets \in R!Contents /\ R!Held(R!NoTickets) = {}
  BY <1>1, SprintsAre DEF Here, R!NoTickets, R!Contents, R!Held
<1>3. Slim(Here)
  BY <1>2, FS_EmptySet, RetentionAssumption DEF Slim, Over
<1>4. clock \in R!Stamps
  BY <1>1, RetentionAssumption DEF R!Stamps
<1>5. \A p \in Procs : Works(p)
  BY <1>1 DEF Works
<1> QED BY <1>1, <1>2, <1>3, <1>4, <1>5 DEF RetInv

(* Only who holds the lock has anything to do, so others are idle.         *)
LEMMA OthersIdle ==
  ASSUME RetInv, NEW p \in Procs, NEW q \in Procs, q # p, lock = p \/ lock = NoProc
  PROVE  pc[q] = "idle"
BY RetentionAssumption DEF RetInv, Works

(* One process goes on, holding the lock.                                  *)
LEMMA OneGoes ==
  ASSUME RetInv, NEW p \in Procs, lock = p \/ lock = NoProc,
         clock' \in R!Stamps, Here' \in R!Contents, files' = [s \in R!Sprints |-> files'[s]],
         pc' = [pc EXCEPT ![p] = pc'[p]], work' = [work EXCEPT ![p] = work'[p]],
         Works(p)', Slim(Here)' \/ Due(p)'
  PROVE  RetInv'
<1>1. pc' = [q \in Procs |-> pc'[q]] /\ work' = [q \in Procs |-> work'[q]]
  BY DEF RetInv
<1>2. ASSUME NEW q \in Procs PROVE Works(q)'
  <2>1. CASE q = p
    BY <2>1
  <2>2. CASE q # p
    <3>1. pc'[q] = "idle"
      BY <2>2, OthersIdle DEF RetInv
    <3> QED BY <3>1 DEF Works
  <2> QED BY <2>1, <2>2
<1> QED BY <1>1, <1>2 DEF RetInv

(* A job begins.                                                           *)
LEMMA JobBegins ==
  ASSUME RetInv, NEW p \in Procs, NEW from, NEW j, R!Enter(p, from, "dst", j),
         clock' \in R!Stamps, files' = files, Leaves(j) \/ Stores(j),
         Slim(Here) \/ Leaves(j)
  PROVE  RetInv'
<1>1. /\ lock = NoProc /\ lock' = p /\ pc' = [pc EXCEPT ![p] = "dst"] /\ work' = [work EXCEPT ![p] = j]
  BY DEF R!Enter, R!Goto
<1>2. pc'[p] = "dst" /\ work'[p] = j /\ Here' = Here
  BY <1>1 DEF RetInv, Here
<1>3. Leaves(j)' <=> Leaves(j)
  BY <1>2 DEF Leaves
<1>4. Stores(j)' <=> Stores(j)
  BY <1>2 DEF Stores
<1>5. PICK x : x = work'[p]
  OBVIOUS
<1>6. (Leaves(x)' \/ Stores(x)') /\ (Slim(Here)' \/ Leaves(x)')
  BY <1>2, <1>3, <1>4, <1>5 DEF Slim, Over
<1>7. Works(p)'
  BY <1>1, <1>2, <1>5, <1>6 DEF Works
<1>8. Slim(Here)' \/ Due(p)'
  BY <1>2, <1>5, <1>6 DEF Due
<1> QED BY <1>1, <1>2, <1>7, <1>8, OneGoes DEF RetInv

(* Without a job under way the current sprint is as it should be.          *)
LEMMA FreeIsSlim == ASSUME RetInv, lock = NoProc PROVE Slim(Here)
BY RetentionAssumption DEF RetInv, Works, Due

LEMMA WriteJobIs ==
  ASSUME NEW kind, NEW T, NEW n, NEW todo, NEW dst, kind # "delete", NEW j,
         j = R!WriteJob(kind, T, n, todo, dst)
  PROVE  /\ j.op = kind /\ j.todo = todo /\ j.dst = dst
         /\ "current" \in todo => j.rotate
<1>1. PICK i : i = R!NoJob
  OBVIOUS
<1>2. i = [op |-> i.op, tickets |-> i.tickets, stamp |-> i.stamp, todo |-> i.todo, dst |-> i.dst,
           from |-> i.from, rest |-> i.rest, to |-> i.to, homes |-> i.homes, rotate |-> i.rotate,
           existed |-> i.existed]
  BY <1>1 DEF R!NoJob
<1>3. j = [i EXCEPT !.op = kind, !.tickets = T, !.stamp = n, !.todo = todo,
                    !.dst = dst, !.rotate = kind # "delete" /\ "current" \in todo]
  BY <1>1 DEF R!WriteJob
<1> QED BY <1>2, <1>3

LEMMA ArchiveJobIs ==
  ASSUME NEW c, NEW T, NEW j, j = R!ArchiveJob(c, T)
  PROVE  /\ j.op = "archive" /\ j.tickets = T /\ j.from = "current" /\ j.rest = R!Drop(c, T)
         /\ j.todo = {R!HistoryFile(c[t]) : t \in T}
<1>1. PICK i : i = R!NoJob
  OBVIOUS
<1>2. /\ i = [op |-> i.op, tickets |-> i.tickets, stamp |-> i.stamp, todo |-> i.todo, dst |-> i.dst,
              from |-> i.from, rest |-> i.rest, to |-> i.to, homes |-> i.homes, rotate |-> i.rotate,
              existed |-> i.existed]
      /\ i.from = "current"
  BY <1>1 DEF R!NoJob
<1>3. PICK todo, dst, rest, homes :
        /\ todo = {R!HistoryFile(c[t]) : t \in T} /\ rest = R!Drop(c, T)
        /\ j = [i EXCEPT !.op = "archive", !.tickets = T, !.todo = todo, !.dst = dst,
                         !.rest = rest, !.homes = homes]
  BY <1>1 DEF R!ArchiveJob
<1> QED BY <1>2, <1>3

LEMMA HistoryIs ==
  ASSUME NEW c \in R!Contents, NEW t \in R!TerminalIn(c)
  PROVE  R!HistoryFile(c[t]) \in {"history-1", "history-2"}
<1>1. PICK a : a = AgeOf(c, t)
  OBVIOUS
<1>2. a \in 0..MaxStamp
  BY <1>1, TermsAre
<1>3. R!HistoryFile(c[t]) = <<"history-1", "history-2">>[[i \in 0..MaxStamp |-> IF i <= 2 THEN 1 ELSE 2][a]]
  BY <1>1 DEF R!HistoryFile, AgeOf
<1> QED BY <1>2, <1>3

(* A rotation that begins will leave the sprint within its limits.         *)
LEMMA RotationLeaves ==
  ASSUME RetInv, NEW force, NEW j, j = R!ArchiveJob(Here, R!ArchiveCandidates(Here, force))
  PROVE  Leaves(j)
<1>1. PICK T : T = R!ArchiveCandidates(Here, force)
  OBVIOUS
<1>2. T \subseteq R!TerminalIn(Here) /\ Slim(R!Drop(Here, T)) /\ OldestGo(Here, T)
  BY <1>1, CandidatesGo DEF RetInv
<1>3. /\ j.op = "archive" /\ j.tickets = T /\ j.from = "current" /\ j.rest = R!Drop(Here, T)
      /\ j.todo = {R!HistoryFile(Here[t]) : t \in T}
  BY <1>1, ArchiveJobIs
<1>4. "current" \notin j.todo
  BY <1>2, <1>3, HistoryIs DEF RetInv
<1> QED BY <1>2, <1>3, <1>4 DEF Leaves

LEMMA NothingToGo == ASSUME RetInv, R!ArchiveCandidates(Here, FALSE) = {} PROVE Slim(Here)
<1>1. R!Drop(Here, {}) = Here
  BY DEF RetInv, R!Drop, R!Contents
<1> QED BY <1>1, CandidatesGo DEF RetInv

-----------------------------------------------------------------------------
LEMMA StampNext == ASSUME RetInv, R!Tick PROVE clock' = clock + 1 /\ clock' \in R!Stamps
BY RetentionAssumption DEF RetInv, R!Tick, R!Stamps

LEMMA CreateBegins ==
  ASSUME RetInv, NEW p \in Procs, NEW n, NEW sprintOf, NEW st \in R!Statuses,
         R!BeginCreate(p, n, sprintOf, st)
  PROVE  RetInv'
<1>1. PICK ids, new, dst, todo, j :
        /\ ids = R!NewIds(n) /\ new = [status |-> st, upd |-> clock + 1, fin |-> 0]
        /\ dst = [s \in R!Sprints |-> [t \in R!TicketIds |->
                    IF t \in ids /\ sprintOf[t] = s THEN new ELSE files[s][t]]]
        /\ todo = {sprintOf[t] : t \in ids}
        /\ j = R!WriteJob("create", ids, clock + 1, todo, dst)
  OBVIOUS
<1>2. R!Tick /\ files' = files /\ R!Enter(p, "idle", "dst", j)
  BY <1>1 DEF R!BeginCreate
<1>3. clock' = clock + 1 /\ clock' \in R!Stamps /\ 0 \in R!Stamps
  BY <1>2, StampNext, RetentionAssumption DEF R!Stamps
<1>4. new \in R!Records
  BY <1>1, <1>3 DEF R!Records
<1>5. dst["current"] = [t \in R!TicketIds |-> IF t \in ids /\ sprintOf[t] = "current" THEN new ELSE Here[t]]
  BY <1>1, SprintsAre DEF Here
<1>6. dst["current"] \in R!Contents /\ R!Held(Here) \subseteq R!Held(dst["current"])
  BY <1>4, <1>5, RetentionAssumption DEF RetInv, R!Contents, R!Held
<1>7. Stores(j)
  <2>1. j.op = "create" /\ j.dst = dst /\ ("current" \in j.todo => j.rotate)
    BY <1>1, WriteJobIs
  <2> QED BY <1>6, <2>1 DEF Stores
<1>8. Slim(Here)
  BY <1>2, FreeIsSlim DEF R!Enter
<1> QED BY <1>2, <1>3, <1>7, <1>8, JobBegins

LEMMA UpdateBegins ==
  ASSUME RetInv, NEW p \in Procs, NEW t \in R!TicketIds, NEW f \in R!Sprints, R!BeginUpdate(p, t, f)
  PROVE  RetInv'
<1>1. PICK new, dst, j :
        /\ new \in R!Updates(files[f][t])
        /\ dst = [files EXCEPT ![f] = R!Put(files[f], t, new)]
        /\ j = R!WriteJob("update", {t}, clock + 1, {f}, dst)
        /\ R!Enter(p, "idle", "dst", j)
  BY DEF R!BeginUpdate
<1>2. R!Tick /\ files' = files /\ R!IsFirst(f, t)
  BY DEF R!BeginUpdate, R!storeVars
<1>3. clock' = clock + 1 /\ clock' \in R!Stamps /\ 0 \in R!Stamps
  BY <1>2, StampNext, RetentionAssumption DEF R!Stamps
<1>4. ASSUME f = "current" PROVE dst["current"] \in R!Contents /\ R!Held(Here) \subseteq R!Held(dst["current"])
  <2>1. dst["current"] = R!Put(Here, t, new)
    BY <1>1, <1>4, SprintsAre DEF RetInv, Here
  <2>2. PICK old : old = Here[t]
    OBVIOUS
  <2>3. old \in R!Records
    BY <1>2, <1>4, <2>2 DEF RetInv, R!IsFirst, R!Holders, R!Contents, Here
  <2>4. new \in R!Updates(old)
    BY <1>1, <1>4, <2>2 DEF Here
  <2>5. new \in R!Records
    <3>1. CASE new \in {[old EXCEPT !.upd = clock + 1, !.fin = e] : e \in {old.fin, 0}}
      <4>1. PICK e \in {old.fin, 0} : new = [old EXCEPT !.upd = clock + 1, !.fin = e]
        BY <3>1
      <4>2. PICK u : u = clock + 1
        OBVIOUS
      <4>3. u \in R!Stamps /\ e \in R!Stamps
        BY <1>3, <2>3, <4>2 DEF R!Records
      <4> QED BY <2>3, <4>1, <4>2, <4>3 DEF R!Records
    <3>2. CASE new \in {[status |-> st, upd |-> clock + 1,
                         fin |-> IF st \in R!Terminal THEN clock + 1 ELSE IF keep THEN old.fin ELSE 0] :
                           st \in {st \in R!Statuses : R!MayBecome(old, st)}, keep \in BOOLEAN}
      <4>1. PICK st \in R!Statuses, e \in {clock + 1, old.fin, 0} :
              new = [status |-> st, upd |-> clock + 1, fin |-> e]
        BY <3>2
      <4>2. e \in R!Stamps
        BY <1>3, <2>3, <4>1 DEF R!Records
      <4> QED BY <1>3, <4>1, <4>2 DEF R!Records
    <3> QED BY <2>4, <3>1, <3>2 DEF R!Updates
  <2> QED BY <2>1, <2>5, RetentionAssumption DEF RetInv, R!Put, R!Contents, R!Held
<1>5. Stores(j)
  <2>1. j.op = "update" /\ j.dst = dst /\ j.todo = {f} /\ ("current" \in j.todo => j.rotate)
    BY <1>1, WriteJobIs
  <2> QED BY <1>4, <2>1 DEF Stores
<1>6. Slim(Here)
  BY <1>1, FreeIsSlim DEF R!Enter
<1> QED BY <1>1, <1>2, <1>3, <1>5, <1>6, JobBegins

LEMMA ArchiveBegins ==
  ASSUME RetInv, NEW p \in Procs, NEW from, NEW force, R!BeginArchive(p, from, force)
  PROVE  RetInv'
<1>1. PICK j : j = R!ArchiveJob(Here, R!ArchiveCandidates(Here, force))
  OBVIOUS
<1>2. R!Enter(p, from, "dst", j) /\ files' = files /\ clock' = clock
  BY <1>1 DEF R!BeginArchive, R!storeVars, Here
<1>3. Leaves(j)
  BY <1>1, RotationLeaves
<1> QED BY <1>2, <1>3, JobBegins DEF RetInv

-----------------------------------------------------------------------------
(* Steps of a process that holds the lock.                                 *)
LEMMA StaysDue ==
  ASSUME NEW j, Here' = Here
  PROVE  Leaves(j)' <=> Leaves(j)
BY DEF Leaves

LEMMA RotateSteps == ASSUME RetInv, NEW p \in Procs, R!Rotate(p) PROVE RetInv'
<1>1. /\ pc[p] = "archive" /\ lock = p /\ lock' = lock /\ clock' = clock /\ files' = files /\ Here' = Here
  BY DEF R!Rotate, R!storeVars, RetInv, Works, Here
<1>2. CASE R!ArchiveCandidates(Here, FALSE) = {}
  <2>1. pc' = [pc EXCEPT ![p] = "release"] /\ work' = work
    BY <1>2 DEF R!Rotate, R!Goto, Here
  <2>2. Slim(Here)
    BY <1>2, NothingToGo
  <2>3. pc'[p] = "release" /\ work' = [work EXCEPT ![p] = work'[p]]
    BY <2>1 DEF RetInv
  <2>4. Works(p)'
    BY <1>1, <2>3 DEF Works
  <2>5. Slim(Here)'
    BY <1>1, <2>2 DEF Slim, Over
  <2> QED BY <1>1, <2>1, <2>3, <2>4, <2>5, OneGoes DEF RetInv
<1>3. CASE R!ArchiveCandidates(Here, FALSE) # {}
  <2>1. PICK j : j = R!ArchiveJob(Here, R!ArchiveCandidates(Here, FALSE))
    OBVIOUS
  <2>2. pc' = [pc EXCEPT ![p] = "dst"] /\ work' = [work EXCEPT ![p] = j]
    BY <1>3, <2>1 DEF R!Rotate, R!Goto, Here
  <2>3. pc'[p] = "dst" /\ work'[p] = j
    BY <2>2 DEF RetInv
  <2>4. Leaves(j)'
    BY <1>1, <2>1, RotationLeaves, StaysDue
  <2>5. PICK x : x = work'[p]
    OBVIOUS
  <2>6. Leaves(x)'
    BY <2>3, <2>4, <2>5
  <2>7. Works(p)' /\ Due(p)'
    BY <1>1, <2>3, <2>5, <2>6 DEF Works, Due
  <2> QED BY <1>1, <2>2, <2>3, <2>7, OneGoes DEF RetInv
<1> QED BY <1>2, <1>3

LEMMA FileWritten == ASSUME RetInv, NEW p \in Procs, NEW s \in R!Sprints, R!WriteFile(p, s) PROVE RetInv'
<1>1. PICK j : j = work[p]
  OBVIOUS
<1>2. PICK d : d = [j EXCEPT !.todo = @ \ {s}]
  OBVIOUS
<1>3. /\ pc[p] = "dst" /\ lock = p /\ s \in j.todo /\ files' = [files EXCEPT ![s] = j.dst[s]]
      /\ clock' = clock /\ (Leaves(j) \/ Stores(j))
  BY <1>1 DEF R!WriteFile, RetInv, Works
<1>4. j.op \in {"archive", "create", "update"}
  BY <1>3 DEF Leaves, Stores
<1>5. /\ lock' = lock /\ work' = [work EXCEPT ![p] = d]
      /\ pc' = IF j.todo = {s} THEN [pc EXCEPT ![p] = R!AfterWrites(j)] ELSE pc
  BY <1>1, <1>2, <1>4 DEF R!WriteFile, R!DropsLock, R!Goto
<1>6. R!AfterWrites(j) = IF j.op = "archive" THEN "loc" ELSE IF j.rotate THEN "archive" ELSE "release"
  BY <1>4 DEF R!AfterWrites
<1>7. Here' = IF s = "current" THEN j.dst["current"] ELSE Here
  BY <1>3, SprintsAre DEF RetInv, Here
<1>8. work'[p] = d /\ pc' = [pc EXCEPT ![p] = pc'[p]]
      /\ pc'[p] = IF j.todo = {s} THEN R!AfterWrites(j) ELSE "dst"
  BY <1>3, <1>5 DEF RetInv
<1>11. files' = [q \in R!Sprints |-> files'[q]] /\ clock' \in R!Stamps /\ work' = [work EXCEPT ![p] = work'[p]]
  <2>1. files' = [q \in R!Sprints |-> files'[q]]
    BY <1>3 DEF RetInv
  <2>2. clock' \in R!Stamps
    BY <1>3 DEF RetInv
  <2>3. work' = [work EXCEPT ![p] = work'[p]]
    BY <1>5, <1>8
  <2> QED BY <2>1, <2>2, <2>3
<1>9. CASE Leaves(j)
  <2>1. s # "current" /\ Here' = Here
    BY <1>3, <1>7, <1>9 DEF Leaves
  <2>2. /\ d.op = "archive" /\ d.from = j.from /\ d.rest = j.rest /\ d.tickets = j.tickets
        /\ "current" \notin d.todo
    <3>1. j.op = "archive" /\ "current" \notin j.todo
      BY <1>9 DEF Leaves
    <3> QED BY <1>2, <3>1
  <2>3. Leaves(d)
    BY <1>9, <2>2 DEF Leaves
  <2>4. Leaves(d)'
    BY <2>1, <2>3, StaysDue
  <2>5. pc'[p] \in {"dst", "loc"}
    BY <1>6, <1>8, <1>9 DEF Leaves
  <2>6. PICK x : x = work'[p]
    OBVIOUS
  <2>7. Leaves(x)'
    BY <1>8, <2>4, <2>6
  <2>8. Works(p)' /\ Due(p)'
    BY <1>3, <1>5, <2>5, <2>6, <2>7 DEF Works, Due
  <2> QED BY <1>3, <1>5, <1>8, <1>11, <2>1, <2>8, OneGoes DEF RetInv
<1>10. CASE Stores(j)
  <2>1. s = "current" => j.rotate /\ j.dst["current"] \in R!Contents
    BY <1>3, <1>10 DEF Stores
  <2>2. Here' \in R!Contents
    BY <1>7, <2>1 DEF RetInv
  <2>3. j.op \in {"create", "update"}
    BY <1>10 DEF Stores
  <2>4. /\ d.op = j.op /\ d.rotate = j.rotate /\ d.dst = j.dst
        /\ "current" \in d.todo => "current" \in j.todo /\ s # "current"
    BY <1>2, <2>3
  <2>5. Stores(d)'
    BY <1>7, <1>10, <2>4 DEF Stores
  <2>6. pc'[p] \in {"dst", "archive", "release"}
    BY <1>6, <1>8, <2>3
  <2>7. PICK x : x = work'[p]
    OBVIOUS
  <2>8. Stores(x)'
    BY <1>8, <2>5, <2>7
  <2>9. Works(p)'
    BY <1>3, <1>5, <2>6, <2>7, <2>8 DEF Works
  <2>10. CASE s = "current"
    <3>1. j.rotate /\ pc'[p] \in {"dst", "archive"} /\ work'[p].rotate
      BY <1>6, <1>8, <2>1, <2>3, <2>4, <2>10
    <3>2. Due(p)'
      BY <3>1 DEF Due
    <3> QED BY <1>3, <1>5, <1>8, <1>11, <2>2, <2>9, <3>2, OneGoes DEF RetInv
  <2>11. CASE s # "current"
    <3>1. Here' = Here
      BY <1>7, <2>11
    <3>2. Slim(Here) \/ Due(p)
      BY OthersIdle, <1>3 DEF RetInv, Due
    <3>3. Due(p) => Due(p)'
      <4>1. CASE j.rotate
        <5>1. work'[p].rotate /\ pc'[p] \in {"dst", "archive"}
          BY <1>6, <1>8, <2>3, <2>4, <4>1
        <5> QED BY <5>1 DEF Due
      <4>2. CASE ~j.rotate
        <5>1. ~Leaves(j)
          BY <2>3 DEF Leaves
        <5> QED BY <1>1, <1>3, <4>2, <5>1 DEF Due
      <4> QED BY <4>1, <4>2
    <3>4. Slim(Here)' \/ Due(p)'
      BY <3>1, <3>2, <3>3 DEF Slim, Over
    <3> QED BY <1>3, <1>5, <1>8, <1>11, <2>2, <2>9, <3>4, OneGoes DEF RetInv
  <2> QED BY <2>10, <2>11
<1> QED BY <1>3, <1>9, <1>10

LEMMA LocatorWritten == ASSUME RetInv, NEW p \in Procs, R!WriteLocator(p) PROVE RetInv'
<1>1. /\ pc[p] = "loc" /\ lock = p /\ lock' = lock /\ files' = files /\ clock' = clock /\ work' = work
      /\ pc' = [pc EXCEPT ![p] = "src"] /\ Here' = Here
  BY DEF R!WriteLocator, R!Goto, RetInv, Works, Here
<1>2. pc'[p] = "src" /\ work' = [work EXCEPT ![p] = work'[p]] /\ work'[p] = work[p]
  BY <1>1 DEF RetInv
<1>3. PICK x : x = work[p]
  OBVIOUS
<1>4. Leaves(x)'
  BY <1>1, <1>3, StaysDue DEF RetInv, Works
<1>5. Works(p)' /\ Due(p)'
  BY <1>1, <1>2, <1>3, <1>4 DEF Works, Due
<1> QED BY <1>1, <1>2, <1>5, OneGoes DEF RetInv

LEMMA SourceWritten ==
  ASSUME RetInv, NEW p \in Procs, R!WriteSource(p)
  PROVE  RetInv' /\ Leaves(work[p]) /\ Here' = work[p].rest
<1>1. PICK j : j = work[p]
  OBVIOUS
<1>2. /\ pc[p] = "src" /\ lock = p /\ lock' = lock /\ clock' = clock /\ work' = work
      /\ pc' = [pc EXCEPT ![p] = "release"] /\ files' = [files EXCEPT ![j.from] = j.rest] /\ Leaves(j)
  BY <1>1 DEF R!WriteSource, R!Goto, RetInv, Works
<1>3. /\ Here' = j.rest /\ j.rest \in R!Contents /\ Slim(j.rest)
      /\ files' = [s \in R!Sprints |-> files'[s]]
  <2>1. j.rest \in R!Contents
    BY <1>2, DroppedIs DEF Leaves, RetInv
  <2> QED BY <1>2, <2>1, SprintsAre DEF Leaves, RetInv, Here
<1>4. pc'[p] = "release" /\ work' = [work EXCEPT ![p] = work'[p]]
  BY <1>2 DEF RetInv
<1>5. Works(p)'
  BY <1>2, <1>4 DEF Works
<1>6. Slim(Here)'
  BY <1>3 DEF Slim, Over
<1> QED BY <1>1, <1>2, <1>3, <1>4, <1>5, <1>6, OneGoes DEF RetInv

LEMMA LockDropped == ASSUME RetInv, NEW p \in Procs, R!Release(p) PROVE RetInv'
<1>1. /\ pc[p] = "release" /\ lock = p /\ files' = files /\ clock' = clock /\ Here' = Here
      /\ pc' = [pc EXCEPT ![p] = "idle"] /\ work' = [work EXCEPT ![p] = R!NoJob]
  BY DEF R!Release, R!Goto, R!storeVars, RetInv, Works, Here
<1>2. pc'[p] = "idle" /\ work' = [work EXCEPT ![p] = work'[p]] /\ pc' = [pc EXCEPT ![p] = pc'[p]]
  BY <1>1 DEF RetInv
<1>3. Works(p)'
  BY <1>2 DEF Works
<1>4. Slim(Here)
  BY <1>1, OthersIdle DEF RetInv, Due
<1>5. Slim(Here)'
  BY <1>1, <1>4 DEF Slim, Over
<1> QED BY <1>1, <1>2, <1>3, <1>5, OneGoes DEF RetInv

-----------------------------------------------------------------------------
(* A ticket that leaves the current sprint is rotated out of it.           *)
OldestFirst ==
  \A t \in R!TerminalIn(Here) : Here'[t] = Absent =>
    \A u \in R!TerminalIn(Here') : R!ArchiveStamp(Here[t]) <= R!ArchiveStamp(Here'[u])

LEMMA NobodyLeaves ==
  ASSUME RetInv, R!Held(Here) \subseteq R!Held(Here')
  PROVE  OldestFirst
<1>1. ASSUME NEW t \in R!TerminalIn(Here) PROVE Here'[t] # Absent
  BY <1>1 DEF R!TerminalIn, R!Held
<1> QED BY <1>1 DEF OldestFirst

LEMMA RotationOldest == ASSUME RetInv, NEW p \in Procs, R!WriteSource(p) PROVE OldestFirst
<1>1. PICK j : j = work[p]
  OBVIOUS
<1>2. Leaves(j) /\ Here' = j.rest
  BY <1>1, SourceWritten
<1>3. Here' = R!Drop(Here, j.tickets) /\ OldestGo(Here, j.tickets)
  BY <1>2 DEF Leaves
<1>4. /\ R!TerminalIn(Here') = Staying(Here, j.tickets)
      /\ \A u \in R!TicketIds \ j.tickets : Here'[u] = Here[u]
  BY <1>3, DroppedIs DEF RetInv
<1> SUFFICES ASSUME NEW t \in R!TerminalIn(Here), Here'[t] = Absent, NEW u \in R!TerminalIn(Here')
             PROVE  R!ArchiveStamp(Here[t]) <= R!ArchiveStamp(Here'[u])
  BY DEF OldestFirst
<1>5. t \in R!TicketIds /\ Here[t] # Absent /\ u \in R!TicketIds /\ u \in Staying(Here, j.tickets) /\ u \notin j.tickets
  BY <1>4 DEF Staying, R!TerminalIn, R!Held
<1>6. t \in j.tickets
  BY <1>4, <1>5
<1>7. Here'[u] = Here[u]
  BY <1>4, <1>5
<1> QED BY <1>3, <1>5, <1>6, <1>7 DEF OldestGo, AgeOf

LEMMA FileOldest == ASSUME RetInv, NEW p \in Procs, NEW s \in R!Sprints, R!WriteFile(p, s) PROVE OldestFirst
<1>1. PICK j : j = work[p]
  OBVIOUS
<1>2. s \in j.todo /\ files' = [files EXCEPT ![s] = j.dst[s]] /\ (Leaves(j) \/ Stores(j))
  BY <1>1 DEF R!WriteFile, RetInv, Works
<1>3. Here' = IF s = "current" THEN j.dst["current"] ELSE Here
  BY <1>2, SprintsAre DEF RetInv, Here
<1>4. s = "current" => R!Held(Here) \subseteq R!Held(j.dst["current"])
  BY <1>2 DEF Leaves, Stores
<1>5. R!Held(Here) \subseteq R!Held(Here')
  BY <1>3, <1>4
<1> QED BY <1>5, NobodyLeaves

LEMMA RetRests ==
  ASSUME RetInv, UNCHANGED <<files, clock, pc, work, lock>>
  PROVE  RetInv' /\ OldestFirst
<1>1. Here' = Here
  BY DEF Here
<1>2. ASSUME NEW p \in Procs PROVE (Works(p)' <=> Works(p)) /\ (Due(p)' <=> Due(p))
  BY <1>1 DEF Works, Due, Leaves, Stores
<1>3. RetInv'
  BY <1>1, <1>2 DEF RetInv, Slim, Over
<1> QED BY <1>1, <1>3, NobodyLeaves

LEMMA RetStep == ASSUME RetInv, R!Next PROVE RetInv' /\ OldestFirst
<1>1. PICK p \in Procs : R!Begin(p) \/ R!Continue(p) \/ R!SourceWriteFails(p) \/ R!Crash(p)
  BY DEF R!Next
<1>2. Here' = Here => OldestFirst
  BY NobodyLeaves
<1>3. CASE R!Begin(p)
  <2>1. ASSUME NEW n \in 1..MaxStored, NEW st \in R!Statuses, NEW sprintOf,
               R!BeginCreate(p, n, sprintOf, st)
        PROVE  RetInv' /\ OldestFirst
    BY <1>2, <2>1, CreateBegins DEF R!BeginCreate, Here
  <2>2. ASSUME NEW t \in R!TicketIds, NEW f \in R!Sprints, R!BeginUpdate(p, t, f)
        PROVE  RetInv' /\ OldestFirst
    BY <1>2, <2>2, UpdateBegins DEF R!BeginUpdate, R!storeVars, Here
  <2>3. ASSUME NEW t \in R!TicketIds, NEW st \in R!Statuses, R!EditSnapshot(p, t, st)
        PROVE  RetInv' /\ OldestFirst
    BY <2>3, RetRests DEF R!EditSnapshot, R!storeVars
  <2>4. ASSUME NEW force, R!BeginArchive(p, "idle", force)
        PROVE  RetInv' /\ OldestFirst
    BY <1>2, <2>4, ArchiveBegins DEF R!BeginArchive, R!storeVars, Here
  <2>5. ASSUME NEW T, R!BeginDelete(p, T) PROVE FALSE
    BY <2>5 DEF R!BeginDelete
  <2>6. ASSUME NEW t, NEW f, NEW to, R!BeginMove(p, t, f, to) PROVE FALSE
    BY <2>6 DEF R!BeginMove
  <2>7. ~R!BeginSave(p) /\ \A s : ~R!Load(p, s)
    BY DEF R!BeginSave, R!Load
  <2> QED BY <1>3, <2>1, <2>2, <2>3, <2>4, <2>5, <2>6, <2>7 DEF R!Begin
<1>4. CASE R!Continue(p)
  <2>1. ~R!UndoMove(p) /\ ~R!NothingToArchive(p)
    BY DEF RetInv, Works, R!UndoMove, R!NothingToArchive
  <2>2. ASSUME NEW s \in R!Sprints, R!WriteFile(p, s) PROVE RetInv' /\ OldestFirst
    BY <2>2, FileWritten, FileOldest
  <2>3. CASE R!WriteLocator(p)
    BY <1>2, <2>3, LocatorWritten DEF R!WriteLocator, Here
  <2>4. CASE R!WriteSource(p)
    BY <2>4, SourceWritten, RotationOldest
  <2>5. CASE R!BeginArchive(p, "rearm", FALSE)
    BY <1>2, <2>5, ArchiveBegins DEF R!BeginArchive, R!storeVars, Here
  <2>6. CASE R!Rotate(p)
    BY <1>2, <2>6, RotateSteps DEF R!Rotate, R!storeVars, Here
  <2>7. CASE R!Release(p)
    BY <1>2, <2>7, LockDropped DEF R!Release, R!storeVars, Here
  <2> QED BY <1>4, <2>1, <2>2, <2>3, <2>4, <2>5, <2>6, <2>7 DEF R!Continue
<1>5. ~R!SourceWriteFails(p) /\ ~R!Crash(p)
  BY DEF R!SourceWriteFails, R!Crash
<1> QED BY <1>1, <1>3, <1>4, <1>5

LEMMA RetHolds == ASSUME RetInv PROVE CapacityRespected
<1>1. ASSUME R!Quiet PROVE Slim(Here)
  BY <1>1, FreeIsSlim DEF R!Quiet
<1> QED BY <1>1, RetSizeIs DEF CapacityRespected, R!CapacityRespected, Slim, Over, Here

(* Creations, updates and rotations by any number of processes leave the   *)
(* current sprint within its limits: whoever stores a ticket there rotates *)
(* before it drops the lock (planfile/core/store.py, archive_completed).   *)
THEOREM CapacityRespectedCorrect == StorageSpec => []CapacityRespected
<1>1. StorageInit => RetInv
  BY RetInit DEF StorageInit
<1>2. RetInv /\ [StorageNext]_allVars => RetInv'
  <2>1. SUFFICES ASSUME RetInv, [StorageNext]_allVars PROVE RetInv'
    OBVIOUS
  <2>2. R!Next \/ UNCHANGED storeVars
    BY <2>1 DEF StorageNext, allVars
  <2> QED BY <2>1, <2>2, RetStep, RetRests DEF storeVars
<1> QED BY <1>1, <1>2, RetHolds, PTL DEF StorageSpec

(* Whatever a rotation takes from the current sprint, by age or for want   *)
(* of room, is not younger than what it leaves.                            *)
THEOREM OldestLeaveFirstCorrect == StorageSpec => OldestLeaveFirst
<1>1. StorageInit => RetInv
  BY RetInit DEF StorageInit
<1>2. RetInv /\ [StorageNext]_allVars => RetInv' /\ OldestFirst
  <2>1. SUFFICES ASSUME RetInv, [StorageNext]_allVars PROVE RetInv' /\ OldestFirst
    OBVIOUS
  <2>2. R!Next \/ UNCHANGED storeVars
    BY <2>1 DEF StorageNext, allVars
  <2> QED BY <2>1, <2>2, RetStep, RetRests DEF storeVars
<1>3. OldestFirst =>
      [\A t \in R!TerminalIn(files["current"]) : files'["current"][t] = Absent =>
         \A u \in R!TerminalIn(files'["current"]) :
           R!ArchiveStamp(files["current"][t]) <= R!ArchiveStamp(files'["current"][u])]_files
  BY DEF OldestFirst, Here
<1> QED BY <1>1, <1>2, <1>3, PTL DEF StorageSpec, OldestLeaveFirst, R!OldestLeaveFirst

-----------------------------------------------------------------------------
(* Audits of the mirror.  What an audit parsed is what the file holds, if  *)
(* the file did not change since it began.                                 *)
Auditing == {"compare", "astat", "aheal"}
RegIs(r) == r = [at |-> r.at, keyed |-> r.keyed, data |-> r.data, seen |-> r.seen, since |-> r.since]
Parsed(phase, r) ==
  /\ phase \in Auditing => r.since \in Nat /\ r.since <= mtime /\ (r.since = mtime => r.data = content[mtime])
  /\ phase = "aheal" /\ r.since = mtime => r.at = mtime
AuditInv ==
  /\ mtime \in Nat /\ fpc = [p \in Procs |-> fpc[p]] /\ reg = [p \in Procs |-> reg[p]]
  /\ \A p \in Procs : RegIs(reg[p]) /\ Parsed(fpc[p], reg[p])
Repairs(p) == \/ fpc[p] = "compare"
              \/ fpc[p] = "aheal" /\ mirror' # mirror
RepairsAll == \A p \in Procs : Repairs(p) /\ fpc'[p] = "idle" /\ reg[p].since = mtime => A!MirrorTruthful'

LEMMA AuditInit == ASSUME A!Init PROVE AuditInv
BY DEF A!Init, A!NoReg, AuditInv, RegIs, Parsed, Auditing

(* One process goes on.                                                    *)
LEMMA AuditGoes ==
  ASSUME AuditInv, NEW p \in Procs, NEW to, NEW r, RegIs(r), Parsed(to, r),
         mtime' = mtime, content' = content,
         fpc' = [fpc EXCEPT ![p] = to], reg' = [reg EXCEPT ![p] = r]
  PROVE  /\ AuditInv' /\ \A q \in Procs : q # p => fpc'[q] = fpc[q]
         /\ fpc'[p] = to
<1>1. /\ fpc' = [q \in Procs |-> IF q = p THEN to ELSE fpc[q]]
      /\ reg' = [q \in Procs |-> IF q = p THEN r ELSE reg[q]]
  BY DEF AuditInv
<1>2. ASSUME NEW q \in Procs PROVE RegIs(reg'[q]) /\ Parsed(fpc'[q], reg'[q])
  BY <1>1 DEF AuditInv
<1>3. ASSUME NEW q \in Procs PROVE (RegIs(reg[q]) /\ Parsed(fpc[q], reg[q]))'
  BY <1>2 DEF RegIs, Parsed
<1> QED BY <1>1, <1>3 DEF AuditInv

LEMMA RegOf == ASSUME AuditInv, NEW p \in Procs PROVE RegIs(reg[p]) /\ Parsed(fpc[p], reg[p])
BY DEF AuditInv

LEMMA NoRegIs == RegIs(A!NoReg)
BY DEF RegIs, A!NoReg

(* The file is replaced: no audit under way saw the new one.               *)
LEMMA AuditOvertaken ==
  ASSUME AuditInv, mtime' = mtime + 1, fpc' = [q \in Procs |-> fpc'[q]], reg' = [q \in Procs |-> reg'[q]],
         \A q \in Procs : \/ fpc'[q] = fpc[q] /\ reg'[q] = reg[q]
                          \/ fpc'[q] \notin Auditing /\ RegIs(reg'[q])
  PROVE  AuditInv'
<1>1. mtime \in Nat /\ mtime' \in Nat /\ \A n \in Nat : n <= mtime => n # mtime' /\ n <= mtime'
  BY DEF AuditInv
<1>2. ASSUME NEW q \in Procs PROVE (RegIs(reg[q]) /\ Parsed(fpc[q], reg[q]))'
  <2>1. PICK x, r : x = fpc'[q] /\ r = reg'[q]
    OBVIOUS
  <2>2. RegIs(r) /\ (x \in Auditing => r.since \in Nat /\ r.since <= mtime)
    BY <1>2, <2>1, RegOf DEF Parsed
  <2>3. Parsed(x, r)'
    BY <1>1, <2>2 DEF Parsed, Auditing
  <2> QED BY <2>1, <2>2, <2>3 DEF RegIs, Parsed
<1> QED BY <1>1, <1>2 DEF AuditInv

LEMMA StepOut ==
  ASSUME AuditInv, NEW p \in Procs, fpc[p] \notin Auditing, fpc'[p] \notin {"astat", "aheal"},
         \A q \in Procs : q # p => fpc'[q] = fpc[q]
  PROVE  RepairsAll
<1>1. ASSUME NEW q \in Procs, Repairs(q), fpc'[q] = "idle" PROVE FALSE
  BY <1>1 DEF Repairs, Auditing
<1> QED BY <1>1 DEF RepairsAll

(* Reads and writes.                                                       *)
LEMMA AccessStep ==
  ASSUME AuditInv, NEW p \in Procs, A!Access(p)
  PROVE  AuditInv' /\ RepairsAll
<1>1. PICK r : r = reg[p]
  OBVIOUS
<1>2. RegIs(r)
  BY <1>1, RegOf
<1>3. ASSUME NEW to, to \notin Auditing, NEW new, RegIs(new), mtime' = mtime, content' = content,
             fpc' = [fpc EXCEPT ![p] = to], reg' = [reg EXCEPT ![p] = new], fpc[p] \notin Auditing
      PROVE  AuditInv' /\ RepairsAll
  <2>1. Parsed(to, new)
    BY <1>3 DEF Parsed, Auditing
  <2>2. /\ AuditInv' /\ \A q \in Procs : q # p => fpc'[q] = fpc[q]
        /\ fpc'[p] = to
    BY <1>3, <2>1, AuditGoes
  <2>3. fpc'[p] \notin {"astat", "aheal"}
    BY <1>3, <2>2 DEF Auditing
  <2> QED BY <1>3, <2>2, <2>3, StepOut
<1>4. \A d : RegIs([r EXCEPT !.data = d]) /\ RegIs([r EXCEPT !.at = d])
  BY <1>2 DEF RegIs
<1>5. reg = [reg EXCEPT ![p] = r]
  BY <1>1 DEF AuditInv
<1>6. CASE A!BeginRead(p)
  <2>1. PICK i : i = A!NoReg
    OBVIOUS
  <2>2. PICK b : b = [i EXCEPT !.keyed = mtime, !.seen = completed, !.since = mtime]
    OBVIOUS
  <2>3. RegIs(b) /\ \A d : RegIs([b EXCEPT !.data = d])
    <3>1. RegIs(i)
      BY <2>1, NoRegIs
    <3>2. RegIs(b)
      BY <2>2, <3>1 DEF RegIs
    <3> QED BY <3>2 DEF RegIs
  <2>6. PICK to : to = IF entries[p] # Absent /\ entries[p].stamp = mtime THEN "served" ELSE "stat"
    OBVIOUS
  <2>7. PICK new : new = IF entries[p] # Absent /\ entries[p].stamp = mtime
                         THEN [b EXCEPT !.data = entries[p].data] ELSE b
    OBVIOUS
  <2>4. /\ to \in {"served", "stat"}
        /\ fpc[p] = "idle" /\ fpc' = [fpc EXCEPT ![p] = to] /\ reg' = [reg EXCEPT ![p] = new]
    BY <1>6, <2>1, <2>2, <2>6, <2>7 DEF A!BeginRead, A!Goto
  <2>5. RegIs(new) /\ mtime' = mtime /\ content' = content
    BY <1>6, <2>3, <2>7 DEF A!BeginRead, A!fileVars
  <2> QED BY <1>3, <2>4, <2>5 DEF Auditing
<1>11. CASE A!Parse(p)
  <2>1. PICK d : d = content[mtime]
    OBVIOUS
  <2>2. PICK new : new = [r EXCEPT !.data = d]
    OBVIOUS
  <2>3. /\ fpc[p] = "parse" /\ fpc' = [fpc EXCEPT ![p] = "recheck"]
        /\ reg' = [reg EXCEPT ![p] = new] /\ mtime' = mtime /\ content' = content
    BY <1>1, <1>11, <2>1, <2>2 DEF A!Parse, A!Got, A!Goto, A!fileVars
  <2>4. RegIs(new)
    BY <1>4, <2>2
  <2> QED BY <1>3, <2>3, <2>4 DEF Auditing
<1>7. CASE A!BeginWrite(p) \/ A!FastStat(p) \/ A!Restat(p)
  <2>1. PICK to, new, d :
          /\ to \in {"stat", "mirror", "recheck", "save"}
          /\ fpc[p] \in {"idle", "stat", "parse", "restat"}
          /\ fpc' = [fpc EXCEPT ![p] = to] /\ reg' = [reg EXCEPT ![p] = new]
          /\ \/ new = r
             \/ new = [r EXCEPT !.data = d]
             \/ new = [r EXCEPT !.at = d]
          /\ mtime' = mtime /\ content' = content
    <3>1. CASE A!BeginWrite(p)
      BY <1>1, <1>5, <3>1 DEF A!BeginWrite, A!Goto, A!fileVars
    <3>2. CASE A!FastStat(p) \/ A!Restat(p)
      BY <1>1, <3>2 DEF A!FastStat, A!Restat, A!Stat, A!Goto, A!fileVars
    <3> QED BY <1>7, <3>1, <3>2
  <2> QED BY <1>2, <1>3, <1>4, <2>1 DEF Auditing
<1>8. CASE A!ReadMirror(p) \/ A!Recheck(p) \/ A!Heal(p) \/ A!SaveMirror(p)
  <2>1. PICK to, new, d :
          /\ to \in {"replace", "served", "parse", "heal", "unlock"}
          /\ fpc[p] \in {"mirror", "recheck", "heal", "save"}
          /\ fpc' = [fpc EXCEPT ![p] = to] /\ reg' = [reg EXCEPT ![p] = new]
          /\ \/ new = r
             \/ new = [r EXCEPT !.data = d]
          /\ mtime' = mtime /\ content' = content
    <3>1. CASE A!ReadMirror(p)
      BY <1>1, <1>5, <3>1 DEF A!ReadMirror, A!Return, A!Got, A!Goto, A!fileVars
    <3>2. CASE A!Recheck(p) \/ A!Heal(p) \/ A!SaveMirror(p)
      BY <1>1, <1>5, <3>2 DEF A!Recheck, A!Heal, A!SaveMirror, A!Return, A!Goto, A!fileVars
    <3> QED BY <1>8, <3>1, <3>2
  <2> QED BY <1>2, <1>3, <1>4, <2>1 DEF Auditing
<1>9. CASE A!Served(p) \/ A!Unlock(p)
  <2>1. /\ fpc[p] \in {"served", "unlock"} /\ fpc' = [fpc EXCEPT ![p] = "idle"]
        /\ reg' = [reg EXCEPT ![p] = A!NoReg] /\ mtime' = mtime /\ content' = content
    BY <1>9 DEF A!Served, A!Unlock, A!Done, A!Goto, A!fileVars
  <2> QED BY <1>3, <2>1, NoRegIs DEF Auditing
<1>10. CASE A!Replace(p)
  <2>1. PICK d : /\ fpc[p] = "replace" /\ fpc' = [fpc EXCEPT ![p] = "restat"]
                 /\ reg' = [reg EXCEPT ![p] = [r EXCEPT !.data = d]] /\ mtime' = mtime + 1
    BY <1>1, <1>10 DEF A!Replace, A!Got, A!Goto
  <2>2. /\ fpc' = [q \in Procs |-> IF q = p THEN "restat" ELSE fpc[q]]
        /\ reg' = [q \in Procs |-> IF q = p THEN [r EXCEPT !.data = d] ELSE reg[q]]
    BY <2>1 DEF AuditInv
  <2>3. fpc' = [q \in Procs |-> fpc'[q]] /\ reg' = [q \in Procs |-> reg'[q]]
    BY <2>2
  <2>4. \A q \in Procs : \/ fpc'[q] = fpc[q] /\ reg'[q] = reg[q]
                         \/ fpc'[q] \notin Auditing /\ RegIs(reg'[q])
    BY <1>4, <2>2 DEF Auditing
  <2>5. AuditInv'
    BY <2>1, <2>3, <2>4, AuditOvertaken
  <2> QED BY <2>1, <2>2, <2>5, StepOut DEF Auditing
<1> QED BY <1>6, <1>7, <1>8, <1>9, <1>10, <1>11 DEF A!Access

LEMMA AuditStep ==
  ASSUME AuditInv, NEW p \in Procs, A!Audit(p)
  PROVE  AuditInv' /\ RepairsAll
<1>1. PICK r : r = reg[p]
  OBVIOUS
<1>2. RegIs(r) /\ Parsed(fpc[p], r) /\ mtime' = mtime /\ content' = content
  BY <1>1, RegOf DEF A!Audit, A!AuditParse, A!AuditCompare, A!AuditStat, A!AuditHeal, A!fileVars
<1>3. CASE A!AuditParse(p)
  <2>1. PICK i : i = A!NoReg
    OBVIOUS
  <2>2. PICK new : new = [i EXCEPT !.data = content[mtime], !.since = mtime]
    OBVIOUS
  <2>3. /\ fpc[p] = "idle" /\ fpc' = [fpc EXCEPT ![p] = "compare"] /\ reg' = [reg EXCEPT ![p] = new]
    BY <1>3, <2>1, <2>2 DEF A!AuditParse, A!Goto
  <2>4. RegIs(i)
    BY <2>1, NoRegIs
  <2>5. RegIs(new) /\ new.data = content[mtime] /\ new.since = mtime
    BY <2>2, <2>4 DEF RegIs
  <2>6. Parsed("compare", new)
    BY <2>5 DEF Parsed, AuditInv, Auditing
  <2>7. AuditInv' /\ (\A q \in Procs : q # p => fpc'[q] = fpc[q]) /\ fpc'[p] = "compare"
    BY <1>2, <2>3, <2>5, <2>6, AuditGoes
  <2> QED BY <2>3, <2>7, StepOut DEF Auditing
<1>4. CASE A!AuditCompare(p)
  <2>1. fpc[p] = "compare" /\ mirror' = mirror
    BY <1>4 DEF A!AuditCompare, A!Done, A!Goto
  <2>2. CASE mirror = Absent \/ mirror.data = r.data
    <3>1. fpc' = [fpc EXCEPT ![p] = "idle"] /\ reg' = [reg EXCEPT ![p] = A!NoReg]
      BY <1>1, <1>4, <2>2 DEF A!AuditCompare, A!Done, A!Goto
    <3>2. AuditInv' /\ (\A q \in Procs : q # p => fpc'[q] = fpc[q]) /\ fpc'[p] = "idle"
      BY <1>2, <3>1, NoRegIs, AuditGoes DEF Parsed, Auditing
    <3>3. r.since = mtime => A!MirrorTruthful'
      BY <1>2, <2>1, <2>2 DEF Parsed, Auditing, A!MirrorTruthful
    <3>4. ASSUME NEW q \in Procs, Repairs(q), fpc'[q] = "idle" PROVE q = p
      BY <2>1, <3>2, <3>4 DEF Repairs
    <3> QED BY <1>1, <3>2, <3>3, <3>4 DEF RepairsAll
  <2>3. CASE ~(mirror = Absent \/ mirror.data = r.data)
    <3>1. fpc' = [fpc EXCEPT ![p] = "astat"] /\ reg' = [reg EXCEPT ![p] = r]
      BY <1>1, <1>4, <2>3 DEF A!AuditCompare, A!Goto, AuditInv
    <3>2. Parsed("astat", r)
      BY <1>2, <2>1 DEF Parsed, Auditing
    <3>3. AuditInv' /\ (\A q \in Procs : q # p => fpc'[q] = fpc[q]) /\ fpc'[p] = "astat"
      BY <1>2, <3>1, <3>2, AuditGoes
    <3>4. ASSUME NEW q \in Procs, Repairs(q), fpc'[q] = "idle" PROVE FALSE
      BY <2>1, <3>3, <3>4 DEF Repairs
    <3> QED BY <3>3, <3>4 DEF RepairsAll
  <2> QED BY <2>2, <2>3
<1>5. CASE A!AuditStat(p)
  <2>1. PICK new : new = [r EXCEPT !.at = mtime]
    OBVIOUS
  <2>2. /\ fpc[p] = "astat" /\ fpc' = [fpc EXCEPT ![p] = "aheal"] /\ reg' = [reg EXCEPT ![p] = new]
        /\ mirror' = mirror
    BY <1>1, <1>5, <2>1 DEF A!AuditStat, A!Stat, A!Goto
  <2>3. RegIs(new) /\ new.at = mtime /\ new.since = r.since /\ new.data = r.data
    BY <1>2, <2>1 DEF RegIs
  <2>4. Parsed("aheal", new)
    BY <1>2, <2>2, <2>3 DEF Parsed, Auditing
  <2>5. AuditInv' /\ (\A q \in Procs : q # p => fpc'[q] = fpc[q]) /\ fpc'[p] = "aheal"
    BY <1>2, <2>2, <2>3, <2>4, AuditGoes
  <2>6. ASSUME NEW q \in Procs, Repairs(q), fpc'[q] = "idle" PROVE FALSE
    BY <2>2, <2>5, <2>6 DEF Repairs
  <2> QED BY <2>5, <2>6 DEF RepairsAll
<1>6. CASE A!AuditHeal(p)
  <2>1. /\ fpc[p] = "aheal" /\ fpc' = [fpc EXCEPT ![p] = "idle"] /\ reg' = [reg EXCEPT ![p] = A!NoReg]
        /\ mirror' \in {mirror, [stamp |-> r.at, data |-> r.data]}
    BY <1>1, <1>6 DEF A!AuditHeal, A!TryMirror, A!Done, A!Goto
  <2>2. AuditInv' /\ (\A q \in Procs : q # p => fpc'[q] = fpc[q]) /\ fpc'[p] = "idle"
    BY <1>2, <2>1, NoRegIs, AuditGoes DEF Parsed, Auditing
  <2>3. r.since = mtime /\ mirror' # mirror => A!MirrorTruthful'
    BY <1>2, <2>1 DEF Parsed, Auditing, A!MirrorTruthful
  <2>4. ASSUME NEW q \in Procs, q # p, fpc[q] \in {"compare", "aheal"} PROVE fpc'[q] # "idle"
    BY <2>2, <2>4
  <2>5. ASSUME NEW q \in Procs, Repairs(q), fpc'[q] = "idle" PROVE q = p /\ mirror' # mirror
    BY <2>1, <2>4, <2>5 DEF Repairs
  <2> QED BY <1>1, <2>2, <2>3, <2>5 DEF RepairsAll
<1> QED BY <1>3, <1>4, <1>5, <1>6 DEF A!Audit

LEMMA AuditRests == ASSUME AuditInv, UNCHANGED <<mtime, content, fpc, reg>> PROVE AuditInv' /\ RepairsAll
<1>1. AuditInv'
  BY DEF AuditInv, RegIs, Parsed
<1>2. ASSUME NEW q \in Procs, Repairs(q), fpc'[q] = "idle" PROVE FALSE
  BY <1>2 DEF Repairs
<1> QED BY <1>1, <1>2 DEF RepairsAll

LEMMA MirrorStep == ASSUME AuditInv, A!Next PROVE AuditInv' /\ RepairsAll
<1>1. CASE A!Edit
  <2>1. mtime' = mtime + 1 /\ fpc' = fpc /\ reg' = reg
    BY <1>1 DEF A!Edit
  <2>2. AuditInv'
    BY <2>1, AuditOvertaken DEF AuditInv
  <2>3. ASSUME NEW q \in Procs, Repairs(q), fpc'[q] = "idle" PROVE FALSE
    BY <2>1, <2>3 DEF Repairs
  <2> QED BY <2>2, <2>3 DEF RepairsAll
<1>2. \A p : ~A!Crash(p)
  BY DEF A!Crash
<1> QED BY <1>1, <1>2, AccessStep, AuditStep DEF A!Next

(* An audit that nothing overtakes leaves no mirror that lies, unless it   *)
(* could not write the new one (planfile/core/fastio.py, audit_mirror).    *)
THEOREM AuditRepairsCorrect == StorageSpec => AuditRepairs
<1>1. StorageInit => AuditInv
  BY AuditInit DEF StorageInit
<1>2. AuditInv /\ [StorageNext]_allVars => AuditInv' /\ RepairsAll
  <2>1. SUFFICES ASSUME AuditInv, [StorageNext]_allVars PROVE AuditInv' /\ RepairsAll
    OBVIOUS
  <2>2. A!Next \/ UNCHANGED mirrorVars
    BY <2>1 DEF StorageNext, allVars
  <2> QED BY <2>1, <2>2, MirrorStep, AuditRests DEF mirrorVars
<1>3. RepairsAll =>
        [\A p \in Procs :
           /\ fpc[p] = "compare" \/ (fpc[p] = "aheal" /\ mirror' # mirror)
           /\ fpc'[p] = "idle"
           /\ reg[p].since = mtime
           => A!MirrorTruthful']_A!vars
  BY DEF RepairsAll, Repairs
<1> QED BY <1>1, <1>2, <1>3, PTL DEF StorageSpec, AuditRepairs, A!AuditRepairs
=============================================================================
