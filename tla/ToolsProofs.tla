----------------------------- MODULE ToolsProofs -----------------------------
(***************************************************************************)
(* Proofs about what works beside the store.  Of FastIO: for every set of  *)
(* processes and every number of replacements of the file.  Of             *)
(* Decomposition: for every number of callers, tickets, calls, subtasks    *)
(* and interventions.  Of CILoop and FailureTickets: for every set of      *)
(* failures and runs, and every number of iterations, edits and changes of *)
(* tickets.                                                                *)
(***************************************************************************)
EXTENDS MCTools, Sequences, FiniteSetTheorems, WellFoundedInduction, TLAPS

LEMMA MtimeFacts == 0 \in Mtimes /\ \A m \in Mtimes : m < MaxMtime => m + 1 \in Mtimes
BY BoundAssumption DEF Mtimes

LEMMA NoRegType == NoReg \in Regs
BY MtimeFacts DEF NoReg, Regs, Data

(* An operation that ends, and a step within it, keep the registers typed. *)
LEMMA GotoType ==
  ASSUME TypeOK, NEW p \in Procs, NEW from, NEW to \in Phases, Goto(p, from, to)
  PROVE  pc' \in [Procs -> Phases]
BY DEF TypeOK, Goto

LEMMA TypeInit == Init => TypeOK
BY MtimeFacts, NoRegType DEF Init, TypeOK, Data, Phases

LEMMA TypeStep == TypeOK /\ [Next]_vars => TypeOK'
<1> SUFFICES ASSUME TypeOK, [Next]_vars PROVE TypeOK'
  OBVIOUS
<1> USE MtimeFacts, NoRegType DEF fileVars
<1>1. CASE Edit
  BY <1>1 DEF Edit, TypeOK, Data
<1>2. ASSUME NEW p \in Procs, BeginRead(p) PROVE TypeOK'
  <2>1. pc' \in [Procs -> Phases]
    BY <1>2 DEF BeginRead, Goto, TypeOK, Phases
  <2>2. cache[p] # Absent => cache[p].data \in Data
    BY DEF TypeOK, Pairs
  <2>3. reg' \in [Procs -> Regs]
    BY <1>2, <2>2 DEF BeginRead, TypeOK, Regs, NoReg
  <2> QED BY <1>2, <2>1, <2>3 DEF BeginRead, TypeOK
<1>3. ASSUME NEW p \in Procs, BeginWrite(p) PROVE TypeOK'
  BY <1>3 DEF BeginWrite, Goto, TypeOK, Phases
<1>4. ASSUME NEW p \in Procs, FastStat(p) PROVE TypeOK'
  BY <1>4 DEF FastStat, Stat, Goto, TypeOK, Phases, Regs
<1>5. ASSUME NEW p \in Procs, NEW from, NEW d \in Data, Return(p, from, d)
      PROVE  pc' \in [Procs -> Phases] /\ cache' \in [Procs -> Pairs \cup {Absent}]
  BY <1>5 DEF Return, Goto, TypeOK, Phases, Pairs, Regs
<1>6. ASSUME NEW p \in Procs, ReadMirror(p) PROVE TypeOK'
  <2>1. CASE mirror # Absent /\ mirror.stamp = reg[p].at
    <3>1. mirror.data \in Data
      BY <2>1 DEF TypeOK, Pairs
    <3>2. reg' \in [Procs -> Regs]
      BY <1>6, <2>1, <3>1 DEF ReadMirror, Got, TypeOK, Regs
    <3> QED BY <1>5, <1>6, <2>1, <3>1, <3>2 DEF ReadMirror, TypeOK
  <2>2. CASE ~ (mirror # Absent /\ mirror.stamp = reg[p].at)
    BY <1>6, <2>2 DEF ReadMirror, Goto, TypeOK, Phases
  <2> QED BY <2>1, <2>2
<1>7. ASSUME NEW p \in Procs, Parse(p) PROVE TypeOK'
  BY <1>7 DEF Parse, Got, Goto, TypeOK, Phases, Regs
<1>8. ASSUME NEW p \in Procs, Recheck(p) PROVE TypeOK'
  <2>1. reg[p].data \in Data
    BY DEF TypeOK, Regs
  <2>2. CASE mtime = reg[p].at
    BY <1>8, <2>2 DEF Recheck, Goto, TypeOK, Phases
  <2>3. CASE mtime # reg[p].at
    BY <1>5, <1>8, <2>1, <2>3 DEF Recheck, TypeOK
  <2> QED BY <2>2, <2>3
<1>9. ASSUME NEW p \in Procs, TryMirror(p) PROVE mirror' \in Pairs \cup {Absent}
  BY <1>9 DEF TryMirror, TypeOK, Regs, Pairs
<1>10. ASSUME NEW p \in Procs, Heal(p) PROVE TypeOK'
  <2>1. reg[p].data \in Data
    BY DEF TypeOK, Regs
  <2> QED BY <1>5, <1>9, <1>10, <2>1 DEF Heal, TypeOK
<1>11. ASSUME NEW p \in Procs, NEW from, Done(p, from)
       PROVE  pc' \in [Procs -> Phases] /\ reg' \in [Procs -> Regs]
  BY <1>11 DEF Done, Goto, TypeOK, Phases
<1>12. ASSUME NEW p \in Procs, Served(p) PROVE TypeOK'
  BY <1>11, <1>12 DEF Served, TypeOK
<1>13. ASSUME NEW p \in Procs, Replace(p) PROVE TypeOK'
  <2>1. reg[p].data \cup {mtime + 1} \in Data
    BY <1>13 DEF Replace, TypeOK, Regs, Data
  <2> QED BY <1>13, <2>1 DEF Replace, Got, Goto, TypeOK, Phases, Regs
<1>14. ASSUME NEW p \in Procs, Restat(p) PROVE TypeOK'
  BY <1>14 DEF Restat, Stat, Goto, TypeOK, Phases, Regs
<1>15. ASSUME NEW p \in Procs, SaveMirror(p) PROVE TypeOK'
  BY <1>9, <1>15 DEF SaveMirror, Goto, TypeOK, Phases
<1>16. ASSUME NEW p \in Procs, Unlock(p) PROVE TypeOK'
  BY <1>11, <1>16 DEF Unlock, TypeOK, Regs, Data
<1>17. ASSUME NEW p \in Procs, AuditParse(p) PROVE TypeOK'
  BY <1>17 DEF AuditParse, Goto, TypeOK, Phases, Regs, NoReg
<1>18. ASSUME NEW p \in Procs, AuditCompare(p) PROVE TypeOK'
  BY <1>11, <1>18 DEF AuditCompare, Goto, TypeOK, Phases
<1>19. ASSUME NEW p \in Procs, AuditStat(p) PROVE TypeOK'
  BY <1>19 DEF AuditStat, Stat, Goto, TypeOK, Phases, Regs
<1>20. ASSUME NEW p \in Procs, AuditHeal(p) PROVE TypeOK'
  BY <1>9, <1>11, <1>20 DEF AuditHeal, TypeOK
<1>21. ASSUME NEW p \in Procs, Crash(p) PROVE TypeOK'
  BY <1>11, <1>21 DEF Crash, TypeOK
<1>22. CASE UNCHANGED vars
  BY <1>22 DEF vars, TypeOK
<1> QED BY <1>1, <1>2, <1>3, <1>4, <1>6, <1>7, <1>8, <1>10, <1>12, <1>13, <1>14, <1>15,
           <1>16, <1>17, <1>18, <1>19, <1>20, <1>21, <1>22
       DEF Next, Access, Audit

(* Every state is well-typed, audits and edits by hand included.           *)
THEOREM TypeCorrect == Spec => []TypeOK
BY TypeInit, TypeStep, PTL DEF Spec

-----------------------------------------------------------------------------
(* From here on nobody edits the file by hand and no audit runs.           *)

(* A step of p that leaves the file as it is keeps the invariant if p,     *)
(* the mirror and the caches are sound after it.                           *)
LEMMA SameFile ==
  ASSUME IInv, TypeOK', LockOwned', StoredSound', NEW p \in Procs, InHand(p)',
         pc'[p] \notin {"compare", "astat", "aheal"},
         \A q \in Procs \ {p} : pc'[q] = pc[q] /\ reg'[q] = reg[q],
         UNCHANGED <<mtime, content>>, NothingLost'
  PROVE  IInv'
<1>1. ASSUME NEW q \in Procs PROVE InHand(q)'
  <2>1. CASE q = p BY <2>1
  <2>2. CASE q # p BY <2>2 DEF IInv, InHand, Version, Exactly
  <2> QED BY <2>1, <2>2
<1>2. Grows'
  BY DEF IInv, Grows
<1>3. \A q \in Procs : pc'[q] \notin {"compare", "astat", "aheal"}
  BY DEF IInv
<1> QED BY <1>1, <1>2, <1>3 DEF IInv

(* What is stored stays sound when the file and what is stored do not      *)
(* change.                                                                 *)
LEMMA SameStored ==
  ASSUME StoredSound, UNCHANGED <<mtime, content, mirror>>, NEW p \in Procs,
         \A q \in Procs \ {p} : cache'[q] = cache[q],
         cache'[p] # Absent => Version(cache'[p].stamp, cache'[p].data)
  PROVE  StoredSound'
<1>1. ASSUME NEW q \in Procs, cache'[q] # Absent
      PROVE  Version(cache[q].stamp, cache[q].data)'
  <2>1. CASE q = p BY <1>1, <2>1 DEF Version
  <2>2. CASE q # p BY <1>1, <2>2 DEF StoredSound, Version
  <2> QED BY <2>1, <2>2
<1> QED BY <1>1 DEF StoredSound, Exactly

LEMMA SameMirror ==
  ASSUME StoredSound, TypeOK, UNCHANGED <<mtime, content>>, NEW p \in Procs,
         TryMirror(p), Exactly(reg[p].at, reg[p].data)
  PROVE  mirror' # Absent => Exactly(mirror.stamp, mirror.data)'
BY DEF StoredSound, Exactly, TryMirror

(* Moving on inside an operation, or leaving it, keeps the lock owned.     *)
LEMMA SameLock ==
  ASSUME TypeOK, LockOwned, NEW p \in Procs, UNCHANGED <<mtime, lock>>,
         \A q \in Procs \ {p} : pc'[q] = pc[q] /\ reg'[q] = reg[q],
         pc'[p] \in Writing => lock = p,
         lock = p => pc'[p] \in {"stat"} \cup Reading \cup Writing,
         lock = p /\ pc'[p] \in Reading => reg'[p].at = mtime
  PROVE  LockOwned'
BY DEF LockOwned

(* A read that returns hands a version of the file to the mutation that    *)
(* made it, or to the reader and its cache.                                *)
LEMMA ReturnInv ==
  ASSUME IInv, TypeOK', NEW p \in Procs, NEW from \in Reading, NEW d, Return(p, from, d),
         Version(reg[p].keyed, d), lock = p => Exactly(mtime, d),
         reg'[p].data = d, reg'[p].keyed = reg[p].keyed, reg'[p].seen = reg[p].seen,
         \A q \in Procs \ {p} : reg'[q] = reg[q],
         UNCHANGED <<mtime, content, lock, acked>>,
         mirror' # Absent => Exactly(mirror.stamp, mirror.data)'
  PROVE  IInv'
<1>1. /\ pc'[p] = IF lock = p THEN "replace" ELSE "served"
      /\ \A q \in Procs \ {p} : pc'[q] = pc[q] /\ cache'[q] = cache[q]
      /\ cache'[p] = IF lock = p THEN cache[p] ELSE [stamp |-> reg[p].keyed, data |-> d]
  BY DEF Return, Goto, IInv, TypeOK
<1>2. LockOwned'
  BY <1>1, SameLock DEF IInv, Writing, Reading
<1>3. StoredSound'
  <2>1. ASSUME NEW q \in Procs, cache'[q] # Absent
        PROVE  Version(cache[q].stamp, cache[q].data)'
    BY <1>1, <2>1 DEF IInv, StoredSound, Version
  <2> QED BY <2>1 DEF StoredSound
<1>4. InHand(p)'
  BY <1>1 DEF IInv, InHand, Version, Exactly, Reading, Writing
<1>5. NothingLost'
  BY DEF IInv, NothingLost
<1> QED BY <1>1, <1>2, <1>3, <1>4, <1>5, SameFile

LEMMA BeginReadInv ==
  ASSUME IInv, TypeOK', NEW p \in Procs, BeginRead(p)
  PROVE  IInv'
<1> DEFINE hit == cache[p] # Absent /\ cache[p].stamp = mtime
<1>1. /\ UNCHANGED <<mtime, content, mirror, cache, lock, acked>>
      /\ pc[p] = "idle" /\ pc'[p] = IF hit THEN "served" ELSE "stat"
      /\ reg'[p].keyed = mtime /\ reg'[p].seen = acked
      /\ hit => reg'[p].data = cache[p].data
      /\ \A q \in Procs \ {p} : pc'[q] = pc[q] /\ reg'[q] = reg[q]
  BY DEF BeginRead, Goto, IInv, TypeOK, NoReg, fileVars
<1>2. LockOwned'
  BY <1>1, SameLock DEF IInv, LockOwned, Writing, Reading
<1>3. StoredSound'
  BY <1>1, SameStored DEF IInv, StoredSound
<1>4. hit => Version(mtime, cache[p].data)
  BY DEF IInv, StoredSound
<1>5. InHand(p)'
  <2>1. mtime \in Nat
    BY BoundAssumption DEF IInv, TypeOK, Mtimes
  <2> QED BY <1>1, <1>4, <2>1
          DEF IInv, NothingLost, InHand, Version, Reading, Writing
<1> QED BY <1>1, <1>2, <1>3, <1>5, SameFile DEF IInv, NothingLost

LEMMA BeginWriteInv ==
  ASSUME IInv, TypeOK', NEW p \in Procs, BeginWrite(p)
  PROVE  IInv'
<1>1. /\ UNCHANGED <<mtime, content, mirror, cache, reg, acked>>
      /\ pc[p] = "idle" /\ pc'[p] = "stat" /\ lock = NoProc /\ lock' = p
      /\ \A q \in Procs \ {p} : pc'[q] = pc[q]
  BY DEF BeginWrite, Goto, IInv, TypeOK, fileVars
<1>2. LockOwned'
  BY <1>1, ProcsAssumption DEF IInv, LockOwned, Writing, Reading
<1>3. StoredSound'
  BY <1>1, SameStored DEF IInv, StoredSound
<1>4. InHand(p)'
  BY <1>1 DEF IInv, InHand, Reading, Writing
<1> QED BY <1>1, <1>2, <1>3, <1>4, SameFile DEF IInv, NothingLost

LEMMA FastStatInv ==
  ASSUME IInv, TypeOK', NEW p \in Procs, FastStat(p)
  PROVE  IInv'
<1>1. /\ UNCHANGED <<mtime, content, mirror, cache, lock, acked>>
      /\ pc[p] = "stat" /\ pc'[p] = "mirror"
      /\ reg'[p].at = mtime /\ reg'[p].keyed = reg[p].keyed /\ reg'[p].seen = reg[p].seen
      /\ \A q \in Procs \ {p} : pc'[q] = pc[q] /\ reg'[q] = reg[q]
  BY DEF FastStat, Stat, Goto, IInv, TypeOK, Regs, fileVars
<1>2. LockOwned'
  BY <1>1, SameLock DEF IInv, Writing, Reading
<1>3. StoredSound'
  BY <1>1, SameStored DEF IInv, StoredSound
<1>4. InHand(p)'
  <2>1. mtime \in Nat
    BY BoundAssumption DEF IInv, TypeOK, Mtimes
  <2> QED BY <1>1, <2>1 DEF IInv, InHand, Reading, Writing
<1> QED BY <1>1, <1>2, <1>3, <1>4, SameFile DEF IInv, NothingLost

LEMMA ReadMirrorInv ==
  ASSUME IInv, TypeOK', NEW p \in Procs, ReadMirror(p)
  PROVE  IInv'
<1>1. /\ UNCHANGED <<mtime, content, mirror, lock, acked>>
      /\ pc[p] = "mirror" /\ InHand(p) /\ mtime \in Nat
      /\ reg[p].keyed <= reg[p].at /\ reg[p].at <= mtime
      /\ reg[p].at \in Mtimes
      /\ lock = p => reg[p].at = mtime
  BY BoundAssumption DEF ReadMirror, Return, Goto, IInv, InHand, LockOwned, Reading, TypeOK, Regs,
     Mtimes, fileVars
<1>2. CASE mirror # Absent /\ mirror.stamp = reg[p].at
  <2> DEFINE d == mirror.data
  <2>1. Exactly(reg[p].at, d)
    BY <1>2 DEF IInv, StoredSound
  <2>2. Version(reg[p].keyed, d) /\ (lock = p => Exactly(mtime, d))
    BY <1>1, <2>1 DEF Version, Exactly
  <2>3. /\ Return(p, "mirror", d)
        /\ reg'[p].data = d /\ reg'[p].keyed = reg[p].keyed /\ reg'[p].seen = reg[p].seen
        /\ \A q \in Procs \ {p} : reg'[q] = reg[q]
    BY <1>2 DEF ReadMirror, Got, IInv, TypeOK, Regs
  <2>4. mirror' # Absent => Exactly(mirror.stamp, mirror.data)'
    BY <1>1 DEF IInv, StoredSound, Exactly
  <2> HIDE DEF d
  <2> QED BY <1>1, <2>2, <2>3, <2>4, ReturnInv DEF Reading
<1>3. CASE ~ (mirror # Absent /\ mirror.stamp = reg[p].at)
  <2>1. /\ UNCHANGED <<cache, reg>> /\ pc'[p] = "parse"
        /\ \A q \in Procs \ {p} : pc'[q] = pc[q]
    BY <1>3 DEF ReadMirror, Goto, IInv, TypeOK
  <2>2. LockOwned'
    BY <1>1, <2>1, SameLock DEF IInv, Writing, Reading
  <2>3. StoredSound'
    BY <1>1, <2>1, SameStored DEF IInv, StoredSound
  <2>4. InHand(p)'
    BY <1>1, <2>1 DEF InHand, Reading, Writing
  <2> QED BY <1>1, <2>1, <2>2, <2>3, <2>4, SameFile DEF IInv, NothingLost
<1> QED BY <1>2, <1>3

LEMMA ParseInv ==
  ASSUME IInv, TypeOK', NEW p \in Procs, Parse(p)
  PROVE  IInv'
<1>1. /\ UNCHANGED <<mtime, content, mirror, cache, lock, acked>>
      /\ pc[p] = "parse" /\ pc'[p] = "recheck"
      /\ reg'[p].at = reg[p].at /\ reg'[p].keyed = reg[p].keyed
      /\ reg'[p].seen = reg[p].seen /\ reg'[p].data = content[mtime]
      /\ \A q \in Procs \ {p} : pc'[q] = pc[q] /\ reg'[q] = reg[q]
  BY DEF Parse, Got, Goto, IInv, TypeOK, Regs, fileVars
<1>2. LockOwned'
  BY <1>1, SameLock DEF IInv, LockOwned, Writing, Reading
<1>3. StoredSound'
  BY <1>1, SameStored DEF IInv, StoredSound
<1>4. InHand(p)'
  <2>1. mtime \in Nat /\ mtime \in Mtimes
    BY BoundAssumption DEF IInv, TypeOK, Mtimes
  <2> QED BY <1>1, <2>1 DEF IInv, InHand, Version, Reading, Writing
<1> QED BY <1>1, <1>2, <1>3, <1>4, SameFile DEF IInv, NothingLost

LEMMA RecheckInv ==
  ASSUME IInv, TypeOK', NEW p \in Procs, Recheck(p)
  PROVE  IInv'
<1>1. /\ UNCHANGED <<mtime, content, mirror, lock, reg, acked>>
      /\ pc[p] = "recheck" /\ InHand(p)
      /\ mtime \in Nat /\ reg[p].at \in Nat /\ reg[p].keyed \in Nat
      /\ reg[p].keyed <= reg[p].at /\ Version(reg[p].at, reg[p].data)
      /\ lock = p => reg[p].at = mtime
  BY BoundAssumption DEF Recheck, Return, Goto, IInv, InHand, LockOwned, Reading, TypeOK, Regs,
     Mtimes, fileVars
<1>2. CASE mtime = reg[p].at
  <2>1. /\ UNCHANGED cache /\ pc'[p] = "heal"
        /\ \A q \in Procs \ {p} : pc'[q] = pc[q]
    BY <1>2 DEF Recheck, Goto, IInv, TypeOK
  <2>2. LockOwned'
    BY <1>1, <2>1, SameLock DEF IInv, Writing, Reading
  <2>3. StoredSound'
    BY <1>1, <2>1, SameStored DEF IInv, StoredSound
  <2>4. Exactly(reg[p].at, reg[p].data)
    BY <1>1, <1>2 DEF Version, Exactly, Mtimes
  <2>5. InHand(p)'
    BY <1>1, <2>1, <2>4 DEF InHand, Exactly, Reading, Writing
  <2> QED BY <1>1, <2>1, <2>2, <2>3, <2>5, SameFile DEF IInv, NothingLost
<1>3. CASE mtime # reg[p].at
  <2>1. Return(p, "recheck", reg[p].data)
    BY <1>3 DEF Recheck
  <2>2. Version(reg[p].keyed, reg[p].data) /\ lock # p
    BY <1>1, <1>3 DEF Version, Mtimes
  <2>3. mirror' # Absent => Exactly(mirror.stamp, mirror.data)'
    BY <1>1 DEF IInv, StoredSound, Exactly
  <2> QED BY <1>1, <2>1, <2>2, <2>3, ReturnInv DEF Reading
<1> QED BY <1>2, <1>3

LEMMA HealInv ==
  ASSUME IInv, TypeOK', NEW p \in Procs, Heal(p)
  PROVE  IInv'
<1>1. /\ UNCHANGED <<mtime, content, lock, reg, acked>>
      /\ pc[p] = "heal" /\ Return(p, "heal", reg[p].data) /\ TryMirror(p)
      /\ reg[p].keyed <= reg[p].at /\ Exactly(reg[p].at, reg[p].data)
      /\ reg[p].at \in Mtimes
      /\ lock = p => reg[p].at = mtime
  BY DEF Heal, Return, Goto, IInv, InHand, LockOwned, Reading, TypeOK, Regs, fileVars
<1>2. Version(reg[p].keyed, reg[p].data) /\ (lock = p => Exactly(mtime, reg[p].data))
  BY <1>1 DEF Version, Exactly
<1>3. mirror' # Absent => Exactly(mirror.stamp, mirror.data)'
  BY <1>1, SameMirror DEF IInv
<1> QED BY <1>1, <1>2, <1>3, ReturnInv DEF Reading

(* Replacing the file adds a version that contains the ones before it.     *)
(* Nobody else is in the phases that rely on the present mtime.            *)
LEMMA ReplaceInv ==
  ASSUME IInv, TypeOK', NEW p \in Procs, Replace(p)
  PROVE  IInv'
<1>1. /\ UNCHANGED <<mirror, cache, lock, acked>>
      /\ pc[p] = "replace" /\ pc'[p] = "restat" /\ lock = p
      /\ mtime \in Nat /\ mtime + 1 \in Mtimes /\ mtime' = mtime + 1
      /\ reg[p].data = content[mtime]
      /\ reg'[p].data = content[mtime] \cup {mtime + 1}
      /\ reg'[p].keyed = reg[p].keyed /\ reg'[p].seen = reg[p].seen
      /\ \A q \in Procs \ {p} : pc'[q] = pc[q] /\ reg'[q] = reg[q]
  BY BoundAssumption DEF Replace, Got, Goto, IInv, InHand, Exactly, LockOwned, Writing, TypeOK,
     Regs, Mtimes
<1>2. /\ content'[mtime'] = content[mtime] \cup {mtime + 1}
      /\ \A m \in Mtimes : m <= mtime => content'[m] = content[m]
  BY <1>1 DEF Replace, IInv, TypeOK, Mtimes
<1>3. /\ \A lo, d : Version(lo, d) => Version(lo, d)'
      /\ \A m \in Mtimes : \A d : Exactly(m, d) => Exactly(m, d)'
  BY <1>1, <1>2 DEF Version, Exactly, Mtimes
<1>4. LockOwned'
  BY <1>1 DEF IInv, LockOwned, Reading, Writing
<1>5. StoredSound'
  <2>1. mirror # Absent => mirror.stamp \in Mtimes
    BY DEF IInv, TypeOK, Pairs
  <2>2. mirror' # Absent => Exactly(mirror.stamp, mirror.data)'
    BY <1>1, <1>2, <2>1 DEF IInv, StoredSound, Exactly, Mtimes
  <2>3. ASSUME NEW q \in Procs, cache'[q] # Absent
        PROVE  Version(cache[q].stamp, cache[q].data)'
    BY <1>1, <1>2, <2>3 DEF IInv, StoredSound, Version, Mtimes
  <2> QED BY <2>2, <2>3 DEF StoredSound
<1>6. ASSUME NEW q \in Procs PROVE InHand(q)'
  <2>0. /\ reg[q].keyed \in Mtimes /\ reg[q].at \in Mtimes /\ reg[q].keyed <= mtime
        /\ reg[q].seen \subseteq content[reg[q].keyed]
    BY DEF IInv, TypeOK, Regs, InHand
  <2>1. CASE q = p
    <3>1. Exactly(mtime, reg[p].data)'
      BY <1>1, <1>2 DEF Exactly
    <3>2. (reg[p].keyed <= mtime)' /\ (reg[p].seen \subseteq content[reg[p].keyed])'
      BY <1>1, <1>2, <2>0, <2>1 DEF Mtimes
    <3> QED BY <1>1, <2>1, <3>1, <3>2 DEF InHand, Reading, Writing
  <2>2. CASE q # p
    <3>1. pc[q] \notin Writing
      BY <1>1, <2>2 DEF IInv, LockOwned
    <3>2. pc'[q] = pc[q] /\ reg'[q] = reg[q] /\ InHand(q)
      BY <1>1, <2>2 DEF IInv
    <3>3. (reg[q].keyed <= mtime)' /\ (reg[q].seen \subseteq content[reg[q].keyed])'
      BY <1>1, <1>2, <2>0, <3>2 DEF Mtimes
    <3>4. (pc[q] \in Reading => reg[q].keyed <= reg[q].at /\ reg[q].at <= mtime)'
      BY <1>1, <2>0, <3>2 DEF InHand, Mtimes
    <3>5. /\ (pc[q] = "recheck" => Version(reg[q].at, reg[q].data))'
          /\ (pc[q] = "served" => Version(reg[q].keyed, reg[q].data))'
      BY <1>1, <1>2, <3>2 DEF InHand, Version, Mtimes
    <3>6. (pc[q] = "heal" => Exactly(reg[q].at, reg[q].data))'
      BY <1>1, <1>2, <2>0, <3>2 DEF InHand, Exactly, Mtimes
    <3> QED BY <3>1, <3>2, <3>3, <3>4, <3>5, <3>6 DEF InHand, Writing
  <2> QED BY <2>1, <2>2
<1>7. Grows'
  <2> SUFFICES ASSUME NEW m \in Mtimes, NEW n \in Mtimes, m <= n, n <= mtime'
               PROVE  content'[m] \subseteq content'[n]
    BY DEF Grows
  <2>1. CASE n <= mtime
    BY <1>1, <1>2, <2>1 DEF IInv, Grows, Mtimes
  <2>2. CASE n = mtime + 1 /\ m <= mtime
    <3>1. content[m] \subseteq content[mtime]
      BY <2>2 DEF IInv, Grows, TypeOK
    <3> QED BY <1>1, <1>2, <2>2, <3>1
  <2>3. CASE n = mtime + 1 /\ m = n
    BY <2>3
  <2> QED BY <1>1, <2>1, <2>2, <2>3 DEF Mtimes
<1>8. NothingLost'
  BY <1>1, <1>2 DEF IInv, NothingLost
<1> QED BY <1>1, <1>4, <1>5, <1>6, <1>7, <1>8 DEF IInv

LEMMA RestatInv ==
  ASSUME IInv, TypeOK', NEW p \in Procs, Restat(p)
  PROVE  IInv'
<1>1. /\ UNCHANGED <<mtime, content, mirror, cache, lock, acked>>
      /\ pc[p] = "restat" /\ pc'[p] = "save" /\ lock = p
      /\ reg'[p].at = mtime /\ reg'[p].data = reg[p].data
      /\ reg'[p].keyed = reg[p].keyed /\ reg'[p].seen = reg[p].seen
      /\ \A q \in Procs \ {p} : pc'[q] = pc[q] /\ reg'[q] = reg[q]
  BY DEF Restat, Stat, Goto, IInv, LockOwned, Writing, TypeOK, Regs, fileVars
<1>2. LockOwned'
  BY <1>1, SameLock DEF IInv, Writing, Reading
<1>3. StoredSound'
  BY <1>1, SameStored DEF IInv, StoredSound
<1>4. InHand(p)'
  BY <1>1 DEF IInv, InHand, Exactly, Reading, Writing
<1> QED BY <1>1, <1>2, <1>3, <1>4, SameFile DEF IInv, NothingLost

LEMMA SaveMirrorInv ==
  ASSUME IInv, TypeOK', NEW p \in Procs, SaveMirror(p)
  PROVE  IInv'
<1>1. /\ UNCHANGED <<mtime, content, cache, lock, reg, acked>>
      /\ pc[p] = "save" /\ pc'[p] = "unlock" /\ lock = p /\ TryMirror(p)
      /\ Exactly(reg[p].at, reg[p].data)
      /\ \A q \in Procs \ {p} : pc'[q] = pc[q]
  BY DEF SaveMirror, Goto, IInv, InHand, LockOwned, Writing, TypeOK, fileVars
<1>2. LockOwned'
  BY <1>1, SameLock DEF IInv, Writing, Reading
<1>3. StoredSound'
  BY <1>1, SameMirror DEF IInv, StoredSound, Version
<1>4. InHand(p)'
  BY <1>1 DEF IInv, InHand, Exactly, Reading, Writing
<1> QED BY <1>1, <1>2, <1>3, <1>4, SameFile DEF IInv, NothingLost

(* An operation that ends: its registers are forgotten.                    *)
LEMMA DoneInv ==
  ASSUME IInv, TypeOK', NEW p \in Procs, NEW from, Done(p, from),
         UNCHANGED <<mtime, content, mirror>>,
         \A q \in Procs \ {p} : cache'[q] = cache[q],
         cache'[p] # Absent => cache'[p] = cache[p],
         lock = p => lock' = NoProc, lock # p => lock' = lock, NothingLost'
  PROVE  IInv'
<1>1. /\ pc'[p] = "idle" /\ reg'[p] = NoReg
      /\ \A q \in Procs \ {p} : pc'[q] = pc[q] /\ reg'[q] = reg[q]
  BY DEF Done, Goto, IInv, TypeOK
<1>2. LockOwned'
  BY <1>1, ProcsAssumption DEF IInv, LockOwned, Reading, Writing
<1>3. StoredSound'
  BY <1>1, SameStored DEF IInv, StoredSound
<1>4. InHand(p)'
  <2>1. 0 <= mtime
    BY BoundAssumption DEF IInv, TypeOK, Mtimes
  <2> QED BY <1>1, <2>1 DEF InHand, NoReg, Reading, Writing
<1> QED BY <1>1, <1>2, <1>3, <1>4, SameFile

LEMMA IInvInit == Init => IInv
<1>1. ASSUME Init PROVE IInv
  <2>1. /\ mtime = 0 /\ mirror = Absent /\ acked = {} /\ lock = NoProc
        /\ \A m \in Mtimes : content[m] = {}
        /\ \A p \in Procs : pc[p] = "idle" /\ reg[p] = NoReg /\ cache[p] = Absent
    BY <1>1 DEF Init
  <2>2. LockOwned /\ StoredSound /\ Grows /\ NothingLost
    BY <2>1, MtimeFacts, ProcsAssumption
       DEF LockOwned, StoredSound, Grows, NothingLost, Reading, Writing
  <2>3. ASSUME NEW p \in Procs PROVE InHand(p)
    <3>1. pc[p] = "idle" /\ reg[p].keyed = 0 /\ reg[p].seen = {} /\ 0 <= mtime
      BY <2>1 DEF NoReg
    <3> QED BY <3>1 DEF InHand, Reading, Writing
  <2> QED BY <1>1, <2>1, <2>2, <2>3, TypeInit DEF IInv
<1> QED BY <1>1

LEMMA IInvStep ==
  ASSUME Ops \cap {"audit", "edit"} = {}
  PROVE  IInv /\ [Next]_vars => IInv'
<1> SUFFICES ASSUME IInv, [Next]_vars PROVE IInv'
  OBVIOUS
<1>1. TypeOK' /\ TypeOK
  BY TypeStep DEF IInv
<1>2. ASSUME NEW p \in Procs, Served(p) PROVE IInv'
  <2>1. lock # p
    BY <1>2 DEF Served, Done, Goto, IInv, LockOwned, Reading, Writing
  <2> QED BY <1>1, <1>2, <2>1, DoneInv DEF Served, fileVars, IInv, NothingLost
<1>3. ASSUME NEW p \in Procs, Unlock(p) PROVE IInv'
  <2>1. lock = p /\ reg[p].data = content[mtime]
    BY <1>3 DEF Unlock, Done, Goto, IInv, LockOwned, InHand, Exactly, Writing
  <2>2. NothingLost'
    BY <1>3, <2>1 DEF Unlock, fileVars, IInv, NothingLost
  <2> QED BY <1>1, <1>3, <2>1, <2>2, DoneInv DEF Unlock, fileVars
<1>4. ASSUME NEW p \in Procs, Crash(p) PROVE IInv'
  <2>1. /\ Done(p, pc[p]) /\ UNCHANGED <<mtime, content, mirror, acked>>
        /\ lock' = IF lock = p THEN NoProc ELSE lock
        /\ cache'[p] = Absent /\ \A q \in Procs \ {p} : cache'[q] = cache[q]
    BY <1>1, <1>4 DEF Crash, fileVars, TypeOK
  <2>2. NothingLost'
    BY <2>1 DEF IInv, NothingLost
  <2> QED BY <1>1, <2>1, <2>2, DoneInv
<1>5. ASSUME NEW p \in Procs,
             AuditParse(p) \/ AuditCompare(p) \/ AuditStat(p) \/ AuditHeal(p)
      PROVE  IInv'
  BY <1>5 DEF IInv, AuditParse, AuditCompare, AuditStat, AuditHeal, Done, Goto
<1>6. CASE Edit
  BY <1>6 DEF Edit
<1>7. CASE UNCHANGED vars
  <2>1. UNCHANGED <<mtime, content, mirror, cache, lock, pc, reg, acked>>
    BY <1>7 DEF vars, fileVars
  <2>2. LockOwned' /\ Grows' /\ NothingLost'
    BY <2>1 DEF IInv, LockOwned, Grows, NothingLost
  <2>3. StoredSound'
    BY <2>1 DEF IInv, StoredSound, Exactly, Version
  <2>4. \A p \in Procs : InHand(p)'
    BY <2>1 DEF IInv, InHand, Exactly, Version
  <2> QED BY <1>1, <2>1, <2>2, <2>3, <2>4 DEF IInv
<1> QED BY <1>1, <1>2, <1>3, <1>4, <1>5, <1>6, <1>7, BeginReadInv, BeginWriteInv, FastStatInv,
           ReadMirrorInv, ParseInv, RecheckInv, HealInv, ReplaceInv, RestatInv, SaveMirrorInv
        DEF Next, Access, Audit

(* The races of readers, mutations and dying processes leave no mirror     *)
(* that carries the mtime of the file and not its content.                 *)
THEOREM MirrorTruthfulCorrect ==
  ASSUME Ops \cap {"audit", "edit"} = {}
  PROVE  Spec => []MirrorTruthful
<1>1. IInv => MirrorTruthful
  BY DEF IInv, StoredSound, Exactly, MirrorTruthful
<1> QED BY IInvInit, IInvStep, <1>1, PTL DEF Spec

(* Mutations that read through the mirror undo none that completed.        *)
THEOREM NothingLostCorrect ==
  ASSUME Ops \cap {"audit", "edit"} = {}
  PROVE  Spec => []NothingLost
<1>1. IInv => NothingLost
  BY DEF IInv
<1> QED BY IInvInit, IInvStep, <1>1, PTL DEF Spec

(* A read shows every mutation that completed before it began.             *)
THEOREM FreshReadCorrect ==
  ASSUME Ops \cap {"audit", "edit"} = {}
  PROVE  Spec => []FreshRead
<1>1. ASSUME IInv, NEW p \in Procs, pc[p] = "served"
      PROVE  reg[p].seen \subseteq reg[p].data
  <2>1. /\ reg[p].seen \subseteq content[reg[p].keyed]
        /\ Version(reg[p].keyed, reg[p].data)
        /\ reg[p].keyed \in Mtimes
    BY <1>1 DEF IInv, InHand, TypeOK, Regs
  <2> QED BY <1>1, <2>1 DEF IInv, Grows, Version
<1>2. IInv => FreshRead
  BY <1>1 DEF FreshRead
<1> QED BY IInvInit, IInvStep, <1>2, PTL DEF Spec

-----------------------------------------------------------------------------
(* Decomposition.                                                          *)
(* Lists as they are, whatever they hold.                                  *)
IsSeq(q) == Len(q) \in Nat /\ q = [i \in 1..Len(q) |-> q[i]]

LEMMA SeqIs ==
  ASSUME NEW q, IsSeq(q), NEW S, \A i \in 1..Len(q) : q[i] \in S
  PROVE  q \in Seq(S)
BY DEF IsSeq

LEMMA IsOfSeq ==
  ASSUME NEW S, NEW q \in Seq(S)
  PROVE  IsSeq(q)
<1>1. Len(q) \in Nat /\ q \in [1..Len(q) -> S]
  OBVIOUS
<1> QED BY <1>1 DEF IsSeq

LEMMA SeqOf ==
  ASSUME NEW n \in Nat, NEW f, f = [i \in 1..n |-> f[i]]
  PROVE  IsSeq(f) /\ Len(f) = n
<1> DEFINE S == {f[i] : i \in 1..n}
<1>1. f \in [1..n -> S]
  OBVIOUS
<1> HIDE DEF S
<1>2. f \in Seq(S) /\ Len(f) = n
  BY <1>1
<1> QED BY <1>2, IsOfSeq

LEMMA TailIs ==
  ASSUME NEW q, IsSeq(q), Len(q) # 0
  PROVE  /\ IsSeq(Tail(q)) /\ Len(Tail(q)) = Len(q) - 1 /\ Head(q) = q[1]
         /\ \A k \in 1..(Len(q) - 1) : Tail(q)[k] = q[k + 1]
<1> DEFINE S == {q[i] : i \in 1..Len(q)}
<1>1. q \in Seq(S)
  BY SeqIs
<1> HIDE DEF S
<1>2. Len(q) \in Nat
  BY DEF IsSeq
<1>3. Tail(q) \in Seq(S) /\ Len(Tail(q)) = Len(q) - 1 /\ Head(q) = q[1]
  BY <1>1, <1>2
<1>4. \A k \in 1..(Len(q) - 1) : Tail(q)[k] = q[k + 1]
  BY <1>1, <1>2
<1> QED BY <1>3, <1>4, IsOfSeq

LEMMA AppendIs ==
  ASSUME NEW q, NEW e, IsSeq(q)
  PROVE  /\ IsSeq(Append(q, e)) /\ Len(Append(q, e)) = Len(q) + 1
         /\ Append(q, e)[Len(q) + 1] = e
         /\ \A k \in 1..Len(q) : Append(q, e)[k] = q[k]
<1> DEFINE S == {q[i] : i \in 1..Len(q)} \cup {e}
<1>1. q \in Seq(S) /\ e \in S
  BY SeqIs
<1> HIDE DEF S
<1>2. Append(q, e) \in Seq(S) /\ Len(Append(q, e)) = Len(q) + 1 /\ Len(q) \in Nat
  BY <1>1
<1>3. /\ Append(q, e)[Len(q) + 1] = e
      /\ \A k \in 1..Len(q) : Append(q, e)[k] = q[k]
  BY <1>1
<1> QED BY <1>2, <1>3, IsOfSeq

LEMMA ConcatIs ==
  ASSUME NEW p, NEW q, IsSeq(p), IsSeq(q)
  PROVE  /\ IsSeq(p \o q) /\ Len(p \o q) = Len(p) + Len(q)
         /\ \A k \in 1..Len(p) : (p \o q)[k] = p[k]
         /\ \A k \in 1..Len(q) : (p \o q)[Len(p) + k] = q[k]
<1> DEFINE S == {p[i] : i \in 1..Len(p)} \cup {q[i] : i \in 1..Len(q)}
<1>1. p \in Seq(S) /\ q \in Seq(S)
  BY SeqIs
<1> HIDE DEF S
<1>2. p \o q \in Seq(S) /\ Len(p \o q) = Len(p) + Len(q) /\ Len(p) \in Nat /\ Len(q) \in Nat
  BY <1>1
<1>3. /\ \A k \in 1..Len(p) : (p \o q)[k] = p[k]
      /\ \A k \in 1..Len(q) : (p \o q)[Len(p) + k] = q[k]
  BY <1>1, <1>2
<1> QED BY <1>2, <1>3, IsOfSeq

(* Tickets and calls are records with these fields.                        *)
Fields == {"status", "parent", "blockedBy", "children", "notes"}
TicketIs(x) ==
  /\ x = [status |-> x.status, parent |-> x.parent, blockedBy |-> x.blockedBy,
          children |-> x.children, notes |-> x.notes]
  /\ x.status \in {"open", "in_progress", "done", "canceled", "deleted"}
TicketsTyped == IsSeq(ticket) /\ \A t \in 1..Len(ticket) : TicketIs(ticket[t])
CallIs(c) ==
  /\ c = [on |-> c.on, with |-> c.with, todo |-> c.todo, seen |-> c.seen,
          gain |-> c.gain, listed |-> c.listed]
  /\ IsSeq(c.todo)
CallsTyped == call = [a \in Callers |-> call[a]] /\ \A a \in Callers : CallIs(call[a])

Known == 1..Len(ticket)
Gone(t) == ticket[t].status \in {"canceled", "deleted"}
Begun(t) == ticket[t].status \in {"in_progress", "done"}
Members(q) == {q[i] : i \in DOMAIN q}

(* What a call still writes to, and puts into a list of blockers, exists.  *)
Names(c) == \A k \in 1..Len(c.todo) :
  /\ c.todo[k][1] \in {"adopt", "wait", "fold", "cancel"} => c.todo[k][2] \in Known
  /\ c.todo[k][1] \in {"create", "stack", "wait"} =>
       IsSeq(c.gain) /\ \A i \in 1..Len(c.gain) : c.gain[i] \in Known

(* A ticket is detached after it was canceled.                             *)
Detaches(c) == \A k \in 1..Len(c.todo) : c.todo[k][1] = "detach" =>
  /\ c.with \in Known
  /\ Gone(c.with) \/ \E i \in 1..(k - 1) : c.todo[i] = <<"cancel", c.with>>

(* y waits for x.                                                          *)
Linked(x, y) == <<"blockedBy", y, x>> \in promised \/ Gone(x)

(* A call that has n subtasks to stack creates m more and stacks r.        *)
Stacking(c) == \E k \in 1..Len(c.todo) : c.todo[k][1] = "stack"
Stacks(c, n, m, r) ==
  /\ n = m + Len(c.gain) /\ r \in 1..(n - 1) /\ m + r <= Len(c.todo) /\ (m > 0 => r = n - 1)
  /\ \A k \in 1..Len(c.todo) :
       /\ c.todo[k][1] = "create" <=> k <= m
       /\ c.todo[k][1] = "stack" <=> m < k /\ k <= m + r
       /\ c.todo[k][1] = "stack" => c.todo[k][2] = n - 1 - r + k - m
  /\ \A k \in 2..(n - r) : k <= Len(c.gain) => Linked(c.gain[k - 1], c.gain[k])
(* None of its subtasks is stacked, those served are known.                *)
Unstacked(c) == \A k \in 1..Len(c.gain) :
  /\ \A s \in stacks : c.gain[k] \notin Members(s)
  /\ Begun(c.gain[k]) => c.gain[k] \in early
CallSound(c) ==
  /\ Names(c) /\ Detaches(c)
  /\ Stacking(c) => Unstacked(c) /\ \E n, m, r \in Nat : Stacks(c, n, m, r)
CallsSound == \A a \in Callers : CallSound(call[a])
CallsApart == \A a, b \in Callers :
  a # b /\ Stacking(call[a]) /\ Stacking(call[b]) => Members(call[a].gain) \cap Members(call[b].gain) = {}

(* What is promised names tickets.                                         *)
PromisesName == \A p \in promised :
  /\ p = <<p[1], p[2], p[3]>> /\ p[1] \in K!Lists
  /\ p[2] \in Known /\ (p[1] = "blockedBy" => p[3] \in Known)

(* Of a stack each waits for the one before it, and was not begun before   *)
(* that was over, but for those FrontIsSingle excepts.                     *)
StackSound(s) ==
  /\ IsSeq(s) /\ Members(s) \subseteq Known
  /\ \A k \in 2..Len(s) :
       /\ Linked(s[k - 1], s[k])
       /\ Begun(s[k]) => \/ s[k] \in early \/ <<"blockedBy", s[k]>> \in stale
                         \/ ticket[s[k - 1]].status \in {"done", "canceled", "deleted"}
StacksSound == \A s \in stacks : StackSound(s)

TreeInv == /\ TicketsTyped /\ CallsTyped /\ CallsSound /\ CallsApart
           /\ PromisesName /\ K!KeepsPromises /\ StacksSound

-----------------------------------------------------------------------------
LEMMA KnownAre == ASSUME TicketsTyped PROVE K!Tickets = Known /\ Len(ticket) \in Nat
BY DEF TicketsTyped, IsSeq, K!Tickets, Known

LEMMA MembersAre ==
  ASSUME NEW q, IsSeq(q) PROVE DOMAIN q = 1..Len(q) /\ Members(q) = {q[i] : i \in 1..Len(q)}
BY DEF IsSeq, Members

(* Replacing lists of a ticket.                                            *)
LEMMA OverIs ==
  ASSUME NEW x, TicketIs(x), NEW new, DOMAIN new \subseteq K!Lists
  PROVE  /\ TicketIs(K!Over(new, x)) /\ K!Over(new, x).status = x.status
         /\ \A l \in K!Lists : K!Over(new, x)[l] = IF l \in DOMAIN new THEN new[l] ELSE x[l]
<1>2. DOMAIN x = Fields /\ K!Lists \subseteq Fields /\ "status" \notin K!Lists /\ "parent" \notin K!Lists
  BY DEF Fields, TicketIs, K!Lists
<1>3. \A l \in Fields : K!Over(new, x)[l] = IF l \in DOMAIN new THEN new[l] ELSE x[l]
  BY <1>2 DEF K!Over
<1>4. K!Over(new, x) = [l \in Fields |-> K!Over(new, x)[l]]
  BY <1>2 DEF K!Over
<1>5. K!Over(new, x)["status"] = x["status"]
  BY <1>2, <1>3 DEF Fields
<1>6. TicketIs(K!Over(new, x))
  BY <1>4, <1>5 DEF TicketIs, Fields
<1> QED BY <1>2, <1>3, <1>5, <1>6

(* What no step takes back.                                                *)
Ages ==
  /\ TicketsTyped' /\ Len(ticket) <= Len(ticket')
  /\ \A t \in Known :
       /\ Gone(t) => Gone(t)' 
       /\ K!Exists(t)' => K!Exists(t)
       /\ ticket[t].status = "done" => ticket'[t].status \in {"done", "canceled", "deleted"}
LinksStay == \A x, y \in Known : Linked(x, y) => Linked(x, y)'
NoneBegun == \A t \in Known : Begun(t)' => Begun(t)

LEMMA LinksAre ==
  ASSUME Ages, \A p \in promised : p \in promised' \/ (p[3] \in Known /\ Gone(p[3]))
  PROVE  LinksStay
BY DEF Ages, LinksStay, Linked

(* A replacement ages nothing; a list that changed is the new one, and     *)
(* outdated if what was read was.                                          *)
Replaced(t, new, seen) ==
  /\ Ages /\ NoneBegun /\ Len(ticket') = Len(ticket) /\ stale \subseteq stale'
  /\ \A u \in Known : ticket'[u].status = ticket[u].status
  /\ \A u \in Known, l \in K!Lists :
       \/ ticket'[u][l] = ticket[u][l] /\ (u # t \/ l \notin DOMAIN new \/ ~K!Exists(u))
       \/ /\ u = t /\ l \in DOMAIN new /\ ticket'[u][l] = new[l]
          /\ <<l, t>> \in stale' \/ seen[l] = ticket[t][l]

LEMMA ReplaceIs ==
  ASSUME TicketsTyped, NEW t, NEW new, NEW seen, DOMAIN new \subseteq K!Lists,
         K!Replace(t, new, seen)
  PROVE  Replaced(t, new, seen)
<1>1. CASE ~K!Exists(t)
  <2>1. ticket' = ticket /\ stale' = stale
    BY <1>1 DEF K!Replace
  <2>2. Ages /\ NoneBegun /\ Len(ticket') = Len(ticket)
    BY <2>1 DEF Ages, NoneBegun, TicketsTyped, IsSeq, Known, Gone, Begun, K!Exists, TicketIs
  <2> QED BY <1>1, <2>1, <2>2 DEF Replaced
<1>2. CASE K!Exists(t)
  <2>1. /\ ticket' = [ticket EXCEPT ![t] = K!Over(new, ticket[t])]
        /\ stale' = stale \cup {<<l, t>> : l \in {l \in DOMAIN new : seen[l] # ticket[t][l]}}
    BY <1>2 DEF K!Replace
  <2>2. DOMAIN ticket = Known /\ Len(ticket) \in Nat /\ \A u \in Known : TicketIs(ticket[u])
    BY DEF TicketsTyped, IsSeq, Known
  <2>3. \A u \in Known : ticket'[u] = IF u = t THEN K!Over(new, ticket[t]) ELSE ticket[u]
    BY <2>1, <2>2
  <2>4. IsSeq(ticket') /\ Len(ticket') = Len(ticket)
    <3>1. ticket' = [u \in 1..Len(ticket) |-> ticket'[u]]
      BY <2>1, <2>2 DEF Known
    <3> QED BY <2>2, <3>1, SeqOf
  <2>5. \A u \in Known : TicketIs(ticket'[u]) /\ ticket'[u].status = ticket[u].status
    BY <2>2, <2>3, OverIs
  <2>6. TicketsTyped'
    BY <2>4, <2>5 DEF TicketsTyped, Known
  <2>7. Ages /\ NoneBegun
    BY <2>2, <2>4, <2>5, <2>6 DEF Ages, NoneBegun, Gone, Begun, K!Exists
  <2>8. ASSUME NEW u \in Known, NEW l \in K!Lists
        PROVE  \/ ticket'[u][l] = ticket[u][l] /\ (u # t \/ l \notin DOMAIN new \/ ~K!Exists(u))
               \/ /\ u = t /\ l \in DOMAIN new /\ ticket'[u][l] = new[l]
                  /\ <<l, t>> \in stale' \/ seen[l] = ticket[t][l]
    <3>1. CASE u # t
      BY <2>3, <3>1
    <3>2. CASE u = t
      <4>1. ticket'[u] = K!Over(new, ticket[u]) /\ TicketIs(ticket[u])
        BY <2>2, <2>3, <3>2
      <4>2. ticket'[u][l] = IF l \in DOMAIN new THEN new[l] ELSE ticket[u][l]
        BY <4>1, OverIs
      <4>3. l \in DOMAIN new => <<l, t>> \in stale' \/ seen[l] = ticket[t][l]
        BY <2>1
      <4> QED BY <3>2, <4>2, <4>3
    <3> QED BY <3>1, <3>2
  <2> QED BY <2>1, <2>4, <2>5, <2>7, <2>8 DEF Replaced
<1> QED BY <1>1, <1>2

(* Promises stay kept when a list is replaced by one that has more, or     *)
(* lost only what is no longer promised or deleted.                        *)
LEMMA PromisesKept ==
  ASSUME TicketsTyped, PromisesName, K!KeepsPromises, NEW t, NEW new, NEW seen,
         DOMAIN new \subseteq K!Lists, Replaced(t, new, seen),
         \A p \in promised' :
           \/ p \in promised /\ (p[2] = t /\ p[1] \in DOMAIN new /\ p[3] \in seen[p[1]] =>
                                   p[3] \in new[p[1]] \/ (p[1] = "blockedBy" /\ ~K!Exists(p[3])))
           \/ /\ p = <<p[1], p[2], p[3]>> /\ p[2] = t /\ t \in Known /\ p[1] \in DOMAIN new
              /\ p[3] \in new[p[1]] /\ (p[1] = "blockedBy" => p[3] \in Known)
  PROVE  PromisesName' /\ K!KeepsPromises'
<1>1. Len(ticket') = Len(ticket) /\ Known' = Known
  BY DEF Replaced, Known
<1>2. PromisesName'
  BY <1>1 DEF PromisesName
<1>3. ASSUME NEW p \in promised', K!Exists(p[2])', p[1] = "blockedBy" => K!Exists(p[3])',
             <<p[1], p[2]>> \notin stale'
      PROVE  p[3] \in ticket'[p[2]][p[1]]
  <2>1. p[1] \in K!Lists /\ p[2] \in Known /\ (p[1] = "blockedBy" => p[3] \in Known)
    BY <1>1, <1>2 DEF PromisesName
  <2>2. K!Exists(p[2]) /\ (p[1] = "blockedBy" => K!Exists(p[3]))
    BY <1>3, <2>1 DEF Replaced, K!Exists
  <2>3. <<p[1], p[2]>> \notin stale
    BY <1>3 DEF Replaced
  <2>4. p \in promised => p[3] \in ticket[p[2]][p[1]]
    BY <2>2, <2>3 DEF K!KeepsPromises
  <2>5. \/ /\ ticket'[p[2]][p[1]] = ticket[p[2]][p[1]]
           /\ p[2] # t \/ p[1] \notin DOMAIN new \/ ~K!Exists(p[2])
        \/ /\ p[2] = t /\ p[1] \in DOMAIN new /\ ticket'[p[2]][p[1]] = new[p[1]]
           /\ <<p[1], t>> \in stale' \/ seen[p[1]] = ticket[t][p[1]]
    BY <2>1 DEF Replaced
  <2> QED BY <1>3, <2>2, <2>4, <2>5
<1> QED BY <1>2, <1>3 DEF K!KeepsPromises

-----------------------------------------------------------------------------
(* A call that rests stays sound while others act, if what they stack is   *)
(* not among its subtasks and what they serve is noted or stacked.         *)
NotedIfBegun == \A t \in Known : Begun(t)' => Begun(t) \/ t \in early' \/ \E s \in stacks : t \in Members(s)
OthersStack(c) == \A s \in stacks' : s \in stacks \/ \A k \in 1..Len(c.gain) : c.gain[k] \notin Members(s)

LEMMA CallRests ==
  ASSUME TicketsTyped, NEW c, CallSound(c), Ages, LinksStay, NotedIfBegun, early \subseteq early',
         Stacking(c) => OthersStack(c)
  PROVE  CallSound(c)'
<1>1. Known \subseteq Known'
  BY KnownAre DEF Ages, Known, TicketsTyped, IsSeq
<1>2. Names(c)'
  BY <1>1 DEF CallSound, Names
<1>3. Detaches(c)'
  BY <1>1 DEF CallSound, Detaches, Ages
<1>4. ASSUME Stacking(c) PROVE (Unstacked(c) /\ \E n, m, r \in Nat : Stacks(c, n, m, r))'
  <2>1. \A k \in 1..Len(c.gain) : c.gain[k] \in Known
    BY <1>4 DEF Stacking, CallSound, Names
  <2>2. Unstacked(c)
    BY <1>4 DEF CallSound
  <2>3. Unstacked(c)'
    <3>1. ASSUME NEW k \in 1..Len(c.gain) PROVE \A s \in stacks' : c.gain[k] \notin Members(s)
      BY <1>4, <2>2, <3>1 DEF OthersStack, Unstacked
    <3>2. ASSUME NEW k \in 1..Len(c.gain), Begun(c.gain[k])' PROVE c.gain[k] \in early'
      BY <2>1, <2>2, <3>2 DEF Unstacked, NotedIfBegun
    <3> QED BY <3>1, <3>2 DEF Unstacked
  <2>4. PICK n \in Nat, m \in Nat, r \in Nat : Stacks(c, n, m, r)
    BY <1>4 DEF CallSound
  <2>5. Stacks(c, n, m, r)'
    <3>1. \A k \in 2..(n - r) : k <= Len(c.gain) => Linked(c.gain[k - 1], c.gain[k])'
      <4>1. SUFFICES ASSUME NEW k \in 2..(n - r), k <= Len(c.gain)
                     PROVE  Linked(c.gain[k - 1], c.gain[k])'
        OBVIOUS
      <4>2. Len(c.gain) \in Nat
        BY <1>4 DEF Stacking, CallSound, Names, IsSeq
      <4>3. k \in 1..Len(c.gain) /\ k - 1 \in 1..Len(c.gain)
        BY <4>1, <4>2
      <4>4. Linked(c.gain[k - 1], c.gain[k])
        BY <2>4, <4>1 DEF Stacks
      <4> QED BY <2>1, <4>3, <4>4 DEF LinksStay
    <3> QED BY <2>4, <3>1 DEF Stacks
  <2> QED BY <2>3, <2>5
<1> QED BY <1>2, <1>3, <1>4 DEF CallSound, Stacking

(* The call d is c with its first mutation done.                           *)
Shifts(c, d) ==
  /\ CallIs(c) /\ CallIs(d) /\ Len(c.todo) # 0 /\ d.gain = c.gain /\ d.with = c.with
  /\ Len(d.todo) = Len(c.todo) - 1 /\ \A k \in 1..Len(d.todo) : d.todo[k] = c.todo[k + 1]
Quiet(c) ==
  /\ c.todo[1][1] \notin {"create", "stack"}
  /\ c.todo[1] = <<"cancel", c.with>> => Gone(c.with)

LEMMA DetachesLater ==
  \A c, d :
    /\ Len(c.todo) \in Nat /\ Len(d.todo) \in Nat /\ Len(d.todo) = Len(c.todo) - 1
    /\ \A k \in 1..Len(d.todo) : d.todo[k] = c.todo[k + 1]
    /\ d.with = c.with /\ (c.todo[1] = <<"cancel", c.with>> => Gone(c.with)) /\ Detaches(c)
    => Detaches(d)
<1> SUFFICES
      ASSUME NEW c, NEW d, Len(c.todo) \in Nat, Len(d.todo) \in Nat, Len(d.todo) = Len(c.todo) - 1,
             \A k \in 1..Len(d.todo) : d.todo[k] = c.todo[k + 1],
             d.with = c.with, c.todo[1] = <<"cancel", c.with>> => Gone(c.with), Detaches(c)
      PROVE  Detaches(d)
  OBVIOUS
<1> SUFFICES ASSUME NEW k \in 1..Len(d.todo), d.todo[k][1] = "detach"
             PROVE  /\ d.with \in Known
                    /\ Gone(d.with) \/ \E i \in 1..(k - 1) : d.todo[i] = <<"cancel", d.with>>
  BY DEF Detaches
<1>1. c.todo[k + 1][1] = "detach" /\ k + 1 \in 1..Len(c.todo) /\ (k + 1) - 1 = k
  OBVIOUS
<1>2. /\ c.with \in Known
      /\ Gone(c.with) \/ \E i \in 1..((k + 1) - 1) : c.todo[i] = <<"cancel", c.with>>
  BY <1>1 DEF Detaches
<1>3. CASE Gone(c.with)
  BY <1>2, <1>3
<1>4. ASSUME NEW i \in 1..k, c.todo[i] = <<"cancel", c.with>>, ~Gone(c.with)
      PROVE  \E j \in 1..(k - 1) : d.todo[j] = <<"cancel", d.with>>
  <2>1. i # 1
    BY <1>4
  <2>2. i - 1 \in 1..(k - 1) /\ i - 1 \in 1..Len(d.todo) /\ (i - 1) + 1 = i
    BY <2>1
  <2>3. d.todo[i - 1] = c.todo[i]
    BY <2>2
  <2> QED BY <1>4, <2>2, <2>3
<1> QED BY <1>1, <1>2, <1>3, <1>4

LEMMA DetachesLaterThen ==
  (\A c, d :
    /\ Len(c.todo) \in Nat /\ Len(d.todo) \in Nat /\ Len(d.todo) = Len(c.todo) - 1
    /\ \A k \in 1..Len(d.todo) : d.todo[k] = c.todo[k + 1]
    /\ d.with = c.with /\ (c.todo[1] = <<"cancel", c.with>> => Gone(c.with)) /\ Detaches(c)
    => Detaches(d))'
BY DetachesLater, PTL

LEMMA ShiftNow ==
  \A c, d : Shifts(c, d) /\ Quiet(c) /\ CallSound(c) => CallSound(d) /\ (Stacking(d) => Stacking(c))
<1> SUFFICES ASSUME NEW c, NEW d, Shifts(c, d), Quiet(c), CallSound(c)
             PROVE  CallSound(d) /\ (Stacking(d) => Stacking(c))
  OBVIOUS
<1>1. /\ Len(c.todo) \in Nat /\ Len(d.todo) \in Nat /\ d.gain = c.gain /\ d.with = c.with
      /\ Len(d.todo) = Len(c.todo) - 1 /\ Len(c.todo) # 0
      /\ \A k \in 1..Len(d.todo) : d.todo[k] = c.todo[k + 1] /\ k + 1 \in 1..Len(c.todo)
  BY DEF Shifts, CallIs, IsSeq
<1>2. Names(d)
  BY <1>1 DEF CallSound, Names
<1>3. Detaches(d)
  BY <1>1, DetachesLater DEF CallSound, Quiet
<1>4. Stacking(d) => Stacking(c)
  BY <1>1 DEF Stacking
<1>5. ASSUME Stacking(d) PROVE Unstacked(d) /\ \E n, m, r \in Nat : Stacks(d, n, m, r)
  <2>1. Unstacked(c) /\ Stacking(c)
    BY <1>4, <1>5 DEF CallSound
  <2>2. PICK n \in Nat, m \in Nat, r \in Nat : Stacks(c, n, m, r)
    BY <2>1 DEF CallSound
  <2>3. 1 \in 1..Len(c.todo)
    BY <1>1
  <2>4. ~(1 <= m) /\ ~(m < 1 /\ 1 <= m + r)
    BY <2>2, <2>3 DEF Stacks, Quiet
  <2>5. r = 0 /\ r \in 1..(n - 1)
    BY <2>2, <2>4 DEF Stacks
  <2> QED BY <2>5
<1> QED BY <1>2, <1>3, <1>4, <1>5 DEF CallSound

LEMMA ShiftThen ==
  (\A c, d : Shifts(c, d) /\ Quiet(c) /\ CallSound(c) => CallSound(d) /\ (Stacking(d) => Stacking(c)))'
BY ShiftNow, PTL

LEMMA IdleIs == CallIs(K!Idle) /\ Len(K!Idle.todo) = 0
<1>1. K!Idle.todo = <<>> /\ IsSeq(<<>>)
  BY DEF K!Idle, IsSeq
<1> QED BY <1>1 DEF CallIs, K!Idle

LEMMA MovesIs ==
  ASSUME CallsTyped, NEW a \in Callers, NEW c, CallIs(c), Len(c.todo) # 0, K!Moves(a, c)
  PROVE  \E d : /\ call' = [call EXCEPT ![a] = d] /\ CallIs(d)
                /\ Len(d.todo) = 0 \/ Shifts(c, d)
<1>1. CASE Len(c.todo) = 1
  BY <1>1, IdleIs DEF K!Moves
<1>2. CASE Len(c.todo) # 1
  <2> DEFINE d == [c EXCEPT !.todo = Tail(@)]
  <2>1. call' = [call EXCEPT ![a] = d]
    BY <1>2 DEF K!Moves
  <2>2. /\ IsSeq(Tail(c.todo)) /\ Len(Tail(c.todo)) = Len(c.todo) - 1
        /\ \A k \in 1..(Len(c.todo) - 1) : Tail(c.todo)[k] = c.todo[k + 1]
    BY TailIs DEF CallIs
  <2>3. d = [on |-> c.on, with |-> c.with, todo |-> Tail(c.todo), seen |-> c.seen,
             gain |-> c.gain, listed |-> c.listed]
    BY DEF CallIs
  <2>4. CallIs(d) /\ Shifts(c, d)
    BY <2>2, <2>3 DEF CallIs, Shifts
  <2> QED BY <2>1, <2>4
<1> QED BY <1>1, <1>2

LEMMA OneCallTyped ==
  ASSUME CallsTyped, NEW a \in Callers, NEW d, CallIs(d), call' = [call EXCEPT ![a] = d]
  PROVE  CallsTyped' /\ call'[a] = d /\ \A b \in Callers : b # a => call'[b] = call[b]
<1>1. /\ call' = [b \in Callers |-> IF b = a THEN d ELSE call[b]]
      /\ \A b \in Callers : CallIs(call[b])
  BY DEF CallsTyped
<1>2. \A b \in Callers : CallIs(call'[b])
  BY <1>1
<1> QED BY <1>1, <1>2 DEF CallsTyped, CallIs

LEMMA NoneLeftSound ==
  \A d : Len(d.todo) = 0 => CallSound(d) /\ ~Stacking(d)
BY DEF CallSound, Names, Detaches, Stacking
LEMMA NoneLeftSoundThen ==
  (\A d : Len(d.todo) = 0 => CallSound(d) /\ ~Stacking(d))'
BY NoneLeftSound, PTL

LEMMA SameSound ==
  ASSUME NEW c, NEW d, d.todo = c.todo, d.gain = c.gain, d.with = c.with, CallSound(c)
  PROVE  CallSound(d) /\ (Stacking(d) => Stacking(c))
<1>1. Names(d)
  BY DEF CallSound, Names
<1>2. Detaches(d)
  BY DEF CallSound, Detaches
<1>3. Stacking(d) => Stacking(c)
  BY DEF Stacking
<1>4. Unstacked(c) => Unstacked(d)
  BY DEF Unstacked
<1>5. ASSUME NEW n, NEW m, NEW r, Stacks(c, n, m, r) PROVE Stacks(d, n, m, r)
  BY <1>5 DEF Stacks
<1>6. Stacking(d) => Unstacked(d) /\ \E n, m, r \in Nat : Stacks(d, n, m, r)
  BY <1>3, <1>4, <1>5 DEF CallSound
<1> QED BY <1>1, <1>2, <1>3, <1>6 DEF CallSound

(* One call goes on, the others rest.                                      *)
LEMMA CallsGo ==
  ASSUME TicketsTyped, CallsTyped, CallsSound, CallsApart, NEW a \in Callers, NEW d, CallIs(d),
         call' = [call EXCEPT ![a] = d], CallSound(d)',
         \A b \in Callers : b # a /\ Stacking(d) /\ Stacking(call[b])
            => Members(d.gain) \cap Members(call[b].gain) = {},
         Ages, LinksStay, NotedIfBegun, early \subseteq early',
         \A b \in Callers : b # a /\ Stacking(call[b]) => OthersStack(call[b])
  PROVE  CallsTyped' /\ CallsSound' /\ CallsApart'
<1>1. CallsTyped' /\ call'[a] = d /\ \A b \in Callers : b # a => call'[b] = call[b]
  BY OneCallTyped
<1>2. ASSUME NEW b \in Callers, b # a PROVE CallSound(call[b])'
  <2>1. PICK x : x = call[b]
    OBVIOUS
  <2>2. CallSound(x) /\ (Stacking(x) => OthersStack(x))
    BY <1>2, <2>1 DEF CallsSound
  <2>3. CallSound(x)'
    BY <2>2, CallRests
  <2>4. x = call'[b]
    BY <1>1, <1>2, <2>1
  <2> QED BY <2>3, <2>4
<1>3. CallSound(call[a])'
  <2>1. d = call'[a]
    BY <1>1
  <2> QED BY <2>1
<1>4. CallsSound'
  BY <1>2, <1>3 DEF CallsSound
<1>5. CallsApart'
  <2>2. SUFFICES ASSUME NEW b \in Callers, NEW e \in Callers, b # e,
                        Stacking(call'[b]), Stacking(call'[e])
                 PROVE  Members(call'[b].gain) \cap Members(call'[e].gain) = {}
    BY DEF CallsApart, Stacking, Members
  <2>3. CASE b = a
    <3>1. call'[b] = d /\ call'[e] = call[e]
      BY <1>1, <2>2, <2>3
    <3> QED BY <2>2, <2>3, <3>1
  <2>4. CASE e = a
    <3>1. call'[e] = d /\ call'[b] = call[b]
      BY <1>1, <2>2, <2>4
    <3>2. Members(d.gain) \cap Members(call[b].gain) = {}
      BY <2>2, <2>4, <3>1
    <3> QED BY <3>1, <3>2
  <2>5. CASE b # a /\ e # a
    <3>1. call'[e] = call[e] /\ call'[b] = call[b]
      BY <1>1, <2>5
    <3> QED BY <2>2, <3>1 DEF CallsApart
  <2> QED BY <2>3, <2>4, <2>5
<1> QED BY <1>1, <1>4, <1>5

LEMMA QuietMove ==
  ASSUME TicketsTyped, CallsTyped, CallsSound, CallsApart, NEW a \in Callers, NEW c, CallIs(c),
         c.todo = call[a].todo, c.gain = call[a].gain, c.with = call[a].with,
         Len(c.todo) # 0, K!Moves(a, c),
         c.todo[1][1] \notin {"create", "stack"}, c.todo[1] = <<"cancel", c.with>> => Gone(c.with)',
         Ages, LinksStay, NotedIfBegun, early' = early, stacks' = stacks
  PROVE  CallsTyped' /\ CallsSound' /\ CallsApart'
<1>1. PICK d : /\ call' = [call EXCEPT ![a] = d] /\ CallIs(d)
               /\ Len(d.todo) = 0 \/ Shifts(c, d)
  BY MovesIs
<1>2. CallSound(c) /\ (Stacking(c) => Stacking(call[a]))
  <2>1. PICK x : x = call[a]
    OBVIOUS
  <2> QED BY <2>1, SameSound DEF CallsSound
<1>3. CallSound(c)'
  BY <1>2, CallRests DEF OthersStack
<1>4. Quiet(c)'
  BY DEF Quiet
<1>5. CallSound(d)' /\ (Stacking(d) => Stacking(call[a]))
  <2>1. CASE Len(d.todo) = 0
    BY <2>1, NoneLeftSound, NoneLeftSoundThen
  <2>2. CASE Shifts(c, d)
    <3>1. Shifts(c, d)'
      BY <2>2 DEF Shifts, CallIs
    <3>2. CallSound(d)' /\ (Stacking(d) => Stacking(c))'
      BY <3>1, <1>3, <1>4, ShiftThen
    <3> QED BY <1>2, <3>2 DEF Stacking
  <2> QED BY <1>1, <2>1, <2>2
<1>6. d.gain = call[a].gain \/ ~Stacking(d)
  BY <1>1, NoneLeftSound DEF Shifts
<1>7. \A b \in Callers : b # a /\ Stacking(d) /\ Stacking(call[b])
            => Members(d.gain) \cap Members(call[b].gain) = {}
  BY <1>5, <1>6 DEF CallsApart
<1> QED BY <1>1, <1>5, <1>7, CallsGo DEF OthersStack

-----------------------------------------------------------------------------
LEMMA StackStays ==
  ASSUME TicketsTyped, NEW s, StackSound(s), Ages, LinksStay, early \subseteq early',
         stale \subseteq stale',
         \A k \in 2..Len(s) : Begun(s[k])' =>
            \/ Begun(s[k]) \/ s[k] \in early' \/ <<"blockedBy", s[k]>> \in stale'
            \/ ticket'[s[k - 1]].status \in {"done", "canceled", "deleted"}
  PROVE  StackSound(s)'
<1>1. Known \subseteq Known'
  BY KnownAre DEF Ages, Known, TicketsTyped, IsSeq
<1>2. IsSeq(s) /\ Members(s) \subseteq Known /\ Len(s) \in Nat
  BY DEF StackSound, IsSeq
<1>3. IsSeq(s)' /\ (Members(s) \subseteq Known)'
  BY <1>1, <1>2 DEF IsSeq, Members
<1>4. ASSUME NEW k \in 2..Len(s)
      PROVE  /\ Linked(s[k - 1], s[k])'
             /\ Begun(s[k])' => \/ s[k] \in early' \/ <<"blockedBy", s[k]>> \in stale'
                                \/ ticket'[s[k - 1]].status \in {"done", "canceled", "deleted"}
  <2>1. k \in 1..Len(s) /\ k - 1 \in 1..Len(s)
    BY <1>2
  <2>2. s[k] \in Known /\ s[k - 1] \in Known
    BY <1>2, <2>1, MembersAre
  <2>3. Linked(s[k - 1], s[k])'
    BY <2>2 DEF StackSound, LinksStay
  <2>4. ASSUME Begun(s[k])', Begun(s[k])
        PROVE  \/ s[k] \in early' \/ <<"blockedBy", s[k]>> \in stale'
               \/ ticket'[s[k - 1]].status \in {"done", "canceled", "deleted"}
    <3>1. \/ s[k] \in early \/ <<"blockedBy", s[k]>> \in stale
          \/ ticket[s[k - 1]].status \in {"done", "canceled", "deleted"}
      BY <2>4 DEF StackSound
    <3> QED BY <2>2, <3>1 DEF Ages, Gone
  <2> QED BY <2>3, <2>4
<1> QED BY <1>3, <1>4 DEF StackSound

LEMMA StacksKept ==
  ASSUME TicketsTyped, StacksSound, Ages, LinksStay, NoneBegun, early \subseteq early',
         stale \subseteq stale', stacks' = stacks
  PROVE  StacksSound'
<1>1. ASSUME NEW s \in stacks PROVE StackSound(s)'
  <2>1. StackSound(s)
    BY DEF StacksSound
  <2>2. \A k \in 2..Len(s) : s[k] \in Known
    BY <2>1, MembersAre DEF StackSound, IsSeq
  <2> QED BY <2>1, <2>2, StackStays DEF NoneBegun
<1> QED BY <1>1 DEF StacksSound

LEMMA Unaged ==
  ASSUME TicketsTyped, ticket' = ticket
  PROVE  Ages /\ NoneBegun /\ Len(ticket') = Len(ticket) /\ TicketsTyped'
BY DEF Ages, NoneBegun, TicketsTyped, IsSeq, Known, Gone, Begun, K!Exists, TicketIs

LEMMA PromisesRest ==
  ASSUME TicketsTyped, PromisesName, K!KeepsPromises, ticket' = ticket, promised' = promised,
         stale' = stale
  PROVE  PromisesName' /\ K!KeepsPromises'
BY DEF PromisesName, K!KeepsPromises, K!Exists, Known

LEMMA DoesIs ==
  ASSUME CallsTyped, NEW a \in Callers, NEW do, NEW t, K!Does(a, do, t)
  PROVE  /\ CallIs(call[a]) /\ Len(call[a].todo) \in Nat \ {0} /\ 1 \in 1..Len(call[a].todo)
         /\ call[a].todo[1] = <<do, t>>
<1>1. CallIs(call[a]) /\ IsSeq(call[a].todo) /\ call[a].todo # <<>> /\ Head(call[a].todo) = <<do, t>>
  BY DEF CallsTyped, CallIs, K!Does
<1>2. PICK q : q = call[a].todo
  OBVIOUS
<1>3. Len(q) = 0 => q = <<>>
  BY <1>1, <1>2 DEF IsSeq
<1>4. Len(q) # 0 /\ Len(q) \in Nat
  BY <1>1, <1>2, <1>3 DEF IsSeq
<1>5. Head(q) = q[1]
  BY <1>1, <1>2, <1>4, TailIs
<1> QED BY <1>1, <1>2, <1>4, <1>5

LEMMA MovesKeep == ASSUME NEW a, NEW c, K!Moves(a, c) PROVE early' = early
BY DEF K!Moves

LEMMA LookStep ==
  ASSUME TreeInv, NEW a \in Callers, NEW t, K!Look(a, t)
  PROVE  TreeInv'
<1> DEFINE c == [call[a] EXCEPT !.seen = ticket[t]]
<1>1. /\ TicketsTyped /\ CallsTyped /\ CallsSound /\ CallsApart
      /\ PromisesName /\ K!KeepsPromises /\ StacksSound
  BY DEF TreeInv
<1>2. /\ K!Does(a, "look", t) /\ K!Moves(a, c) /\ ticket' = ticket
      /\ promised' = promised /\ stale' = stale /\ stacks' = stacks /\ early' = early
  BY MovesKeep DEF K!Look
<1>3. /\ CallIs(call[a]) /\ Len(call[a].todo) \in Nat \ {0} /\ call[a].todo[1] = <<"look", t>>
  BY <1>1, <1>2, DoesIs
<1>4. /\ CallIs(c) /\ c.todo = call[a].todo /\ c.gain = call[a].gain /\ c.with = call[a].with
  BY <1>3 DEF CallIs
<1> HIDE DEF c
<1>5. Ages /\ NoneBegun /\ TicketsTyped'
  BY <1>1, <1>2, Unaged
<1>6. LinksStay /\ NotedIfBegun
  BY <1>2, <1>5, LinksAre DEF NoneBegun, NotedIfBegun
<1>7. c.todo[1][1] \notin {"create", "stack"} /\ c.todo[1] # <<"cancel", c.with>>
  BY <1>3, <1>4
<1>8. CallsTyped' /\ CallsSound' /\ CallsApart'
  BY <1>1, <1>2, <1>3, <1>4, <1>5, <1>6, <1>7, QuietMove
<1>9. StacksSound'
  BY <1>1, <1>2, <1>5, <1>6, StacksKept
<1>10. PromisesName' /\ K!KeepsPromises'
  BY <1>1, <1>2, PromisesRest
<1> QED BY <1>5, <1>8, <1>9, <1>10 DEF TreeInv

LEMMA ReplacingStep ==
  ASSUME TreeInv, NEW a \in Callers, NEW t, NEW do \in {"adopt", "wait", "prune", "fold", "detach"},
         K!Does(a, do, t), K!Moves(a, call[a]), stacks' = stacks, LinksStay,
         NEW new, NEW seen, DOMAIN new \subseteq K!Lists, K!Replace(t, new, seen),
         \A p \in promised' :
           \/ p \in promised /\ (p[2] = t /\ p[1] \in DOMAIN new /\ p[3] \in seen[p[1]] =>
                                   p[3] \in new[p[1]] \/ (p[1] = "blockedBy" /\ ~K!Exists(p[3])))
           \/ /\ p = <<p[1], p[2], p[3]>> /\ p[2] = t /\ t \in Known /\ p[1] \in DOMAIN new
              /\ p[3] \in new[p[1]] /\ (p[1] = "blockedBy" => p[3] \in Known)
  PROVE  TreeInv'
<1> DEFINE c == call[a]
<1>1. /\ TicketsTyped /\ CallsTyped /\ CallsSound /\ CallsApart
      /\ PromisesName /\ K!KeepsPromises /\ StacksSound
  BY DEF TreeInv
<1>2. early' = early
  BY MovesKeep
<1>3. /\ CallIs(c) /\ Len(c.todo) \in Nat \ {0} /\ c.todo[1] = <<do, t>>
  BY <1>1, DoesIs
<1>4. Replaced(t, new, seen)
  BY <1>1, ReplaceIs
<1>5. Ages /\ NoneBegun /\ TicketsTyped' /\ stale \subseteq stale'
  BY <1>4 DEF Replaced, Ages
<1>6. NotedIfBegun
  BY <1>5 DEF NoneBegun, NotedIfBegun
<1>7. c.todo[1][1] \notin {"create", "stack"} /\ c.todo[1] # <<"cancel", c.with>>
  BY <1>3
<1>8. CallsTyped' /\ CallsSound' /\ CallsApart'
  BY <1>1, <1>2, <1>3, <1>5, <1>6, <1>7, QuietMove
<1>9. StacksSound'
  BY <1>1, <1>2, <1>5, StacksKept
<1>10. PromisesName' /\ K!KeepsPromises'
  BY <1>1, <1>4, PromisesKept
<1> QED BY <1>5, <1>8, <1>9, <1>10 DEF TreeInv

LEMMA HeadNames ==
  ASSUME TreeInv, NEW a \in Callers, NEW do, NEW t, K!Does(a, do, t)
  PROVE  /\ do \in {"adopt", "wait", "fold", "cancel"} => t \in Known
         /\ do = "wait" => K!ToSet(call[a].gain) \subseteq Known
<1>1. Names(call[a]) /\ CallsTyped
  BY DEF TreeInv, CallsSound, CallSound
<1>2. 1 \in 1..Len(call[a].todo) /\ call[a].todo[1] = <<do, t>>
  BY <1>1, DoesIs
<1>3. do \in {"adopt", "wait", "fold", "cancel"} => t \in Known
  BY <1>1, <1>2 DEF Names
<1>4. ASSUME do = "wait" PROVE K!ToSet(call[a].gain) \subseteq Known
  <2>1. IsSeq(call[a].gain) /\ \A i \in 1..Len(call[a].gain) : call[a].gain[i] \in Known
    BY <1>1, <1>2, <1>4 DEF Names
  <2> QED BY <2>1, MembersAre DEF K!ToSet
<1> QED BY <1>3, <1>4

LEMMA GainingStep ==
  ASSUME TreeInv, NEW a \in Callers, NEW t, NEW do \in {"adopt", "wait", "fold"}, NEW l \in K!Lists,
         l = CASE do = "adopt" -> "children" [] do = "wait" -> "blockedBy" [] do = "fold" -> "notes",
         K!Does(a, do, t), K!Moves(a, call[a]), stacks' = stacks,
         NEW new, DOMAIN new = {l}, NEW seen, new[l] = seen[l] \cup K!ToSet(call[a].gain),
         K!Replace(t, new, seen), K!Promise(l, t, call[a].gain)
  PROVE  TreeInv'
<1>1. TicketsTyped /\ Ages
  BY ReplaceIs DEF TreeInv, Replaced
<1>2. promised' = promised \cup {<<l, t, d>> : d \in K!ToSet(call[a].gain)}
  BY DEF K!Promise
<1>3. LinksStay
  BY <1>1, <1>2, LinksAre
<1>4. t \in Known /\ (l = "blockedBy" => K!ToSet(call[a].gain) \subseteq Known)
  BY HeadNames
<1>5. \A p \in promised' :
           \/ p \in promised /\ (p[2] = t /\ p[1] \in DOMAIN new /\ p[3] \in seen[p[1]] =>
                                   p[3] \in new[p[1]] \/ (p[1] = "blockedBy" /\ ~K!Exists(p[3])))
           \/ /\ p = <<p[1], p[2], p[3]>> /\ p[2] = t /\ t \in Known /\ p[1] \in DOMAIN new
              /\ p[3] \in new[p[1]] /\ (p[1] = "blockedBy" => p[3] \in Known)
  <2>1. ASSUME NEW p \in promised
        PROVE  p[2] = t /\ p[1] \in DOMAIN new /\ p[3] \in seen[p[1]] => p[3] \in new[p[1]]
    OBVIOUS
  <2>2. ASSUME NEW d \in K!ToSet(call[a].gain), NEW p, p = <<l, t, d>>
        PROVE  /\ p = <<p[1], p[2], p[3]>> /\ p[2] = t /\ t \in Known /\ p[1] \in DOMAIN new
               /\ p[3] \in new[p[1]] /\ (p[1] = "blockedBy" => p[3] \in Known)
    BY <1>4, <2>2
  <2> QED BY <1>2, <2>1, <2>2
<1> QED BY <1>3, <1>5, ReplacingStep

LEMMA AdoptStep ==
  ASSUME TreeInv, NEW a \in Callers, NEW t, K!Adopt(a, t) \/ K!Wait(a, t) \/ K!Fold(a, t)
  PROVE  TreeInv'
<1> DEFINE c == call[a]
<1>1. CASE K!Adopt(a, t)
  <2> DEFINE new == [children |-> c.seen.children \cup K!ToSet(c.gain)]
  <2>1. K!Does(a, "adopt", t) /\ K!Replace(t, new, c.seen) /\ K!Promise("children", t, c.gain)
        /\ K!Moves(a, c) /\ stacks' = stacks
    BY <1>1 DEF K!Adopt
  <2>2. DOMAIN new = {"children"} /\ new["children"] = c.seen["children"] \cup K!ToSet(c.gain)
    OBVIOUS
  <2>3. "children" \in K!Lists
    BY DEF K!Lists
  <2> HIDE DEF new
  <2> QED BY <2>1, <2>2, <2>3, GainingStep
<1>2. CASE K!Wait(a, t)
  <2> DEFINE new == [blockedBy |-> c.seen.blockedBy \cup K!ToSet(c.gain)]
  <2>1. K!Does(a, "wait", t) /\ K!Replace(t, new, c.seen) /\ K!Promise("blockedBy", t, c.gain)
        /\ K!Moves(a, c) /\ stacks' = stacks
    BY <1>2 DEF K!Wait
  <2>2. DOMAIN new = {"blockedBy"} /\ new["blockedBy"] = c.seen["blockedBy"] \cup K!ToSet(c.gain)
    OBVIOUS
  <2>3. "blockedBy" \in K!Lists
    BY DEF K!Lists
  <2> HIDE DEF new
  <2> QED BY <2>1, <2>2, <2>3, GainingStep
<1>3. CASE K!Fold(a, t)
  <2> DEFINE new == [notes |-> c.seen.notes \cup K!ToSet(c.gain)]
  <2>1. K!Does(a, "fold", t) /\ K!Replace(t, new, c.seen) /\ K!Promise("notes", t, c.gain)
        /\ K!Moves(a, c) /\ stacks' = stacks
    BY <1>3 DEF K!Fold
  <2>2. DOMAIN new = {"notes"} /\ new["notes"] = c.seen["notes"] \cup K!ToSet(c.gain)
    OBVIOUS
  <2>3. "notes" \in K!Lists
    BY DEF K!Lists
  <2> HIDE DEF new
  <2> QED BY <2>1, <2>2, <2>3, GainingStep
<1> QED BY <1>1, <1>2, <1>3

LEMMA PruneTicketStep ==
  ASSUME TreeInv, NEW a \in Callers, NEW t, K!PruneTicket(a, t)
  PROVE  TreeInv'
<1> DEFINE seen == [K!New(0) EXCEPT !.blockedBy = call[a].listed[t]]
           new == [blockedBy |-> seen.blockedBy \ K!Ghosts(a, t)]
<1>1. /\ K!Does(a, "prune", t) /\ K!Moves(a, call[a]) /\ promised' = promised /\ stacks' = stacks
      /\ K!Replace(t, new, seen) \/ (ticket' = ticket /\ stale' = stale)
  BY DEF K!PruneTicket
<1>2. CASE K!Replace(t, new, seen)
  <2>1. DOMAIN new = {"blockedBy"} /\ new["blockedBy"] = seen["blockedBy"] \ K!Ghosts(a, t)
        /\ DOMAIN new \subseteq K!Lists
    BY DEF K!Lists
  <2>2. \A d \in K!Ghosts(a, t) : ~K!Exists(d)
    BY DEF K!Ghosts
  <2> HIDE DEF new, seen
  <2>3. TicketsTyped /\ Ages
    BY <1>2, <2>1, ReplaceIs DEF TreeInv, Replaced
  <2>4. LinksStay
    BY <1>1, <2>3, LinksAre
  <2>5. \A p \in promised' :
           p \in promised /\ (p[2] = t /\ p[1] \in DOMAIN new /\ p[3] \in seen[p[1]] =>
                                   p[3] \in new[p[1]] \/ (p[1] = "blockedBy" /\ ~K!Exists(p[3])))
    BY <1>1, <2>1, <2>2
  <2> QED BY <1>1, <1>2, <2>1, <2>4, <2>5, ReplacingStep
<1>3. CASE ticket' = ticket /\ stale' = stale
  <2> HIDE DEF new, seen
  <2>1. /\ TicketsTyped /\ CallsTyped /\ CallsSound /\ CallsApart
        /\ PromisesName /\ K!KeepsPromises /\ StacksSound /\ early' = early
    BY <1>1, MovesKeep DEF TreeInv
  <2>2. Ages /\ NoneBegun /\ TicketsTyped'
    BY <1>3, <2>1, Unaged
  <2>3. LinksStay /\ NotedIfBegun
    BY <1>1, <2>2, LinksAre DEF NoneBegun, NotedIfBegun
  <2>4. /\ CallIs(call[a]) /\ Len(call[a].todo) \in Nat \ {0} /\ call[a].todo[1] = <<"prune", t>>
    BY <1>1, <2>1, DoesIs
  <2>5. call[a].todo[1][1] \notin {"create", "stack"} /\ call[a].todo[1] # <<"cancel", call[a].with>>
    BY <2>4
  <2>6. CallsTyped' /\ CallsSound' /\ CallsApart'
    BY <1>1, <2>1, <2>2, <2>3, <2>4, <2>5, QuietMove
  <2>7. StacksSound'
    BY <1>1, <1>3, <2>1, <2>2, <2>3, StacksKept
  <2>8. PromisesName' /\ K!KeepsPromises'
    BY <1>1, <1>3, <2>1, PromisesRest
  <2> QED BY <2>2, <2>6, <2>7, <2>8 DEF TreeInv
<1> QED BY <1>1, <1>2, <1>3

LEMMA DetachStep ==
  ASSUME TreeInv, NEW a \in Callers, NEW t, K!Detach(a, t)
  PROVE  TreeInv'
<1> DEFINE c == call[a]
           new == [l \in {"children", "blockedBy"} |-> c.seen[l] \ {c.with}]
<1>1. /\ K!Does(a, "detach", t) /\ K!Replace(t, new, c.seen)
      /\ promised' = promised \ {<<l, t, c.with>> : l \in {"children", "blockedBy"}}
      /\ K!Moves(a, c) /\ stacks' = stacks
  BY DEF K!Detach
<1>2. DOMAIN new = {"children", "blockedBy"} /\ DOMAIN new \subseteq K!Lists
      /\ \A l \in DOMAIN new : new[l] = c.seen[l] \ {c.with}
  BY DEF K!Lists
<1> HIDE DEF new
<1>3. c.with \in Known /\ Gone(c.with)
  <2>1. CallsTyped /\ Detaches(c)
    BY DEF TreeInv, CallsSound, CallSound
  <2>2. 1 \in 1..Len(c.todo) /\ c.todo[1] = <<"detach", t>>
    BY <1>1, <2>1, DoesIs
  <2>3. c.todo[1][1] = "detach" /\ \A i \in 1..(1 - 1) : FALSE
    BY <2>2
  <2> QED BY <2>1, <2>2, <2>3 DEF Detaches
<1>4. TicketsTyped /\ Ages /\ PromisesName
  BY <1>1, <1>2, ReplaceIs DEF TreeInv, Replaced
<1>5. \A p \in promised : p \in promised' \/ p[3] = c.with
  BY <1>1
<1>6. LinksStay
  BY <1>3, <1>4, <1>5, LinksAre
<1>7. ASSUME NEW p \in promised', p[2] = t, p[1] \in DOMAIN new, p[3] \in c.seen[p[1]]
      PROVE  p[3] \in new[p[1]]
  <2>1. p = <<p[1], p[2], p[3]>>
    BY <1>1, <1>4 DEF PromisesName
  <2>2. p[3] # c.with
    BY <1>1, <1>2, <1>7, <2>1
  <2> QED BY <1>2, <1>7, <2>2
<1>8. promised' \subseteq promised
  BY <1>1
<1> QED BY <1>1, <1>2, <1>6, <1>7, <1>8, ReplacingStep

(* One ticket takes another status.                                        *)
LEMMA StatusIs ==
  ASSUME TicketsTyped, NEW t \in Known,
         NEW x \in {"open", "in_progress", "done", "canceled", "deleted"},
         ticket' = [ticket EXCEPT ![t].status = x]
  PROVE  /\ TicketsTyped' /\ Len(ticket') = Len(ticket)
         /\ \A u \in Known : ticket'[u].status = IF u = t THEN x ELSE ticket[u].status
         /\ \A u \in Known, l \in K!Lists : ticket'[u][l] = ticket[u][l]
<1>1. Len(ticket) \in Nat /\ DOMAIN ticket = Known /\ \A u \in Known : TicketIs(ticket[u])
  BY DEF TicketsTyped, IsSeq, Known
<1>2. \A u \in Known : ticket'[u] = IF u = t THEN [ticket[t] EXCEPT !.status = x] ELSE ticket[u]
  BY <1>1
<1>3. IsSeq(ticket') /\ Len(ticket') = Len(ticket)
  <2>1. ticket' = [u \in 1..Len(ticket) |-> ticket'[u]]
    BY <1>1 DEF Known
  <2> QED BY <1>1, <2>1, SeqOf
<1>4. \A u \in Known : /\ TicketIs(ticket'[u])
                       /\ ticket'[u].status = IF u = t THEN x ELSE ticket[u].status
                       /\ ticket'[u]["blockedBy"] = ticket[u]["blockedBy"]
                       /\ ticket'[u]["children"] = ticket[u]["children"]
                       /\ ticket'[u]["notes"] = ticket[u]["notes"]
  BY <1>1, <1>2 DEF TicketIs
<1>5. \A u \in Known, l \in K!Lists : ticket'[u][l] = ticket[u][l]
  BY <1>4 DEF K!Lists
<1>6. TicketsTyped'
  BY <1>3, <1>4 DEF TicketsTyped, Known
<1> QED BY <1>3, <1>4, <1>5, <1>6

LEMMA StatusAges ==
  ASSUME TicketsTyped, NEW t \in Known,
         NEW x \in {"open", "in_progress", "done", "canceled", "deleted"},
         ticket' = [ticket EXCEPT ![t].status = x],
         Gone(t) => x \in {"canceled", "deleted"}, ~K!Exists(t) => x = "deleted",
         ticket[t].status = "done" => x \in {"done", "canceled", "deleted"}
  PROVE  Ages /\ (x = "in_progress" \/ x = "done" => Begun(t) \/ Begun(t)')
         /\ \A u \in Known : Begun(u)' => Begun(u) \/ (u = t /\ x \in {"in_progress", "done"})
<1>1. /\ TicketsTyped' /\ Len(ticket') = Len(ticket) /\ Len(ticket) \in Nat
      /\ \A u \in Known : ticket'[u].status = IF u = t THEN x ELSE ticket[u].status
  BY StatusIs, KnownAre
<1> QED BY <1>1 DEF Ages, Gone, Begun, K!Exists

LEMMA PromisesOutlive ==
  ASSUME TicketsTyped, PromisesName, K!KeepsPromises, Ages, promised' \subseteq promised,
         stale \subseteq stale', \A u \in Known, l \in K!Lists : ticket'[u][l] = ticket[u][l]
  PROVE  PromisesName' /\ K!KeepsPromises'
<1>1. Known \subseteq Known'
  BY KnownAre DEF Ages, Known, TicketsTyped, IsSeq
<1>2. \A u \in Known : K!Exists(u)' => K!Exists(u)
  BY DEF Ages
<1>3. PromisesName'
  BY <1>1 DEF PromisesName
<1>4. K!KeepsPromises'
  <2> SUFFICES ASSUME NEW p \in promised', K!Exists(p[2])', p[1] = "blockedBy" => K!Exists(p[3])',
                      <<p[1], p[2]>> \notin stale'
               PROVE  p[3] \in ticket'[p[2]][p[1]]
    BY DEF K!KeepsPromises
  <2>1. p \in promised /\ p[1] \in K!Lists /\ p[2] \in Known /\ (p[1] = "blockedBy" => p[3] \in Known)
    BY DEF PromisesName
  <2>2. K!Exists(p[2]) /\ (p[1] = "blockedBy" => K!Exists(p[3]))
    <3>1. PICK u, d : u = p[2] /\ d = p[3]
      OBVIOUS
    <3>2. K!Exists(u)' /\ (p[1] = "blockedBy" => K!Exists(d)')
      BY <3>1
    <3> QED BY <1>2, <2>1, <3>1, <3>2
  <2>3. p[3] \in ticket[p[2]][p[1]]
    BY <2>1, <2>2 DEF K!KeepsPromises
  <2> QED BY <2>1, <2>3
<1> QED BY <1>3, <1>4

LEMMA CancelStep ==
  ASSUME TreeInv, NEW a \in Callers, NEW t, K!CancelFolded(a, t)
  PROVE  TreeInv'
<1>1. /\ TicketsTyped /\ CallsTyped /\ CallsSound /\ CallsApart
      /\ PromisesName /\ K!KeepsPromises /\ StacksSound
  BY DEF TreeInv
<1>2. /\ K!Does(a, "cancel", t) /\ K!Moves(a, call[a])
      /\ ticket' = IF K!Exists(t) THEN [ticket EXCEPT ![t].status = "canceled"] ELSE ticket
      /\ promised' = promised /\ stale' = stale /\ stacks' = stacks /\ early' = early
  BY MovesKeep DEF K!CancelFolded
<1>3. /\ CallIs(call[a]) /\ Len(call[a].todo) \in Nat \ {0} /\ call[a].todo[1] = <<"cancel", t>>
  BY <1>1, <1>2, DoesIs
<1>4. t \in Known
  BY <1>2, HeadNames
<1>5. /\ Ages /\ NoneBegun /\ TicketsTyped' /\ Gone(t)'
      /\ \A u \in Known, l \in K!Lists : ticket'[u][l] = ticket[u][l]
  <2>1. CASE K!Exists(t)
    <3>1. ticket' = [ticket EXCEPT ![t].status = "canceled"]
      BY <1>2, <2>1
    <3>2. Ages /\ NoneBegun
      BY <1>1, <1>4, <2>1, <3>1, StatusAges DEF NoneBegun
    <3>3. TicketsTyped' /\ ticket'[t].status = "canceled"
          /\ \A u \in Known, l \in K!Lists : ticket'[u][l] = ticket[u][l]
      <4>1. PICK x \in {"open", "in_progress", "done", "canceled", "deleted"} : x = "canceled"
        OBVIOUS
      <4>2. ticket' = [ticket EXCEPT ![t].status = x]
        BY <3>1, <4>1
      <4>3. /\ TicketsTyped' /\ Len(ticket') = Len(ticket)
            /\ \A u \in Known : ticket'[u].status = IF u = t THEN x ELSE ticket[u].status
            /\ \A u \in Known, l \in K!Lists : ticket'[u][l] = ticket[u][l]
        BY <1>1, <1>4, <4>2, StatusIs
      <4> QED BY <1>4, <4>1, <4>3
    <3> QED BY <3>2, <3>3 DEF Gone
  <2>2. CASE ~K!Exists(t)
    <3>1. ticket' = ticket
      BY <1>2, <2>2
    <3>2. Ages /\ NoneBegun /\ TicketsTyped'
      BY <1>1, <3>1, Unaged
    <3>3. Gone(t)'
      BY <2>2, <3>1 DEF Gone, K!Exists
    <3> QED BY <3>1, <3>2, <3>3
  <2> QED BY <2>1, <2>2
<1>6. LinksStay /\ NotedIfBegun
  BY <1>2, <1>5, LinksAre DEF NoneBegun, NotedIfBegun
<1>7. call[a].todo[1][1] \notin {"create", "stack"}
  BY <1>3
<1>8. PICK c : c = call[a]
  OBVIOUS
<1>9. CallsTyped' /\ CallsSound' /\ CallsApart'
  <2>1. c.todo[1] = <<"cancel", c.with>> => Gone(c.with)'
    BY <1>3, <1>5, <1>8
  <2> QED BY <1>1, <1>2, <1>3, <1>5, <1>6, <1>7, <1>8, <2>1, QuietMove
<1>10. StacksSound'
  BY <1>1, <1>2, <1>5, <1>6, StacksKept
<1>11. PromisesName' /\ K!KeepsPromises'
  BY <1>1, <1>2, <1>5, PromisesOutlive
<1> QED BY <1>5, <1>9, <1>10, <1>11 DEF TreeInv

(* No call goes on.                                                        *)
LEMMA AllRest ==
  ASSUME TicketsTyped, CallsTyped, CallsSound, CallsApart, call' = call, stacks' = stacks,
         Ages, LinksStay, NotedIfBegun, early \subseteq early'
  PROVE  CallsTyped' /\ CallsSound' /\ CallsApart'
<1>1. CallsTyped'
  BY DEF CallsTyped, CallIs, IsSeq
<1>2. ASSUME NEW b \in Callers PROVE CallSound(call[b])'
  <2>1. PICK x : x = call[b]
    OBVIOUS
  <2>2. CallSound(x)
    BY <2>1 DEF CallsSound
  <2>3. CallSound(x)'
    BY <2>2, CallRests DEF OthersStack
  <2>4. x = call'[b]
    BY <2>1
  <2> QED BY <2>3, <2>4
<1>3. CallsSound'
  BY <1>2 DEF CallsSound
<1>4. CallsApart'
  <2>1. SUFFICES ASSUME NEW b \in Callers, NEW e \in Callers, b # e,
                        Stacking(call'[b]), Stacking(call'[e])
                 PROVE  Members(call'[b].gain) \cap Members(call'[e].gain) = {}
    BY DEF CallsApart, Stacking, Members
  <2> QED BY <2>1 DEF CallsApart
<1> QED BY <1>1, <1>3, <1>4

LEMMA AlteredStep ==
  ASSUME TreeInv, NEW t \in Known,
         NEW x \in {"open", "in_progress", "done", "canceled", "deleted"},
         ticket' = [ticket EXCEPT ![t].status = x],
         Gone(t) => x \in {"canceled", "deleted"}, ~K!Exists(t) => x = "deleted",
         ticket[t].status = "done" => x \in {"done", "canceled", "deleted"},
         x \in {"in_progress", "done"} => Begun(t),
         UNCHANGED <<call, promised, stale, stacks, early>>
  PROVE  TreeInv'
<1>1. /\ TicketsTyped /\ CallsTyped /\ CallsSound /\ CallsApart
      /\ PromisesName /\ K!KeepsPromises /\ StacksSound
  BY DEF TreeInv
<1>2. Ages /\ \A u \in Known : Begun(u)' => Begun(u) \/ (u = t /\ x \in {"in_progress", "done"})
  BY <1>1, StatusAges
<1>3. NoneBegun
  BY <1>2 DEF NoneBegun
<1>4. TicketsTyped' /\ \A u \in Known, l \in K!Lists : ticket'[u][l] = ticket[u][l]
  BY <1>1, StatusIs
<1>5. LinksStay /\ NotedIfBegun
  BY <1>2, <1>3, LinksAre DEF NoneBegun, NotedIfBegun
<1>6. CallsTyped' /\ CallsSound' /\ CallsApart'
  BY <1>1, <1>2, <1>5, AllRest
<1>7. StacksSound'
  BY <1>1, <1>2, <1>3, <1>5, StacksKept
<1>8. PromisesName' /\ K!KeepsPromises'
  BY <1>1, <1>2, <1>4, PromisesOutlive
<1> QED BY <1>4, <1>6, <1>7, <1>8 DEF TreeInv

LEMMA FinishStep ==
  ASSUME TreeInv, NEW t \in K!Tickets,
         \/ K!Finish(t)
         \/ K!Intervene(t, "canceled") \/ K!Intervene(t, "deleted")
  PROVE  TreeInv'
<1>1. t \in Known
  BY KnownAre DEF TreeInv
<1>2. CASE K!Finish(t)
  <2>1. PICK x \in {"open", "in_progress", "done", "canceled", "deleted"} : x = "done"
    OBVIOUS
  <2>2. /\ ticket' = [ticket EXCEPT ![t].status = x] /\ ticket[t].status = "in_progress"
        /\ UNCHANGED <<call, promised, stale, stacks, early>>
    BY <1>2, <2>1 DEF K!Finish
  <2>3. ~Gone(t) /\ K!Exists(t) /\ Begun(t) /\ ticket[t].status # "done"
    BY <2>2 DEF Gone, K!Exists, Begun
  <2> QED BY <1>1, <2>1, <2>2, <2>3, AlteredStep
<1>3. ASSUME NEW x \in {"canceled", "deleted"}, K!Intervene(t, x) PROVE TreeInv'
  <2>1. /\ ticket' = [ticket EXCEPT ![t].status = x] /\ K!Exists(t)
        /\ UNCHANGED <<call, promised, stale, stacks, early>>
    BY <1>3 DEF K!Intervene
  <2>2. x \in {"open", "in_progress", "done", "canceled", "deleted"} /\ x \notin {"in_progress", "done"}
    BY <1>3
  <2> QED BY <1>1, <1>3, <2>1, <2>2, AlteredStep
<1> QED BY <1>2, <1>3

LEMMA ServeStep ==
  ASSUME TreeInv, NEW t \in K!Tickets, K!Serve(t)
  PROVE  TreeInv'
<1>1. /\ TicketsTyped /\ CallsTyped /\ CallsSound /\ CallsApart
      /\ PromisesName /\ K!KeepsPromises /\ StacksSound /\ t \in Known
  BY KnownAre DEF TreeInv
<1>2. PICK x \in {"open", "in_progress", "done", "canceled", "deleted"} : x = "in_progress"
  OBVIOUS
<1>3. /\ K!Runnable(t) /\ ticket' = [ticket EXCEPT ![t].status = x]
      /\ early' = IF \E s \in stacks : t \in K!ToSet(s) THEN early ELSE early \cup {t}
      /\ call' = call /\ promised' = promised /\ stale' = stale /\ stacks' = stacks
  BY <1>2 DEF K!Serve
<1>4. /\ ticket[t].status = "open" /\ ~Gone(t) /\ K!Exists(t) /\ ticket[t].status # "done"
      /\ \A d \in ticket[t].blockedBy : ticket[d].status \in {"done", "canceled"}
  BY <1>3 DEF K!Runnable, K!Satisfied, Gone, K!Exists
<1>5. Ages /\ \A u \in Known : Begun(u)' => Begun(u) \/ u = t
  BY <1>1, <1>2, <1>3, <1>4, StatusAges
<1>6. /\ TicketsTyped' /\ \A u \in Known, l \in K!Lists : ticket'[u][l] = ticket[u][l]
      /\ \A u \in Known : ticket'[u].status = IF u = t THEN x ELSE ticket[u].status
  BY <1>1, <1>3, StatusIs
<1>7. LinksStay
  BY <1>3, <1>5, LinksAre
<1>8. early \subseteq early' /\ (t \in early' \/ \E s \in stacks : t \in Members(s))
  BY <1>3 DEF K!ToSet, Members
<1>9. NotedIfBegun
  BY <1>5, <1>8 DEF NotedIfBegun
<1>10. CallsTyped' /\ CallsSound' /\ CallsApart'
  BY <1>1, <1>3, <1>5, <1>7, <1>8, <1>9, AllRest
<1>11. PromisesName' /\ K!KeepsPromises'
  BY <1>1, <1>3, <1>5, <1>6, PromisesOutlive
<1>12. StacksSound'
  <2>1. ASSUME NEW s \in stacks PROVE StackSound(s)'
    <3>1. StackSound(s)
      BY <1>1 DEF StacksSound
    <3>2. ASSUME NEW k \in 2..Len(s), Begun(s[k])', ~Begun(s[k])
          PROVE  \/ <<"blockedBy", s[k]>> \in stale'
                 \/ ticket'[s[k - 1]].status \in {"done", "canceled", "deleted"}
      <4>1. s[k] \in Known /\ s[k - 1] \in Known
        <5>1. k \in 1..Len(s) /\ k - 1 \in 1..Len(s)
          BY <3>1 DEF StackSound, IsSeq
        <5> QED BY <3>1, <5>1, MembersAre DEF StackSound
      <4>2. s[k] = t
        BY <1>5, <3>2, <4>1
      <4>3. PICK y \in Known : y = s[k - 1]
        BY <4>1
      <4>4. <<"blockedBy", t, y>> \in promised \/ Gone(y)
        BY <3>1, <4>2, <4>3 DEF StackSound, Linked
      <4>5. CASE Gone(y)
        <5>1. Gone(y)'
          BY <1>5, <4>5 DEF Ages
        <5> QED BY <4>3, <5>1 DEF Gone
      <4>6. CASE <<"blockedBy", t, y>> \in promised /\ ~Gone(y) /\ <<"blockedBy", t>> \notin stale
        <5>1. K!Exists(y)
          BY <4>6 DEF Gone, K!Exists
        <5>2. y \in ticket[t].blockedBy
          <6>1. PICK p \in promised : p = <<"blockedBy", t, y>>
            BY <4>6
          <6>2. p[1] = "blockedBy" /\ p[2] = t /\ p[3] = y
            BY <6>1
          <6>3. p[3] \in ticket[p[2]][p[1]]
            BY <1>1, <1>4, <4>6, <5>1, <6>2 DEF K!KeepsPromises
          <6> QED BY <6>2, <6>3
        <5>3. ticket[y].status \in {"done", "canceled"} /\ y # t
          BY <1>4, <5>2
        <5> QED BY <1>6, <4>3, <5>3
      <4> QED BY <1>3, <4>2, <4>4, <4>5, <4>6
    <3> QED BY <1>1, <1>3, <1>5, <1>7, <1>8, <3>1, <3>2, StackStays
  <2> QED BY <1>3, <2>1 DEF StacksSound
<1> QED BY <1>6, <1>10, <1>11, <1>12 DEF TreeInv

(* A call begins or dies; the tickets stay.                                *)
LEMMA BeginsStep ==
  ASSUME TreeInv, NEW a \in Callers, NEW c, CallIs(c), CallSound(c), Stacking(c) => c.gain = <<>>,
         call' = [call EXCEPT ![a] = c],
         UNCHANGED <<ticket, promised, stale, stacks, early>>
  PROVE  TreeInv'
<1>1. /\ TicketsTyped /\ CallsTyped /\ CallsSound /\ CallsApart
      /\ PromisesName /\ K!KeepsPromises /\ StacksSound
  BY DEF TreeInv
<1>2. Ages /\ NoneBegun /\ TicketsTyped'
  BY <1>1, Unaged
<1>3. LinksStay /\ NotedIfBegun
  BY <1>2, LinksAre DEF NoneBegun, NotedIfBegun
<1>4. CallSound(c)'
  BY <1>1, <1>2, <1>3, CallRests DEF OthersStack
<1>5. ASSUME NEW b \in Callers, Stacking(c) PROVE Members(c.gain) \cap Members(call[b].gain) = {}
  BY <1>5 DEF Members
<1>6. CallsTyped' /\ CallsSound' /\ CallsApart'
  BY <1>1, <1>2, <1>3, <1>4, <1>5, CallsGo DEF OthersStack
<1>7. StacksSound'
  BY <1>1, <1>2, <1>3, StacksKept
<1>8. PromisesName' /\ K!KeepsPromises'
  BY <1>1, PromisesRest
<1> QED BY <1>2, <1>6, <1>7, <1>8 DEF TreeInv

LEMMA DiesStep ==
  ASSUME TreeInv, NEW a \in Callers, K!Dies(a)
  PROVE  TreeInv'
<1>1. call' = [call EXCEPT ![a] = K!Idle] /\ UNCHANGED <<ticket, promised, stale, stacks, early>>
  BY DEF K!Dies
<1>2. CallIs(K!Idle) /\ CallSound(K!Idle) /\ ~Stacking(K!Idle)
  BY IdleIs, NoneLeftSound
<1> QED BY <1>1, <1>2, BeginsStep

LEMMA CreateStep ==
  ASSUME TreeInv, NEW a \in Callers, NEW t, K!CreateSubtask(a, t)
  PROVE  TreeInv'
<1>1. /\ TicketsTyped /\ CallsTyped /\ CallsSound /\ CallsApart
      /\ PromisesName /\ K!KeepsPromises /\ StacksSound
  BY DEF TreeInv
<1>2. PICK old : old = call[a]
  OBVIOUS
<1> DEFINE c == [old EXCEPT !.gain = Append(@, Len(ticket) + 1)]
<1>3. /\ K!Does(a, "create", t) /\ ticket' = Append(ticket, K!New(t)) /\ K!Moves(a, c)
      /\ promised' = promised /\ stale' = stale /\ stacks' = stacks /\ early' = early
  BY <1>2, MovesKeep DEF K!CreateSubtask
<1>4. /\ CallIs(old) /\ Len(old.todo) \in Nat \ {0} /\ 1 \in 1..Len(old.todo)
      /\ old.todo[1] = <<"create", t>> /\ CallSound(old)
  BY <1>1, <1>2, <1>3, DoesIs DEF CallsSound
<1>5. IsSeq(old.gain) /\ \A i \in 1..Len(old.gain) : old.gain[i] \in Known
  BY <1>4 DEF CallSound, Names
<1>6. /\ CallIs(c) /\ c.todo = old.todo /\ c.gain = Append(old.gain, Len(ticket) + 1)
      /\ c.with = old.with
  <2>1. PICK e : e = Append(old.gain, Len(ticket) + 1)
    OBVIOUS
  <2>a. c = [old EXCEPT !.gain = e]
    BY <2>1
  <2> HIDE DEF c
  <2>b. old = [on |-> old.on, with |-> old.with, todo |-> old.todo, seen |-> old.seen,
               gain |-> old.gain, listed |-> old.listed]
    BY <1>4 DEF CallIs
  <2>2. c = [on |-> old.on, with |-> old.with, todo |-> old.todo, seen |-> old.seen,
             gain |-> e, listed |-> old.listed]
    BY <2>a, <2>b
  <2>3. CallIs(c) /\ c.todo = old.todo /\ c.gain = e /\ c.with = old.with
    BY <1>4, <2>2 DEF CallIs
  <2> QED BY <2>1, <2>3
<1> HIDE DEF c
<1>7. /\ IsSeq(c.gain) /\ Len(c.gain) = Len(old.gain) + 1 /\ Len(old.gain) \in Nat
      /\ c.gain[Len(old.gain) + 1] = Len(ticket) + 1
      /\ \A k \in 1..Len(old.gain) : c.gain[k] = old.gain[k]
  BY <1>5, <1>6, AppendIs DEF IsSeq
<1>8. /\ Len(ticket) \in Nat /\ IsSeq(ticket') /\ Len(ticket') = Len(ticket) + 1
      /\ ticket'[Len(ticket) + 1] = K!New(t)
      /\ \A u \in Known : ticket'[u] = ticket[u]
  BY <1>1, <1>3, AppendIs DEF TicketsTyped, IsSeq, Known
<1>9. Known' = Known \cup {Len(ticket) + 1} /\ Len(ticket) + 1 \notin Known
  BY <1>8 DEF Known
<1>10. TicketIs(K!New(t)) /\ K!New(t).status = "open"
  BY DEF TicketIs, K!New
<1>11. TicketsTyped'
  <2>1. ASSUME NEW u \in 1..Len(ticket') PROVE TicketIs(ticket'[u])
    <3>1. u \in Known \/ u = Len(ticket) + 1
      BY <1>8 DEF Known
    <3>2. u \in Known => TicketIs(ticket[u]) /\ ticket'[u] = ticket[u]
      BY <1>1, <1>8 DEF TicketsTyped, Known
    <3>3. CASE u \in Known
      <4>1. ticket'[u] = ticket[u] /\ TicketIs(ticket[u])
        BY <3>2, <3>3
      <4> QED BY <4>1 DEF TicketIs
    <3>4. CASE u = Len(ticket) + 1
      BY <1>8, <1>10, <3>4
    <3> QED BY <3>1, <3>3, <3>4
  <2> QED BY <1>8, <2>1 DEF TicketsTyped, TicketIs
<1>12. Ages /\ NoneBegun
  BY <1>8, <1>11 DEF Ages, NoneBegun, Gone, Begun, K!Exists
<1>13. LinksStay /\ NotedIfBegun
  BY <1>3, <1>12, LinksAre DEF NoneBegun, NotedIfBegun
<1>14. CallSound(old)'
  BY <1>1, <1>3, <1>4, <1>12, <1>13, CallRests DEF OthersStack
<1>15. PICK d : /\ call' = [call EXCEPT ![a] = d] /\ CallIs(d)
                /\ Len(d.todo) = 0 \/ Shifts(c, d)
  BY <1>1, <1>3, <1>4, <1>6, MovesIs
<1>16. ASSUME Shifts(c, d)
       PROVE  CallSound(d)' /\ (Stacking(d) => Stacking(old))
  <2>1. /\ Len(old.todo) \in Nat /\ Len(d.todo) \in Nat /\ Len(d.todo) = Len(old.todo) - 1
        /\ \A k \in 1..Len(d.todo) : d.todo[k] = old.todo[k + 1] /\ k + 1 \in 1..Len(old.todo)
        /\ d.with = old.with /\ d.gain = c.gain
    BY <1>4, <1>6, <1>16 DEF Shifts, CallIs, IsSeq
  <2>2. \A i \in 1..Len(d.gain) : d.gain[i] \in Known'
    <3>1. ASSUME NEW i \in 1..Len(d.gain) PROVE d.gain[i] \in Known'
      <4>1. i \in 1..Len(old.gain) \/ i = Len(old.gain) + 1
        BY <1>7, <2>1
      <4>2. i \in 1..Len(old.gain) => d.gain[i] \in Known
        BY <1>5, <1>7, <2>1
      <4>3. i = Len(old.gain) + 1 => d.gain[i] = Len(ticket) + 1
        BY <1>7, <2>1
      <4> QED BY <1>9, <4>1, <4>2, <4>3
    <3> QED BY <3>1
  <2>3. Names(d)'
    <3>0. /\ \A i \in 1..Len(d.gain) : d.gain[i] \in Known'
          /\ IsSeq(d.gain)
      BY <1>7, <2>1, <2>2
    <3>1. ASSUME NEW k \in 1..Len(d.todo)
          PROVE  d.todo[k][1] \in {"adopt", "wait", "fold", "cancel"} => d.todo[k][2] \in Known'
      <4>1. Names(old) /\ d.todo[k] = old.todo[k + 1] /\ k + 1 \in 1..Len(old.todo)
        BY <1>4, <2>1 DEF CallSound
      <4>2. old.todo[k + 1][1] \in {"adopt", "wait", "fold", "cancel"} => old.todo[k + 1][2] \in Known
        BY <4>1 DEF Names
      <4> QED BY <1>9, <4>1, <4>2
    <3>2. IsSeq(d.gain)
      BY <1>7, <2>1
    <3> QED BY <2>2, <3>1, <3>2 DEF Names, IsSeq
  <2>4. Detaches(d)'
    <3>1. Detaches(old)'
      BY <1>14 DEF CallSound
    <3>2. old.todo[1] # <<"cancel", old.with>>
      BY <1>4
    <3> QED BY <2>1, <3>1, <3>2, DetachesLaterThen
  <2>5. Stacking(d) => Stacking(old)
    BY <2>1 DEF Stacking
  <2>6. ASSUME Stacking(d) PROVE (Unstacked(d) /\ \E n, m, r \in Nat : Stacks(d, n, m, r))'
    <3>1. Unstacked(old) /\ \E n, m, r \in Nat : Stacks(old, n, m, r)
      BY <1>4, <2>5, <2>6 DEF CallSound
    <3>2. ASSUME NEW k \in 1..Len(d.gain)
          PROVE  /\ \A s \in stacks' : d.gain[k] \notin Members(s)
                 /\ Begun(d.gain[k])' => d.gain[k] \in early'
      <4>1. CASE k \in 1..Len(old.gain)
        <5>1. d.gain[k] = old.gain[k] /\ old.gain[k] \in Known
          BY <1>5, <1>7, <2>1, <4>1
        <5> QED BY <1>3, <1>12, <3>1, <4>1, <5>1 DEF Unstacked, NoneBegun
      <4>2. CASE k = Len(old.gain) + 1
        <5>1. d.gain[k] = Len(ticket) + 1
          BY <1>7, <2>1, <4>2
        <5>2. \A s \in stacks : Members(s) \subseteq Known
          BY <1>1 DEF StacksSound, StackSound
        <5>3. ~Begun(d.gain[k])'
          BY <1>8, <1>10, <5>1 DEF Begun
        <5> QED BY <1>3, <1>9, <5>1, <5>2, <5>3
      <4> QED BY <1>7, <2>1, <4>1, <4>2
    <3>3. Unstacked(d)'
      BY <3>2 DEF Unstacked
    <3>4. PICK n \in Nat, m \in Nat, r \in Nat : Stacks(old, n, m, r)
      BY <3>1
    <3>a. /\ n = m + Len(old.gain) /\ r \in 1..(n - 1) /\ m + r <= Len(old.todo)
          /\ m > 0 => r = n - 1
      BY <3>4 DEF Stacks
    <3>b. ASSUME NEW k \in 1..Len(old.todo)
          PROVE  /\ old.todo[k][1] = "create" <=> k <= m
                 /\ old.todo[k][1] = "stack" <=> m < k /\ k <= m + r
                 /\ old.todo[k][1] = "stack" => old.todo[k][2] = n - 1 - r + k - m
      BY <3>4 DEF Stacks
    <3>5. 1 <= m /\ m - 1 \in Nat /\ r = n - 1 /\ n = m + Len(old.gain)
      <4>1. old.todo[1][1] = "create"
        BY <1>4
      <4>2. 1 <= m
        BY <1>4, <3>b, <4>1
      <4>3. n = m + Len(old.gain) /\ (m > 0 => r = n - 1)
        BY <3>a
      <4>4. m - 1 \in Nat /\ m > 0
        BY <4>2
      <4> QED BY <4>2, <4>3, <4>4
    <3>6. n = (m - 1) + Len(d.gain) /\ (m - 1) + r <= Len(d.todo) /\ r \in 1..(n - 1)
      <4>1. /\ Len(d.gain) = Len(old.gain) + 1 /\ Len(d.todo) = Len(old.todo) - 1
            /\ Len(old.gain) \in Nat /\ Len(old.todo) \in Nat
        BY <1>7, <2>1
      <4>2. r \in 1..(n - 1) /\ m + r <= Len(old.todo)
        BY <3>a
      <4> QED BY <3>5, <4>1, <4>2
    <3>7. ASSUME NEW k \in 1..Len(d.todo)
          PROVE  /\ d.todo[k][1] = "create" <=> k <= m - 1
                 /\ d.todo[k][1] = "stack" <=> m - 1 < k /\ k <= (m - 1) + r
                 /\ d.todo[k][1] = "stack" => d.todo[k][2] = n - 1 - r + k - (m - 1)
      <4>1. d.todo[k] = old.todo[k + 1] /\ k + 1 \in 1..Len(old.todo)
        BY <2>1
      <4>2. /\ old.todo[k + 1][1] = "create" <=> k + 1 <= m
            /\ old.todo[k + 1][1] = "stack" <=> m < k + 1 /\ k + 1 <= m + r
            /\ old.todo[k + 1][1] = "stack" => old.todo[k + 1][2] = n - 1 - r + (k + 1) - m
        BY <3>b, <4>1
      <4>3. k + 1 <= m <=> k <= m - 1
        BY <3>a, <3>5
      <4>4. (m < k + 1 /\ k + 1 <= m + r) <=> (m - 1 < k /\ k <= (m - 1) + r)
        BY <3>a, <3>5
      <4>5. n - 1 - r + (k + 1) - m = n - 1 - r + k - (m - 1)
        BY <3>a, <3>5
      <4> QED BY <4>1, <4>2, <4>3, <4>4, <4>5
    <3>8. 2..(n - r) = {}
      BY <3>5
    <3>9. Stacks(d, n, m - 1, r)'
      BY <3>5, <3>6, <3>7, <3>8 DEF Stacks
    <3> QED BY <3>3, <3>5, <3>9
  <2> QED BY <2>3, <2>4, <2>5, <2>6 DEF CallSound, Stacking
<1>17. CallSound(d)'
  BY <1>15, <1>16, NoneLeftSoundThen
<1>18. ASSUME NEW b \in Callers, b # a, Stacking(d), Stacking(call[b])
       PROVE  Members(d.gain) \cap Members(call[b].gain) = {}
  <2>1. Stacking(old) /\ d.gain = c.gain
    BY <1>15, <1>16, <1>18, NoneLeftSound DEF Shifts
  <2>2. Members(old.gain) \cap Members(call[b].gain) = {}
    BY <1>1, <1>2, <1>18, <2>1 DEF CallsApart
  <2>3. Members(call[b].gain) \subseteq Known
    <3>1. PICK x : x = call[b]
      OBVIOUS
    <3>2. IsSeq(x.gain) /\ \A i \in 1..Len(x.gain) : x.gain[i] \in Known
      BY <1>1, <1>18, <3>1 DEF CallsSound, CallSound, Names, Stacking
    <3> QED BY <3>1, <3>2, MembersAre
  <2>4. Members(d.gain) \subseteq Members(old.gain) \cup {Len(ticket) + 1}
    BY <1>5, <1>7, <2>1, MembersAre
  <2> QED BY <1>9, <2>2, <2>3, <2>4
<1>19. CallsTyped' /\ CallsSound' /\ CallsApart'
  BY <1>1, <1>3, <1>12, <1>13, <1>15, <1>17, <1>18, CallsGo DEF OthersStack
<1>20. StacksSound'
  BY <1>1, <1>3, <1>12, <1>13, StacksKept
<1>21. PromisesName' /\ K!KeepsPromises'
  BY <1>1, <1>3, <1>8, <1>12, PromisesOutlive
<1> QED BY <1>11, <1>19, <1>20, <1>21 DEF TreeInv

LEMMA StackStep ==
  ASSUME TreeInv, NEW a \in Callers, NEW i, K!Stack(a, i)
  PROVE  TreeInv'
<1>1. /\ TicketsTyped /\ CallsTyped /\ CallsSound /\ CallsApart
      /\ PromisesName /\ K!KeepsPromises /\ StacksSound
  BY DEF TreeInv
<1>2. PICK c, made : c = call[a] /\ made = c.gain
  OBVIOUS
<1> DEFINE t == made[i + 1]
           new == [blockedBy |-> {made[i]}]
           seen == K!New(0)
<1>3. /\ K!Does(a, "stack", i) /\ K!Replace(t, new, seen)
      /\ promised' = promised \cup {<<"blockedBy", t, x>> : x \in K!ToSet(<<made[i]>>)}
      /\ stacks' = IF i = Len(made) - 1 THEN stacks \cup {made} ELSE stacks
      /\ K!Moves(a, c) /\ early' = early
  BY <1>2, MovesKeep DEF K!Stack, K!Promise
<1>4. /\ CallIs(c) /\ Len(c.todo) \in Nat \ {0} /\ 1 \in 1..Len(c.todo)
      /\ c.todo[1] = <<"stack", i>> /\ CallSound(c)
  BY <1>1, <1>2, <1>3, DoesIs DEF CallsSound
<1>5. Stacking(c) /\ Unstacked(c) /\ IsSeq(made) /\ \A k \in 1..Len(made) : made[k] \in Known
  BY <1>2, <1>4 DEF CallSound, Names, Stacking
<1>6. PICK n \in Nat, m \in Nat, r \in Nat : Stacks(c, n, m, r)
  BY <1>4, <1>5 DEF CallSound
<1>7. /\ n = m + Len(made) /\ r \in 1..(n - 1) /\ m + r <= Len(c.todo)
      /\ \A k \in 1..Len(c.todo) :
           /\ c.todo[k][1] = "create" <=> k <= m
           /\ c.todo[k][1] = "stack" <=> m < k /\ k <= m + r
           /\ c.todo[k][1] = "stack" => c.todo[k][2] = n - 1 - r + k - m
      /\ \A k \in 2..(n - r) : k <= Len(made) => Linked(made[k - 1], made[k])
  BY <1>2, <1>6 DEF Stacks
<1>8. m = 0 /\ n = Len(made) /\ i = n - r
  <2>1. c.todo[1][1] = "stack" /\ c.todo[1][2] = i /\ c.todo[1][1] # "create"
    BY <1>4
  <2>2. ~(1 <= m) /\ i = n - 1 - r + 1 - m
    BY <1>4, <1>7, <2>1
  <2>3. m = 0 /\ Len(made) \in Nat
    BY <1>5, <2>2 DEF IsSeq
  <2> QED BY <1>7, <2>2, <2>3
<1>9. i \in 1..Len(made) /\ i + 1 \in 1..Len(made) /\ t \in Known /\ made[i] \in Known
  <2>1. i \in 1..Len(made) /\ i + 1 \in 1..Len(made)
    BY <1>7, <1>8
  <2> QED BY <1>5, <2>1
<1>10. promised' = promised \cup {<<"blockedBy", t, made[i]>>}
  <2>1. PICK y : y = made[i]
    OBVIOUS
  <2>2. K!ToSet(<<y>>) = {y}
    BY DEF K!ToSet
  <2> QED BY <1>3, <2>1, <2>2
<1>11. /\ DOMAIN new = {"blockedBy"} /\ new["blockedBy"] = {made[i]} /\ seen["blockedBy"] = {}
       /\ DOMAIN new \subseteq K!Lists
  BY DEF K!Lists, K!New
<1> HIDE DEF new, seen
<1>12. Replaced(t, new, seen)
  BY <1>1, <1>3, <1>11, ReplaceIs
<1>13. Ages /\ NoneBegun /\ TicketsTyped' /\ stale \subseteq stale' /\ Known' = Known
  BY <1>12 DEF Replaced, Ages, Known
<1>14. PromisesName' /\ K!KeepsPromises'
  <2>1. \A p \in promised' :
           \/ p \in promised /\ (p[2] = t /\ p[1] \in DOMAIN new /\ p[3] \in seen[p[1]] =>
                                   p[3] \in new[p[1]] \/ (p[1] = "blockedBy" /\ ~K!Exists(p[3])))
           \/ /\ p = <<p[1], p[2], p[3]>> /\ p[2] = t /\ t \in Known /\ p[1] \in DOMAIN new
              /\ p[3] \in new[p[1]] /\ (p[1] = "blockedBy" => p[3] \in Known)
    <3>1. ASSUME NEW p \in promised
          PROVE  p[2] = t /\ p[1] \in DOMAIN new /\ p[3] \in seen[p[1]] => p[3] \in new[p[1]]
      BY <1>11
    <3>2. ASSUME NEW p, p = <<"blockedBy", t, made[i]>>
          PROVE  /\ p = <<p[1], p[2], p[3]>> /\ p[2] = t /\ t \in Known /\ p[1] \in DOMAIN new
                 /\ p[3] \in new[p[1]] /\ (p[1] = "blockedBy" => p[3] \in Known)
      BY <1>9, <1>11, <3>2
    <3> QED BY <1>10, <3>1, <3>2
  <2> QED BY <1>1, <1>11, <1>12, <2>1, PromisesKept
<1> HIDE DEF t
<1>15. LinksStay
  BY <1>10, <1>13, LinksAre
<1>16. NotedIfBegun
  BY <1>13 DEF NoneBegun, NotedIfBegun
<1>17. Linked(made[i], t)'
  <2>1. PICK y, z : y = made[i] /\ z = t
    OBVIOUS
  <2>2. Linked(y, z)'
    BY <1>10, <2>1 DEF Linked
  <2> QED BY <2>1, <2>2
<1>18. ASSUME NEW k \in 2..(i + 1) PROVE Linked(made[k - 1], made[k])'
  <2>1. CASE k = i + 1
    <3>1. (i + 1) - 1 = i
      BY <1>9
    <3> QED BY <1>17, <2>1, <3>1 DEF t
  <2>2. CASE k # i + 1
    <3>0. i = n - r /\ n = Len(made) /\ n \in Nat /\ r \in 1..(n - 1)
      BY <1>7, <1>8
    <3>1. k \in 2..(n - r) /\ k <= Len(made) /\ k \in 1..Len(made) /\ k - 1 \in 1..Len(made)
      BY <2>2, <3>0
    <3>2. PICK y \in Known, z \in Known : y = made[k - 1] /\ z = made[k]
      BY <1>5, <3>1
    <3>3. Linked(y, z)
      BY <1>7, <3>1, <3>2
    <3>4. Linked(y, z)'
      BY <1>15, <3>3 DEF LinksStay
    <3> QED BY <3>2, <3>4
  <2> QED BY <2>1, <2>2
<1>19. PICK d : /\ call' = [call EXCEPT ![a] = d] /\ CallIs(d)
                /\ Len(d.todo) = 0 \/ Shifts(c, d)
  BY <1>1, <1>3, <1>4, MovesIs
<1>20. ASSUME Shifts(c, d)
       PROVE  CallSound(d)'
  <2>1. /\ Len(c.todo) \in Nat /\ Len(d.todo) \in Nat /\ Len(d.todo) = Len(c.todo) - 1
        /\ \A k \in 1..Len(d.todo) : d.todo[k] = c.todo[k + 1] /\ k + 1 \in 1..Len(c.todo)
        /\ d.with = c.with /\ d.gain = made
    BY <1>2, <1>4, <1>20 DEF Shifts, CallIs, IsSeq
  <2>2. Names(d)'
    <3>1. ASSUME NEW k \in 1..Len(d.todo)
          PROVE  d.todo[k][1] \in {"adopt", "wait", "fold", "cancel"} => d.todo[k][2] \in Known'
      <4>1. Names(c) /\ d.todo[k] = c.todo[k + 1] /\ k + 1 \in 1..Len(c.todo)
        BY <1>4, <2>1 DEF CallSound
      <4>2. c.todo[k + 1][1] \in {"adopt", "wait", "fold", "cancel"} => c.todo[k + 1][2] \in Known
        BY <4>1 DEF Names
      <4> QED BY <1>13, <4>1, <4>2
    <3>2. IsSeq(d.gain) /\ \A k \in 1..Len(d.gain) : d.gain[k] \in Known'
      BY <1>5, <1>13, <2>1
    <3> QED BY <3>1, <3>2 DEF Names, IsSeq
  <2>3. Detaches(d)'
    <3>1. Detaches(c)
      BY <1>4 DEF CallSound
    <3>2. Detaches(c)'
      BY <1>13, <3>1 DEF Detaches, Ages
    <3>3. c.todo[1] # <<"cancel", c.with>>
      BY <1>4
    <3> QED BY <2>1, <3>2, <3>3, DetachesLaterThen
  <2>4. ASSUME Stacking(d) PROVE (Unstacked(d) /\ \E nn, mm, rr \in Nat : Stacks(d, nn, mm, rr))'
    <3>1. PICK q \in 1..Len(d.todo) : d.todo[q][1] = "stack"
      BY <2>4 DEF Stacking
    <3>2. r - 1 \in 1..(n - 1) /\ r - 1 \in Nat
      <4>1. c.todo[q + 1][1] = "stack" /\ q + 1 \in 1..Len(c.todo)
        BY <2>1, <3>1
      <4>2. q + 1 <= m + r
        BY <1>7, <4>1
      <4> QED BY <1>7, <1>8, <3>1, <4>2
    <3>3. i # Len(made) - 1
      BY <1>7, <1>8, <3>2
    <3>4. stacks' = stacks
      BY <1>3, <3>3
    <3>5. Unstacked(d)'
      <4>1. \A k \in 1..Len(made) : /\ \A s \in stacks : made[k] \notin Members(s)
                                    /\ Begun(made[k]) => made[k] \in early
        BY <1>2, <1>5 DEF Unstacked
      <4>2. ASSUME NEW k \in 1..Len(made)
            PROVE  /\ \A s \in stacks' : made[k] \notin Members(s)
                   /\ Begun(made[k])' => made[k] \in early'
        <5>1. PICK y \in Known : y = made[k]
          BY <1>5
        <5>2. Begun(y)' => Begun(y)
          BY <1>13 DEF NoneBegun
        <5> QED BY <1>3, <3>4, <4>1, <5>1, <5>2
      <4> QED BY <2>1, <4>2 DEF Unstacked
    <3>6. ASSUME NEW k \in 1..Len(d.todo)
          PROVE  /\ d.todo[k][1] = "create" <=> k <= 0
                 /\ d.todo[k][1] = "stack" <=> 0 < k /\ k <= 0 + (r - 1)
                 /\ d.todo[k][1] = "stack" => d.todo[k][2] = n - 1 - (r - 1) + k - 0
      <4>1. d.todo[k] = c.todo[k + 1] /\ k + 1 \in 1..Len(c.todo)
        BY <2>1
      <4>2. /\ c.todo[k + 1][1] = "create" <=> k + 1 <= m
            /\ c.todo[k + 1][1] = "stack" <=> m < k + 1 /\ k + 1 <= m + r
            /\ c.todo[k + 1][1] = "stack" => c.todo[k + 1][2] = n - 1 - r + (k + 1) - m
        BY <1>7, <4>1
      <4>3. k + 1 <= m <=> k <= 0
        BY <1>8
      <4>4. (m < k + 1 /\ k + 1 <= m + r) <=> (0 < k /\ k <= 0 + (r - 1))
        BY <1>8
      <4>5. n - 1 - r + (k + 1) - m = n - 1 - (r - 1) + k - 0
        BY <1>8
      <4> QED BY <4>1, <4>2, <4>3, <4>4, <4>5
    <3>7. n = 0 + Len(d.gain) /\ 0 + (r - 1) <= Len(d.todo) /\ (0 > 0 => r - 1 = n - 1)
      BY <1>7, <1>8, <2>1
    <3>8. \A k \in 2..(n - (r - 1)) : Linked(d.gain[k - 1], d.gain[k])'
      <4>1. n - (r - 1) = i + 1
        BY <1>8
      <4> QED BY <1>18, <2>1, <4>1
    <3>9. Stacks(d, n, 0, r - 1)'
      BY <3>2, <3>6, <3>7, <3>8 DEF Stacks
    <3> QED BY <3>2, <3>5, <3>9
  <2> QED BY <2>2, <2>3, <2>4 DEF CallSound, Stacking
<1>21. CallSound(d)'
  BY <1>19, <1>20, NoneLeftSoundThen
<1>22. Stacking(d) => d.gain = made
  BY <1>2, <1>19, NoneLeftSound DEF Shifts
<1>23. ASSUME NEW b \in Callers, b # a, Stacking(call[b])
       PROVE  /\ Members(made) \cap Members(call[b].gain) = {}
              /\ OthersStack(call[b])
  <2>1. Members(made) \cap Members(call[b].gain) = {}
    BY <1>1, <1>2, <1>5, <1>23 DEF CallsApart
  <2>2. IsSeq(call[b].gain)
    <3>1. PICK x : x = call[b]
      OBVIOUS
    <3> QED BY <1>1, <1>23, <3>1 DEF CallsSound, CallSound, Names, Stacking
  <2>3. \A k \in 1..Len(call[b].gain) : call[b].gain[k] \notin Members(made)
    BY <2>1, <2>2, MembersAre
  <2> QED BY <1>3, <2>1, <2>3 DEF OthersStack
<1>24. CallsTyped' /\ CallsSound' /\ CallsApart'
  BY <1>1, <1>3, <1>13, <1>15, <1>16, <1>19, <1>21, <1>22, <1>23, CallsGo
<1>25. StacksSound'
  <2>1. ASSUME NEW s \in stacks PROVE StackSound(s)'
    <3>1. StackSound(s)
      BY <1>1 DEF StacksSound
    <3>2. \A k \in 2..Len(s) : s[k] \in Known
      BY <3>1, MembersAre DEF StackSound, IsSeq
    <3> QED BY <1>1, <1>3, <1>13, <1>15, <3>1, <3>2, StackStays DEF NoneBegun
  <2>2. ASSUME i = Len(made) - 1 PROVE StackSound(made)'
    <3>1. IsSeq(made) /\ Members(made) \subseteq Known'
      BY <1>5, <1>13, MembersAre
    <3>2. ASSUME NEW k \in 2..Len(made)
          PROVE  Linked(made[k - 1], made[k])' /\ (Begun(made[k])' => made[k] \in early')
      <4>1. k \in 2..(i + 1) /\ k \in 1..Len(made)
        BY <1>7, <1>8, <2>2
      <4>2. PICK y \in Known : y = made[k]
        BY <1>5, <4>1
      <4>3. Begun(y)' => Begun(y)
        BY <1>13 DEF NoneBegun
      <4>4. Begun(y) => y \in early
        BY <1>2, <1>5, <4>1, <4>2 DEF Unstacked
      <4> QED BY <1>3, <1>18, <4>1, <4>2, <4>3, <4>4
    <3> QED BY <3>1, <3>2 DEF StackSound, IsSeq, Members
  <2>3. \A s \in stacks' : s \in stacks \/ (s = made /\ i = Len(made) - 1)
    BY <1>3
  <2> QED BY <2>1, <2>2, <2>3 DEF StacksSound
<1> QED BY <1>13, <1>14, <1>24, <1>25 DEF TreeInv

(* The calls as they begin.                                                *)
LEMMA PairSeqs ==
  /\ IsSeq(<<>>) /\ Len(<<>>) = 0
  /\ \A x : IsSeq(<<x>>) /\ Len(<<x>>) = 1
  /\ \A x, y : IsSeq(<<x, y>>) /\ Len(<<x, y>>) = 2
BY DEF IsSeq

LEMMA BeginIs ==
  ASSUME TreeInv, NEW a \in Callers, NEW c, CallIs(c), CallSound(c), Stacking(c) => c.gain = <<>>,
         K!Begins(a, c)
  PROVE  TreeInv'
<1>1. call' = [call EXCEPT ![a] = c] /\ UNCHANGED <<ticket, promised, stale, stacks, early>>
  BY DEF K!Begins
<1> QED BY <1>1, BeginsStep

LEMMA SplitStep ==
  ASSUME TreeInv, NEW a \in Callers, NEW p \in K!Tickets, NEW n \in 1..MaxParts,
         NEW sequential, NEW hold, K!SplitTicket(a, p, n, sequential, hold)
  PROVE  TreeInv'
<1>0. n \in Nat /\ n >= 1
  OBVIOUS
<1>1. PICK q1, q2, q3, q4 :
        /\ q1 = [i \in 1..n |-> <<"create", p>>]
        /\ q2 = IF sequential THEN [i \in 1..(n - 1) |-> <<"stack", i>>] ELSE <<>>
        /\ q3 = <<<<"adopt", p>>>>
        /\ q4 = IF hold THEN <<<<"wait", p>>>> ELSE <<>>
  OBVIOUS
<1>2. IsSeq(q1) /\ Len(q1) = n
  BY <1>0, <1>1, SeqOf
<1>3. PICK r : /\ IsSeq(q2) /\ Len(q2) = r /\ r \in Nat /\ (r = n - 1 \/ r = 0)
               /\ \A k \in 1..r : q2[k] = <<"stack", k>>
  <2>1. CASE sequential
    <3>1. q2 = [i \in 1..(n - 1) |-> <<"stack", i>>] /\ n - 1 \in Nat
      BY <1>0, <1>1, <2>1
    <3>2. IsSeq(q2) /\ Len(q2) = n - 1
      BY <3>1, SeqOf
    <3> QED BY <3>1, <3>2
  <2>2. CASE ~sequential
    <3>1. q2 = <<>>
      BY <1>1, <2>2
    <3>2. IsSeq(q2) /\ Len(q2) = 0
      BY <3>1, PairSeqs
    <3> QED BY <3>2
  <2> QED BY <2>1, <2>2
<1>4. IsSeq(q3) /\ Len(q3) = 1 /\ q3[1] = <<"adopt", p>>
  BY <1>1, PairSeqs
<1>5. IsSeq(q4) /\ Len(q4) \in {0, 1} /\ \A k \in 1..Len(q4) : q4[k] = <<"wait", p>>
  BY <1>1, PairSeqs
<1>6. PICK q12 : q12 = q1 \o q2
  OBVIOUS
<1>7. /\ IsSeq(q12) /\ Len(q12) = n + r /\ \A k \in 1..n : q12[k] = q1[k]
      /\ \A k \in 1..r : q12[n + k] = q2[k]
  <2>1. /\ IsSeq(q12) /\ Len(q12) = Len(q1) + Len(q2)
        /\ \A k \in 1..Len(q1) : q12[k] = q1[k]
        /\ \A k \in 1..Len(q2) : q12[Len(q1) + k] = q2[k]
    <3>1. IsSeq(q1) /\ IsSeq(q2)
      BY <1>2, <1>3
    <3> QED BY <1>6, <3>1, ConcatIs
  <2> QED BY <1>2, <1>3, <2>1
<1>8. PICK q123 : q123 = q12 \o q3
  OBVIOUS
<1>9. /\ IsSeq(q123) /\ Len(q123) = n + r + 1 /\ \A k \in 1..(n + r) : q123[k] = q12[k]
      /\ q123[n + r + 1] = q3[1]
  <2>1. /\ IsSeq(q123) /\ Len(q123) = Len(q12) + Len(q3)
        /\ \A k \in 1..Len(q12) : q123[k] = q12[k]
        /\ \A k \in 1..Len(q3) : q123[Len(q12) + k] = q3[k]
    <3>1. IsSeq(q12) /\ IsSeq(q3)
      BY <1>4, <1>7
    <3> QED BY <1>8, <3>1, ConcatIs
  <2> QED BY <1>4, <1>7, <2>1
<1>10. PICK q : q = q123 \o q4
  OBVIOUS
<1>11. /\ IsSeq(q) /\ Len(q) = n + r + 1 + Len(q4)
       /\ \A k \in 1..(n + r + 1) : q[k] = q123[k]
       /\ \A k \in 1..Len(q4) : q[(n + r + 1) + k] = q4[k]
  BY <1>5, <1>9, <1>10, ConcatIs
<1>12. ASSUME NEW k \in 1..Len(q)
       PROVE  \/ k <= n /\ q[k] = <<"create", p>>
              \/ n < k /\ k <= n + r /\ q[k] = <<"stack", k - n>>
              \/ k = n + r + 1 /\ q[k] = <<"adopt", p>>
              \/ k > n + r + 1 /\ q[k] = <<"wait", p>>
  <2>0. k \in Int /\ 1 <= k /\ k <= n + r + 1 + Len(q4) /\ r \in Nat
    BY <1>0, <1>3, <1>5, <1>11
  <2>1. CASE k <= n
    <3>1. k \in 1..n /\ k \in 1..(n + r) /\ k \in 1..(n + r + 1)
      BY <1>0, <2>0, <2>1
    <3> QED BY <1>1, <1>7, <1>9, <1>11, <2>1, <3>1
  <2>2. CASE n < k /\ k <= n + r
    <3>1. k - n \in 1..r /\ n + (k - n) = k /\ k \in 1..(n + r) /\ k \in 1..(n + r + 1)
      BY <1>0, <2>0, <2>2
    <3>2. q12[n + (k - n)] = q2[k - n]
      BY <1>7, <3>1
    <3> QED BY <1>3, <1>9, <1>11, <2>2, <3>1, <3>2
  <2>3. CASE k = n + r + 1
    <3>1. k \in 1..(n + r + 1)
      BY <2>0, <2>3
    <3> QED BY <1>4, <1>9, <1>11, <2>3, <3>1
  <2>4. CASE k > n + r + 1
    <3>1. k - (n + r + 1) \in 1..Len(q4) /\ (n + r + 1) + (k - (n + r + 1)) = k
      BY <1>0, <1>5, <2>0, <2>4
    <3>2. q[(n + r + 1) + (k - (n + r + 1))] = q4[k - (n + r + 1)]
      BY <1>11, <3>1
    <3> QED BY <1>5, <2>4, <3>1, <3>2
  <2> QED BY <1>0, <2>0, <2>1, <2>2, <2>3, <2>4
<1> PICK idle : idle = K!Idle
  OBVIOUS
<1>13. PICK c : c = [idle EXCEPT !.on = p, !.seen = ticket[p], !.todo = q] /\ K!Begins(a, c)
  BY <1>1, <1>6, <1>8, <1>10 DEF K!SplitTicket
<1>14. c.todo = q /\ c.gain = <<>> /\ CallIs(c)
  <2>1. CallIs(idle) /\ idle.gain = <<>>
    BY IdleIs DEF K!Idle
  <2>2. c.todo = q /\ c.gain = idle.gain
    BY <1>13, <2>1 DEF CallIs
  <2>3. c = [on |-> c.on, with |-> c.with, todo |-> c.todo, seen |-> c.seen, gain |-> c.gain,
             listed |-> c.listed]
    BY <1>13, <2>1 DEF CallIs
  <2> QED BY <1>11, <2>1, <2>2, <2>3 DEF CallIs
<1>15. p \in Known
  BY KnownAre DEF TreeInv
<1>16. Names(c)
  <2>1. IsSeq(c.gain) /\ Len(c.gain) = 0
    BY <1>14, PairSeqs
  <2>2. ASSUME NEW k \in 1..Len(c.todo)
        PROVE  c.todo[k][1] \in {"adopt", "wait", "fold", "cancel"} => c.todo[k][2] \in Known
    BY <1>12, <1>14, <1>15
  <2> QED BY <2>1, <2>2 DEF Names
<1>17. Detaches(c)
  <2>1. \A k \in 1..Len(c.todo) : c.todo[k][1] # "detach"
    BY <1>12, <1>14
  <2> QED BY <2>1 DEF Detaches
<1>18. ASSUME Stacking(c) PROVE Unstacked(c) /\ \E nn, m, rr \in Nat : Stacks(c, nn, m, rr)
  <2>1. r = n - 1 /\ r \in 1..(n - 1)
    <3>1. PICK k \in 1..Len(q) : q[k][1] = "stack"
      BY <1>14, <1>18 DEF Stacking
    <3>2. n < k /\ k <= n + r
      BY <1>12, <3>1
    <3> QED BY <1>0, <1>3, <3>1, <3>2
  <2>2. Len(c.gain) = 0
    BY <1>14, PairSeqs
  <2>3. ASSUME NEW k \in 1..Len(q)
        PROVE  /\ q[k][1] = "create" <=> k <= n
               /\ q[k][1] = "stack" <=> n < k /\ k <= n + r
               /\ q[k][1] = "stack" => q[k][2] = n - 1 - r + k - n
    <3>1. n - 1 - r + k - n = k - n
      BY <1>0, <2>1
    <3> QED BY <1>0, <1>3, <1>12, <3>1
  <2>4. n = n + Len(c.gain) /\ n + r <= Len(c.todo)
    BY <1>0, <1>3, <1>5, <1>11, <1>14, <2>2
  <2>5. \A k \in 2..(n - r) : k <= Len(c.gain) => Linked(c.gain[k - 1], c.gain[k])
    BY <2>2
  <2>6. Stacks(c, n, n, r)
    BY <1>14, <2>1, <2>3, <2>4, <2>5 DEF Stacks
  <2>7. Unstacked(c)
    BY <2>2 DEF Unstacked
  <2> QED BY <1>0, <1>3, <2>6, <2>7
<1>19. CallSound(c)
  BY <1>16, <1>17, <1>18 DEF CallSound
<1> QED BY <1>13, <1>14, <1>19, BeginIs

(* A call that stacks nothing is sound if it names tickets.                *)
LEMMA PlainSound ==
  ASSUME NEW c, Names(c), Detaches(c), \A k \in 1..Len(c.todo) : c.todo[k][1] # "stack"
  PROVE  CallSound(c) /\ ~Stacking(c)
BY DEF CallSound, Stacking

LEMMA AddDependencyStep ==
  ASSUME TreeInv, NEW a \in Callers, NEW t \in K!Tickets, NEW d \in K!Tickets, NEW before,
         K!AddDependency(a, t, d, before)
  PROVE  TreeInv'
<1>1. PICK q1, q2, q : /\ q1 = IF before THEN <<<<"look", t>>>> ELSE <<>>
                       /\ q2 = <<<<"wait", t>>>> /\ q = q1 \o q2
  OBVIOUS
<1>2. /\ IsSeq(q1) /\ Len(q1) \in {0, 1} /\ \A k \in 1..Len(q1) : q1[k] = <<"look", t>>
      /\ IsSeq(q2) /\ Len(q2) = 1 /\ q2[1] = <<"wait", t>>
  BY <1>1, PairSeqs
<1>3. /\ IsSeq(q) /\ Len(q) = Len(q1) + 1 /\ \A k \in 1..Len(q1) : q[k] = q1[k]
      /\ q[Len(q1) + 1] = q2[1]
  BY <1>1, <1>2, ConcatIs
<1>4. \A k \in 1..Len(q) : q[k] = <<"look", t>> \/ q[k] = <<"wait", t>>
  BY <1>2, <1>3
<1> PICK idle, gain : idle = K!Idle /\ gain = <<d>>
  OBVIOUS
<1>5. PICK c : /\ c = [idle EXCEPT !.on = t, !.seen = ticket[t], !.gain = gain, !.todo = q]
               /\ K!Begins(a, c)
  BY <1>1 DEF K!AddDependency
<1>6. c.todo = q /\ c.gain = <<d>> /\ CallIs(c)
  <2>1. CallIs(idle)
    BY IdleIs
  <2>2. c.todo = q /\ c.gain = gain
    BY <1>5, <2>1 DEF CallIs
  <2>3. c = [on |-> c.on, with |-> c.with, todo |-> c.todo, seen |-> c.seen, gain |-> c.gain,
             listed |-> c.listed]
    BY <1>5, <2>1 DEF CallIs
  <2> QED BY <1>3, <2>2, <2>3 DEF CallIs
<1>7. t \in Known /\ d \in Known
  BY KnownAre DEF TreeInv
<1>8. Names(c)
  <2>1. IsSeq(c.gain) /\ \A i \in 1..Len(c.gain) : c.gain[i] \in Known
    BY <1>6, <1>7, PairSeqs
  <2> QED BY <1>4, <1>6, <1>7, <2>1 DEF Names
<1>9. Detaches(c) /\ \A k \in 1..Len(c.todo) : c.todo[k][1] # "stack"
  BY <1>4, <1>6 DEF Detaches
<1>10. CallSound(c) /\ ~Stacking(c)
  BY <1>8, <1>9, PlainSound
<1> QED BY <1>5, <1>6, <1>10, BeginIs

LEMMA PruneStep ==
  ASSUME TreeInv, NEW a \in Callers, NEW listed \in SUBSET K!Tickets, K!Prune(a, listed)
  PROVE  TreeInv'
<1> DEFINE suspects == {t \in listed : ~ticket[t].blockedBy \subseteq listed}
           named == K!InOrder(suspects)
           q == [i \in 1..K!Cardinality(suspects) |-> <<"prune", named[i]>>]
           lists == [t \in K!Tickets |-> ticket[t].blockedBy]
           gain == K!InOrder(listed)
<1> PICK idle : idle = K!Idle
  OBVIOUS
<1>1. PICK c : c = [idle EXCEPT !.gain = gain, !.listed = lists, !.todo = q] /\ K!Begins(a, c)
  BY DEF K!Prune
<1>2. K!Cardinality(suspects) \in Nat
  <2>1. K!Tickets = 1..Len(ticket) /\ Len(ticket) \in Nat
    BY KnownAre DEF TreeInv, Known
  <2>2. suspects \subseteq 1..Len(ticket)
    BY <2>1
  <2> HIDE DEF suspects
  <2>4. IsFiniteSet(1..Len(ticket))
    BY <2>1, FS_Interval
  <2>3. Cardinality(suspects) \in Nat
    BY <2>2, <2>4, FS_Subset, FS_CardinalityType
  <2> QED BY <2>3 DEF K!Cardinality, Cardinality
<1> HIDE DEF suspects, named
<1>3. IsSeq(q)
  BY <1>2, SeqOf
<1>4. \A k \in 1..Len(q) : q[k][1] = "prune"
  BY <1>2, SeqOf
<1> HIDE DEF q, lists, gain
<1>5. c.todo = q /\ CallIs(c)
  <2>1. CallIs(idle)
    BY IdleIs
  <2>2. c.todo = q
    BY <1>1, <2>1 DEF CallIs
  <2>3. c = [on |-> c.on, with |-> c.with, todo |-> c.todo, seen |-> c.seen, gain |-> c.gain,
             listed |-> c.listed]
    BY <1>1, <2>1 DEF CallIs
  <2> QED BY <1>3, <2>2, <2>3 DEF CallIs
<1>6. Names(c) /\ Detaches(c) /\ \A k \in 1..Len(c.todo) : c.todo[k][1] # "stack"
  BY <1>4, <1>5 DEF Names, Detaches
<1>7. CallSound(c) /\ ~Stacking(c)
  BY <1>6, PlainSound
<1> QED BY <1>1, <1>5, <1>7, BeginIs

LEMMA MergeStep ==
  ASSUME TreeInv, NEW a \in Callers, NEW x \in K!Tickets, NEW t \in K!Tickets,
         K!MergeTicket(a, x, t)
  PROVE  TreeInv'
<1>1. PICK parent, q1, q2, q :
        /\ parent = ticket[x].parent /\ q1 = <<<<"fold", t>>, <<"cancel", x>>>>
        /\ q2 = IF parent = 0 THEN <<>> ELSE <<<<"look", parent>>, <<"detach", parent>>>>
        /\ q = q1 \o q2
  OBVIOUS
<1>2. /\ IsSeq(q1) /\ Len(q1) = 2 /\ q1[1] = <<"fold", t>> /\ q1[2] = <<"cancel", x>>
      /\ IsSeq(q2) /\ Len(q2) \in {0, 2}
      /\ \A k \in 1..Len(q2) : q2[k][1] \in {"look", "detach"}
  BY <1>1, PairSeqs
<1>3. /\ IsSeq(q) /\ Len(q) = 2 + Len(q2) /\ q[1] = <<"fold", t>> /\ q[2] = <<"cancel", x>>
      /\ \A k \in 1..Len(q2) : q[2 + k] = q2[k]
  BY <1>1, <1>2, ConcatIs
<1>4. ASSUME NEW k \in 1..Len(q)
      PROVE  k = 1 \/ k = 2 \/ (k > 2 /\ q[k][1] \in {"look", "detach"})
  <2>1. CASE k > 2
    <3>1. k - 2 \in 1..Len(q2) /\ 2 + (k - 2) = k
      BY <1>2, <1>3, <2>1
    <3>2. q[2 + (k - 2)] = q2[k - 2]
      BY <1>3, <3>1
    <3> QED BY <1>2, <2>1, <3>1, <3>2
  <2> QED BY <2>1
<1> DEFINE gain == K!InOrder(ticket[x].notes \cup {x})
<1> PICK idle : idle = K!Idle
  OBVIOUS
<1>5. PICK c : /\ c = [idle EXCEPT !.on = t, !.with = x, !.seen = ticket[t], !.gain = gain, !.todo = q]
               /\ K!Begins(a, c)
  BY <1>1 DEF K!MergeTicket
<1> HIDE DEF gain
<1>6. c.todo = q /\ c.with = x /\ CallIs(c)
  <2>1. CallIs(idle)
    BY IdleIs
  <2>2. c.todo = q /\ c.with = x
    BY <1>5, <2>1 DEF CallIs
  <2>3. c = [on |-> c.on, with |-> c.with, todo |-> c.todo, seen |-> c.seen, gain |-> c.gain,
             listed |-> c.listed]
    BY <1>5, <2>1 DEF CallIs
  <2> QED BY <1>3, <2>2, <2>3 DEF CallIs
<1>7. t \in Known /\ x \in Known
  BY KnownAre DEF TreeInv
<1>8. Names(c)
  BY <1>3, <1>4, <1>6, <1>7 DEF Names
<1>9. Detaches(c)
  <2>1. ASSUME NEW k \in 1..Len(q), q[k][1] = "detach"
        PROVE  \E i \in 1..(k - 1) : q[i] = <<"cancel", x>>
    <3>1. k > 2
      BY <1>3, <1>4, <2>1
    <3>2. 2 \in 1..(k - 1)
      BY <3>1
    <3> QED BY <1>3, <3>2
  <2> QED BY <1>6, <1>7, <2>1 DEF Detaches
<1>10. \A k \in 1..Len(c.todo) : c.todo[k][1] # "stack"
  BY <1>3, <1>4, <1>6
<1>11. CallSound(c) /\ ~Stacking(c)
  BY <1>8, <1>9, <1>10, PlainSound
<1> QED BY <1>5, <1>6, <1>11, BeginIs

-----------------------------------------------------------------------------
LEMMA TreeInit == ASSUME K!DecompositionInit PROVE TreeInv
<1>1. PICK x : x = K!New(0)
  OBVIOUS
<1>2. TicketIs(x)
  BY <1>1 DEF TicketIs, K!New
<1>3. /\ ticket = <<x>> \/ ticket = <<x, x>>
      /\ call = [a \in Callers |-> K!Idle] /\ promised = {} /\ stacks = {}
  BY <1>1 DEF K!DecompositionInit
<1>4. TicketsTyped
  <2>1. IsSeq(ticket) /\ \A t \in 1..Len(ticket) : ticket[t] = x
    <3>1. CASE ticket = <<x>>
      BY <3>1, PairSeqs
    <3>2. CASE ticket = <<x, x>>
      <4>1. IsSeq(ticket) /\ Len(ticket) = 2
        BY <3>2, PairSeqs
      <4>2. \A t \in 1..2 : t = 1 \/ t = 2
        OBVIOUS
      <4> QED BY <3>2, <4>1, <4>2
    <3> QED BY <1>3, <3>1, <3>2
  <2> QED BY <1>2, <2>1 DEF TicketsTyped
<1>5. \A a \in Callers : call[a] = K!Idle
  BY <1>3
<1>6. CallIs(K!Idle) /\ CallSound(K!Idle) /\ ~Stacking(K!Idle)
  BY IdleIs, NoneLeftSound
<1>7. CallsTyped /\ CallsSound /\ CallsApart
  <2>1. call = [a \in Callers |-> call[a]]
    BY <1>3
  <2> QED BY <1>5, <1>6, <2>1 DEF CallsTyped, CallsSound, CallsApart
<1>8. PromisesName /\ K!KeepsPromises /\ StacksSound
  BY <1>3 DEF PromisesName, K!KeepsPromises, StacksSound
<1> QED BY <1>4, <1>7, <1>8 DEF TreeInv

LEMMA TreeStep == ASSUME TreeInv, K!DecompositionNext PROVE TreeInv'
<1>1. ASSUME NEW a \in Callers, K!Starts(a) PROVE TreeInv'
  <2>1. ASSUME NEW t \in K!Tickets, NEW n \in 1..MaxParts, NEW sequential \in BOOLEAN,
               NEW hold \in BOOLEAN, K!SplitTicket(a, t, n, sequential, hold)
        PROVE  TreeInv'
    BY <2>1, SplitStep
  <2>2. ASSUME NEW t \in K!Tickets, NEW d \in K!Tickets, NEW before \in BOOLEAN,
               K!AddDependency(a, t, d, before)
        PROVE  TreeInv'
    BY <2>2, AddDependencyStep
  <2>3. ASSUME NEW t \in K!Tickets, NEW c \in K!Tickets, K!MergeTicket(a, c, t) PROVE TreeInv'
    BY <2>3, MergeStep
  <2>4. ASSUME NEW listed \in SUBSET K!Tickets, K!Prune(a, listed) PROVE TreeInv'
    BY <2>4, PruneStep
  <2> QED BY <1>1, <2>1, <2>2, <2>3, <2>4 DEF K!Starts
<1>2. ASSUME NEW a \in Callers, K!Continues(a) PROVE TreeInv'
  <2>1. PICK t : \/ K!Look(a, t) \/ K!CreateSubtask(a, t) \/ K!Stack(a, t)
                 \/ K!Adopt(a, t) \/ K!Wait(a, t) \/ K!PruneTicket(a, t)
                 \/ K!Fold(a, t) \/ K!CancelFolded(a, t) \/ K!Detach(a, t)
    BY <1>2 DEF K!Continues
  <2>2. CASE K!Look(a, t)
    BY <2>2, LookStep
  <2>3. CASE K!CreateSubtask(a, t)
    BY <2>3, CreateStep
  <2>4. CASE K!Stack(a, t)
    BY <2>4, StackStep
  <2>5. CASE K!Adopt(a, t) \/ K!Wait(a, t) \/ K!Fold(a, t)
    BY <2>5, AdoptStep
  <2>6. CASE K!PruneTicket(a, t)
    BY <2>6, PruneTicketStep
  <2>7. CASE K!CancelFolded(a, t)
    BY <2>7, CancelStep
  <2>8. CASE K!Detach(a, t)
    BY <2>8, DetachStep
  <2> QED BY <2>1, <2>2, <2>3, <2>4, <2>5, <2>6, <2>7, <2>8
<1>3. ASSUME NEW t \in K!Tickets, K!Serve(t) PROVE TreeInv'
  BY <1>3, ServeStep
<1>4. ASSUME NEW t \in K!Tickets,
             K!Finish(t) \/ \E x \in {"canceled", "deleted"} : K!Intervene(t, x)
      PROVE  TreeInv'
  BY <1>4, FinishStep
<1>5. ASSUME NEW a \in Callers, K!Dies(a) PROVE TreeInv'
  BY <1>5, DiesStep
<1> QED BY <1>1, <1>2, <1>3, <1>4, <1>5 DEF K!DecompositionNext

LEMMA TreeRests == ASSUME TreeInv, UNCHANGED decompositionVars PROVE TreeInv'
<1>1. /\ ticket' = ticket /\ call' = call /\ promised' = promised /\ stale' = stale
      /\ stacks' = stacks /\ early' = early
  BY DEF decompositionVars
<1>2. /\ TicketsTyped /\ CallsTyped /\ CallsSound /\ CallsApart
      /\ PromisesName /\ K!KeepsPromises /\ StacksSound
  BY DEF TreeInv
<1>3. Ages /\ NoneBegun /\ TicketsTyped'
  BY <1>1, <1>2, Unaged
<1>4. LinksStay /\ NotedIfBegun
  BY <1>1, <1>3, LinksAre DEF NoneBegun, NotedIfBegun
<1>5. CallsTyped'
  BY <1>1, <1>2 DEF CallsTyped
<1>6. ASSUME NEW b \in Callers PROVE CallSound(call[b])'
  <2>1. PICK x : x = call[b]
    OBVIOUS
  <2>2. CallSound(x)
    BY <1>2, <2>1 DEF CallsSound
  <2>3. CallSound(x)'
    BY <1>1, <1>2, <1>3, <1>4, <2>2, CallRests DEF OthersStack
  <2>4. x = call'[b]
    BY <1>1, <2>1
  <2> QED BY <2>3, <2>4
<1>7. CallsSound'
  BY <1>6 DEF CallsSound
<1>8. CallsApart'
  <2>1. SUFFICES ASSUME NEW b \in Callers, NEW e \in Callers, b # e,
                        Stacking(call'[b]), Stacking(call'[e])
                 PROVE  Members(call'[b].gain) \cap Members(call'[e].gain) = {}
    BY DEF CallsApart, Stacking, Members
  <2>2. call'[b] = call[b] /\ call'[e] = call[e]
    BY <1>1
  <2> QED BY <1>2, <2>1, <2>2 DEF CallsApart
<1>9. StacksSound'
  BY <1>1, <1>2, <1>3, <1>4, StacksKept
<1>10. PromisesName' /\ K!KeepsPromises'
  BY <1>1, <1>2, PromisesRest
<1> QED BY <1>3, <1>5, <1>7, <1>8, <1>9, <1>10 DEF TreeInv

(* A set of numbers has a least one.                                       *)
LEMMA LeastOf ==
  ASSUME NEW S \in SUBSET Nat, S # {}
  PROVE  \E n \in S : \A m \in S : n <= m
<1>1. IsWellFoundedOn(OpToRel(<, Nat), Nat)
  BY NatLessThanWellFounded
<1>2. PICK n \in S : \A m \in S : ~(<<m, n>> \in OpToRel(<, Nat))
  BY <1>1, WFMin, Zenon
<1>3. \A m \in S : ~(m < n)
  BY <1>2 DEF OpToRel
<1> QED BY <1>3

(* Between two of a stack that are both runnable, the last that is not     *)
(* done would wait for nothing.                                            *)
LEMMA FrontHolds == ASSUME TreeInv PROVE K!FrontIsSingle
<1>1. SUFFICES
        ASSUME NEW s \in stacks, NEW i \in DOMAIN s, NEW j \in DOMAIN s, i < j,
               K!Runnable(s[i]), K!Runnable(s[j]),
               \A k \in i..j : /\ ticket[s[k]].status \notin {"canceled", "deleted"}
                               /\ s[k] \notin early /\ <<"blockedBy", s[k]>> \notin stale
        PROVE  FALSE
  BY DEF K!FrontIsSingle
<1>2. /\ StackSound(s) /\ IsSeq(s) /\ Len(s) \in Nat /\ i \in 1..Len(s) /\ j \in 1..Len(s)
      /\ i \in Nat /\ j \in Nat
  BY MembersAre DEF TreeInv, StacksSound, StackSound, IsSeq
<1>3. ASSUME NEW m \in i..(j - 1), m + 1 = j \/ ticket[s[m + 1]].status = "done"
      PROVE  ticket[s[m]].status = "done"
  <2>1. m + 1 \in 2..Len(s) /\ (m + 1) - 1 = m /\ m \in i..j /\ m + 1 \in i..j
    BY <1>1, <1>2
  <2>2. PICK x, y : x = s[m] /\ y = s[m + 1]
    OBVIOUS
  <2>3. /\ Linked(x, y)
        /\ Begun(y) => \/ y \in early \/ <<"blockedBy", y>> \in stale
                       \/ ticket[x].status \in {"done", "canceled", "deleted"}
    BY <1>2, <2>1, <2>2 DEF StackSound
  <2>4. /\ ticket[x].status \notin {"canceled", "deleted"}
        /\ y \notin early /\ <<"blockedBy", y>> \notin stale
        /\ ticket[y].status \notin {"canceled", "deleted"}
    BY <1>1, <2>1, <2>2
  <2>5. CASE ticket[y].status = "done"
    BY <2>2, <2>3, <2>4, <2>5 DEF Begun
  <2>6. CASE m + 1 = j
    <3>1. K!Runnable(y)
      BY <1>1, <2>2, <2>6
    <3>2. <<"blockedBy", y, x>> \in promised
      BY <2>3, <2>4 DEF Gone, Linked
    <3>3. x \in ticket[y].blockedBy
      <4>1. PICK p \in promised : p = <<"blockedBy", y, x>>
        BY <3>2
      <4>2. p[1] = "blockedBy" /\ p[2] = y /\ p[3] = x
        BY <4>1
      <4>3. K!Exists(y) /\ K!Exists(x)
        BY <2>4 DEF K!Exists
      <4>4. p[3] \in ticket[p[2]][p[1]]
        BY <2>4, <4>2, <4>3 DEF TreeInv, K!KeepsPromises
      <4> QED BY <4>2, <4>4
    <3>4. K!Satisfied(x)
      BY <3>1, <3>3 DEF K!Runnable
    <3> QED BY <2>2, <2>4, <3>4 DEF K!Satisfied
  <2> QED BY <1>3, <2>2, <2>5, <2>6
<1> DEFINE Left == {d \in 0..(j - 1 - i) : ticket[s[j - 1 - d]].status # "done"}
<1>4. ticket[s[i]].status = "open" /\ j - 1 - i \in Nat /\ j - 1 - (j - 1 - i) = i
  BY <1>1, <1>2 DEF K!Runnable
<1>5. j - 1 - i \in Left
  BY <1>4
<1>6. PICK d \in Left : \A e \in Left : d <= e
  <2>1. Left \in SUBSET Nat
    BY <1>4
  <2> HIDE DEF Left
  <2> QED BY <1>5, <2>1, LeastOf
<1>7. d \in 0..(j - 1 - i) /\ ticket[s[j - 1 - d]].status # "done"
  OBVIOUS
<1> HIDE DEF Left
<1>8. PICK m : m = j - 1 - d
  OBVIOUS
<1>9. m \in i..(j - 1)
  <2>1. i \in Nat /\ j \in Nat
    BY <1>2
  <2>2. d \in Int /\ 0 <= d /\ d <= j - 1 - i
    BY <1>7, <2>1
  <2>3. m \in Int /\ i <= m /\ m <= j - 1
    BY <1>8, <2>1, <2>2
  <2> QED BY <2>1, <2>3
<1>10. m + 1 = j \/ ticket[s[m + 1]].status = "done"
  <2>1. CASE d = 0
    BY <1>2, <1>8, <2>1
  <2>2. CASE d # 0
    <3>1. d - 1 \in 0..(j - 1 - i) /\ ~(d <= d - 1) /\ j - 1 - (d - 1) = m + 1
      BY <1>2, <1>7, <1>8, <2>2
    <3>2. d - 1 \notin Left
      BY <1>6, <3>1
    <3> QED BY <3>1, <3>2 DEF Left
  <2> QED BY <2>1, <2>2
<1> QED BY <1>3, <1>7, <1>8, <1>9, <1>10

(* Whatever the calls that split, order, prune and merge tickets leave     *)
(* half done, what a call added to a list of a ticket stays there unless   *)
(* the list was replaced from an outdated read, and of stacked subtasks    *)
(* one is runnable at a time (planfile/core/decompose.py).                 *)
THEOREM TreeKeptCorrect == ToolsSpec => []TreeKept
<1>1. ToolsInit => TreeInv
  BY TreeInit DEF ToolsInit
<1>2. TreeInv /\ [ToolsNext]_toolsVars => TreeInv'
  <2>1. SUFFICES ASSUME TreeInv, [ToolsNext]_toolsVars PROVE TreeInv'
    OBVIOUS
  <2>2. K!DecompositionNext \/ UNCHANGED decompositionVars
    BY <2>1 DEF ToolsNext, toolsVars
  <2> QED BY <2>1, <2>2, TreeStep, TreeRests
<1>3. TreeInv => TreeKept
  BY FrontHolds DEF TreeInv, TreeKept
<1> QED BY <1>1, <1>2, <1>3, PTL DEF ToolsSpec

-----------------------------------------------------------------------------
(* CILoop.                                                                 *)
(* The CI loop.                                                            *)
LoopIs(l) ==
  l = [at |-> l.at, iteration |-> l.iteration, left |-> l.left, unfinished |-> l.unfinished,
       reported |-> l.reported, skipped |-> l.skipped, touched |-> l.touched, lost |-> l.lost]
Reviewed(s) == loop.at = "completed" \/ (loop.at = "review" /\ s = "s1" /\ loop.left = <<"s2">>)
(* What a review has said of the sprints it has seen still holds of what   *)
(* nobody touched since.                                                   *)
ReviewHolds ==
  /\ loop.at = "review" => loop.left \in {<<"s1", "s2">>, <<"s2">>}
  /\ loop.at = "completed" => loop.unfinished = {}
  /\ loop.at \in {"review", "completed"} /\ "source" \notin loop.touched => source \in passing
  /\ \A t \in DOMAIN SprintOf :
       Reviewed(SprintOf[t]) /\ t \notin loop.touched /\ SprintOf[t] \notin loop.skipped
       => tickets[t] = "done" \/ t \in loop.unfinished
LoopInv ==
  /\ LoopIs(loop) /\ tickets = [t \in DOMAIN SprintOf |-> tickets[t]]
  /\ ReviewHolds /\ C!ResultsComplete

LEMMA SprintsAre == \A t \in DOMAIN SprintOf : SprintOf[t] \in {"s1", "s2"}
BY DEF SprintOf

LEMMA LoopInit == ASSUME C!LoopInit PROVE LoopInv
<1>1. /\ loop.at = "test" /\ loop.reported = {} /\ loop.lost = {} /\ bugs = {} /\ LoopIs(loop)
  BY DEF C!LoopInit, LoopIs
<1>2. tickets = [t \in DOMAIN SprintOf |-> tickets[t]]
  BY DEF C!LoopInit, C!SprintTickets
<1> QED BY <1>1, <1>2 DEF LoopInv, ReviewHolds, Reviewed, C!ResultsComplete

(* A loop that neither reviews nor is completed has nothing to hold.       *)
LEMMA NothingHeld ==
  ASSUME LoopIs(loop)', tickets' = [t \in DOMAIN SprintOf |-> tickets'[t]],
         loop'.at \notin {"review", "completed"},
         loop'.at # "dead" => bugs' = loop'.reported \cup loop'.lost
  PROVE  LoopInv'
BY DEF LoopInv, ReviewHolds, Reviewed, C!ResultsComplete

LEMMA NextIterationIs ==
  ASSUME NEW l, LoopIs(l)
  PROVE  /\ LoopIs(C!NextIteration(l)) /\ C!NextIteration(l).at \in {"max_iterations_reached", "test"}
         /\ C!NextIteration(l).reported = l.reported /\ C!NextIteration(l).lost = l.lost
<1>1. CASE l.iteration = MaxIterations
  <2>1. PICK m : m = [l EXCEPT !.at = "max_iterations_reached"]
    OBVIOUS
  <2>2. m = C!NextIteration(l)
    BY <1>1, <2>1 DEF C!NextIteration
  <2>3. LoopIs(m) /\ m.at = "max_iterations_reached" /\ m.reported = l.reported /\ m.lost = l.lost
    BY <2>1 DEF LoopIs
  <2> QED BY <2>2, <2>3
<1>2. CASE l.iteration # MaxIterations
  <2>1. PICK m, i : m = [l EXCEPT !.at = "test", !.iteration = i] /\ i = l.iteration + 1
    OBVIOUS
  <2>2. m = C!NextIteration(l)
    BY <1>2, <2>1 DEF C!NextIteration
  <2>3. m.at = "test" /\ m.reported = l.reported /\ m.lost = l.lost
    BY <2>1 DEF LoopIs
  <2>4. LoopIs(m)
    BY <2>1 DEF LoopIs
  <2> QED BY <2>2, <2>3, <2>4
<1> QED BY <1>1, <1>2

LEMMA RunTestsStep == ASSUME LoopInv, C!RunTests PROVE LoopInv'
<1>1. PICK ran, q : /\ ran = [loop EXCEPT !.touched = {}, !.skipped = {}, !.unfinished = {}]
                    /\ q = <<Local>> \o <<"github", "own">>
  OBVIOUS
<1>2. /\ ran.touched = {} /\ ran.skipped = {} /\ ran.unfinished = {} /\ ran.reported = loop.reported
      /\ ran.lost = loop.lost
  BY <1>1 DEF LoopInv, LoopIs
<1>3. LoopIs(ran)
  BY <1>1 DEF LoopInv, LoopIs
<1>4. <<"github", "own">> # <<>>
  OBVIOUS
<1>5. /\ loop.at = "test"
      /\ \/ source \notin passing /\ loop' = [ran EXCEPT !.at = "report", !.left = q]
         \/ source \in passing /\ loop' = [ran EXCEPT !.at = "review", !.left = <<"s1", "s2">>]
      /\ source' = source /\ passing' = passing /\ tickets' = tickets /\ bugs' = bugs
  BY <1>1, <1>4 DEF C!RunTests, C!Goes
<1>6. /\ bugs' = ran.reported \cup ran.lost /\ tickets' = [t \in DOMAIN SprintOf |-> tickets'[t]]
  BY <1>2, <1>5 DEF LoopInv, C!ResultsComplete
<1>7. CASE loop' = [ran EXCEPT !.at = "report", !.left = q]
  <2>1. PICK m : m = [ran EXCEPT !.at = "report", !.left = q]
    OBVIOUS
  <2>2. LoopIs(m)
    BY <1>3, <2>1 DEF LoopIs
  <2>3. m.at = "report" /\ m.reported = ran.reported /\ m.lost = ran.lost
    BY <1>3, <2>1 DEF LoopIs
  <2>4. loop' = m
    BY <1>7, <2>1
  <2>5. LoopIs(loop)'
    BY <2>2, <2>4 DEF LoopIs
  <2> QED BY <1>6, <2>3, <2>4, <2>5, NothingHeld
<1>8. CASE source \in passing /\ loop' = [ran EXCEPT !.at = "review", !.left = <<"s1", "s2">>]
  <2>1. PICK m, s : m = [ran EXCEPT !.at = "review", !.left = s] /\ s = <<"s1", "s2">>
    OBVIOUS
  <2>2. LoopIs(m)
    BY <1>3, <2>1 DEF LoopIs
  <2>3. m.at = "review" /\ m.left = s /\ m.reported = ran.reported /\ m.lost = ran.lost
    BY <1>3, <2>1 DEF LoopIs
  <2>4. loop' = m
    BY <1>8, <2>1
  <2>5. LoopIs(loop)'
    BY <2>2, <2>4 DEF LoopIs
  <2>6. s # <<"s2">>
    BY <2>1
  <2>7. ReviewHolds'
    BY <1>5, <1>8, <2>1, <2>3, <2>4, <2>6 DEF ReviewHolds, Reviewed
  <2> QED BY <1>6, <2>3, <2>4, <2>5, <2>7 DEF LoopInv, C!ResultsComplete
<1> QED BY <1>5, <1>7, <1>8

LEMMA ReviewStep ==
  ASSUME LoopInv, NEW answers \in BOOLEAN, C!Review(answers)
  PROVE  LoopInv'
<1>1. PICK s, q, seen, u, k, h :
        /\ s = Head(loop.left) /\ q = Tail(loop.left)
        /\ seen = {t \in DOMAIN SprintOf : SprintOf[t] = s}
        /\ u = IF answers THEN C!Unfinished(s) ELSE loop.unfinished
        /\ k = IF answers THEN loop.skipped ELSE loop.skipped \cup {s}
        /\ h = loop.touched \ seen
  OBVIOUS
<1>2. PICK c : c = [loop EXCEPT !.left = q, !.unfinished = u, !.skipped = k, !.touched = h]
  OBVIOUS
<1>3. LoopIs(c)
  BY <1>2 DEF LoopInv, LoopIs
<1>4. /\ c.left = q /\ c.unfinished = u /\ c.skipped = k /\ c.touched = h /\ c.at = loop.at
      /\ c.reported = loop.reported /\ c.lost = loop.lost
  BY <1>2 DEF LoopInv, LoopIs
<1>5. /\ loop.at = "review"
      /\ loop' = IF c.left # <<>> THEN c
                 ELSE IF c.unfinished = {} THEN [c EXCEPT !.at = "completed"]
                 ELSE C!NextIteration(c)
      /\ source' = source /\ passing' = passing /\ tickets' = tickets /\ bugs' = bugs
  BY <1>1, <1>2 DEF C!Review, C!Goes, C!SprintTickets
<1>6. \/ s = "s1" /\ q = <<"s2">> /\ loop.left # <<"s2">>
      \/ s = "s2" /\ q = <<>> /\ loop.left = <<"s2">>
  <2>1. loop.left = <<"s1", "s2">> \/ loop.left = <<"s2">>
    BY <1>5 DEF LoopInv, ReviewHolds
  <2>2. CASE loop.left = <<"s1", "s2">>
    <3>1. Head(<<"s1", "s2">>) = "s1" /\ Tail(<<"s1", "s2">>) = <<"s2">> /\ <<"s1", "s2">> # <<"s2">>
      OBVIOUS
    <3> QED BY <1>1, <2>2, <3>1
  <2>3. CASE loop.left = <<"s2">>
    <3>1. Head(<<"s2">>) = "s2" /\ Tail(<<"s2">>) = <<>>
      OBVIOUS
    <3> QED BY <1>1, <2>3, <3>1
  <2> QED BY <2>1, <2>2, <2>3
<1>7. /\ bugs' = c.reported \cup c.lost /\ tickets' = [t \in DOMAIN SprintOf |-> tickets'[t]]
  BY <1>4, <1>5 DEF LoopInv, C!ResultsComplete
<1>8. "source" \notin c.touched => source \in passing
  <2>1. "source" \notin DOMAIN SprintOf
    BY DEF SprintOf
  <2> QED BY <1>1, <1>4, <1>5, <2>1 DEF LoopInv, ReviewHolds
<1>9. ASSUME NEW t \in DOMAIN SprintOf, SprintOf[t] = s \/ s = "s2", t \notin c.touched,
             SprintOf[t] \notin c.skipped
      PROVE  tickets[t] = "done" \/ t \in c.unfinished
  <2>1. CASE SprintOf[t] = s
    <3>1. answers /\ (t \in u \/ tickets[t] = "done")
      <4>1. answers
        BY <1>1, <1>4, <1>9, <2>1
      <4> QED BY <1>1, <2>1, <4>1 DEF C!Unfinished, C!SprintTickets
    <3> QED BY <1>4, <3>1
  <2>2. CASE SprintOf[t] # s
    <3>1. SprintOf[t] = "s1" /\ s = "s2"
      BY <1>9, <2>2, SprintsAre
    <3>2. t \notin loop.touched /\ SprintOf[t] \notin loop.skipped
      BY <1>1, <1>4, <1>9, <2>2
    <3>3. Reviewed(SprintOf[t])
      BY <1>5, <1>6, <3>1 DEF Reviewed
    <3>4. tickets[t] = "done" \/ t \in loop.unfinished
      BY <3>2, <3>3 DEF LoopInv, ReviewHolds
    <3> QED BY <1>1, <1>4, <3>4 DEF C!Unfinished
  <2> QED BY <2>1, <2>2
<1>10. CASE q = <<"s2">>
  <2>1. loop' = c
    <3>1. <<"s2">> # <<>>
      OBVIOUS
    <3> QED BY <1>4, <1>5, <1>10, <3>1
  <2>2. s = "s1"
    BY <1>6, <1>10
  <2>3. ReviewHolds'
    <3>1. \A t \in DOMAIN SprintOf : Reviewed(SprintOf[t])' => SprintOf[t] = s
      BY <1>4, <1>5, <2>1, <2>2 DEF Reviewed
    <3> QED BY <1>4, <1>5, <1>8, <1>9, <1>10, <2>1, <3>1 DEF ReviewHolds
  <2>4. LoopIs(loop)'
    BY <1>3, <2>1 DEF LoopIs
  <2> QED BY <1>7, <2>1, <2>3, <2>4 DEF LoopInv, C!ResultsComplete
<1>11. CASE q = <<>> /\ c.unfinished = {}
  <2>1. PICK m : m = [c EXCEPT !.at = "completed"]
    OBVIOUS
  <2>2. LoopIs(m)
    BY <1>3, <2>1 DEF LoopIs
  <2>3. /\ m.at = "completed" /\ m.unfinished = {} /\ m.touched = c.touched /\ m.skipped = c.skipped
        /\ m.reported = c.reported /\ m.lost = c.lost
    BY <1>3, <1>11, <2>1 DEF LoopIs
  <2>4. loop' = m /\ s = "s2"
    BY <1>4, <1>5, <1>6, <1>11, <2>1
  <2>5. ReviewHolds'
    BY <1>5, <1>8, <1>9, <1>11, <2>3, <2>4 DEF ReviewHolds
  <2>6. LoopIs(loop)'
    BY <2>2, <2>4 DEF LoopIs
  <2> QED BY <1>7, <2>3, <2>4, <2>5, <2>6 DEF LoopInv, C!ResultsComplete
<1>12. CASE q = <<>> /\ c.unfinished # {}
  <2>1. PICK m : m = C!NextIteration(c)
    OBVIOUS
  <2>2. /\ LoopIs(m) /\ m.at \in {"max_iterations_reached", "test"}
        /\ m.reported = c.reported /\ m.lost = c.lost
    BY <1>3, <2>1, NextIterationIs
  <2>3. loop' = m
    BY <1>4, <1>5, <1>12, <2>1
  <2>4. LoopIs(loop)'
    BY <2>2, <2>3 DEF LoopIs
  <2> QED BY <1>7, <2>2, <2>3, <2>4, NothingHeld
<1> QED BY <1>6, <1>10, <1>11, <1>12

(* One more report, made or failed.                                        *)
LEMMA ReportStep ==
  ASSUME LoopInv,
         (\E answers \in BOOLEAN : C!CreateBug(answers)) \/ C!CreateFails \/ C!LoopDies
  PROVE  LoopInv'
<1>1. /\ LoopIs(loop) /\ tickets = [t \in DOMAIN SprintOf |-> tickets[t]]
      /\ loop.at # "dead" => bugs = loop.reported \cup loop.lost
  BY DEF LoopInv, C!ResultsComplete
<1>2. ASSUME NEW answers \in BOOLEAN, C!CreateBug(answers) PROVE LoopInv'
  <2>1. PICK b, q, x, y :
          /\ b = {<<Head(loop.left), loop.iteration>>} /\ q = Tail(loop.left)
          /\ x = loop.reported \cup b /\ y = loop.lost \cup b
    OBVIOUS
  <2>2. PICK c : c = [loop EXCEPT !.left = q]
    OBVIOUS
  <2>3. LoopIs(c) /\ c.at = loop.at /\ c.reported = loop.reported /\ c.lost = loop.lost
    BY <1>1, <2>2 DEF LoopIs
  <2>4. /\ loop.at = "report" /\ bugs' = bugs \cup b /\ tickets' = tickets
        /\ loop' = IF answers THEN [c EXCEPT !.reported = x] ELSE [c EXCEPT !.lost = y]
    BY <1>2, <2>1, <2>2, <2>3 DEF C!CreateBug, C!Goes
  <2>5. PICK m : m = IF answers THEN [c EXCEPT !.reported = x] ELSE [c EXCEPT !.lost = y]
    OBVIOUS
  <2>6. LoopIs(m)
    <3>1. CASE answers
      BY <2>3, <2>5, <3>1 DEF LoopIs
    <3>2. CASE ~answers
      BY <2>3, <2>5, <3>2 DEF LoopIs
    <3> QED BY <3>1, <3>2
  <2>7. m.at = "report" /\ bugs' = m.reported \cup m.lost
    <3>1. CASE answers
      <4>1. m.at = "report" /\ m.reported = x /\ m.lost = c.lost
        BY <2>3, <2>4, <2>5, <3>1 DEF LoopIs
      <4> QED BY <1>1, <2>1, <2>3, <2>4, <4>1
    <3>2. CASE ~answers
      <4>1. m.at = "report" /\ m.reported = c.reported /\ m.lost = y
        BY <2>3, <2>4, <2>5, <3>2 DEF LoopIs
      <4> QED BY <1>1, <2>1, <2>3, <2>4, <4>1
    <3> QED BY <3>1, <3>2
  <2>8. loop' = m
    BY <2>4, <2>5
  <2>9. LoopIs(loop)'
    BY <2>6, <2>8 DEF LoopIs
  <2> QED BY <1>1, <2>4, <2>7, <2>8, <2>9, NothingHeld
<1>3. CASE C!CreateFails
  <2>1. PICK q, m : q = Tail(loop.left) /\ m = [loop EXCEPT !.left = q]
    OBVIOUS
  <2>2. LoopIs(m) /\ m.at = loop.at /\ m.reported = loop.reported /\ m.lost = loop.lost
    BY <1>1, <2>1 DEF LoopIs
  <2>3. loop.at = "report" /\ loop' = m /\ bugs' = bugs /\ tickets' = tickets
    BY <1>3, <2>1 DEF C!CreateFails, C!Goes
  <2>4. LoopIs(loop)'
    BY <2>2, <2>3 DEF LoopIs
  <2> QED BY <1>1, <2>2, <2>3, <2>4, NothingHeld
<1>4. CASE C!LoopDies
  <2>1. PICK m : m = [loop EXCEPT !.at = "dead"]
    OBVIOUS
  <2>2. LoopIs(m) /\ m.at = "dead"
    BY <1>1, <2>1 DEF LoopIs
  <2>3. loop' = m /\ tickets' = tickets
    BY <1>4, <2>1 DEF C!LoopDies
  <2>4. LoopIs(loop)'
    BY <2>2, <2>3 DEF LoopIs
  <2> QED BY <1>1, <2>2, <2>3, <2>4, NothingHeld
<1> QED BY <1>2, <1>3, <1>4

LEMMA FixStep == ASSUME LoopInv, NEW applied \in BOOLEAN, C!Fix(applied) PROVE LoopInv'
<1>1. PICK m : m = C!NextIteration(loop)
  OBVIOUS
<1>2. /\ LoopIs(m) /\ m.at \in {"max_iterations_reached", "test"}
      /\ m.reported = loop.reported /\ m.lost = loop.lost
  BY <1>1, NextIterationIs DEF LoopInv
<1>3. loop.at = "report" /\ loop' = m /\ tickets' = tickets /\ bugs' = bugs
  BY <1>1 DEF C!Fix, C!Goes, C!AfterFix
<1>4. LoopIs(loop)'
  BY <1>2, <1>3 DEF LoopIs
<1> QED BY <1>2, <1>3, <1>4, NothingHeld DEF LoopInv, C!ResultsComplete

(* Whoever changes something is noted.                                     *)
LEMMA TouchStep ==
  ASSUME LoopInv,
         C!Edit \/ \E t \in C!SprintTickets, x \in {"open", "blocked", "done"} : C!WorkOn(t, x)
  PROVE  LoopInv'
<1>1. LoopIs(loop) /\ tickets = [t \in DOMAIN SprintOf |-> tickets[t]] /\ ReviewHolds /\ C!ResultsComplete
  BY DEF LoopInv
<1>2. PICK e : /\ loop' = [loop EXCEPT !.touched = @ \cup {e}] /\ bugs' = bugs
               /\ \/ e = "source" /\ tickets' = tickets
                  \/ /\ e \in DOMAIN SprintOf /\ source' = source /\ passing' = passing
                     /\ \E x : tickets' = [tickets EXCEPT ![e] = x]
  BY DEF C!Edit, C!WorkOn, C!SprintTickets
<1>3. PICK h, m : h = loop.touched \cup {e} /\ m = [loop EXCEPT !.touched = h]
  OBVIOUS
<1>4. LoopIs(m)
  BY <1>1, <1>3 DEF LoopIs
<1>5. /\ m.at = loop.at /\ m.left = loop.left /\ m.unfinished = loop.unfinished /\ m.touched = h
      /\ m.reported = loop.reported /\ m.lost = loop.lost /\ m.skipped = loop.skipped
  BY <1>1, <1>3 DEF LoopIs
<1>6. loop' = m
  BY <1>2, <1>3
<1>7. LoopIs(loop)'
  BY <1>4, <1>6 DEF LoopIs
<1>8. C!ResultsComplete'
  BY <1>1, <1>2, <1>5, <1>6 DEF C!ResultsComplete
<1>9. /\ tickets' = [t \in DOMAIN SprintOf |-> tickets'[t]]
      /\ \A t \in DOMAIN SprintOf : t # e => tickets'[t] = tickets[t]
  <2>1. CASE tickets' = tickets
    BY <1>1, <2>1
  <2>2. CASE \E x : tickets' = [tickets EXCEPT ![e] = x]
    <3>1. PICK x : tickets' = [tickets EXCEPT ![e] = x]
      BY <2>2
    <3>2. tickets' = [t \in DOMAIN SprintOf |-> IF t = e THEN x ELSE tickets[t]]
      BY <1>1, <3>1
    <3> QED BY <3>2
  <2> QED BY <1>2, <2>1, <2>2
<1>10. ReviewHolds'
  <2>1. "source" \notin loop'.touched => source' = source /\ passing' = passing /\ "source" \notin loop.touched
    BY <1>2, <1>3, <1>5, <1>6
  <2>2. ASSUME NEW t \in DOMAIN SprintOf, Reviewed(SprintOf[t])', t \notin loop'.touched,
               SprintOf[t] \notin loop'.skipped
        PROVE  tickets'[t] = "done" \/ t \in loop'.unfinished
    <3>1. t # e /\ t \notin loop.touched /\ SprintOf[t] \notin loop.skipped
      BY <1>3, <1>5, <1>6, <2>2
    <3>2. Reviewed(SprintOf[t])
      BY <1>5, <1>6, <2>2 DEF Reviewed
    <3> QED BY <1>1, <1>5, <1>6, <1>9, <3>1, <3>2 DEF ReviewHolds
  <2>3. /\ loop'.at = "review" => loop'.left \in {<<"s1", "s2">>, <<"s2">>}
        /\ loop'.at = "completed" => loop'.unfinished = {}
    BY <1>1, <1>5, <1>6 DEF ReviewHolds
  <2>4. loop'.at \in {"review", "completed"} /\ "source" \notin loop'.touched => source' \in passing'
    BY <1>1, <1>5, <1>6, <2>1 DEF ReviewHolds
  <2> QED BY <2>2, <2>3, <2>4 DEF ReviewHolds
<1> QED BY <1>7, <1>8, <1>9, <1>10 DEF LoopInv

LEMMA LoopStep == ASSUME LoopInv, C!LoopNext \/ UNCHANGED loopVars PROVE LoopInv'
<1>1. CASE UNCHANGED loopVars
  BY <1>1 DEF loopVars, LoopInv, LoopIs, ReviewHolds, Reviewed, C!ResultsComplete
<1> QED BY <1>1, RunTestsStep, ReviewStep, ReportStep, FixStep, TouchStep DEF C!LoopNext

LEMMA LoopHolds == ASSUME LoopInv PROVE C!CompletionHonest /\ C!ResultsComplete
BY DEF LoopInv, ReviewHolds, Reviewed, C!CompletionHonest, C!SprintTickets

-----------------------------------------------------------------------------
(* FailureTickets.                                                         *)
(* The tickets of failing scenarios.  What any file or copy of it says is  *)
(* so: a box is ticked, a task done, for a task that was marked done.      *)
Told(f) == f \in T!ToSet(issues[order[1]])
TodoIs(x) ==
  /\ x = [entries |-> x.entries, box |-> x.box]
  /\ x.entries \in [Failures -> Nat] /\ x.box = [f \in Failures |-> x.box[f]]
  /\ \A f \in Failures : x.box[f] = "ticked" => T!Names(f) \cap wasDone # {}
TasksAre(x) ==
  /\ x \in [Failures -> {"none", "todo", "done"}]
  /\ \A f \in Failures : x[f] = "done" => f \in wasDone

RunIs(c) ==
  c = [at |-> c.at, report |-> c.report, left |-> c.left, system |-> c.system,
       tasks |-> c.tasks, todo |-> c.todo, external |-> c.external]
Reporting == {"load", "store", "check", "read", "insert", "tracker"}
(* Before the first tracker no id is a number.                             *)
Ids(c) ==
  /\ c.system \in 0..2 /\ (c.at = "tracker" => c.system \in 1..Len(order))
  /\ c.at # "tracker" => c.system = 0
  /\ c.report \subseteq Failures
  /\ c.at \in Reporting => /\ c.left # {} /\ c.left \subseteq c.report
                           /\ c.external = [f \in Failures |-> c.external[f]]
  /\ c.at \in {"load", "store"} => c.left = c.report
  /\ c.at \notin Reporting => c.report = {}
  /\ \A f \in c.report : c.system = 0 \/ (c.system = 1 /\ f \in c.left) => c.external[f] \in {Fresh, Slug}
(* Past the first tracker a failure without the id of an entry was told.   *)
Tells(c) == \A f \in c.report :
  c.system = 2 \/ (c.system = 1 /\ f \notin c.left) => c.external[f] = Slug \/ Told(f)
Snaps(c) ==
  /\ c.at = "store" => TasksAre(c.tasks)
  /\ c.at \in {"insert", "tick"} => TodoIs(c.todo)
  /\ c.at \in {"markers", "tick"} => c.left \subseteq wasDone
RunSound(c) == RunIs(c) /\ Ids(c) /\ Tells(c) /\ Snaps(c)

(* A failure that was not told yet went through at most one run, the one   *)
(* that made its entry.                                                    *)
ByEntry(c, f) == f \in c.report /\ c.external[f] = Slug
Counted(f) ==
  /\ finished[f] <= 1 /\ (todo.entries[f] = 0 => finished[f] = 0)
  /\ \A r \in Runs : ByEntry(run[r], f) =>
       /\ finished[f] = 0 /\ todo.entries[f] # 0
       /\ \A s \in Runs : ByEntry(run[s], f) => s = r
Telling == crossed \/ \A f \in Failures : Told(f) \/ Counted(f)

IssuesAre ==
  /\ order \in TrackerOrders
  /\ issues = [k \in T!ToSet(order) |-> issues[k]] /\ \A k \in T!ToSet(order) : IsSeq(issues[k])
RunsSound == run = [r \in Runs |-> run[r]] /\ \A r \in Runs : RunSound(run[r])
FailInv ==
  /\ IssuesAre /\ TasksAre(tasks) /\ TodoIs(todo) /\ RunsSound
  /\ finished \in [Failures -> Nat] /\ stored \subseteq Failures
  /\ T!TasksKept /\ T!OneEntry /\ T!FirstTrackerOwn /\ Telling

-----------------------------------------------------------------------------
LEMMA OrdersAre ==
  ASSUME IssuesAre
  PROVE  /\ Len(order) \in 1..2 /\ T!ToSet(order) = {order[i] : i \in 1..Len(order)}
         /\ \A i \in 1..Len(order) : order[i] \in T!ToSet(order) /\ (order[i] = order[1] => i = 1)
         /\ order # <<>>
<1>1. CASE order = <<"github", "gitlab">>
  <2>1. Len(order) = 2 /\ DOMAIN order = 1..2 /\ order[1] = "github" /\ order[2] = "gitlab"
    BY <1>1
  <2>2. \A i \in 1..2 : i = 1 \/ i = 2
    OBVIOUS
  <2> QED BY <1>1, <2>1, <2>2 DEF T!ToSet
<1>2. CASE order = <<"gitlab">>
  <2>1. Len(order) = 1 /\ DOMAIN order = 1..1
    BY <1>2
  <2> QED BY <1>2, <2>1 DEF T!ToSet
<1> QED BY <1>1, <1>2 DEF IssuesAre, TrackerOrders

LEMMA RunIdle == RunSound(T!Idle) /\ ~(\E f : ByEntry(T!Idle, f)) /\ T!Idle.report = {}
<1>1. PICK c : c = T!Idle
  OBVIOUS
<1>2. /\ c.at = "idle" /\ c.report = {} /\ c.left = {} /\ c.system = 0
  BY <1>1 DEF T!Idle
<1>3. RunIs(c)
  BY <1>1 DEF T!Idle, RunIs
<1>4. RunSound(c)
  BY <1>2, <1>3 DEF RunSound, Ids, Tells, Snaps, Reporting
<1> QED BY <1>1, <1>2, <1>4 DEF ByEntry

(* What was said stays true.                                               *)
Later == order' = order /\ wasDone \subseteq wasDone' /\ \A f : Told(f) => Told(f)'

LEMMA TodoStays == ASSUME Later, NEW x, TodoIs(x) PROVE TodoIs(x)'
BY DEF Later, TodoIs, T!Names
LEMMA TasksStay == ASSUME Later, NEW x, TasksAre(x) PROVE TasksAre(x)'
BY DEF Later, TasksAre
LEMMA RunStays == ASSUME Later, NEW c, RunSound(c) PROVE RunSound(c)'
<1>1. Ids(c)' /\ RunIs(c)'
  BY DEF Later, RunSound, RunIs, Ids
<1>2. Tells(c)'
  BY DEF Later, RunSound, Tells
<1>3. Snaps(c)'
  BY TodoStays, TasksStay DEF Later, RunSound, Snaps
<1> QED BY <1>1, <1>2, <1>3 DEF RunSound

(* One run goes on.                                                        *)
LEMMA RunsGo ==
  ASSUME RunsSound, Later, NEW r \in Runs, NEW d, RunSound(d)', run' = [run EXCEPT ![r] = d]
  PROVE  /\ RunsSound' /\ run'[r] = d /\ \A q \in Runs : q # r => run'[q] = run[q]
<1>1. /\ run' = [q \in Runs |-> run'[q]] /\ run'[r] = d
      /\ \A q \in Runs : q # r => run'[q] = run[q]
  BY DEF RunsSound
<1>2. ASSUME NEW q \in Runs PROVE RunSound(run[q])'
  <2>1. PICK x : x = run'[q]
    OBVIOUS
  <2>2. CASE q = r
    BY <1>1, <2>1, <2>2
  <2>3. CASE q # r
    <3>1. RunSound(x)
      BY <1>1, <2>1, <2>3 DEF RunsSound
    <3>2. RunSound(x)'
      BY <3>1, RunStays
    <3> QED BY <2>1, <3>2
  <2> QED BY <2>2, <2>3
<1> QED BY <1>1, <1>2 DEF RunsSound

(* A step that neither tells, finishes, nor makes an entry keeps the count *)
(* if its run has no more ids of entries than before.                      *)
LEMMA CountStays ==
  ASSUME Telling, NEW r \in Runs, NEW d, run'[r] = d, \A q \in Runs : q # r => run'[q] = run[q],
         \A f : ByEntry(d, f) => ByEntry(run[r], f),
         \A f : Told(f) => Told(f)', finished' = finished, crossed => crossed',
         \A f \in Failures : todo'.entries[f] = todo.entries[f] \/ crossed'
  PROVE  Telling'
<1>1. CASE crossed'
  BY <1>1 DEF Telling
<1>2. CASE ~crossed'
  <2>1. ASSUME NEW f \in Failures, Counted(f) PROVE Counted(f)'
    <3>1. todo'.entries[f] = todo.entries[f]
      BY <1>2
    <3>2. \A q \in Runs : ByEntry(run'[q], f) => ByEntry(run[q], f)
      OBVIOUS
    <3>3. ASSUME NEW q \in Runs, ByEntry(run'[q], f)
          PROVE  /\ finished[f] = 0 /\ todo.entries[f] # 0
                 /\ \A s \in Runs : ByEntry(run'[s], f) => s = q
      BY <2>1, <3>2, <3>3 DEF Counted
    <3>4. \A q \in Runs : ByEntry(run[q], f)' <=> ByEntry(run'[q], f)
      BY DEF ByEntry
    <3> QED BY <2>1, <3>1, <3>3, <3>4 DEF Counted
  <2> QED BY <1>2, <2>1 DEF Telling
<1> QED BY <1>1, <1>2

-----------------------------------------------------------------------------
FilesSame == /\ tasks' = tasks /\ todo' = todo /\ order' = order /\ issues' = issues
             /\ stored' = stored /\ finished' = finished /\ overwritten' = overwritten
             /\ crossed' = crossed /\ foreign' = foreign /\ wasDone' = wasDone

LEMMA FilesStay ==
  ASSUME FailInv, FilesSame
  PROVE  /\ Later /\ IssuesAre' /\ TasksAre(tasks)' /\ TodoIs(todo)'
         /\ finished' \in [Failures -> Nat] /\ stored' \subseteq Failures
         /\ T!TasksKept' /\ T!OneEntry' /\ T!FirstTrackerOwn'
<1>1. Later /\ IssuesAre' /\ finished' \in [Failures -> Nat] /\ stored' \subseteq Failures
  BY DEF FailInv, FilesSame, Later, Told, IssuesAre
<1>2. TasksAre(tasks)' /\ TodoIs(todo)'
  BY DEF FailInv, FilesSame, TasksAre, TodoIs
<1>3. T!TasksKept' /\ T!OneEntry' /\ T!FirstTrackerOwn'
  BY DEF FailInv, FilesSame, T!TasksKept, T!OneEntry, T!FirstTrackerOwn
<1> QED BY <1>1, <1>2, <1>3

LEMMA QuietRun ==
  ASSUME FailInv, FilesSame, NEW r \in Runs, NEW d, RunSound(d), run' = [run EXCEPT ![r] = d],
         \A f : ByEntry(d, f) => ByEntry(run[r], f)
  PROVE  FailInv'
<1>1. Later
  BY FilesStay
<1>2. RunSound(d)'
  BY <1>1, RunStays
<1>3. RunsSound' /\ run'[r] = d /\ \A q \in Runs : q # r => run'[q] = run[q]
  BY <1>1, <1>2, RunsGo DEF FailInv
<1>4. Telling'
  <2>1. \A f : Told(f) => Told(f)'
    BY <1>1 DEF Later
  <2>2. Telling /\ finished' = finished /\ (crossed => crossed') /\ todo' = todo
    BY DEF FailInv, FilesSame
  <2> QED BY <1>3, <2>1, <2>2, CountStays
<1> QED BY <1>3, <1>4, FilesStay DEF FailInv

LEMMA RunOf == ASSUME FailInv, NEW r \in Runs PROVE RunSound(run[r]) /\ RunIs(run[r])
BY DEF FailInv, RunsSound, RunSound

LEMMA ValidateRuns ==
  ASSUME FailInv, NEW r \in Runs, NEW report \in SUBSET Failures, T!Validate(r, report)
  PROVE  FailInv'
<1>1. PICK i, e : i = T!Idle /\ e = [f \in Failures |-> Fresh]
  OBVIOUS
<1>2. PICK d : d = [i EXCEPT !.at = "load", !.report = report, !.left = report, !.external = e]
  OBVIOUS
<1>3. RunIs(i) /\ i.system = 0
  BY <1>1, RunIdle DEF RunSound, T!Idle
<1>4. /\ d.at = "load" /\ d.report = report /\ d.left = report /\ d.external = e /\ d.system = 0
  BY <1>2, <1>3 DEF RunIs
<1>5. RunIs(d)
  BY <1>2, <1>3 DEF RunIs
<1>6. FilesSame /\ report # {} /\ run' = [run EXCEPT ![r] = d]
  BY <1>1, <1>2 DEF T!Validate, T!Goto, T!files, T!histories, FilesSame
<1>7. e = [f \in Failures |-> e[f]] /\ \A f \in Failures : e[f] = Fresh
  BY <1>1
<1>8. Ids(d)
  BY <1>4, <1>6, <1>7 DEF Ids, Reporting
<1>9. RunSound(d)
  BY <1>4, <1>5, <1>8 DEF RunSound, Tells, Snaps
<1>10. ~ \E f : ByEntry(d, f)
  BY <1>4, <1>7, FailuresAssumption DEF ByEntry
<1> QED BY <1>6, <1>9, <1>10, QuietRun

LEMMA LoadStrategyRuns == ASSUME FailInv, NEW r \in Runs, T!LoadStrategy(r) PROVE FailInv'
<1>1. PICK c, x : c = run[r] /\ x = tasks
  OBVIOUS
<1>2. PICK d : d = [c EXCEPT !.at = "store", !.tasks = x]
  OBVIOUS
<1>3. FilesSame /\ run' = [run EXCEPT ![r] = d] /\ c.at = "load"
  BY <1>1, <1>2 DEF T!LoadStrategy, T!Goto, T!files, T!histories, FilesSame
<1>4. RunSound(c) /\ RunIs(c)
  BY <1>1, RunOf
<1>5. /\ d.at = "store" /\ d.report = c.report /\ d.left = c.left /\ d.external = c.external
      /\ d.system = c.system /\ d.tasks = x
  BY <1>2, <1>4 DEF RunIs
<1>6. RunIs(d)
  BY <1>2, <1>4 DEF RunIs
<1>7. Ids(d) /\ Tells(d)
  BY <1>3, <1>4, <1>5 DEF RunSound, Ids, Tells, Reporting
<1>8. Snaps(d)
  BY <1>1, <1>5 DEF FailInv, Snaps
<1>9. \A f : ByEntry(d, f) => ByEntry(run[r], f)
  BY <1>1, <1>5 DEF ByEntry
<1> QED BY <1>3, <1>6, <1>7, <1>8, <1>9, QuietRun DEF RunSound

LEMMA ReadTodoRuns == ASSUME FailInv, NEW r \in Runs, T!ReadTodo(r) PROVE FailInv'
<1>1. PICK c, x : c = run[r] /\ x = todo
  OBVIOUS
<1>2. PICK d : d = [c EXCEPT !.at = "insert", !.todo = x]
  OBVIOUS
<1>3. FilesSame /\ run' = [run EXCEPT ![r] = d] /\ c.at = "read"
  BY <1>1, <1>2 DEF T!ReadTodo, T!Goto, T!files, T!histories, FilesSame
<1>4. RunSound(c) /\ RunIs(c)
  BY <1>1, RunOf
<1>5. /\ d.at = "insert" /\ d.report = c.report /\ d.left = c.left /\ d.external = c.external
      /\ d.system = c.system /\ d.todo = x
  BY <1>2, <1>4 DEF RunIs
<1>6. RunIs(d)
  BY <1>2, <1>4 DEF RunIs
<1>7. Ids(d) /\ Tells(d)
  BY <1>3, <1>4, <1>5 DEF RunSound, Ids, Tells, Reporting
<1>8. Snaps(d)
  BY <1>1, <1>5 DEF FailInv, Snaps
<1>9. \A f : ByEntry(d, f) => ByEntry(run[r], f)
  BY <1>1, <1>5 DEF ByEntry
<1> QED BY <1>3, <1>6, <1>7, <1>8, <1>9, QuietRun DEF RunSound

LEMMA RunDies == ASSUME FailInv, NEW r \in Runs, T!Dies(r) PROVE FailInv'
<1>1. FilesSame /\ run' = [run EXCEPT ![r] = T!Idle]
  BY DEF T!Dies, T!files, T!histories, FilesSame
<1> QED BY <1>1, RunIdle, QuietRun

LEMMA LoadMarkersRuns == ASSUME FailInv, NEW r \in Runs, T!LoadMarkers(r) PROVE FailInv'
<1>1. PICK i, q : i = T!Idle /\ q = {f \in Failures : tasks[f] = "done"}
  OBVIOUS
<1>2. PICK d : d = [i EXCEPT !.at = "markers", !.left = q]
  OBVIOUS
<1>3. RunIs(i) /\ i.system = 0 /\ i.report = {}
  BY <1>1, RunIdle DEF RunSound, T!Idle
<1>4. d.at = "markers" /\ d.report = {} /\ d.left = q /\ d.system = 0
  BY <1>2, <1>3 DEF RunIs
<1>5. RunIs(d)
  BY <1>2, <1>3 DEF RunIs
<1>6. FilesSame /\ run' = [run EXCEPT ![r] = d]
  BY <1>1, <1>2 DEF T!LoadMarkers, T!Goto, T!files, T!histories, FilesSame
<1>7. q \subseteq wasDone
  BY <1>1 DEF FailInv, TasksAre
<1>8. Ids(d) /\ Tells(d) /\ Snaps(d)
  BY <1>4, <1>7 DEF Ids, Tells, Snaps, Reporting
<1>9. ~ \E f : ByEntry(d, f)
  BY <1>4 DEF ByEntry
<1> QED BY <1>5, <1>6, <1>8, <1>9, QuietRun DEF RunSound

LEMMA ReadBoxesRuns == ASSUME FailInv, NEW r \in Runs, T!ReadBoxes(r) PROVE FailInv'
<1>1. PICK c, x : c = run[r] /\ x = todo
  OBVIOUS
<1>2. PICK d : d = [c EXCEPT !.at = "tick", !.todo = x]
  OBVIOUS
<1>3. FilesSame /\ run' = [run EXCEPT ![r] = d] /\ c.at = "markers"
  BY <1>1, <1>2 DEF T!ReadBoxes, T!Goto, T!files, T!histories, FilesSame
<1>4. RunSound(c) /\ RunIs(c)
  BY <1>1, RunOf
<1>5. /\ d.at = "tick" /\ d.report = c.report /\ d.left = c.left /\ d.system = c.system /\ d.todo = x
  BY <1>2, <1>4 DEF RunIs
<1>6. RunIs(d)
  BY <1>2, <1>4 DEF RunIs
<1>7. d.report = {} /\ Ids(d)
  BY <1>3, <1>4, <1>5 DEF RunSound, Ids, Reporting
<1>8. Snaps(d)
  BY <1>1, <1>3, <1>4, <1>5 DEF FailInv, RunSound, Snaps
<1>9. Tells(d) /\ ~ \E f : ByEntry(d, f)
  BY <1>7 DEF Tells, ByEntry
<1> QED BY <1>3, <1>6, <1>7, <1>8, <1>9, QuietRun DEF RunSound

-----------------------------------------------------------------------------
(* planfile.yaml is written.                                               *)
LEMMA TasksWritten ==
  ASSUME FailInv, NEW r \in Runs, T!StoreStrategy(r)
  PROVE  FailInv'
<1>1. PICK c, d : c = run[r] /\ d = [c EXCEPT !.at = "check"]
  OBVIOUS
<1>2. /\ c.at = "store" /\ run' = [run EXCEPT ![r] = d]
      /\ tasks' = T!Upsert(c.tasks, c.report) /\ stored' = stored \cup c.report
      /\ overwritten' = (overwritten \/ c.tasks # tasks)
      /\ todo' = todo /\ order' = order /\ issues' = issues
      /\ finished' = finished /\ crossed' = crossed /\ foreign' = foreign /\ wasDone' = wasDone
  BY <1>1 DEF T!StoreStrategy, T!Goto
<1>3. RunSound(c) /\ RunIs(c)
  BY <1>1, RunOf
<1>4. /\ d.at = "check" /\ d.report = c.report /\ d.left = c.left /\ d.external = c.external
      /\ d.system = c.system /\ RunIs(d)
  BY <1>1, <1>3 DEF RunIs
<1>5. Ids(d) /\ Tells(d) /\ Snaps(d)
  BY <1>2, <1>3, <1>4 DEF RunSound, Ids, Tells, Snaps, Reporting
<1>6. Later /\ IssuesAre'
  BY <1>2 DEF FailInv, Later, Told, IssuesAre
<1>7. RunSound(d)'
  BY <1>4, <1>5, <1>6, RunStays DEF RunSound
<1>8. RunsSound' /\ run'[r] = d /\ \A q \in Runs : q # r => run'[q] = run[q]
  BY <1>2, <1>6, <1>7, RunsGo DEF FailInv
<1>9. Telling'
  <2>1. \A f : Told(f) => Told(f)'
    BY <1>6 DEF Later
  <2>2. \A f : ByEntry(d, f) => ByEntry(run[r], f)
    BY <1>1, <1>4 DEF ByEntry
  <2>3. Telling /\ finished' = finished /\ (crossed => crossed') /\ todo' = todo
    BY <1>2 DEF FailInv
  <2> QED BY <1>8, <2>1, <2>2, <2>3, CountStays
<1>10. TasksAre(c.tasks) /\ c.report \subseteq Failures
  BY <1>2, <1>3 DEF RunSound, Snaps, Ids
<1>11. TasksAre(tasks)'
  <2>1. tasks' = [f \in Failures |-> IF f \in c.report /\ c.tasks[f] = "none" THEN "todo" ELSE c.tasks[f]]
    BY <1>2 DEF T!Upsert
  <2> QED BY <1>2, <1>10, <2>1 DEF TasksAre
<1>12. T!TasksKept'
  <2>1. ASSUME NEW f \in stored', tasks'[f] = "none", c.tasks = tasks PROVE overwritten
    <3>1. CASE f \in c.report
      <4>1. tasks'[f] = IF c.tasks[f] = "none" THEN "todo" ELSE c.tasks[f]
        BY <1>2, <1>10, <3>1 DEF T!Upsert
      <4> QED BY <2>1, <4>1
    <3>2. CASE f \in stored /\ f \notin c.report
      <4>1. tasks[f] # "none" \/ overwritten
        BY <3>2 DEF FailInv, T!TasksKept
      <4>2. f \in Failures => tasks'[f] = tasks[f]
        BY <1>2, <2>1, <3>2 DEF T!Upsert
      <4>3. f \in Failures
        BY <3>2 DEF FailInv
      <4> QED BY <2>1, <4>1, <4>2, <4>3
    <3> QED BY <1>2, <3>1, <3>2
  <2> QED BY <1>2, <2>1 DEF T!TasksKept
<1>13. /\ TodoIs(todo)' /\ finished' \in [Failures -> Nat] /\ stored' \subseteq Failures
       /\ T!OneEntry' /\ T!FirstTrackerOwn'
  BY <1>2, <1>10 DEF FailInv, TodoIs, T!OneEntry, T!FirstTrackerOwn
<1> QED BY <1>6, <1>8, <1>9, <1>11, <1>12, <1>13 DEF FailInv

LEMMA TaskMarked ==
  ASSUME FailInv, NEW f \in Failures, NEW x \in {"todo", "done"}, T!MarkTask(f, x)
  PROVE  FailInv'
<1>1. /\ tasks[f] # "none" /\ tasks' = [tasks EXCEPT ![f] = x]
      /\ wasDone' = IF x = "done" THEN wasDone \cup {f} ELSE wasDone
      /\ todo' = todo /\ order' = order /\ issues' = issues /\ run' = run /\ stored' = stored
      /\ finished' = finished /\ overwritten' = overwritten /\ crossed' = crossed /\ foreign' = foreign
  BY DEF T!MarkTask
<1>2. Later /\ IssuesAre'
  BY <1>1 DEF FailInv, Later, Told, IssuesAre
<1>3. TasksAre(tasks)'
  BY <1>1 DEF FailInv, TasksAre
<1>4. TodoIs(todo)'
  <2>1. TodoIs(todo)
    BY DEF FailInv
  <2>2. PICK y : y = todo
    OBVIOUS
  <2>3. TodoIs(y)'
    BY <1>2, <2>1, <2>2, TodoStays
  <2> QED BY <1>1, <2>2, <2>3
<1>5. RunsSound'
  <2>1. ASSUME NEW q \in Runs PROVE RunSound(run[q])'
    <3>1. PICK y : y = run[q]
      OBVIOUS
    <3>2. RunSound(y)
      BY <3>1 DEF FailInv, RunsSound
    <3>3. RunSound(y)'
      BY <1>2, <3>2, RunStays
    <3> QED BY <1>1, <3>1, <3>3
  <2> QED BY <1>1, <2>1 DEF FailInv, RunsSound
<1>6. T!TasksKept'
  BY <1>1 DEF FailInv, TasksAre, T!TasksKept
<1>7. T!OneEntry' /\ T!FirstTrackerOwn' /\ finished' \in [Failures -> Nat] /\ stored' \subseteq Failures
  BY <1>1 DEF FailInv, T!OneEntry, T!FirstTrackerOwn
<1>8. Telling'
  BY <1>1 DEF FailInv, Telling, Told, Counted, ByEntry
<1> QED BY <1>2, <1>3, <1>4, <1>5, <1>6, <1>7, <1>8 DEF FailInv

LEMMA BoxesTicked ==
  ASSUME FailInv, NEW r \in Runs, T!TickBoxes(r)
  PROVE  FailInv'
<1>1. PICK c, ticked, box :
        /\ c = run[r] /\ ticked = {f \in T!Ticks(c.left) : c.todo.box[f] = "open"}
        /\ box = [f \in Failures |-> IF f \in ticked THEN "ticked" ELSE c.todo.box[f]]
  OBVIOUS
<1>2. /\ c.at = "tick" /\ run' = [run EXCEPT ![r] = T!Idle]
      /\ todo' = IF ticked = {} THEN todo ELSE [c.todo EXCEPT !.box = box]
      /\ crossed' = (crossed \/ (ticked # {} /\ c.todo # todo))
      /\ tasks' = tasks /\ stored' = stored /\ order' = order /\ issues' = issues
      /\ finished' = finished /\ overwritten' = overwritten /\ foreign' = foreign /\ wasDone' = wasDone
  BY <1>1 DEF T!TickBoxes, T!Goto
<1>3. RunSound(c) /\ TodoIs(c.todo) /\ c.left \subseteq wasDone
  BY <1>1, <1>2, RunOf DEF RunSound, Snaps
<1>4. Later /\ IssuesAre'
  BY <1>2 DEF FailInv, Later, Told, IssuesAre
<1>5. RunSound(T!Idle)'
  <2>1. PICK i : i = T!Idle
    OBVIOUS
  <2>2. RunSound(i)'
    BY <1>4, <2>1, RunIdle, RunStays
  <2> QED BY <2>1, <2>2 DEF T!Idle
<1>6. RunsSound' /\ run'[r] = T!Idle /\ \A q \in Runs : q # r => run'[q] = run[q]
  BY <1>2, <1>4, <1>5, RunsGo DEF FailInv
<1>7. TodoIs(todo)' /\ \A f \in Failures : todo'.entries[f] = todo.entries[f] \/ crossed'
  <2>1. CASE ticked = {}
    <3>1. TodoIs(todo)'
      BY <1>2, <2>1 DEF FailInv, TodoIs
    <3> QED BY <1>2, <2>1, <3>1
  <2>2. CASE ticked # {}
    <3>1. PICK x, y : x = c.todo /\ y = [x EXCEPT !.box = box]
      OBVIOUS
    <3>2. y = [entries |-> y.entries, box |-> y.box] /\ y.entries = x.entries /\ y.box = box
      BY <1>3, <3>1 DEF TodoIs
    <3>3. todo' = y
      BY <1>2, <2>2, <3>1
    <3>4. ASSUME NEW f \in Failures, box[f] = "ticked" PROVE T!Names(f) \cap wasDone # {}
      <4>1. CASE f \in ticked
        <5>1. T!Names(f) \cap c.left # {}
          BY <1>1, <4>1 DEF T!Ticks
        <5> QED BY <1>3, <5>1
      <4>2. CASE f \notin ticked
        BY <1>1, <1>3, <3>4, <4>2 DEF TodoIs
      <4> QED BY <4>1, <4>2
    <3>5. box = [f \in Failures |-> box[f]]
      BY <1>1
    <3>6. TodoIs(y)
      BY <1>3, <3>1, <3>2, <3>4, <3>5 DEF TodoIs
    <3>7. TodoIs(y)'
      BY <1>4, <3>6, TodoStays
    <3>8. x = todo \/ crossed'
      BY <1>2, <2>2, <3>1
    <3> QED BY <3>2, <3>3, <3>7, <3>8
  <2> QED BY <2>1, <2>2
<1>8. crossed => crossed'
  BY <1>2
<1>9. Telling'
  <2>1. \A f : Told(f) => Told(f)'
    BY <1>4 DEF Later
  <2>2. \A f : ByEntry(T!Idle, f) => ByEntry(run[r], f)
    BY RunIdle
  <2>3. Telling /\ finished' = finished
    BY <1>2 DEF FailInv
  <2> QED BY <1>6, <1>7, <1>8, <2>1, <2>2, <2>3, CountStays
<1>10. T!OneEntry'
  <2>1. T!OneEntry
    BY DEF FailInv
  <2> QED BY <1>7, <1>8, <2>1 DEF T!OneEntry
<1>11. /\ TasksAre(tasks)' /\ finished' \in [Failures -> Nat] /\ stored' \subseteq Failures
       /\ T!TasksKept' /\ T!FirstTrackerOwn'
  BY <1>2 DEF FailInv, TasksAre, T!TasksKept, T!FirstTrackerOwn
<1> QED BY <1>4, <1>6, <1>7, <1>9, <1>10, <1>11 DEF FailInv

-----------------------------------------------------------------------------
(* A ticket is handled.  The run goes on with the others, with the next    *)
(* system, or ends.                                                        *)
LEMMA FirstIs ==
  ASSUME NEW S, S \subseteq Nat, S # {}
  PROVE  (CHOOSE f \in S : \A g \in S : f <= g) \in S
<1>1. \E f \in S : \A g \in S : f <= g
  BY LeastOf
<1> QED BY <1>1

Handled(c, f, id, d) ==
  /\ \A g \in Failures \ {f} : d.external[g] = c.external[g]
  /\ d.external = [g \in Failures |-> d.external[g]] /\ d.external[f] = id
  /\ d.report = c.report /\ RunIs(d)
  /\ \/ c.left \ {f} # {} /\ d.left = c.left \ {f} /\ d.system = c.system
     \/ /\ c.left \ {f} = {} /\ c.system < Len(order) /\ d.at = "tracker"
        /\ d.left = c.report /\ d.system = c.system + 1
  /\ d.at = IF d.system = 0 THEN "check" ELSE "tracker"

LEMMA HandlesIs ==
  ASSUME FailInv, NEW r \in Runs, NEW from \in {"check", "insert", "tracker"}, NEW id,
         T!Handles(r, from, id)
  PROVE  LET c == run[r] f == T!First(r) IN
         /\ c.at = from /\ f \in c.left /\ f \in c.report /\ f \in Failures
         /\ \/ /\ finished' = finished
               /\ \E d : run' = [run EXCEPT ![r] = d] /\ Handled(c, f, id, d)
            \/ /\ run' = [run EXCEPT ![r] = T!Idle] /\ c.left = {f} /\ c.system = Len(order)
               /\ finished' = [g \in Failures |-> finished[g] + IF g \in c.report THEN 1 ELSE 0]
<1>1. PICK c, f : c = run[r] /\ f = T!First(r)
  OBVIOUS
<1>2. RunSound(c) /\ RunIs(c) /\ c.at = from
  BY <1>1, RunOf DEF T!Handles, T!Goto
<1>3. /\ c.left # {} /\ c.left \subseteq c.report /\ c.report \subseteq Failures
      /\ c.external = [g \in Failures |-> c.external[g]] /\ c.system \in 0..2
      /\ from = "tracker" => c.system \in 1..Len(order)
      /\ from # "tracker" => c.system = 0
  BY <1>2 DEF RunSound, Ids, Reporting
<1>4. f \in c.left
  <2>1. c.left \subseteq Nat
    BY <1>3, FailuresAssumption
  <2> QED BY <1>1, <1>3, <2>1, FirstIs DEF T!First
<1>5. PICK x, q, e : /\ q = c.left \ {f} /\ e = [c.external EXCEPT ![f] = id]
                     /\ x = [c EXCEPT !.left = q, !.external = e]
  OBVIOUS
<1>6. RunIs(x)
  BY <1>2, <1>5 DEF RunIs
<1>7. /\ x.at = c.at /\ x.report = c.report /\ x.left = q /\ x.system = c.system /\ x.external = e
  BY <1>2, <1>5 DEF RunIs
<1>8. /\ e = [g \in Failures |-> e[g]] /\ e[f] = id /\ \A g \in Failures \ {f} : e[g] = c.external[g]
  BY <1>3, <1>4, <1>5
<1>9. x = [c EXCEPT !.left = @ \ {f}, !.external[f] = id]
  <2>1. x = [c EXCEPT !.left = c.left \ {f}, !.external = [c.external EXCEPT ![f] = id]]
    BY <1>5
  <2>2. PICK y : y = [c EXCEPT !.left = @ \ {f}]
    OBVIOUS
  <2>3. y.external = c.external /\ y = [c EXCEPT !.left = c.left \ {f}]
    BY <1>2, <2>2 DEF RunIs
  <2>4. [y EXCEPT !.external[f] = id] = [y EXCEPT !.external = [c.external EXCEPT ![f] = id]]
    BY <2>3
  <2> QED BY <2>1, <2>2, <2>3, <2>4
<1>10. PICK y1, y2, p, s :
         /\ p = (IF c.system = 0 THEN "check" ELSE "tracker") /\ s = c.system + 1
         /\ y1 = [x EXCEPT !.at = p]
         /\ y2 = [x EXCEPT !.at = "tracker", !.system = s, !.left = x.report]
  OBVIOUS
<1>11. /\ run' = [run EXCEPT ![r] = IF x.left # {} THEN y1
                                    ELSE IF x.left = {} /\ x.system = Len(order) THEN T!Idle ELSE y2]
       /\ finished' = IF x.left = {} /\ x.system = Len(order)
                      THEN [g \in Failures |-> finished[g] + IF g \in x.report THEN 1 ELSE 0]
                      ELSE finished
  BY <1>1, <1>7, <1>9, <1>10 DEF T!Handles, T!Goto
<1>12. CASE q # {}
  <2>1. /\ y1.at = p /\ y1.report = c.report /\ y1.left = q /\ y1.system = c.system /\ y1.external = e
    BY <1>6, <1>7, <1>10 DEF RunIs
  <2>2. RunIs(y1)
    BY <1>6, <1>10 DEF RunIs
  <2>3. Handled(c, f, id, y1)
    BY <1>5, <1>8, <1>10, <1>12, <2>1, <2>2 DEF Handled
  <2>4. run' = [run EXCEPT ![r] = y1] /\ finished' = finished
    BY <1>7, <1>11, <1>12
  <2> QED BY <1>1, <1>2, <1>3, <1>4, <2>3, <2>4
<1>13. CASE q = {} /\ c.system # Len(order)
  <2>1. /\ y2.at = "tracker" /\ y2.report = c.report /\ y2.left = c.report /\ y2.system = s
        /\ y2.external = e
    BY <1>6, <1>7, <1>10 DEF RunIs
  <2>2. RunIs(y2)
    BY <1>6, <1>10 DEF RunIs
  <2>3. c.system < Len(order) /\ s # 0
    BY <1>3, <1>10, <1>13, OrdersAre DEF FailInv
  <2>4. Handled(c, f, id, y2)
    BY <1>5, <1>8, <1>10, <1>13, <2>1, <2>2, <2>3 DEF Handled
  <2>5. run' = [run EXCEPT ![r] = y2] /\ finished' = finished
    BY <1>7, <1>11, <1>13
  <2> QED BY <1>1, <1>2, <1>3, <1>4, <2>4, <2>5
<1>14. CASE q = {} /\ c.system = Len(order)
  <2>1. run' = [run EXCEPT ![r] = T!Idle]
    BY <1>7, <1>11, <1>14
  <2>2. finished' = [g \in Failures |-> finished[g] + IF g \in c.report THEN 1 ELSE 0]
    BY <1>7, <1>11, <1>14
  <2>3. c.left = {f}
    BY <1>4, <1>5, <1>14
  <2> QED BY <1>1, <1>2, <1>3, <1>4, <1>14, <2>1, <2>2, <2>3
<1> QED BY <1>12, <1>13, <1>14

(* The id a ticket may get: no number before the first tracker, and past   *)
(* it that of an entry only if it had it before, or its failure was told.  *)
Fits(c, f, id) ==
  /\ c.system = 0 => id \in {Fresh, Slug}
  /\ c.system # 0 => (id = Slug => c.external[f] = Slug) /\ (id = Slug \/ Told(f)')

LEMMA HandledSound ==
  ASSUME FailInv, Later, NEW c, NEW f, NEW id, NEW d, RunSound(c), f \in c.left, f \in c.report,
         c.at \in {"check", "insert", "tracker"}, Handled(c, f, id, d), Fits(c, f, id)
  PROVE  RunSound(d)'
<1>1. Ids(c) /\ Tells(c) /\ c.report \subseteq Failures /\ c.left \subseteq c.report /\ f \in Failures
  BY DEF RunSound, Ids, Reporting
<1>2. /\ d.report = c.report /\ RunIs(d) /\ d.external[f] = id
      /\ \A g \in Failures \ {f} : d.external[g] = c.external[g]
      /\ d.at = IF d.system = 0 THEN "check" ELSE "tracker"
  BY DEF Handled
<1>3. Len(order) \in 1..2 /\ order' = order /\ c.system \in 0..2
  BY <1>1, OrdersAre DEF FailInv, Later, Ids
<1>4. \/ c.left \ {f} # {} /\ d.left = c.left \ {f} /\ d.system = c.system
      \/ c.left \ {f} = {} /\ c.system < Len(order) /\ d.left = c.report /\ d.system = c.system + 1
  BY DEF Handled
<1>5. d.system \in 0..2 /\ (d.system # 0 => d.system \in 1..Len(order))
  <2>1. CASE d.system = c.system
    <3>1. c.at = "tracker" \/ c.system = 0
      BY <1>1 DEF Ids
    <3> QED BY <1>1, <1>3, <2>1, <3>1 DEF Ids
  <2>2. CASE c.system < Len(order) /\ d.system = c.system + 1
    <3>1. PICK n \in 1..2, s \in 0..2 : n = Len(order) /\ s = c.system
      BY <1>3
    <3>2. s < n /\ d.system = s + 1
      BY <2>2, <3>1
    <3>3. d.system \in 0..2 /\ d.system \in 1..n
      BY <3>2
    <3> QED BY <3>1, <3>3
  <2> QED BY <1>4, <2>1, <2>2
<1>6. \A g \in c.report : d.system = 0 \/ (d.system = 1 /\ g \in d.left) => d.external[g] \in {Fresh, Slug}
  <2> SUFFICES ASSUME NEW g \in c.report, d.system = 0 \/ (d.system = 1 /\ g \in d.left)
               PROVE  d.external[g] \in {Fresh, Slug}
    OBVIOUS
  <2>1. c.system = 0 \/ (c.system = 1 /\ g \in c.left /\ g # f)
    BY <1>3, <1>4
  <2>2. CASE g = f
    BY <1>2, <2>1, <2>2 DEF Fits
  <2>3. CASE g # f
    BY <1>1, <1>2, <2>1, <2>3 DEF Ids
  <2> QED BY <2>2, <2>3
<1>7. \A g \in c.report :
        d.system = 2 \/ (d.system = 1 /\ g \notin d.left) => d.external[g] = Slug \/ Told(g)'
  <2> SUFFICES ASSUME NEW g \in c.report, d.system = 2 \/ (d.system = 1 /\ g \notin d.left)
               PROVE  d.external[g] = Slug \/ Told(g)'
    OBVIOUS
  <2>1. c.system # 0 /\ (g # f => c.system = 2 \/ (c.system = 1 /\ g \notin c.left))
    BY <1>3, <1>4
  <2>2. CASE g = f
    BY <1>2, <2>1, <2>2 DEF Fits
  <2>3. CASE g # f
    <3>1. c.external[g] = Slug \/ Told(g)
      BY <1>1, <2>1, <2>3 DEF Tells
    <3> QED BY <1>1, <1>2, <2>3, <3>1 DEF Later
  <2> QED BY <2>2, <2>3
<1>8. d.left # {} /\ d.left \subseteq c.report
  BY <1>1, <1>4
<1>9. Ids(d)'
  BY <1>1, <1>2, <1>3, <1>5, <1>6, <1>8 DEF Ids, Handled, Reporting
<1>10. Tells(d)'
  BY <1>2, <1>7 DEF Tells
<1>11. Snaps(d)'
  BY <1>2 DEF Snaps
<1> QED BY <1>2, <1>9, <1>10, <1>11 DEF RunSound, RunIs

(* A run that ends has told each of its failures or had its entry's id.    *)
LEMMA CountEnds ==
  ASSUME FailInv, Later, NEW r \in Runs, NEW f \in Failures, NEW id, run[r].left = {f},
         run[r].system = Len(order), Fits(run[r], f, id), crossed' = crossed,
         run'[r] = T!Idle, \A q \in Runs : q # r => run'[q] = run[q],
         \A g \in Failures : todo'.entries[g] = todo.entries[g],
         finished' = [g \in Failures |-> finished[g] + IF g \in run[r].report THEN 1 ELSE 0]
  PROVE  Telling'
<1>1. PICK c : c = run[r]
  OBVIOUS
<1>2. Tells(c) /\ Len(order) \in 1..2 /\ finished \in [Failures -> Nat]
  BY <1>1, RunOf, OrdersAre DEF FailInv, RunSound
<1>5. c.system = Len(order) /\ c.left = {f} /\ c.system # 0
  <2>1. c.system = Len(order) /\ c.left = {f}
    BY <1>1
  <2>2. \A n \in 1..2 : n # 0
    OBVIOUS
  <2> QED BY <1>2, <2>1, <2>2
<1>6. (id = Slug => c.external[f] = Slug) /\ (id = Slug \/ Told(f)')
  <2>1. Fits(c, f, id)
    BY <1>1
  <2> QED BY <1>5, <2>1 DEF Fits
<1>3. ASSUME NEW g \in Failures, Counted(g), ~Told(g)' PROVE Counted(g)'
  <2>1. g \in c.report => ByEntry(c, g)
    <3>1. CASE g = f
      BY <1>3, <1>6, <3>1 DEF ByEntry
    <3>2. CASE g # f /\ g \in c.report
      <4>1. c.system = 2 \/ (c.system = 1 /\ g \notin c.left)
        BY <1>2, <1>5, <3>2
      <4>2. c.external[g] = Slug \/ Told(g)
        BY <1>2, <3>2, <4>1 DEF Tells
      <4> QED BY <1>3, <3>2, <4>2 DEF Later, ByEntry
    <3> QED BY <3>1, <3>2
  <2>2. \A q \in Runs : ByEntry(run'[q], g) => q # r /\ ByEntry(run[q], g)
    BY RunIdle
  <2>3. \A q \in Runs : ByEntry(run[q], g)' <=> ByEntry(run'[q], g)
    BY DEF ByEntry
  <2>4. CASE g \in c.report
    <3>1. finished[g] = 0 /\ todo.entries[g] # 0 /\ \A q \in Runs : ByEntry(run[q], g) => q = r
      BY <1>1, <1>3, <2>1, <2>4 DEF Counted
    <3>2. finished'[g] = 1 /\ todo'.entries[g] # 0
      BY <1>1, <2>4, <3>1
    <3>3. \A q \in Runs : ~ByEntry(run[q], g)'
      BY <2>2, <2>3, <3>1
    <3> QED BY <3>2, <3>3 DEF Counted
  <2>5. CASE g \notin c.report
    <3>1. finished'[g] = finished[g] /\ todo'.entries[g] = todo.entries[g]
      BY <1>1, <1>2, <2>5
    <3>2. ASSUME NEW q \in Runs, ByEntry(run'[q], g)
          PROVE  /\ finished[g] = 0 /\ todo.entries[g] # 0
                 /\ \A s \in Runs : ByEntry(run'[s], g) => s = q
      BY <1>3, <2>2, <3>2 DEF Counted
    <3> QED BY <1>3, <2>3, <3>1, <3>2 DEF Counted
  <2> QED BY <2>4, <2>5
<1>4. Telling /\ \A g : Told(g) => Told(g)'
  BY DEF FailInv, Later
<1> QED BY <1>3, <1>4 DEF Telling

(* A ticket is handled that no entry is made for.                          *)
LEMMA HandledRuns ==
  ASSUME FailInv, Later, IssuesAre', NEW r \in Runs, NEW from \in {"check", "tracker"}, NEW id,
         T!Handles(r, from, id), Fits(run[r], T!First(r), id),
         run[r].system = 0 => id # Slug,
         tasks' = tasks, todo' = todo, stored' = stored, overwritten' = overwritten,
         crossed' = crossed, T!FirstTrackerOwn', wasDone' = wasDone
  PROVE  FailInv'
<1>1. PICK c, f : c = run[r] /\ f = T!First(r)
  OBVIOUS
<1>2. /\ c.at = from /\ f \in c.left /\ f \in c.report /\ f \in Failures
      /\ \/ /\ finished' = finished
            /\ \E d : run' = [run EXCEPT ![r] = d] /\ Handled(c, f, id, d)
         \/ /\ run' = [run EXCEPT ![r] = T!Idle] /\ c.left = {f} /\ c.system = Len(order)
            /\ finished' = [g \in Failures |-> finished[g] + IF g \in c.report THEN 1 ELSE 0]
  BY <1>1, HandlesIs
<1>3. RunSound(c) /\ Fits(c, f, id)
  BY <1>1, RunOf
<1>4. RunsSound' /\ Telling' /\ finished' \in [Failures -> Nat]
  <2>1. ASSUME finished' = finished, NEW d, run' = [run EXCEPT ![r] = d], Handled(c, f, id, d)
        PROVE  RunsSound' /\ Telling'
    <3>1. RunSound(d)'
      BY <1>2, <1>3, <2>1, HandledSound
    <3>2. RunsSound' /\ run'[r] = d /\ \A q \in Runs : q # r => run'[q] = run[q]
      BY <2>1, <3>1, RunsGo DEF FailInv
    <3>3. ASSUME NEW g, ByEntry(d, g) PROVE ByEntry(run[r], g)
      <4>1. g \in c.report /\ d.external[g] = Slug /\ g \in Failures
        BY <1>3, <2>1, <3>3 DEF Handled, ByEntry, RunSound, Ids
      <4>2. CASE g = f
        <5>1. id = Slug
          BY <2>1, <4>1, <4>2 DEF Handled
        <5>2. c.external[f] = Slug
          BY <1>1, <1>3, <5>1 DEF Fits
        <5> QED BY <1>1, <4>1, <4>2, <5>2 DEF ByEntry
      <4>3. CASE g # f
        BY <1>1, <2>1, <4>1, <4>3 DEF Handled, ByEntry
      <4> QED BY <4>2, <4>3
    <3>4. Telling /\ \A g : Told(g) => Told(g)'
      BY DEF FailInv, Later
    <3>5. Telling'
      BY <2>1, <3>2, <3>3, <3>4, CountStays
    <3> QED BY <3>2, <3>5
  <2>2. CASE /\ run' = [run EXCEPT ![r] = T!Idle] /\ c.left = {f} /\ c.system = Len(order)
             /\ finished' = [g \in Failures |-> finished[g] + IF g \in c.report THEN 1 ELSE 0]
    <3>1. RunSound(T!Idle)'
      <4>1. PICK i : i = T!Idle
        OBVIOUS
      <4>2. RunSound(i)'
        BY <4>1, RunIdle, RunStays
      <4> QED BY <4>1, <4>2 DEF T!Idle
    <3>2. RunsSound' /\ run'[r] = T!Idle /\ \A q \in Runs : q # r => run'[q] = run[q]
      BY <2>2, <3>1, RunsGo DEF FailInv
    <3>3. Telling'
      BY <1>1, <1>2, <1>3, <2>2, <3>2, CountEnds
    <3>4. finished' \in [Failures -> Nat]
      BY <2>2 DEF FailInv
    <3> QED BY <3>2, <3>3, <3>4
  <2> QED BY <1>2, <2>1, <2>2 DEF FailInv
<1>5. TasksAre(tasks)' /\ TodoIs(todo)'
  BY DEF FailInv, TasksAre, TodoIs
<1>6. T!TasksKept' /\ T!OneEntry' /\ stored' \subseteq Failures
  BY DEF FailInv, T!TasksKept, T!OneEntry
<1> QED BY <1>4, <1>5, <1>6 DEF FailInv

-----------------------------------------------------------------------------
LEMMA EntryChecked == ASSUME FailInv, NEW r \in Runs, T!CheckEntry(r) PROVE FailInv'
<1>1. /\ tasks' = tasks /\ todo' = todo /\ order' = order /\ issues' = issues /\ stored' = stored
      /\ overwritten' = overwritten /\ crossed' = crossed /\ foreign' = foreign /\ wasDone' = wasDone
      /\ run[r].at = "check"
  BY DEF T!CheckEntry, T!files
<1>2. RunSound(run[r])
  BY RunOf
<1>3. CASE T!Handles(r, "check", Fresh)
  <2>1. Later /\ IssuesAre' /\ T!FirstTrackerOwn'
    BY <1>1 DEF FailInv, Later, Told, IssuesAre, T!FirstTrackerOwn
  <2>2. run[r].system = 0
    BY <1>1, <1>2 DEF RunSound, Ids
  <2>3. Fits(run[r], T!First(r), Fresh) /\ Fresh # Slug
    BY <2>2, FailuresAssumption DEF Fits
  <2> QED BY <1>1, <1>3, <2>1, <2>3, HandledRuns
<1>4. CASE T!Goto(r, "check", [run[r] EXCEPT !.at = "read"]) /\ finished' = finished
  <2>1. PICK c, d : c = run[r] /\ d = [c EXCEPT !.at = "read"]
    OBVIOUS
  <2>2. FilesSame /\ run' = [run EXCEPT ![r] = d] /\ c.at = "check"
    BY <1>1, <1>4, <2>1 DEF T!Goto, FilesSame
  <2>3. RunSound(c) /\ RunIs(c)
    BY <2>1, RunOf
  <2>4. /\ d.at = "read" /\ d.report = c.report /\ d.left = c.left /\ d.external = c.external
        /\ d.system = c.system /\ RunIs(d)
    BY <2>1, <2>3 DEF RunIs
  <2>5. Ids(d) /\ Tells(d) /\ Snaps(d)
    BY <2>2, <2>3, <2>4 DEF RunSound, Ids, Tells, Snaps, Reporting
  <2>6. \A f : ByEntry(d, f) => ByEntry(run[r], f)
    BY <2>1, <2>4 DEF ByEntry
  <2> QED BY <2>2, <2>4, <2>5, <2>6, QuietRun DEF RunSound
<1> QED BY <1>3, <1>4 DEF T!CheckEntry

LEMMA UpdateTried ==
  ASSUME FailInv, NEW r \in Runs, T!UpdateFails(r) \/ T!UpdateIssue(r)
  PROVE  FailInv'
<1>1. PICK c, f, id : c = run[r] /\ f = T!First(r) /\ id = T!Taken(r)
  OBVIOUS
<1>2. /\ tasks' = tasks /\ todo' = todo /\ order' = order /\ issues' = issues /\ stored' = stored
      /\ overwritten' = overwritten /\ crossed' = crossed /\ wasDone' = wasDone
      /\ c.at = "tracker" /\ T!Handles(r, "tracker", id) /\ id = c.external[f]
  BY <1>1 DEF T!UpdateFails, T!UpdateIssue, T!files, T!Taken
<1>3. RunSound(c) /\ f \in c.left /\ f \in c.report /\ f \in Failures
  BY <1>1, <1>2, RunOf, HandlesIs
<1>4. c.system \in 1..Len(order) /\ Len(order) \in 1..2 /\ c.system \in {1, 2}
  <2>1. c.system \in 1..Len(order) /\ Len(order) \in 1..2
    BY <1>2, <1>3, OrdersAre DEF FailInv, RunSound, Ids
  <2>2. \A n \in 1..2 : \A s \in 1..n : s \in {1, 2}
    OBVIOUS
  <2> QED BY <2>1, <2>2
<1>5. Later /\ IssuesAre'
  BY <1>2 DEF FailInv, Later, Told, IssuesAre
<1>6. c.system = 1 => id \in {Fresh, Slug}
  BY <1>2, <1>3 DEF RunSound, Ids
<1>7. T!Finds(r) => c.system # 1
  <2>1. ASSUME T!Finds(r), c.system = 1 PROVE FALSE
    <3>1. id \in DOMAIN issues[order[1]]
      BY <1>1, <2>1 DEF T!Finds, T!Tracker
    <3>2. IsSeq(issues[order[1]])
      <4>1. 1 \in 1..Len(order)
        BY <1>4
      <4> QED BY <4>1, OrdersAre DEF FailInv, IssuesAre
    <3>3. id \in Nat
      BY <3>1, <3>2 DEF IsSeq
    <3> QED BY <1>6, <2>1, <3>3, FailuresAssumption
  <2> QED BY <2>1
<1>8. T!FirstTrackerOwn' /\ (c.system = 1 => id = Slug)
  <2>1. CASE T!UpdateFails(r)
    <3>1. foreign' = foreign /\ id = Slug
      BY <1>1, <2>1 DEF T!UpdateFails, T!Fails
    <3> QED BY <1>2, <3>1 DEF FailInv, T!FirstTrackerOwn
  <2>2. CASE T!UpdateIssue(r)
    <3>1. c.system # 1 /\ foreign' \subseteq foreign \cup {T!Tracker(r)}
      BY <1>7, <2>2 DEF T!UpdateIssue
    <3>2. T!Tracker(r) # order[1]
      BY <1>1, <1>4, <3>1, OrdersAre DEF FailInv, T!Tracker
    <3> QED BY <1>2, <3>1, <3>2 DEF FailInv, T!FirstTrackerOwn
  <2> QED BY <2>1, <2>2
<1>9. Fits(c, f, id)
  <2>1. c.system = 2 => id = Slug \/ Told(f)
    BY <1>2, <1>3 DEF RunSound, Tells
  <2> QED BY <1>2, <1>4, <1>5, <1>8, <2>1 DEF Fits, Later
<1>10. c.system # 0
  BY <1>4
<1> QED BY <1>1, <1>2, <1>5, <1>8, <1>9, <1>10, HandledRuns

LEMMA IssueCreated == ASSUME FailInv, NEW r \in Runs, T!CreateIssue(r) PROVE FailInv'
<1>1. PICK c, f, k, n : /\ c = run[r] /\ f = T!First(r) /\ k = T!Tracker(r)
                        /\ n = IF T!Taken(r) = Fresh THEN Len(issues[k]) + 1 ELSE T!Taken(r)
  OBVIOUS
<1>2. /\ tasks' = tasks /\ todo' = todo /\ order' = order /\ stored' = stored
      /\ overwritten' = overwritten /\ crossed' = crossed /\ wasDone' = wasDone /\ foreign' = foreign
      /\ c.at = "tracker" /\ T!Handles(r, "tracker", n)
      /\ issues' = [issues EXCEPT ![k] = Append(issues[k], f)]
      /\ n = IF c.external[f] = Fresh THEN Len(issues[k]) + 1 ELSE c.external[f]
  BY <1>1 DEF T!CreateIssue, T!Taken
<1>3. RunSound(c) /\ f \in c.left /\ f \in c.report /\ f \in Failures
  BY <1>1, <1>2, RunOf, HandlesIs
<1>4. c.system \in 1..Len(order) /\ Len(order) \in 1..2 /\ c.system \in {1, 2}
  <2>1. c.system \in 1..Len(order) /\ Len(order) \in 1..2
    BY <1>2, <1>3, OrdersAre DEF FailInv, RunSound, Ids
  <2>2. \A m \in 1..2 : \A s \in 1..m : s \in {1, 2}
    OBVIOUS
  <2> QED BY <2>1, <2>2
<1>5. k = order[c.system] /\ k \in T!ToSet(order) /\ order[1] \in T!ToSet(order)
  <2>1. 1 \in 1..Len(order)
    BY <1>4
  <2> QED BY <1>1, <1>4, <2>1, OrdersAre DEF FailInv, T!Tracker
<1>6. PICK q, p : q = issues[k] /\ p = Append(q, f)
  OBVIOUS
<1>7. IsSeq(q) /\ IsSeq(p) /\ Len(p) = Len(q) + 1 /\ p[Len(p)] = f /\ \A i \in 1..Len(q) : p[i] = q[i]
  <2>1. IsSeq(q)
    BY <1>5, <1>6 DEF FailInv, IssuesAre
  <2> QED BY <1>6, <2>1, AppendIs
<1>8. T!ToSet(q) \subseteq T!ToSet(p) /\ f \in T!ToSet(p)
  <2>1. DOMAIN q = 1..Len(q) /\ DOMAIN p = 1..Len(p) /\ Len(q) \in Nat
    BY <1>7 DEF IsSeq
  <2>2. Len(p) \in DOMAIN p /\ DOMAIN q \subseteq DOMAIN p
    BY <1>7, <2>1
  <2> QED BY <1>7, <2>1, <2>2 DEF T!ToSet
<1>9. /\ issues' = [j \in T!ToSet(order) |-> issues'[j]] /\ issues'[k] = p
      /\ \A j \in T!ToSet(order) : j # k => issues'[j] = issues[j]
  <2>1. issues' = [issues EXCEPT ![k] = p]
    BY <1>2, <1>6
  <2> QED BY <1>5, <2>1 DEF FailInv, IssuesAre
<1>10. IssuesAre'
  BY <1>2, <1>7, <1>9 DEF FailInv, IssuesAre
<1>11. Later
  <2>1. ASSUME NEW g, Told(g) PROVE Told(g)'
    <3>1. CASE k = order[1]
      BY <1>2, <1>6, <1>8, <1>9, <2>1, <3>1 DEF Told
    <3>2. CASE k # order[1]
      BY <1>2, <1>5, <1>9, <2>1, <3>2 DEF Told
    <3> QED BY <3>1, <3>2
  <2> QED BY <1>2, <2>1 DEF Later
<1>12. c.system = 1 => Told(f)'
  BY <1>2, <1>5, <1>8, <1>9 DEF Told
<1>13. Fits(c, f, n)
  <2>1. n = Slug => c.external[f] = Slug
    <3>1. CASE c.external[f] = Fresh
      <4>1. Len(q) + 1 \in Nat
        BY <1>7 DEF IsSeq
      <4> QED BY <1>2, <1>6, <3>1, <4>1, FailuresAssumption
    <3> QED BY <1>2, <3>1
  <2>2. c.system = 2 => n = Slug \/ Told(f)'
    <3>1. c.system = 2 => c.external[f] = Slug \/ Told(f)
      BY <1>3 DEF RunSound, Tells
    <3> QED BY <1>2, <1>11, <3>1, FailuresAssumption DEF Later
  <2> QED BY <1>4, <1>12, <2>1, <2>2 DEF Fits
<1>14. T!FirstTrackerOwn' /\ c.system # 0
  BY <1>2, <1>4 DEF FailInv, T!FirstTrackerOwn
<1> QED BY <1>1, <1>2, <1>10, <1>11, <1>13, <1>14, HandledRuns

(* An entry is made.                                                       *)
LEMMA EntryInserted == ASSUME FailInv, NEW r \in Runs, T!InsertEntry(r) PROVE FailInv'
<1>1. PICK c, f, x : c = run[r] /\ f = T!First(r) /\ x = c.todo
  OBVIOUS
<1>2. PICK n, e, y : n = x.entries[f] + 1 /\ e = [x.entries EXCEPT ![f] = n] /\ y = [x EXCEPT !.entries = e]
  OBVIOUS
<1>3. /\ tasks' = tasks /\ order' = order /\ issues' = issues /\ stored' = stored
      /\ overwritten' = overwritten /\ wasDone' = wasDone /\ foreign' = foreign
      /\ c.at = "insert" /\ T!Handles(r, "insert", Slug) /\ todo' = y
      /\ crossed' = (crossed \/ x # todo \/ todo.entries[f] > 0)
  BY <1>1, <1>2 DEF T!InsertEntry, T!HasEntry
<1>4. RunSound(c) /\ f \in c.left /\ f \in c.report /\ f \in Failures
  BY <1>1, <1>3, RunOf, HandlesIs
<1>5. c.system = 0 /\ TodoIs(x) /\ TodoIs(todo)
  BY <1>1, <1>3, <1>4 DEF FailInv, RunSound, Ids, Snaps
<1>6. Later /\ IssuesAre'
  BY <1>3 DEF FailInv, Later, Told, IssuesAre
<1>7. /\ y = [entries |-> y.entries, box |-> y.box] /\ y.entries = e /\ y.box = x.box
      /\ e \in [Failures -> Nat] /\ e[f] = n /\ \A g \in Failures \ {f} : e[g] = x.entries[g]
  <2>1. y = [entries |-> y.entries, box |-> y.box] /\ y.entries = e /\ y.box = x.box
    BY <1>2, <1>5 DEF TodoIs
  <2>2. n \in Nat /\ x.entries \in [Failures -> Nat]
    BY <1>2, <1>4, <1>5 DEF TodoIs
  <2> QED BY <1>2, <1>4, <2>1, <2>2
<1>8. TodoIs(y)
  BY <1>5, <1>7 DEF TodoIs
<1>9. TodoIs(todo)'
  <2>1. TodoIs(y)'
    BY <1>6, <1>8, TodoStays
  <2> QED BY <1>3, <2>1
<1>10. crossed => crossed'
  BY <1>3
<1>11. \/ crossed'
       \/ /\ todo.entries[f] = 0 /\ todo'.entries[f] = 1 /\ ~crossed
          /\ \A g \in Failures \ {f} : todo'.entries[g] = todo.entries[g]
  <2>1. todo.entries[f] \in Nat
    BY <1>4, <1>5 DEF TodoIs
  <2>2. CASE crossed \/ x # todo \/ todo.entries[f] > 0
    BY <1>3, <2>2
  <2>3. CASE ~crossed /\ x = todo /\ todo.entries[f] = 0
    BY <1>2, <1>3, <1>7, <2>3
  <2> QED BY <2>1, <2>2, <2>3
<1>12. T!OneEntry'
  <2>1. T!OneEntry
    BY DEF FailInv
  <2> QED BY <1>10, <1>11, <2>1 DEF T!OneEntry
<1>13. /\ c.system # Len(order)
  BY <1>5, OrdersAre DEF FailInv
<1>14. PICK d : finished' = finished /\ run' = [run EXCEPT ![r] = d] /\ Handled(c, f, Slug, d)
  BY <1>1, <1>3, <1>13, HandlesIs
<1>15. RunSound(d)'
  <2>1. Fits(c, f, Slug)
    BY <1>5 DEF Fits
  <2> QED BY <1>3, <1>4, <1>6, <1>14, <2>1, HandledSound
<1>16. RunsSound' /\ run'[r] = d /\ \A q \in Runs : q # r => run'[q] = run[q]
  BY <1>6, <1>14, <1>15, RunsGo DEF FailInv
<1>17. Telling'
  <2>1. CASE crossed'
    BY <2>1 DEF Telling
  <2>2. CASE ~crossed'
    <3>1. ASSUME NEW g \in Failures, Counted(g) PROVE Counted(g)'
      <4>1. \A q \in Runs : ByEntry(run[q], g)' <=> ByEntry(run'[q], g)
        BY DEF ByEntry
      <4>2. CASE g = f
        <5>1. todo.entries[f] = 0 /\ todo'.entries[f] = 1
          BY <1>11, <2>2
        <5>2. finished[f] = 0 /\ \A q \in Runs : ~ByEntry(run[q], f)
          BY <3>1, <4>2, <5>1 DEF Counted
        <5>3. \A q \in Runs : ByEntry(run'[q], f) => q = r
          BY <1>16, <5>2
        <5> QED BY <1>14, <4>1, <4>2, <5>1, <5>2, <5>3 DEF Counted
      <4>3. CASE g # f
        <5>1. todo'.entries[g] = todo.entries[g]
          BY <1>11, <2>2, <4>3
        <5>2. ByEntry(d, g) => ByEntry(run[r], g)
          BY <1>1, <1>14, <4>3 DEF Handled, ByEntry
        <5>3. \A q \in Runs : ByEntry(run'[q], g) => ByEntry(run[q], g)
          BY <1>16, <5>2
        <5>4. ASSUME NEW q \in Runs, ByEntry(run'[q], g)
              PROVE  /\ finished[g] = 0 /\ todo.entries[g] # 0
                     /\ \A s \in Runs : ByEntry(run'[s], g) => s = q
          BY <3>1, <5>3, <5>4 DEF Counted
        <5> QED BY <1>14, <3>1, <4>1, <5>1, <5>4 DEF Counted
      <4> QED BY <4>2, <4>3
    <3>2. Telling /\ ~crossed /\ \A g : Told(g) => Told(g)'
      BY <1>6, <1>10, <2>2 DEF FailInv, Later
    <3> QED BY <3>1, <3>2 DEF Telling
  <2> QED BY <2>1, <2>2
<1>18. /\ TasksAre(tasks)' /\ finished' \in [Failures -> Nat] /\ stored' \subseteq Failures
       /\ T!TasksKept' /\ T!FirstTrackerOwn'
  BY <1>3, <1>14 DEF FailInv, TasksAre, T!TasksKept, T!FirstTrackerOwn
<1> QED BY <1>6, <1>9, <1>12, <1>16, <1>17, <1>18 DEF FailInv

-----------------------------------------------------------------------------
LEMMA FailInit == ASSUME T!FailureTicketsInit PROVE FailInv
<1>1. /\ tasks = [f \in Failures |-> "none"]
      /\ todo \in [entries : [Failures -> {0}], box : [Failures -> {"none", "open"}]]
      /\ order \in TrackerOrders /\ issues = [k \in T!ToSet(order) |-> <<Someone>>]
      /\ run = [r \in Runs |-> T!Idle]
      /\ stored = {} /\ finished = [f \in Failures |-> 0] /\ crossed = FALSE /\ foreign = {} /\ wasDone = {}
  BY DEF T!FailureTicketsInit
<1>2. IsSeq(<<Someone>>)
  BY DEF IsSeq
<1>3. IssuesAre
  BY <1>1, <1>2 DEF IssuesAre
<1>4. TasksAre(tasks) /\ finished \in [Failures -> Nat] /\ stored \subseteq Failures
  BY <1>1 DEF TasksAre
<1>5. TodoIs(todo) /\ \A f \in Failures : todo.entries[f] = 0
  BY <1>1 DEF TodoIs
<1>6. RunsSound /\ \A r \in Runs : run[r] = T!Idle
  BY <1>1, RunIdle DEF RunsSound
<1>7. \A f \in Failures, r \in Runs : ~ByEntry(run[r], f)
  BY <1>6, RunIdle
<1>8. Telling
  <2>1. \A f \in Failures : finished[f] = 0
    BY <1>1
  <2> QED BY <1>5, <1>7, <2>1 DEF Telling, Counted
<1>9. T!TasksKept /\ T!OneEntry /\ T!FirstTrackerOwn
  BY <1>1, <1>5 DEF T!TasksKept, T!OneEntry, T!FirstTrackerOwn
<1> QED BY <1>3, <1>4, <1>5, <1>6, <1>8, <1>9 DEF FailInv

LEMMA FailRests == ASSUME FailInv, UNCHANGED ticketsVars PROVE FailInv'
<1>1. FilesSame /\ run' = run
  BY DEF ticketsVars, FilesSame
<1>2. Later
  BY <1>1, FilesStay
<1>3. RunsSound'
  <2>1. \A r \in Runs : RunSound(run[r])'
    <3>1. ASSUME NEW r \in Runs PROVE RunSound(run[r])'
      <4>1. PICK c : c = run[r]
        OBVIOUS
      <4>2. RunSound(c)'
        BY <1>2, <4>1, RunOf, RunStays
      <4> QED BY <1>1, <4>1, <4>2
    <3> QED BY <3>1
  <2> QED BY <1>1, <2>1 DEF FailInv, RunsSound
<1>4. Telling'
  BY <1>1 DEF FailInv, FilesSame, Telling, Told, Counted, ByEntry
<1> QED BY <1>1, <1>3, <1>4, FilesStay DEF FailInv

LEMMA FailStep == ASSUME FailInv, T!FailureTicketsNext PROVE FailInv'
<1>1. ASSUME NEW r \in Runs,
             \/ \E report \in SUBSET Failures : T!Validate(r, report)
             \/ T!LoadStrategy(r) \/ T!StoreStrategy(r)
             \/ T!CheckEntry(r) \/ T!ReadTodo(r) \/ T!InsertEntry(r)
             \/ T!UpdateFails(r) \/ T!UpdateIssue(r) \/ T!CreateIssue(r) \/ T!Dies(r)
             \/ T!LoadMarkers(r) \/ T!ReadBoxes(r) \/ T!TickBoxes(r)
      PROVE  FailInv'
  <2>1. ASSUME NEW report \in SUBSET Failures, T!Validate(r, report) PROVE FailInv'
    BY <2>1, ValidateRuns
  <2>2. CASE T!LoadStrategy(r) \/ T!StoreStrategy(r)
    BY <2>2, LoadStrategyRuns, TasksWritten
  <2>3. CASE T!CheckEntry(r) \/ T!ReadTodo(r) \/ T!InsertEntry(r)
    BY <2>3, EntryChecked, ReadTodoRuns, EntryInserted
  <2>4. CASE T!UpdateFails(r) \/ T!UpdateIssue(r)
    BY <2>4, UpdateTried
  <2>5. CASE T!CreateIssue(r) \/ T!Dies(r)
    BY <2>5, IssueCreated, RunDies
  <2>6. CASE T!LoadMarkers(r) \/ T!ReadBoxes(r) \/ T!TickBoxes(r)
    BY <2>6, LoadMarkersRuns, ReadBoxesRuns, BoxesTicked
  <2> QED BY <1>1, <2>1, <2>2, <2>3, <2>4, <2>5, <2>6
<1>2. ASSUME NEW f \in Failures, NEW x \in {"todo", "done"}, T!MarkTask(f, x) PROVE FailInv'
  BY <1>2, TaskMarked
<1> QED BY <1>1, <1>2 DEF T!FailureTicketsNext

LEMMA FailHolds ==
  ASSUME FailInv
  PROVE  T!TasksKept /\ T!OneEntry /\ T!SecondRunTells /\ T!FirstTrackerOwn /\ T!BoxesTrue
<1>1. ASSUME NEW f \in Failures, finished[f] >= 2, ~crossed PROVE Told(f)
  <2>1. finished[f] \in Nat /\ ~(finished[f] <= 1)
    BY <1>1 DEF FailInv
  <2> QED BY <1>1, <2>1 DEF FailInv, Telling, Counted
<1>2. T!SecondRunTells
  BY <1>1 DEF T!SecondRunTells, Told
<1>3. T!BoxesTrue
  BY DEF FailInv, TodoIs, T!BoxesTrue
<1> QED BY <1>2, <1>3 DEF FailInv

(* Whatever runs of `planfile validate testql` overlap or die, a failure   *)
(* keeps its task and its one entry of TODO.md, unless writers of the file *)
(* cross; the second run tells the first tracker, which gets no update for *)
(* somebody else's issue; boxes are ticked for what was done only          *)
(* (testql_integration.py, todo_sync.py).  The CI loop says "completed" of *)
(* tested source and finished tickets, and its results name every bug      *)
(* ticket but the unanswered (planfile/ci.py, runner.py).                  *)
THEOREM FailuresHandledCorrect == ToolsSpec => []FailuresHandled
<1>1. ToolsInit => FailInv /\ LoopInv
  BY FailInit, LoopInit DEF ToolsInit
<1>2. FailInv /\ LoopInv /\ [ToolsNext]_toolsVars => (FailInv /\ LoopInv)'
  <2>1. SUFFICES ASSUME FailInv, LoopInv, [ToolsNext]_toolsVars PROVE FailInv' /\ LoopInv'
    OBVIOUS
  <2>2. T!FailureTicketsNext \/ UNCHANGED ticketsVars
    BY <2>1 DEF ToolsNext, toolsVars
  <2>3. C!LoopNext \/ UNCHANGED loopVars
    BY <2>1 DEF ToolsNext, toolsVars
  <2> QED BY <2>1, <2>2, <2>3, FailStep, FailRests, LoopStep
<1>3. FailInv /\ LoopInv => FailuresHandled
  BY FailHolds, LoopHolds DEF FailuresHandled
<1> QED BY <1>1, <1>2, <1>3, PTL DEF ToolsSpec
=============================================================================
