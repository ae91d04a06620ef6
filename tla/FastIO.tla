------------------------------- MODULE FastIO -------------------------------
(***************************************************************************)
(* The fast read layer under one sprint file (planfile/core/fastio.py, the *)
(* in-process cache of store_files.py and _write_yaml_atomic of store.py). *)
(* The YAML file is the source of truth; a JSON mirror beside it carries   *)
(* the mtime of the YAML it was made from, and a long-running process      *)
(* keeps what it last read under the mtime it saw.  Mutations hold the     *)
(* mutation lock and read the file through the same mirror; readers and    *)
(* the audit take no lock.                                                 *)
(*                                                                         *)
(* mtime is the number of the file's latest replacement (two replacements  *)
(* never share an mtime) and content[m] is what replacement m wrote: the   *)
(* set of mutations the file then reflects, a mutation being named by the  *)
(* replacement that carried it.                                            *)
(***************************************************************************)
EXTENDS Naturals

CONSTANTS
  Procs,      \* processes sharing the file
  NoProc,     \* the mutation lock is free
  Absent,     \* no mirror, no cache entry
  MaxMtime,   \* bound: replacements of the file
  Ops         \* "audit", "edit" (by hand, without the lock) and "crash" a run allows

ASSUME ProcsAssumption == NoProc \notin Procs
ASSUME BoundAssumption == MaxMtime \in Nat

Mtimes == 0..MaxMtime
Data == SUBSET Mtimes
Pairs == [stamp : Mtimes, data : Data]
ASSUME AbsentAssumption == Absent \notin Pairs

VARIABLES
  mtime, content,   \* the YAML file
  mirror,           \* the file .fast.json
  cache,            \* _yaml_cache entry of each process
  lock,             \* holder of .store.lock
  pc,
  reg,              \* what a process remembers during one operation
  acked             \* history: mutations that completed

fileVars == <<mtime, content>>
vars == <<fileVars, mirror, cache, lock, pc, reg, acked>>

(* at: mtime from its latest stat; keyed: mtime under which it will cache  *)
(* what it reads; data: what it has read; seen, since (history): acked and *)
(* mtime when its read or audit began.                                     *)
Regs == [at : Mtimes, keyed : Mtimes, data : Data, seen : Data, since : Mtimes]
NoReg == [at |-> 0, keyed |-> 0, data |-> {}, seen |-> {}, since |-> 0]

Phases == {"idle", "stat", "mirror", "parse", "recheck", "heal", "served",
           "replace", "restat", "save", "unlock", "compare", "astat", "aheal"}

Init ==
  /\ mtime = 0
  /\ content = [m \in Mtimes |-> {}]
  /\ mirror = Absent
  /\ cache = [p \in Procs |-> Absent]
  /\ lock = NoProc
  /\ pc = [p \in Procs |-> "idle"]
  /\ reg = [p \in Procs |-> NoReg]
  /\ acked = {}

Goto(p, from, to) == pc[p] = from /\ pc' = [pc EXCEPT ![p] = to]
Stat(p) == reg' = [reg EXCEPT ![p].at = mtime]
Got(p, d) == reg' = [reg EXCEPT ![p].data = d]
Done(p, from) == Goto(p, from, "idle") /\ reg' = [reg EXCEPT ![p] = NoReg]

(* A mirror write is atomic, and best effort: it may fail without notice.  *)
TryMirror(p) == mirror' \in {mirror, [stamp |-> reg[p].at, data |-> reg[p].data]}

-----------------------------------------------------------------------------
(* A mutant: an entry is served whatever its mtime.                        *)
BeginReadMutant(p) ==
  LET begun == [NoReg EXCEPT !.keyed = mtime, !.seen = acked, !.since = mtime]
      hit == cache[p] # Absent
  IN /\ Goto(p, "idle", IF hit THEN "served" ELSE "stat")
     /\ reg' = [reg EXCEPT ![p] = IF hit THEN [begun EXCEPT !.data = cache[p].data]
                                  ELSE begun]
     /\ UNCHANGED <<fileVars, mirror, cache, lock, acked>>

(* _read_yaml_cached: an entry of the present mtime is served as it is.    *)
BeginRead(p) ==
  LET begun == [NoReg EXCEPT !.keyed = mtime, !.seen = acked, !.since = mtime]
      hit == cache[p] # Absent /\ cache[p].stamp = mtime
  IN /\ Goto(p, "idle", IF hit THEN "served" ELSE "stat")
     /\ reg' = [reg EXCEPT ![p] = IF hit THEN [begun EXCEPT !.data = cache[p].data]
                                  ELSE begun]
     /\ UNCHANGED <<fileVars, mirror, cache, lock, acked>>

BeginWrite(p) ==
  /\ mtime < MaxMtime
  /\ lock = NoProc
  /\ lock' = p
  /\ Goto(p, "idle", "stat")
  /\ UNCHANGED <<fileVars, mirror, cache, reg, acked>>

(* read_yaml_fast, called by both.  A read returns to the mutation that    *)
(* made it, or into the cache of the reader.                               *)
FastStat(p) ==
  /\ Goto(p, "stat", "mirror")
  /\ Stat(p)
  /\ UNCHANGED <<fileVars, mirror, cache, lock, acked>>

Return(p, from, d) ==
  /\ Goto(p, from, IF lock = p THEN "replace" ELSE "served")
  /\ cache' = IF lock = p THEN cache
              ELSE [cache EXCEPT ![p] = [stamp |-> reg[p].keyed, data |-> d]]

(* A mutant: the mirror is used whatever mtime it carries.                 *)
ReadMirrorMutant(p) ==
  /\ IF mirror # Absent
     THEN Return(p, "mirror", mirror.data) /\ Got(p, mirror.data)
     ELSE Goto(p, "mirror", "parse") /\ UNCHANGED <<cache, reg>>
  /\ UNCHANGED <<fileVars, mirror, lock, acked>>

ReadMirror(p) ==
  /\ IF mirror # Absent /\ mirror.stamp = reg[p].at
     THEN Return(p, "mirror", mirror.data) /\ Got(p, mirror.data)
     ELSE Goto(p, "mirror", "parse") /\ UNCHANGED <<cache, reg>>
  /\ UNCHANGED <<fileVars, mirror, lock, acked>>

Parse(p) ==
  /\ Goto(p, "parse", "recheck")
  /\ Got(p, content[mtime])
  /\ UNCHANGED <<fileVars, mirror, cache, lock, acked>>

(* A mutant: the mirror gets the mtime of the second stat.                 *)
RecheckRestampMutant(p) ==
  /\ Goto(p, "recheck", "heal")
  /\ Stat(p)
  /\ UNCHANGED <<fileVars, mirror, cache, lock, acked>>

(* What was read is mirrored only if the file did not change meanwhile.    *)
Recheck(p) ==
  /\ IF mtime = reg[p].at
     THEN Goto(p, "recheck", "heal") /\ UNCHANGED cache
     ELSE Return(p, "recheck", reg[p].data)
  /\ UNCHANGED <<fileVars, mirror, lock, reg, acked>>

Heal(p) ==
  /\ Return(p, "heal", reg[p].data)
  /\ TryMirror(p)
  /\ UNCHANGED <<fileVars, lock, reg, acked>>

Served(p) ==
  /\ Done(p, "served")
  /\ UNCHANGED <<fileVars, mirror, cache, lock, acked>>

-----------------------------------------------------------------------------
(* _write_yaml_atomic: replace the file, stat it, write the mirror.        *)
Replace(p) ==
  LET new == reg[p].data \cup {mtime + 1} IN
    /\ Goto(p, "replace", "restat")
    /\ mtime < MaxMtime
    /\ mtime' = mtime + 1
    /\ content' = [content EXCEPT ![mtime + 1] = new]
    /\ Got(p, new)
    /\ UNCHANGED <<mirror, cache, lock, acked>>

Restat(p) ==
  /\ Goto(p, "restat", "save")
  /\ Stat(p)
  /\ UNCHANGED <<fileVars, mirror, cache, lock, acked>>

SaveMirror(p) ==
  /\ Goto(p, "save", "unlock")
  /\ TryMirror(p)
  /\ UNCHANGED <<fileVars, cache, lock, reg, acked>>

Unlock(p) ==
  /\ Done(p, "unlock")
  /\ lock' = NoProc
  /\ acked' = acked \cup reg[p].data
  /\ UNCHANGED <<fileVars, mirror, cache>>

-----------------------------------------------------------------------------
(* audit_mirror: parse, compare with the mirror whatever its stamp, and on *)
(* a difference stat again and mirror what was parsed.                     *)
AuditParse(p) ==
  /\ "audit" \in Ops
  /\ Goto(p, "idle", "compare")
  /\ reg' = [reg EXCEPT ![p] = [NoReg EXCEPT !.data = content[mtime], !.since = mtime]]
  /\ UNCHANGED <<fileVars, mirror, cache, lock, acked>>

(* A mutant: only the stamp of the mirror is looked at.                    *)
AuditStampMutant(p) ==
  /\ IF mirror = Absent \/ mirror.stamp = mtime
     THEN Done(p, "compare")
     ELSE Goto(p, "compare", "astat") /\ UNCHANGED reg
  /\ UNCHANGED <<fileVars, mirror, cache, lock, acked>>

AuditCompare(p) ==
  /\ IF mirror = Absent \/ mirror.data = reg[p].data
     THEN Done(p, "compare")
     ELSE Goto(p, "compare", "astat") /\ UNCHANGED reg
  /\ UNCHANGED <<fileVars, mirror, cache, lock, acked>>

AuditStat(p) ==
  /\ Goto(p, "astat", "aheal")
  /\ Stat(p)
  /\ UNCHANGED <<fileVars, mirror, cache, lock, acked>>

AuditHeal(p) ==
  /\ Done(p, "aheal")
  /\ TryMirror(p)
  /\ UNCHANGED <<fileVars, cache, lock, acked>>

-----------------------------------------------------------------------------
(* Someone edits the YAML by hand, without the mutation lock.              *)
Edit ==
  /\ "edit" \in Ops
  /\ mtime < MaxMtime
  /\ mtime' = mtime + 1
  /\ content' = [content EXCEPT ![mtime + 1] = content[mtime] \cup {mtime + 1}]
  /\ UNCHANGED <<mirror, cache, lock, pc, reg, acked>>

(* A process dies and is started again: its cache is gone, its flock free. *)
Crash(p) ==
  /\ "crash" \in Ops
  /\ pc[p] # "idle"
  /\ Done(p, pc[p])
  /\ cache' = [cache EXCEPT ![p] = Absent]
  /\ lock' = IF lock = p THEN NoProc ELSE lock
  /\ UNCHANGED <<fileVars, mirror, acked>>

Access(p) ==
  \/ BeginRead(p) \/ BeginWrite(p) \/ FastStat(p) \/ ReadMirror(p) \/ Parse(p)
  \/ Recheck(p) \/ Heal(p) \/ Served(p)
  \/ Replace(p) \/ Restat(p) \/ SaveMirror(p) \/ Unlock(p)

Audit(p) == AuditParse(p) \/ AuditCompare(p) \/ AuditStat(p) \/ AuditHeal(p)

Next ==
  \/ Edit
  \/ \E p \in Procs : Access(p) \/ Audit(p) \/ Crash(p)

Spec == Init /\ [][Next]_vars

-----------------------------------------------------------------------------
TypeOK ==
  /\ mtime \in Mtimes
  /\ content \in [Mtimes -> Data]
  /\ mirror \in Pairs \cup {Absent}
  /\ cache \in [Procs -> Pairs \cup {Absent}]
  /\ lock \in Procs \cup {NoProc}
  /\ pc \in [Procs -> Phases]
  /\ reg \in [Procs -> Regs]
  /\ acked \in Data

(* Any later reader would trust it: a mirror that carries the mtime of the *)
(* YAML file holds what the YAML file holds.                               *)
MirrorTruthful ==
  mirror # Absent /\ mirror.stamp = mtime => mirror.data = content[mtime]

(* A mutation rewrites the whole file from what it read through the        *)
(* mirror; none that completed is undone by a later one.                   *)
NothingLost == acked \subseteq content[mtime]

(* Reads of a long-running process are fresh: they show every mutation     *)
(* that completed before they began.                                       *)
FreshRead == \A p \in Procs : pc[p] = "served" => reg[p].seen \subseteq reg[p].data

(* Why these hold when nobody edits by hand and no audit runs.             *)

(* d is a version of the file, not older than mtime lo.                    *)
Version(lo, d) == \E k \in Mtimes : lo <= k /\ k <= mtime /\ d = content[k]

(* d is the version of the file that has mtime m.                          *)
Exactly(m, d) == m <= mtime /\ d = content[m]

Reading == {"mirror", "parse", "recheck", "heal"}
Writing == {"replace", "restat", "save", "unlock"}

(* Only the lock holder writes, and nobody replaces the file under it.     *)
LockOwned ==
  \A p \in Procs :
    /\ pc[p] \in Writing => lock = p
    /\ lock = p => pc[p] \in {"stat"} \cup Reading \cup Writing
    /\ lock = p /\ pc[p] \in Reading => reg[p].at = mtime

(* What is stored beside the file is a version of it, under the right name.*)
StoredSound ==
  /\ mirror # Absent => Exactly(mirror.stamp, mirror.data)
  /\ \A p \in Procs : cache[p] # Absent => Version(cache[p].stamp, cache[p].data)

(* What a process has in hand.                                             *)
InHand(p) ==
  LET r == reg[p] IN
    /\ r.keyed <= mtime /\ r.seen \subseteq content[r.keyed]
    /\ pc[p] \in Reading => r.keyed <= r.at /\ r.at <= mtime
    /\ pc[p] = "recheck" => Version(r.at, r.data)
    /\ pc[p] = "heal" => Exactly(r.at, r.data)
    /\ pc[p] \in Writing => Exactly(mtime, r.data)
    /\ pc[p] = "save" => r.at = mtime
    /\ pc[p] = "served" => Version(r.keyed, r.data)

(* Every version of the file contains the versions before it.              *)
Grows == \A m, n \in Mtimes : m <= n /\ n <= mtime => content[m] \subseteq content[n]

IInv ==
  /\ TypeOK
  /\ \A p \in Procs : pc[p] \notin {"compare", "astat", "aheal"}
  /\ LockOwned
  /\ StoredSound
  /\ \A p \in Procs : InHand(p)
  /\ Grows
  /\ NothingLost

(* An audit during which the file does not change leaves no mirror that    *)
(* lies (unless it found one and could not write the new one).             *)
AuditRepairs ==
  [][\A p \in Procs :
       /\ pc[p] = "compare" \/ (pc[p] = "aheal" /\ mirror' # mirror)
       /\ pc'[p] = "idle"
       /\ reg[p].since = mtime
       => MirrorTruthful']_vars
=============================================================================
