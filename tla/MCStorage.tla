------------------------------ MODULE MCStorage ------------------------------
(***************************************************************************)
(* One instance of each module about files beside the sprint files, one of *)
(* FastIO with audits and one of TicketStore with retention.  Every        *)
(* behaviour is one of one module: part says of which, and the variables   *)
(* of the others keep one initial value.                                   *)
(***************************************************************************)
EXTENDS Integers, FiniteSets, Sequences, TLC

CONSTANTS
  t1, t2, t3, Buckets, Ops, Absent, Observers, Failing, MaxBulk, MaxJobs, MaxFaults,
  Events, Legacy, LastDay, Batch, JMaxCrashes,
  MTickets, MSprints, MAbsent, MaxMutations, MaxMigrations, MaxDeaths,
  Keys, Payloads, Callers, MaxLines, MaxFailures,
  Procs, NoProc,
  MaxStored, MaxStamp, RetainDays, RetainTerminal, MaxCurrent

VARIABLES
  part,
  shards, made, manifest, job, begun, sure, kept, list, cache, sum, raced, faults, observer,
  day, date, ops, live, liveDay, hist, receipt, app, jcrashes,
  backend, legacy, dirs, holder, mig, waiter, expect, strayed, written, migrations, deaths,
  outputs, journal, torn, call, elock, writer, recorded, failures,
  mtime, content, mirror, entries, flock, fpc, reg, completed,
  files, exists, locator, nextId, clock, lock, pc, work, snap, created, deleted, acked

(* MAbsent is no revision of a ticket and no directory.                    *)
ASSUME MigrationAssumption ==
  /\ MaxMutations \in Nat
  /\ MAbsent \notin (0..MaxMutations) \cup [MTickets -> (0..MaxMutations) \cup {MAbsent}]

(* Tickets fall into two shards, and Absent is no version.                 *)
ASSUME ShardAssumption == {"a", "b"} \subseteq Buckets /\ Absent \notin Nat

(* Events are numbered in the order of the journal.                        *)
ASSUME JournalAssumption ==
  /\ Events \subseteq Nat /\ Legacy \subseteq Events
  /\ LastDay \in Nat \ {0} /\ Batch \in Nat \ {0}

(* "" in the lock of the evidence journal stands for nobody.               *)
ASSUME EvidenceAssumption == "" \notin Callers

Tickets == {t1, t2, t3}
BucketOf == [t \in Tickets |-> IF t = t3 THEN "b" ELSE "a"]
Order == <<"current", "history">>
Symmetry == Permutations({t1, t2}) \cup Permutations(Procs)

S == INSTANCE ShardedYaml
J == INSTANCE Journal
M == INSTANCE StorageMigration
E == INSTANCE Evidence

(* The mirror with audits and hand edits, beside the runs of FastIO.       *)
A == INSTANCE FastIO WITH
       MaxMtime <- 2, Ops <- {"audit", "edit"},
       cache <- entries, lock <- flock, pc <- fpc, acked <- completed

(* The single-YAML store with retention by age and by capacity.            *)
R == INSTANCE TicketStore WITH
       MaxTickets <- MaxStored, MaxClock <- MaxStamp, MoveTargets <- {"current", "backlog"},
       Current <- "current", Backlog <- "backlog", Histories <- {"history-1", "history-2"},
       Rank <- [s \in {"current", "backlog", "history-1", "history-2"} |->
                  CASE s = "current" -> 0 [] s = "backlog" -> 1
                    [] s = "history-1" -> 2 [] s = "history-2" -> 3],
       DayOf <- [i \in 0..MaxStamp |-> IF i <= 2 THEN 1 ELSE 2],
       HistoryOf <- <<"history-1", "history-2">>,
       Ops <- {"create", "update", "archive"}, job <- work

(* Retention by capacity is on; Absent is no record and NoProc no process. *)
ASSUME RetentionAssumption ==
  /\ MaxStored \in Nat /\ MaxStamp \in Nat /\ RetainDays \in Nat
  /\ RetainTerminal \in Nat /\ MaxCurrent \in Nat \ {0}
  /\ Absent \notin R!Records /\ NoProc \notin Procs

shardVars == <<shards, made, manifest, job, begun, sure, kept, list, cache, sum, raced,
               faults, observer>>
journalVars == <<day, date, ops, live, liveDay, hist, receipt, app, jcrashes>>
migrationVars == <<backend, legacy, dirs, holder, mig, waiter, expect, strayed,
                   written, migrations, deaths>>
evidenceVars == <<outputs, journal, torn, call, elock, writer, recorded, failures>>
mirrorVars == <<mtime, content, mirror, entries, flock, fpc, reg, completed>>
storeVars == <<files, exists, locator, nextId, clock, lock, pc, work, snap, created,
               deleted, acked>>

StorageInit ==
  /\ part \in {"shards", "journal", "migration", "evidence", "mirror", "retention"}
  /\ S!Init /\ (part # "shards" => made = {"current"} /\ sure = {} /\ observer = "list"
                                   /\ manifest["current"].valid)
  /\ J!JInit
  /\ M!MInit
  /\ (part # "migration" => legacy[CHOOSE s \in MSprints : TRUE] # M!Nothing)
  /\ E!EInit /\ A!Init /\ R!Init

StorageNext ==
  /\ UNCHANGED part
  /\ \/ /\ part = "shards" /\ S!Next
        /\ UNCHANGED <<journalVars, migrationVars, evidenceVars, mirrorVars, storeVars>>
     \/ /\ part = "journal" /\ J!JNext
        /\ UNCHANGED <<shardVars, migrationVars, evidenceVars, mirrorVars, storeVars>>
     \/ /\ part = "migration" /\ M!MNext
        /\ UNCHANGED <<shardVars, journalVars, evidenceVars, mirrorVars, storeVars>>
     \/ /\ part = "evidence" /\ E!ENext
        /\ UNCHANGED <<shardVars, journalVars, migrationVars, mirrorVars, storeVars>>
     \/ /\ part = "mirror" /\ A!Next
        /\ UNCHANGED <<shardVars, journalVars, migrationVars, evidenceVars, storeVars>>
     \/ /\ part = "retention" /\ R!Next
        /\ UNCHANGED <<shardVars, journalVars, migrationVars, evidenceVars, mirrorVars>>

allVars == <<part, shardVars, journalVars, migrationVars, evidenceVars, mirrorVars, storeVars>>

StorageSpec == StorageInit /\ [][StorageNext]_allVars

-----------------------------------------------------------------------------
(* The properties, each about the code its module models.                  *)

(* Sharded storage: no crash or failed write loses a ticket.               *)
NeverLost == S!NeverLost
(* Sharded storage: lookups find what was acknowledged, a manifest that    *)
(* matches its files tells the truth, a lock-free load shows values the    *)
(* sprint really had, and list_tickets never caches old models as new.     *)
ShardReadsTrue == S!NewestFound /\ S!ManifestTruthful /\ S!LoadHonest /\ S!CacheFresh

(* Migration: the backend in use shows what was acknowledged.              *)
Migrated == M!Migrated

(* Journal and evidence: every journalled event reaches the forensic log,  *)
(* once while nobody dies, under its own day; evidence that was answered   *)
(* as recorded stays visible, one item for each idempotency key, and a key *)
(* never stands for two payloads.                                          *)
JournalsExact ==
  /\ J!AllProjected /\ J!ProjectedOnce /\ J!RightDay
  /\ E!EvidenceKept /\ E!RecordedOnce /\ E!OnePayload

(* Mirror: an audit that nothing overtakes leaves no lying mirror.         *)
AuditRepairs == A!AuditRepairs

(* Retention: current holds no more than the configured number.            *)
CapacityRespected == R!CapacityRespected
(* Retention: the oldest terminal tickets leave current first.             *)
OldestLeaveFirst == R!OldestLeaveFirst
=============================================================================
