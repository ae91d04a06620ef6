-------------------------- MODULE StorageMigration --------------------------
(***************************************************************************)
(* migrate_to_sharded_yaml (store.py 1567-1670): one call copies every     *)
(* sprint file into shards, verifies them, switches the backend in the     *)
(* configuration and moves the old files to a backup, all under            *)
(* .store.lock.  save_sprint, delete_ticket, delete_tickets_bulk and       *)
(* move_ticket ask which backend is in use before they wait for that lock; *)
(* create_ticket and update_ticket ask under it.                           *)
(***************************************************************************)
EXTENDS Integers, FiniteSets

CONSTANTS MTickets, MSprints, MAbsent,
          MaxMutations, MaxMigrations, MaxDeaths  \* bounds of a run

Nothing == [t \in MTickets |-> MAbsent]

VARIABLES
  backend, \* storage.backend in config.yaml
  legacy,  \* the sprint files, Nothing when moved away
  dirs,    \* the shard directories
  holder,  \* who holds the lock: nobody, the migration or a mutation
  mig,     \* the migration: pc, the sprints copied, the sprints moved
  waiter,  \* a mutation that chose its backend and waits for the lock
  expect,  \* history: what was acknowledged for each ticket
  strayed, \* history: a mutation ran on a backend no longer in use
  written, migrations, deaths

migrationVars == <<backend, legacy, dirs, holder, mig, waiter, expect, strayed,
                   written, migrations, deaths>>

NoMigration == [pc |-> "idle", copied |-> {}, created |-> {}, moved |-> {}]
NoWaiter == [pc |-> "idle", kind |-> "put", backend |-> "none"]

MInit ==
  /\ backend = "single-yaml"
  /\ \E s \in MSprints : legacy = [r \in MSprints |->
       IF r = s THEN [t \in MTickets |-> 0] ELSE Nothing]
  /\ dirs = [s \in MSprints |-> MAbsent]
  /\ holder = "nobody" /\ mig = NoMigration /\ waiter = NoWaiter
  /\ expect = [t \in MTickets |-> 0] /\ strayed = FALSE
  /\ written = 0 /\ migrations = 0 /\ deaths = 0

Files(b) == IF b = "single-yaml" THEN legacy
            ELSE [s \in MSprints |-> IF dirs[s] = MAbsent THEN Nothing ELSE dirs[s]]
Where(b, t) == {s \in MSprints : Files(b)[s][t] # MAbsent}

Set(b, s, t, v) ==
  IF b = "single-yaml"
  THEN legacy' = [legacy EXCEPT ![s][t] = v] /\ UNCHANGED dirs
  ELSE /\ dirs' = [dirs EXCEPT ![s] = [Files(b)[s] EXCEPT ![t] = v]]
       /\ UNCHANGED legacy

-----------------------------------------------------------------------------
Starts ==
  /\ mig.pc = "idle" /\ holder = "nobody" /\ migrations < MaxMigrations
  /\ backend = "single-yaml"
  /\ holder' = "migration"
  /\ mig' = [NoMigration EXCEPT !.pc = "copy"]
  /\ migrations' = migrations + 1
  /\ UNCHANGED <<legacy, dirs, waiter, expect, strayed, written, deaths>>

(* A mutant: the configuration is switched before the files are copied.    *)
SwitchFirstMutant == Starts /\ backend' = "sharded-yaml"

(* Directories that are not empty refuse the migration: also those a       *)
(* migration left that died before it switched.                            *)
StartMigration ==
  /\ \A s \in MSprints : dirs[s] = MAbsent
  /\ Starts
  /\ UNCHANGED backend

CopySprint ==
  /\ mig.pc = "copy"
  /\ \E s \in MSprints \ mig.copied :
       /\ dirs' = [dirs EXCEPT ![s] = legacy[s]]
       /\ mig' = [mig EXCEPT !.copied = @ \cup {s}, !.created = @ \cup {s},
                    !.pc = IF mig.copied \cup {s} = MSprints THEN "switch" ELSE "copy"]
  /\ UNCHANGED <<backend, legacy, holder, waiter, expect, strayed, written, migrations, deaths>>

(* A write or the comparison with the original fails: what was created is  *)
(* removed again.                                                          *)
CopyFails ==
  /\ mig.pc = "copy"
  /\ dirs' = [s \in MSprints |-> IF s \in mig.created THEN MAbsent ELSE dirs[s]]
  /\ mig' = NoMigration
  /\ holder' = "nobody"
  /\ UNCHANGED <<backend, legacy, waiter, expect, strayed, written, migrations, deaths>>

Switch ==
  /\ mig.pc = "switch"
  /\ backend' = "sharded-yaml"
  /\ mig' = [mig EXCEPT !.pc = "move"]
  /\ UNCHANGED <<legacy, dirs, holder, waiter, expect, strayed, written, migrations, deaths>>

BackUp ==
  /\ mig.pc = "move"
  /\ \/ \E s \in MSprints \ mig.moved :
          /\ legacy' = [legacy EXCEPT ![s] = Nothing]
          /\ mig' = [mig EXCEPT !.moved = @ \cup {s}]
          /\ UNCHANGED holder
     \/ /\ mig.moved = MSprints
        /\ mig' = NoMigration
        /\ holder' = "nobody"
        /\ UNCHANGED legacy
  /\ UNCHANGED <<backend, dirs, waiter, expect, strayed, written, migrations, deaths>>

-----------------------------------------------------------------------------
(* A mutation arrives; "put" has not chosen a backend yet.                 *)
Arrive ==
  /\ waiter.pc = "idle"
  /\ \E k \in {"put", "save", "delete"} :
       waiter' = [pc |-> "waiting", kind |-> k,
                  backend |-> IF k = "put" THEN "none" ELSE backend]
  /\ UNCHANGED <<backend, legacy, dirs, holder, mig, expect, strayed, written, migrations, deaths>>

TakeLock ==
  /\ waiter.pc = "waiting" /\ holder = "nobody"
  /\ holder' = "mutation"
  /\ waiter' = [waiter EXCEPT !.pc = "locked",
                  !.backend = IF @ = "none" THEN backend ELSE @]
  /\ strayed' = (strayed \/ (waiter.kind # "put" /\ waiter.backend # backend))
  /\ UNCHANGED <<backend, legacy, dirs, mig, expect, written, migrations, deaths>>

(* A put or a save writes a version and is acknowledged; a delete that     *)
(* finds nothing answers False.                                            *)
Mutated ==
  /\ waiter.pc = "locked"
  /\ \/ /\ waiter.kind \in {"put", "save"} /\ written < MaxMutations
        /\ \E t \in MTickets, s \in MSprints :
             /\ Where(waiter.backend, t) \subseteq {s}
             /\ Set(waiter.backend, s, t, written + 1)
             /\ expect' = [expect EXCEPT ![t] = written + 1]
        /\ written' = written + 1
     \/ /\ waiter.kind = "delete"
        /\ \E t \in MTickets :
             IF Where(waiter.backend, t) = {} THEN UNCHANGED <<legacy, dirs, expect>>
             ELSE /\ Set(waiter.backend, CHOOSE s \in Where(waiter.backend, t) : TRUE, t, MAbsent)
                  /\ expect' = [expect EXCEPT ![t] = MAbsent]
        /\ UNCHANGED written
  /\ waiter' = NoWaiter
  /\ holder' = "nobody"
  /\ UNCHANGED <<backend, mig, strayed, migrations, deaths>>

(* The process of the migration dies; what it wrote stays.                 *)
MigrationDies ==
  /\ mig.pc # "idle" /\ deaths < MaxDeaths
  /\ mig' = NoMigration
  /\ holder' = "nobody"
  /\ deaths' = deaths + 1
  /\ UNCHANGED <<backend, legacy, dirs, waiter, expect, strayed, written, migrations>>

MNext == \/ StartMigration \/ CopySprint \/ CopyFails \/ Switch \/ BackUp
         \/ Arrive \/ TakeLock \/ Mutated \/ MigrationDies

MSpec == MInit /\ [][MNext]_migrationVars

-----------------------------------------------------------------------------
(* Whatever the migration has done so far and wherever it dies, the        *)
(* backend in use shows for every ticket what was acknowledged last,       *)
(* unless a mutation wrote to the backend it had chosen before it waited.  *)
Migrated ==
  ~strayed => \A t \in MTickets :
    IF expect[t] = MAbsent THEN Where(backend, t) = {}
    ELSE \E s \in MSprints : Where(backend, t) = {s} /\ Files(backend)[s][t] = expect[t]
=============================================================================
