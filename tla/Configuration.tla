--------------------------- MODULE Configuration ---------------------------
(***************************************************************************)
(* The typed configuration (core/configuration.py; the /api/config routes, *)
(* PUT /api/runtime-context/config, the DSL).  A client lists it with a    *)
(* revision, the hash of what it holds, and sets a batch of paths: the     *)
(* batch is validated without a lock, then under the mutation lock the     *)
(* revision is compared and one file replaced.  The revision the client    *)
(* gets back is hashed when the lock is free again.  Users edit the files  *)
(* by hand as well.                                                        *)
(***************************************************************************)
EXTENDS Integers, FiniteSets

CONSTANTS Editors,             \* clients of the configuration
          MaxSets, MaxByEditor \* bounds: batches, edits of a file by hand

(* One path of each sort: a plain one, the backend (0 single-yaml, 1       *)
(* sharded-yaml), what shards are cut by, and one of another file.         *)
Paths == {"prefix", "backend", "shard_size", "overrides"}
Scope(p) == IF p = "overrides" THEN "runtime" ELSE "store"
Plain == {"prefix", "overrides"}
Values == 0..1
Defaults == [p \in Paths |-> 0]

VARIABLES
  config,  \* the value of each path; the revision is a hash of them
  layout,  \* the shard size the shards are cut by
  editor,  \* each client: pc, the revision it holds and the values it saw,
           \* and of its request the batch, whether it names the revision it
           \* holds, and the revision the request found
  sets, byEditor,
  adopted, \* history: clients whose revision covers values they never saw
  blind    \* history: a batch overwrote a value its client had not seen

configVars == <<config, layout, editor, sets, byEditor, adopted, blind>>

Revision == config
NoBatch == [p \in {} |-> 0]
Rest(held, saw) == [pc |-> "idle", held |-> held, saw |-> saw,
                    batch |-> NoBatch, expects |-> FALSE, base |-> held]

CInit ==
  /\ config = Defaults /\ layout = 0
  /\ editor = [c \in Editors |-> Rest(Defaults, Defaults)]
  /\ sets = 0 /\ byEditor = 0 /\ adopted = {} /\ blind = FALSE

-----------------------------------------------------------------------------
(* list and show: the revision is hashed first, the values are read next.  *)
ListRevision(c) ==
  /\ editor[c].pc = "idle" /\ editor[c].held # Revision
  /\ editor' = [editor EXCEPT ![c] = [Rest(Revision, @.saw) EXCEPT !.pc = "list"]]
  /\ UNCHANGED <<config, layout, sets, byEditor, adopted, blind>>

(* A mutant: the values are read first.                                    *)
ListValuesFirstMutant(c) ==
  /\ editor[c].pc = "list"
  /\ editor' = [editor EXCEPT ![c] = Rest(Revision, editor[c].held)]
  /\ adopted' = adopted \ {c}
  /\ UNCHANGED <<config, layout, sets, byEditor, blind>>

ListValues(c) ==
  /\ editor[c].pc = "list"
  /\ editor' = [editor EXCEPT ![c] = Rest(@.held, config)]
  /\ adopted' = IF config = editor[c].held THEN adopted \ {c} ELSE adopted \cup {c}
  /\ UNCHANGED <<config, layout, sets, byEditor, blind>>

-----------------------------------------------------------------------------
(* set_many: one scope, something new, and _validate_operation: there is no*)
(* way back from shards, their size is fixed, and the backend changes alone*)
(* or with the size.                                                       *)
Storable(batch) ==
  LET bs == DOMAIN batch
  IN /\ \A p, q \in bs : Scope(p) = Scope(q) \* config_mixed_scope_not_atomic
     /\ "backend" \in bs => bs \subseteq {"backend", "shard_size"}
     /\ config["backend"] = 1 /\ "backend" \in bs => batch["backend"] = 1
     /\ config["backend"] = 1 /\ "shard_size" \in bs =>
          "backend" \in bs /\ batch["shard_size"] = config["shard_size"]

SetMany(c) == \E ps \in SUBSET Paths, expects \in BOOLEAN : \E batch \in [ps -> Values] :
  /\ editor[c].pc = "idle" /\ sets < MaxSets /\ sets' = sets + 1
  /\ expects => editor[c].held = Revision \* else config_revision_conflict
  /\ Storable(batch) /\ \E p \in ps : config[p] # batch[p]
  /\ editor' = [editor EXCEPT ![c] = [@ EXCEPT !.pc = "apply", !.batch = batch,
                                               !.expects = expects, !.base = Revision]]
  /\ UNCHANGED <<config, layout, byEditor, adopted, blind>>

(* _set_store_values, _set_runtime_values, the migration to shards: the    *)
(* revision the request found must still be the current one.               *)
Applies(c, current) ==
  LET batch == editor[c].batch
      now == [p \in Paths |-> IF p \in DOMAIN batch THEN batch[p] ELSE config[p]]
  IN /\ editor[c].pc = "apply"
     /\ IF current
        THEN /\ config' = now
             /\ layout' = IF config["backend"] # now["backend"] THEN now["shard_size"]
                          ELSE layout
             /\ blind' = (blind \/ /\ editor[c].expects /\ c \notin adopted
                                   /\ \E p \in DOMAIN batch : config[p] # editor[c].saw[p])
             /\ editor' = [editor EXCEPT ![c].pc = "after"]
        ELSE /\ editor' = [editor EXCEPT ![c] = Rest(@.held, @.saw)]
             /\ UNCHANGED <<config, layout, blind>>
     /\ UNCHANGED <<sets, byEditor, adopted>>

(* A mutant: what was validated without the lock is applied.               *)
ApplyUncheckedMutant(c) == Applies(c, TRUE)

Apply(c) == Applies(c, editor[c].base = Revision)

(* The answer: after_revision, and the values the client has set.          *)
After(c) ==
  /\ editor[c].pc = "after"
  /\ LET e == editor[c]
         saw == [p \in Paths |-> IF p \in DOMAIN e.batch THEN e.batch[p] ELSE e.saw[p]]
     IN /\ editor' = [editor EXCEPT ![c] = Rest(Revision, saw)]
        /\ adopted' = IF saw = Revision THEN adopted \ {c} ELSE adopted \cup {c}
  /\ UNCHANGED <<config, layout, sets, byEditor, blind>>

(* Storage paths are left to the program: an edit of theirs by hand says   *)
(* nothing about it.                                                       *)
HandEdit == \E p \in Plain, v \in Values :
  /\ byEditor < MaxByEditor /\ byEditor' = byEditor + 1
  /\ config[p] # v /\ config' = [config EXCEPT ![p] = v]
  /\ UNCHANGED <<layout, editor, sets, adopted, blind>>

CNext == HandEdit \/ \E c \in Editors : \/ ListRevision(c) \/ ListValues(c) \/ SetMany(c)
                                        \/ Apply(c) \/ After(c)

CSpec == CInit /\ [][CNext]_configVars

-----------------------------------------------------------------------------
(* A batch sent with the revision of a listing overwrites no value its     *)
(* client has not seen.  A client whose revision does not stand for what it*)
(* saw is left out: after_revision is hashed without the lock, and so it   *)
(* may cover a change of somebody else.                                    *)
NoBlindOverwrite == ~blind

(* Shards are cut by the shard size the configuration names: the check that*)
(* keeps it fixed runs without the lock, beside a migration to shards.     *)
ShardsAsConfigured == config["backend"] = 1 => config["shard_size"] = layout
=============================================================================
