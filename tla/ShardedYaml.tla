---------------------------- MODULE ShardedYaml ----------------------------
(***************************************************************************)
(* The sharded backend of the store (planfile/core/sharded_yaml.py and the *)
(* branches of store.py that use it).                                      *)
(*                                                                         *)
(* A sprint is a directory: metadata, one file for each range of ticket    *)
(* ids, and a manifest that repeats how many tickets each file holds and   *)
(* which stat it had.  A mutation holds .store.lock and replaces the files *)
(* one by one, shards before their manifest.  list_tickets and summary     *)
(* take no lock, and summary rewrites a manifest it finds stale.           *)
(***************************************************************************)
EXTENDS Integers, FiniteSets, Sequences

CONSTANTS
  Tickets,
  Buckets,
  BucketOf,   \* shard_name: the shard a ticket id belongs to
  Order,      \* the sprints in the order of sprint_ids; rotations go to the last
  Ops,        \* kinds of mutations a run allows
  Absent,
  Observers,  \* of "none", "list", "summary": each behaviour has one
  Failing,    \* the writes that may fail: of "shards", "manifest"
  MaxBulk,    \* bound: tickets of one mutation
  MaxJobs,    \* bound: mutations of a run
  MaxFaults   \* bound: deaths and failed writes of a run

Sprints == {Order[i] : i \in 1..Len(Order)}
Current == Order[1]
History == Order[Len(Order)]
Versions == 1..MaxJobs
Stats == 0..(2 * MaxJobs + 1)
Contents == [Tickets -> Versions \cup {Absent}]
Empty == [t \in Tickets |-> Absent]

AllOps == {"put", "delete", "move", "save", "rotate"}

(* A shard file is missing when its stat is 0; a manifest that is missing  *)
(* or unreadable is not valid, and lists a shard with its stat.            *)
Files == [stat : Stats, held : Contents]
Missing == [stat |-> 0, held |-> Empty]
Entries == [count : 0..Cardinality(Tickets), stat : Stats]
Unlisted == [count |-> 0, stat |-> 0]
Manifests == [valid : BOOLEAN, entry : [Buckets -> Entries]]

VARIABLES
  shards,   \* shards[s][b]: a shard file of a sprint
  made,     \* the sprints whose metadata exists
  manifest, \* manifest[s]
  job,      \* the mutation that holds the lock and the writes it has left
  begun,    \* how many mutations began: versions and stats are made of it
  sure,     \* history: tickets created for good and not deleted
  kept,     \* history: the last version acknowledged for each
  list,     \* one lock-free load of a sprint by list_tickets
  cache,    \* what list_tickets cached for the current sprint
  sum,      \* one lock-free summary that rebuilds a manifest
  raced,    \* history: a shard changed under such a rebuild
  faults,
  observer

fileVars == <<shards, made, manifest>>
jobVars == <<job, begun, sure, kept>>
listVars == <<list, cache>>
sumVars == <<sum, raced>>
vars == <<fileVars, jobVars, listVars, sumVars, faults, observer>>

(* A bound: with a reader beside them mutations are of one ticket.         *)
Bulks == {T \in SUBSET Tickets : /\ T # {} /\ Cardinality(T) <= MaxBulk
                                 /\ observer # "none" => Cardinality(T) = 1}

Stages == [what : {"metadata", "empty", "shards", "manifest"}, sprint : Sprints,
           files : UNION {[B -> Contents] : B \in SUBSET Buckets},
           touched : SUBSET Buckets]

-----------------------------------------------------------------------------
(* Reading                                                                 *)

IsIn(t, s) == shards[s][BucketOf[t]].held[t] # Absent
Holders(t) == {s \in Sprints : IsIn(t, s)}
Content(s) == [t \in Tickets |-> shards[s][BucketOf[t]].held[t]]

(* locate_ticket: the first sprint that has it.                            *)
Located(t) == LET i == CHOOSE i \in 1..Len(Order) :
                         /\ IsIn(t, Order[i])
                         /\ \A j \in 1..(i - 1) : ~IsIn(t, Order[j])
              IN Order[i]

Part(content, b) == [t \in Tickets |-> IF BucketOf[t] = b THEN content[t] ELSE Absent]
Count(held) == Cardinality({t \in Tickets : held[t] # Absent})
Entry(file) == IF file.stat = 0 THEN Unlisted
               ELSE [count |-> Count(file.held), stat |-> file.stat]

Matches(s) == \A b \in Buckets : manifest[s].entry[b].stat = shards[s][b].stat
Signature(s) == [b \in Buckets |-> shards[s][b].stat]

-----------------------------------------------------------------------------
(* The writes of a mutation, computed under the lock.  The shards of one   *)
(* call are written in any order (the order of a dict).                    *)

Stage(what, s, files, touched) ==
  [what |-> what, sprint |-> s, files |-> files, touched |-> touched]

Shards(s, files) ==
  IF DOMAIN files = {} THEN <<>> ELSE <<Stage("shards", s, files, {})>>

EnsureSprint(s) ==
  IF s \in made THEN <<>>
  ELSE <<Stage("metadata", s, <<>>, {}), Stage("empty", s, <<>>, {})>>

Upserts(s, T, v) ==
  LET content == [t \in Tickets |-> IF t \in T THEN v ELSE Content(s)[t]]
      touched == {BucketOf[t] : t \in T}
  IN EnsureSprint(s)
     \o Shards(s, [b \in touched |-> Part(content, b)])
     \o <<Stage("manifest", s, <<>>, touched)>>

DeleteFrom(s, t) ==
  LET b == BucketOf[t]
  IN Shards(s, [c \in {b} |-> Part([Content(s) EXCEPT ![t] = Absent], b)])
     \o <<Stage("manifest", s, <<>>, {b})>>

WriteSprint(s, content) ==
  LET changed == {b \in Buckets : Part(content, b) # shards[s][b].held}
  IN <<Stage("metadata", s, <<>>, {})>>
     \o Shards(s, [b \in changed |-> Part(content, b)])
     \o <<Stage("manifest", s, <<>>, Buckets)>>

NoJob == [op |-> "none", todo |-> <<>>, tickets |-> {}, to |-> Current, undo |-> FALSE]
Jobs == [op : AllOps \cup {"none"}, todo : Seq(Stages), tickets : SUBSET Tickets,
         to : Sprints, undo : BOOLEAN]
Idle == job.op = "none"

NoList == [pc |-> "idle", left |-> {}, seen |-> Empty,
           sig |-> [b \in Buckets |-> 0], window |-> [t \in Tickets |-> {}]]
NoSum == [pc |-> "idle", sprint |-> Current, left |-> {}, bucket |-> CHOOSE b \in Buckets : TRUE,
          count |-> 0, entry |-> [b \in Buckets |-> Unlisted]]

(* A store with all tickets in its first sprint or none, as a migration    *)
(* leaves it; the manifest of a full one may have been deleted.            *)
Init ==
  \E T \in {{}, Tickets}, valid \in BOOLEAN :
    /\ T = {} => valid
    /\ LET held == [t \in Tickets |-> IF t \in T THEN 1 ELSE Absent]
           files == [b \in Buckets |-> IF Part(held, b) = Empty THEN Missing
                                       ELSE [stat |-> 2, held |-> Part(held, b)]]
       IN /\ shards = [s \in Sprints |-> IF s = Current THEN files
                                         ELSE [b \in Buckets |-> Missing]]
          /\ made = {Current}
          /\ manifest = [s \in Sprints |-> [valid |-> valid /\ s = Current,
               entry |-> [b \in Buckets |-> IF valid /\ s = Current THEN Entry(files[b])
                                            ELSE Unlisted]]]
          /\ sure = T /\ kept = held
          /\ job = NoJob /\ begun = 1
          /\ list = NoList /\ cache = Absent
          /\ sum = NoSum /\ raced = FALSE
          /\ faults = 0
          /\ observer \in Observers

-----------------------------------------------------------------------------
Begin(op, T, to, todo) ==
  /\ Idle /\ op \in Ops /\ begun < MaxJobs
  /\ begun' = begun + 1
  /\ job' = [op |-> op, todo |-> todo, tickets |-> T, to |-> to, undo |-> FALSE]
  /\ sure' = IF op = "delete" THEN sure \ T ELSE sure
  /\ UNCHANGED <<fileVars, kept, listVars, sumVars, faults>>

(* create_tickets_bulk puts new tickets into a sprint, update_ticket puts  *)
(* a ticket back where it is located.                                      *)
Put == \E T \in Bulks, s \in Sprints :
  /\ \/ \A t \in T : Holders(t) = {}
     \/ \E t \in T : T = {t} /\ Holders(t) # {} /\ s = Located(t)
  /\ Begin("put", T, s, Upserts(s, T, begun + 1))

Delete == \E t \in Tickets :
  /\ Holders(t) # {}
  /\ Begin("delete", {t}, Located(t), DeleteFrom(Located(t), t))

(* A mutant: a move leaves the ticket in its source.                       *)
MoveCopiesMutant == \E t \in Tickets, s \in Sprints :
  /\ Holders(t) # {} /\ ~IsIn(t, s)
  /\ Begin("move", {t}, s, Upserts(s, {t}, begun + 1))

Move == \E t \in Tickets, s \in Sprints :
  /\ Holders(t) # {} /\ ~IsIn(t, s)
  /\ Begin("move", {t}, s, Upserts(s, {t}, begun + 1) \o DeleteFrom(Located(t), t))

(* save_sprint after its merge: newer versions of tickets of the sprint.   *)
Save == \E s \in Sprints, T \in Bulks :
  /\ \A t \in T : IsIn(t, s)
  /\ Begin("save", T, s,
       WriteSprint(s, [t \in Tickets |-> IF t \in T THEN begun + 1 ELSE Content(s)[t]]))

(* A mutant: the current sprint is written before the history.             *)
RotateCurrentFirstMutant == \E T \in Bulks :
  /\ \A t \in T : IsIn(t, Current)
  /\ Begin("rotate", T, History,
       WriteSprint(Current, [t \in Tickets |->
         IF t \in T THEN Absent ELSE Content(Current)[t]])
       \o WriteSprint(History, [t \in Tickets |->
            IF t \in T THEN Content(Current)[t] ELSE Content(History)[t]]))

(* _archive_completed_sharded_unlocked; which tickets are due is           *)
(* TicketStore's matter.                                                   *)
Rotate == \E T \in Bulks :
  /\ \A t \in T : IsIn(t, Current)
  /\ Begin("rotate", T, History,
       WriteSprint(History, [t \in Tickets |->
         IF t \in T THEN Content(Current)[t] ELSE Content(History)[t]])
       \o WriteSprint(Current, [t \in Tickets |->
            IF t \in T THEN Absent ELSE Content(Current)[t]]))

(* A mutant: a stat that no replacement changes.                           *)
StatBlindMutant == 2

Stat == 2 * begun + IF job.undo THEN 1 ELSE 0
Stored(held) == IF held = Empty THEN Missing ELSE [stat |-> Stat, held |-> held]

(* Every load that is under way sees the shards of before and of after.    *)
Noticed(s, held) ==
  list' = IF list.pc = "idle" \/ s # Current THEN list
          ELSE [list EXCEPT !.window = [t \in Tickets |->
                  IF held[t] # Content(s)[t] THEN @[t] \cup {held[t]} ELSE @[t]]]

WriteShard(s, b) ==
  LET held == Head(job.todo).files[b]
  IN /\ shards' = [shards EXCEPT ![s][b] = Stored(held)]
     /\ Noticed(s, [t \in Tickets |-> IF BucketOf[t] = b THEN held[t] ELSE Content(s)[t]])
     /\ raced' = (raced \/ (sum.pc # "idle" /\ sum.sprint = s))
     /\ UNCHANGED <<made, manifest>>

(* An invalid manifest is rebuilt from the files, a valid one is updated   *)
(* for the shards this call wrote.                                         *)
WriteManifest(s, touched) ==
  /\ manifest' = [manifest EXCEPT ![s] =
       [valid |-> TRUE,
        entry |-> [b \in Buckets |->
          IF b \in touched \/ ~@.valid THEN Entry(shards[s][b]) ELSE @.entry[b]]]]
  /\ UNCHANGED <<shards, made, list, raced>>

WriteFirstManifest(s) ==
  /\ manifest' = [manifest EXCEPT ![s] = [valid |-> TRUE, entry |-> [b \in Buckets |-> Unlisted]]]
  /\ UNCHANGED <<shards, made, list, raced>>

WriteMetadata(s) ==
  /\ made' = made \cup {s}
  /\ UNCHANGED <<shards, manifest, list, raced>>

Work ==
  /\ ~Idle /\ job.todo # <<>>
  /\ LET stage == Head(job.todo)
         left == Tail(job.todo)
     IN \/ \E b \in DOMAIN stage.files :
             /\ WriteShard(stage.sprint, b)
             /\ job' = [job EXCEPT !.todo =
                  Shards(stage.sprint, [c \in DOMAIN stage.files \ {b} |-> stage.files[c]])
                  \o left]
        \/ /\ stage.what = "manifest" /\ WriteManifest(stage.sprint, stage.touched)
           /\ job' = [job EXCEPT !.todo = left]
        \/ /\ stage.what = "empty" /\ WriteFirstManifest(stage.sprint)
           /\ job' = [job EXCEPT !.todo = left]
        \/ /\ stage.what = "metadata" /\ WriteMetadata(stage.sprint)
           /\ job' = [job EXCEPT !.todo = left]
  /\ UNCHANGED <<begun, sure, kept, cache, sum, faults>>

Acknowledge ==
  /\ ~Idle /\ job.todo = <<>>
  /\ job' = NoJob
  /\ IF job.undo \/ job.op \in {"delete", "rotate"} THEN UNCHANGED <<sure, kept>>
     ELSE /\ sure' = sure \cup job.tickets
          /\ kept' = [t \in Tickets |-> IF t \in job.tickets THEN begun ELSE kept[t]]
  /\ UNCHANGED <<fileVars, begun, listVars, sumVars, faults>>

(* A write raises.  A move that fails while it removes the source deletes  *)
(* the ticket from the destination; any other mutation leaves as it is.    *)
Removing == job.op = "move" /\ ~job.undo /\ Len(job.todo) <= 2
            /\ Head(job.todo).sprint # job.to
WriteFails ==
  /\ ~Idle /\ job.todo # <<>> /\ faults < MaxFaults
  /\ Head(job.todo).what \in Failing
  /\ faults' = faults + 1
  /\ job' = IF Removing
            THEN [job EXCEPT !.undo = TRUE,
                    !.todo = DeleteFrom(job.to, CHOOSE t \in job.tickets : TRUE)]
            ELSE NoJob
  /\ UNCHANGED <<fileVars, begun, sure, kept, listVars, sumVars>>

Crash ==
  /\ ~Idle /\ faults < MaxFaults
  /\ job' = NoJob
  /\ faults' = faults + 1
  /\ UNCHANGED <<fileVars, begun, sure, kept, listVars, sumVars>>

-----------------------------------------------------------------------------
(* list_tickets("current"): the signature is taken, the models cached      *)
(* under it are reused, or every shard is read and the models are cached   *)
(* under the signature of before.  (The manifest, which the signature also *)
(* covers, changes after the shards do and adds nothing.)                  *)

StartList ==
  /\ observer = "list" /\ list.pc = "idle"
  /\ ~(cache # Absent /\ cache.sig = Signature(Current))
  /\ list' = [pc |-> "load", left |-> {b \in Buckets : shards[Current][b].stat # 0},
              seen |-> Empty, sig |-> Signature(Current),
              window |-> [t \in Tickets |-> {Content(Current)[t]}]]
  /\ UNCHANGED <<fileVars, jobVars, cache, sumVars, faults>>

(* A mutant: a shard that changed since the signature is passed over.      *)
LoadUnchangedMutant ==
  /\ list.pc = "load"
  /\ \E b \in list.left :
       list' = [list EXCEPT !.left = @ \ {b}, !.seen = [t \in Tickets |->
                  IF BucketOf[t] = b /\ shards[Current][b].stat = list.sig[b]
                  THEN shards[Current][b].held[t] ELSE @[t]]]
  /\ UNCHANGED <<fileVars, jobVars, cache, sumVars, faults>>

LoadShard ==
  /\ list.pc = "load"
  /\ \E b \in list.left :
       list' = [list EXCEPT !.left = @ \ {b}, !.seen = [t \in Tickets |->
                  IF BucketOf[t] = b THEN shards[Current][b].held[t] ELSE @[t]]]
  /\ UNCHANGED <<fileVars, jobVars, cache, sumVars, faults>>

(* A mutant: the models are cached under the signature of after.           *)
EndListLateMutant ==
  /\ list.pc = "load" /\ list.left = {}
  /\ list' = NoList
  /\ cache' = [sig |-> Signature(Current), models |-> list.seen]
  /\ UNCHANGED <<fileVars, jobVars, sumVars, faults>>

EndList ==
  /\ list.pc = "load" /\ list.left = {}
  /\ list' = NoList
  /\ cache' = [sig |-> list.sig, models |-> list.seen]
  /\ UNCHANGED <<fileVars, jobVars, sumVars, faults>>

(* summary: a manifest that does not match its files is rebuilt without    *)
(* the lock: for each shard its tickets are counted, then its stat taken.  *)
StartSummary ==
  /\ observer = "summary" /\ sum.pc = "idle"
  /\ \E s \in Sprints :
       /\ s \in made /\ ~(manifest[s].valid /\ Matches(s))
       /\ sum' = [NoSum EXCEPT !.pc = "count", !.sprint = s,
                    !.left = {b \in Buckets : shards[s][b].stat # 0}]
  /\ UNCHANGED <<fileVars, jobVars, listVars, raced, faults>>

CountShard ==
  /\ sum.pc = "count"
  /\ \E b \in sum.left :
       sum' = [sum EXCEPT !.pc = "stat", !.bucket = b, !.left = @ \ {b},
                 !.count = Count(shards[sum.sprint][b].held)]
  /\ UNCHANGED <<fileVars, jobVars, listVars, raced, faults>>

StatShard ==
  /\ sum.pc = "stat"
  /\ sum' = [sum EXCEPT !.pc = "count", !.count = 0,
               !.entry[sum.bucket] = [count |-> sum.count,
                                      stat |-> shards[sum.sprint][sum.bucket].stat]]
  /\ UNCHANGED <<fileVars, jobVars, listVars, raced, faults>>

EndSummary ==
  /\ sum.pc = "count" /\ sum.left = {}
  /\ manifest' = [manifest EXCEPT ![sum.sprint] = [valid |-> TRUE, entry |-> sum.entry]]
  /\ sum' = NoSum
  /\ UNCHANGED <<shards, made, jobVars, listVars, raced, faults>>

Next == /\ \/ Put \/ Delete \/ Move \/ Save \/ Rotate \/ Work \/ Acknowledge
           \/ WriteFails \/ Crash
           \/ StartList \/ LoadShard \/ EndList
           \/ StartSummary \/ CountShard \/ StatShard \/ EndSummary
        /\ UNCHANGED observer

Spec == Init /\ [][Next]_vars

-----------------------------------------------------------------------------
TypeOK ==
  /\ shards \in [Sprints -> [Buckets -> Files]]
  /\ made \in SUBSET Sprints
  /\ manifest \in [Sprints -> Manifests]
  /\ job.op \in AllOps \cup {"none"} /\ job.to \in Sprints /\ job.undo \in BOOLEAN
  /\ job.tickets \in SUBSET Tickets
  /\ begun \in 0..MaxJobs
  /\ sure \in SUBSET Tickets /\ kept \in Contents
  /\ raced \in BOOLEAN /\ faults \in 0..MaxFaults /\ observer \in Observers

(* Whatever dies between whatever two files of a mutation that spans       *)
(* shards, manifests and sprints, a ticket that was created and not        *)
(* deleted is in a shard.                                                  *)
NeverLost == \A t \in sure : Holders(t) # {}

(* Without faults every acknowledged version is what a lookup finds, and   *)
(* no ticket outlives a mutation in two sprints.                           *)
NewestFound ==
  faults = 0 =>
    /\ \A t \in sure : Holders(t) # {} => Content(Located(t))[t] >= kept[t]
    /\ Idle => \A t \in Tickets : Cardinality(Holders(t)) <= 1

(* A manifest whose stats are those of the files tells how many tickets    *)
(* they hold, whatever died between a shard and its manifest, unless a     *)
(* shard was replaced while a summary rebuilt the manifest without a lock. *)
ManifestTruthful ==
  ~raced => \A s \in Sprints :
    manifest[s].valid /\ Matches(s)
      => \A b \in Buckets : manifest[s].entry[b].count = Count(shards[s][b].held)

(* Models that list_tickets may still serve from its cache are what the    *)
(* shards hold.                                                            *)
CacheFresh ==
  cache # Absent /\ cache.sig = Signature(Current) => cache.models = Content(Current)

(* A load that overlaps mutations shows for each ticket a value it had in  *)
(* the sprint since the load began.                                        *)
LoadHonest ==
  list.pc = "load" /\ list.left = {} => \A t \in Tickets : list.seen[t] \in list.window[t]
=============================================================================
