-------------------------- MODULE ProtocolsProofs --------------------------
(***************************************************************************)
(* The invariants of the parts of MCProtocols, proved for any number of    *)
(* clients, servers, requests, issues and runs: the revisions of the       *)
(* configuration, the guards of the ticket routes, the ticket lists, what  *)
(* planfile sync does to tickets and issues, the fields it carries, and    *)
(* how a delivery plan is followed.                                        *)
(***************************************************************************)
EXTENDS MCProtocols, FiniteSetTheorems, WellFoundedInduction, TLAPS
-----------------------------------------------------------------------------
(* Configuration.                                                          *)

Holdings == [C!Paths -> C!Values]

EditorShape(e) ==
  /\ DOMAIN e = {"pc", "held", "saw", "batch", "expects", "base"}
  /\ e.held \in Holdings /\ e.saw \in Holdings /\ e.base \in Holdings
  /\ e.pc \in {"apply", "after"} => e.batch \in UNION {[ps -> C!Values] : ps \in SUBSET C!Paths}

(* What a client holds is what it saw, unless its revision stands for more;*)
(* and a batch on its way may be stored in what its request found.         *)
EditorSound(e, adopts) ==
  /\ e.pc # "list" /\ ~adopts => e.saw = e.held
  /\ e.pc = "apply" /\ e.expects => e.base = e.held
  /\ e.pc = "apply" /\ e.base["backend"] = 1 =>
       /\ "backend" \in DOMAIN e.batch => e.batch["backend"] = 1
       /\ "shard_size" \in DOMAIN e.batch => e.batch["shard_size"] = e.base["shard_size"]

ConfigInv ==
  /\ config \in Holdings /\ DOMAIN editor = Editors
  /\ \A c \in Editors : EditorShape(editor[c]) /\ EditorSound(editor[c], c \in adopted)
  /\ ~blind /\ C!ShardsAsConfigured

LEMMA RestSound ==
  ASSUME NEW held \in Holdings, NEW saw \in Holdings
  PROVE  LET e == C!Rest(held, saw) IN
         /\ EditorShape(e) /\ e.pc = "idle" /\ e.held = held /\ e.saw = saw
         /\ \A adopts : (adopts \/ held = saw) => EditorSound(e, adopts)
BY DEF C!Rest, EditorShape, EditorSound

(* One client goes on; configuration and shards stay as they are.          *)
LEMMA EditorStep ==
  ASSUME ConfigInv, NEW c \in Editors, NEW e, EditorShape(e),
         editor' = [editor EXCEPT ![c] = e], EditorSound(e, c \in adopted'),
         \A d \in Editors : d # c => (d \in adopted' <=> d \in adopted),
         UNCHANGED <<config, layout, blind>>
  PROVE  ConfigInv'
<1>1. DOMAIN editor' = Editors /\ editor'[c] = e
      /\ \A d \in Editors : d # c => editor'[d] = editor[d]
  BY DEF ConfigInv
<1>2. \A d \in Editors : EditorShape(editor'[d]) /\ EditorSound(editor'[d], d \in adopted')
  BY <1>1 DEF ConfigInv, EditorSound
<1> QED BY <1>1, <1>2 DEF ConfigInv, C!ShardsAsConfigured

LEMMA ConfigInit == C!CInit => ConfigInv
<1> SUFFICES ASSUME C!CInit PROVE ConfigInv
  OBVIOUS
<1>1. C!Defaults \in Holdings /\ C!Defaults["backend"] = 0
  BY DEF C!Defaults, Holdings, C!Values, C!Paths
<1>2. /\ config = C!Defaults /\ adopted = {} /\ ~blind
      /\ editor = [c \in Editors |-> C!Rest(C!Defaults, C!Defaults)]
  BY DEF C!CInit
<1>3. \A c \in Editors : EditorShape(editor[c]) /\ EditorSound(editor[c], c \in adopted)
  BY <1>1, <1>2, RestSound
<1> QED BY <1>1, <1>2, <1>3 DEF ConfigInv, C!ShardsAsConfigured

LEMMA ListStep ==
  ASSUME ConfigInv, NEW c \in Editors, C!ListRevision(c) \/ C!ListValues(c) \/ C!After(c)
  PROVE  ConfigInv'
<1> DEFINE s == editor[c]
<1>t. /\ config \in Holdings /\ EditorShape(s) /\ s.held \in Holdings /\ s.saw \in Holdings
      /\ UNCHANGED <<config, layout, blind>>
  BY DEF ConfigInv, EditorShape, C!ListRevision, C!ListValues, C!After
<1>1. CASE C!ListRevision(c)
  <2> DEFINE r == C!Rest(config, s.saw)
             e == [r EXCEPT !.pc = "list"]
  <2>1. editor' = [editor EXCEPT ![c] = e] /\ adopted' = adopted
    BY <1>1 DEF C!ListRevision, C!Revision
  <2>2. EditorShape(r)
    BY <1>t, RestSound
  <2> HIDE DEF r
  <2>3. EditorShape(e) /\ e.pc = "list"
    BY <2>2 DEF EditorShape
  <2>4. EditorSound(e, c \in adopted')
    BY <2>3 DEF EditorSound
  <2> HIDE DEF e
  <2> QED BY <1>t, <2>1, <2>3, <2>4, EditorStep
<1>2. CASE C!ListValues(c)
  <2> DEFINE e == C!Rest(s.held, config)
  <2>1. /\ editor' = [editor EXCEPT ![c] = e]
        /\ adopted' = IF config = s.held THEN adopted \ {c} ELSE adopted \cup {c}
    BY <1>2 DEF C!ListValues
  <2>2. EditorShape(e) /\ \A adopts : (adopts \/ s.held = config) => EditorSound(e, adopts)
    BY <1>t, RestSound
  <2> HIDE DEF e
  <2>3. c \in adopted' \/ s.held = config
    BY <2>1
  <2>4. EditorSound(e, c \in adopted')
    BY <2>2, <2>3
  <2> QED BY <1>t, <2>1, <2>2, <2>4, EditorStep
<1>3. CASE C!After(c)
  <2> DEFINE saw == [p \in C!Paths |-> IF p \in DOMAIN s.batch THEN s.batch[p] ELSE s.saw[p]]
             e == C!Rest(config, saw)
  <2>1. /\ editor' = [editor EXCEPT ![c] = e]
        /\ adopted' = IF saw = config THEN adopted \ {c} ELSE adopted \cup {c}
    BY <1>3 DEF C!After, C!Revision
  <2>a. saw \in Holdings
    <3>1. PICK ps \in SUBSET C!Paths : s.batch \in [ps -> C!Values]
      BY <1>3, <1>t DEF EditorShape, C!After
    <3> QED BY <1>t, <3>1 DEF Holdings
  <2> HIDE DEF saw
  <2>2. EditorShape(e) /\ \A adopts : (adopts \/ config = saw) => EditorSound(e, adopts)
    BY <1>t, <2>a, RestSound
  <2> HIDE DEF e
  <2>3. c \in adopted' \/ config = saw
    BY <2>1
  <2>4. EditorSound(e, c \in adopted')
    BY <2>2, <2>3
  <2> QED BY <1>t, <2>1, <2>2, <2>4, EditorStep
<1> QED BY <1>1, <1>2, <1>3

(* A batch that may be stored on top of what the configuration holds.      *)
LEMMA SetManyStep ==
  ASSUME ConfigInv, NEW c \in Editors, C!SetMany(c)
  PROVE  ConfigInv'
<1>1. PICK ps \in SUBSET C!Paths, expects \in BOOLEAN : \E batch \in [ps -> C!Values] :
        /\ editor[c].pc = "idle"
        /\ expects => editor[c].held = config
        /\ C!Storable(batch)
        /\ editor' = [editor EXCEPT ![c] = [editor[c] EXCEPT !.pc = "apply", !.batch = batch,
                                               !.expects = expects, !.base = config]]
        /\ UNCHANGED <<config, layout, adopted, blind>>
  BY DEF C!SetMany, C!Revision
<1>2. PICK batch \in [ps -> C!Values] :
        /\ editor[c].pc = "idle"
        /\ expects => editor[c].held = config
        /\ C!Storable(batch)
        /\ editor' = [editor EXCEPT ![c] = [editor[c] EXCEPT !.pc = "apply", !.batch = batch,
                                               !.expects = expects, !.base = config]]
        /\ UNCHANGED <<config, layout, adopted, blind>>
  BY <1>1
<1>3. PICK s : s = editor[c]
  OBVIOUS
<1>4. EditorShape(s) /\ EditorSound(s, c \in adopted) /\ config \in Holdings
  BY <1>3 DEF ConfigInv
<1> DEFINE e == [s EXCEPT !.pc = "apply", !.batch = batch, !.expects = expects, !.base = config]
<1>5. editor' = [editor EXCEPT ![c] = e]
  BY <1>2, <1>3
<1>6. /\ e.pc = "apply" /\ e.held = s.held /\ e.saw = s.saw /\ e.batch = batch
      /\ e.expects = expects /\ e.base = config
      /\ DOMAIN e = {"pc", "held", "saw", "batch", "expects", "base"}
  BY <1>4 DEF EditorShape
<1> HIDE DEF e
<1>7. EditorShape(e)
  BY <1>4, <1>6 DEF EditorShape
<1>8. DOMAIN batch = ps
  OBVIOUS
<1>9. EditorSound(e, c \in adopted')
  BY <1>2, <1>3, <1>4, <1>6, <1>8 DEF EditorSound, C!Storable
<1> QED BY <1>2, <1>5, <1>7, <1>9, EditorStep

(* The batch of a client whose request found what the configuration holds. *)
LEMMA ApplyStep ==
  ASSUME ConfigInv, NEW c \in Editors, C!Apply(c)
  PROVE  ConfigInv'
<1>1. PICK s : s = editor[c]
  OBVIOUS
<1>2. /\ EditorShape(s) /\ EditorSound(s, c \in adopted) /\ config \in Holdings
      /\ s.held \in Holdings /\ s.saw \in Holdings /\ s.pc = "apply"
      /\ adopted' = adopted
  BY <1>1 DEF ConfigInv, C!Apply, C!Applies, EditorShape
<1>3. CASE s.base # config
  <2> DEFINE e == C!Rest(s.held, s.saw)
  <2>1. editor' = [editor EXCEPT ![c] = e] /\ UNCHANGED <<config, layout, blind>>
    BY <1>1, <1>3 DEF C!Apply, C!Applies, C!Revision
  <2>2. EditorShape(e) /\ \A adopts : (adopts \/ s.held = s.saw) => EditorSound(e, adopts)
    BY <1>2, RestSound
  <2> HIDE DEF e
  <2>3. c \in adopted \/ s.held = s.saw
    BY <1>2 DEF EditorSound
  <2>4. EditorSound(e, c \in adopted')
    BY <1>2, <2>2, <2>3
  <2> QED BY <1>2, <2>1, <2>2, <2>4, EditorStep
<1>4. CASE s.base = config
  <2> DEFINE now == [p \in C!Paths |-> IF p \in DOMAIN s.batch THEN s.batch[p] ELSE config[p]]
             e == [s EXCEPT !.pc = "after"]
  <2>1. /\ config' = now
        /\ layout' = IF config["backend"] # now["backend"] THEN now["shard_size"] ELSE layout
        /\ blind' = (blind \/ /\ s.expects /\ c \notin adopted
                              /\ \E p \in DOMAIN s.batch : config[p] # s.saw[p])
        /\ editor' = [editor EXCEPT ![c].pc = "after"]
    BY <1>1, <1>4 DEF C!Apply, C!Applies, C!Revision
  <2>2. now \in Holdings
    <3>1. PICK ps \in SUBSET C!Paths : s.batch \in [ps -> C!Values]
      BY <1>2 DEF EditorShape
    <3> QED BY <1>2, <3>1 DEF Holdings
  <2>3. /\ now["backend"] = IF "backend" \in DOMAIN s.batch THEN s.batch["backend"]
                             ELSE config["backend"]
        /\ now["shard_size"] = IF "shard_size" \in DOMAIN s.batch THEN s.batch["shard_size"]
                               ELSE config["shard_size"]
    BY DEF C!Paths
  <2> HIDE DEF now
  <2>4. ~blind'
    BY <1>1, <1>2, <1>4, <2>1 DEF ConfigInv, EditorSound
  <2>5. C!ShardsAsConfigured'
    BY <1>1, <1>2, <1>4, <2>1, <2>3 DEF ConfigInv, EditorSound, C!ShardsAsConfigured
  <2>6. editor' = [editor EXCEPT ![c] = e]
    BY <1>1, <2>1
  <2>7. e.pc = "after" /\ EditorShape(e) /\ e.saw = s.saw /\ e.held = s.held
    BY <1>2 DEF EditorShape
  <2>8. EditorSound(e, c \in adopted')
    BY <1>2, <2>7 DEF EditorSound
  <2> HIDE DEF e
  <2>9. DOMAIN editor' = Editors /\ \A d \in Editors : EditorShape(editor'[d])
                                       /\ EditorSound(editor'[d], d \in adopted')
    BY <1>2, <2>6, <2>7, <2>8 DEF ConfigInv
  <2> QED BY <2>1, <2>2, <2>4, <2>5, <2>9 DEF ConfigInv
<1> QED BY <1>3, <1>4

(* By hand only plain paths change, so the shards stay as configured.      *)
LEMMA HandEditStep ==
  ASSUME ConfigInv, C!HandEdit
  PROVE  ConfigInv'
<1>1. PICK p \in C!Plain, v \in C!Values :
        config' = [config EXCEPT ![p] = v] /\ UNCHANGED <<layout, editor, adopted, blind>>
  BY DEF C!HandEdit
<1>2. /\ config' \in Holdings
      /\ config'["backend"] = config["backend"] /\ config'["shard_size"] = config["shard_size"]
  BY <1>1 DEF ConfigInv, Holdings, C!Plain, C!Paths
<1> QED BY <1>1, <1>2 DEF ConfigInv, C!ShardsAsConfigured

(* Whatever the interleaving of listings, batches and edits by hand: a     *)
(* revision hashed before the values are read never covers a value its     *)
(* client has not seen, and what was validated without the lock still      *)
(* holds when it is stored under it.                                       *)
THEOREM ConfigurationKeptCorrect == ProtocolsSpec => []ConfigurationKept
<1>1. ProtocolsInit => ConfigInv
  BY ConfigInit DEF ProtocolsInit
<1>2. ConfigInv /\ [ProtocolsNext]_protocolVars => ConfigInv'
  <2> SUFFICES ASSUME ConfigInv, [ProtocolsNext]_protocolVars PROVE ConfigInv'
    OBVIOUS
  <2>1. CASE UNCHANGED configVars
    BY <2>1 DEF ConfigInv, configVars, C!ShardsAsConfigured
  <2>2. CASE C!CNext
    <3>1. CASE C!HandEdit
      BY <3>1, HandEditStep
    <3>2. CASE \E c \in Editors : C!ListRevision(c) \/ C!ListValues(c) \/ C!After(c)
      BY <3>2, ListStep
    <3>3. CASE \E c \in Editors : C!SetMany(c)
      BY <3>3, SetManyStep
    <3>4. CASE \E c \in Editors : C!Apply(c)
      BY <3>4, ApplyStep
    <3> QED BY <2>2, <3>1, <3>2, <3>3, <3>4 DEF C!CNext
  <2>3. C!CNext \/ UNCHANGED configVars
    BY DEF ProtocolsNext, protocolVars
  <2> QED BY <2>1, <2>2, <2>3
<1>3. ConfigInv => ConfigurationKept
  BY DEF ConfigInv, ConfigurationKept, C!NoBlindOverwrite
<1> QED BY <1>1, <1>2, <1>3, PTL DEF ProtocolsSpec

-----------------------------------------------------------------------------
(* The routes.                                                             *)

(* What a server has checked of the record it read holds of the stored one *)
(* as long as that has the revision it read.                               *)
Checked(b, read) ==
  /\ read.revision \in Int /\ read.revision <= record.revision
  /\ read.manifest \in R!Manifests /\ read.uris \in R!Uris
  /\ read.revision = record.revision =>
       /\ read.manifest = record.manifest /\ read.uris = record.uris
       /\ IF b.op = "patch" THEN R!PatchAccepted(b) ELSE R!CompletionAllowed(b)

RecordShape(r) ==
  /\ DOMAIN r = {"label", "manifest", "uris", "completed", "revision"}
  /\ r.manifest \in R!Manifests /\ r.uris \in R!Uris /\ r.revision \in Int

RoutesInv ==
  /\ RecordShape(record)
  /\ raced \in BOOLEAN /\ DOMAIN request = Servers
  /\ \A s \in Servers : request[s].pc = "write" =>
       request[s].body \in R!Bodies /\ Checked(request[s].body, request[s].read)
  /\ RoutesGuarded

LEMMA RoutesInit == R!RInit => RoutesInv
<1> SUFFICES ASSUME R!RInit PROVE RoutesInv
  OBVIOUS
<1>1. /\ record \in [label : BOOLEAN, manifest : R!Manifests, uris : R!Uris,
                     completed : {"no"}, revision : {0}]
      /\ record.label => record.manifest # 0 /\ record.manifest = record.uris
      /\ raced = FALSE /\ request = [s \in Servers |-> R!Rested]
  BY DEF R!RInit, R!Acceptable, R!Governed
<1>2. R!Rested.pc = "idle"
  BY DEF R!Rested
<1>3. RecordShape(record)
  BY <1>1 DEF RecordShape
<1>4. RoutesGuarded
  BY <1>1 DEF RoutesGuarded, R!LabelledIsValid, R!ReceiptForGoverned
<1> QED BY <1>1, <1>2, <1>3, <1>4 DEF RecordShape, RoutesInv

(* A patch that was accepted, merged with what it was checked against.     *)
LEMMA PatchStep ==
  ASSUME RoutesInv, ~raced, NEW b \in R!Bodies, b.op = "patch", NEW read,
         read.manifest = record.manifest, read.uris = record.uris, R!PatchAccepted(b)
  PROVE  LET w == R!Written(b, read) IN
         w.label => w.manifest # 0 /\ w.manifest = w.uris
<1>1. PICK r : r = record
  OBVIOUS
<1>2. /\ RecordShape(r)
      /\ r.label => r.manifest # 0 /\ r.manifest = r.uris
  BY <1>1 DEF RecordShape, RoutesInv, RoutesGuarded, R!LabelledIsValid
<1> DEFINE w == R!Written(b, read)
<1>3. /\ w.label <=> IF b.label = "keep" THEN r.label ELSE b.label = "set"
      /\ w.manifest = IF R!Sent(b) THEN R!Merged(b.manifest, r.manifest) ELSE r.manifest
      /\ w.uris = IF R!Sent(b) THEN R!Merged(b.uris, r.uris) ELSE r.uris
  <2>1. PICK l, m, u :
          /\ l = CASE b.label = "keep" -> r.label [] b.label = "set" -> TRUE
                   [] b.label = "drop" -> FALSE
          /\ m = IF R!Sent(b) THEN R!Merged(b.manifest, r.manifest) ELSE r.manifest
          /\ u = IF R!Sent(b) THEN R!Merged(b.uris, r.uris) ELSE r.uris
    OBVIOUS
  <2>2. w = [r EXCEPT !.label = l, !.manifest = m, !.uris = u, !.revision = r.revision + 1]
    BY <1>1, <2>1 DEF R!Written
  <2>3. w.label = l /\ w.manifest = m /\ w.uris = u
    <3> HIDE DEF w
    <3> QED BY <1>2, <2>2 DEF RecordShape
  <2>4. CASE b.label = "keep"
    BY <2>1, <2>3, <2>4
  <2>5. CASE b.label = "set"
    BY <2>1, <2>3, <2>5
  <2>6. CASE b.label = "drop"
    BY <2>1, <2>3, <2>6
  <2> QED BY <2>4, <2>5, <2>6 DEF R!Bodies
<1> SUFFICES w.label => w.manifest # 0 /\ w.manifest = w.uris
  OBVIOUS
<1> HIDE DEF w
<1>4. /\ b.manifest \in R!Manifests \cup {R!Unset} /\ b.uris \in R!Uris \cup {R!Unset}
  BY DEF R!Bodies
<1>5. CASE R!Sent(b)
  <2>1. w.label => R!Given(b.manifest) # 0 /\ R!Given(b.manifest) = R!Given(b.uris)
    BY <1>1, <1>3, <1>5 DEF R!PatchAccepted, R!Acceptable, R!Governed, R!Labelled
  <2>2. R!Given(b.manifest) # 0 /\ R!Given(b.manifest) = R!Given(b.uris) =>
          b.manifest # R!Unset /\ b.uris # R!Unset
          /\ b.manifest # 0 /\ b.manifest = b.uris
    BY <1>4 DEF R!Given, R!Manifests, R!Uris, R!Unset
  <2> QED BY <1>3, <1>5, <2>1, <2>2 DEF R!Merged
<1>6. CASE ~R!Sent(b)
  BY <1>1, <1>3, <1>6 DEF R!PatchAccepted, R!Acceptable, R!Governed, R!Labelled
<1> QED BY <1>5, <1>6

LEMMA CheckStep ==
  ASSUME RoutesInv, NEW s \in Servers, R!ReadAndCheck(s)
  PROVE  RoutesInv'
<1>1. PICK b \in R!Bodies :
        /\ IF b.op = "patch" THEN R!PatchAllowed(b) ELSE R!CompletionAllowed(b)
        /\ request' = [request EXCEPT ![s] = [pc |-> "write", body |-> b,
                           read |-> [manifest |-> record.manifest, uris |-> record.uris,
                                     revision |-> record.revision]]]
        /\ UNCHANGED <<record, raced>>
  BY DEF R!ReadAndCheck
<1> DEFINE read == [manifest |-> record.manifest, uris |-> record.uris,
                    revision |-> record.revision]
<1>2. Checked(b, read)
  BY <1>1 DEF Checked, R!PatchAllowed, RoutesInv, RecordShape
<1>3. \A t \in Servers : request'[t].pc = "write" =>
        request'[t].body \in R!Bodies /\ Checked(request'[t].body, request'[t].read)
  BY <1>1, <1>2 DEF RecordShape, RoutesInv
<1>4. \A c, r : Checked(c, r)' <=> Checked(c, r)
  BY <1>1 DEF Checked, R!PatchAccepted, R!CompletionAllowed, R!Labelled
<1>5. RoutesGuarded'
  BY <1>1 DEF RecordShape, RoutesInv, RoutesGuarded, R!LabelledIsValid, R!ReceiptForGoverned
<1> QED BY <1>1, <1>3, <1>4, <1>5 DEF RecordShape, RoutesInv
LEMMA WriteStep ==
  ASSUME RoutesInv, NEW s \in Servers, R!Write(s)
  PROVE  RoutesInv'
<1>1. PICK b, read : b = request[s].body /\ read = request[s].read
  OBVIOUS
<1>2. /\ request[s].pc = "write" /\ b \in R!Bodies /\ Checked(b, read)
      /\ request' = [request EXCEPT ![s] = R!Rested] /\ R!Rested.pc = "idle"
  BY <1>1 DEF RecordShape, RoutesInv, R!Write, R!Rested
<1>0. \A t \in Servers : request'[t].pc = "write" =>
        request'[t].body \in R!Bodies /\ Checked(request'[t].body, request'[t].read)
  BY <1>2 DEF RecordShape, RoutesInv
<1>3. CASE UNCHANGED <<record, raced>>
  <2>1. \A c, r : Checked(c, r)' <=> Checked(c, r)
    BY <1>3 DEF Checked, R!PatchAccepted, R!CompletionAllowed, R!Labelled
  <2>2. RoutesGuarded'
    BY <1>3 DEF RecordShape, RoutesInv, RoutesGuarded, R!LabelledIsValid, R!ReceiptForGoverned
  <2> QED BY <1>2, <1>3, <1>0, <2>1, <2>2 DEF RecordShape, RoutesInv
<1>4. CASE record' = R!Written(b, read) /\ raced' = (raced \/ read.revision # record.revision)
  <2> DEFINE w == R!Written(b, read)
  <2>1. RecordShape(w)
        /\ w.revision = record.revision + 1
    <3>1. CASE b.op = "patch"
      <4>1. b.label \in {"keep", "set", "drop"}
            /\ b.manifest \in R!Manifests \cup {R!Unset} /\ b.uris \in R!Uris \cup {R!Unset}
        BY <1>2, <3>1 DEF R!Bodies
      <4>2. /\ R!Merged(b.manifest, read.manifest) \in R!Manifests
            /\ R!Merged(b.uris, read.uris) \in R!Uris
        BY <1>2, <4>1 DEF R!Merged, Checked
      <4>3. PICK r : r = record
        OBVIOUS
      <4>4. PICK m, u : /\ m \in R!Manifests /\ m = IF R!Sent(b) THEN R!Merged(b.manifest, read.manifest)
                                                    ELSE r.manifest
                        /\ u \in R!Uris /\ u = IF R!Sent(b) THEN R!Merged(b.uris, read.uris)
                                              ELSE r.uris
        BY <4>2, <4>3 DEF RecordShape, RoutesInv
      <4>5. PICK l : l = CASE b.label = "keep" -> r.label [] b.label = "set" -> TRUE
                                 [] b.label = "drop" -> FALSE
        OBVIOUS
      <4>6. w = [r EXCEPT !.label = l, !.manifest = m, !.uris = u, !.revision = r.revision + 1]
        BY <3>1, <4>3, <4>4, <4>5 DEF R!Written, RoutesInv
      <4>7. RecordShape(r)
        BY <4>3 DEF RecordShape, RoutesInv
      <4> HIDE DEF w
      <4> QED BY <4>3, <4>4, <4>6, <4>7 DEF RecordShape
    <3>2. CASE b.op # "patch"
      <4>1. PICK r : r = record
        OBVIOUS
      <4>2. PICK c \in {"receipt", "bare", "unreceipted"} :
              c = IF b.receipt THEN "receipt"
                  ELSE IF R!Governed(record.label, record.manifest) THEN "unreceipted"
                       ELSE "bare"
        OBVIOUS
      <4>3. w = [r EXCEPT !.completed = c, !.revision = r.revision + 1]
        BY <3>2, <4>1, <4>2 DEF R!Written
      <4>4. RecordShape(r)
        BY <4>1 DEF RecordShape, RoutesInv
      <4> HIDE DEF w
      <4> QED BY <4>1, <4>2, <4>3, <4>4 DEF RecordShape
    <3> QED BY <3>1, <3>2
  <2>2. record' = w
    BY <1>4
  <2>3. ~raced' => /\ read.manifest = record.manifest /\ read.uris = record.uris
                   /\ IF b.op = "patch" THEN R!PatchAccepted(b) ELSE R!CompletionAllowed(b)
                   /\ ~raced
    BY <1>2, <1>4 DEF Checked
  <2>4. ~raced' /\ w.label => w.manifest # 0 /\ w.manifest = w.uris
    <3>1. CASE b.op = "patch"
      BY <1>2, <2>3, <3>1, PatchStep
    <3>2. CASE b.op # "patch"
      <4>1. w.label = record.label /\ w.manifest = record.manifest /\ w.uris = record.uris
        BY <3>2 DEF RecordShape, RoutesInv, R!Written
      <4> QED BY <2>3, <4>1 DEF RecordShape, RoutesInv, RoutesGuarded, R!LabelledIsValid
    <3> QED BY <3>1, <3>2
  <2>5. ~raced' => w.completed # "unreceipted"
    <3>1. CASE b.op = "patch"
      <4>1. w.completed = record.completed
        BY <3>1 DEF RecordShape, RoutesInv, R!Written
      <4> QED BY <2>3, <4>1 DEF RecordShape, RoutesInv, RoutesGuarded, R!ReceiptForGoverned
    <3>2. CASE b.op # "patch"
      <4>1. w.completed = IF b.receipt THEN "receipt"
                          ELSE IF R!Governed(record.label, record.manifest) THEN "unreceipted"
                               ELSE "bare"
        BY <3>2 DEF RecordShape, RoutesInv, R!Written
      <4> QED BY <2>3, <3>2, <4>1 DEF R!CompletionAllowed
    <3> QED BY <3>1, <3>2
  <2> HIDE DEF w
  <2>6. RoutesGuarded'
    BY <2>2, <2>4, <2>5 DEF RoutesGuarded, R!LabelledIsValid, R!ReceiptForGoverned
  <2>7. \A c, r : Checked(c, r) => Checked(c, r)'
    BY <2>1, <2>2 DEF Checked, RoutesInv, RecordShape
  <2> QED BY <1>0, <1>2, <1>4, <2>1, <2>2, <2>6, <2>7 DEF RecordShape, RoutesInv
<1> QED BY <1>1, <1>3, <1>4 DEF R!Write

(* Whatever two servers do beside each other, partial updates keep the     *)
(* envelope of a labelled ticket valid, and a governed one is completed    *)
(* with a receipt: what a route checked of the ticket it read is true of   *)
(* the ticket it writes, unless somebody wrote in between.                 *)
THEOREM RoutesGuardedCorrect == ProtocolsSpec => []RoutesGuarded
<1>1. ProtocolsInit => RoutesInv
  BY RoutesInit DEF ProtocolsInit
<1>2. RoutesInv /\ [ProtocolsNext]_protocolVars => RoutesInv'
  <2> SUFFICES ASSUME RoutesInv, [ProtocolsNext]_protocolVars PROVE RoutesInv'
    OBVIOUS
  <2>1. CASE UNCHANGED routeVars
    <3>1. \A c, r : Checked(c, r)' <=> Checked(c, r)
      BY <2>1 DEF routeVars, Checked, R!PatchAccepted, R!CompletionAllowed, R!Labelled
    <3>2. RoutesGuarded'
      BY <2>1 DEF routeVars, RoutesInv, RoutesGuarded, R!LabelledIsValid, R!ReceiptForGoverned
    <3> QED BY <2>1, <3>1, <3>2 DEF RecordShape, RoutesInv, routeVars
  <2>2. CASE R!RNext
    BY <2>2, CheckStep, WriteStep DEF R!RNext
  <2>3. R!RNext \/ UNCHANGED routeVars
    BY DEF ProtocolsNext, protocolVars
  <2> QED BY <2>1, <2>2, <2>3
<1>3. RoutesInv => RoutesGuarded
  BY DEF RecordShape, RoutesInv
<1> QED BY <1>1, <1>2, <1>3, PTL DEF ProtocolsSpec

-----------------------------------------------------------------------------
(* The lists.                                                              *)

(* What the bodies, signatures and file revisions are, and which is later. *)
Shows == [L!Parts -> Int]
AtLeast(x, y) == \A p \in L!Parts : x[p] >= y[p]

LEMMA Later ==
  ASSUME NEW x \in Shows, NEW y \in Shows, NEW z \in Shows, AtLeast(x, y), AtLeast(y, z)
  PROVE  AtLeast(x, z)
<1> SUFFICES ASSUME NEW p \in L!Parts PROVE x[p] >= z[p]
  BY DEF AtLeast
<1>1. x[p] \in Int /\ y[p] \in Int /\ z[p] \in Int /\ x[p] >= y[p] /\ y[p] >= z[p]
  BY DEF AtLeast, Shows
<1> QED BY <1>1

-----------------------------------------------------------------------------
(* The tables of bodies: one body for a query, and the latest is cached.   *)
Consistent(B, T) ==
  /\ \A e, f \in B : e.query = f.query => e = f
  /\ \A q \in Queries : T[q] # L!NoLatest => \E e \in B : e.query = q /\ e.body = T[q].body

(* So they weigh what one body of each query weighs.                       *)
Has(B, q) == q \in Queries /\ \E e \in B : e.query = q
Bytes(B) == (IF Has(B, "queue") THEN 1 ELSE 0) + (IF Has(B, "archive") THEN 3 ELSE 0)
            + (IF Has(B, "full") THEN 4 ELSE 0)

LEMMA SizeOfQuery ==
  L!Size("queue") = 1 /\ L!Size("archive") = 3 /\ L!Size("full") = 4
BY DEF L!Size

LEMMA OneBody ==
  ASSUME NEW B, NEW T, Consistent(B, T), NEW q \in Queries,
         NEW S, S = {h \in {<<e.query, e.body>> : e \in B}
                           \cup {<<k, T[k].body>> : k \in {k \in Queries : T[k] # L!NoLatest}} :
                       h[1] = q}
  PROVE  Cardinality(S) = IF Has(B, q) THEN 1 ELSE 0
<1>1. CASE Has(B, q)
  <2>1. PICK e \in B : e.query = q
    BY <1>1 DEF Has
  <2>2. S = {<<q, e.body>>}
    <3>1. \A h \in S : h = <<q, e.body>>
      <4> SUFFICES ASSUME NEW h \in S PROVE h = <<q, e.body>>
        OBVIOUS
      <4>1. CASE \E f \in B : h = <<f.query, f.body>>
        <5>1. PICK f \in B : h = <<f.query, f.body>>
          BY <4>1
        <5>2. f.query = q
          BY <5>1
        <5> QED BY <2>1, <5>1, <5>2 DEF Consistent
      <4>2. CASE \E k \in Queries : T[k] # L!NoLatest /\ h = <<k, T[k].body>>
        <5>1. PICK k \in Queries : T[k] # L!NoLatest /\ h = <<k, T[k].body>>
          BY <4>2
        <5>2. k = q
          BY <5>1
        <5>3. PICK f \in B : f.query = q /\ f.body = T[q].body
          BY <5>1, <5>2 DEF Consistent
        <5> QED BY <2>1, <5>1, <5>2, <5>3 DEF Consistent
      <4> QED BY <4>1, <4>2
    <3>2. <<q, e.body>> \in S
      BY <2>1
    <3> QED BY <3>1, <3>2
  <2> QED BY <1>1, <2>2, FS_Singleton
<1>2. CASE ~Has(B, q)
  <2>1. S = {}
    <3> SUFFICES ASSUME NEW h \in S PROVE FALSE
      OBVIOUS
    <3>1. CASE \E f \in B : h = <<f.query, f.body>>
      BY <1>2, <3>1 DEF Has
    <3>2. CASE \E k \in Queries : T[k] # L!NoLatest /\ h = <<k, T[k].body>>
      <4>1. PICK k \in Queries : T[k] # L!NoLatest /\ h = <<k, T[k].body>>
        BY <3>2
      <4>2. k = q
        BY <4>1
      <4> QED BY <1>2, <4>1, <4>2 DEF Consistent, Has
    <3> QED BY <3>1, <3>2
  <2> QED BY <1>2, <2>1, FS_EmptySet
<1> QED BY <1>1, <1>2

LEMMA WeightIs ==
  ASSUME NEW B, NEW T, Consistent(B, T)
  PROVE  L!Weight(B, T) = Bytes(B)
<1> DEFINE held == {<<e.query, e.body>> : e \in B}
                   \cup {<<k, T[k].body>> : k \in {k \in Queries : T[k] # L!NoLatest}}
           Of(q) == L!Size(q) * L!Cardinality({h \in held : h[1] = q})
<1>1. L!Weight(B, T) = (IF "queue" \in Queries THEN Of("queue") ELSE 0)
                       + (IF "archive" \in Queries THEN Of("archive") ELSE 0)
                       + (IF "full" \in Queries THEN Of("full") ELSE 0)
  BY DEF L!Weight
<1>2. \A q \in Queries : L!Cardinality({h \in held : h[1] = q}) = IF Has(B, q) THEN 1 ELSE 0
  <2> SUFFICES ASSUME NEW q \in Queries
               PROVE  L!Cardinality({h \in held : h[1] = q}) = IF Has(B, q) THEN 1 ELSE 0
    OBVIOUS
  <2>1. Cardinality({h \in held : h[1] = q}) = IF Has(B, q) THEN 1 ELSE 0
    BY OneBody
  <2> QED BY <2>1 DEF L!Cardinality, Cardinality
<1> HIDE DEF held
<1>3. "queue" \in Queries => Of("queue") = IF Has(B, "queue") THEN 1 ELSE 0
  BY <1>2, SizeOfQuery
<1>4. "archive" \in Queries => Of("archive") = IF Has(B, "archive") THEN 3 ELSE 0
  BY <1>2, SizeOfQuery
<1>5. "full" \in Queries => Of("full") = IF Has(B, "full") THEN 4 ELSE 0
  BY <1>2, SizeOfQuery
<1> HIDE DEF Of
<1> QED BY <1>1, <1>3, <1>4, <1>5 DEF Bytes, Has

TablesInv ==
  /\ Consistent(bodies, latest) /\ L!Weight(bodies, latest) <= MaxBytes
  /\ \A e \in bodies : e.query \in Queries
  /\ DOMAIN latest = Queries /\ \A q \in Queries : DOMAIN latest[q] = {"body", "age"}

LEMMA CachesStep ==
  ASSUME TablesInv, NEW r \in Readers, reader[r].query \in Queries, L!Caches(r)
  PROVE  /\ TablesInv'
         /\ \A e \in bodies' : e \in bodies
              \/ e = [query |-> reader[r].query, sig |-> reader[r].sig, body |-> reader[r].body]
<1> DEFINE q == reader[r].query
           B == {e \in bodies : e.query # q}
           T == [latest EXCEPT ![q] = L!NoLatest]
           full == L!Weight(B, T) + L!Size(q) > MaxBytes
           entry == [query |-> q, sig |-> reader[r].sig, body |-> reader[r].body]
           newest == [body |-> reader[r].body, age |-> "fresh"]
<1>1. IF L!Size(q) > MaxBytes THEN bodies' = B /\ latest' = T
      ELSE /\ bodies' = (IF full THEN {} ELSE B) \cup {entry}
           /\ latest' = [(IF full THEN L!NothingLatest ELSE T) EXCEPT ![q] = newest]
  BY DEF L!Caches, L!CachesIn
<1>2. /\ q \in Queries /\ q \in {"queue", "archive", "full"} /\ MaxBytes \in Nat
      /\ entry.query = q /\ entry.body = reader[r].body
      /\ newest.body = reader[r].body /\ DOMAIN newest = {"body", "age"}
      /\ DOMAIN L!NoLatest = {"body", "age"}
  BY ListsAssumption DEF L!NoLatest
<1>3. \A k \in Queries : T[k] = IF k = q THEN L!NoLatest ELSE latest[k]
  BY DEF TablesInv
<1>4. DOMAIN T = Queries /\ \A k \in Queries : DOMAIN T[k] = {"body", "age"}
  BY <1>2, <1>3 DEF TablesInv
<1> HIDE DEF T
<1>5. Consistent(B, T) /\ B \subseteq bodies /\ \A e \in B : e.query \in Queries /\ e.query # q
  BY <1>3 DEF TablesInv, Consistent
<1> HIDE DEF B
<1>6. L!Size(q) = IF q = "queue" THEN 1 ELSE IF q = "archive" THEN 3 ELSE 4
  BY <1>2, SizeOfQuery
<1>7. L!Weight(B, T) = Bytes(B) /\ L!Weight(bodies, latest) = Bytes(bodies)
  BY <1>5, WeightIs DEF TablesInv
<1>8. Bytes(B) <= Bytes(bodies) /\ Bytes(B) \in Nat /\ Bytes(bodies) \in Nat
  <2>1. \A k : Has(B, k) => Has(bodies, k)
    BY <1>5 DEF Has
  <2> QED BY <2>1 DEF Bytes
<1>9. ~Has(B, q)
  BY <1>5 DEF Has
<1>a. CASE L!Size(q) > MaxBytes
  <2>1. bodies' = B /\ latest' = T
    BY <1>1, <1>a
  <2>2. L!Weight(B, T) <= MaxBytes
    BY <1>2, <1>7, <1>8 DEF TablesInv
  <2> QED BY <1>4, <1>5, <2>1, <2>2 DEF TablesInv
<1>b. CASE ~(L!Size(q) > MaxBytes)
  <2>1. PICK K : K = IF full THEN {} ELSE B
    OBVIOUS
  <2>2. PICK N : N = IF full THEN L!NothingLatest ELSE T
    OBVIOUS
  <2>3. /\ K \subseteq B /\ Consistent(K, N) /\ DOMAIN N = Queries
        /\ \A k \in Queries : DOMAIN N[k] = {"body", "age"}
    <3>1. CASE full
      <4>1. K = {} /\ N = L!NothingLatest
        BY <2>1, <2>2, <3>1
      <4>2. DOMAIN N = Queries /\ \A k \in Queries : N[k] = L!NoLatest
        BY <4>1 DEF L!NothingLatest
      <4> QED BY <1>2, <4>1, <4>2 DEF Consistent
    <3>2. CASE ~full
      <4>1. K = B /\ N = T
        BY <2>1, <2>2, <3>2
      <4> QED BY <1>4, <1>5, <4>1
    <3> QED BY <3>1, <3>2
  <2>4. bodies' = K \cup {entry} /\ latest' = [N EXCEPT ![q] = newest]
    BY <1>1, <1>b, <2>1, <2>2
  <2>5. Bytes(K) + L!Size(q) <= MaxBytes
    <3>1. CASE full
      <4>1. K = {}
        BY <2>1, <3>1
      <4>2. Bytes(K) = 0
        BY <4>1 DEF Bytes, Has
      <4> QED BY <1>2, <1>6, <1>b, <4>2
    <3>2. CASE ~full
      <4>1. K = B
        BY <2>1, <3>2
      <4> QED BY <1>2, <1>6, <1>7, <1>8, <3>2, <4>1
    <3> QED BY <3>1, <3>2
  <2> HIDE DEF full, entry, newest
  <2>6. \A k \in Queries : latest'[k] = IF k = q THEN newest ELSE N[k]
    BY <2>3, <2>4
  <2>7. Consistent(bodies', latest')
    BY <1>2, <1>5, <2>3, <2>4, <2>6 DEF Consistent
  <2>8. \A k : Has(bodies', k) <=> Has(K, k) \/ k = q
    BY <1>2, <2>4 DEF Has
  <2>9. ~Has(K, q)
    BY <1>9, <2>3 DEF Has
  <2>10. Bytes(bodies') = Bytes(K) + L!Size(q)
    BY <1>2, <1>6, <2>8, <2>9 DEF Bytes
  <2>11. L!Weight(bodies', latest') <= MaxBytes
    BY <2>5, <2>7, <2>10, WeightIs
  <2>12. L!Weight(bodies, latest)' <= MaxBytes
    BY <2>11 DEF L!Weight
  <2>13. DOMAIN latest' = Queries /\ \A k \in Queries : DOMAIN latest'[k] = {"body", "age"}
    BY <1>2, <2>3, <2>4, <2>6
  <2>14. \A e \in bodies' : e \in bodies \/ e = entry
    BY <1>5, <2>3, <2>4
  <2>15. \A e \in bodies' : e.query \in Queries
    BY <1>2, <1>5, <2>3, <2>4
  <2>16. TablesInv'
    BY <2>7, <2>11, <2>13, <2>15 DEF TablesInv
  <2> QED BY <2>14, <2>16 DEF entry
<1> QED BY <1>a, <1>b

(* Bodies grow old and stay where they are.                                *)
LEMMA AgesStep ==
  ASSUME TablesInv, bodies' = bodies,
         \/ latest' = latest
         \/ latest' = [q \in Queries |-> IF latest[q].age = "fresh"
                                         THEN [latest[q] EXCEPT !.age = "recent"] ELSE latest[q]]
         \/ latest' = [q \in Queries |-> IF latest[q].age \in {"fresh", "recent"}
                                         THEN [latest[q] EXCEPT !.age = "old"] ELSE latest[q]]
  PROVE  TablesInv'
<1>1. DOMAIN latest' = Queries
  BY DEF TablesInv
<1>2. ASSUME NEW q \in Queries
      PROVE  /\ DOMAIN latest'[q] = {"body", "age"} /\ latest'[q].body = latest[q].body
             /\ latest'[q] # L!NoLatest => latest[q] # L!NoLatest
  <2>1. DOMAIN latest[q] = {"body", "age"}
    BY DEF TablesInv
  <2>2. \/ latest'[q] = latest[q]
        \/ latest[q].age \in {"fresh", "recent"}
           /\ \E a : latest'[q] = [latest[q] EXCEPT !.age = a]
    OBVIOUS
  <2>3. latest[q].age \in {"fresh", "recent"} => latest[q] # L!NoLatest
    BY DEF L!NoLatest
  <2> QED BY <2>1, <2>2, <2>3
<1>3. Consistent(bodies', latest')
  BY <1>2 DEF TablesInv, Consistent
<1>4. L!Weight(bodies', latest') = L!Weight(bodies, latest)
  BY <1>3, WeightIs DEF TablesInv
<1>5. L!Weight(bodies, latest)' = L!Weight(bodies, latest)
  BY <1>4 DEF L!Weight
<1> QED BY <1>1, <1>2, <1>3, <1>5 DEF TablesInv

-----------------------------------------------------------------------------
(* What a request holds, by the step it is at: its signature is at least   *)
(* what was acknowledged when it came, its body at least its signature.    *)
(* While it scans with the index enabled the lock keeps acked as it is.    *)
Scanned(e, p) == /\ e.begun[p] <= e.sig[p] /\ e.sig[p] <= files[p]
                 /\ indexed => acked[p] <= e.sig[p]

ReaderShape(e) ==
  /\ DOMAIN e = {"pc", "query", "begun", "probe", "sig", "body", "how"}
  /\ e.begun \in Shows /\ e.sig \in Shows /\ e.body \in Shows

ReaderSound(e) ==
  /\ ReaderShape(e)
  /\ e.pc # "idle" => e.query \in Queries /\ AtLeast(acked, e.begun)
  /\ e.pc = "scan" => /\ \A p \in L!Parts : e.sig[p] = -1 \/ Scanned(e, p)
                      /\ \E p \in L!Parts : e.sig[p] # -1
  /\ e.pc \in {"find", "index", "files", "files2", "keep"} =>
       AtLeast(e.sig, e.begun) /\ AtLeast(files, e.sig)
  /\ e.pc = "index" => indexed /\ (~backdated => AtLeast(index, e.sig))
  /\ e.pc = "files2" => e.sig["active"] <= e.body["active"] /\ e.body["active"] <= files["active"]
  /\ e.pc = "keep" => (~backdated => AtLeast(e.body, e.sig)) /\ AtLeast(files, e.body)
  /\ e.pc = "answered" /\ e.how \in {"cached", "built"} /\ ~backdated => AtLeast(e.body, e.begun)

Zero == [p \in L!Parts |-> 0]

WorldInv ==
  /\ files \in Shows /\ acked \in Shows /\ index \in Shows /\ rebuild \in Shows
  /\ AtLeast(files, acked) /\ AtLeast(acked, Zero)
  /\ AtLeast(files, index) /\ AtLeast(files, rebuild)
  /\ indexed \in BOOLEAN /\ backdated \in BOOLEAN
  /\ mutation.part \in L!Parts
  /\ sigCache.sig \in Shows
  /\ sigCache # L!NoSig => AtLeast(sigCache.sig, acked) /\ AtLeast(files, sigCache.sig)

(* A body is what its signature says, or newer if there is an index.       *)
BodyAsSigned(e) ==
  /\ e.sig \in Shows /\ e.body \in Shows
  /\ ~backdated => IF indexed THEN AtLeast(e.body, e.sig) ELSE e.body = e.sig

ListsInv ==
  /\ TablesInv /\ WorldInv
  /\ DOMAIN reader = Readers /\ \A r \in Readers : ReaderSound(reader[r])
  /\ \A r \in Readers : indexed /\ reader[r].pc = "scan" => sigLock = r
  /\ \A e \in bodies : BodyAsSigned(e)

LEMMA ListsInit == L!LInit => ListsInv
<1> SUFFICES ASSUME L!LInit PROVE ListsInv
  OBVIOUS
<1>1. /\ files = Zero /\ acked = Zero /\ index = Zero /\ rebuild = L!NoBody
      /\ indexed \in BOOLEAN /\ backdated = FALSE /\ bodies = {}
      /\ sigCache = L!NoSig /\ mutation = L!NoMutation
      /\ latest = [q \in Queries |-> L!NoLatest] /\ reader = [r \in Readers |-> L!Idle]
  BY DEF L!LInit, Zero
<1>2. Zero \in Shows /\ L!NoBody \in Shows /\ AtLeast(Zero, Zero) /\ AtLeast(Zero, L!NoBody)
  BY DEF Shows, Zero, AtLeast, L!NoBody
<1>3. WorldInv
  <2>1. L!NoMutation.part \in L!Parts /\ L!NoSig.sig = L!NoBody
    BY DEF L!NoMutation, L!Parts, L!NoSig
  <2> QED BY <1>1, <1>2, <2>1 DEF WorldInv
<1>4. L!Idle.pc = "idle" /\ ReaderShape(L!Idle)
  BY <1>2 DEF L!Idle, ReaderShape
<1>5. ReaderSound(L!Idle)
  BY <1>4 DEF ReaderSound
<1>6. TablesInv
  <2>1. Consistent(bodies, latest)
    BY <1>1 DEF Consistent
  <2>2. Bytes(bodies) = 0
    BY <1>1 DEF Bytes, Has
  <2>3. L!Weight(bodies, latest) <= MaxBytes
    BY <2>1, <2>2, WeightIs, ListsAssumption
  <2>4. DOMAIN L!NoLatest = {"body", "age"}
    BY DEF L!NoLatest
  <2> QED BY <1>1, <2>1, <2>3, <2>4 DEF TablesInv
<1> QED BY <1>1, <1>3, <1>4, <1>5, <1>6 DEF ListsInv

(* What other threads and programs do, a request need not notice: files    *)
(* and what is acknowledged go forward, and an index that goes back under  *)
(* a reader is told.                                                       *)
LEMMA NoticesNothing ==
  ASSUME WorldInv, files' \in Shows, acked' \in Shows, index' \in Shows, indexed' = indexed,
         AtLeast(files', files), AtLeast(acked', acked), backdated => backdated',
         NEW e, ReaderSound(e),
         acked' = acked \/ ~indexed \/ e.pc # "scan",
         e.pc = "index" => backdated' \/ index' = index \/ index' = files'
  PROVE  ReaderSound(e)'
<1>1. /\ files \in Shows /\ acked \in Shows /\ index \in Shows
      /\ e.begun \in Shows /\ e.sig \in Shows /\ e.body \in Shows
  BY DEF WorldInv, ReaderSound, ReaderShape
<1>2. AtLeast(acked, e.begun) => AtLeast(acked', e.begun)
  BY <1>1, Later
<1>3. \A x \in Shows : AtLeast(files, x) => AtLeast(files', x)
  BY <1>1, Later
<1>4. ASSUME e.pc = "scan", NEW p \in L!Parts, Scanned(e, p)
      PROVE  Scanned(e, p)'
  <2>1. files[p] \in Int /\ files'[p] \in Int /\ e.sig[p] \in Int /\ files[p] <= files'[p]
    BY <1>1 DEF Shows, AtLeast
  <2>2. e.sig[p] <= files[p]
    BY <1>4 DEF Scanned
  <2>3. e.sig[p] <= files'[p]
    BY <2>1, <2>2
  <2> QED BY <1>4, <2>3 DEF Scanned
<1>5. e.pc = "files2" => e.body["active"] <= files'["active"]
  <2>1. "active" \in L!Parts
    BY DEF L!Parts
  <2>2. files["active"] \in Int /\ files'["active"] \in Int /\ e.body["active"] \in Int
        /\ files["active"] <= files'["active"]
    BY <1>1, <2>1 DEF Shows, AtLeast
  <2>3. e.pc = "files2" => e.body["active"] <= files["active"]
    BY DEF ReaderSound
  <2> QED BY <2>2, <2>3
<1>6. e.pc = "index" /\ ~backdated' => AtLeast(index', e.sig)
  BY <1>1, <1>3 DEF ReaderSound
<1>7. e.pc = "scan" => \A p \in L!Parts : e.sig[p] = -1 \/ Scanned(e, p)'
  BY <1>4 DEF ReaderSound
<1> QED BY <1>1, <1>2, <1>3, <1>5, <1>6, <1>7 DEF ReaderSound, ReaderShape

LEMMA WroteStep ==
  ASSUME WorldInv, NEW p \in L!Parts, L!Wrote(p)
  PROVE  files' \in Shows /\ AtLeast(files', files)
<1>1. files' = [files EXCEPT ![p] = L!Changes + 1]
  BY DEF L!Wrote
<1>2. /\ files["active"] \in Int /\ files["other"] \in Int
      /\ files["active"] >= 0 /\ files["other"] >= 0
      /\ L!Changes = files["active"] + files["other"] /\ L!Parts = {"active", "other"}
  <2>1. /\ acked["active"] \in Int /\ acked["other"] \in Int
        /\ files["active"] \in Int /\ files["other"] \in Int
        /\ files["active"] >= acked["active"] /\ files["other"] >= acked["other"]
        /\ acked["active"] >= 0 /\ acked["other"] >= 0
    BY DEF WorldInv, Shows, AtLeast, Zero, L!Parts
  <2> QED BY <2>1 DEF L!Changes, L!Parts
<1>3. PICK n \in Int : n = L!Changes + 1 /\ n >= files["active"] /\ n >= files["other"]
  BY <1>2
<1>4. files' = [files EXCEPT ![p] = n]
  BY <1>1, <1>3
<1> QED BY <1>2, <1>3, <1>4 DEF WorldInv, Shows, AtLeast

(* A step that leaves readers, bodies and the lock alone.                  *)
LEMMA AroundStep ==
  ASSUME ListsInv, WorldInv', TablesInv', UNCHANGED <<reader, bodies, indexed, sigLock>>,
         AtLeast(files', files), AtLeast(acked', acked), backdated => backdated',
         acked' = acked \/ sigLock = Free,
         (\E r \in Readers : reader[r].pc = "index") =>
            backdated' \/ index' = index \/ index' = files'
  PROVE  ListsInv'
<1>1. ASSUME NEW r \in Readers
      PROVE  ReaderSound(reader[r])'
  <2>1. PICK e : e = reader[r]
    OBVIOUS
  <2>2. ReaderSound(e) /\ (acked' = acked \/ ~indexed \/ e.pc # "scan")
        /\ (e.pc = "index" => backdated' \/ index' = index \/ index' = files')
    BY <2>1, ListsAssumption DEF ListsInv
  <2>3. ReaderSound(e)'
    BY <2>2, NoticesNothing DEF ListsInv, WorldInv
  <2>4. reader'[r] = e
    BY <2>1
  <2> QED BY <2>3, <2>4 DEF ReaderSound, ReaderShape, Scanned
<1>2. \A e \in bodies : BodyAsSigned(e)'
  BY DEF ListsInv, BodyAsSigned
<1>3. \A e \in bodies' : BodyAsSigned(e)'
  BY <1>2
<1> QED BY <1>1, <1>3 DEF ListsInv

LEMMA MutationStep ==
  ASSUME ListsInv, L!BeginMutation \/ L!WriteAndApply \/ L!LeaveMutation \/ L!OtherWrites
  PROVE  ListsInv'
<1>w. /\ WorldInv /\ TablesInv
      /\ files \in Shows /\ acked \in Shows /\ index \in Shows /\ rebuild \in Shows
      /\ AtLeast(files, acked) /\ AtLeast(files, index) /\ AtLeast(files, rebuild)
  BY DEF ListsInv, WorldInv
<1>r. \A x \in Shows : AtLeast(x, x)
  BY DEF AtLeast, Shows
<1>n. L!NoSig.sig \in Shows
  BY DEF L!NoSig, L!NoBody, Shows
<1>t. UNCHANGED <<bodies, latest>> => TablesInv'
  BY <1>w, AgesStep
<1>1. CASE L!BeginMutation
  <2>1. /\ sigCache' = L!NoSig /\ mutation'.part \in L!Parts
        /\ UNCHANGED <<files, acked, indexed, index, rebuild, sigLock, bodies, latest, reader,
                       backdated>>
    BY <1>1 DEF L!BeginMutation, L!cacheVars
  <2>2. WorldInv'
    BY <1>w, <1>n, <2>1 DEF WorldInv
  <2> QED BY <1>w, <1>r, <1>t, <2>1, <2>2, AroundStep
<1>2. CASE L!WriteAndApply
  <2>1. CASE /\ L!Wrote(mutation.part) /\ mutation' = [mutation EXCEPT !.pc = "apply"]
             /\ UNCHANGED <<acked, indexed, index, rebuild, sigCache, sigLock, bodies, latest,
                            reader, backdated>>
    <3>1. files' \in Shows /\ AtLeast(files', files)
      BY <1>w, <2>1, WroteStep DEF WorldInv
    <3>2. \A x \in Shows : AtLeast(files, x) => AtLeast(files', x)
      BY <1>w, <3>1, Later
    <3>3. mutation'.part \in L!Parts
      BY <1>w, <2>1 DEF WorldInv
    <3>4. WorldInv'
      BY <1>w, <2>1, <3>1, <3>2, <3>3 DEF WorldInv
    <3> QED BY <1>w, <1>r, <1>t, <2>1, <3>1, <3>4, AroundStep
  <2>2. CASE /\ index' = IF indexed /\ mutation.apply THEN files ELSE index
             /\ mutation' = [mutation EXCEPT !.pc = "leave"]
             /\ UNCHANGED <<files, acked, indexed, rebuild, sigCache, sigLock, bodies, latest,
                            reader, backdated>>
    <3>1. index' = files \/ index' = index
      BY <2>2
    <3>2. mutation'.part \in L!Parts
      BY <1>w, <2>2 DEF WorldInv
    <3>3. WorldInv'
      BY <1>w, <1>r, <2>2, <3>1, <3>2 DEF WorldInv
    <3> QED BY <1>w, <1>r, <1>t, <2>2, <3>1, <3>3, AroundStep
  <2> QED BY <1>2, <2>1, <2>2 DEF L!WriteAndApply, L!signVars, L!cacheVars
<1>3. CASE L!LeaveMutation
  <2>1. /\ sigLock = Free /\ sigCache' = L!NoSig /\ mutation' = L!NoMutation
        /\ acked' = [acked EXCEPT ![mutation.part] = files[mutation.part]]
        /\ UNCHANGED <<files, indexed, index, rebuild, sigLock, bodies, latest, reader,
                       backdated>>
    BY <1>3 DEF L!LeaveMutation, L!Leaves, L!cacheVars
  <2>2. acked' \in Shows /\ AtLeast(acked', acked) /\ AtLeast(files, acked')
    BY <1>w, <1>r, <2>1 DEF WorldInv, Shows, AtLeast
  <2>3. AtLeast(acked', Zero)
    BY <1>w, <2>2, Later DEF WorldInv, Zero, Shows
  <2>4. L!NoMutation.part \in L!Parts
    BY DEF L!NoMutation, L!Parts
  <2>5. WorldInv'
    BY <1>w, <1>n, <2>1, <2>2, <2>3, <2>4 DEF WorldInv
  <2> QED BY <1>w, <1>r, <1>t, <2>1, <2>2, <2>5, AroundStep
<1>4. CASE L!OtherWrites
  <2>1. /\ \E p \in L!Parts : L!Wrote(p)
        /\ index' = index \/ index' = files'
        /\ UNCHANGED <<acked, indexed, rebuild, sigCache, sigLock, mutation, bodies, latest,
                       reader, backdated>>
    BY <1>4 DEF L!OtherWrites, L!signVars, L!cacheVars
  <2>2. files' \in Shows /\ AtLeast(files', files)
    BY <1>w, <2>1, WroteStep
  <2>3. \A x \in Shows : AtLeast(files, x) => AtLeast(files', x)
    BY <1>w, <2>2, Later
  <2>4. WorldInv'
    BY <1>w, <1>r, <2>1, <2>2, <2>3 DEF WorldInv
  <2> QED BY <1>w, <1>r, <1>t, <2>1, <2>2, <2>4, AroundStep
<1> QED BY <1>1, <1>2, <1>3, <1>4

LEMMA RebuildStep ==
  ASSUME ListsInv, L!RebuildReads \/ L!RebuildCommits \/ L!TimePasses
  PROVE  ListsInv'
<1>w. /\ WorldInv /\ TablesInv
      /\ files \in Shows /\ acked \in Shows /\ index \in Shows /\ rebuild \in Shows
      /\ AtLeast(files, acked) /\ AtLeast(files, index) /\ AtLeast(files, rebuild)
  BY DEF ListsInv, WorldInv
<1>r. \A x \in Shows : AtLeast(x, x)
  BY DEF AtLeast, Shows
<1>n. L!NoSig.sig \in Shows /\ L!NoBody \in Shows
  BY DEF L!NoSig, L!NoBody, Shows
<1>b. AtLeast(files, L!NoBody)
  <2> SUFFICES ASSUME NEW p \in L!Parts PROVE files[p] >= L!NoBody[p]
    BY DEF AtLeast
  <2>1. files[p] \in Int /\ acked[p] \in Int /\ files[p] >= acked[p] /\ acked[p] >= 0
    BY <1>w DEF WorldInv, AtLeast, Shows, Zero
  <2>2. L!NoBody[p] = -1
    BY DEF L!NoBody
  <2> QED BY <2>1, <2>2
<1>t. UNCHANGED <<bodies, latest>> => TablesInv'
  BY <1>w, AgesStep
<1>1. CASE L!RebuildReads
  <2>1. /\ rebuild' = files
        /\ UNCHANGED <<files, acked, indexed, index, sigCache, sigLock, mutation, bodies, latest,
                       reader, backdated>>
    BY <1>1 DEF L!RebuildReads, L!signVars, L!cacheVars
  <2>2. WorldInv'
    BY <1>w, <1>r, <2>1 DEF WorldInv
  <2> QED BY <1>w, <1>r, <1>t, <2>1, <2>2, AroundStep
<1>2. CASE L!RebuildCommits
  <2>1. /\ index' = rebuild /\ rebuild' = L!NoBody
        /\ backdated' = (backdated \/ \E r \in Readers : reader[r].pc = "index"
                                                         /\ index # rebuild)
        /\ UNCHANGED <<files, acked, indexed, sigCache, sigLock, mutation, bodies, latest,
                       reader>>
    BY <1>2 DEF L!RebuildCommits, L!signVars, L!cacheVars
  <2>2. backdated' \in BOOLEAN
    BY <2>1
  <2>3. WorldInv'
    BY <1>w, <1>n, <1>b, <2>1, <2>2 DEF WorldInv
  <2>4. (\E r \in Readers : reader[r].pc = "index") => backdated' \/ index' = index
    BY <2>1
  <2>5. backdated => backdated'
    BY <2>1
  <2> QED BY <1>w, <1>r, <1>t, <2>1, <2>3, <2>4, <2>5, AroundStep
<1>3. CASE L!TimePasses
  <2>1. /\ sigCache' = L!NoSig \/ sigCache' = sigCache
        /\ UNCHANGED <<files, acked, indexed, index, rebuild, sigLock, mutation, bodies, reader,
                       backdated>>
    BY <1>3 DEF L!TimePasses
  <2>2. TablesInv'
    <3>1. \/ latest' = latest
          \/ latest' = [q \in Queries |-> IF latest[q].age = "fresh"
                                          THEN [latest[q] EXCEPT !.age = "recent"] ELSE latest[q]]
          \/ latest' = [q \in Queries |-> IF latest[q].age \in {"fresh", "recent"}
                                          THEN [latest[q] EXCEPT !.age = "old"] ELSE latest[q]]
      BY <1>3 DEF L!TimePasses
    <3> QED BY <1>w, <2>1, <3>1, AgesStep
  <2>3. WorldInv'
    BY <1>w, <1>n, <2>1 DEF WorldInv
  <2> QED BY <1>w, <1>r, <2>1, <2>2, <2>3, AroundStep
<1> QED BY <1>1, <1>2, <1>3

(* A request goes on; files, index and mutation stay.                      *)
LEMMA ReaderStep ==
  ASSUME ListsInv, TablesInv', NEW r \in Readers, NEW e, reader' = [reader EXCEPT ![r] = e],
         ReaderSound(e), UNCHANGED <<files, acked, indexed, index, rebuild, mutation, backdated>>,
         sigCache' = sigCache \/ /\ sigCache'.sig \in Shows /\ AtLeast(sigCache'.sig, acked)
                                 /\ AtLeast(files, sigCache'.sig),
         indexed /\ e.pc = "scan" => sigLock' = r,
         sigLock' = sigLock \/ sigLock \in {r, Free},
         \A b \in bodies' : b \in bodies \/ BodyAsSigned(b)
  PROVE  ListsInv'
<1>1. WorldInv'
  BY DEF ListsInv, WorldInv
<1>2. DOMAIN reader' = Readers /\ \A s \in Readers : reader'[s] = IF s = r THEN e ELSE reader[s]
  BY DEF ListsInv
<1>3. \A x : ReaderSound(x) => ReaderSound(x)'
  BY DEF ReaderSound, ReaderShape, Scanned
<1>4. \A s \in Readers : ReaderSound(reader'[s])
  BY <1>2 DEF ListsInv
<1>5. \A s \in Readers : indexed' /\ reader'[s].pc = "scan" => sigLock' = s
  BY <1>2, ListsAssumption DEF ListsInv
<1>6. \A b \in bodies' : BodyAsSigned(b)
  BY DEF ListsInv
<1>7. \A b : BodyAsSigned(b) => BodyAsSigned(b)'
  BY DEF BodyAsSigned
<1> QED BY <1>1, <1>2, <1>3, <1>4, <1>5, <1>6, <1>7 DEF ListsInv

LEMMA LatestShows ==
  ASSUME ListsInv, NEW q \in Queries
  PROVE  latest[q].body \in Shows
<1>1. CASE latest[q] = L!NoLatest
  BY <1>1 DEF L!NoLatest, L!NoBody, Shows
<1>2. CASE latest[q] # L!NoLatest
  <2>1. PICK e \in bodies : e.body = latest[q].body
    BY <1>2 DEF ListsInv, TablesInv, Consistent
  <2>2. e.body \in Shows
    BY DEF ListsInv, BodyAsSigned
  <2> QED BY <2>1, <2>2
<1> QED BY <1>1, <1>2

(* The step of a request that leaves the caches alone.                     *)
LEMMA ReaderGoes ==
  ASSUME ListsInv, NEW r \in Readers, NEW e, reader' = [reader EXCEPT ![r] = e],
         ReaderSound(e), e.pc # "scan",
         UNCHANGED <<files, acked, indexed, index, rebuild, mutation, backdated,
                     sigCache, sigLock, bodies, latest>>
  PROVE  ListsInv'
<1>1. TablesInv'
  BY AgesStep DEF ListsInv
<1> QED BY <1>1, ReaderStep

LEMMA ArriveStep ==
  ASSUME ListsInv, NEW r \in Readers, L!Arrive(r) \/ L!Done(r)
  PROVE  ListsInv'
<1>n. L!NoBody \in Shows
  BY DEF L!NoBody, Shows
<1>1. CASE L!Done(r)
  <2>1. ReaderSound(L!Idle) /\ L!Idle.pc = "idle"
    BY <1>n DEF L!Idle, ReaderSound, ReaderShape
  <2> QED BY <1>1, <2>1, ReaderGoes
            DEF L!Done, L!worldVars, L!signVars, L!cacheVars
<1>2. CASE L!Arrive(r)
  <2> DEFINE begun(q) == [L!Idle EXCEPT !.query = q, !.begun = acked]
             e(q, browser) ==
               IF browser /\ latest[q].age = "fresh"
               THEN [begun(q) EXCEPT !.pc = "answered", !.how = "recent", !.body = latest[q].body]
               ELSE [begun(q) EXCEPT !.pc = "sign"]
  <2>1. PICK q \in Queries, browser \in BOOLEAN :
          /\ reader' = [reader EXCEPT ![r] = e(q, browser)]
          /\ UNCHANGED <<files, acked, indexed, index, rebuild, mutation, backdated,
                         sigCache, sigLock, bodies, latest>>
    BY <1>2 DEF L!Arrive, L!worldVars, L!signVars, L!cacheVars
  <2>2. /\ begun(q).query = q /\ begun(q).begun = acked /\ begun(q).sig = L!NoBody
        /\ begun(q).body = L!NoBody
        /\ DOMAIN begun(q) = {"pc", "query", "begun", "probe", "sig", "body", "how"}
    BY DEF L!Idle
  <2>3. latest[q].body \in Shows
    BY LatestShows
  <2>4. acked \in Shows /\ AtLeast(acked, acked)
    BY DEF ListsInv, WorldInv, AtLeast, Shows
  <2> HIDE DEF begun
  <2>5. ReaderSound(e(q, browser)) /\ e(q, browser).pc # "scan"
    <3>1. CASE browser /\ latest[q].age = "fresh"
      <4>1. e(q, browser) = [begun(q) EXCEPT !.pc = "answered", !.how = "recent",
                                             !.body = latest[q].body]
        BY <3>1
      <4> HIDE DEF e
      <4>2. /\ ReaderShape(e(q, browser)) /\ e(q, browser).pc = "answered"
            /\ e(q, browser).how = "recent" /\ e(q, browser).begun = acked
            /\ e(q, browser).query = q
        BY <1>n, <2>2, <2>3, <2>4, <4>1 DEF ReaderShape
      <4> QED BY <2>4, <4>2 DEF ReaderSound
    <3>2. CASE ~(browser /\ latest[q].age = "fresh")
      <4>1. e(q, browser) = [begun(q) EXCEPT !.pc = "sign"]
        BY <3>2
      <4> HIDE DEF e
      <4>2. /\ ReaderShape(e(q, browser)) /\ e(q, browser).pc = "sign"
            /\ e(q, browser).begun = acked /\ e(q, browser).query = q
        BY <1>n, <2>2, <2>4, <4>1 DEF ReaderShape
      <4> QED BY <2>4, <4>2 DEF ReaderSound
    <3> QED BY <3>1, <3>2
  <2> HIDE DEF e
  <2> QED BY <2>1, <2>5, ReaderGoes
<1> QED BY <1>1, <1>2

(* The signature is taken: from the cache, which is dropped whenever       *)
(* something is acknowledged, or one file after the other.                 *)
LEMMA SignStep ==
  ASSUME ListsInv, NEW r \in Readers, L!Sign(r)
  PROVE  ListsInv'
<1>s. PICK s : s = reader[r]
  OBVIOUS
<1>w. /\ files \in Shows /\ acked \in Shows /\ AtLeast(files, acked) /\ AtLeast(acked, Zero)
      /\ ReaderSound(s) /\ ReaderShape(s) /\ s.sig \in Shows /\ s.begun \in Shows
      /\ s.pc # "idle" => s.query \in Queries /\ AtLeast(acked, s.begun)
  BY <1>s DEF ListsInv, WorldInv, ReaderSound, ReaderShape
<1>1. PICK p \in L!Parts : LET first == [L!NoBody EXCEPT ![p] = files[p]] IN
  \/ /\ reader[r].pc = "sign"
     /\ reader' = [reader EXCEPT ![r].pc = IF indexed THEN "lookup" ELSE "scan",
                                 ![r].probe = files["active"],
                                 ![r].sig = IF indexed THEN L!NoBody ELSE first]
     /\ UNCHANGED <<L!worldVars, L!signVars, L!cacheVars>>
  \/ /\ reader[r].pc = "lookup" /\ sigLock = Free
     /\ IF sigCache # L!NoSig /\ sigCache.probe = reader[r].probe
        THEN /\ reader' = [reader EXCEPT ![r].pc = "find", ![r].sig = sigCache.sig,
                                      ![r].probe = -1]
             /\ UNCHANGED sigLock
        ELSE /\ reader' = [reader EXCEPT ![r].pc = "scan", ![r].sig = first]
             /\ sigLock' = r
     /\ UNCHANGED <<L!worldVars, sigCache, L!cacheVars>>
  \/ /\ reader[r].pc = "scan" /\ reader[r].sig[p] = -1
     /\ reader' = [reader EXCEPT ![r].pc = "find", ![r].sig[p] = files[p],
                                 ![r].probe = -1]
     /\ sigCache' = IF indexed THEN [sig |-> reader'[r].sig, probe |-> reader[r].probe]
                    ELSE sigCache
     /\ sigLock' = IF sigLock = r THEN Free ELSE sigLock
     /\ UNCHANGED <<L!worldVars, L!cacheVars>>
  BY DEF L!Sign
<1> DEFINE first == [L!NoBody EXCEPT ![p] = files[p]]
<1>n. /\ L!NoBody \in Shows /\ first \in Shows /\ first[p] = files[p]
      /\ \A k \in L!Parts : k # p => first[k] = -1
  BY <1>w DEF L!NoBody, Shows
<1> HIDE DEF first
<1>k. \A k \in L!Parts : /\ files[k] \in Int /\ acked[k] \in Int /\ files[k] >= acked[k]
                         /\ acked[k] >= 0
  BY <1>w DEF AtLeast, Shows, Zero
<1>f. s.pc # "idle" => s.begun[p] <= files[p] /\ acked[p] <= files[p] /\ files[p] # -1
  <2>1. s.pc # "idle" => acked[p] >= s.begun[p]
    BY <1>w DEF AtLeast
  <2>2. s.begun[p] \in Int
    BY <1>w DEF Shows
  <2> QED BY <1>k, <2>1, <2>2
<1>2. CASE /\ s.pc = "sign"
           /\ reader' = [reader EXCEPT ![r].pc = IF indexed THEN "lookup" ELSE "scan",
                                       ![r].probe = files["active"],
                                       ![r].sig = IF indexed THEN L!NoBody ELSE first]
           /\ UNCHANGED <<files, acked, indexed, index, rebuild, mutation, backdated,
                          sigCache, sigLock, bodies, latest>>
  <2>1. PICK stage, sig : /\ stage = IF indexed THEN "lookup" ELSE "scan"
                       /\ sig = IF indexed THEN L!NoBody ELSE first
    OBVIOUS
  <2> DEFINE e == [s EXCEPT !.pc = stage, !.probe = files["active"], !.sig = sig]
  <2>2. reader' = [reader EXCEPT ![r] = e]
    BY <1>s, <1>2, <2>1
  <2>3. /\ DOMAIN e = DOMAIN s /\ e.pc = stage /\ e.sig = sig /\ e.begun = s.begun
        /\ e.body = s.body /\ e.query = s.query
    BY <1>w DEF ReaderShape
  <2> HIDE DEF e
  <2>4. ReaderShape(e)
    BY <1>w, <1>n, <2>1, <2>3 DEF ReaderShape
  <2>5. CASE indexed
    <3>1. ReaderSound(e) /\ e.pc = "lookup"
      BY <1>w, <1>2, <2>1, <2>3, <2>4, <2>5 DEF ReaderSound
    <3> QED BY <1>2, <2>2, <3>1, ReaderGoes
  <2>6. CASE ~indexed
    <3>1. e.pc = "scan" /\ e.sig = first
      BY <2>1, <2>3, <2>6
    <3>2. Scanned(e, p)
      BY <1>n, <1>f, <1>2, <1>k, <2>3, <2>6, <3>1 DEF Scanned
    <3>3. ReaderSound(e)
      BY <1>w, <1>n, <1>f, <1>2, <2>3, <2>4, <3>1, <3>2 DEF ReaderSound
    <3>4. TablesInv'
      BY <1>2, AgesStep DEF ListsInv
    <3> QED BY <1>2, <2>2, <2>6, <3>3, <3>4, ReaderStep
  <2> QED BY <2>5, <2>6
<1>3. CASE /\ s.pc = "lookup" /\ sigLock = Free
           /\ sigCache # L!NoSig
           /\ reader' = [reader EXCEPT ![r].pc = "find", ![r].sig = sigCache.sig, ![r].probe = -1]
           /\ UNCHANGED <<files, acked, indexed, index, rebuild, mutation, backdated,
                          sigCache, sigLock, bodies, latest>>
  <2> DEFINE e == [s EXCEPT !.pc = "find", !.sig = sigCache.sig, !.probe = -1]
  <2>1. reader' = [reader EXCEPT ![r] = e]
    BY <1>s, <1>3
  <2>2. /\ DOMAIN e = DOMAIN s /\ e.pc = "find" /\ e.sig = sigCache.sig /\ e.begun = s.begun
        /\ e.body = s.body /\ e.query = s.query
    BY <1>w DEF ReaderShape
  <2> HIDE DEF e
  <2>3. sigCache.sig \in Shows /\ AtLeast(sigCache.sig, acked) /\ AtLeast(files, sigCache.sig)
    BY <1>3 DEF ListsInv, WorldInv
  <2>4. ReaderShape(e) /\ AtLeast(e.sig, e.begun)
    BY <1>w, <1>3, <2>2, <2>3, Later DEF ReaderShape
  <2>5. ReaderSound(e)
    BY <1>w, <1>3, <2>2, <2>3, <2>4 DEF ReaderSound
  <2> QED BY <1>3, <2>1, <2>2, <2>5, ReaderGoes
<1>4. CASE /\ s.pc = "lookup" /\ sigLock = Free
           /\ reader' = [reader EXCEPT ![r].pc = "scan", ![r].sig = first]
           /\ sigLock' = r
           /\ UNCHANGED <<files, acked, indexed, index, rebuild, mutation, backdated,
                          sigCache, bodies, latest>>
  <2> DEFINE e == [s EXCEPT !.pc = "scan", !.sig = first]
  <2>1. reader' = [reader EXCEPT ![r] = e]
    BY <1>s, <1>4
  <2>2. /\ DOMAIN e = DOMAIN s /\ e.pc = "scan" /\ e.sig = first /\ e.begun = s.begun
        /\ e.body = s.body /\ e.query = s.query
    BY <1>w DEF ReaderShape
  <2> HIDE DEF e
  <2>3. ReaderShape(e) /\ Scanned(e, p)
    BY <1>w, <1>n, <1>f, <1>4, <1>k, <2>2 DEF ReaderShape, Scanned
  <2>4. ReaderSound(e)
    BY <1>w, <1>n, <1>f, <1>4, <2>2, <2>3 DEF ReaderSound
  <2>5. TablesInv'
    BY <1>4, AgesStep DEF ListsInv
  <2> QED BY <1>4, <2>1, <2>4, <2>5, ReaderStep
<1>5. CASE /\ s.pc = "scan" /\ s.sig[p] = -1
           /\ reader' = [reader EXCEPT ![r].pc = "find", ![r].sig[p] = files[p], ![r].probe = -1]
           /\ sigCache' = IF indexed THEN [sig |-> reader'[r].sig, probe |-> reader[r].probe]
                          ELSE sigCache
           /\ sigLock' = IF sigLock = r THEN Free ELSE sigLock
           /\ UNCHANGED <<files, acked, indexed, index, rebuild, mutation, backdated,
                          bodies, latest>>
  <2>1. PICK sig : sig = [s.sig EXCEPT ![p] = files[p]]
    OBVIOUS
  <2> DEFINE e == [s EXCEPT !.pc = "find", !.sig = sig, !.probe = -1]
  <2>2. reader' = [reader EXCEPT ![r] = e]
    BY <1>s, <1>5, <2>1
  <2>3. /\ DOMAIN e = DOMAIN s /\ e.pc = "find" /\ e.sig = sig /\ e.begun = s.begun
        /\ e.body = s.body /\ e.query = s.query
    BY <1>w DEF ReaderShape
  <2> HIDE DEF e
  <2>4. sig \in Shows /\ \A k \in L!Parts : sig[k] = IF k = p THEN files[k] ELSE s.sig[k]
    BY <1>w, <2>1 DEF Shows
  <2>5. ASSUME NEW k \in L!Parts
        PROVE  s.begun[k] <= sig[k] /\ sig[k] <= files[k] /\ (indexed => acked[k] <= sig[k])
    <3>1. CASE k = p
      BY <1>f, <1>k, <1>5, <2>4, <3>1
    <3>2. CASE k # p
      <4>1. s.sig[k] # -1
        BY <1>w, <1>5, <3>2 DEF ReaderSound, L!Parts
      <4>2. Scanned(s, k)
        BY <1>w, <1>5, <4>1 DEF ReaderSound
      <4> QED BY <2>4, <3>2, <4>2 DEF Scanned
    <3> QED BY <3>1, <3>2
  <2>6. AtLeast(sig, s.begun) /\ AtLeast(files, sig) /\ (indexed => AtLeast(sig, acked))
    BY <1>w, <1>k, <2>4, <2>5 DEF AtLeast, Shows
  <2>7. ReaderSound(e)
    BY <1>w, <1>5, <2>3, <2>4, <2>6 DEF ReaderSound, ReaderShape
  <2>8. sigCache' = sigCache \/ /\ sigCache'.sig \in Shows /\ AtLeast(sigCache'.sig, acked)
                                /\ AtLeast(files, sigCache'.sig)
    <3>1. reader'[r] = e
      BY <2>2 DEF ListsInv
    <3>2. CASE indexed
      <4>1. sigCache'.sig = sig
        BY <1>5, <2>3, <3>1, <3>2
      <4> QED BY <2>4, <2>6, <3>2, <4>1
    <3>3. CASE ~indexed
      BY <1>5, <3>3
    <3> QED BY <3>2, <3>3
  <2>9. TablesInv'
    BY <1>5, AgesStep DEF ListsInv
  <2>10. sigLock' = sigLock \/ sigLock \in {r, Free}
    BY <1>5
  <2> QED BY <1>5, <2>2, <2>3, <2>7, <2>8, <2>9, <2>10, ReaderStep
<1> QED BY <1>s, <1>1, <1>2, <1>3, <1>4, <1>5
       DEF first, L!worldVars, L!signVars, L!cacheVars

(* An answer is sound if it need not show anything, or shows what its      *)
(* request may expect.                                                     *)
LEMMA AnswerSound ==
  ASSUME ListsInv, NEW r \in Readers, reader[r].pc # "idle", NEW how, NEW body \in Shows,
         L!Answer(r, how, body),
         how \in {"cached", "built"} /\ ~backdated => AtLeast(body, reader[r].begun)
  PROVE  \E e : ReaderSound(e) /\ e.pc = "answered" /\ reader' = [reader EXCEPT ![r] = e]
<1>s. PICK s : s = reader[r]
  OBVIOUS
<1>n. L!NoBody \in Shows
  BY DEF L!NoBody, Shows
<1> DEFINE e == [s EXCEPT !.pc = "answered", !.how = how, !.body = body, !.sig = L!NoBody]
<1>1. reader' = [reader EXCEPT ![r] = e]
  BY <1>s DEF L!Answer
<1>2. ReaderSound(s) /\ s.pc # "idle"
  BY <1>s DEF ListsInv
<1>3. /\ DOMAIN e = DOMAIN s /\ e.pc = "answered" /\ e.how = how /\ e.body = body
      /\ e.sig = L!NoBody /\ e.begun = s.begun /\ e.query = s.query
  BY <1>2 DEF ReaderSound, ReaderShape
<1> HIDE DEF e
<1>4. ReaderSound(e)
  BY <1>s, <1>n, <1>2, <1>3 DEF ReaderSound, ReaderShape
<1> QED BY <1>1, <1>3, <1>4

LEMMA FindStep ==
  ASSUME ListsInv, NEW r \in Readers, L!Find(r) \/ L!ReadIndex(r) \/ L!ReadFiles(r)
  PROVE  ListsInv'
<1>s. PICK s : s = reader[r]
  OBVIOUS
<1>u. UNCHANGED <<files, acked, indexed, index, rebuild, mutation, backdated,
                  sigCache, sigLock, bodies, latest>>
  BY DEF L!Find, L!ReadIndex, L!ReadFiles, L!worldVars, L!signVars, L!cacheVars
<1>p. s.pc \in {"find", "index", "files", "files2"}
  BY <1>s DEF L!Find, L!ReadIndex, L!ReadFiles
<1>w. /\ ReaderSound(s) /\ ReaderShape(s) /\ s.query \in Queries
      /\ files \in Shows /\ acked \in Shows /\ index \in Shows /\ AtLeast(files, index)
      /\ s.begun \in Shows /\ s.sig \in Shows /\ s.body \in Shows
      /\ AtLeast(acked, s.begun) /\ AtLeast(s.sig, s.begun) /\ AtLeast(files, s.sig)
  BY <1>s, <1>p DEF ListsInv, WorldInv, ReaderSound, ReaderShape
<1>n. L!NoBody \in Shows
  BY DEF L!NoBody, Shows
<1>a. ASSUME NEW how, NEW body \in Shows, L!Answer(r, how, body),
             how \in {"cached", "built"} /\ ~backdated => AtLeast(body, s.begun)
      PROVE  ListsInv'
  <2>1. \E e : ReaderSound(e) /\ e.pc = "answered" /\ reader' = [reader EXCEPT ![r] = e]
    BY <1>s, <1>p, <1>a, AnswerSound
  <2> QED BY <1>u, <2>1, ReaderGoes
<1>g. ASSUME NEW stage \in {"index", "files"}, L!Goes(r, stage), s.pc = "find",
             stage = "index" => indexed /\ index = s.sig
      PROVE  ListsInv'
  <2> DEFINE e == [s EXCEPT !.pc = stage]
  <2>1. reader' = [reader EXCEPT ![r] = e]
    BY <1>s, <1>g DEF L!Goes
  <2>2. /\ DOMAIN e = DOMAIN s /\ e.pc = stage /\ e.how = s.how /\ e.body = s.body
        /\ e.sig = s.sig /\ e.begun = s.begun /\ e.query = s.query
    BY <1>w DEF ReaderShape
  <2> HIDE DEF e
  <2>3. ReaderShape(e) /\ AtLeast(s.sig, s.sig)
    BY <1>w, <2>2 DEF ReaderShape, AtLeast, Shows
  <2>4. ReaderSound(e)
    BY <1>w, <1>g, <2>2, <2>3 DEF ReaderSound
  <2> QED BY <1>u, <1>g, <2>1, <2>2, <2>4, ReaderGoes
<1>k. ASSUME NEW stage \in {"keep", "files2"}, NEW body \in Shows, AtLeast(files, body),
             reader' = [reader EXCEPT ![r].pc = stage, ![r].body = body],
             stage = "files2" => s.sig["active"] <= body["active"] /\ body["active"] <= files["active"],
             stage = "keep" /\ ~backdated => AtLeast(body, s.sig)
      PROVE  ListsInv'
  <2> DEFINE e == [s EXCEPT !.pc = stage, !.body = body]
  <2>1. reader' = [reader EXCEPT ![r] = e]
    BY <1>s, <1>k
  <2>2. /\ DOMAIN e = DOMAIN s /\ e.pc = stage /\ e.how = s.how /\ e.body = body
        /\ e.sig = s.sig /\ e.begun = s.begun /\ e.query = s.query
    BY <1>w DEF ReaderShape
  <2> HIDE DEF e
  <2>3. ReaderSound(e)
    BY <1>w, <1>k, <2>2 DEF ReaderSound, ReaderShape
  <2> QED BY <1>u, <1>k, <2>1, <2>2, <2>3, ReaderGoes
<1>1. CASE L!Find(r)
  <2> DEFINE hit == {b \in bodies : b.query = s.query /\ b.sig = s.sig}
  <2>1. CASE \E b \in hit : L!Answer(r, "cached", b.body)
    <3>1. PICK b \in bodies : b.sig = s.sig /\ L!Answer(r, "cached", b.body)
      BY <2>1
    <3>2. b.body \in Shows /\ (~backdated => AtLeast(b.body, s.sig))
      <4>1. BodyAsSigned(b)
        BY DEF ListsInv
      <4> QED BY <1>w, <3>1, <4>1 DEF BodyAsSigned, AtLeast, Shows
    <3>3. ~backdated => AtLeast(b.body, s.begun)
      BY <1>w, <3>2, Later
    <3> QED BY <1>a, <3>1, <3>2, <3>3
  <2>2. CASE L!Goes(r, "files") \/ (indexed /\ index = s.sig /\ L!Goes(r, "index"))
    <3>1. s.pc = "find"
      BY <1>1, <1>s DEF L!Find
    <3> QED BY <1>g, <2>2, <3>1
  <2>3. CASE \/ L!Answer(r, "stale", latest[s.query].body)
             \/ L!Answer(r, "stale", index) \/ L!Answer(r, "refused", L!NoBody)
    <3>1. latest[s.query].body \in Shows
      BY <1>w, LatestShows
    <3> QED BY <1>a, <1>w, <1>n, <2>3, <3>1
  <2> QED BY <1>1, <1>s, <2>1, <2>2, <2>3 DEF L!Find
<1>2. CASE L!ReadIndex(r)
  <2>1. CASE reader' = [reader EXCEPT ![r].pc = "keep", ![r].body = index]
    <3>1. ~backdated => AtLeast(index, s.sig)
      BY <1>s, <1>w, <1>2 DEF L!ReadIndex, ReaderSound
    <3> QED BY <1>k, <1>w, <2>1, <3>1
  <2>2. CASE L!Answer(r, "refused", L!NoBody)
    BY <1>a, <1>n, <2>2
  <2> QED BY <1>2, <2>1, <2>2 DEF L!ReadIndex
<1>3. CASE L!ReadFiles(r)
  <2>f. \A p \in L!Parts : s.sig[p] \in Int /\ files[p] \in Int /\ s.sig[p] <= files[p]
                           /\ acked[p] \in Int /\ acked[p] >= 0 /\ acked[p] <= files[p]
    BY <1>w DEF AtLeast, Shows, ListsInv, WorldInv, Zero
  <2>1. CASE reader' = [reader EXCEPT ![r].pc = "files2", ![r].body = [files EXCEPT !["other"] = -1]]
    <3>1. PICK body : body = [files EXCEPT !["other"] = -1]
      OBVIOUS
    <3>2. /\ body \in Shows /\ body["active"] = files["active"] /\ body["other"] = -1
          /\ "active" \in L!Parts /\ "other" \in L!Parts
      BY <1>w, <3>1 DEF Shows, L!Parts
    <3>3. AtLeast(files, body)
      BY <1>w, <2>f, <3>2 DEF AtLeast, L!Parts
    <3>4. s.sig["active"] <= body["active"] /\ body["active"] <= files["active"]
      BY <2>f, <3>2
    <3> QED BY <1>k, <2>1, <3>1, <3>2, <3>3, <3>4
  <2>2. CASE /\ s.pc = "files2"
             /\ reader' = [reader EXCEPT ![r].pc = "keep", ![r].body["other"] = files["other"]]
    <3>1. PICK body : body = [s.body EXCEPT !["other"] = files["other"]]
      OBVIOUS
    <3>2. /\ body \in Shows /\ body["active"] = s.body["active"] /\ body["other"] = files["other"]
      BY <1>w, <3>1 DEF Shows, L!Parts
    <3>3. s.sig["active"] <= s.body["active"] /\ s.body["active"] <= files["active"]
      BY <1>w, <2>2 DEF ReaderSound
    <3>4. AtLeast(files, body) /\ AtLeast(body, s.sig)
      BY <2>f, <3>2, <3>3 DEF AtLeast, L!Parts
    <3>5. reader' = [reader EXCEPT ![r].pc = "keep", ![r].body = body]
      BY <1>s, <2>2, <3>1
    <3> QED BY <1>k, <3>2, <3>4, <3>5
  <2> QED BY <1>3, <1>s, <2>1, <2>2 DEF L!ReadFiles
<1> QED BY <1>1, <1>2, <1>3

(* What was built is kept; without an index only if no file has changed    *)
(* since the signature, so the body is what the signature says.            *)
LEMMA KeepStep ==
  ASSUME ListsInv, NEW r \in Readers, L!Keep(r)
  PROVE  ListsInv'
<1>s. PICK s : s = reader[r]
  OBVIOUS
<1>u. /\ UNCHANGED <<files, acked, indexed, index, rebuild, mutation, backdated,
                     sigCache, sigLock>>
      /\ s.pc = "keep" /\ L!Answer(r, "built", s.body)
  BY <1>s DEF L!Keep, L!worldVars, L!signVars
<1>w. /\ ReaderSound(s) /\ s.query \in Queries
      /\ s.begun \in Shows /\ s.sig \in Shows /\ s.body \in Shows /\ files \in Shows
      /\ AtLeast(s.sig, s.begun) /\ AtLeast(files, s.sig) /\ AtLeast(files, s.body)
      /\ ~backdated => AtLeast(s.body, s.sig)
  BY <1>s, <1>u DEF ListsInv, WorldInv, ReaderSound, ReaderShape
<1>1. ~backdated => AtLeast(s.body, s.begun)
  BY <1>w, Later
<1>2. PICK e : ReaderSound(e) /\ e.pc = "answered" /\ reader' = [reader EXCEPT ![r] = e]
  BY <1>s, <1>u, <1>w, <1>1, AnswerSound
<1>3. CASE (indexed \/ s.sig = files) /\ L!Caches(r)
  <2>1. /\ TablesInv'
        /\ \A b \in bodies' : b \in bodies
             \/ b = [query |-> s.query, sig |-> s.sig, body |-> s.body]
    BY <1>s, <1>w, <1>3, CachesStep DEF ListsInv
  <2>2. s.sig = files /\ ~backdated => s.body = s.sig
    <3> SUFFICES ASSUME s.sig = files, ~backdated PROVE s.body = s.sig
      OBVIOUS
    <3>1. \A p \in L!Parts : s.body[p] = s.sig[p]
      BY <1>w DEF AtLeast, Shows
    <3> QED BY <1>w, <3>1 DEF Shows
  <2>3. \A b : b = [query |-> s.query, sig |-> s.sig, body |-> s.body] => BodyAsSigned(b)
    BY <1>w, <1>3, <2>2 DEF BodyAsSigned
  <2>4. \A b \in bodies' : b \in bodies \/ BodyAsSigned(b)
    BY <2>1, <2>3
  <2> QED BY <1>u, <1>2, <2>1, <2>4, ReaderStep
<1>4. CASE UNCHANGED <<bodies, latest>>
  BY <1>u, <1>2, <1>4, ReaderGoes
<1> QED BY <1>s, <1>3, <1>4 DEF L!Keep, L!cacheVars

(* Whatever runs between the steps of a request -- mutations of this       *)
(* server, other programs, rebuilds, other requests --, its answer shows   *)
(* what this server had acknowledged when it came, a cached body what its  *)
(* signature says, and the tables keep within their bytes.                 *)
THEOREM ListsTruthfulCorrect == ProtocolsSpec => []ListsTruthful
<1>1. ProtocolsInit => ListsInv
  BY ListsInit DEF ProtocolsInit
<1>2. ListsInv /\ [ProtocolsNext]_protocolVars => ListsInv'
  <2> SUFFICES ASSUME ListsInv, [ProtocolsNext]_protocolVars PROVE ListsInv'
    OBVIOUS
  <2>1. CASE UNCHANGED listVars
    <3>1. TablesInv'
      BY <2>1, AgesStep DEF listVars, ListsInv
    <3>2. WorldInv'
      BY <2>1 DEF listVars, ListsInv, WorldInv
    <3>3. AtLeast(files', files) /\ AtLeast(acked', acked)
      BY <2>1 DEF listVars, ListsInv, WorldInv, AtLeast, Shows
    <3> QED BY <2>1, <3>1, <3>2, <3>3, AroundStep DEF listVars
  <2>2. CASE L!LNext
    BY <2>2, MutationStep, RebuildStep, ArriveStep, SignStep, FindStep, KeepStep DEF L!LNext
  <2>3. L!LNext \/ UNCHANGED listVars
    BY DEF ProtocolsNext, protocolVars
  <2> QED BY <2>1, <2>2, <2>3
<1>3. ListsInv => ListsTruthful
  <2> SUFFICES ASSUME ListsInv PROVE ListsTruthful
    OBVIOUS
  <2>1. L!ReadsItsWrites
    BY DEF ListsInv, ReaderSound, L!ReadsItsWrites, AtLeast
  <2>2. L!CachedAsSigned
    BY DEF ListsInv, BodyAsSigned, L!CachedAsSigned, AtLeast
  <2>3. L!CacheBounded
    BY DEF ListsInv, TablesInv, Consistent, L!CacheBounded
  <2> QED BY <2>1, <2>2, <2>3 DEF ListsTruthful
<1> QED BY <1>1, <1>2, <1>3, PTL DEF ProtocolsSpec

-----------------------------------------------------------------------------
(* Tickets and issues.                                                     *)

Live(n) == issues[n].content # X!Missing
Claims(i, n) == mapping[i] = n \/ run.noted[i] = n

SyncTyped ==
  /\ last \in Nat /\ edits \in Nat /\ MaxIssues \in Nat
  /\ local \in [X!Ids -> Int] /\ mapping \in [X!Ids -> Int]
  /\ DOMAIN issues = X!Numbers
  /\ \A n \in X!Numbers : /\ DOMAIN issues[n] = {"content", "marker"}
                          /\ issues[n].content \in Int /\ issues[n].content <= edits
  /\ DOMAIN run = {"pc", "direction", "todo", "tickets", "noted", "sprint", "base", "changed"}
  /\ run.noted \in [X!Ids -> Int] /\ run.tickets \in [X!Ids -> Int]
  /\ run.sprint \in [X!Ids -> Int]
  /\ run.todo \in SUBSET X!Ids /\ (run.pc = "pull" => run.todo \subseteq X!Numbers)
  /\ \A i \in X!Ids : local[i] <= edits /\ run.tickets[i] <= edits /\ run.sprint[i] <= edits

(* No number is given twice, and what is known of issues was given.        *)
NumbersGiven ==
  /\ last <= MaxIssues /\ \A n \in X!Numbers : Live(n) => n <= last
  /\ \A i \in X!Ids : /\ 0 <= mapping[i] /\ mapping[i] <= last
                      /\ 0 <= run.noted[i] /\ run.noted[i] <= last
                      /\ mapping[i] # 0 => i <= last
  /\ run.pc = "pull" => \A n \in run.todo : n <= last

(* A ticket with the number of an issue was imported from it, and had been *)
(* noted before it was stored; it has another issue only if that is gone.  *)
(* Only the ticket born here is noted at the end of the push.              *)
ImportsNoted ==
  /\ \A i \in X!Numbers :
       (\/ local[i] # X!Missing \/ run.sprint[i] # X!Missing
        \/ run.pc = "push" /\ (i \in run.todo \/ run.tickets[i] # X!Missing)) => mapping[i] # 0
  /\ \A n \in X!Numbers : Live(n) \/ (run.pc = "pull" /\ n \in run.todo) => mapping[n] \in {0, n}
  /\ \A i \in X!Ids : run.noted[i] # 0 => i = 0 /\ mapping[0] = 0 /\ run.pc = "push"
                                          /\ 0 \notin run.todo

(* An issue belongs to the ticket it was made for and to the one imported  *)
(* from it; to both only if its creation was not noted.                    *)
Creators ==
  /\ \A i \in X!Ids, n \in X!Numbers : Claims(i, n) => i <= n
  /\ \A i \in X!Ids, n \in X!Numbers : Live(n) /\ issues[n].marker = i =>
       /\ i < n /\ (i # 0 => mapping[i] # 0)
       /\ i \in dropped \/ Claims(i, n)
       /\ \A j \in X!Ids : Claims(j, n) /\ j # n => j = i
  /\ \A i \in X!Ids, j \in X!Ids, n \in X!Numbers :
       Claims(i, n) /\ Claims(j, n) /\ i # n /\ j # n => i = j
  /\ \A i \in X!Ids, n \in X!Numbers :
       Live(n) /\ mapping[n] = n /\ Claims(i, n) /\ i # n => i \in dropped

(* With github, a ticket's issue is the one with its marker.               *)
OneMarked ==
  tracker = "github" =>
    \A i \in X!Ids, n \in X!Numbers : Live(n) /\ issues[n].marker = i =>
      \A m \in X!Numbers : Live(m) /\ (issues[m].marker = i \/ Claims(i, m)) => m = n

DeletedNoted ==
  \A i \in X!Numbers : i \in deleted =>
    /\ local[i] = X!Missing /\ mapping[i] # 0
    /\ run.pc \in {"list", "pull"} => run.sprint[i] = X!Missing

SyncInv == SyncTyped /\ NumbersGiven /\ ImportsNoted /\ Creators /\ OneMarked /\ DeletedNoted

(* A run in both directions: what it pushed is in the issue, or something  *)
(* newer, and so is what it pulls.                                         *)
Kept(i) == i \notin behind \cup dropped /\ local[i] # X!Missing
InIssue(i) == \A n \in X!Numbers : Claims(i, n) /\ Live(n) => issues[n].content >= local[i]

PushKept ==
  /\ run.pc = "push" =>
       /\ \A i \in X!Ids : i \notin behind => run.tickets[i] = local[i]
       /\ \A i \in run.todo, j \in X!Ids \ run.todo : run.tickets[j] # X!Missing => j < i
  /\ run.pc \in {"push", "load", "list"} /\ run.direction = "both" =>
       \A i \in X!Ids : Kept(i) /\ ~(run.pc = "push" /\ i \in run.todo) => InIssue(i)
PullKept ==
  /\ run.pc = "pull" /\ run.direction = "both" =>
       \A i \in X!Ids, n \in run.todo : Kept(i) /\ mapping[i] = n => run.tickets[n] >= local[i]
  /\ run.pc \in {"list", "pull"} /\ run.direction = "both" =>
       \A i \in X!Ids : Kept(i) /\ run.sprint[i] # X!Missing => run.sprint[i] >= local[i]

KeptInv == SyncInv /\ PushKept /\ PullKept

syncWorld == <<issues, last, mapping, tracker>>

LEMMA MissingBelow == X!Missing = -1 /\ X!Missing \in Int
BY DEF X!Missing

LEMMA SyncInit == X!SInit => KeptInv
<1> SUFFICES ASSUME X!SInit PROVE KeptInv
  OBVIOUS
<1>1. /\ local = [X!NoContents EXCEPT ![0] = 0] /\ last \in {0, 1} /\ run = X!NoRun
      /\ issues = [n \in X!Numbers |-> IF n <= last THEN [content |-> 0, marker |-> X!Missing]
                                       ELSE X!NoIssue]
      /\ mapping = [i \in X!Ids |-> 0] /\ edits = 0 /\ dropped = {} /\ deleted = {} /\ behind = {}
  BY DEF X!SInit
<1>2. /\ X!NoRun.pc = "off" /\ X!NoRun.todo = {}
      /\ X!NoRun.noted = [i \in X!Ids |-> 0] /\ X!NoRun.tickets = X!NoContents
      /\ X!NoRun.sprint = X!NoContents
      /\ DOMAIN X!NoRun = {"pc", "direction", "todo", "tickets", "noted", "sprint", "base", "changed"}
  BY DEF X!NoRun
<1>3. /\ \A i \in X!Ids : X!NoContents[i] = -1 /\ (i # 0 => local[i] = -1) /\ local[i] \in {-1, 0}
      /\ X!NoContents \in [X!Ids -> Int] /\ local \in [X!Ids -> Int]
  <2>1. X!NoContents \in [X!Ids -> Int] /\ \A i \in X!Ids : X!NoContents[i] = -1
    BY DEF X!NoContents, X!Missing
  <2>2. PICK z : z = X!NoContents
    OBVIOUS
  <2>3. local = [z EXCEPT ![0] = 0] /\ z \in [X!Ids -> Int] /\ \A i \in X!Ids : z[i] = -1
    BY <1>1, <2>1, <2>2
  <2>a. PICK m \in Int : m = -1
    OBVIOUS
  <2>b. DOMAIN local = X!Ids /\ \A i \in X!Ids : local[i] = IF i = 0 THEN 0 ELSE m
    BY <2>3, <2>a
  <2>c. local \in [X!Ids -> Int]
    <3>1. local = [i \in X!Ids |-> IF i = 0 THEN 0 ELSE m]
      BY <2>3, <2>a
    <3> QED BY <3>1
  <2>4. local \in [X!Ids -> Int] /\ \A i \in X!Ids : local[i] = IF i = 0 THEN 0 ELSE -1
    BY <2>a, <2>b, <2>c
  <2> QED BY <2>1, <2>4
<1>4. \A n \in X!Numbers : /\ DOMAIN issues[n] = {"content", "marker"}
                           /\ issues[n].content = (IF n <= last THEN 0 ELSE -1)
                           /\ issues[n].marker = -1
  BY <1>1 DEF X!NoIssue, X!Missing
<1>5. SyncTyped
  BY <1>1, <1>2, <1>3, <1>4, SyncAssumption DEF SyncTyped
<1>6. NumbersGiven
  BY <1>1, <1>2, <1>4, SyncAssumption DEF NumbersGiven, Live, X!Missing
<1>7. ImportsNoted
  BY <1>1, <1>2, <1>3 DEF ImportsNoted, X!Missing, X!Numbers, X!Ids
<1>8. \A i \in X!Ids, n \in X!Numbers : ~Claims(i, n) /\ issues[n].marker # i
  BY <1>1, <1>2, <1>4, SyncAssumption DEF Claims, X!Numbers, X!Ids
<1>9. Creators /\ OneMarked /\ DeletedNoted
  BY <1>1, <1>8 DEF Creators, OneMarked, DeletedNoted
<1>10. PushKept /\ PullKept
  BY <1>1, <1>2 DEF PushKept, PullKept
<1> QED BY <1>5, <1>6, <1>7, <1>9, <1>10 DEF KeptInv, SyncInv

(* A step that leaves the tracker, the state file and what is noted alone. *)
LEMMA QuietStep ==
  ASSUME SyncInv, UNCHANGED <<issues, last, mapping, tracker>>, run'.noted = run.noted,
         dropped \subseteq dropped'
  PROVE  /\ Creators' /\ OneMarked'
         /\ \A i, n : Claims(i, n)' <=> Claims(i, n)
<1>1. \A i, n : Claims(i, n)' <=> Claims(i, n)
  BY DEF Claims
<1>2. \A n : Live(n)' <=> Live(n)
  BY DEF Live
<1>3. Creators'
  BY <1>1, <1>2 DEF SyncInv, Creators
<1>4. OneMarked'
  BY <1>1, <1>2 DEF SyncInv, OneMarked
<1> QED BY <1>1, <1>3, <1>4

LEMMA EditLocalStep ==
  ASSUME KeptInv, X!EditLocal
  PROVE  KeptInv'
<1>1. PICK i \in X!Ids :
        /\ local[i] # X!Missing
        /\ \/ local' = [local EXCEPT ![i] = edits + 1] /\ UNCHANGED deleted
           \/ /\ local' = [local EXCEPT ![i] = X!Missing]
              /\ deleted' = IF run.pc \in {"list", "pull"} THEN deleted ELSE deleted \cup {i}
        /\ edits' = edits + 1
        /\ behind' = IF run.pc # "off" THEN behind \cup {i} ELSE behind
        /\ UNCHANGED <<last, issues, mapping, tracker, run, dropped>>
  BY DEF X!EditLocal
<1>i. SyncTyped /\ NumbersGiven /\ ImportsNoted /\ DeletedNoted
  BY DEF KeptInv, SyncInv
<1>2. /\ local' \in [X!Ids -> Int]
      /\ \A j \in X!Ids : j # i => local'[j] = local[j]
      /\ local'[i] = edits + 1 \/ local'[i] = X!Missing
  BY <1>1, <1>i, MissingBelow DEF SyncTyped
<1>3. SyncTyped'
  BY <1>1, <1>2, <1>i, MissingBelow DEF SyncTyped
<1>4. NumbersGiven'
  BY <1>1, <1>i DEF NumbersGiven, Live
<1>5. ImportsNoted'
  BY <1>1, <1>2, <1>i DEF ImportsNoted, Live, X!Numbers, X!Ids
<1>6. DeletedNoted'
  <2>1. CASE local' = [local EXCEPT ![i] = edits + 1] /\ UNCHANGED deleted
    BY <1>1, <1>2, <1>i, <2>1 DEF DeletedNoted, X!Numbers, X!Ids
  <2>2. CASE /\ local' = [local EXCEPT ![i] = X!Missing]
             /\ deleted' = IF run.pc \in {"list", "pull"} THEN deleted ELSE deleted \cup {i}
    <3>1. local'[i] = X!Missing
      BY <1>i, <2>2 DEF SyncTyped
    <3>2. i \in X!Numbers => mapping[i] # 0
      BY <1>1, <1>i DEF ImportsNoted
    <3> QED BY <1>1, <1>2, <1>i, <2>2, <3>1, <3>2 DEF DeletedNoted, X!Numbers, X!Ids
  <2> QED BY <1>1, <2>1, <2>2
<1>7. Creators' /\ OneMarked' /\ \A j, n : Claims(j, n)' <=> Claims(j, n)
  BY <1>1, QuietStep DEF KeptInv
<1>8. \A j \in X!Ids : run.pc # "off" /\ Kept(j)' => Kept(j) /\ local'[j] = local[j]
  BY <1>1, <1>2 DEF Kept
<1>9. PushKept'
  <2>1. \A j \in X!Ids : InIssue(j) /\ local'[j] = local[j] => InIssue(j)'
    BY <1>1, <1>7 DEF InIssue, Live
  <2>2. run.pc = "push" => \A j \in X!Ids : j \notin behind' => j # i
    BY <1>1
  <2> QED BY <1>1, <1>2, <1>8, <2>1, <2>2 DEF KeptInv, PushKept
<1>10. PullKept'
  BY <1>1, <1>8 DEF KeptInv, PullKept
<1> QED BY <1>3, <1>4, <1>5, <1>6, <1>7, <1>9, <1>10 DEF KeptInv, SyncInv

LEMMA EditIssueStep ==
  ASSUME KeptInv, X!EditIssue
  PROVE  KeptInv'
<1>1. PICK n \in X!Numbers :
        /\ issues[n].content # X!Missing
        /\ \/ issues' = [issues EXCEPT ![n].content = edits + 1]
           \/ issues' = [issues EXCEPT ![n] = X!NoIssue]
        /\ edits' = edits + 1
        /\ UNCHANGED <<last, local, mapping, tracker, run, dropped, behind, deleted>>
  BY DEF X!EditIssue
<1>i. SyncTyped /\ NumbersGiven /\ ImportsNoted /\ DeletedNoted /\ Creators /\ OneMarked
  BY DEF KeptInv, SyncInv
<1>n. /\ X!NoIssue.content = X!Missing /\ X!NoIssue.marker = X!Missing
      /\ DOMAIN X!NoIssue = {"content", "marker"}
  BY DEF X!NoIssue
<1>2. /\ DOMAIN issues' = X!Numbers
      /\ \A m \in X!Numbers : m # n => issues'[m] = issues[m]
      /\ DOMAIN issues'[n] = {"content", "marker"}
      /\ \/ issues'[n].content = edits + 1 /\ issues'[n].marker = issues[n].marker
         \/ issues'[n].content = X!Missing /\ issues'[n].marker = X!Missing
  BY <1>1, <1>i, <1>n DEF SyncTyped
<1>3. \A m \in X!Numbers : Live(m)' => Live(m) /\ issues'[m].marker = issues[m].marker
  BY <1>1, <1>2 DEF Live
<1>4. \A i, m : Claims(i, m)' <=> Claims(i, m)
  BY <1>1 DEF Claims
<1>5. SyncTyped'
  BY <1>1, <1>2, <1>i, MissingBelow DEF SyncTyped
<1>6. NumbersGiven' /\ ImportsNoted'
  BY <1>1, <1>3, <1>i DEF NumbersGiven, ImportsNoted
<1>7. DeletedNoted'
  BY <1>1, <1>i DEF DeletedNoted
<1>8. Creators' /\ OneMarked'
  BY <1>1, <1>3, <1>4, <1>i DEF Creators, OneMarked
<1>9. \A j \in X!Ids : Kept(j)' <=> Kept(j)
  BY <1>1 DEF Kept
<1>10. \A j \in X!Ids : InIssue(j) => InIssue(j)'
  <2> SUFFICES ASSUME NEW j \in X!Ids, InIssue(j), NEW m \in X!Numbers, Claims(j, m), Live(m)'
               PROVE  issues'[m].content >= local[j]
    BY <1>1, <1>4 DEF InIssue
  <2>1. CASE m = n
    <3>1. issues'[n].content = edits + 1
      BY <1>2, <2>1 DEF Live
    <3> QED BY <1>i, <2>1, <3>1 DEF SyncTyped
  <2>2. CASE m # n
    BY <1>2, <1>3, <2>2 DEF InIssue
  <2> QED BY <2>1, <2>2
<1>11. PushKept' /\ PullKept'
  BY <1>1, <1>9, <1>10 DEF KeptInv, PushKept, PullKept
<1> QED BY <1>5, <1>6, <1>7, <1>8, <1>11 DEF KeptInv, SyncInv

LEMMA BeginStep ==
  ASSUME KeptInv, X!BeginSync
  PROVE  KeptInv'
<1>i. SyncTyped /\ NumbersGiven /\ ImportsNoted /\ DeletedNoted
  BY DEF KeptInv, SyncInv
<1>1. PICK d \in {"to", "from", "both"} :
        /\ run.pc = "off"
        /\ run' = IF d \in {"to", "both"}
                  THEN [X!NoRun EXCEPT !.pc = "push", !.direction = d, !.tickets = local,
                                       !.todo = {i \in X!Ids : local[i] # X!Missing}]
                  ELSE [X!NoRun EXCEPT !.pc = "load", !.direction = d]
        /\ behind' = {}
        /\ UNCHANGED <<last, local, issues, mapping, tracker, edits, dropped, deleted>>
  BY DEF X!BeginSync, X!Begins
<1>2. /\ X!NoRun.todo = {} /\ X!NoRun.tickets = X!NoContents /\ X!NoRun.sprint = X!NoContents
      /\ X!NoRun.noted = [i \in X!Ids |-> 0]
      /\ DOMAIN X!NoRun = {"pc", "direction", "todo", "tickets", "noted", "sprint", "base", "changed"}
      /\ X!NoContents \in [X!Ids -> Int] /\ \A i \in X!Ids : X!NoContents[i] = X!Missing
  BY DEF X!NoRun, X!NoContents, X!Missing
<1>3. /\ run'.noted = [i \in X!Ids |-> 0] /\ run'.sprint = X!NoContents
      /\ DOMAIN run' = DOMAIN X!NoRun /\ run'.direction = d
      /\ \/ /\ d \in {"to", "both"} /\ run'.pc = "push" /\ run'.tickets = local
            /\ run'.todo = {i \in X!Ids : local[i] # X!Missing}
         \/ d = "from" /\ run'.pc = "load" /\ run'.tickets = X!NoContents /\ run'.todo = {}
  BY <1>1, <1>2
<1>4. \A i \in X!Ids : run.noted[i] = 0 /\ run'.noted[i] = 0
  BY <1>1, <1>3, <1>i DEF ImportsNoted
<1>5. run'.noted = run.noted
  BY <1>3, <1>4, <1>i DEF SyncTyped
<1>6. Creators' /\ OneMarked'
  BY <1>1, <1>5, QuietStep DEF KeptInv
<1>7. SyncTyped'
  BY <1>1, <1>2, <1>3, <1>4, <1>i, MissingBelow DEF SyncTyped
<1>8. NumbersGiven'
  BY <1>1, <1>3, <1>4, <1>i DEF NumbersGiven, Live
<1>9. ImportsNoted'
  <2>1. \A i \in X!Numbers : i \in X!Ids
    BY DEF X!Numbers, X!Ids
  <2>2. \A i \in X!Numbers : local[i] # X!Missing => mapping[i] # 0
    BY <1>i DEF ImportsNoted
  <2>3. \A i \in X!Ids : run'.sprint[i] = X!Missing
    BY <1>2, <1>3
  <2>4. run'.pc = "push" => \A i \in X!Ids : i \in run'.todo \/ run'.tickets[i] # X!Missing =>
                              local[i] # X!Missing
    BY <1>3
  <2>5. run'.pc # "pull" /\ \A n \in X!Numbers : Live(n)' => mapping[n] \in {0, n}
    BY <1>1, <1>3, <1>i DEF ImportsNoted, Live
  <2> QED BY <1>1, <1>4, <2>1, <2>2, <2>3, <2>4, <2>5 DEF ImportsNoted
<1>10. DeletedNoted'
  BY <1>1, <1>3, <1>i DEF DeletedNoted
<1>11. PushKept'
  BY <1>1, <1>3 DEF PushKept, Kept
<1>12. PullKept'
  BY <1>3 DEF PullKept
<1> QED BY <1>6, <1>7, <1>8, <1>9, <1>10, <1>11, <1>12 DEF KeptInv, SyncInv

LEMMA LoadStep ==
  ASSUME KeptInv, X!LoadSprint
  PROVE  KeptInv'
<1>i. SyncTyped /\ NumbersGiven /\ ImportsNoted /\ DeletedNoted
  BY DEF KeptInv, SyncInv
<1>1. /\ run.pc = "load" /\ run' = [run EXCEPT !.pc = "list", !.sprint = local, !.base = local]
      /\ UNCHANGED <<last, local, issues, mapping, tracker, edits, dropped, behind, deleted>>
  BY DEF X!LoadSprint
<1>2. /\ run'.pc = "list" /\ run'.sprint = local /\ run'.noted = run.noted
      /\ run'.tickets = run.tickets /\ run'.todo = run.todo /\ run'.direction = run.direction
      /\ DOMAIN run' = DOMAIN run
  BY <1>1, <1>i DEF SyncTyped
<1>3. Creators' /\ OneMarked' /\ \A j, n : Claims(j, n)' <=> Claims(j, n)
  BY <1>1, <1>2, QuietStep DEF KeptInv
<1>4. SyncTyped'
  BY <1>1, <1>2, <1>i DEF SyncTyped
<1>5. NumbersGiven'
  BY <1>1, <1>2, <1>i DEF NumbersGiven, Live
<1>6. ImportsNoted'
  BY <1>1, <1>2, <1>i DEF ImportsNoted, Live
<1>7. DeletedNoted'
  BY <1>1, <1>2, <1>i DEF DeletedNoted
<1>8. PushKept'
  <2>1. \A j \in X!Ids : (Kept(j)' <=> Kept(j)) /\ (InIssue(j)' <=> InIssue(j))
    BY <1>1, <1>3 DEF Kept, InIssue, Live
  <2> QED BY <1>1, <1>2, <2>1 DEF KeptInv, PushKept
<1>9. PullKept'
  <2>1. \A j \in X!Ids : local[j] >= local[j]
    BY <1>i DEF SyncTyped
  <2> QED BY <1>1, <1>2, <2>1 DEF PullKept
<1> QED BY <1>3, <1>4, <1>5, <1>6, <1>7, <1>8, <1>9 DEF KeptInv, SyncInv

(* The least of a set of numbers: the order of the naturals is well        *)
(* founded.                                                                *)
LEMMA Least ==
  ASSUME NEW S, S \subseteq Nat, S # {}
  PROVE  \E x \in S : \A y \in S : x <= y
<1> DEFINE Less == {ss \in Nat \X Nat : ss[1] < ss[2]}
<1>1. IsWellFoundedOn(Less, Nat)
  BY NatLessThanWellFounded DEF OpToRel
<1> HIDE DEF Less
<1>2. PICK x \in S : \A y \in S : <<y, x>> \notin Less
  BY <1>1, WFMin, Zenon
<1>3. \A y \in S : ~(y < x)
  BY <1>2 DEF Less
<1> QED BY <1>3

(* The next ticket of a push, and what is left after it.                   *)
LEMMA TurnOrder ==
  ASSUME KeptInv, NEW i \in X!Ids, X!Turn(i)
  PROVE  /\ run.pc = "push" /\ i \in run.todo /\ X!Rest(i) = run.todo \ {i}
         /\ \A j \in run.todo : i <= j
         /\ \A j \in X!Ids \ run.todo : run.tickets[j] # X!Missing => j < i
<1>1. run.pc = "push" /\ i \in run.todo /\ i = X!Min(run.todo)
  BY DEF X!Turn
<1>2. \A j \in run.todo : i <= j
  <2>1. X!Min(run.todo) = CHOOSE x \in run.todo : \A y \in run.todo : x <= y
    BY DEF X!Min
  <2>2. run.todo \subseteq Nat
    BY DEF KeptInv, SyncInv, SyncTyped, X!Ids
  <2>3. \E x \in run.todo : \A y \in run.todo : x <= y
    BY <1>1, <2>2, Least
  <2> QED BY <1>1, <2>1, <2>3
<1>3. \A j \in X!Ids \ run.todo : run.tickets[j] # X!Missing => j < i
  BY <1>1 DEF KeptInv, PushKept
<1> QED BY <1>1, <1>2, <1>3 DEF X!Rest

LEMMA PushFailsStep ==
  ASSUME KeptInv, NEW i \in X!Ids, X!PushFails(i)
  PROVE  KeptInv'
<1>i. SyncTyped /\ NumbersGiven /\ ImportsNoted /\ DeletedNoted
  BY DEF KeptInv, SyncInv
<1>t. /\ run.pc = "push" /\ i \in run.todo /\ X!Rest(i) = run.todo \ {i}
      /\ \A j \in run.todo : i <= j
      /\ \A j \in X!Ids \ run.todo : run.tickets[j] # X!Missing => j < i
  BY TurnOrder DEF X!PushFails
<1>1. /\ run' = [run EXCEPT !.todo = run.todo \ {i}] /\ behind' = behind \cup {i}
      /\ UNCHANGED <<last, local, issues, mapping, tracker, edits, dropped, deleted>>
  BY <1>t DEF X!PushFails
<1>2. /\ run'.pc = "push" /\ run'.sprint = run.sprint /\ run'.noted = run.noted
      /\ run'.tickets = run.tickets /\ run'.todo = run.todo \ {i}
      /\ run'.direction = run.direction /\ DOMAIN run' = DOMAIN run
  BY <1>1, <1>t, <1>i DEF SyncTyped
<1>3. Creators' /\ OneMarked' /\ \A j, n : Claims(j, n)' <=> Claims(j, n)
  BY <1>1, <1>2, QuietStep DEF KeptInv
<1>4. SyncTyped'
  BY <1>1, <1>2, <1>i DEF SyncTyped
<1>5. NumbersGiven' /\ ImportsNoted' /\ DeletedNoted'
  BY <1>1, <1>2, <1>t, <1>i DEF NumbersGiven, ImportsNoted, DeletedNoted, Live
<1>6. PushKept'
  <2>1. \A j \in X!Ids : Kept(j)' => Kept(j) /\ j # i
    BY <1>1 DEF Kept
  <2>2. \A j \in X!Ids : InIssue(j)' <=> InIssue(j)
    BY <1>1, <1>3 DEF InIssue, Live
  <2>3. \A k \in run'.todo, j \in X!Ids \ run'.todo : run.tickets[j] # X!Missing => j < k
    <3> SUFFICES ASSUME NEW k \in run.todo, k # i, NEW j \in X!Ids, j \notin run.todo \/ j = i,
                        run.tickets[j] # X!Missing
                 PROVE  j < k
      BY <1>2
    <3>1. i <= k /\ k \in Int /\ i \in Int /\ j \in Int
      BY <1>t, <1>i DEF SyncTyped, X!Ids
    <3>2. j \notin run.todo => j < i
      BY <1>t
    <3> QED BY <3>1, <3>2
  <2>4. \A j \in X!Ids : j \notin behind' => run'.tickets[j] = local'[j]
    BY <1>1, <1>2, <1>t DEF KeptInv, PushKept
  <2>5. run'.direction = "both" => \A j \in X!Ids : Kept(j)' /\ j \notin run'.todo => InIssue(j)'
    BY <1>1, <1>2, <1>t, <2>1, <2>2 DEF KeptInv, PushKept
  <2> QED BY <1>1, <1>2, <2>3, <2>4, <2>5 DEF PushKept
<1>7. PullKept'
  BY <1>2 DEF PullKept
<1> QED BY <1>3, <1>4, <1>5, <1>6, <1>7 DEF KeptInv, SyncInv

(* The issue of a ticket of the push.                                      *)
LEMMA ExternalOf ==
  ASSUME KeptInv, NEW i \in X!Ids, X!Turn(i)
  PROVE  /\ X!External(i) = mapping[i]
         /\ mapping[i] = 0 => i = 0
         /\ mapping[i] # 0 => mapping[i] \in X!Numbers
<1>1. run.pc = "push" /\ i \in run.todo
  BY TurnOrder
<1>2. mapping[i] = 0 => i = 0
  <2>1. i # 0 => i \in X!Numbers
    BY SyncAssumption DEF X!Numbers, X!Ids
  <2> QED BY <1>1, <2>1 DEF KeptInv, SyncInv, ImportsNoted
<1>3. mapping[i] # 0 => mapping[i] \in X!Numbers
  <2>1. mapping[i] \in Int /\ last \in Int /\ MaxIssues \in Int
        /\ 0 <= mapping[i] /\ mapping[i] <= last /\ last <= MaxIssues
    BY DEF KeptInv, SyncInv, SyncTyped, NumbersGiven
  <2> QED BY <2>1 DEF X!Numbers
<1> QED BY <1>2, <1>3 DEF X!External

LEMMA UpdateIssueStep ==
  ASSUME KeptInv, NEW i \in X!Ids, X!UpdateIssue(i)
  PROVE  KeptInv'
<1>i. SyncTyped /\ NumbersGiven /\ ImportsNoted /\ DeletedNoted /\ Creators /\ OneMarked
  BY DEF KeptInv, SyncInv
<1>t. /\ X!Turn(i) /\ run.pc = "push" /\ i \in run.todo /\ X!Rest(i) = run.todo \ {i}
      /\ \A j \in run.todo : i <= j
      /\ \A j \in X!Ids \ run.todo : run.tickets[j] # X!Missing => j < i
  BY TurnOrder DEF X!UpdateIssue
<1>e. PICK n \in X!Numbers : mapping[i] = n /\ X!External(i) = n /\ Live(n)
  BY <1>t, ExternalOf DEF X!UpdateIssue, X!Exists, Live
<1>m. PICK mark : mark = IF tracker = "github" THEN issues[n].marker ELSE X!Missing
  OBVIOUS
<1>1. /\ issues' = [issues EXCEPT ![n] = [content |-> run.tickets[i], marker |-> mark]]
      /\ run' = [run EXCEPT !.todo = run.todo \ {i}]
      /\ UNCHANGED <<last, local, mapping, tracker, edits, dropped, behind, deleted>>
  BY <1>t, <1>e, <1>m, <1>i DEF X!UpdateIssue, SyncTyped
<1>2. /\ run'.pc = "push" /\ run'.sprint = run.sprint /\ run'.noted = run.noted
      /\ run'.tickets = run.tickets /\ run'.todo = run.todo \ {i}
      /\ run'.direction = run.direction /\ DOMAIN run' = DOMAIN run
  BY <1>1, <1>t, <1>i DEF SyncTyped
<1>3. /\ DOMAIN issues' = X!Numbers
      /\ \A m \in X!Numbers : m # n => issues'[m] = issues[m]
      /\ DOMAIN issues'[n] = {"content", "marker"}
      /\ issues'[n].content = run.tickets[i] /\ issues'[n].marker = mark
  BY <1>1, <1>i DEF SyncTyped
<1>4. \A m \in X!Numbers : Live(m)' => Live(m)
  BY <1>3, <1>e DEF Live
<1>5. \A m \in X!Numbers, j \in X!Ids : issues'[m].marker = j => issues[m].marker = j
  <2>1. \A j \in X!Ids : j # X!Missing
    BY MissingBelow DEF X!Ids
  <2> QED BY <1>3, <1>m, <2>1
<1>6. \A j, m : Claims(j, m)' <=> Claims(j, m)
  BY <1>1, <1>2 DEF Claims
<1>7. SyncTyped'
  BY <1>1, <1>2, <1>3, <1>i DEF SyncTyped
<1>8. NumbersGiven' /\ ImportsNoted' /\ DeletedNoted'
  BY <1>1, <1>2, <1>4, <1>t, <1>i DEF NumbersGiven, ImportsNoted, DeletedNoted
<1>9. Creators' /\ OneMarked'
  BY <1>1, <1>4, <1>5, <1>6, <1>i DEF Creators, OneMarked
<1>10. PushKept'
  <2>1. \A j \in X!Ids : Kept(j)' <=> Kept(j)
    BY <1>1 DEF Kept
  <2>p. \A j \in X!Ids : j \notin behind => run.tickets[j] = local[j]
    BY <1>t DEF KeptInv, PushKept
  <2>2. run.direction = "both" =>
          \A j \in X!Ids : Kept(j) /\ j \notin run'.todo => InIssue(j)'
    <3> SUFFICES ASSUME run.direction = "both", NEW j \in X!Ids, Kept(j), j \notin run'.todo,
                        NEW m \in X!Numbers, Claims(j, m), Live(m)'
                 PROVE  issues'[m].content >= local[j]
      BY <1>1, <1>6 DEF InIssue
    <3>1. CASE m # n
      <4>1. j # i
        BY <1>e, <1>i, <3>1 DEF Claims, ImportsNoted, X!Numbers
      <4>2. InIssue(j)
        BY <1>2, <1>t, <4>1 DEF KeptInv, PushKept
      <4> QED BY <1>3, <1>4, <3>1, <4>2 DEF InIssue
    <3>2. CASE m = n /\ j = i
      <4>1. run.tickets[i] = local[i] /\ local[i] \in Int
        BY <2>p, <3>2, <1>i DEF Kept, SyncTyped
      <4> QED BY <1>3, <3>2, <4>1
    <3>3. CASE m = n /\ j # i
      <4>1. run.tickets[j] # X!Missing
        BY <2>p DEF Kept
      <4>2. j < i
        BY <1>2, <1>t, <3>3, <4>1
      <4>3. Claims(i, n) /\ i <= n /\ i \in Int /\ j \in Int /\ n \in Int
        BY <1>e, <1>i DEF Claims, Creators, X!Ids, X!Numbers
      <4>4. j # n
        BY <4>2, <4>3
      <4>5. i = n
        BY <1>i, <3>3, <4>3, <4>4 DEF Creators
      <4>6. j \in dropped
        BY <1>e, <1>i, <3>3, <4>4, <4>5 DEF Creators
      <4> QED BY <4>6 DEF Kept
    <3> QED BY <3>1, <3>2, <3>3
  <2>3. \A k \in run'.todo, j \in X!Ids \ run'.todo : run.tickets[j] # X!Missing => j < k
    <3> SUFFICES ASSUME NEW k \in run.todo, k # i, NEW j \in X!Ids, j \notin run.todo \/ j = i,
                        run.tickets[j] # X!Missing
                 PROVE  j < k
      BY <1>2
    <3>1. i <= k /\ k \in Int /\ i \in Int /\ j \in Int
      BY <1>t, <1>i DEF SyncTyped, X!Ids
    <3>2. j \notin run.todo => j < i
      BY <1>t
    <3> QED BY <3>1, <3>2
  <2> QED BY <1>1, <1>2, <2>1, <2>p, <2>2, <2>3 DEF PushKept
<1>11. PullKept'
  BY <1>2 DEF PullKept
<1> QED BY <1>7, <1>8, <1>9, <1>10, <1>11 DEF KeptInv, SyncInv

(* The issue a ticket without one gets, fresh or found by its marker.      *)
LEMMA CreatedOf ==
  ASSUME KeptInv, NEW i \in X!Ids, X!CreateIssue(i)
  PROVE  /\ X!Turn(i) /\ run.noted[i] = 0 /\ (mapping[i] = 0 => i = 0)
         /\ \A m \in X!Numbers : Claims(i, m) => ~Live(m)
         /\ \E n \in X!Numbers :
              /\ i < n
              /\ \/ /\ issues' = issues /\ last' = last /\ behind' = behind \cup {i}
                    /\ Live(n) /\ issues[n].marker = i /\ i \in dropped
                 \/ /\ n = last + 1 /\ last' = n /\ behind' = behind
                    /\ \E mark \in {X!Missing, i} :
                         issues' = [issues EXCEPT ![n] = [content |-> run.tickets[i], marker |-> mark]]
                    /\ tracker # "plain" => \A m \in X!Numbers : Live(m) => issues[m].marker # i
              /\ \/ /\ run' = [run EXCEPT !.todo = run.todo \ {i},
                                          !.noted[i] = IF mapping[i] # 0 THEN 0 ELSE n]
                    /\ mapping' = IF mapping[i] # 0 THEN [mapping EXCEPT ![i] = n] ELSE mapping
                    /\ dropped' = dropped
                 \/ /\ run' = [run EXCEPT !.todo = run.todo \ {i}]
                    /\ dropped' = dropped \cup {i} /\ mapping' = mapping
              /\ UNCHANGED <<local, tracker, edits, deleted>>
<1>i. SyncTyped /\ NumbersGiven /\ ImportsNoted /\ Creators
  BY DEF KeptInv, SyncInv
<1>1. X!Turn(i) /\ ~X!Exists(i)
  BY DEF X!CreateIssue, X!Creating
<1>2. /\ run.pc = "push" /\ i \in run.todo /\ X!Rest(i) = run.todo \ {i}
      /\ X!External(i) = mapping[i]
      /\ mapping[i] = 0 => i = 0
      /\ mapping[i] # 0 => mapping[i] \in X!Numbers
  BY <1>1, TurnOrder, ExternalOf
<1>3. run.noted[i] = 0
  BY <1>2, <1>i DEF ImportsNoted
<1>4. \A m \in X!Numbers : Claims(i, m) => ~Live(m)
  BY <1>1, <1>2, <1>3 DEF Claims, Live, X!Exists, X!Numbers
<1>f. PICK found : found = X!Marked(i)
  OBVIOUS
<1>m. /\ found \subseteq X!Numbers
      /\ \A n \in found : Live(n) /\ issues[n].marker = i
      /\ tracker # "plain" => \A n \in X!Numbers : Live(n) /\ issues[n].marker = i => n \in found
  BY <1>f DEF X!Marked, Live
<1>n. PICK n : n = IF found # {} THEN X!Min(found) ELSE last + 1
  OBVIOUS
<1>5. /\ n \in X!Numbers
      /\ \/ found # {} /\ issues' = issues /\ last' = last
         \/ /\ found = {} /\ last' = n
            /\ issues' = [issues EXCEPT ![n] = [content |-> run.tickets[i],
                                               marker |-> IF tracker = "plain" THEN X!Missing ELSE i]]
      /\ \/ /\ run' = [run EXCEPT !.todo = run.todo \ {i},
                                  !.noted[i] = IF mapping[i] # 0 THEN 0 ELSE n]
            /\ mapping' = IF mapping[i] # 0 THEN [mapping EXCEPT ![i] = n] ELSE mapping
            /\ dropped' = dropped
         \/ /\ run' = [run EXCEPT !.todo = run.todo \ {i}]
            /\ dropped' = dropped \cup {i} /\ mapping' = mapping
      /\ behind' = IF found # {} THEN behind \cup {i} ELSE behind
      /\ UNCHANGED <<local, tracker, edits, deleted>>
  BY <1>2, <1>f, <1>n DEF X!CreateIssue, X!Creating
<1>6. CASE found # {}
  <2>1. n \in found
    <3>1. n = CHOOSE x \in found : \A y \in found : x <= y
      BY <1>6, <1>n DEF X!Min
    <3>2. found \subseteq Nat
      BY <1>m DEF X!Numbers
    <3>3. \E x \in found : \A y \in found : x <= y
      BY <1>6, <3>2, Least
    <3> QED BY <3>1, <3>3
  <2>2. Live(n) /\ issues[n].marker = i
    BY <1>m, <2>1
  <2>3. i < n /\ (i \in dropped \/ Claims(i, n))
    BY <1>5, <1>i, <2>2 DEF Creators
  <2>4. i \in dropped
    BY <1>4, <1>5, <2>2, <2>3
  <2> QED BY <1>1, <1>2, <1>3, <1>4, <1>5, <1>6, <2>2, <2>3, <2>4
<1>7. CASE found = {}
  <2>1. i < n
    <3>1. i = 0 \/ i <= last
      BY <1>2, <1>i DEF NumbersGiven
    <3>2. i \in Nat /\ last \in Nat /\ n = last + 1
      BY <1>7, <1>n, <1>i DEF SyncTyped, X!Ids
    <3> QED BY <3>1, <3>2
  <2>2. \E mark \in {X!Missing, i} :
          issues' = [issues EXCEPT ![n] = [content |-> run.tickets[i], marker |-> mark]]
    BY <1>5, <1>7
  <2>3. tracker # "plain" => \A m \in X!Numbers : Live(m) => issues[m].marker # i
    BY <1>m, <1>7
  <2>4. n = last + 1 /\ last' = n /\ behind' = behind
    BY <1>5, <1>7, <1>n
  <2> QED BY <1>1, <1>2, <1>3, <1>4, <1>5, <2>1, <2>2, <2>3, <2>4
<1> QED BY <1>6, <1>7

LEMMA CreateIssueStep ==
  ASSUME KeptInv, NEW i \in X!Ids, X!CreateIssue(i)
  PROVE  KeptInv'
<1>i. SyncTyped /\ NumbersGiven /\ ImportsNoted /\ DeletedNoted /\ Creators /\ OneMarked
  BY DEF KeptInv, SyncInv
<1>c. /\ X!Turn(i) /\ run.noted[i] = 0 /\ (mapping[i] = 0 => i = 0)
      /\ \A m \in X!Numbers : Claims(i, m) => ~Live(m)
  BY CreatedOf
<1>t. /\ run.pc = "push" /\ i \in run.todo
      /\ \A j \in run.todo : i <= j
      /\ \A j \in X!Ids \ run.todo : run.tickets[j] # X!Missing => j < i
  BY <1>c, TurnOrder
<1>n. PICK n \in X!Numbers :
        /\ i < n
        /\ \/ /\ issues' = issues /\ last' = last /\ behind' = behind \cup {i}
              /\ Live(n) /\ issues[n].marker = i /\ i \in dropped
           \/ /\ n = last + 1 /\ last' = n /\ behind' = behind
              /\ \E mark \in {X!Missing, i} :
                   issues' = [issues EXCEPT ![n] = [content |-> run.tickets[i], marker |-> mark]]
              /\ tracker # "plain" => \A m \in X!Numbers : Live(m) => issues[m].marker # i
        /\ \/ /\ run' = [run EXCEPT !.todo = run.todo \ {i},
                                    !.noted[i] = IF mapping[i] # 0 THEN 0 ELSE n]
              /\ mapping' = IF mapping[i] # 0 THEN [mapping EXCEPT ![i] = n] ELSE mapping
              /\ dropped' = dropped
           \/ /\ run' = [run EXCEPT !.todo = run.todo \ {i}]
              /\ dropped' = dropped \cup {i} /\ mapping' = mapping
        /\ UNCHANGED <<local, tracker, edits, deleted>>
  BY CreatedOf
<1>o. /\ n \in Int /\ n # 0 /\ i \in Int /\ n # i /\ last \in Int /\ MaxIssues \in Int
      /\ last <= MaxIssues /\ n <= MaxIssues /\ n \in X!Ids /\ 1 <= n
  <2>1. last \in Int /\ last <= MaxIssues
    BY <1>i DEF SyncTyped, NumbersGiven
  <2> QED BY <1>n, <2>1, SyncAssumption DEF X!Numbers, X!Ids
<1>r. /\ run'.pc = "push" /\ run'.sprint = run.sprint /\ run'.tickets = run.tickets
      /\ run'.todo = run.todo \ {i} /\ run'.direction = run.direction /\ DOMAIN run' = DOMAIN run
  BY <1>n, <1>t, <1>i DEF SyncTyped
\* what is noted afterwards
<1>a. /\ run'.noted \in [X!Ids -> Int] /\ mapping' \in [X!Ids -> Int]
      /\ \A j \in X!Ids : j # i => run'.noted[j] = run.noted[j] /\ mapping'[j] = mapping[j]
      /\ \/ /\ dropped' = dropped \cup {i}
            /\ run'.noted[i] = 0 /\ mapping'[i] = mapping[i]
         \/ dropped' = dropped /\ mapping[i] # 0 /\ mapping'[i] = n /\ run'.noted[i] = 0
         \/ dropped' = dropped /\ i = 0 /\ mapping[i] = 0 /\ mapping'[i] = 0 /\ run'.noted[i] = n
  <2>1. CASE /\ run' = [run EXCEPT !.todo = run.todo \ {i},
                                   !.noted[i] = IF mapping[i] # 0 THEN 0 ELSE n]
             /\ mapping' = IF mapping[i] # 0 THEN [mapping EXCEPT ![i] = n] ELSE mapping
             /\ dropped' = dropped
    <3>1. run'.noted = [run.noted EXCEPT ![i] = IF mapping[i] # 0 THEN 0 ELSE n]
      BY <2>1, <1>i DEF SyncTyped
    <3>2. run.noted \in [X!Ids -> Int] /\ mapping \in [X!Ids -> Int]
      BY <1>i DEF SyncTyped
    <3>3. CASE mapping[i] # 0
      <4>1. mapping' = [mapping EXCEPT ![i] = n] /\ run'.noted = [run.noted EXCEPT ![i] = 0]
        BY <2>1, <3>1, <3>3
      <4> QED BY <2>1, <1>o, <3>2, <3>3, <4>1
    <3>4. CASE mapping[i] = 0
      <4>1. mapping' = mapping /\ run'.noted = [run.noted EXCEPT ![i] = n]
        BY <2>1, <3>1, <3>4
      <4> QED BY <2>1, <1>c, <1>o, <3>2, <3>4, <4>1
    <3> QED BY <3>3, <3>4
  <2>2. CASE /\ run' = [run EXCEPT !.todo = run.todo \ {i}]
             /\ dropped' = dropped \cup {i} /\ mapping' = mapping
    <3>1. run'.noted = run.noted
      BY <2>2, <1>i DEF SyncTyped
    <3> QED BY <2>2, <3>1, <1>c, <1>i DEF SyncTyped
  <2> QED BY <1>n, <2>1, <2>2
<1>b. /\ dropped \subseteq dropped'
      /\ \A j \in X!Ids, m \in X!Numbers : j # i => (Claims(j, m)' <=> Claims(j, m))
      /\ \A m \in X!Numbers : Claims(i, m)' => m = n \/ Claims(i, m)
      /\ i \in dropped' \/ \A m \in X!Numbers : Claims(i, m)' <=> m = n
  <2>1. \A m \in X!Numbers : m # 0
    BY DEF X!Numbers
  <2> QED BY <1>a, <1>c, <2>1 DEF Claims
\* the issues afterwards
<1>s. /\ DOMAIN issues' = X!Numbers
      /\ \A m \in X!Numbers : m # n => issues'[m] = issues[m]
      /\ \/ /\ issues' = issues /\ last' = last /\ behind' = behind \cup {i}
            /\ Live(n) /\ issues[n].marker = i /\ i \in dropped
         \/ /\ n = last + 1 /\ last' = n /\ behind' = behind
            /\ DOMAIN issues'[n] = {"content", "marker"}
            /\ issues'[n].content = run.tickets[i] /\ issues'[n].marker \in {X!Missing, i}
            /\ tracker # "plain" => \A m \in X!Numbers : Live(m) => issues[m].marker # i
  <2>1. DOMAIN issues = X!Numbers
    BY <1>i DEF SyncTyped
  <2>2. CASE /\ issues' = issues /\ last' = last /\ behind' = behind \cup {i}
             /\ Live(n) /\ issues[n].marker = i /\ i \in dropped
    BY <2>1, <2>2
  <2>3. CASE /\ n = last + 1 /\ last' = n /\ behind' = behind
             /\ \E mark \in {X!Missing, i} :
                  issues' = [issues EXCEPT ![n] = [content |-> run.tickets[i], marker |-> mark]]
             /\ tracker # "plain" => \A m \in X!Numbers : Live(m) => issues[m].marker # i
    <3>1. PICK mark \in {X!Missing, i} :
            issues' = [issues EXCEPT ![n] = [content |-> run.tickets[i], marker |-> mark]]
      BY <2>3
    <3>2. issues'[n] = [content |-> run.tickets[i], marker |-> mark]
      BY <1>n, <2>1, <3>1
    <3>3. /\ DOMAIN issues'[n] = {"content", "marker"}
          /\ issues'[n].content = run.tickets[i] /\ issues'[n].marker = mark
      BY <3>2
    <3>4. DOMAIN issues' = X!Numbers /\ \A m \in X!Numbers : m # n => issues'[m] = issues[m]
      BY <2>1, <3>1
    <3> QED BY <2>3, <3>1, <3>3, <3>4
  <2> QED BY <1>n, <2>2, <2>3
<1>u. UNCHANGED <<local, tracker, edits, deleted>>
  BY <1>n
<1>l. \A m \in X!Numbers : m # n => (Live(m)' <=> Live(m))
  BY <1>s DEF Live
\* the number is fresh, or the issue is the one made for the ticket
<1>f. \/ /\ issues' = issues /\ last' = last /\ behind' = behind \cup {i}
         /\ Live(n) /\ issues[n].marker = i /\ i \in dropped /\ n <= last
         /\ \A j \in X!Ids : Claims(j, n) /\ j # n => j = i
      \/ /\ n = last + 1 /\ last' = n /\ behind' = behind /\ ~Live(n) /\ mapping[n] = 0
         /\ \A j \in X!Ids : ~Claims(j, n)
         /\ DOMAIN issues'[n] = {"content", "marker"}
         /\ issues'[n].content = run.tickets[i] /\ issues'[n].marker \in {X!Missing, i}
         /\ tracker # "plain" => \A m \in X!Numbers : Live(m) => issues[m].marker # i
  <2>1. CASE Live(n) /\ issues[n].marker = i
    <3>1. \A j \in X!Ids : Claims(j, n) /\ j # n => j = i
      BY <2>1, <1>i DEF Creators
    <3>2. n <= last
      BY <2>1, <1>i DEF NumbersGiven
    <3>3. n # last + 1
      BY <3>2, <1>o
    <3> QED BY <1>s, <3>1, <3>2, <3>3, <2>1
  <2>2. CASE n = last + 1
    <3>1. ~(n <= last)
      BY <2>2, <1>o
    <3>2. ~Live(n) /\ mapping[n] = 0 /\ \A j \in X!Ids : ~Claims(j, n)
      <4>1. \A j \in X!Ids : mapping[j] <= last /\ run.noted[j] <= last
        BY <1>i DEF NumbersGiven
      <4>2. ~Live(n) /\ mapping[n] = 0
        BY <3>1, <1>i, <1>o DEF NumbersGiven
      <4>3. \A j \in X!Ids : mapping[j] # n /\ run.noted[j] # n
        BY <3>1, <4>1
      <4> QED BY <4>2, <4>3 DEF Claims
    <3> QED BY <1>s, <3>2, <2>2
  <2> QED BY <1>s, <2>1, <2>2
<1>1. SyncTyped'
  <2>1. last' \in Nat
    BY <1>f, <1>i, <1>o DEF SyncTyped
  <2>2. \A m \in X!Numbers : /\ DOMAIN issues'[m] = {"content", "marker"}
                             /\ issues'[m].content \in Int /\ issues'[m].content <= edits
    BY <1>f, <1>s, <1>i DEF SyncTyped
  <2> QED BY <1>a, <1>r, <1>s, <1>u, <1>i, <2>1, <2>2 DEF SyncTyped
<1>2. NumbersGiven'
  <2>1. last' \in Int /\ last <= last' /\ n <= last' /\ last' <= MaxIssues
    BY <1>f, <1>o
  <2>2. \A m \in X!Numbers : Live(m)' => m <= last'
    <3> SUFFICES ASSUME NEW m \in X!Numbers, Live(m)' PROVE m <= last'
      OBVIOUS
    <3>1. m = n \/ m <= last
      BY <1>l, <1>i DEF NumbersGiven
    <3>2. m \in Int
      BY DEF X!Numbers
    <3> QED BY <2>1, <3>1, <3>2, <1>o
  <2>3. \A j \in X!Ids : /\ 0 <= mapping'[j] /\ mapping'[j] <= last'
                         /\ 0 <= run'.noted[j] /\ run'.noted[j] <= last'
                         /\ mapping'[j] # 0 => j <= last'
    <3> SUFFICES ASSUME NEW j \in X!Ids
                 PROVE  /\ 0 <= mapping'[j] /\ mapping'[j] <= last'
                        /\ 0 <= run'.noted[j] /\ run'.noted[j] <= last'
                        /\ mapping'[j] # 0 => j <= last'
      OBVIOUS
    <3>1. /\ 0 <= mapping[j] /\ mapping[j] <= last /\ 0 <= run.noted[j] /\ run.noted[j] <= last
          /\ mapping[j] # 0 => j <= last
          /\ mapping[j] \in Int /\ run.noted[j] \in Int /\ j \in Int
      BY <1>i DEF NumbersGiven, SyncTyped, X!Ids
    <3>2. CASE j # i
      BY <1>a, <1>o, <2>1, <3>1, <3>2
    <3>3. CASE j = i
      BY <1>a, <1>o, <2>1, <3>1, <3>3
    <3> QED BY <3>2, <3>3
  <2> QED BY <1>r, <2>1, <2>2, <2>3 DEF NumbersGiven
<1>3. ImportsNoted'
  <2>1. \A j \in X!Ids : mapping[j] # 0 => mapping'[j] # 0
    BY <1>a, <1>o
  <2>2. \A m \in X!Numbers : Live(m)' => mapping'[m] \in {0, m}
    <3> SUFFICES ASSUME NEW m \in X!Numbers, Live(m)' PROVE mapping'[m] \in {0, m}
      OBVIOUS
    <3>1. m \in X!Ids /\ m # 0
      BY DEF X!Ids, X!Numbers
    <3>2. CASE m = i
      <4>1. Live(m) /\ mapping[m] \in {0, m} /\ mapping[i] # 0
        BY <1>l, <1>o, <1>i, <1>c, <3>1, <3>2 DEF ImportsNoted
      <4> QED BY <1>c, <3>2, <4>1 DEF Claims
    <3>3. CASE m # i
      <4>1. mapping'[m] = mapping[m]
        BY <1>a, <3>1, <3>3
      <4>2. Live(m) \/ mapping[m] = 0
        BY <1>l, <1>f
      <4> QED BY <1>i, <4>1, <4>2 DEF ImportsNoted
    <3> QED BY <3>2, <3>3
  <2>3. \A j \in X!Ids : run'.noted[j] # 0 => j = 0 /\ mapping'[0] = 0 /\ 0 \notin run'.todo
    BY <1>a, <1>r, <1>i, <1>t DEF ImportsNoted
  <2>4. \A j \in X!Numbers :
          (\/ local'[j] # X!Missing \/ run'.sprint[j] # X!Missing
           \/ run'.pc = "push" /\ (j \in run'.todo \/ run'.tickets[j] # X!Missing)) => mapping[j] # 0
    BY <1>r, <1>u, <1>t, <1>i DEF ImportsNoted
  <2>5. \A j \in X!Numbers : j \in X!Ids
    BY DEF X!Numbers, X!Ids
  <2> QED BY <1>r, <2>1, <2>2, <2>3, <2>4, <2>5 DEF ImportsNoted
<1>4. Creators'
  <2>1. \A j \in X!Ids, m \in X!Numbers : Claims(j, m)' => j <= m
    <3>1. i <= n
      BY <1>n, <1>o
    <3> QED BY <1>b, <1>i, <3>1 DEF Creators
  <2>2. \A j \in X!Ids, m \in X!Numbers : Live(m)' /\ issues'[m].marker = j =>
          /\ j < m /\ (j # 0 => mapping'[j] # 0)
          /\ j \in dropped' \/ Claims(j, m)'
          /\ \A k \in X!Ids : Claims(k, m)' /\ k # m => k = j
    <3> SUFFICES ASSUME NEW j \in X!Ids, NEW m \in X!Numbers, Live(m)', issues'[m].marker = j
                 PROVE  /\ j < m /\ (j # 0 => mapping'[j] # 0)
                        /\ j \in dropped' \/ Claims(j, m)'
                        /\ \A k \in X!Ids : Claims(k, m)' /\ k # m => k = j
      OBVIOUS
    <3>1. CASE m = n
      <4>1. j = i
        <5>1. X!Missing \notin X!Ids
          BY MissingBelow DEF X!Ids
        <5> QED BY <1>s, <3>1, <5>1
      <4>2. i # 0 => mapping'[i] # 0
        BY <1>a, <1>c, <1>o
      <4>3. \A k \in X!Ids : Claims(k, n)' /\ k # n => k = i
        BY <1>b, <1>f
      <4>4. i \in dropped' \/ Claims(i, n)'
        BY <1>b
      <4> QED BY <1>n, <3>1, <4>1, <4>2, <4>3, <4>4
    <3>2. CASE m # n
      <4>1. Live(m) /\ issues[m].marker = j
        BY <1>l, <1>s, <3>2
      <4>2. /\ j < m /\ (j # 0 => mapping[j] # 0)
            /\ j \in dropped \/ Claims(j, m)
            /\ \A k \in X!Ids : Claims(k, m) /\ k # m => k = j
        BY <4>1, <1>i DEF Creators
      <4>3. j # i \/ j \in dropped
        BY <1>c, <4>1, <4>2
      <4>4. j \in dropped' \/ Claims(j, m)'
        BY <1>b, <4>2, <4>3
      <4>5. \A k \in X!Ids : Claims(k, m)' => Claims(k, m)
        BY <1>b, <3>2
      <4>6. j # 0 => mapping'[j] # 0
        BY <1>a, <1>o, <4>2
      <4> QED BY <4>2, <4>4, <4>5, <4>6
    <3> QED BY <3>1, <3>2
  <2>3. \A j \in X!Ids, k \in X!Ids, m \in X!Numbers :
          Claims(j, m)' /\ Claims(k, m)' /\ j # m /\ k # m => j = k
    <3> SUFFICES ASSUME NEW j \in X!Ids, NEW k \in X!Ids, NEW m \in X!Numbers,
                        Claims(j, m)', Claims(k, m)', j # m, k # m
                 PROVE  j = k
      OBVIOUS
    <3>1. CASE m = n
      BY <1>b, <1>f, <3>1
    <3>2. CASE m # n
      <4>1. Claims(j, m) /\ Claims(k, m)
        BY <1>b, <3>2
      <4> QED BY <1>i, <4>1 DEF Creators
    <3> QED BY <3>1, <3>2
  <2>4. \A j \in X!Ids, m \in X!Numbers :
          Live(m)' /\ mapping'[m] = m /\ Claims(j, m)' /\ j # m => j \in dropped'
    <3> SUFFICES ASSUME NEW j \in X!Ids, NEW m \in X!Numbers, Live(m)', mapping'[m] = m,
                        Claims(j, m)', j # m
                 PROVE  j \in dropped'
      OBVIOUS
    <3>1. CASE m = n
      <4>1. mapping[n] = n
        BY <1>a, <1>o, <3>1
      <4>2. i \in dropped /\ \A k \in X!Ids : Claims(k, n) /\ k # n => k = i
        BY <1>f, <1>o, <4>1
      <4> QED BY <1>b, <3>1, <4>2
    <3>2. CASE m # n
      <4>1. Live(m) /\ Claims(j, m)
        BY <1>l, <1>b, <3>2
      <4>2. m \in X!Ids /\ m # 0
        BY DEF X!Numbers, X!Ids
      <4>3. mapping[m] = m
        BY <1>a, <3>2, <4>2
      <4> QED BY <1>i, <1>b, <4>1, <4>3 DEF Creators
    <3> QED BY <3>1, <3>2
  <2> QED BY <2>1, <2>2, <2>3, <2>4 DEF Creators
<1>5. OneMarked'
  <2> SUFFICES ASSUME tracker = "github", NEW j \in X!Ids, NEW m \in X!Numbers, Live(m)',
                      issues'[m].marker = j, NEW p \in X!Numbers, Live(p)',
                      issues'[p].marker = j \/ Claims(j, p)'
               PROVE  p = m
    BY <1>u DEF OneMarked
  <2>g. \A k \in X!Ids, q \in X!Numbers : Live(q) /\ issues[q].marker = k =>
          \A r \in X!Numbers : Live(r) /\ (issues[r].marker = k \/ Claims(k, r)) => r = q
    BY <1>i DEF OneMarked
  <2>m. X!Missing \notin X!Ids
    BY MissingBelow DEF X!Ids
  <2>1. CASE Live(n) /\ issues[n].marker = i /\ issues' = issues
    <3>1. \A q \in X!Numbers : Live(q)' <=> Live(q)
      BY <2>1 DEF Live
    <3>2. CASE Claims(j, p)' /\ ~Claims(j, p)
      <4>1. j = i /\ p = n
        BY <1>b, <3>2
      <4> QED BY <2>1, <2>g, <3>1, <4>1
    <3>3. CASE issues[p].marker = j \/ Claims(j, p)
      BY <2>1, <2>g, <3>1, <3>3
    <3> QED BY <2>1, <3>2, <3>3
  <2>2. CASE /\ ~Live(n) /\ (\A k \in X!Ids : ~Claims(k, n))
             /\ issues'[n].marker \in {X!Missing, i}
             /\ \A q \in X!Numbers : Live(q) => issues[q].marker # i
    <3>1. CASE m = n
      <4>1. j = i
        BY <2>2, <2>m, <3>1
      <4>2. CASE p # n
        <5>1. Live(p) /\ issues'[p] = issues[p] /\ (Claims(i, p)' => Claims(i, p))
          BY <1>l, <1>s, <1>b, <4>2
        <5> QED BY <1>c, <2>2, <4>1, <5>1
      <4> QED BY <3>1, <4>2
    <3>2. CASE m # n
      <4>1. Live(m) /\ issues[m].marker = j /\ j # i
        BY <1>l, <1>s, <2>2, <3>2
      <4>2. p # n
        BY <1>b, <2>2, <2>m, <4>1
      <4>3. Live(p) /\ issues'[p] = issues[p] /\ (Claims(j, p)' => Claims(j, p))
        BY <1>l, <1>s, <1>b, <4>2
      <4> QED BY <2>g, <4>1, <4>3
    <3> QED BY <3>1, <3>2
  <2> QED BY <1>f, <2>1, <2>2
<1>6. DeletedNoted'
  <2>1. \A j \in X!Numbers : j \in X!Ids
    BY DEF X!Numbers, X!Ids
  <2>2. \A j \in X!Ids : mapping[j] # 0 => mapping'[j] # 0
    BY <1>a, <1>o
  <2> QED BY <1>r, <1>u, <1>i, <2>1, <2>2 DEF DeletedNoted
<1>7. PushKept'
  <2>p. \A j \in X!Ids : j \notin behind => run.tickets[j] = local[j]
    BY <1>t DEF KeptInv, PushKept
  <2>b. behind \subseteq behind'
    BY <1>f
  <2>1. \A j \in X!Ids : j \notin behind' => run'.tickets[j] = local'[j]
    BY <1>r, <1>u, <2>p, <2>b
  <2>2. run'.direction = "both" => \A j \in X!Ids : Kept(j)' /\ j \notin run'.todo => InIssue(j)'
    <3> SUFFICES ASSUME run.direction = "both", NEW j \in X!Ids, Kept(j)', j \notin run'.todo,
                        NEW m \in X!Numbers, Claims(j, m)', Live(m)'
                 PROVE  issues'[m].content >= local[j]
      BY <1>r, <1>u DEF InIssue
    <3>1. Kept(j) /\ j \notin behind' /\ j \notin dropped'
      BY <1>b, <1>u, <2>b DEF Kept
    <3>2. CASE j = i
      <4>1. m = n
        BY <1>b, <3>1, <3>2
      <4>2. issues'[n].content = run.tickets[i]
        BY <1>f, <3>1, <3>2
      <4>3. run.tickets[i] = local[i] /\ local[i] \in Int
        BY <2>p, <2>b, <3>1, <3>2, <1>i DEF SyncTyped
      <4> QED BY <3>2, <4>1, <4>2, <4>3
    <3>3. CASE j # i
      <4>1. Claims(j, m)
        BY <1>b, <3>3
      <4>2. InIssue(j)
        BY <1>t, <1>r, <3>1, <3>3 DEF KeptInv, PushKept
      <4>3. Live(m) /\ issues'[m] = issues[m]
        BY <1>f, <1>l, <1>s, <4>1
      <4> QED BY <4>1, <4>2, <4>3 DEF InIssue
    <3> QED BY <3>2, <3>3
  <2>3. \A k \in run'.todo, j \in X!Ids \ run'.todo : run.tickets[j] # X!Missing => j < k
    <3> SUFFICES ASSUME NEW k \in run.todo, k # i, NEW j \in X!Ids, j \notin run.todo \/ j = i,
                        run.tickets[j] # X!Missing
                 PROVE  j < k
      BY <1>r
    <3>1. i <= k /\ k \in Int /\ i \in Int /\ j \in Int
      BY <1>t, <1>i DEF SyncTyped, X!Ids
    <3>2. j \notin run.todo => j < i
      BY <1>t
    <3> QED BY <3>1, <3>2
  <2> QED BY <1>r, <2>1, <2>2, <2>3 DEF PushKept
<1>8. PullKept'
  BY <1>r DEF PullKept
<1> QED BY <1>1, <1>2, <1>3, <1>4, <1>5, <1>6, <1>7, <1>8 DEF KeptInv, SyncInv

(* A run that is over has nothing noted, nor has one that pulls.           *)
LEMMA NoRunIs ==
  /\ X!NoRun.pc = "off" /\ X!NoRun.todo = {} /\ X!NoRun.tickets = X!NoContents
  /\ X!NoRun.sprint = X!NoContents /\ X!NoRun.noted = [i \in X!Ids |-> 0]
  /\ DOMAIN X!NoRun = {"pc", "direction", "todo", "tickets", "noted", "sprint", "base", "changed"}
  /\ X!NoContents \in [X!Ids -> Int] /\ \A i \in X!Ids : X!NoContents[i] = X!Missing
BY DEF X!NoRun, X!NoContents, X!Missing

(* The end of a run.                                                       *)
LEMMA RunOver ==
  ASSUME SyncInv, run.pc # "push", run' = X!NoRun,
         UNCHANGED <<issues, last, mapping, tracker, edits, deleted>>, dropped \subseteq dropped',
         local' \in [X!Ids -> Int],
         \A i \in X!Ids : /\ local'[i] <= edits
                          /\ local'[i] # X!Missing => local[i] # X!Missing \/ run.sprint[i] # X!Missing,
         \A i \in X!Numbers : i \in deleted => local'[i] = X!Missing
  PROVE  KeptInv'
<1>i. SyncTyped /\ NumbersGiven /\ ImportsNoted /\ DeletedNoted
  BY DEF SyncInv
<1>1. \A i \in X!Ids : run.noted[i] = 0
  BY <1>i DEF ImportsNoted
<1>2. run'.noted = run.noted
  BY <1>1, <1>i, NoRunIs DEF SyncTyped
<1>3. Creators' /\ OneMarked'
  BY <1>2, QuietStep
<1>4. SyncTyped'
  <2>1. \A i \in X!Ids : X!Missing <= edits
    BY <1>i, MissingBelow DEF SyncTyped
  <2> QED BY <1>2, <1>i, <2>1, NoRunIs DEF SyncTyped
<1>5. NumbersGiven'
  BY <1>1, <1>2, <1>i, NoRunIs DEF NumbersGiven, Live
<1>6. ImportsNoted'
  <2>1. \A i \in X!Numbers : i \in X!Ids
    BY DEF X!Numbers, X!Ids
  <2>2. \A n \in X!Numbers : Live(n)' => mapping[n] \in {0, n}
    BY <1>i DEF ImportsNoted, Live
  <2>3. \A i \in X!Numbers : local'[i] # X!Missing => mapping[i] # 0
    BY <2>1, <1>i DEF ImportsNoted
  <2> QED BY <1>1, <1>2, <2>1, <2>2, <2>3, NoRunIs DEF ImportsNoted
<1>7. DeletedNoted'
  BY <1>i, NoRunIs DEF DeletedNoted
<1>8. PushKept' /\ PullKept'
  BY NoRunIs DEF PushKept, PullKept
<1> QED BY <1>3, <1>4, <1>5, <1>6, <1>7, <1>8 DEF KeptInv, SyncInv

LEMMA EndPushStep ==
  ASSUME KeptInv, X!EndPush
  PROVE  KeptInv'
<1>i. SyncTyped /\ NumbersGiven /\ ImportsNoted /\ DeletedNoted /\ Creators /\ OneMarked
  BY DEF KeptInv, SyncInv
<1>1. /\ run.pc = "push" /\ run.todo = {}
      /\ mapping' = [i \in X!Ids |-> IF run.noted[i] # 0 THEN run.noted[i] ELSE mapping[i]]
      /\ run' = IF run.direction = "both"
                THEN [X!NoRun EXCEPT !.pc = "load", !.direction = "both"] ELSE X!NoRun
      /\ UNCHANGED <<last, local, issues, tracker, edits, dropped, behind, deleted>>
  BY DEF X!EndPush
<1>2. /\ run'.noted = [i \in X!Ids |-> 0] /\ run'.todo = {} /\ run'.tickets = X!NoContents
      /\ run'.sprint = X!NoContents /\ DOMAIN run' = DOMAIN X!NoRun
      /\ \/ run.direction = "both" /\ run'.pc = "load" /\ run'.direction = "both"
         \/ run'.pc = "off"
  BY <1>1, NoRunIs
<1>3. \A i \in X!Ids : run.noted[i] # 0 => i = 0 /\ mapping[i] = 0
  BY <1>i DEF ImportsNoted
<1>4. \A i \in X!Ids, m \in X!Numbers : Claims(i, m)' <=> Claims(i, m)
  <2>1. \A m \in X!Numbers : m # 0
    BY DEF X!Numbers
  <2>2. \A i \in X!Ids : /\ run'.noted[i] = 0
                         /\ mapping'[i] = IF run.noted[i] # 0 THEN run.noted[i] ELSE mapping[i]
    BY <1>1, <1>2
  <2> QED BY <1>3, <2>1, <2>2 DEF Claims
<1>5. \A i \in X!Numbers : i \in X!Ids /\ mapping'[i] = mapping[i]
  <2>1. \A i \in X!Numbers : i \in X!Ids /\ i # 0
    BY DEF X!Numbers, X!Ids
  <2> QED BY <1>1, <1>3, <2>1
<1>6. SyncTyped'
  <2>1. mapping' \in [X!Ids -> Int]
    BY <1>1, <1>i DEF SyncTyped
  <2> QED BY <1>1, <1>2, <1>i, <2>1, MissingBelow, NoRunIs DEF SyncTyped
<1>7. NumbersGiven'
  <2>1. \A i \in X!Ids : /\ 0 <= mapping'[i] /\ mapping'[i] <= last
                         /\ 0 <= run'.noted[i] /\ run'.noted[i] <= last
                         /\ mapping'[i] # 0 => i <= last
    <3> SUFFICES ASSUME NEW i \in X!Ids
                 PROVE  /\ 0 <= mapping'[i] /\ mapping'[i] <= last
                        /\ 0 <= run'.noted[i] /\ run'.noted[i] <= last
                        /\ mapping'[i] # 0 => i <= last
      OBVIOUS
    <3>1. /\ run'.noted[i] = 0
          /\ mapping'[i] = IF run.noted[i] # 0 THEN run.noted[i] ELSE mapping[i]
      BY <1>1, <1>2
    <3>2. /\ 0 <= mapping[i] /\ mapping[i] <= last /\ 0 <= run.noted[i] /\ run.noted[i] <= last
          /\ mapping[i] # 0 => i <= last
          /\ mapping[i] \in Int /\ run.noted[i] \in Int /\ last \in Nat
      BY <1>i DEF NumbersGiven, SyncTyped
    <3>3. CASE run.noted[i] # 0
      BY <1>3, <3>1, <3>2, <3>3
    <3>4. CASE run.noted[i] = 0
      BY <3>1, <3>2, <3>4
    <3> QED BY <3>3, <3>4
  <2> QED BY <1>1, <1>2, <1>i, <2>1 DEF NumbersGiven, Live
<1>8. ImportsNoted'
  <2>1. \A i \in X!Ids : run'.noted[i] = 0 /\ run'.sprint[i] = X!Missing
    BY <1>2, NoRunIs
  <2>2. \A i \in X!Numbers : local[i] # X!Missing => mapping[i] # 0
    BY <1>i DEF ImportsNoted
  <2>3. \A n \in X!Numbers : Live(n) => mapping[n] \in {0, n}
    BY <1>i DEF ImportsNoted
  <2> QED BY <1>1, <1>2, <1>5, <2>1, <2>2, <2>3 DEF ImportsNoted, Live
<1>9. Creators'
  <2>1. \A i \in X!Ids : i # 0 /\ mapping[i] # 0 => mapping'[i] # 0
    BY <1>1, <1>3
  <2>2. \A n \in X!Numbers : Live(n)' <=> Live(n)
    BY <1>1 DEF Live
  <2> QED BY <1>1, <1>4, <1>5, <1>i, <2>1, <2>2 DEF Creators
<1>10. OneMarked'
  BY <1>1, <1>4, <1>i DEF OneMarked, Live
<1>11. DeletedNoted'
  BY <1>1, <1>2, <1>5, <1>i DEF DeletedNoted
<1>12. PushKept'
  <2>1. run.direction = "both" => \A i \in X!Ids : Kept(i) => InIssue(i)
    BY <1>1 DEF KeptInv, PushKept
  <2>2. \A i \in X!Ids : (Kept(i)' <=> Kept(i)) /\ (InIssue(i) => InIssue(i)')
    BY <1>1, <1>4 DEF Kept, InIssue, Live
  <2> QED BY <1>2, <2>1, <2>2 DEF PushKept
<1>13. PullKept'
  BY <1>2 DEF PullKept
<1> QED BY <1>6, <1>7, <1>8, <1>9, <1>10, <1>11, <1>12, <1>13 DEF KeptInv, SyncInv

LEMMA ListIssuesStep ==
  ASSUME KeptInv, X!ListIssues
  PROVE  KeptInv'
<1>i. SyncInv /\ SyncTyped /\ NumbersGiven /\ ImportsNoted /\ DeletedNoted
  BY DEF KeptInv, SyncInv
<1>1. /\ run.pc = "list"
      /\ \/ run' = X!NoRun
         \/ run' = [run EXCEPT !.pc = "pull", !.todo = {n \in X!Numbers : Live(n)},
                               !.tickets = [i \in X!Ids |-> IF i = 0 THEN X!Missing
                                                            ELSE issues[i].content]]
      /\ UNCHANGED <<last, local, issues, mapping, tracker, edits, dropped, behind, deleted>>
  BY DEF X!ListIssues, Live
<1>2. CASE run' = X!NoRun
  BY <1>1, <1>2, <1>i, RunOver DEF SyncTyped, DeletedNoted
<1>3. CASE run' = [run EXCEPT !.pc = "pull", !.todo = {n \in X!Numbers : Live(n)},
                              !.tickets = [i \in X!Ids |-> IF i = 0 THEN X!Missing
                                                           ELSE issues[i].content]]
  <2>1. /\ run'.pc = "pull" /\ run'.todo = {n \in X!Numbers : Live(n)}
        /\ run'.tickets = [i \in X!Ids |-> IF i = 0 THEN X!Missing ELSE issues[i].content]
        /\ run'.sprint = run.sprint /\ run'.noted = run.noted /\ run'.direction = run.direction
        /\ DOMAIN run' = DOMAIN run
    BY <1>3, <1>i DEF SyncTyped
  <2>2. Creators' /\ OneMarked' /\ \A j, n : Claims(j, n)' <=> Claims(j, n)
    BY <1>1, <2>1, <1>i, QuietStep
  <2>n. /\ X!Numbers \subseteq X!Ids /\ \A i \in X!Ids : i # 0 => i \in X!Numbers
        /\ \A n \in X!Numbers : n # 0
    BY SyncAssumption DEF X!Numbers, X!Ids
  <2>3. SyncTyped'
    <3>1. /\ run'.tickets \in [X!Ids -> Int]
          /\ \A i \in X!Ids : run'.tickets[i] <= edits
      BY <2>1, <2>n, <1>i, MissingBelow DEF SyncTyped
    <3>2. run'.todo \in SUBSET X!Ids /\ run'.todo \subseteq X!Numbers
      BY <2>1, <2>n
    <3> QED BY <1>1, <2>1, <3>1, <3>2, <1>i DEF SyncTyped
  <2>4. NumbersGiven'
    BY <1>1, <2>1, <1>i DEF NumbersGiven, Live
  <2>5. ImportsNoted'
    <3>1. \A i \in X!Numbers : local[i] # X!Missing \/ run.sprint[i] # X!Missing => mapping[i] # 0
      BY <1>i DEF ImportsNoted
    <3>2. \A n \in X!Numbers : Live(n) => mapping[n] \in {0, n}
      BY <1>i DEF ImportsNoted
    <3>3. \A i \in X!Ids : run'.noted[i] = 0
      BY <1>1, <2>1, <1>i DEF ImportsNoted
    <3>4. \A n \in X!Numbers : Live(n)' \/ n \in run'.todo => Live(n)
      BY <1>1, <2>1 DEF Live
    <3> QED BY <1>1, <2>1, <3>1, <3>2, <3>3, <3>4 DEF ImportsNoted
  <2>6. DeletedNoted'
    BY <1>1, <2>1, <1>i DEF DeletedNoted
  <2>7. PushKept'
    BY <2>1 DEF PushKept
  <2>8. PullKept'
    <3>1. \A j \in X!Ids : Kept(j)' <=> Kept(j)
      BY <1>1 DEF Kept
    <3>2. run.direction = "both" => \A j \in X!Ids : Kept(j) => InIssue(j)
      BY <1>1 DEF KeptInv, PushKept
    <3>3. run.direction = "both" =>
            \A i \in X!Ids, n \in run'.todo : Kept(i) /\ mapping[i] = n => run'.tickets[n] >= local[i]
      BY <2>1, <2>n, <3>2 DEF InIssue, Claims
    <3>4. run.direction = "both" =>
            \A i \in X!Ids : Kept(i) /\ run.sprint[i] # X!Missing => run.sprint[i] >= local[i]
      BY <1>1 DEF KeptInv, PullKept
    <3> QED BY <1>1, <2>1, <3>1, <3>3, <3>4 DEF PullKept
  <2> QED BY <2>2, <2>3, <2>4, <2>5, <2>6, <2>7, <2>8 DEF KeptInv, SyncInv
<1> QED BY <1>1, <1>2, <1>3

(* What a pull does with the next issue.                                   *)
LEMMA PulledOf ==
  ASSUME KeptInv, X!PullIssue
  PROVE  \E n \in run.todo :
           /\ run.pc = "pull" /\ run'.pc = "pull" /\ n \in X!Numbers
           /\ UNCHANGED <<last, local, issues, tracker, edits, dropped, behind, deleted>>
           /\ \/ \E i \in X!Ids, c \in {TRUE, FALSE} :
                   /\ mapping[i] = n /\ mapping' = mapping
                   /\ run' = [run EXCEPT !.todo = run.todo \ {n},
                                         !.sprint[i] = IF run.sprint[i] = X!Missing THEN X!Missing
                                                       ELSE run.tickets[n],
                                         !.changed = c]
              \/ /\ \A i \in X!Ids : mapping[i] # n
                 /\ mapping' = [mapping EXCEPT ![n] = n]
                 /\ run' = [run EXCEPT !.todo = run.todo \ {n}, !.sprint[n] = run.tickets[n],
                                       !.changed = TRUE]
<1>i. SyncTyped
  BY DEF KeptInv, SyncInv
<1>o. PICK owned : owned = [n \in X!Numbers |-> X!Owners(n)]
  OBVIOUS
<1>1. X!Pulls(owned)
  BY <1>o DEF X!PullIssue
<1>2. PICK n \in X!Numbers :
        /\ run.pc = "pull" /\ n \in run.todo /\ n = X!Min(run.todo)
        /\ IF owned[n] # {}
           THEN /\ LET i == X!Min(owned[n])
                   IN run' = [run EXCEPT !.todo = X!Rest(n),
                                   !.sprint[i] = IF @ = X!Missing THEN X!Missing ELSE run.tickets[n],
                                   !.changed = @ \/ run.sprint[i] # X!Missing]
                /\ UNCHANGED <<mapping, orphaned>>
           ELSE /\ run' = [run EXCEPT !.todo = X!Rest(n), !.sprint[n] = run.tickets[n],
                                      !.changed = TRUE]
                /\ mapping' = [mapping EXCEPT ![n] = n]
                /\ orphaned' = orphaned \cup {n}
        /\ UNCHANGED <<last, local, issues, tracker, edits, runs, dropped, behind, deleted>>
  BY <1>1 DEF X!Pulls
<1>3. owned[n] = {i \in X!Ids : mapping[i] = n} /\ X!Rest(n) = run.todo \ {n}
  BY <1>o DEF X!Owners, X!Rest
<1>4. CASE owned[n] # {}
  <2>m. PICK i : i = X!Min(owned[n])
    OBVIOUS
  <2>1. i \in owned[n]
    <3>1. i = CHOOSE x \in owned[n] : \A y \in owned[n] : x <= y
      BY <2>m DEF X!Min
    <3>2. owned[n] \subseteq Nat
      BY <1>3 DEF X!Ids
    <3>3. \E x \in owned[n] : \A y \in owned[n] : x <= y
      BY <1>4, <3>2, Least
    <3> QED BY <3>1, <3>3
  <2>2. run' = [run EXCEPT !.todo = X!Rest(n),
                           !.sprint[i] = IF @ = X!Missing THEN X!Missing ELSE run.tickets[n],
                           !.changed = @ \/ run.sprint[i] # X!Missing]
        /\ UNCHANGED mapping
    BY <1>2, <1>4, <2>m
  <2>c. PICK c \in {TRUE, FALSE} : c = (run.changed \/ run.sprint[i] # X!Missing)
    OBVIOUS
  <2>3. run' = [run EXCEPT !.todo = run.todo \ {n},
                           !.sprint[i] = IF run.sprint[i] = X!Missing THEN X!Missing
                                         ELSE run.tickets[n],
                           !.changed = c]
    BY <1>3, <2>2, <2>c, <2>1, <1>i, Zenon DEF SyncTyped
  <2>4. i \in X!Ids /\ mapping[i] = n /\ mapping' = mapping
    BY <1>3, <2>1, <2>2
  <2>5. \E ii \in X!Ids, cc \in {TRUE, FALSE} :
          /\ mapping[ii] = n /\ mapping' = mapping
          /\ run' = [run EXCEPT !.todo = run.todo \ {n},
                                !.sprint[ii] = IF run.sprint[ii] = X!Missing THEN X!Missing
                                               ELSE run.tickets[n],
                                !.changed = cc]
    BY <2>3, <2>4, Zenon
  <2>6. /\ run.pc = "pull" /\ n \in X!Numbers /\ n \in run.todo
        /\ UNCHANGED <<last, local, issues, tracker, edits, dropped, behind, deleted>>
    BY <1>2, Zenon
  <2>7. run'.pc = "pull"
    BY <2>3, <2>6, <1>i DEF SyncTyped
  <2> QED BY <2>5, <2>6, <2>7, Zenon
<1>5. CASE owned[n] = {}
  <2>1. run'.pc = "pull"
    BY <1>2, <1>5, <1>i DEF SyncTyped
  <2> QED BY <1>2, <1>3, <1>5, <2>1
<1> QED BY <1>4, <1>5

LEMMA PullIssueStep ==
  ASSUME KeptInv, X!PullIssue
  PROVE  KeptInv'
<1>i. SyncTyped /\ NumbersGiven /\ ImportsNoted /\ DeletedNoted /\ Creators /\ OneMarked
  BY DEF KeptInv, SyncInv
<1>n. PICK n \in run.todo :
        /\ run.pc = "pull" /\ n \in X!Numbers
        /\ UNCHANGED <<last, local, issues, tracker, edits, dropped, behind, deleted>>
        /\ \/ \E i \in X!Ids, c \in {TRUE, FALSE} :
                /\ mapping[i] = n /\ mapping' = mapping
                /\ run' = [run EXCEPT !.todo = run.todo \ {n},
                                      !.sprint[i] = IF run.sprint[i] = X!Missing THEN X!Missing
                                                    ELSE run.tickets[n],
                                      !.changed = c]
           \/ /\ \A i \in X!Ids : mapping[i] # n
              /\ mapping' = [mapping EXCEPT ![n] = n]
              /\ run' = [run EXCEPT !.todo = run.todo \ {n}, !.sprint[n] = run.tickets[n],
                                    !.changed = TRUE]
  BY PulledOf
<1>m. run.pc = "pull" /\ n \in X!Numbers /\ n \in run.todo
  BY <1>n, Zenon
<1>0. /\ n \in X!Ids /\ n # 0 /\ n \in Int /\ n <= last /\ run.tickets[n] \in Int
      /\ run.tickets[n] <= edits /\ \A j \in X!Ids : run.noted[j] = 0
  <2>1. n \in X!Ids /\ n # 0 /\ n \in Int
    BY <1>m DEF X!Numbers, X!Ids
  <2>2. n <= last
    BY <1>m, <1>i DEF NumbersGiven
  <2>3. run.tickets[n] \in Int /\ run.tickets[n] <= edits
    BY <2>1, <1>i DEF SyncTyped
  <2>4. \A j \in X!Ids : run.noted[j] = 0
    BY <1>m, <1>i DEF ImportsNoted
  <2> QED BY <2>1, <2>2, <2>3, <2>4
<1>s. run.sprint \in [X!Ids -> Int] /\ \A j \in X!Ids : run.sprint[j] <= edits
  BY <1>i DEF SyncTyped
<1>u. UNCHANGED <<last, local, issues, tracker, edits, dropped, behind, deleted>>
  BY <1>n
<1>k. \A j \in X!Ids : Kept(j)' <=> Kept(j)
  BY <1>u DEF Kept
<1>p. run.direction = "both" =>
        /\ \A i \in X!Ids, m \in run.todo : Kept(i) /\ mapping[i] = m => run.tickets[m] >= local[i]
        /\ \A i \in X!Ids : Kept(i) /\ run.sprint[i] # X!Missing => run.sprint[i] >= local[i]
  BY <1>m DEF KeptInv, PullKept
<1>1. ASSUME NEW i \in X!Ids, NEW c \in {TRUE, FALSE}, mapping[i] = n, mapping' = mapping,
             run' = [run EXCEPT !.todo = run.todo \ {n},
                                !.sprint[i] = IF run.sprint[i] = X!Missing THEN X!Missing
                                              ELSE run.tickets[n],
                                !.changed = c]
      PROVE  KeptInv'
  <2>v. PICK v \in Int : v = IF run.sprint[i] = X!Missing THEN X!Missing ELSE run.tickets[n]
    BY <1>0, MissingBelow
  <2>1. /\ run'.pc = "pull" /\ run'.todo = run.todo \ {n} /\ run'.tickets = run.tickets
        /\ run'.sprint = [run.sprint EXCEPT ![i] = v] /\ run'.noted = run.noted
        /\ run'.direction = run.direction /\ DOMAIN run' = DOMAIN run
    BY <1>1, <1>m, <2>v, <1>i DEF SyncTyped
  <2>2. /\ run'.sprint \in [X!Ids -> Int] /\ \A j \in X!Ids : j # i => run'.sprint[j] = run.sprint[j]
        /\ run'.sprint[i] = v /\ (v = X!Missing <=> run.sprint[i] = X!Missing \/ run.tickets[n] = X!Missing)
        /\ v <= edits
    BY <2>1, <2>v, <1>s, <1>0
  <2>3. Creators' /\ OneMarked'
    BY <1>1, <1>u, <2>1, QuietStep DEF KeptInv
  <2>4. SyncTyped'
    <3>1. \A j \in X!Ids : run'.sprint[j] <= edits
      BY <2>2, <1>s
    <3> QED BY <1>1, <1>u, <2>1, <2>2, <3>1, <1>m, <1>i DEF SyncTyped
  <2>5. NumbersGiven'
    BY <1>1, <1>u, <2>1, <1>i, <1>m DEF NumbersGiven, Live
  <2>6. \A j \in X!Ids : run'.sprint[j] # X!Missing => run.sprint[j] # X!Missing
    BY <2>2
  <2>7. ImportsNoted'
    <3>1. \A j \in X!Numbers : j \in X!Ids
      BY DEF X!Numbers, X!Ids
    <3>2. \A j \in X!Numbers : local[j] # X!Missing \/ run'.sprint[j] # X!Missing => mapping[j] # 0
      BY <2>6, <3>1, <1>i DEF ImportsNoted
    <3>3. \A m \in X!Numbers : Live(m)' \/ m \in run'.todo => mapping[m] \in {0, m}
      BY <1>u, <2>1, <1>m, <1>i DEF ImportsNoted, Live
    <3> QED BY <1>1, <1>0, <1>u, <2>1, <3>2, <3>3 DEF ImportsNoted
  <2>8. DeletedNoted'
    <3>1. \A j \in X!Numbers : j \in X!Ids
      BY DEF X!Numbers, X!Ids
    <3> QED BY <1>1, <1>u, <1>m, <2>1, <2>6, <3>1, <1>i DEF DeletedNoted
  <2>9. PushKept'
    BY <2>1 DEF PushKept
  <2>10. PullKept'
    <3>1. run.direction = "both" =>
            \A j \in X!Ids : Kept(j) /\ run'.sprint[j] # X!Missing => run'.sprint[j] >= local[j]
      <4> SUFFICES ASSUME run.direction = "both", NEW j \in X!Ids, Kept(j), run'.sprint[j] # X!Missing
                   PROVE  run'.sprint[j] >= local[j]
        OBVIOUS
      <4>1. CASE j # i
        BY <1>p, <2>2, <4>1
      <4>2. CASE j = i
        <5>1. v = run.tickets[n]
          BY <2>2, <2>v, <4>2
        <5> QED BY <1>1, <1>p, <2>2, <4>2, <5>1
      <4> QED BY <4>1, <4>2
    <3>2. run.direction = "both" =>
            \A j \in X!Ids, m \in run'.todo : Kept(j) /\ mapping'[j] = m => run'.tickets[m] >= local[j]
      BY <1>1, <1>p, <2>1
    <3> QED BY <1>k, <1>u, <2>1, <3>1, <3>2 DEF PullKept
  <2> QED BY <2>3, <2>4, <2>5, <2>7, <2>8, <2>9, <2>10 DEF KeptInv, SyncInv
<1>2. ASSUME \A i \in X!Ids : mapping[i] # n, mapping' = [mapping EXCEPT ![n] = n],
             run' = [run EXCEPT !.todo = run.todo \ {n}, !.sprint[n] = run.tickets[n],
                                !.changed = TRUE]
      PROVE  KeptInv'
  <2>1. /\ run'.pc = "pull" /\ run'.todo = run.todo \ {n} /\ run'.tickets = run.tickets
        /\ run'.sprint = [run.sprint EXCEPT ![n] = run.tickets[n]] /\ run'.noted = run.noted
        /\ run'.direction = run.direction /\ DOMAIN run' = DOMAIN run
    BY <1>2, <1>m, <1>i DEF SyncTyped
  <2>2. /\ run'.sprint \in [X!Ids -> Int] /\ \A j \in X!Ids : j # n => run'.sprint[j] = run.sprint[j]
        /\ run'.sprint[n] = run.tickets[n]
    BY <2>1, <1>s, <1>0
  <2>3. /\ mapping' \in [X!Ids -> Int] /\ \A j \in X!Ids : j # n => mapping'[j] = mapping[j]
        /\ mapping'[n] = n
    BY <1>2, <1>0, <1>i DEF SyncTyped
  \* the issue is new to the state file, so the ticket of its number is new to the files
  <2>4. mapping[n] = 0
    BY <1>2, <1>m, <1>0, <1>i DEF ImportsNoted
  <2>5. local[n] = X!Missing /\ run.sprint[n] = X!Missing /\ n \notin deleted
    BY <2>4, <1>m, <1>i DEF ImportsNoted, DeletedNoted
  <2>6. /\ \A j \in X!Ids : ~Claims(j, n)
        /\ \A j \in X!Ids, m \in X!Numbers : Claims(j, m)' <=> Claims(j, m) \/ (j = n /\ m = n)
    <3>1. \A m \in X!Numbers : m # 0
      BY DEF X!Numbers
    <3>2. \A j \in X!Ids : run'.noted[j] = 0 /\ run.noted[j] = 0
      BY <1>0, <2>1
    <3> QED BY <1>2, <1>m, <2>3, <2>4, <3>1, <3>2 DEF Claims
  <2>7. SyncTyped'
    <3>1. \A j \in X!Ids : run'.sprint[j] <= edits
      BY <2>2, <1>s, <1>0
    <3> QED BY <1>u, <2>1, <2>2, <2>3, <3>1, <1>m, <1>i DEF SyncTyped
  <2>8. NumbersGiven'
    <3>1. \A j \in X!Ids : /\ 0 <= mapping'[j] /\ mapping'[j] <= last /\ (mapping'[j] # 0 => j <= last)
      <4>1. 0 <= n
        BY <1>m DEF X!Numbers
      <4> QED BY <2>3, <4>1, <1>0, <1>i DEF NumbersGiven
    <3> QED BY <1>u, <2>1, <3>1, <1>m, <1>i DEF NumbersGiven, Live
  <2>9. ImportsNoted'
    <3>1. \A j \in X!Numbers : j \in X!Ids
      BY DEF X!Numbers, X!Ids
    <3>2. \A j \in X!Numbers : local[j] # X!Missing \/ run'.sprint[j] # X!Missing => mapping'[j] # 0
      BY <2>2, <2>3, <3>1, <1>0, <1>i DEF ImportsNoted
    <3>3. \A m \in X!Numbers : Live(m)' \/ m \in run'.todo => mapping'[m] \in {0, m}
      <4>1. \A m \in X!Numbers : Live(m)' \/ m \in run'.todo => mapping[m] \in {0, m}
        BY <1>u, <2>1, <1>m, <1>i DEF ImportsNoted, Live
      <4> QED BY <2>3, <3>1, <4>1
    <3> QED BY <1>0, <1>u, <2>1, <3>2, <3>3 DEF ImportsNoted
  <2>10. \A m \in X!Numbers : Live(m)' <=> Live(m)
    BY <1>u DEF Live
  <2>11. Creators'
    <3>1. \A i \in X!Ids, m \in X!Numbers : Claims(i, m)' => i <= m
      BY <2>6, <1>0, <1>i DEF Creators
    <3>2. \A i \in X!Ids, m \in X!Numbers : Live(m)' /\ issues'[m].marker = i =>
            /\ i < m /\ (i # 0 => mapping'[i] # 0)
            /\ i \in dropped' \/ Claims(i, m)'
            /\ \A j \in X!Ids : Claims(j, m)' /\ j # m => j = i
      <4> SUFFICES ASSUME NEW i \in X!Ids, NEW m \in X!Numbers, Live(m), issues[m].marker = i
                   PROVE  /\ i < m /\ (i # 0 => mapping'[i] # 0)
                          /\ i \in dropped \/ Claims(i, m)'
                          /\ \A j \in X!Ids : Claims(j, m)' /\ j # m => j = i
        BY <1>u, <2>10
      <4>1. /\ i < m /\ (i # 0 => mapping[i] # 0)
            /\ i \in dropped \/ Claims(i, m)
            /\ \A j \in X!Ids : Claims(j, m) /\ j # m => j = i
        BY <1>i DEF Creators
      <4>2. i # 0 => mapping'[i] # 0
        BY <2>3, <4>1, <1>0
      <4> QED BY <2>6, <4>1, <4>2
    <3>3. \A i \in X!Ids, j \in X!Ids, m \in X!Numbers :
            Claims(i, m)' /\ Claims(j, m)' /\ i # m /\ j # m => i = j
      BY <2>6, <1>i DEF Creators
    <3>4. \A i \in X!Ids, m \in X!Numbers :
            Live(m)' /\ mapping'[m] = m /\ Claims(i, m)' /\ i # m => i \in dropped'
      <4>1. \A m \in X!Numbers : m \in X!Ids /\ (m # n => mapping'[m] = mapping[m])
        BY <2>3 DEF X!Numbers, X!Ids
      <4> QED BY <1>u, <2>6, <2>10, <4>1, <1>i DEF Creators
    <3> QED BY <3>1, <3>2, <3>3, <3>4 DEF Creators
  <2>12. OneMarked'
    <3> SUFFICES ASSUME tracker = "github", NEW i \in X!Ids, NEW m \in X!Numbers, Live(m),
                        issues[m].marker = i, NEW p \in X!Numbers, Live(p),
                        issues[p].marker = i \/ Claims(i, p)'
                 PROVE  p = m
      BY <1>u, <2>10 DEF OneMarked
    <3>1. i # 0 => mapping[i] # 0
      BY <1>i DEF Creators
    <3>2. i # n
      BY <2>4, <3>1, <1>0
    <3>3. issues[p].marker = i \/ Claims(i, p)
      BY <2>6, <3>2
    <3> QED BY <1>i, <3>3 DEF OneMarked
  <2>13. DeletedNoted'
    <3>1. \A j \in X!Numbers : j \in X!Ids
      BY DEF X!Numbers, X!Ids
    <3>2. \A j \in X!Numbers : j \in deleted => j # n /\ local[j] = X!Missing /\ mapping[j] # 0
                                              /\ run.sprint[j] = X!Missing
      BY <2>5, <1>m, <1>i DEF DeletedNoted
    <3> QED BY <1>u, <2>1, <2>2, <2>3, <3>1, <3>2 DEF DeletedNoted
  <2>14. PushKept'
    BY <2>1 DEF PushKept
  <2>15. PullKept'
    <3>1. run.direction = "both" =>
            \A j \in X!Ids : Kept(j) /\ run'.sprint[j] # X!Missing => run'.sprint[j] >= local[j]
      BY <1>p, <2>2, <2>5 DEF Kept
    <3>2. run.direction = "both" =>
            \A j \in X!Ids, m \in run'.todo : Kept(j) /\ mapping'[j] = m => run'.tickets[m] >= local[j]
      BY <1>p, <2>1, <2>3
    <3> QED BY <1>k, <1>u, <2>1, <3>1, <3>2 DEF PullKept
  <2> QED BY <2>7, <2>8, <2>9, <2>11, <2>12, <2>13, <2>14, <2>15 DEF KeptInv, SyncInv
<1> QED BY <1>n, <1>1, <1>2

LEMMA SavePulledStep ==
  ASSUME KeptInv, X!SavePulled
  PROVE  KeptInv'
<1>i. SyncInv /\ SyncTyped /\ DeletedNoted
  BY DEF KeptInv, SyncInv
<1>1. /\ run.pc = "pull" /\ run' = X!NoRun
      /\ local' = IF run.changed THEN [i \in X!Ids |-> X!Saved(i)] ELSE local
      /\ UNCHANGED <<last, issues, mapping, tracker, edits, dropped, behind, deleted>>
  BY DEF X!SavePulled
<1>2. local' \in [X!Ids -> Int] /\ \A i \in X!Ids : local'[i] \in {local[i], run.sprint[i]}
                                                  /\ (run.sprint[i] = X!Missing => local'[i] = local[i])
  <2>1. \A i \in X!Ids : /\ X!Saved(i) \in {local[i], run.sprint[i]}
                         /\ run.sprint[i] = X!Missing => X!Saved(i) = local[i]
    BY DEF X!Saved
  <2>2. CASE run.changed
    <3>1. local' = [i \in X!Ids |-> X!Saved(i)]
      BY <1>1, <2>2
    <3>2. local \in [X!Ids -> Int] /\ run.sprint \in [X!Ids -> Int]
      BY <1>i DEF SyncTyped
    <3> QED BY <2>1, <3>1, <3>2
  <2>3. CASE ~run.changed
    BY <1>1, <1>i, <2>3 DEF SyncTyped
  <2> QED BY <2>2, <2>3
<1>3. \A i \in X!Ids : /\ local'[i] <= edits
                       /\ local'[i] # X!Missing => local[i] # X!Missing \/ run.sprint[i] # X!Missing
  BY <1>2, <1>i DEF SyncTyped
<1>4. \A i \in X!Numbers : i \in deleted => local'[i] = X!Missing
  <2>1. \A j \in X!Numbers : j \in X!Ids
    BY DEF X!Numbers, X!Ids
  <2> QED BY <1>1, <1>2, <2>1, <1>i DEF DeletedNoted
<1> QED BY <1>1, <1>2, <1>3, <1>4, <1>i, RunOver

LEMMA DiesStep ==
  ASSUME KeptInv, X!Dies
  PROVE  KeptInv'
<1>i. SyncInv /\ SyncTyped /\ NumbersGiven /\ ImportsNoted /\ DeletedNoted /\ Creators /\ OneMarked
  BY DEF KeptInv, SyncInv
<1>1. /\ run' = X!NoRun /\ dropped' = dropped \cup {i \in X!Ids : run.noted[i] # 0}
      /\ UNCHANGED <<last, local, issues, mapping, tracker, edits, behind, deleted>>
  BY DEF X!Dies
<1>2. /\ \A i \in X!Ids : run'.noted[i] = 0 /\ run'.sprint[i] = X!Missing
      /\ \A i \in X!Ids, n \in X!Numbers : (Claims(i, n)' => Claims(i, n))
                                           /\ (Claims(i, n) => Claims(i, n)' \/ i \in dropped')
  <2>1. \A i \in X!Ids : run'.noted[i] = 0 /\ run'.sprint[i] = X!Missing
    BY <1>1, NoRunIs
  <2>2. \A n \in X!Numbers : n # 0
    BY DEF X!Numbers
  <2> QED BY <1>1, <2>1, <2>2 DEF Claims
<1>3. \A n \in X!Numbers : Live(n)' <=> Live(n)
  BY <1>1 DEF Live
<1>4. SyncTyped'
  BY <1>1, <1>i, MissingBelow, NoRunIs DEF SyncTyped
<1>5. NumbersGiven'
  BY <1>1, <1>2, <1>i, NoRunIs DEF NumbersGiven, SyncTyped, Live
<1>6. ImportsNoted'
  <2>1. \A i \in X!Numbers : i \in X!Ids
    BY DEF X!Numbers, X!Ids
  <2> QED BY <1>1, <1>2, <1>3, <1>i, <2>1, NoRunIs DEF ImportsNoted
<1>7. Creators'
  BY <1>1, <1>2, <1>3, <1>i DEF Creators
<1>8. OneMarked'
  BY <1>1, <1>2, <1>3, <1>i DEF OneMarked
<1>9. DeletedNoted'
  BY <1>1, <1>i, NoRunIs DEF DeletedNoted
<1>10. PushKept' /\ PullKept'
  BY <1>1, NoRunIs DEF PushKept, PullKept
<1> QED BY <1>4, <1>5, <1>6, <1>7, <1>8, <1>9, <1>10 DEF KeptInv, SyncInv

LEMMA SyncUnchanged ==
  ASSUME KeptInv, UNCHANGED syncVars
  PROVE  KeptInv'
<1>1. UNCHANGED <<local, issues, last, mapping, tracker, run, edits, runs, dropped, orphaned,
                  behind, deleted>>
  BY DEF syncVars
<1>2. SyncTyped' /\ NumbersGiven' /\ ImportsNoted'
  BY <1>1 DEF KeptInv, SyncInv, SyncTyped, NumbersGiven, ImportsNoted, Live
<1>3. Creators' /\ OneMarked' /\ DeletedNoted'
  BY <1>1 DEF KeptInv, SyncInv, Creators, OneMarked, DeletedNoted, Live, Claims
<1>4. PushKept' /\ PullKept'
  BY <1>1 DEF KeptInv, PushKept, PullKept, Kept, InIssue, Live, Claims
<1> QED BY <1>2, <1>3, <1>4 DEF KeptInv, SyncInv

LEMMA SyncStep ==
  ASSUME KeptInv, X!SNext
  PROVE  KeptInv'
<1>1. ASSUME NEW i \in X!Ids, X!PushFails(i) \/ X!UpdateIssue(i) \/ X!CreateIssue(i)
      PROVE  KeptInv'
  BY <1>1, PushFailsStep, UpdateIssueStep, CreateIssueStep
<1> QED BY <1>1, EditLocalStep, EditIssueStep, BeginStep, EndPushStep, LoadStep, ListIssuesStep,
           PullIssueStep, SavePulledStep, DiesStep DEF X!SNext

-----------------------------------------------------------------------------
(* Fields of a ticket and its issue.                                       *)

(* What each tracker has for states, and what it carries.                  *)
LEMMA StatesOf ==
  /\ F!States("github") = {"open", "closed"} /\ F!States("gitlab") = {"opened", "closed"}
  /\ F!States("jira") = {"To Do", "In Progress", "Done"}
  /\ F!States("onedev") = {"Open", "In Progress", "In Review", "Closed"}
  /\ F!States("generic") = F!Planfile
BY Zenon DEF F!States

LEMMA FreshOf ==
  /\ F!Fresh("github") = "open" /\ F!Fresh("gitlab") = "opened" /\ F!Fresh("jira") = "To Do"
  /\ F!Fresh("onedev") = "Open" /\ F!Fresh("generic") = "open"
BY Zenon DEF F!Fresh

LEMMA CarriedOf ==
  /\ F!Carried("github") = {"open"} /\ F!Carried("gitlab") = {} /\ F!Carried("jira") = {}
  /\ F!Carried("onedev") = {"open", "in_progress", "review", "done"}
  /\ F!Carried("generic") = F!Planfile
BY Zenon DEF F!Carried

LEMMA PushedOf ==
  ASSUME F!Push
  PROVE  /\ product = "github" => issue' = F!GitHubUpdates
         /\ product = "gitlab" => issue' = F!GitLabUpdates
         /\ product = "jira" => issue' = F!JiraUpdates
         /\ product = "onedev" => issue' = F!OneDevUpdates
         /\ product = "generic" => issue' = F!GenericUpdates
BY Zenon DEF F!Push

LEMMA PulledFields ==
  ASSUME F!Pull
  PROVE  \E told :
           /\ mine' = [mine EXCEPT !.status = told.status, !.name = told.name, !.labels = told.labels]
           /\ product = "github" => told = F!GitHubTells
           /\ product = "gitlab" => told = F!GitLabTells
           /\ product = "jira" => told = F!JiraTells
           /\ product = "onedev" => told = F!OneDevTells
           /\ product = "generic" => told = F!GenericTells
BY Zenon DEF F!Pull

LEMMA CreatedFields ==
  ASSUME F!CreateIssue
  PROVE  \E labels :
           /\ issue' = [state |-> F!Fresh(product), title |-> mine.name, labels |-> labels]
           /\ product = "github" => labels = F!GitHubCreates
           /\ product = "gitlab" => labels = F!GitLabCreates
           /\ product = "jira" => labels = F!GenericCreates
           /\ product = "onedev" => labels = F!OneDevCreates
           /\ product = "generic" => labels = F!GenericCreates
BY Zenon DEF F!CreateIssue

LEMMA OneDevPushes ==
  /\ mine.status \in {"open", "failed", "blocked"} => F!OneDevUpdates.state = "Open"
  /\ mine.status = "in_progress" => F!OneDevUpdates.state = "In Progress"
  /\ mine.status = "review" => F!OneDevUpdates.state = "In Review"
  /\ mine.status = "done" => F!OneDevUpdates.state = "Closed"
  /\ F!OneDevUpdates.state \in {"Open", "In Progress", "In Review", "Closed"}
  /\ F!OneDevUpdates.title = mine.name /\ F!OneDevUpdates.labels = issue.labels
  /\ DOMAIN F!OneDevUpdates = {"state", "title", "labels"}
BY Zenon DEF F!OneDevUpdates, F!Updated

LEMMA GitLabPushes ==
  /\ F!GitLabUpdates.state \in {"opened", "closed", issue.state}
  /\ F!GitLabUpdates.title = mine.name /\ F!GitLabUpdates.labels = F!Relabel
  /\ DOMAIN F!GitLabUpdates = {"state", "title", "labels"}
BY Zenon DEF F!GitLabUpdates, F!Updated

LEMMA OneDevPulls ==
  /\ issue.state = "Open" => F!OneDevTells.status = "open"
  /\ issue.state = "In Progress" => F!OneDevTells.status = "in_progress"
  /\ issue.state = "In Review" => F!OneDevTells.status = "review"
  /\ issue.state = "Closed" => F!OneDevTells.status = "done"
  /\ F!OneDevTells.status \in {"open", "in_progress", "review", "done"}
  /\ F!OneDevTells.name = issue.title /\ F!OneDevTells.labels = F!OneDevLabels
BY Zenon DEF F!OneDevTells, F!Told

(* The kinds of trackers whose states go to the ticket as they are.        *)
Plain == {"github", "gitlab", "jira"}

(* The status a ticket has once it pulled the state of an issue.           *)
Brings(k, state, status) ==
  /\ k # "onedev" => status = state
  /\ k = "onedev" => /\ state = "Open" => status = "open"
                     /\ state = "In Progress" => status = "in_progress"
                     /\ state = "In Review" => status = "review"
                     /\ state = "Closed" => status = "done"

FieldsTyped ==
  /\ product \in F!Kinds /\ meant \in F!Planfile
  /\ sent \in {"edited", "pushed", "returned"} /\ nameless \in BOOLEAN
  /\ DOMAIN mine = {"status", "name", "labels", "priority", "id"}
  /\ DOMAIN issue = {"state", "title", "labels"}
  /\ \/ mine.status \in F!Planfile \cup {"none"}
     \/ product \in Plain /\ mine.status \in F!States(product)
  /\ issue.state \in F!States(product) \/ (issue = F!NoIssue /\ mine.status # "none")

(* What went to the issue stands in the ticket and, if the tracker can     *)
(* carry it, in the issue.                                                 *)
SentStands ==
  /\ sent = "pushed" => mine.status = meant
  /\ sent # "edited" /\ meant \in F!Carried(product) =>
       /\ mine.status = meant /\ issue.state \in F!States(product)
       /\ \A status : Brings(product, issue.state, status) => status = meant

LabelsStand ==
  /\ ~removed /\ product # "onedev" =>
       /\ mine.status # "none" => F!Person \in mine.labels
       /\ issue.state # "none" => F!Person \in issue.labels
  /\ product = "onedev" => \A l \in issue.labels : ~F!IsPriority(l)
  /\ \/ \E l \in mine.labels : F!IsPriority(l) /\ l \in issue.labels
     \/ \E p : \A l \in issue.labels : F!IsPriority(l) => l = p

NamesStand ==
  /\ mine.status # "none" => mine.name = "name" \/ nameless
  /\ issue.state # "none" => issue.title = "name" \/ nameless

FieldsInv == FieldsTyped /\ SentStands /\ LabelsStand /\ NamesStand

LEMMA StatesNamed ==
  ASSUME NEW k \in F!Kinds
  PROVE  "none" \notin F!States(k)
<1>1. CASE k = "github"
  BY <1>1, StatesOf
<1>2. CASE k = "gitlab"
  BY <1>2, StatesOf
<1>3. CASE k = "jira"
  BY <1>3, StatesOf
<1>4. CASE k = "onedev"
  BY <1>4, StatesOf
<1>5. CASE k = "generic"
  BY <1>5, StatesOf DEF F!Planfile
<1> QED BY <1>1, <1>2, <1>3, <1>4, <1>5 DEF F!Kinds

LEMMA NoIssueIs ==
  F!NoIssue.state = "none" /\ F!NoIssue.labels = {} /\ DOMAIN F!NoIssue = {"state", "title", "labels"}
BY DEF F!NoIssue

LEMMA PersonPlain == ~F!IsPriority(F!Person) /\ \A p : F!IsPriority(F!Priority(p)) /\ ~F!IsPriority(F!AtCreation(p))
BY DEF F!IsPriority, F!Person, F!Priority, F!AtCreation

LEMMA FieldsInit == F!TrackersInit => FieldsInv
<1> SUFFICES ASSUME F!TrackersInit PROVE FieldsInv
  OBVIOUS
<1>1. /\ product \in F!Kinds
      /\ \/ /\ mine = [status |-> "open", name |-> "name", labels |-> {F!Person},
                       priority |-> "high", id |-> TRUE]
            /\ issue = F!NoIssue
         \/ /\ mine = [status |-> "none", name |-> F!NoTitle, labels |-> {},
                       priority |-> "normal", id |-> FALSE]
            /\ issue = [state |-> F!Fresh(product), title |-> "name", labels |-> {F!Person}]
      /\ meant = "open" /\ sent = "edited" /\ nameless = FALSE /\ removed = FALSE
  BY DEF F!TrackersInit
<1>2. F!Fresh(product) \in F!States(product)
  BY <1>1, StatesOf, FreshOf DEF F!Kinds, F!Planfile
<1>3. CASE /\ mine = [status |-> "open", name |-> "name", labels |-> {F!Person},
                      priority |-> "high", id |-> TRUE]
           /\ issue = F!NoIssue
  <2>1. /\ mine.status = "open" /\ mine.name = "name" /\ mine.labels = {F!Person}
        /\ DOMAIN mine = {"status", "name", "labels", "priority", "id"}
    BY <1>3
  <2>2. FieldsTyped
    BY <1>1, <1>3, <2>1, NoIssueIs DEF FieldsTyped, F!Planfile
  <2>3. SentStands
    BY <1>1 DEF SentStands
  <2>4. LabelsStand
    BY <1>3, <2>1, NoIssueIs DEF LabelsStand
  <2>5. NamesStand
    BY <1>3, <2>1, NoIssueIs DEF NamesStand
  <2> QED BY <2>2, <2>3, <2>4, <2>5 DEF FieldsInv
<1>4. CASE /\ mine = [status |-> "none", name |-> F!NoTitle, labels |-> {},
                      priority |-> "normal", id |-> FALSE]
           /\ issue = [state |-> F!Fresh(product), title |-> "name", labels |-> {F!Person}]
  <2>1. /\ mine.status = "none" /\ mine.labels = {}
        /\ DOMAIN mine = {"status", "name", "labels", "priority", "id"}
        /\ issue.state = F!Fresh(product) /\ issue.title = "name" /\ issue.labels = {F!Person}
        /\ DOMAIN issue = {"state", "title", "labels"}
    BY <1>4
  <2>2. FieldsTyped
    BY <1>1, <1>2, <2>1 DEF FieldsTyped, F!Planfile
  <2>3. SentStands
    BY <1>1 DEF SentStands
  <2>4. LabelsStand
    BY <2>1, PersonPlain DEF LabelsStand
  <2>5. NamesStand
    BY <2>1 DEF NamesStand
  <2> QED BY <2>2, <2>3, <2>4, <2>5 DEF FieldsInv
<1> QED BY <1>1, <1>3, <1>4

(* People's steps.                                                         *)
LEMMA WorkStep ==
  ASSUME FieldsInv, NEW status \in F!Planfile, F!Work(status)
  PROVE  FieldsInv'
<1>1. /\ mine.status \in F!Planfile /\ mine' = [mine EXCEPT !.status = status]
      /\ meant' = status /\ sent' = "edited"
      /\ UNCHANGED <<product, issue, nameless, removed>>
  BY DEF F!Work, F!Readable
<1>i. FieldsTyped /\ LabelsStand /\ NamesStand
  BY DEF FieldsInv
<1>2. /\ mine'.status = status /\ mine'.labels = mine.labels /\ mine'.name = mine.name
      /\ DOMAIN mine' = DOMAIN mine
  BY <1>1, <1>i DEF FieldsTyped
<1>3. mine.status # "none" /\ status # "none"
  BY <1>1 DEF F!Planfile
<1>4. FieldsTyped'
  BY <1>1, <1>2, <1>3, <1>i DEF FieldsTyped
<1>5. SentStands'
  BY <1>1 DEF SentStands
<1>6. LabelsStand' /\ NamesStand'
  BY <1>1, <1>2, <1>3, <1>i DEF LabelsStand, NamesStand
<1> QED BY <1>4, <1>5, <1>6 DEF FieldsInv

LEMMA ReprioritizeStep ==
  ASSUME FieldsInv, NEW p, F!Reprioritize(p)
  PROVE  FieldsInv'
<1>1. /\ mine' = [mine EXCEPT !.priority = p]
      /\ UNCHANGED <<product, issue, meant, sent, nameless, removed>>
  BY DEF F!Reprioritize
<1>2. /\ mine'.status = mine.status /\ mine'.labels = mine.labels /\ mine'.name = mine.name
      /\ DOMAIN mine' = DOMAIN mine
  BY <1>1 DEF FieldsInv, FieldsTyped
<1> QED BY <1>1, <1>2 DEF FieldsInv, FieldsTyped, SentStands, LabelsStand, NamesStand

LEMMA TakeLabelOffStep ==
  ASSUME FieldsInv, F!TakeLabelOff
  PROVE  FieldsInv'
<1>1. /\ mine' = [mine EXCEPT !.labels = mine.labels \ {F!Person}] /\ removed' = TRUE
      /\ UNCHANGED <<product, issue, meant, sent, nameless>>
  BY DEF F!TakeLabelOff
<1>i. FieldsTyped /\ SentStands /\ LabelsStand /\ NamesStand
  BY DEF FieldsInv
<1>2. /\ mine'.status = mine.status /\ mine'.labels = mine.labels \ {F!Person}
      /\ mine'.name = mine.name /\ DOMAIN mine' = DOMAIN mine
  BY <1>1, <1>i DEF FieldsTyped
<1>3. LabelsStand'
  BY <1>1, <1>2, <1>i, PersonPlain DEF LabelsStand
<1>4. SentStands'
  BY <1>1, <1>2, <1>i DEF SentStands
<1> QED BY <1>1, <1>2, <1>3, <1>4, <1>i DEF FieldsInv, FieldsTyped, NamesStand

LEMMA SetStateStep ==
  ASSUME FieldsInv, NEW state \in F!States(product), F!SetState(state)
  PROVE  FieldsInv'
<1>1. /\ issue # F!NoIssue /\ issue' = [issue EXCEPT !.state = state] /\ sent' = "edited"
      /\ UNCHANGED <<product, mine, meant, nameless, removed>>
  BY DEF F!SetState
<1>i. FieldsTyped /\ LabelsStand /\ NamesStand
  BY DEF FieldsInv
<1>2. /\ issue'.state = state /\ issue'.labels = issue.labels /\ issue'.title = issue.title
      /\ DOMAIN issue' = DOMAIN issue
  BY <1>1, <1>i DEF FieldsTyped
<1>3. issue.state # "none"
  BY <1>1, <1>i, StatesNamed DEF FieldsTyped
<1>4. FieldsTyped' /\ SentStands'
  BY <1>1, <1>2, <1>i DEF FieldsTyped, SentStands
<1>5. LabelsStand' /\ NamesStand'
  BY <1>1, <1>2, <1>3, <1>i DEF LabelsStand, NamesStand
<1> QED BY <1>4, <1>5 DEF FieldsInv

LEMMA CreateFieldsStep ==
  ASSUME FieldsInv, F!CreateIssue
  PROVE  FieldsInv'
<1>i. FieldsTyped /\ SentStands /\ LabelsStand /\ NamesStand
  BY DEF FieldsInv
<1>1. PICK labels :
        /\ issue' = [state |-> F!Fresh(product), title |-> mine.name, labels |-> labels]
        /\ product = "github" => labels = F!GitHubCreates
        /\ product = "gitlab" => labels = F!GitLabCreates
        /\ product = "jira" => labels = F!GenericCreates
        /\ product = "onedev" => labels = F!OneDevCreates
        /\ product = "generic" => labels = F!GenericCreates
  BY CreatedFields
<1>2. issue = F!NoIssue /\ UNCHANGED <<product, mine, meant, sent, nameless, removed>>
  BY DEF F!CreateIssue
<1>3. /\ issue'.state = F!Fresh(product) /\ issue'.title = mine.name /\ issue'.labels = labels
      /\ DOMAIN issue' = {"state", "title", "labels"}
  BY <1>1
<1>4. F!Fresh(product) \in F!States(product) /\ mine.status # "none"
  <2>1. F!Fresh(product) \in F!States(product)
    BY <1>i, StatesOf, FreshOf DEF FieldsTyped, F!Kinds, F!Planfile
  <2>2. issue.state \notin F!States(product)
    BY <1>2, <1>i, StatesNamed, NoIssueIs DEF FieldsTyped
  <2> QED BY <1>i, <2>1, <2>2 DEF FieldsTyped
<1>5. FieldsTyped'
  BY <1>2, <1>3, <1>4, <1>i DEF FieldsTyped
<1>6. SentStands'
  <2>1. issue.state \notin F!States(product)
    BY <1>2, <1>i, StatesNamed, NoIssueIs DEF FieldsTyped
  <2>2. ~(sent # "edited" /\ meant \in F!Carried(product))
    BY <1>i, <2>1 DEF SentStands
  <2> QED BY <1>2, <1>i, <2>2 DEF SentStands
<1>7. LabelsStand'
  <2>1. ~removed /\ product # "onedev" => F!Person \in mine.labels /\ F!Person \in labels
    BY <1>1, <1>4, <1>i, PersonPlain
    DEF FieldsTyped, F!Kinds, LabelsStand, F!GitHubCreates, F!GitLabCreates, F!GenericCreates
  <2>2. product = "onedev" => labels = {}
    BY <1>1 DEF F!OneDevCreates
  <2>3. \/ \E l \in mine.labels : F!IsPriority(l) /\ l \in labels
        \/ \E p : \A l \in labels : F!IsPriority(l) => l = p
    <3>1. CASE product = "github"
      BY <1>1, <3>1, PersonPlain DEF F!GitHubCreates
    <3>2. CASE product = "gitlab"
      <4>1. labels = mine.labels \cup {F!Priority(mine.priority)}
        BY <1>1, <3>2 DEF F!GitLabCreates
      <4> QED BY <4>1
    <3>3. CASE product \in {"jira", "generic"}
      <4>1. labels = mine.labels
        BY <1>1, <3>3 DEF F!GenericCreates
      <4> QED BY <4>1
    <3>4. CASE product = "onedev"
      BY <2>2, <3>4
    <3> QED BY <1>i, <3>1, <3>2, <3>3, <3>4 DEF FieldsTyped, F!Kinds
  <2> QED BY <1>2, <1>3, <2>1, <2>2, <2>3 DEF LabelsStand
<1>8. NamesStand'
  BY <1>2, <1>3, <1>4, <1>i DEF NamesStand
<1> QED BY <1>5, <1>6, <1>7, <1>8 DEF FieldsInv

(* What a push leaves in the issue.                                        *)
LEMMA PushShape ==
  ASSUME FieldsInv, F!Push
  PROVE  /\ DOMAIN issue' = {"state", "title", "labels"} /\ issue'.title = mine.name
         /\ issue'.state \in F!States(product)
         /\ mine.status \in F!Carried(product) =>
              \A status : Brings(product, issue'.state, status) => status = mine.status
         /\ product \in {"github", "gitlab"} => issue'.labels = F!Relabel
         /\ product \in {"jira", "generic"} => issue'.labels = mine.labels
         /\ product = "onedev" => issue'.labels = issue.labels
<1>i. FieldsTyped
  BY DEF FieldsInv
<1>0. issue.state \in F!States(product) /\ mine.status # "none"
  BY <1>i DEF F!Push, F!Born, FieldsTyped
<1>1. CASE product = "github"
  <2>1. /\ issue'.state = IF mine.status \in {"open", "closed"} THEN mine.status ELSE issue.state
        /\ issue'.title = mine.name /\ issue'.labels = F!Relabel
        /\ DOMAIN issue' = {"state", "title", "labels"}
    BY <1>1, PushedOf DEF F!GitHubUpdates, F!Updated
  <2>2. issue'.state \in F!States(product)
    BY <1>0, <1>1, <2>1, StatesOf
  <2>3. mine.status \in F!Carried(product) => mine.status = "open"
    BY <1>1, CarriedOf
  <2>4. mine.status \in F!Carried(product) =>
          \A status : Brings(product, issue'.state, status) => status = mine.status
    <3>1. mine.status = "open" => issue'.state = mine.status
      BY <2>1
    <3>2. \A state, status : Brings(product, state, status) => status = state
      BY <1>1 DEF Brings
    <3> QED BY <2>3, <3>1, <3>2
  <2> QED BY <1>1, <2>1, <2>2, <2>4
<1>2. CASE product = "gitlab"
  <2>1. issue' = F!GitLabUpdates
    BY <1>2, PushedOf
  <2>2. issue'.state \in F!States(product)
    BY <1>0, <1>2, <2>1, StatesOf, GitLabPushes
  <2> QED BY <1>2, <2>1, <2>2, CarriedOf, GitLabPushes
<1>3. CASE product = "jira"
  <2>1. /\ issue'.state = IF mine.status \in {"done", "Done"} THEN "Done" ELSE issue.state
        /\ issue'.title = mine.name /\ issue'.labels = mine.labels
        /\ DOMAIN issue' = {"state", "title", "labels"}
    BY <1>3, PushedOf DEF F!JiraUpdates, F!Updated
  <2>2. issue'.state \in F!States(product)
    BY <1>0, <1>3, <2>1, StatesOf
  <2> QED BY <1>3, <2>1, <2>2, CarriedOf
<1>4. CASE product = "onedev"
  <2>1. issue' = F!OneDevUpdates
    BY <1>4, PushedOf
  <2>2. issue'.state \in F!States(product)
    BY <1>4, <2>1, StatesOf, OneDevPushes
  <2>3. mine.status \in F!Carried(product) =>
          \A status : Brings(product, issue'.state, status) => status = mine.status
    <3>1. \A state, status : Brings(product, state, status) =>
            /\ state = "Open" => status = "open"
            /\ state = "In Progress" => status = "in_progress"
            /\ state = "In Review" => status = "review"
            /\ state = "Closed" => status = "done"
      BY <1>4 DEF Brings
    <3>2. mine.status \in F!Carried(product) =>
            mine.status \in {"open", "in_progress", "review", "done"}
      BY <1>4, CarriedOf
    <3>3. /\ mine.status = "open" => issue'.state = "Open"
          /\ mine.status = "in_progress" => issue'.state = "In Progress"
          /\ mine.status = "review" => issue'.state = "In Review"
          /\ mine.status = "done" => issue'.state = "Closed"
      BY <2>1, OneDevPushes
    <3> SUFFICES ASSUME mine.status \in F!Carried(product), NEW status,
                        Brings(product, issue'.state, status)
                 PROVE  status = mine.status
      OBVIOUS
    <3>4. /\ issue'.state = "Open" => status = "open"
          /\ issue'.state = "In Progress" => status = "in_progress"
          /\ issue'.state = "In Review" => status = "review"
          /\ issue'.state = "Closed" => status = "done"
      BY <3>1
    <3> QED BY <3>2, <3>3, <3>4
  <2> QED BY <1>4, <2>1, <2>2, <2>3, OneDevPushes
<1>5. CASE product = "generic"
  <2>1. /\ issue'.state = mine.status /\ issue'.title = mine.name /\ issue'.labels = mine.labels
        /\ DOMAIN issue' = {"state", "title", "labels"}
    BY <1>5, PushedOf DEF F!GenericUpdates, F!Updated
  <2>2. issue'.state \in F!States(product)
    BY <1>0, <1>i, <1>5, <2>1, StatesOf DEF FieldsTyped, Plain
  <2> QED BY <1>5, <2>1, <2>2 DEF Brings
<1> QED BY <1>i, <1>1, <1>2, <1>3, <1>4, <1>5 DEF FieldsTyped, F!Kinds

LEMMA PushFieldsStep ==
  ASSUME FieldsInv, F!Push
  PROVE  FieldsInv'
<1>i. FieldsTyped /\ SentStands /\ LabelsStand /\ NamesStand
  BY DEF FieldsInv
<1>1. /\ DOMAIN issue' = {"state", "title", "labels"} /\ issue'.title = mine.name
      /\ issue'.state \in F!States(product)
      /\ mine.status \in F!Carried(product) =>
           \A status : Brings(product, issue'.state, status) => status = mine.status
      /\ product \in {"github", "gitlab"} => issue'.labels = F!Relabel
      /\ product \in {"jira", "generic"} => issue'.labels = mine.labels
      /\ product = "onedev" => issue'.labels = issue.labels
  BY PushShape
<1>2. /\ mine.status # "none" /\ issue # F!NoIssue
      /\ mine' = IF product = "github" /\ mine.labels # {}
                 THEN [mine EXCEPT !.labels = mine.labels \cup {F!Priority(mine.priority)}]
                 ELSE mine
      /\ sent' = IF mine.status = meant THEN "pushed" ELSE sent
      /\ UNCHANGED <<product, meant, nameless, removed>>
  BY DEF F!Push, F!Born
<1>3. issue.state \in F!States(product) /\ issue.state # "none" /\ issue'.state # "none"
  BY <1>1, <1>2, <1>i, StatesNamed DEF FieldsTyped
<1>4. /\ mine'.status = mine.status /\ mine'.name = mine.name
      /\ DOMAIN mine' = DOMAIN mine /\ mine.labels \subseteq mine'.labels
      /\ product = "github" /\ mine.labels # {} => F!Priority(mine.priority) \in mine'.labels
  <2>1. CASE product = "github" /\ mine.labels # {}
    <3>1. mine' = [mine EXCEPT !.labels = mine.labels \cup {F!Priority(mine.priority)}]
      BY <1>2, <2>1
    <3> QED BY <3>1, <1>i DEF FieldsTyped
  <2>2. CASE ~(product = "github" /\ mine.labels # {})
    BY <1>2, <2>2
  <2> QED BY <2>1, <2>2
<1>5. FieldsTyped'
  BY <1>1, <1>2, <1>4, <1>i DEF FieldsTyped
<1>6. SentStands'
  <2>1. sent' = "pushed" => mine'.status = meant
    BY <1>2, <1>4, <1>i DEF SentStands
  <2>2. sent' # "edited" /\ meant \in F!Carried(product) => mine.status = meant
    BY <1>2, <1>i DEF SentStands
  <2> QED BY <1>1, <1>2, <1>4, <2>1, <2>2 DEF SentStands
<1>7. LabelsStand'
  <2>1. ~removed /\ product # "onedev" => F!Person \in mine'.labels /\ F!Person \in issue'.labels
    <3>1. ~removed /\ product # "onedev" => F!Person \in mine.labels
      BY <1>2, <1>i DEF LabelsStand
    <3>2. mine.labels \subseteq F!Relabel
      BY DEF F!Relabel
    <3> QED BY <1>1, <1>4, <1>i, <3>1, <3>2 DEF FieldsTyped, F!Kinds
  <2>2. product = "onedev" => \A l \in issue'.labels : ~F!IsPriority(l)
    BY <1>1, <1>i DEF LabelsStand
  <2>3. \/ \E l \in mine'.labels : F!IsPriority(l) /\ l \in issue'.labels
        \/ \E p : \A l \in issue'.labels : F!IsPriority(l) => l = p
    <3>1. CASE product \in {"github", "gitlab"}
      <4>1. \A l \in F!Relabel : F!IsPriority(l) => l \in mine.labels \/ l = F!Priority(mine.priority)
        BY DEF F!Relabel
      <4>2. mine.labels \subseteq F!Relabel
        BY DEF F!Relabel
      <4> QED BY <1>1, <1>4, <3>1, <4>1, <4>2
    <3>2. CASE product \in {"jira", "generic"}
      BY <1>1, <1>4, <3>2
    <3>3. CASE product = "onedev"
      BY <2>2, <3>3
    <3> QED BY <1>i, <3>1, <3>2, <3>3 DEF FieldsTyped, F!Kinds
  <2> QED BY <1>2, <1>4, <2>1, <2>2, <2>3 DEF LabelsStand
<1>8. NamesStand'
  BY <1>1, <1>2, <1>4, <1>i DEF NamesStand
<1> QED BY <1>5, <1>6, <1>7, <1>8 DEF FieldsInv

LEMMA PullFieldsStep ==
  ASSUME FieldsInv, F!Pull
  PROVE  FieldsInv'
<1>i. FieldsTyped /\ SentStands /\ LabelsStand /\ NamesStand
  BY DEF FieldsInv
<1>1. PICK told :
        /\ mine' = [mine EXCEPT !.status = told.status, !.name = told.name, !.labels = told.labels]
        /\ product = "github" => told = F!GitHubTells
        /\ product = "gitlab" => told = F!GitLabTells
        /\ product = "jira" => told = F!JiraTells
        /\ product = "onedev" => told = F!OneDevTells
        /\ product = "generic" => told = F!GenericTells
  BY PulledFields
<1>2. /\ issue # F!NoIssue /\ sent' = IF sent = "pushed" THEN "returned" ELSE sent
      /\ nameless' = (nameless \/ product \notin {"github", "onedev"})
      /\ UNCHANGED <<product, issue, meant, removed>>
  BY DEF F!Pull
<1>3. issue.state \in F!States(product) /\ issue.state # "none"
  BY <1>2, <1>i, StatesNamed DEF FieldsTyped
<1>4. /\ mine'.status = told.status /\ mine'.name = told.name /\ mine'.labels = told.labels
      /\ DOMAIN mine' = DOMAIN mine
  BY <1>1, <1>i DEF FieldsTyped
<1>5. /\ Brings(product, issue.state, told.status)
      /\ product # "onedev" => told.labels = issue.labels
      /\ product \in {"github", "onedev"} => told.name = issue.title
      /\ told.status # "none"
      /\ told.status \in F!Planfile \/ (product \in Plain /\ told.status \in F!States(product))
  <2>1. CASE product = "onedev"
    <3>1. told = F!OneDevTells
      BY <1>1, <2>1
    <3>2. told.status \in F!Planfile /\ told.status # "none"
      BY <3>1, OneDevPulls DEF F!Planfile
    <3>3. Brings(product, issue.state, told.status)
      BY <2>1, <3>1, OneDevPulls DEF Brings
    <3> QED BY <2>1, <3>1, <3>2, <3>3, OneDevPulls
  <2>2. CASE product \in {"github", "gitlab", "jira", "generic"}
    <3>1. told.status = issue.state /\ told.labels = issue.labels
          /\ (product = "github" => told.name = issue.title)
      BY <1>1, <2>2 DEF F!GitHubTells, F!GitLabTells, F!JiraTells, F!GenericTells, F!Told
    <3> QED BY <1>3, <2>2, <3>1, StatesOf DEF Brings, Plain
  <2> QED BY <1>i, <2>1, <2>2 DEF FieldsTyped, F!Kinds
<1>6. FieldsTyped'
  BY <1>2, <1>3, <1>4, <1>5, <1>i DEF FieldsTyped
<1>7. SentStands'
  <2>1. sent' # "pushed" /\ (sent' # "edited" => sent # "edited")
    BY <1>2
  <2>2. sent # "edited" /\ meant \in F!Carried(product) => told.status = meant
    BY <1>5, <1>i DEF SentStands
  <2> QED BY <1>2, <1>4, <2>1, <2>2, <1>i DEF SentStands
<1>8. LabelsStand'
  BY <1>2, <1>3, <1>4, <1>5, <1>i DEF LabelsStand
<1>9. NamesStand'
  <2>1. product \in {"github", "onedev"} \/ nameless'
    BY <1>2
  <2> QED BY <1>2, <1>3, <1>4, <1>5, <1>i, <2>1 DEF NamesStand
<1> QED BY <1>6, <1>7, <1>8, <1>9 DEF FieldsInv

LEMMA FieldsStep ==
  ASSUME FieldsInv, F!TrackersNext
  PROVE  FieldsInv'
BY WorkStep, ReprioritizeStep, TakeLabelOffStep, SetStateStep, CreateFieldsStep, PushFieldsStep,
   PullFieldsStep DEF F!TrackersNext

(* One element at most, as its invariant says it, is one as a count.       *)
LEMMA AtMostOne ==
  ASSUME NEW S, \A x, y \in S : x = y
  PROVE  Cardinality(S) <= 1
<1>1. CASE S = {}
  BY <1>1, FS_EmptySet
<1>2. CASE S # {}
  <2>1. PICK x : S = {x}
    BY <1>2
  <2> QED BY <2>1, FS_Singleton
<1> QED BY <1>1, <1>2

LEMMA FieldsTold ==
  ASSUME FieldsInv
  PROVE  F!StatusComesBack /\ F!StaysReadable /\ F!NameStays /\ F!LabelStays /\ F!OnePriority
<1>i. FieldsTyped /\ SentStands /\ LabelsStand /\ NamesStand
  BY DEF FieldsInv
<1>1. F!StatusComesBack
  BY <1>i DEF SentStands, F!StatusComesBack
<1>2. F!StaysReadable
  BY <1>i DEF FieldsTyped, Plain, F!StaysReadable, F!Born, F!Readable
<1>3. F!NameStays
  BY <1>i, StatesNamed DEF FieldsTyped, NamesStand, F!NameStays, F!Born
<1>4. F!LabelStays
  BY <1>i DEF LabelsStand, F!LabelStays, F!Born
<1>5. F!OnePriority
  <2>1. PICK S : S = {l \in issue.labels : F!IsPriority(l)}
    OBVIOUS
  <2>2. CASE \E p : \A l \in issue.labels : F!IsPriority(l) => l = p
    <3>1. \A x, y \in S : x = y
      BY <2>1, <2>2
    <3>2. IsFiniteSet(S)
      <4>1. PICK p : S \subseteq {p}
        BY <2>1, <2>2
      <4>2. IsFiniteSet({p})
        BY FS_Singleton
      <4> QED BY <4>1, <4>2, FS_Subset
    <3>3. Cardinality(S) <= 1 /\ Cardinality(S) \in Nat
      BY <3>1, <3>2, AtMostOne, FS_CardinalityType
    <3>4. ~(Cardinality(S) > 1)
      BY <3>3
    <3> QED BY <2>1, <3>4 DEF F!OnePriority, F!Cardinality, Cardinality
  <2>3. CASE \E l \in mine.labels : F!IsPriority(l) /\ l \in issue.labels
    BY <2>3 DEF F!OnePriority
  <2> QED BY <1>i, <2>2, <2>3 DEF LabelsStand
<1> QED BY <1>1, <1>2, <1>3, <1>4, <1>5

(* A save of what was pulled keeps what the run's push had brought.        *)
LEMMA PullKeeps ==
  ASSUME KeptInv, X!SNext, run.pc = "pull", run'.pc = "off", run.direction = "both",
         NEW i \in X!Ids \ (behind \cup dropped)
  PROVE  local'[i] = X!Missing \/ local[i] = X!Missing \/ local'[i] >= local[i]
<1>i. SyncTyped /\ PullKept
  BY DEF KeptInv, SyncInv
<1>0. local[i] \in Int
  BY <1>i DEF SyncTyped
<1>1. X!SavePulled \/ X!Dies
  <2>1. ~X!EditLocal /\ ~X!EditIssue
    BY DEF X!EditLocal, X!EditIssue
  <2>2. ~X!BeginSync /\ ~X!EndPush /\ ~X!LoadSprint /\ ~X!ListIssues
    BY DEF X!BeginSync, X!Begins, X!EndPush, X!LoadSprint, X!ListIssues
  <2>3. ~X!PullIssue
    <3> SUFFICES ASSUME X!PullIssue PROVE FALSE
      OBVIOUS
    <3> QED BY PulledOf
  <2>4. \A j \in X!Ids : ~X!PushFails(j) /\ ~X!UpdateIssue(j) /\ ~X!CreateIssue(j)
    BY DEF X!PushFails, X!UpdateIssue, X!CreateIssue, X!Creating, X!Turn
  <2> QED BY <2>1, <2>2, <2>3, <2>4 DEF X!SNext
<1>2. CASE X!Dies
  BY <1>0, <1>2 DEF X!Dies
<1>3. CASE X!SavePulled
  <2>1. local' = IF run.changed THEN [j \in X!Ids |-> X!Saved(j)] ELSE local
    BY <1>3 DEF X!SavePulled
  <2>2. local'[i] = local[i] \/ (local'[i] = run.sprint[i] /\ run.sprint[i] # X!Missing)
    BY <2>1 DEF X!Saved
  <2>3. local[i] # X!Missing /\ run.sprint[i] # X!Missing => run.sprint[i] >= local[i]
    BY <1>i DEF PullKept, Kept
  <2> QED BY <1>0, <2>2, <2>3
<1> QED BY <1>1, <1>2, <1>3

(* Whoever edits, fails or dies on either side, the pull of a run in both  *)
(* directions overwrites no newer content of a ticket that its push had    *)
(* brought to an issue of its own.                                         *)
THEOREM PullKeepsEditsCorrect == ProtocolsSpec => PullKeepsEdits
<1>1. ProtocolsInit => KeptInv
  BY SyncInit DEF ProtocolsInit
<1>2. [ProtocolsNext]_protocolVars => X!SNext \/ UNCHANGED syncVars
  BY DEF ProtocolsNext, protocolVars
<1>3. KeptInv /\ [ProtocolsNext]_protocolVars => KeptInv'
  BY <1>2, SyncStep, SyncUnchanged
<1>4. KeptInv /\ [ProtocolsNext]_protocolVars =>
        [run.pc = "pull" /\ run'.pc = "off" /\ run.direction = "both" =>
           \A i \in X!Ids \ (behind \cup dropped) :
             local'[i] = X!Missing \/ local[i] = X!Missing \/ local'[i] >= local[i]]_(X!syncVars)
  BY <1>2, PullKeeps DEF syncVars, X!syncVars
<1> QED BY <1>1, <1>3, <1>4, PTL DEF ProtocolsSpec, PullKeepsEdits, X!PullKeepsEdits

LEMMA SyncTold ==
  ASSUME KeptInv
  PROVE  X!OneIssuePerTicket /\ X!OneTicketPerIssue /\ X!DeletedStaysAway
<1>i. Creators /\ OneMarked /\ DeletedNoted
  BY DEF KeptInv, SyncInv
<1>1. X!OneIssuePerTicket
  <2> SUFFICES ASSUME tracker = "github", NEW i \in X!Ids PROVE X!Cardinality(X!MadeFor(i)) <= 1
    BY DEF X!OneIssuePerTicket
  <2>1. \A n, m \in X!MadeFor(i) : n = m
    <3> SUFFICES ASSUME NEW n \in X!MadeFor(i), NEW m \in X!MadeFor(i) PROVE n = m
      OBVIOUS
    <3>1. /\ n \in X!Numbers /\ Live(n) /\ (issues[n].marker = i \/ mapping[i] = n)
          /\ m \in X!Numbers /\ Live(m) /\ (issues[m].marker = i \/ mapping[i] = m)
      BY DEF X!MadeFor, Live
    <3> QED BY <1>i, <3>1 DEF OneMarked, Claims
  <2> QED BY <2>1, AtMostOne DEF X!Cardinality, Cardinality
<1>2. X!OneTicketPerIssue
  <2> SUFFICES ASSUME NEW n \in X!Numbers, NEW i \in X!Owners(n), NEW j \in X!Owners(n), i # j, Live(n)
               PROVE  {i, j} \cap dropped # {}
    BY DEF X!OneTicketPerIssue, Live
  <2>1. i \in X!Ids /\ mapping[i] = n /\ j \in X!Ids /\ mapping[j] = n
    BY DEF X!Owners
  <2>2. i = n \/ j = n
    BY <1>i, <2>1 DEF Creators, Claims
  <2>3. i \in dropped \/ j \in dropped
    BY <1>i, <2>1, <2>2 DEF Creators, Claims
  <2> QED BY <2>3
<1>3. X!DeletedStaysAway
  BY <1>i DEF DeletedNoted, X!DeletedStaysAway
<1> QED BY <1>1, <1>2, <1>3

(* However often planfile sync is run, fails and dies, a ticket and an     *)
(* issue belong to each other and a deleted ticket stays away; and however *)
(* often its fields travel, they come back as a person meant them.         *)
THEOREM TrackersInStepCorrect == ProtocolsSpec => []TrackersInStep
<1>1. ProtocolsInit => KeptInv /\ FieldsInv
  BY SyncInit, FieldsInit DEF ProtocolsInit
<1>2. KeptInv /\ [ProtocolsNext]_protocolVars => KeptInv'
  <2>1. [ProtocolsNext]_protocolVars => X!SNext \/ UNCHANGED syncVars
    BY DEF ProtocolsNext, protocolVars
  <2> QED BY <2>1, SyncStep, SyncUnchanged
<1>3. FieldsInv /\ [ProtocolsNext]_protocolVars => FieldsInv'
  <2>1. [ProtocolsNext]_protocolVars => F!TrackersNext \/ UNCHANGED fieldVars
    BY DEF ProtocolsNext, protocolVars
  <2>2. FieldsInv /\ UNCHANGED fieldVars => FieldsInv'
    BY DEF fieldVars, FieldsInv, FieldsTyped, SentStands, LabelsStand, NamesStand
  <2> QED BY <2>1, <2>2, FieldsStep
<1>4. KeptInv /\ FieldsInv => TrackersInStep
  BY SyncTold, FieldsTold DEF TrackersInStep
<1> QED BY <1>1, <1>2, <1>3, <1>4, PTL DEF ProtocolsSpec

-----------------------------------------------------------------------------
LEMMA LeastOf ==
  ASSUME NEW Good \in SUBSET Nat, Good # {}
  PROVE  \E n \in Good : \A m \in Good : n <= m
<1>1. IsWellFoundedOn(OpToRel(<, Nat), Nat)
  BY NatLessThanWellFounded
<1>2. PICK n \in Good : \A m \in Good : ~(<<m, n>> \in OpToRel(<, Nat))
  BY <1>1, WFMin, Zenon
<1>3. \A m \in Good : ~(m < n)
  BY <1>2 DEF OpToRel
<1> QED BY <1>3

(* Induction, with a set in the place of a predicate.                      *)
LEMMA Upwards ==
  ASSUME NEW N \in Nat, NEW Good, 0 \in Good, \A n \in 1..N : n - 1 \in Good => n \in Good
  PROVE  \A n \in 0..N : n \in Good
<1> DEFINE Bad == {n \in 0..N : n \notin Good}
<1>1. Bad \in SUBSET Nat
  OBVIOUS
<1>2. ASSUME NEW n \in Bad, \A m \in Bad : n <= m PROVE FALSE
  <2>1. n \in 1..N
    BY <1>2
  <2>2. n - 1 \in 0..N /\ n - 1 \notin Bad
    BY <1>2, <2>1
  <2> QED BY <1>2, <2>1, <2>2
<1> HIDE DEF Bad
<1>3. Bad = {}
  BY <1>1, <1>2, LeastOf
<1> QED BY <1>3 DEF Bad

-----------------------------------------------------------------------------
(* Delivery plans.  What the state file binds, blocks and completes is     *)
(* what the tickets say, but for what an operation under way has yet to    *)
(* write, and what one that died has written ahead.                        *)
Keys == D!Keys
NodeIs(x) ==
  x = [status |-> x.status, name |-> x.name, parent |-> x.parent, children |-> x.children,
       dependsOn |-> x.dependsOn, checkpoints |-> x.checkpoints, receipt |-> x.receipt]
FieldsAre(t) ==
  t = [status |-> t.status, receipt |-> t.receipt, blockedBy |-> t.blockedBy,
       parent |-> t.parent, children |-> t.children]
TicketIs(t) ==
  /\ FieldsAre(t)
  /\ t # D!Absent => t.status \in {"open", "done"}
There(id) == tickets[id] # D!Absent
Names == Keys \X (1..MaxTries)
PlanIs ==
  /\ plan \in Plans /\ D!Accepted(plan)
  /\ tickets = [id \in Names |-> tickets[id]] /\ \A id \in Names : TicketIs(tickets[id])
OneTicket ==
  \A k \in Keys : \A i, j \in 1..MaxTries : There(<<k, i>>) /\ There(<<k, j>>) => i = j

(* Before there is a state file, a ticket comes after those that block it. *)
Founders(k) == {id \in Names : id[1] \in plan.deps[k] /\ There(id)}
Founded(k, t) ==
  /\ \A d \in plan.deps[k] : \E id \in Names : id[1] = d /\ There(id)
  /\ t.blockedBy = Founders(k)
  /\ plan.kind[k] = "terminal" => t.status = "done" /\ t.receipt = 1
AllFounded == \A id \in Names : There(id) => Founded(id[1], tickets[id])

(* The nodes of a state file, and what they say of the plan.               *)
NodesAre(f) ==
  /\ f = [k \in Keys |-> f[k]]
  /\ \A k \in Keys :
       /\ NodeIs(f[k]) /\ f[k].name \in {k} \X (1..MaxTries)
       /\ f[k].children \subseteq Keys /\ f[k].dependsOn \subseteq Keys
       /\ f[k].status \in {"materialized", "checkpointed", "terminal", "split_required", "split"}
Untouched(f) ==
  \A p, k \in Keys : f[p].status = "split_required" =>
    (p \in f[k].dependsOn <=> p \in plan.deps[k])
Flat(f) ==
  \A k \in Keys :
    /\ f[k].status = "split" => Keys # {k}
    /\ \A d \in f[k].children : f[d].status # "split_required"
    /\ ~nested => \A d \in f[k].children \cup f[k].dependsOn : f[d].status # "split"
Acyclic(f) == \A S \in SUBSET Keys : S # {} => \E k \in S : f[k].dependsOn \cap S = {}
PlanStands(f) == Untouched(f) /\ Flat(f) /\ Acyclic(f)

(* A candidate to work on is blocked by what it depends on, or by more     *)
(* than that: a split that died has begun to rewire it.                    *)
Blocked(f, k) == tickets[f[k].name].blockedBy = {f[d].name : d \in f[k].dependsOn}
Torn(f, k) ==
  \E p \in f[k].dependsOn : f[p].status = "split_required" /\ tickets[f[p].name].children # {}
Whole(x) == x.status \notin {"split_required", "split"}
Completes(f, k) == tickets[f[k].name].status = "done" /\ tickets[f[k].name].receipt = f[k].receipt
NodesSound(f) ==
  /\ NodesAre(f) /\ PlanStands(f)
  /\ \A k \in Keys :
       /\ There(f[k].name)
       /\ Whole(f[k]) => Blocked(f, k) \/ Torn(f, k)
       /\ f[k].status = "terminal" => Completes(f, k)
FileSound == NodesSound(file)

(* What materialize has yet to create.                                     *)
BatchIs(b, f) ==
  /\ file = D!NoFile /\ tries \in 1..MaxTries
  /\ f = [k \in Keys |-> f[k]] /\ b = [k \in DOMAIN b |-> b[k]] /\ DOMAIN b \subseteq Keys
  /\ \A k \in Keys :
       /\ f[k] = D!Node(k, f[k].name)
       /\ IF k \in DOMAIN b
          THEN /\ f[k].name = <<k, tries>>
               /\ \A i \in 1..MaxTries : ~There(<<k, i>>)
               /\ b[k] = D!TicketFor(k, {f[d].name : d \in plan.deps[k]})
          ELSE f[k].name \in {k} \X (1..MaxTries) /\ There(f[k].name)
BatchSound ==
  \E b, f : step = [name |-> "materialize", batch |-> b, result |-> f] /\ BatchIs(b, f)

(* What a split or a completion has yet to write.                          *)
RewireOf(f, k) == [what |-> "blocked", name |-> f[k].name, ids |-> {f[d].name : d \in f[k].dependsOn}]
SplitBegun(q, p) ==
  \/ tickets[file[p].name].children # {}
  \/ q[1].what = "parent" /\ q[1].name = file[p].name
ItemSound(q, f, w) ==
  \/ w = [what |-> "refuse"]
  \/ \E k \in Keys, r \in D!Receipts : w = [what |-> "complete", name |-> file[k].name, receipt |-> r]
  \/ \E p \in Keys : \E ids :
       /\ w = [what |-> "parent", name |-> file[p].name, ids |-> ids]
       /\ ids # {} /\ file[p].status = "split_required" /\ ~Whole(f[p])
  \/ \E c \in Keys, p \in Keys : w = [what |-> "child", name |-> file[c].name, parent |-> p]
  \/ \E k \in Keys : /\ w = RewireOf(f, k)
                     /\ \E p \in file[k].dependsOn :
                          file[p].status = "split_required" /\ SplitBegun(q, p)
Listed(q, w) == \E i \in DOMAIN q : q[i] = w
Owed(q, f, k) ==
  /\ Whole(f[k]) => Blocked(f, k) \/ Torn(f, k) \/ Listed(q, RewireOf(f, k))
  /\ f[k].status = "terminal" =>
       \/ Completes(f, k)
       \/ Listed(q, [what |-> "complete", name |-> f[k].name, receipt |-> f[k].receipt])
WriteIs(q, f) ==
  /\ file # D!NoFile
  /\ \E n \in Nat : DOMAIN q = 1..n
  /\ q = [i \in DOMAIN q |-> q[i]] /\ \A i \in DOMAIN q : ItemSound(q, f, q[i])
  /\ NodesAre(f) /\ \A k \in Keys : f[k].name = file[k].name
  /\ \/ Listed(q, [what |-> "refuse"])
     \/ PlanStands(f) /\ \A k \in Keys : Owed(q, f, k)
WriteSound ==
  \E q, f : step = [name |-> "write", todo |-> q, result |-> f] /\ WriteIs(q, f)

PlanSettled == /\ PlanIs /\ OneTicket
           /\ IF file = D!NoFile THEN AllFounded ELSE FileSound
DeliveryInv ==
  PlanSettled /\ tries \in 0..MaxTries /\ (step = D!Idle \/ BatchSound \/ WriteSound)

-----------------------------------------------------------------------------
LEMMA CountIs == \A W : D!Cardinality(W) = Cardinality(W)
BY DEF D!Cardinality, Cardinality

LEMMA KeysAre ==
  ASSUME PlanIs
  PROVE  \E n \in Nat : /\ Keys = 1..n /\ Cardinality(Keys) = n /\ D!Cardinality(Keys) = n
                        /\ IsFiniteSet(Keys) /\ Keys \subseteq Nat
                        /\ \A k \in Keys : plan.deps[k] \subseteq 1..(k - 1) /\ plan.deps[k] \subseteq Keys
<1>1. plan.kind \in Seq({"pending", "split_required", "terminal"})
  BY PlansAssumption DEF PlanIs
<1>2. PICK n \in Nat : n = Len(plan.kind)
  BY <1>1
<1>3. Keys = 1..n
  BY <1>1, <1>2 DEF Keys, D!Keys
<1>4. IsFiniteSet(Keys) /\ Cardinality(Keys) = n
  BY <1>3, FS_Interval
<1>5. ASSUME NEW k \in Keys PROVE plan.deps[k] \subseteq 1..(k - 1) /\ plan.deps[k] \subseteq Keys
  <2>1. plan.deps[k] \subseteq 1..(k - 1) /\ k \in 1..n
    BY <1>3, <1>5 DEF PlanIs, D!Accepted, Keys, D!Keys
  <2> QED BY <1>3, <2>1
<1> QED BY <1>3, <1>4, <1>5, CountIs

(* A function that is applied over and over.                               *)
Rounds(N, U, start, Apply, f) ==
  f \in [0..N -> U] /\ f[0] = start /\ \A i \in 1..N : f[i] = Apply[f[i - 1]]

LEMMA Iterated ==
  ASSUME NEW N \in Nat, NEW U, NEW start \in U, NEW Apply \in [U -> U]
  PROVE  \E f : Rounds(N, U, start, Apply, f)
<1> DEFINE Good == {n \in 0..N : \E f \in [0..n -> U] : f[0] = start /\ \A i \in 1..n : f[i] = Apply[f[i - 1]]}
<1>1. 0 \in Good
  <2>1. PICK f : f = [m \in 0..0 |-> start]
    OBVIOUS
  <2>2. f \in [0..0 -> U] /\ f[0] = start /\ 1..0 = {}
    BY <2>1
  <2> QED BY <2>2
<1>2. ASSUME NEW n \in 1..N, n - 1 \in Good PROVE n \in Good
  <2>1. PICK g \in [0..(n - 1) -> U] : g[0] = start /\ \A i \in 1..(n - 1) : g[i] = Apply[g[i - 1]]
    BY <1>2
  <2>2. PICK end : end = Apply[g[n - 1]]
    OBVIOUS
  <2>3. end \in U /\ n - 1 \in 0..(n - 1)
    BY <1>2, <2>1, <2>2
  <2>4. PICK f : f = [m \in 0..n |-> IF m = n THEN end ELSE g[m]]
    OBVIOUS
  <2>5. \A m \in 0..(n - 1) : f[m] = g[m] /\ m \in 0..n
    BY <2>4
  <2>6. f[n] = end /\ f \in [0..n -> U]
    BY <1>2, <2>1, <2>3, <2>4
  <2>7. ASSUME NEW i \in 1..n PROVE f[i] = Apply[f[i - 1]]
    <3>1. CASE i = n
      BY <1>2, <2>2, <2>5, <2>6, <3>1
    <3>2. CASE i # n
      <4>1. i \in 1..(n - 1) /\ i \in 0..(n - 1) /\ i - 1 \in 0..(n - 1)
        BY <3>2
      <4> QED BY <2>1, <2>5, <4>1
    <3> QED BY <3>1, <3>2
  <2>8. f[0] = start
    BY <1>2, <2>1, <2>5
  <2> QED BY <1>2, <2>6, <2>7, <2>8
<1> HIDE DEF Good
<1>3. N \in Good
  BY <1>1, <1>2, Upwards
<1> QED BY <1>3 DEF Good, Rounds

(* The rounds of Completed and of IsDag.                                   *)
DoneNext(S) == {k \in Keys : \/ file[k].status = "terminal"
                             \/ file[k].status = "split" /\ file[k].children \subseteq S}
IsDone(done) ==
  done = [i \in 0..D!Cardinality(D!Keys) |->
            IF i = 0 THEN {}
            ELSE {k \in D!Keys : \/ file[k].status = "terminal"
                                 \/ file[k].status = "split" /\ file[k].children \subseteq done[i - 1]}]
LeftNext(f, S) == {k \in S : f[k].dependsOn \cap S # {}}
IsLeft(f, left) ==
  left = [i \in 0..D!Cardinality(D!Keys) |->
            IF i = 0 THEN D!Keys
            ELSE {k \in left[i - 1] : f[k].dependsOn \cap left[i - 1] # {}}]

(* What resume counts as completed: unless a split candidate is the child  *)
(* of another, the terminal and those whose children are.                  *)
LEMMA CompletedIs ==
  ASSUME PlanIs, FileSound
  PROVE  /\ D!Completed \subseteq {k \in Keys : file[k].status \in {"terminal", "split"}}
         /\ {k \in Keys : file[k].status = "terminal"} \subseteq D!Completed
         /\ ~nested => \A k \in Keys : file[k].status = "split"
                         /\ (\A c \in file[k].children : file[c].status = "terminal") => k \in D!Completed
<1>1. PICK n \in Nat : /\ Keys = 1..n /\ D!Cardinality(Keys) = n /\ D!Keys = Keys
  BY KeysAre DEF Keys
<1> DEFINE Apply == [S \in SUBSET Keys |-> DoneNext(S)]
<1>2. Apply \in [SUBSET Keys -> SUBSET Keys] /\ {} \in SUBSET Keys /\ \A S \in SUBSET Keys : Apply[S] = DoneNext(S)
  <2>1. \A S : DoneNext(S) \in SUBSET Keys
    BY DEF DoneNext
  <2> QED BY <2>1
<1> HIDE DEF Apply
<1>3. PICK f \in [0..n -> SUBSET Keys] : f[0] = {} /\ \A i \in 1..n : f[i] = Apply[f[i - 1]]
  <2>1. \E e : Rounds(n, SUBSET Keys, {}, Apply, e)
    BY <1>2, Iterated
  <2> QED BY <2>1 DEF Rounds
<1>4. ASSUME NEW i \in 0..n PROVE f[i] = IF i = 0 THEN {} ELSE DoneNext(f[i - 1])
  <2>1. CASE i = 0
    BY <1>3, <2>1
  <2>2. CASE i # 0
    <3>1. i \in 1..n /\ i - 1 \in 0..n
      BY <1>4, <2>2
    <3> QED BY <1>2, <1>3, <2>2, <3>1
  <2> QED BY <2>1, <2>2
<1>5. IsDone(f)
  BY <1>1, <1>3, <1>4 DEF IsDone, DoneNext
<1> DEFINE g == CHOOSE done : IsDone(done)
<1>6. IsDone(g)
  BY <1>5
<1>7. D!Completed = g[n]
  BY <1>1 DEF D!Completed, IsDone
<1>8. \A i \in 0..n : g[i] = IF i = 0 THEN {} ELSE DoneNext(g[i - 1])
  BY <1>1, <1>6 DEF IsDone, DoneNext
<1> HIDE DEF g
<1>9. n \in 0..n /\ (n # 0 => n - 1 \in 0..n)
  OBVIOUS
<1>10. n # 0 => D!Completed = DoneNext(g[n - 1])
  BY <1>7, <1>8, <1>9
<1>11. n = 0 => Keys = {} /\ D!Completed = {}
  BY <1>1, <1>7, <1>8, <1>9
<1>12. D!Completed \subseteq {k \in Keys : file[k].status \in {"terminal", "split"}}
  BY <1>10, <1>11 DEF DoneNext
<1>13. {k \in Keys : file[k].status = "terminal"} \subseteq D!Completed
  BY <1>10, <1>11 DEF DoneNext
<1>14. ASSUME NEW k \in Keys, file[k].status = "split", \A c \in file[k].children : file[c].status = "terminal"
       PROVE  k \in D!Completed
  <2>1. n - 1 \in 0..n /\ n - 1 # 0 /\ n # 0 /\ (n - 1) - 1 \in 0..n
    <3>1. PICK c \in Keys : c # k
      BY <1>14 DEF FileSound, NodesSound, PlanStands, Flat
    <3> QED BY <1>1, <3>1
  <2>2. g[n - 1] = DoneNext(g[(n - 1) - 1])
    BY <1>8, <2>1
  <2>3. file[k].children \subseteq Keys
    BY DEF FileSound, NodesSound, NodesAre
  <2>4. file[k].children \subseteq g[n - 1]
    BY <1>14, <2>2, <2>3 DEF DoneNext
  <2> QED BY <1>10, <1>14, <2>1, <2>4 DEF DoneNext
<1> QED BY <1>12, <1>13, <1>14

(* The check of a split finds every cycle.                                 *)
LEMMA DagIsAcyclic == ASSUME PlanIs, NEW f, D!IsDag(f) PROVE Acyclic(f)
<1>1. PICK n \in Nat : /\ Keys = 1..n /\ D!Cardinality(Keys) = n /\ D!Keys = Keys
  BY KeysAre DEF Keys
<1> DEFINE Apply == [S \in SUBSET Keys |-> LeftNext(f, S)]
<1>2. Apply \in [SUBSET Keys -> SUBSET Keys] /\ Keys \in SUBSET Keys /\ \A S \in SUBSET Keys : Apply[S] = LeftNext(f, S)
  <2>1. \A S \in SUBSET Keys : LeftNext(f, S) \in SUBSET Keys
    BY DEF LeftNext
  <2> QED BY <2>1
<1> HIDE DEF Apply
<1>3. PICK h \in [0..n -> SUBSET Keys] : h[0] = Keys /\ \A i \in 1..n : h[i] = Apply[h[i - 1]]
  <2>1. \E e : Rounds(n, SUBSET Keys, Keys, Apply, e)
    BY <1>2, Iterated
  <2> QED BY <2>1 DEF Rounds
<1>4. ASSUME NEW i \in 0..n PROVE h[i] = IF i = 0 THEN Keys ELSE LeftNext(f, h[i - 1])
  <2>1. CASE i = 0
    BY <1>3, <2>1
  <2>2. CASE i # 0
    <3>1. i \in 1..n /\ i - 1 \in 0..n
      BY <1>4, <2>2
    <3> QED BY <1>2, <1>3, <2>2, <3>1
  <2> QED BY <2>1, <2>2
<1>5. IsLeft(f, h)
  BY <1>1, <1>3, <1>4 DEF IsLeft, LeftNext
<1> DEFINE g == CHOOSE left : IsLeft(f, left)
<1>6. IsLeft(f, g)
  BY <1>5
<1>7. g[n] = {}
  BY <1>1 DEF D!IsDag, IsLeft
<1>8. \A i \in 0..n : g[i] = IF i = 0 THEN Keys ELSE LeftNext(f, g[i - 1])
  BY <1>1, <1>6 DEF IsLeft, LeftNext
<1> HIDE DEF g
<1>9. SUFFICES ASSUME NEW S \in SUBSET Keys, S # {}, \A k \in S : f[k].dependsOn \cap S # {}
              PROVE  FALSE
  BY DEF Acyclic
<1> DEFINE Good == {i \in 0..n : S \subseteq g[i]}
<1>10. 0 \in Good
  <2>1. 0 \in 0..n /\ g[0] = Keys
    BY <1>8
  <2> QED BY <2>1
<1>11. ASSUME NEW i \in 1..n, i - 1 \in Good PROVE i \in Good
  <2>1. i \in 0..n /\ i # 0 /\ S \subseteq g[i - 1]
    BY <1>11
  <2>2. g[i] = LeftNext(f, g[i - 1])
    BY <1>8, <2>1
  <2> QED BY <1>9, <2>1, <2>2 DEF LeftNext
<1> HIDE DEF Good
<1>12. n \in Good
  BY <1>10, <1>11, Upwards
<1> QED BY <1>7, <1>9, <1>12 DEF Good

(* The name a node has is the one ticket of its candidate.                 *)
LEMMA NameOfNode ==
  ASSUME PlanIs, NEW f, NodesAre(f), NEW k \in Keys
  PROVE  f[k].name \in Names /\ f[k].name[1] = k /\ \A d \in Keys : f[d].name = f[k].name => d = k
BY DEF NodesAre, Names

LEMMA OneTicketHolds == ASSUME DeliveryInv PROVE D!OneTicketPerCandidate
<1>1. PlanIs /\ OneTicket /\ D!Keys = Keys /\ DOMAIN tickets = Names
  BY DEF DeliveryInv, PlanSettled, PlanIs, Keys
<1>2. ASSUME NEW k \in Keys PROVE D!Cardinality(D!NamesOf(k)) <= 1
  <2>1. \A a, b \in D!NamesOf(k) : a = b
    <3>1. \A a \in D!NamesOf(k) : \E i \in 1..MaxTries : a = <<k, i>> /\ There(<<k, i>>)
      BY <1>1 DEF D!NamesOf, Names, There
    <3> QED BY <1>1, <3>1 DEF OneTicket
  <2>2. D!NamesOf(k) = {} \/ \E a : D!NamesOf(k) = {a}
    BY <2>1
  <2>3. Cardinality(D!NamesOf(k)) \in {0, 1}
    BY <2>2, FS_EmptySet, FS_Singleton
  <2> QED BY <2>3, CountIs
<1>3. ASSUME NEW k \in Keys, file # D!NoFile PROVE D!NameOf(k) \in D!NamesOf(k)
  <2>1. FileSound
    BY <1>3 DEF DeliveryInv, PlanSettled
  <2>2. file[k].name \in Names /\ file[k].name[1] = k /\ There(file[k].name)
    BY <1>1, <2>1, NameOfNode DEF FileSound, NodesSound
  <2> QED BY <1>1, <2>2 DEF D!NameOf, D!NamesOf, There
<1> QED BY <1>1, <1>2, <1>3 DEF D!OneTicketPerCandidate

LEMMA TerminalHolds == ASSUME DeliveryInv PROVE D!TerminalHasReceipt
BY DEF DeliveryInv, PlanSettled, FileSound, NodesSound, Completes, D!TerminalHasReceipt, D!NameOf, Keys

LEMMA ReadyHolds == ASSUME DeliveryInv PROVE D!ReadyIsUnblocked
<1>1. SUFFICES ASSUME file # D!NoFile, ~nested, NEW k \in D!Ready PROVE D!Unblocked(k)
  BY DEF D!ReadyIsUnblocked
<1>2. FileSound /\ PlanIs
  BY <1>1 DEF DeliveryInv, PlanSettled
<1>3. k \in Keys /\ Whole(file[k]) /\ file[k].dependsOn \subseteq D!Completed
  BY DEF D!Ready, D!Active, Keys, Whole
<1>4. ASSUME NEW d \in file[k].dependsOn
      PROVE  d \in Keys /\ file[d].status = "terminal" /\ tickets[file[d].name].status = "done"
  <2>1. d \in Keys /\ file[d].status \in {"terminal", "split"}
    BY <1>2, <1>3, <1>4, CompletedIs
  <2>2. file[d].status # "split"
    BY <1>1, <1>2, <1>3, <1>4 DEF FileSound, NodesSound, PlanStands, Flat
  <2> QED BY <1>2, <2>1, <2>2 DEF FileSound, NodesSound, Completes
<1>5. ~Torn(file, k)
  BY <1>4 DEF Torn
<1>6. Blocked(file, k)
  BY <1>2, <1>3, <1>5 DEF FileSound, NodesSound
<1> QED BY <1>4, <1>6 DEF D!Unblocked, D!NameOf, Blocked

LEMMA WaitingHolds == ASSUME DeliveryInv PROVE D!WaitingIsBlocked
<1>1. SUFFICES ASSUME file # D!NoFile, \A k \in Keys : ~D!Ahead(k), NEW k \in D!Waiting, D!Unblocked(k)
               PROVE FALSE
  BY DEF D!WaitingIsBlocked, Keys
<1>2. FileSound /\ PlanIs
  BY <1>1 DEF DeliveryInv, PlanSettled
<1>3. k \in Keys /\ Whole(file[k]) /\ ~(file[k].dependsOn \subseteq D!Completed)
  BY DEF D!Waiting, D!Ready, D!Active, Keys, Whole
<1>4. PICK d \in file[k].dependsOn : d \notin D!Completed
  BY <1>3
<1>5. d \in Keys /\ file[k].dependsOn \subseteq Keys
  BY <1>2, <1>3, <1>4 DEF FileSound, NodesSound, NodesAre
<1>6. file[d].status # "terminal"
  BY <1>2, <1>4, <1>5, CompletedIs
<1>7. tickets[file[d].name].status # "done"
  BY <1>1, <1>5, <1>6 DEF D!Ahead, D!NameOf
<1>8. ~Torn(file, k)
  BY <1>1, <1>5 DEF Torn, D!Ahead, D!NameOf
<1>9. Blocked(file, k)
  BY <1>2, <1>3, <1>8 DEF FileSound, NodesSound
<1>10. file[d].name \in tickets[file[k].name].blockedBy
  BY <1>4, <1>9 DEF Blocked
<1> QED BY <1>1, <1>7, <1>10 DEF D!Unblocked, D!NameOf

(* Of the candidates to work on one waits for none of the others.          *)
LEMMA GoesOnHolds == ASSUME DeliveryInv PROVE D!PlanGoesOn
<1>1. SUFFICES ASSUME file # D!NoFile, ~nested, D!Ready = {}, Keys # D!Completed,
                      \A k \in Keys : file[k].status # "split_required"
               PROVE FALSE
  BY DEF D!PlanGoesOn, Keys
<1>2. FileSound /\ PlanIs /\ NodesAre(file) /\ Flat(file) /\ Acyclic(file)
  BY <1>1 DEF DeliveryInv, PlanSettled, FileSound, NodesSound, PlanStands
<1> DEFINE At == {k \in Keys : file[k].status \in {"materialized", "checkpointed"}}
<1>3. D!Active = At
  BY DEF D!Active, Keys
<1>4. At # {}
  <2>1. SUFFICES ASSUME At = {} PROVE FALSE
    OBVIOUS
  <2>2. ASSUME NEW k \in Keys PROVE file[k].status \in {"terminal", "split"}
    BY <1>1, <1>2, <2>1, <2>2 DEF NodesAre
  <2>3. ASSUME NEW k \in Keys, file[k].status = "split" PROVE k \in D!Completed
    <3>1. \A c \in file[k].children : file[c].status = "terminal"
      BY <1>1, <1>2, <2>2, <2>3 DEF NodesAre, Flat
    <3> QED BY <1>1, <1>2, <2>3, <3>1, CompletedIs
  <2>4. Keys \subseteq D!Completed
    BY <1>2, <2>2, <2>3, CompletedIs
  <2>5. D!Completed \subseteq Keys
    BY <1>2, CompletedIs
  <2> QED BY <1>1, <2>4, <2>5
<1>5. ASSUME NEW k \in At PROVE file[k].dependsOn \cap At # {}
  <2>1. PICK d \in file[k].dependsOn : d \notin D!Completed
    BY <1>1, <1>3, <1>5 DEF D!Ready
  <2>2. d \in Keys /\ file[d].status # "split" /\ file[d].status # "split_required"
    BY <1>1, <1>2, <1>5, <2>1 DEF NodesAre, Flat
  <2>3. file[d].status # "terminal"
    BY <1>2, <2>1, <2>2, CompletedIs
  <2> QED BY <1>2, <2>1, <2>2, <2>3 DEF NodesAre
<1> HIDE DEF At
<1>6. At \in SUBSET Keys
  BY DEF At
<1> QED BY <1>2, <1>4, <1>5, <1>6 DEF Acyclic

LEMMA PlanHolds == ASSUME DeliveryInv PROVE PlanFollowed
BY OneTicketHolds, TerminalHolds, ReadyHolds, WaitingHolds, GoesOnHolds DEF PlanFollowed

-----------------------------------------------------------------------------
(* A step that changes no ticket, and one that changes one.                *)
LEMMA KeysRest == ASSUME plan' = plan PROVE Keys' = Keys /\ Names' = Names
BY DEF Keys, Names, D!Keys

LEMMA StandsRests ==
  ASSUME NEW f, plan' = plan, nested => nested', PlanStands(f)
  PROVE  PlanStands(f)'
<1>1. Keys' = Keys
  BY KeysRest
<1>2. Untouched(f)' /\ Acyclic(f)'
  BY <1>1 DEF PlanStands, Untouched, Acyclic
<1>3. Flat(f)'
  BY <1>1 DEF PlanStands, Flat
<1> QED BY <1>2, <1>3 DEF PlanStands

LEMMA NodesRest == ASSUME NEW f, plan' = plan, NodesAre(f) PROVE NodesAre(f)'
<1>1. Keys' = Keys
  BY KeysRest
<1> QED BY <1>1 DEF NodesAre, NodeIs

LEMMA TicketsRest ==
  ASSUME PlanIs, plan' = plan, tickets' = tickets
  PROVE  /\ PlanIs' /\ (OneTicket => OneTicket') /\ (AllFounded => AllFounded')
         /\ \A id \in Names : There(id)' <=> There(id)
<1>1. Keys' = Keys /\ Names' = Names
  BY KeysRest
<1>2. PlanIs'
  BY <1>1 DEF PlanIs, TicketIs, FieldsAre, D!Accepted
<1>3. \A id : There(id)' <=> There(id)
  BY DEF There
<1>4. OneTicket => OneTicket'
  BY <1>1 DEF OneTicket, There
<1>5. AllFounded => AllFounded'
  BY <1>1 DEF AllFounded, Founded, Founders, There
<1> QED BY <1>2, <1>3, <1>4, <1>5

LEMMA NodesSoundRests ==
  ASSUME NEW f, plan' = plan, tickets' = tickets, nested => nested', NodesSound(f)
  PROVE  NodesSound(f)'
<1>1. Keys' = Keys
  BY KeysRest
<1>2. NodesAre(f)' /\ PlanStands(f)'
  BY NodesRest, StandsRests DEF NodesSound
<1> QED BY <1>1, <1>2 DEF NodesSound, There, Whole, Blocked, Torn, Completes

LEMMA FileBecomes == ASSUME NEW f, file' = f, NodesSound(f)' PROVE FileSound'
<1>1. NodesAre(file)'
  BY DEF NodesSound, NodesAre, NodeIs
<1>2. PlanStands(file)'
  <2>1. Untouched(file)'
    BY DEF NodesSound, PlanStands, Untouched
  <2>2. Flat(file)'
    BY DEF NodesSound, PlanStands, Flat
  <2>3. Acyclic(file)'
    BY DEF NodesSound, PlanStands, Acyclic
  <2> QED BY <2>1, <2>2, <2>3 DEF PlanStands
<1>3. ASSUME NEW k \in Keys'
      PROVE  /\ There(file[k].name)' /\ (Whole(file[k]) => Blocked(file, k) \/ Torn(file, k))'
             /\ (file[k].status = "terminal" => Completes(file, k))'
  BY <1>3 DEF NodesSound, There, Whole, Blocked, Torn, Completes
<1> QED BY <1>1, <1>2, <1>3 DEF FileSound, NodesSound

LEMMA PlanSettledRests ==
  ASSUME PlanSettled, plan' = plan, tickets' = tickets, file' = file, nested => nested'
  PROVE  PlanSettled'
<1>1. PlanIs' /\ OneTicket' /\ (AllFounded => AllFounded')
  BY TicketsRest DEF PlanSettled
<1>2. ASSUME FileSound PROVE FileSound'
  <2>1. PICK f : f = file
    OBVIOUS
  <2>2. NodesSound(f)'
    BY <1>2, <2>1, NodesSoundRests DEF FileSound
  <2> QED BY <2>1, <2>2, FileBecomes
<1> QED BY <1>1, <1>2 DEF PlanSettled, D!NoFile

OneChange(n, new) ==
  /\ n \in Names /\ There(n) /\ TicketIs(new) /\ new # D!Absent
  /\ tickets' = [tickets EXCEPT ![n] = new] /\ plan' = plan /\ nested' = nested
  /\ tickets[n].status = "done" => new.status = "done" /\ new.receipt = tickets[n].receipt
  /\ tickets[n].children # {} => new.children # {}

LEMMA Changed ==
  ASSUME PlanIs, NEW n, NEW new, OneChange(n, new)
  PROVE  /\ Keys' = Keys /\ Names' = Names /\ PlanIs' /\ (OneTicket => OneTicket')
         /\ \A id \in Names : There(id)' <=> There(id)
         /\ \A id \in Names : tickets'[id] = IF id = n THEN new ELSE tickets[id]
<1>1. Keys' = Keys /\ Names' = Names
  BY KeysRest DEF OneChange
<1>2. /\ tickets' = [id \in Names |-> tickets'[id]]
      /\ \A id \in Names : tickets'[id] = IF id = n THEN new ELSE tickets[id]
  BY DEF PlanIs, OneChange
<1>3. \A id \in Names : There(id)' <=> There(id)
  BY <1>2 DEF There, OneChange
<1>4. PlanIs'
  <2>1. \A id \in Names : TicketIs(tickets'[id])
    BY <1>2 DEF PlanIs, OneChange
  <2>2. \A id \in Names : TicketIs(tickets[id])'
    BY <2>1 DEF TicketIs, FieldsAre
  <2> QED BY <1>1, <1>2, <2>2 DEF PlanIs, OneChange, D!Accepted
<1>5. OneTicket => OneTicket'
  BY <1>1, <1>3 DEF OneTicket, Names
<1> QED BY <1>1, <1>2, <1>3, <1>4, <1>5

LEMMA ChangedNodes ==
  ASSUME PlanIs, NEW n, NEW new, OneChange(n, new), NEW f, NodesAre(f), NEW k \in Keys
  PROVE  /\ (There(f[k].name) => There(f[k].name)') /\ (Torn(f, k) => Torn(f, k)')
         /\ Completes(f, k) => Completes(f, k)'
         /\ (f[k].name # n \/ new.blockedBy = tickets[n].blockedBy) /\ Blocked(f, k) => Blocked(f, k)'
<1>1. /\ \A id \in Names : There(id)' <=> There(id)
      /\ \A id \in Names : tickets'[id] = IF id = n THEN new ELSE tickets[id]
  BY Changed
<1>2. \A d \in Keys : f[d].name \in Names
  BY NameOfNode
<1>3. f[k].dependsOn \subseteq Keys
  BY DEF NodesAre
<1>4. There(f[k].name) => There(f[k].name)'
  BY <1>1, <1>2
<1>5. Torn(f, k) => Torn(f, k)'
  BY <1>1, <1>2, <1>3 DEF Torn, OneChange
<1>6. Completes(f, k) => Completes(f, k)'
  BY <1>1, <1>2 DEF Completes, OneChange
<1>7. (f[k].name # n \/ new.blockedBy = tickets[n].blockedBy) /\ Blocked(f, k) => Blocked(f, k)'
  BY <1>1, <1>2 DEF Blocked
<1> QED BY <1>4, <1>5, <1>6, <1>7

LEMMA ChangedSound ==
  ASSUME PlanIs, NEW n, NEW new, OneChange(n, new), NEW f, NodesSound(f), NEW j \in Keys, n = f[j].name,
         new.blockedBy = tickets[n].blockedBy \/ ~Whole(f[j]) \/ Torn(f, j)
  PROVE  NodesSound(f)'
<1>1. Keys' = Keys
  BY Changed
<1>2. NodesAre(f)' /\ PlanStands(f)'
  BY NodesRest, StandsRests DEF NodesSound, OneChange
<1>3. ASSUME NEW k \in Keys
      PROVE  /\ There(f[k].name)' /\ (Whole(f[k]) => Blocked(f, k)' \/ Torn(f, k)')
             /\ f[k].status = "terminal" => Completes(f, k)'
  <2>1. NodesAre(f) /\ (f[k].name = n => k = j)
    BY NameOfNode DEF NodesSound
  <2> QED BY <2>1, ChangedNodes DEF NodesSound
<1> QED BY <1>1, <1>2, <1>3 DEF NodesSound, Whole

-----------------------------------------------------------------------------
(* The helpers of the operations.                                          *)
LEMMA NothingLeft == \A q : q = [i \in 1..0 |-> q[i]] => q = << >>
OBVIOUS

LEMMA LeastAndLast ==
  ASSUME NEW ks, ks \subseteq Nat, IsFiniteSet(ks), D!Cardinality(ks) \in 1..2
  PROVE  /\ D!Min(ks) \in ks /\ D!Max(ks) \in ks /\ ks = {D!Min(ks), D!Max(ks)}
         /\ D!Cardinality(ks) = 1 => ks = {D!Min(ks)}
<1>1. Cardinality(ks) \in 1..2 /\ D!Cardinality(ks) = Cardinality(ks)
  BY CountIs
<1>2. ks # {}
  BY <1>1, FS_EmptySet
<1>3. PICK a \in ks : \A x \in ks : a <= x
  BY <1>2, LeastOf
<1>4. D!Min(ks) \in ks /\ \A x \in ks : D!Min(ks) <= x
  <2>1. \E x \in ks : \A y \in ks : x =< y
    BY <1>3
  <2> QED BY <2>1 DEF D!Min
<1>5. PICK lo : lo = D!Min(ks)
  OBVIOUS
<1>6. IsFiniteSet(ks \ {lo}) /\ Cardinality(ks \ {lo}) = Cardinality(ks) - 1
  BY <1>4, <1>5, FS_RemoveElement
<1>7. CASE Cardinality(ks) = 1
  <2>1. ks \ {lo} = {}
    BY <1>6, <1>7, FS_EmptySet
  <2>2. ks = {lo}
    BY <1>4, <1>5, <2>1
  <2>3. D!Max(ks) = lo
    <3>1. \E x \in ks : \A y \in ks : x >= y
      BY <1>4, <1>5, <2>2
    <3>2. D!Max(ks) \in ks
      BY <3>1 DEF D!Max
    <3> QED BY <2>2, <3>2
  <2> QED BY <1>5, <2>2, <2>3
<1>8. CASE Cardinality(ks) = 2
  <2>1. Cardinality(ks \ {lo}) = 1
    BY <1>6, <1>8
  <2>2. PICK b : ks \ {lo} = {b}
    BY <1>6, <2>1, FS_Singleton
  <2>3. ks = {lo, b} /\ lo \in Nat /\ b \in Nat /\ lo <= b /\ lo # b
    BY <1>4, <1>5, <2>2
  <2>4. D!Max(ks) = b
    <3>1. \A y \in ks : b >= y
      BY <2>3
    <3>2. D!Max(ks) \in ks /\ \A y \in ks : D!Max(ks) >= y
      <4>1. \E x \in ks : \A y \in ks : x >= y
        BY <2>3, <3>1
      <4> QED BY <4>1 DEF D!Max
    <3>3. b \in ks
      BY <2>3
    <3> QED BY <2>3, <3>1, <3>2, <3>3
  <2> QED BY <1>1, <1>5, <1>8, <2>3, <2>4
<1> QED BY <1>1, <1>7, <1>8

Increasing(s) == \A i, j \in DOMAIN s : i < j => s[i] < s[j]

Below(ks, m) == {k \in ks : k <= m}
InRow(ks) == /\ IsFiniteSet(ks) /\ Cardinality(ks) \in Nat
             /\ \E s \in [1..Cardinality(ks) -> ks] : Increasing(s)

LEMMA OneMore ==
  ASSUME NEW U, NEW m \in Nat, InRow(U), U \subseteq Nat, \A k \in U : k < m
  PROVE  InRow(U \cup {m})
<1>1. PICK n : n = Cardinality(U) /\ n \in Nat
  BY DEF InRow
<1>2. PICK s \in [1..n -> U] : Increasing(s)
  BY <1>1 DEF InRow
<1>3. PICK V : V = U \cup {m}
  OBVIOUS
<1>4. IsFiniteSet(V) /\ Cardinality(V) = n + 1
  BY <1>1, <1>3, FS_AddElement DEF InRow
<1>5. PICK e : e = [i \in 1..(n + 1) |-> IF i = n + 1 THEN m ELSE s[i]]
  OBVIOUS
<1>6. \A i \in 1..n : e[i] = s[i] /\ s[i] \in U /\ i \in 1..(n + 1) /\ i # n + 1
  BY <1>1, <1>2, <1>5
<1>7. e[n + 1] = m /\ DOMAIN e = 1..(n + 1)
  BY <1>1, <1>5
<1>8. \A i \in 1..(n + 1) : i \in 1..n \/ i = n + 1
  BY <1>1
<1>9. e \in [1..(n + 1) -> V]
  <2>1. \A i \in 1..(n + 1) : e[i] \in V
    BY <1>3, <1>6, <1>7, <1>8
  <2> QED BY <1>5, <1>7, <2>1
<1>10. ASSUME NEW i \in 1..(n + 1), NEW j \in 1..(n + 1), i < j PROVE e[i] < e[j]
  <2>1. i \in 1..n
    BY <1>1, <1>10
  <2>2. CASE j \in 1..n
    BY <1>2, <1>6, <1>10, <2>1, <2>2 DEF Increasing
  <2>3. CASE j = n + 1
    BY <1>6, <1>7, <2>1, <2>3
  <2> QED BY <1>8, <1>10, <2>2, <2>3
<1>11. Increasing(e)
  BY <1>7, <1>10 DEF Increasing
<1>12. n + 1 \in Nat /\ \E x \in [1..Cardinality(V) -> V] : Increasing(x)
  BY <1>1, <1>4, <1>9, <1>11
<1> QED BY <1>3, <1>4, <1>12 DEF InRow

LEMMA OrderExists ==
  ASSUME NEW N \in Nat, NEW ks \in SUBSET (1..N)
  PROVE  InRow(ks)
<1> DEFINE Good == {m \in 0..N : InRow(Below(ks, m))}
<1>1. 0 \in Good
  <2>1. Below(ks, 0) = {}
    <3>1. \A k \in ks : ~(k <= 0)
      OBVIOUS
    <3> QED BY <3>1 DEF Below
  <2>2. IsFiniteSet({}) /\ Cardinality({}) = 0
    BY FS_EmptySet
  <2>3. PICK s : s = [i \in 1..0 |-> 0]
    OBVIOUS
  <2>4. s \in [1..0 -> {}] /\ DOMAIN s = {}
    BY <2>3
  <2>5. Increasing(s)
    BY <2>4 DEF Increasing
  <2>6. InRow({})
    <3>1. \E x \in [1..Cardinality({}) -> {}] : Increasing(x)
      BY <2>2, <2>4, <2>5
    <3> QED BY <2>2, <3>1 DEF InRow
  <2> QED BY <2>1, <2>6
<1>2. ASSUME NEW m \in 1..N, m - 1 \in Good PROVE m \in Good
  <2>1. InRow(Below(ks, m - 1)) /\ m \in Nat /\ m \in 0..N
    BY <1>2
  <2>2. CASE m \notin ks
    <3>1. \A k \in ks : k <= m <=> k <= m - 1
      BY <1>2, <2>2
    <3>2. Below(ks, m) = Below(ks, m - 1)
      BY <3>1 DEF Below
    <3> QED BY <2>1, <3>2
  <2>3. CASE m \in ks
    <3>1. \A k \in ks : k <= m <=> k <= m - 1 \/ k = m
      BY <1>2
    <3>2. Below(ks, m) = Below(ks, m - 1) \cup {m}
      BY <2>1, <2>3, <3>1 DEF Below
    <3>3. Below(ks, m - 1) \subseteq Nat /\ \A k \in Below(ks, m - 1) : k < m
      <4>1. \A k \in ks : k \in Nat /\ (k <= m - 1 => k < m)
        BY <1>2
      <4> QED BY <4>1 DEF Below
    <3> QED BY <2>1, <3>2, <3>3, OneMore
  <2> QED BY <2>2, <2>3
<1> HIDE DEF Good
<1>3. N \in Good
  BY <1>1, <1>2, Upwards
<1>4. Below(ks, N) = ks
  <2>1. \A k \in ks : k <= N
    OBVIOUS
  <2> QED BY <2>1 DEF Below
<1> QED BY <1>3, <1>4 DEF Good

LEMMA InOrderIs ==
  ASSUME NEW N \in Nat, NEW ks \in SUBSET (1..N)
  PROVE  /\ D!Cardinality(ks) = Cardinality(ks) /\ Cardinality(ks) \in Nat
         /\ D!InOrder(ks) \in [1..Cardinality(ks) -> ks]
         /\ \A k \in ks : \E i \in 1..Cardinality(ks) : D!InOrder(ks)[i] = k
<1>1. IsFiniteSet(ks) /\ InRow(ks)
  BY OrderExists DEF InRow
<1>2. PICK n : n = Cardinality(ks) /\ n = D!Cardinality(ks) /\ n \in Nat
  BY <1>1, CountIs, FS_CardinalityType
<1>3. PICK s : s = D!InOrder(ks)
  OBVIOUS
<1>4. s \in [1..n -> ks] /\ Increasing(s)
  <2>1. \E e \in [1..n -> ks] : \A i, j \in DOMAIN e : i < j => e[i] < e[j]
    BY <1>1, <1>2 DEF InRow, Increasing
  <2>2. s = CHOOSE e \in [1..n -> ks] : \A i, j \in DOMAIN e : i < j => e[i] < e[j]
    BY <1>2, <1>3 DEF D!InOrder
  <2> QED BY <2>1, <2>2 DEF Increasing
<1>5. ASSUME NEW k \in ks, \A i \in 1..n : s[i] # k PROVE FALSE
  <2>1. IsFiniteSet(ks \ {k}) /\ Cardinality(ks \ {k}) = n - 1
    BY <1>1, <1>2, FS_RemoveElement
  <2>2. s \in [1..n -> ks \ {k}]
    <3>1. \A i \in 1..n : s[i] \in ks \ {k}
      BY <1>4, <1>5
    <3> QED BY <1>4, <3>1
  <2>3. IsFiniteSet(1..n) /\ Cardinality(1..n) = n
    BY <1>2, FS_Interval
  <2>4. PICK i, j \in 1..n : i # j /\ s[i] = s[j]
    BY <1>2, <2>1, <2>2, <2>3, FS_PigeonHole
  <2>5. DOMAIN s = 1..n /\ s[i] \in ks
    BY <1>4, <2>4
  <2>6. i < j \/ j < i
    BY <2>4
  <2>7. s[i] \in Nat
    <3>1. \A x \in ks : x \in Nat
      OBVIOUS
    <3> QED BY <2>5, <3>1
  <2> QED BY <1>4, <2>4, <2>5, <2>6, <2>7 DEF Increasing
<1> QED BY <1>2, <1>3, <1>4, <1>5

-----------------------------------------------------------------------------
(* The steps.                                                              *)
LEMMA PlanRests ==
  ASSUME plan' = plan
  PROVE  /\ Keys' = Keys /\ Names' = Names /\ D!Keys' = Keys
         /\ \A k, x : D!Node(k, x)' = D!Node(k, x) /\ D!TicketFor(k, x)' = D!TicketFor(k, x)
BY DEF Keys, Names, D!Keys, D!Node, D!TicketFor

(* What the operations make of a ticket and of a node, field by field.     *)
LEMMA TicketCreated ==
  ASSUME NEW t, FieldsAre(t), NEW st, NEW rc, NEW bb
  PROVE  [t EXCEPT !.status = st, !.receipt = rc, !.blockedBy = bb]
         = [status |-> st, receipt |-> rc, blockedBy |-> bb,
           parent |-> t.parent, children |-> t.children]
<1>1. PICK e : e = [t EXCEPT !.status = st, !.receipt = rc, !.blockedBy = bb]
  OBVIOUS
<1>2. DOMAIN t = {"status", "receipt", "blockedBy", "parent", "children"}
  BY DEF FieldsAre
<1>3. DOMAIN e = DOMAIN t /\ e = [h \in DOMAIN t |-> e[h]]
  BY <1>1
<1>4. FieldsAre(e)
  BY <1>2, <1>3 DEF FieldsAre
<1>5. /\ e.status = st /\ e.receipt = rc /\ e.blockedBy = bb
      /\ e.parent = t.parent /\ e.children = t.children
  BY <1>1, <1>2
<1> QED BY <1>1, <1>4, <1>5 DEF FieldsAre

LEMMA TicketCompleted ==
  ASSUME NEW t, FieldsAre(t), NEW st, NEW rc
  PROVE  [t EXCEPT !.status = st, !.receipt = rc]
         = [status |-> st, receipt |-> rc, blockedBy |-> t.blockedBy,
           parent |-> t.parent, children |-> t.children]
<1>1. PICK e : e = [t EXCEPT !.status = st, !.receipt = rc]
  OBVIOUS
<1>2. DOMAIN t = {"status", "receipt", "blockedBy", "parent", "children"}
  BY DEF FieldsAre
<1>3. DOMAIN e = DOMAIN t /\ e = [h \in DOMAIN t |-> e[h]]
  BY <1>1
<1>4. FieldsAre(e)
  BY <1>2, <1>3 DEF FieldsAre
<1>5. /\ e.status = st /\ e.receipt = rc /\ e.blockedBy = t.blockedBy
      /\ e.parent = t.parent /\ e.children = t.children
  BY <1>1, <1>2
<1> QED BY <1>1, <1>4, <1>5 DEF FieldsAre

LEMMA TicketSplit ==
  ASSUME NEW t, FieldsAre(t), NEW cs, NEW bb
  PROVE  [t EXCEPT !.children = cs, !.blockedBy = bb]
         = [status |-> t.status, receipt |-> t.receipt, blockedBy |-> bb,
           parent |-> t.parent, children |-> cs]
<1>1. PICK e : e = [t EXCEPT !.children = cs, !.blockedBy = bb]
  OBVIOUS
<1>2. DOMAIN t = {"status", "receipt", "blockedBy", "parent", "children"}
  BY DEF FieldsAre
<1>3. DOMAIN e = DOMAIN t /\ e = [h \in DOMAIN t |-> e[h]]
  BY <1>1
<1>4. FieldsAre(e)
  BY <1>2, <1>3 DEF FieldsAre
<1>5. /\ e.status = t.status /\ e.receipt = t.receipt /\ e.blockedBy = bb
      /\ e.parent = t.parent /\ e.children = cs
  BY <1>1, <1>2
<1> QED BY <1>1, <1>4, <1>5 DEF FieldsAre

LEMMA NodeCompleted ==
  ASSUME NEW x, NodeIs(x), NEW st, NEW rc
  PROVE  [x EXCEPT !.status = st, !.receipt = rc]
         = [status |-> st, name |-> x.name, parent |-> x.parent, children |-> x.children,
           dependsOn |-> x.dependsOn, checkpoints |-> x.checkpoints, receipt |-> rc]
<1>1. PICK e : e = [x EXCEPT !.status = st, !.receipt = rc]
  OBVIOUS
<1>2. DOMAIN x = {"status", "name", "parent", "children", "dependsOn", "checkpoints", "receipt"}
  BY DEF NodeIs
<1>3. DOMAIN e = DOMAIN x /\ e = [h \in DOMAIN x |-> e[h]]
  BY <1>1
<1>4. NodeIs(e)
  BY <1>2, <1>3 DEF NodeIs
<1>5. /\ e.status = st /\ e.name = x.name /\ e.parent = x.parent
      /\ e.children = x.children /\ e.dependsOn = x.dependsOn /\ e.checkpoints = x.checkpoints /\ e.receipt = rc
  BY <1>1, <1>2
<1> QED BY <1>1, <1>4, <1>5 DEF NodeIs

LEMMA NodeCheckpointed ==
  ASSUME NEW x, NodeIs(x), NEW cp, NEW st
  PROVE  [x EXCEPT !.checkpoints = cp, !.status = st]
         = [status |-> st, name |-> x.name, parent |-> x.parent, children |-> x.children,
           dependsOn |-> x.dependsOn, checkpoints |-> cp, receipt |-> x.receipt]
<1>1. PICK e : e = [x EXCEPT !.checkpoints = cp, !.status = st]
  OBVIOUS
<1>2. DOMAIN x = {"status", "name", "parent", "children", "dependsOn", "checkpoints", "receipt"}
  BY DEF NodeIs
<1>3. DOMAIN e = DOMAIN x /\ e = [h \in DOMAIN x |-> e[h]]
  BY <1>1
<1>4. NodeIs(e)
  BY <1>2, <1>3 DEF NodeIs
<1>5. /\ e.status = st /\ e.name = x.name /\ e.parent = x.parent
      /\ e.children = x.children /\ e.dependsOn = x.dependsOn /\ e.checkpoints = cp /\ e.receipt = x.receipt
  BY <1>1, <1>2
<1> QED BY <1>1, <1>4, <1>5 DEF NodeIs

NodeMade(x, st, cs, pa, dd) == [x EXCEPT !.status = st, !.children = cs, !.parent = pa, !.dependsOn = dd]

LEMMA NodeRewired ==
  ASSUME NEW x, NodeIs(x), NEW st, NEW cs, NEW pa, NEW dd
  PROVE  NodeMade(x, st, cs, pa, dd)
         = [status |-> st, name |-> x.name, parent |-> pa, children |-> cs,
           dependsOn |-> dd, checkpoints |-> x.checkpoints, receipt |-> x.receipt]
<1>1. PICK e : e = NodeMade(x, st, cs, pa, dd)
  OBVIOUS
<1>2. DOMAIN x = {"status", "name", "parent", "children", "dependsOn", "checkpoints", "receipt"}
  BY DEF NodeIs
<1>3. DOMAIN e = DOMAIN x /\ e = [h \in DOMAIN x |-> e[h]]
  BY <1>1 DEF NodeMade
<1>4. NodeIs(e)
  BY <1>2, <1>3 DEF NodeIs
<1>5. /\ e.status = st /\ e.name = x.name /\ e.parent = pa
      /\ e.children = cs /\ e.dependsOn = dd /\ e.checkpoints = x.checkpoints /\ e.receipt = x.receipt
  BY <1>1, <1>2 DEF NodeMade
<1> QED BY <1>1, <1>4, <1>5 DEF NodeIs

LEMMA TicketForIs ==
  ASSUME NEW k, NEW x
  PROVE  /\ D!TicketFor(k, x) # D!Absent /\ TicketIs(D!TicketFor(k, x)) /\ D!TicketFor(k, x).blockedBy = x
         /\ plan.kind[k] = "terminal" => D!TicketFor(k, x).status = "done" /\ D!TicketFor(k, x).receipt = 1
<1>1. PICK a : a = D!Absent
  OBVIOUS
<1>2. FieldsAre(a) /\ a.status = "absent"
  BY <1>1 DEF D!Absent, FieldsAre
<1>3. \A st, rc : [a EXCEPT !.status = st, !.receipt = rc, !.blockedBy = x]
        = [status |-> st, receipt |-> rc, blockedBy |-> x, parent |-> a.parent, children |-> a.children]
  <2>1. ASSUME NEW st, NEW rc
        PROVE  [a EXCEPT !.status = st, !.receipt = rc, !.blockedBy = x]
                 = [status |-> st, receipt |-> rc, blockedBy |-> x, parent |-> a.parent, children |-> a.children]
    BY <1>2, TicketCreated
  <2> QED BY <2>1
<1>4. CASE plan.kind[k] = "terminal"
  <2>1. D!TicketFor(k, x) = [status |-> "done", receipt |-> 1, blockedBy |-> x, parent |-> a.parent, children |-> a.children]
    BY <1>1, <1>3, <1>4 DEF D!TicketFor
  <2> QED BY <1>1, <1>2, <2>1 DEF TicketIs, FieldsAre
<1>5. CASE plan.kind[k] # "terminal"
  <2>1. D!TicketFor(k, x) = [status |-> "open", receipt |-> 0, blockedBy |-> x, parent |-> a.parent, children |-> a.children]
    BY <1>1, <1>3, <1>5 DEF D!TicketFor
  <2> QED BY <1>1, <1>2, <1>5, <2>1 DEF TicketIs, FieldsAre
<1> QED BY <1>4, <1>5

LEMMA DeliveryBegins == ASSUME D!DInit PROVE DeliveryInv
<1>1. /\ plan \in Plans /\ D!Accepted(plan) /\ tickets = [id \in Names |-> D!Absent]
      /\ file = D!NoFile /\ step = D!Idle /\ tries = 0
  BY DEF D!DInit, Names, Keys
<1>2. TicketIs(D!Absent)
  BY DEF TicketIs, FieldsAre, D!Absent
<1>3. \A id \in Names : ~There(id) /\ tickets[id] = D!Absent
  BY <1>1 DEF There
<1>4. PlanIs
  BY <1>1, <1>2, <1>3 DEF PlanIs
<1>5. OneTicket /\ AllFounded
  BY <1>3 DEF OneTicket, AllFounded, Names
<1>6. tries \in 0..MaxTries
  BY <1>1, PlansAssumption
<1> QED BY <1>1, <1>4, <1>5, <1>6 DEF DeliveryInv, PlanSettled

LEMMA MaterializeKeeps == ASSUME DeliveryInv, D!Materialize PROVE DeliveryInv'
<1>1. PICK found : found = [k \in Keys |-> D!NamesOf(k)]
  OBVIOUS
<1>2. PICK missing : missing = {k \in Keys : found[k] = {}}
  OBVIOUS
<1>3. PICK name : name = [k \in Keys |-> IF k \in missing THEN <<k, tries + 1>>
                                         ELSE CHOOSE id \in found[k] : TRUE]
  OBVIOUS
<1>4. PICK b : b = [k \in missing |-> D!TicketFor(k, D!Blockers(k, name, missing))]
  OBVIOUS
<1>5. PICK f : f = [k \in Keys |-> D!Node(k, name[k])]
  OBVIOUS
<1>6. /\ file = D!NoFile /\ tries < MaxTries /\ tries' = tries + 1
      /\ step' = [name |-> "materialize", batch |-> b, result |-> f]
      /\ plan' = plan /\ tickets' = tickets /\ file' = file /\ nested' = nested
  BY <1>1, <1>2, <1>3, <1>4, <1>5 DEF D!Materialize, D!Materializes, Keys
<1>7. PlanSettled' /\ PlanIs
  BY <1>6, PlanSettledRests DEF DeliveryInv, PlanSettled
<1>8. tries' \in 1..MaxTries /\ tries' \in 0..MaxTries
  BY <1>6, PlansAssumption DEF DeliveryInv
<1>9. ASSUME NEW k \in Keys
      PROVE  /\ f[k] = D!Node(k, f[k].name) /\ f[k].name = name[k]
             /\ name[k] = IF k \in missing THEN <<k, tries'>> ELSE CHOOSE id \in found[k] : TRUE
  <2>1. \A x : D!Node(k, x).name = x
    BY DEF D!Node
  <2>2. f[k] = D!Node(k, name[k])
    BY <1>5
  <2> QED BY <1>3, <1>6, <2>1, <2>2
<1>10. ASSUME NEW k \in Keys, k \in missing, NEW i \in 1..MaxTries PROVE ~There(<<k, i>>)
  <2>1. D!NamesOf(k) = {}
    BY <1>1, <1>2, <1>10
  <2>2. <<k, i>> \in DOMAIN tickets
    BY <1>7 DEF PlanIs, Names
  <2> QED BY <2>1, <2>2 DEF D!NamesOf, There
<1>11. ASSUME NEW k \in Keys, k \notin missing PROVE name[k] \in {k} \X (1..MaxTries) /\ There(name[k])
  <2>1. D!NamesOf(k) # {} /\ found[k] = D!NamesOf(k)
    BY <1>1, <1>2, <1>11
  <2>2. name[k] \in D!NamesOf(k)
    BY <1>9, <1>11, <2>1
  <2>3. DOMAIN tickets = Names
    BY <1>7 DEF PlanIs
  <2> QED BY <2>2, <2>3 DEF D!NamesOf, There, Names
<1>12. ASSUME NEW k \in missing PROVE b[k] = D!TicketFor(k, {f[d].name : d \in plan.deps[k]})
  <2>1. plan.deps[k] \subseteq Keys
    BY <1>2, <1>7, KeysAre
  <2>2. {name[d] : d \in plan.deps[k]} = {f[d].name : d \in plan.deps[k]}
    BY <1>9, <2>1
  <2> QED BY <1>4, <2>2 DEF D!Blockers
<1>13. Keys' = Keys /\ \A k, x : D!Node(k, x)' = D!Node(k, x) /\ D!TicketFor(k, x)' = D!TicketFor(k, x)
  BY <1>6, PlanRests
<1>14. \A id : There(id)' <=> There(id)
  BY <1>6 DEF There
<1>15. DOMAIN b = missing /\ missing \subseteq Keys /\ b = [k \in DOMAIN b |-> b[k]] /\ f = [k \in Keys |-> f[k]]
  BY <1>2, <1>4, <1>5
<1>16. ASSUME NEW k \in Keys
       PROVE  /\ f[k] = D!Node(k, f[k].name)'
              /\ IF k \in DOMAIN b
                 THEN /\ f[k].name = <<k, tries'>>
                      /\ \A i \in 1..MaxTries : ~There(<<k, i>>)'
                      /\ b[k] = D!TicketFor(k, {f[d].name : d \in plan.deps[k]})'
                 ELSE f[k].name \in {k} \X (1..MaxTries) /\ There(f[k].name)'
  <2>1. f[k] = D!Node(k, f[k].name)'
    BY <1>9, <1>13
  <2>2. CASE k \in missing
    <3>1. b[k] = D!TicketFor(k, {f[d].name : d \in plan.deps[k]})'
      BY <1>6, <1>12, <1>13, <2>2
    <3> QED BY <1>9, <1>10, <1>14, <1>15, <2>1, <2>2, <3>1
  <2>3. CASE k \notin missing
    BY <1>9, <1>11, <1>14, <1>15, <2>1, <2>3
  <2> QED BY <2>2, <2>3
<1>17. BatchIs(b, f)'
  BY <1>6, <1>8, <1>13, <1>15, <1>16 DEF BatchIs, D!NoFile
<1>18. BatchSound'
  BY <1>6, <1>17 DEF BatchSound
<1> QED BY <1>7, <1>8, <1>18 DEF DeliveryInv
LEMMA CreateBatchKeeps == ASSUME DeliveryInv, D!CreateBatch PROVE DeliveryInv'
<1>1. step.name = "materialize" /\ PlanIs /\ OneTicket /\ BatchSound
  BY DEF D!CreateBatch, DeliveryInv, PlanSettled, D!Idle, WriteSound
<1>2. PICK b, f : step = [name |-> "materialize", batch |-> b, result |-> f] /\ BatchIs(b, f)
  BY <1>1 DEF BatchSound
<1>3. AllFounded /\ file = D!NoFile
  BY <1>2 DEF DeliveryInv, PlanSettled, BatchIs
<1>4. PICK top \in DOMAIN b :
        LET now == {k \in DOMAIN b : k <= top}
        IN /\ tickets' = [id \in DOMAIN tickets |->
                IF id[1] \in now /\ id[2] = tries THEN step.batch[id[1]] ELSE tickets[id]]
           /\ step' = [step EXCEPT !.batch = [k \in DOMAIN step.batch \ now |-> step.batch[k]]]
  BY <1>2 DEF D!CreateBatch
<1>5. PICK now : now = {k \in DOMAIN b : k <= top}
  OBVIOUS
<1>6. PICK c : c = [k \in DOMAIN b \ now |-> b[k]]
  OBVIOUS
<1>7. /\ plan' = plan /\ file' = file /\ tries' = tries /\ nested' = nested
      /\ step' = [name |-> "materialize", batch |-> c, result |-> f]
  BY <1>2, <1>4, <1>5, <1>6 DEF D!CreateBatch
<1>8. /\ tickets' = [id \in Names |-> tickets'[id]]
      /\ \A id \in Names : tickets'[id] = IF id[1] \in now /\ id[2] = tries THEN b[id[1]] ELSE tickets[id]
  BY <1>1, <1>2, <1>4, <1>5 DEF PlanIs
<1>9. Keys' = Keys /\ Names' = Names /\ \A k, x : D!Node(k, x)' = D!Node(k, x) /\ D!TicketFor(k, x)' = D!TicketFor(k, x)
  BY <1>7, PlanRests
<1>10. /\ now \subseteq DOMAIN b /\ DOMAIN b \subseteq Keys /\ tries \in 1..MaxTries
       /\ DOMAIN c = DOMAIN b \ now /\ \A k \in DOMAIN c : c[k] = b[k]
       /\ \A k \in Keys : plan.deps[k] \subseteq 1..(k - 1) /\ plan.deps[k] \subseteq Keys
  BY <1>1, <1>2, <1>5, <1>6, KeysAre DEF BatchIs
<1>11. ASSUME NEW k \in DOMAIN b
       PROVE  /\ f[k].name = <<k, tries>> /\ \A i \in 1..MaxTries : ~There(<<k, i>>)
              /\ b[k] = D!TicketFor(k, {f[d].name : d \in plan.deps[k]})
  BY <1>2, <1>10 DEF BatchIs
<1>12. ASSUME NEW k \in Keys, k \notin DOMAIN b PROVE f[k].name \in {k} \X (1..MaxTries) /\ There(f[k].name)
  BY <1>2, <1>12 DEF BatchIs
<1>13. \A k, x : /\ D!TicketFor(k, x) # D!Absent /\ TicketIs(D!TicketFor(k, x)) /\ D!TicketFor(k, x).blockedBy = x
                 /\ plan.kind[k] = "terminal" => D!TicketFor(k, x).status = "done" /\ D!TicketFor(k, x).receipt = 1
  BY TicketForIs
<1>14. \A id \in Names : There(id)' <=> There(id) \/ (id[1] \in now /\ id[2] = tries)
  <2>1. SUFFICES ASSUME NEW id \in Names PROVE There(id)' <=> There(id) \/ (id[1] \in now /\ id[2] = tries)
    OBVIOUS
  <2>2. CASE id[1] \in now /\ id[2] = tries
    <3>1. PICK k \in DOMAIN b : k = id[1]
      BY <1>10, <2>2
    <3>2. tickets'[id] = D!TicketFor(k, {f[d].name : d \in plan.deps[k]})
      BY <1>8, <1>11, <2>2, <3>1
    <3> QED BY <1>13, <2>2, <3>2 DEF There
  <2>3. CASE ~(id[1] \in now /\ id[2] = tries)
    BY <1>8, <2>3 DEF There, D!Absent
  <2> QED BY <2>2, <2>3
<1>15. \A id \in Names : id[1] \in DOMAIN b => ~There(id)
  <2>1. \A id \in Names : id = <<id[1], id[2]>> /\ id[2] \in 1..MaxTries
    BY DEF Names
  <2> QED BY <1>11, <2>1
<1>16. PlanIs'
  <2>1. \A id \in Names : TicketIs(tickets'[id])
    <3>1. SUFFICES ASSUME NEW id \in Names PROVE TicketIs(tickets'[id])
      OBVIOUS
    <3>2. CASE id[1] \in now /\ id[2] = tries
      <4>1. PICK k \in DOMAIN b : k = id[1]
        BY <1>10, <3>2
      <4>2. tickets'[id] = D!TicketFor(k, {f[d].name : d \in plan.deps[k]})
        BY <1>8, <1>11, <3>2, <4>1
      <4> QED BY <1>13, <4>2
    <3>3. CASE ~(id[1] \in now /\ id[2] = tries)
      BY <1>1, <1>8, <3>3 DEF PlanIs
    <3> QED BY <3>2, <3>3
  <2>2. \A id \in Names : TicketIs(tickets[id])'
    BY <2>1 DEF TicketIs, FieldsAre
  <2> QED BY <1>1, <1>7, <1>8, <1>9, <2>2 DEF PlanIs, D!Accepted
<1>17. OneTicket'
  <2>1. ASSUME NEW k \in Keys, NEW i \in 1..MaxTries, NEW j \in 1..MaxTries, There(<<k, i>>)', There(<<k, j>>)'
        PROVE  i = j
    <3>1. <<k, i>> \in Names /\ <<k, j>> \in Names
      BY DEF Names
    <3> QED BY <1>1, <1>10, <1>14, <1>15, <2>1, <3>1 DEF OneTicket
  <2> QED BY <1>9, <2>1 DEF OneTicket
(* Whom a new ticket waits for is there, with it or before it.             *)
<1>18. ASSUME NEW k \in Keys, k \notin DOMAIN c
       PROVE  f[k].name \in Names /\ f[k].name[1] = k /\ There(f[k].name)' /\ \A id \in Names : id[1] = k /\ There(id)' => id = f[k].name
  <2>1. f[k].name \in Names /\ f[k].name[1] = k /\ There(f[k].name)'
    <3>1. CASE k \in DOMAIN b
      <4>1. f[k].name = <<k, tries>> /\ k \in now
        BY <1>10, <1>11, <1>18, <3>1
      <4>2. <<k, tries>> \in Names /\ <<k, tries>>[1] = k /\ <<k, tries>>[2] = tries
        BY <1>10 DEF Names
      <4> QED BY <1>14, <4>1, <4>2
    <3>2. CASE k \notin DOMAIN b
      BY <1>12, <1>14, <3>2 DEF Names
    <3> QED BY <3>1, <3>2
  <2>2. PICK i \in 1..MaxTries : f[k].name = <<k, i>>
    BY <2>1 DEF Names
  <2>3. ASSUME NEW id \in Names, id[1] = k, There(id)' PROVE id = f[k].name
    <3>1. PICK j \in 1..MaxTries : id = <<k, j>>
      BY <2>3 DEF Names
    <3> QED BY <1>9, <1>17, <2>1, <2>2, <2>3, <3>1 DEF OneTicket
  <2> QED BY <2>1, <2>3
<1>19. AllFounded'
  <2>1. SUFFICES ASSUME NEW id \in Names, There(id)' PROVE Founded(id[1], tickets[id])'
    BY <1>9 DEF AllFounded, Founded
  <2>2. PICK k \in Keys : k = id[1]
    BY DEF Names
  <2>3. CASE k \in now /\ id[2] = tries
    <3>1. tickets'[id] = D!TicketFor(k, {f[d].name : d \in plan.deps[k]})
      BY <1>8, <1>10, <1>11, <2>2, <2>3
    <3>2. \A d \in plan.deps[k] : d \in Keys /\ d \notin DOMAIN c
      <4>1. k <= top /\ k \in Nat /\ top \in Nat
        BY <1>1, <1>5, <1>10, <2>3, KeysAre
      <4> QED BY <1>5, <1>10, <4>1
    <3>3. Founders(k)' = {f[d].name : d \in plan.deps[k]}
      BY <1>7, <1>9, <1>18, <3>2 DEF Founders
    <3>4. \A d \in plan.deps[k] : \E x \in Names : x[1] = d /\ There(x)'
      BY <1>18, <3>2
    <3>5. tickets'[id].blockedBy = Founders(k)'
      BY <1>13, <3>1, <3>3
    <3>6. plan.kind[k] = "terminal" => tickets'[id].status = "done" /\ tickets'[id].receipt = 1
      BY <1>13, <3>1
    <3> QED BY <1>7, <1>9, <2>2, <3>4, <3>5, <3>6 DEF Founded
  <2>4. CASE ~(k \in now /\ id[2] = tries)
    <3>1. There(id) /\ tickets'[id] = tickets[id]
      BY <1>8, <1>14, <2>1, <2>2, <2>4
    <3>2. Founded(k, tickets[id])
      BY <1>3, <2>2, <3>1 DEF AllFounded
    <3>3. \A d \in plan.deps[k] : d \notin DOMAIN b
      BY <1>15, <3>2 DEF Founded
    <3>4. \A x \in Names : x[1] \in plan.deps[k] => (There(x)' <=> There(x))
      BY <1>10, <1>14, <3>3
    <3>5. Founders(k)' = Founders(k)
      BY <1>7, <1>9, <3>4 DEF Founders
    <3>6. \A d \in plan.deps[k] : \E x \in Names : x[1] = d /\ There(x)'
      BY <3>2, <3>4 DEF Founded
    <3> QED BY <1>7, <1>9, <2>2, <3>1, <3>2, <3>5, <3>6 DEF Founded
  <2> QED BY <2>3, <2>4
<1>20. ASSUME NEW k \in Keys
       PROVE  /\ f[k] = D!Node(k, f[k].name)'
              /\ IF k \in DOMAIN c
                 THEN /\ f[k].name = <<k, tries>>
                      /\ \A i \in 1..MaxTries : ~There(<<k, i>>)'
                      /\ c[k] = D!TicketFor(k, {f[d].name : d \in plan.deps[k]})'
                 ELSE f[k].name \in {k} \X (1..MaxTries) /\ There(f[k].name)'
  <2>1. f[k] = D!Node(k, f[k].name)'
    BY <1>2, <1>9 DEF BatchIs
  <2>2. CASE k \in DOMAIN c
    <3>1. c[k] = D!TicketFor(k, {f[d].name : d \in plan.deps[k]})'
      BY <1>7, <1>9, <1>10, <1>11, <2>2
    <3>2. ASSUME NEW i \in 1..MaxTries PROVE ~There(<<k, i>>)'
      <4>1. <<k, i>> \in Names
        BY DEF Names
      <4> QED BY <1>10, <1>11, <1>14, <2>2, <4>1
    <3> QED BY <1>10, <1>11, <2>1, <2>2, <3>1, <3>2
  <2>3. CASE k \notin DOMAIN c
    <3>1. f[k].name \in {k} \X (1..MaxTries)
      BY <1>18, <2>3 DEF Names
    <3> QED BY <1>18, <2>1, <2>3, <3>1
  <2> QED BY <2>2, <2>3
<1>21. BatchIs(c, f)'
  <2>1. f = [k \in Keys |-> f[k]] /\ c = [k \in DOMAIN c |-> c[k]] /\ DOMAIN c \subseteq Keys
    BY <1>2, <1>6, <1>10 DEF BatchIs
  <2> QED BY <1>3, <1>7, <1>9, <1>10, <1>20, <2>1 DEF BatchIs, D!NoFile
<1>22. BatchSound'
  BY <1>7, <1>21 DEF BatchSound
<1> QED BY <1>3, <1>7, <1>16, <1>17, <1>19, <1>22 DEF DeliveryInv, PlanSettled, D!NoFile
(* The first state file says what the plan says.                           *)
LEMMA PlanIsSound ==
  ASSUME PlanIs, OneTicket, AllFounded, NEW b, NEW f, BatchIs(b, f), DOMAIN b = {}
  PROVE  NodesSound(f)
<1>1. ASSUME NEW k \in Keys
      PROVE  /\ f[k] = D!Node(k, f[k].name) /\ f[k].name \in {k} \X (1..MaxTries) /\ There(f[k].name)
             /\ f[k].name \in Names /\ f[k].name[1] = k
  BY DEF BatchIs, Names
<1>2. ASSUME NEW k \in Keys
      PROVE  /\ NodeIs(f[k]) /\ f[k].children = {} /\ f[k].dependsOn = plan.deps[k]
             /\ f[k].status \in {"materialized", "terminal", "split_required"}
             /\ f[k].status = "terminal" => plan.kind[k] = "terminal" /\ f[k].receipt = 1
  <2>1. plan.kind[k] \in {"pending", "split_required", "terminal"}
    BY DEF PlanIs, D!Accepted, D!Kinds, Keys, D!Keys
  <2>2. PICK x : x = f[k].name
    OBVIOUS
  <2>3. f[k] = D!Node(k, x)
    BY <1>1, <2>2
  <2>4. PICK s : s = IF plan.kind[k] = "pending" THEN "materialized" ELSE plan.kind[k]
    OBVIOUS
  <2>5. PICK r : r = IF plan.kind[k] = "terminal" THEN 1 ELSE 0
    OBVIOUS
  <2>6. f[k] = [status |-> s, name |-> x, parent |-> 0, children |-> {},
                dependsOn |-> plan.deps[k], checkpoints |-> 0, receipt |-> r]
    BY <2>3, <2>4, <2>5 DEF D!Node
  <2>7. s \in {"materialized", "terminal", "split_required"} /\ (s = "terminal" => plan.kind[k] = "terminal" /\ r = 1)
    BY <2>1, <2>4, <2>5
  <2> QED BY <2>6, <2>7 DEF NodeIs
<1>3. \A k \in Keys : plan.deps[k] \subseteq 1..(k - 1) /\ plan.deps[k] \subseteq Keys /\ k \in Nat
  BY KeysAre
<1>4. NodesAre(f)
  BY <1>1, <1>2, <1>3 DEF NodesAre, BatchIs
<1>5. Acyclic(f)
  <2>1. SUFFICES ASSUME NEW S \in SUBSET Keys, S # {} PROVE \E k \in S : f[k].dependsOn \cap S = {}
    BY DEF Acyclic
  <2>2. S \in SUBSET Nat
    BY <1>3
  <2>3. PICK k \in S : \A m \in S : k <= m
    BY <2>1, <2>2, LeastOf
  <2>4. \A d \in f[k].dependsOn : d < k /\ d \in Nat
    BY <1>2, <1>3
  <2>5. ASSUME NEW d \in f[k].dependsOn, d \in S PROVE FALSE
    <3>1. k <= d /\ d < k /\ k \in Nat /\ d \in Nat
      BY <1>3, <2>3, <2>4, <2>5
    <3> QED BY <3>1
  <2> QED BY <2>5
<1>6. PlanStands(f)
  <2>1. Untouched(f)
    BY <1>2 DEF Untouched
  <2>2. \A k \in Keys : f[k].children \cup f[k].dependsOn \subseteq Keys /\ f[k].children = {} /\ f[k].status # "split"
    BY <1>2, <1>3
  <2>3. Flat(f)
    BY <2>2 DEF Flat
  <2> QED BY <1>5, <2>1, <2>3 DEF PlanStands
<1>7. ASSUME NEW k \in Keys PROVE Blocked(f, k) /\ (f[k].status = "terminal" => Completes(f, k))
  <2>1. Founded(k, tickets[f[k].name])
    BY <1>1 DEF AllFounded
  <2>2. ASSUME NEW id \in Names, There(id), id[1] \in Keys PROVE id = f[id[1]].name
    <3>1. PICK d \in Keys : d = id[1]
      BY <2>2
    <3>2. PICK i \in 1..MaxTries : id = <<d, i>>
      BY <3>1 DEF Names
    <3>3. PICK j \in 1..MaxTries : f[d].name = <<d, j>>
      BY <1>1
    <3> QED BY <1>1, <2>2, <3>1, <3>2, <3>3 DEF OneTicket
  <2>3. Founders(k) = {f[d].name : d \in plan.deps[k]}
    <3>1. \A d \in plan.deps[k] : d \in Keys /\ f[d].name \in Founders(k)
      BY <1>1, <1>3 DEF Founders
    <3>2. \A id \in Founders(k) : id[1] \in plan.deps[k] /\ id = f[id[1]].name
      BY <1>3, <2>2 DEF Founders
    <3> QED BY <3>1, <3>2
  <2> QED BY <1>2, <2>1, <2>3 DEF Founded, Blocked, Completes
<1> QED BY <1>1, <1>4, <1>6, <1>7 DEF NodesSound

(* What is written: nothing is left to do.                                 *)
LEMMA WrittenIsSound ==
  ASSUME PlanIs, FileSound, NEW q, NEW f, WriteIs(q, f), q = << >>
  PROVE  NodesSound(f) /\ f # D!NoFile
<1>1. \A w : ~Listed(q, w)
  BY DEF Listed
<1>2. PlanStands(f) /\ NodesAre(f) /\ file # D!NoFile /\ \A k \in Keys : f[k].name = file[k].name /\ Owed(q, f, k)
  BY <1>1 DEF WriteIs
<1>3. f # D!NoFile
  <2>1. file = [k \in Keys |-> file[k]] /\ f = [k \in Keys |-> f[k]]
    BY <1>2 DEF FileSound, NodesSound, NodesAre
  <2>2. Keys # {}
    BY <1>2, <2>1 DEF D!NoFile
  <2> QED BY <2>1, <2>2 DEF D!NoFile
<1>4. \A k \in Keys : There(f[k].name)
  BY <1>2 DEF FileSound, NodesSound
<1> QED BY <1>1, <1>2, <1>3, <1>4 DEF NodesSound, Owed

LEMMA ReplaceFileKeeps == ASSUME DeliveryInv, D!ReplaceFile PROVE DeliveryInv'
<1>1. /\ PlanIs /\ OneTicket /\ D!Written /\ file' = step.result /\ step' = D!Idle
      /\ plan' = plan /\ tickets' = tickets /\ tries' = tries /\ nested' = nested
  BY DEF DeliveryInv, PlanSettled, D!ReplaceFile, D!ReplacesFile
<1>2. /\ PlanIs' /\ OneTicket' /\ (AllFounded => AllFounded')
  BY <1>1, TicketsRest
<1>3. step # D!Idle
  BY <1>1 DEF D!Written, D!Idle
<1>4. CASE BatchSound
  <2>1. PICK b, f : step = [name |-> "materialize", batch |-> b, result |-> f] /\ BatchIs(b, f)
    BY <1>4 DEF BatchSound
  <2>2. DOMAIN b = {} /\ file' = f
    BY <1>1, <2>1 DEF D!Written
  <2>3. AllFounded
    BY <2>1 DEF DeliveryInv, PlanSettled, BatchIs
  <2>4. NodesSound(f)
    BY <1>1, <2>1, <2>2, <2>3, PlanIsSound
  <2>5. FileSound'
    BY <1>1, <2>2, <2>4, NodesSoundRests, FileBecomes
  <2> QED BY <1>1, <1>2, <2>3, <2>5 DEF DeliveryInv, PlanSettled, D!NoFile
<1>5. CASE WriteSound
  <2>1. PICK q, f : step = [name |-> "write", todo |-> q, result |-> f] /\ WriteIs(q, f)
    BY <1>5 DEF WriteSound
  <2>2. q = << >> /\ file' = f /\ FileSound
    BY <1>1, <2>1 DEF D!Written, DeliveryInv, PlanSettled, WriteIs
  <2>3. NodesSound(f) /\ f # D!NoFile
    BY <1>1, <2>1, <2>2, WrittenIsSound
  <2>4. FileSound'
    BY <1>1, <2>2, <2>3, NodesSoundRests, FileBecomes
  <2> QED BY <1>1, <1>2, <2>2, <2>3, <2>4 DEF DeliveryInv, PlanSettled, D!NoFile
<1> QED BY <1>3, <1>4, <1>5 DEF DeliveryInv

LEMMA DiesKeeps == ASSUME DeliveryInv, D!Dies PROVE DeliveryInv'
<1>1. /\ plan' = plan /\ tickets' = tickets /\ file' = file /\ nested' = nested
      /\ tries' = tries /\ step' = D!Idle
  BY DEF D!Dies, D!Idle
<1>2. PlanSettled'
  BY <1>1, PlanSettledRests DEF DeliveryInv
<1> QED BY <1>1, <1>2 DEF DeliveryInv, D!Idle

LEMMA RecordCheckpointKeeps == ASSUME DeliveryInv, D!RecordCheckpoint PROVE DeliveryInv'
<1>1. PICK k \in Keys :
        /\ step = D!Idle /\ file # D!NoFile /\ file[k].status \in {"materialized", "checkpointed"}
        /\ file' = [file EXCEPT ![k].checkpoints = @ + 1, ![k].status = "checkpointed"]
  BY DEF D!RecordCheckpoint, D!Locks, Keys
<1>2. /\ plan' = plan /\ tickets' = tickets /\ step' = step /\ tries' = tries /\ nested' = nested
  BY DEF D!RecordCheckpoint
<1>3. PlanIs /\ OneTicket /\ FileSound /\ NodesAre(file)
  BY <1>1 DEF DeliveryInv, PlanSettled, FileSound, NodesSound
<1>4. PICK f : f = [file EXCEPT ![k].checkpoints = @ + 1, ![k].status = "checkpointed"]
  OBVIOUS
<1>5. PICK x : x = file[k]
  OBVIOUS
<1>6. f = [j \in Keys |-> f[j]] /\ \A j \in Keys : j # k => f[j] = file[j]
  BY <1>3, <1>4 DEF NodesAre
<1>7. f[k] = [x EXCEPT !.checkpoints = x.checkpoints + 1, !.status = "checkpointed"]
  BY <1>1, <1>3, <1>4, <1>5 DEF NodesAre
<1>8. NodeIs(x)
  BY <1>3, <1>5 DEF NodesAre
<1>9. PICK cp : cp = x.checkpoints + 1
  OBVIOUS
<1>10. f[k] = [status |-> "checkpointed", name |-> x.name, parent |-> x.parent, children |-> x.children,
               dependsOn |-> x.dependsOn, checkpoints |-> cp, receipt |-> x.receipt]
  BY <1>7, <1>8, <1>9, NodeCheckpointed
<1>11. NodeIs(f[k])
  BY <1>10 DEF NodeIs
<1>12. /\ \A j \in Keys : /\ f[j].name = file[j].name /\ f[j].children = file[j].children
                          /\ f[j].dependsOn = file[j].dependsOn /\ f[j].receipt = file[j].receipt
                          /\ f[j].status = IF j = k THEN "checkpointed" ELSE file[j].status
  BY <1>5, <1>6, <1>10
<1>13. NodesAre(f)
  BY <1>3, <1>6, <1>11, <1>12 DEF NodesAre
<1>14. PlanStands(f)
  <2>1. PlanStands(file)
    BY <1>3 DEF FileSound, NodesSound
  <2>2. Untouched(f)
    BY <1>12, <2>1 DEF PlanStands, Untouched
  <2>3. Flat(f)
    BY <1>3, <1>12, <2>1 DEF PlanStands, Flat, NodesAre
  <2>4. Acyclic(f)
    BY <1>12, <2>1 DEF PlanStands, Acyclic
  <2> QED BY <2>2, <2>3, <2>4 DEF PlanStands
<1>15. ASSUME NEW j \in Keys
       PROVE  /\ There(f[j].name) /\ (Whole(f[j]) => Blocked(f, j) \/ Torn(f, j))
              /\ f[j].status = "terminal" => Completes(f, j)
  <2>1. file[j].dependsOn \subseteq Keys
    BY <1>3 DEF NodesAre
  <2>2. There(f[j].name)
    BY <1>3, <1>12 DEF FileSound, NodesSound
  <2>3. f[j].status = "terminal" => Completes(f, j)
    BY <1>3, <1>12 DEF FileSound, NodesSound, Completes
  <2>4. Blocked(file, j) => Blocked(f, j)
    <3>1. {f[d].name : d \in f[j].dependsOn} = {file[d].name : d \in file[j].dependsOn}
      BY <1>12, <2>1
    <3> QED BY <1>12, <3>1 DEF Blocked
  <2>5. Torn(file, j) => Torn(f, j)
    BY <1>1, <1>12, <2>1 DEF Torn
  <2>6. Whole(f[j]) => Whole(file[j])
    BY <1>1, <1>12 DEF Whole
  <2> QED BY <1>3, <2>2, <2>3, <2>4, <2>5, <2>6 DEF FileSound, NodesSound
<1>16. NodesSound(f)
  BY <1>13, <1>14, <1>15 DEF NodesSound
<1>17. FileSound'
  BY <1>1, <1>2, <1>4, <1>16, NodesSoundRests, FileBecomes
<1>18. file' # D!NoFile
  <2>1. k \in DOMAIN file'
    BY <1>1, <1>4, <1>6
  <2> QED BY <2>1 DEF D!NoFile
<1>19. PlanIs' /\ OneTicket'
  BY <1>2, <1>3, TicketsRest
<1> QED BY <1>1, <1>2, <1>17, <1>18, <1>19 DEF DeliveryInv, PlanSettled, D!NoFile, D!Idle
(* A ticket of the plan, once there is a state file, is one it names.      *)
LEMMA NamedByFile ==
  ASSUME OneTicket, FileSound, NEW id \in Names, There(id)
  PROVE  \E k \in Keys : id = file[k].name
<1>1. PICK k \in Keys, i \in 1..MaxTries : id = <<k, i>>
  BY DEF Names
<1>2. PICK j \in 1..MaxTries : file[k].name = <<k, j>>
  BY DEF FileSound, NodesSound, NodesAre
<1>3. There(file[k].name)
  BY DEF FileSound, NodesSound
<1> QED BY <1>1, <1>2, <1>3 DEF OneTicket

LEMMA FileChanged ==
  ASSUME PlanIs, FileSound, file' = file, NEW n, NEW new, OneChange(n, new), NEW j \in Keys, n = file[j].name,
         new.blockedBy = tickets[n].blockedBy \/ ~Whole(file[j]) \/ Torn(file, j)
  PROVE  FileSound'
<1>1. PICK f : f = file
  OBVIOUS
<1>2. /\ NodesSound(f) /\ n = f[j].name
      /\ new.blockedBy = tickets[n].blockedBy \/ ~Whole(f[j]) \/ Torn(f, j)
  <2>1. NodesSound(f) /\ (Torn(file, j) => Torn(f, j))
    BY <1>1 DEF FileSound
  <2> QED BY <1>1, <2>1
<1>3. NodesSound(f)'
  BY <1>2, ChangedSound
<1> QED BY <1>1, <1>3, FileBecomes

LEMMA DoneByHandKeeps == ASSUME DeliveryInv, D!DoneByHand PROVE DeliveryInv'
<1>1. PICK id \in DOMAIN tickets :
        /\ step = D!Idle /\ tickets[id].status = "open"
        /\ tickets' = [tickets EXCEPT ![id].status = "done"]
  BY DEF D!DoneByHand, D!Locks
<1>2. plan' = plan /\ file' = file /\ step' = step /\ tries' = tries /\ nested' = nested
  BY DEF D!DoneByHand
<1>3. PlanIs /\ OneTicket /\ id \in Names /\ TicketIs(tickets[id])
  BY DEF DeliveryInv, PlanSettled, PlanIs
<1>4. PICK t : t = tickets[id]
  OBVIOUS
<1>5. PICK new : new = [t EXCEPT !.status = "done"]
  OBVIOUS
<1>6. /\ FieldsAre(new) /\ new.status = "done" /\ new.receipt = t.receipt
      /\ new.blockedBy = t.blockedBy /\ new.children = t.children
  BY <1>3, <1>4, <1>5 DEF TicketIs, FieldsAre
<1>7. There(id) /\ new # D!Absent
  BY <1>1, <1>6 DEF There, D!Absent
<1>8. tickets' = [tickets EXCEPT ![id] = new]
  BY <1>1, <1>4, <1>5
<1>9. OneChange(id, new)
  BY <1>1, <1>2, <1>3, <1>4, <1>6, <1>7, <1>8 DEF OneChange, TicketIs
<1>10. /\ Keys' = Keys /\ Names' = Names /\ PlanIs' /\ OneTicket'
       /\ \A x \in Names : There(x)' <=> There(x)
       /\ \A x \in Names : tickets'[x] = IF x = id THEN new ELSE tickets[x]
  BY <1>3, <1>9, Changed
<1>11. CASE file = D!NoFile
  <2>1. AllFounded
    BY <1>11 DEF DeliveryInv, PlanSettled
  <2>2. \A k : Founders(k)' = Founders(k)
    BY <1>2, <1>10 DEF Founders
  <2>3. ASSUME NEW x \in Names, There(x)' PROVE Founded(x[1], tickets[x])'
    <3>1. Founded(x[1], tickets[x])
      BY <1>10, <2>1, <2>3 DEF AllFounded
    <3>2. tickets'[x].blockedBy = tickets[x].blockedBy /\ tickets'[x].receipt = tickets[x].receipt
          /\ (tickets[x].status = "done" => tickets'[x].status = "done")
      BY <1>4, <1>6, <1>10
    <3> QED BY <1>2, <1>10, <2>2, <3>1, <3>2 DEF Founded
  <2>4. AllFounded'
    BY <1>10, <2>3 DEF AllFounded
  <2> QED BY <1>1, <1>2, <1>10, <1>11, <2>4 DEF DeliveryInv, PlanSettled, D!NoFile, D!Idle
<1>12. CASE file # D!NoFile
  <2>1. FileSound
    BY <1>12 DEF DeliveryInv, PlanSettled
  <2>2. PICK j \in Keys : id = file[j].name
    BY <1>3, <1>7, <2>1, NamedByFile
  <2>3. FileSound'
    BY <1>2, <1>3, <1>4, <1>6, <1>9, <2>1, <2>2, FileChanged
  <2> QED BY <1>1, <1>2, <1>10, <1>12, <2>3 DEF DeliveryInv, PlanSettled, D!NoFile, D!Idle
<1> QED BY <1>11, <1>12

LEMMA ItemRests ==
  ASSUME NEW q, NEW rest, NEW f, NEW w, plan' = plan, file' = file, ItemSound(q, f, w),
         \A k \in Keys : \A p \in file[k].dependsOn : SplitBegun(q, p) => SplitBegun(rest, p)'
  PROVE  ItemSound(rest, f, w)'
<1>1. Keys' = Keys
  BY KeysRest
<1>2. \A k : RewireOf(f, k)' = RewireOf(f, k)
  BY DEF RewireOf
<1>3. CASE w = [what |-> "refuse"]
  BY <1>3 DEF ItemSound
<1>4. CASE \E k \in Keys, r \in D!Receipts : w = [what |-> "complete", name |-> file[k].name, receipt |-> r]
  BY <1>1, <1>4 DEF ItemSound, D!Receipts
<1>5. CASE \E p \in Keys : \E ids :
             /\ w = [what |-> "parent", name |-> file[p].name, ids |-> ids]
             /\ ids # {} /\ file[p].status = "split_required" /\ ~Whole(f[p])
  <2>1. PICK p \in Keys : \E ids :
             /\ w = [what |-> "parent", name |-> file[p].name, ids |-> ids]
             /\ ids # {} /\ file[p].status = "split_required" /\ ~Whole(f[p])
    BY <1>5
  <2>2. PICK ids :
             /\ w = [what |-> "parent", name |-> file[p].name, ids |-> ids]
             /\ ids # {} /\ file[p].status = "split_required" /\ ~Whole(f[p])
    BY <2>1
  <2> QED BY <1>1, <2>2 DEF ItemSound, Whole
<1>6. CASE \E c \in Keys, p \in Keys : w = [what |-> "child", name |-> file[c].name, parent |-> p]
  BY <1>1, <1>6 DEF ItemSound
<1>7. CASE \E k \in Keys : /\ w = RewireOf(f, k)
                          /\ \E p \in file[k].dependsOn :
                               file[p].status = "split_required" /\ SplitBegun(q, p)
  BY <1>1, <1>2, <1>7 DEF ItemSound
<1> QED BY <1>1, <1>3, <1>4, <1>5, <1>6, <1>7 DEF ItemSound

(* What RecordReceipts and RecordSplit begin.                              *)
LEMMA WriteBegins ==
  ASSUME NEW q, NEW f, plan' = plan, tickets' = tickets, file' = file, NodesAre(f),
         file # D!NoFile, \E n \in Nat : DOMAIN q = 1..n, q = [i \in DOMAIN q |-> q[i]],
         \A i \in DOMAIN q : ItemSound(q, f, q[i]), \A k \in Keys : f[k].name = file[k].name,
         \/ Listed(q, [what |-> "refuse"])
         \/ Untouched(f) /\ Acyclic(f) /\ Flat(f)' /\ \A k \in Keys : Owed(q, f, k)
  PROVE  WriteIs(q, f)'
<1>1. Keys' = Keys
  BY KeysRest
<1>2. NodesAre(f)'
  BY NodesRest
<1>3. \A i \in DOMAIN q : ItemSound(q, f, q[i])'
  <2>1. \A k \in Keys : \A p \in file[k].dependsOn : SplitBegun(q, p) => SplitBegun(q, p)'
    BY DEF SplitBegun
  <2> QED BY <2>1, ItemRests
<1>4. Listed(q, [what |-> "refuse"]) => Listed(q, [what |-> "refuse"])'
  BY DEF Listed
<1>5. Untouched(f) /\ Acyclic(f) /\ Flat(f)' => PlanStands(f)'
  BY <1>1 DEF PlanStands, Untouched, Acyclic
<1>6. \A k \in Keys : Owed(q, f, k) => Owed(q, f, k)'
  BY DEF Owed, Whole, Blocked, Torn, Completes, Listed, RewireOf
<1> QED BY <1>1, <1>2, <1>3, <1>4, <1>5, <1>6 DEF WriteIs, D!NoFile

LEMMA RecordReceiptsKeeps == ASSUME DeliveryInv, D!RecordReceipts PROVE DeliveryInv'
<1>1. PICK ks \in SUBSET Keys, r \in D!Receipts :
        /\ step = D!Idle /\ file # D!NoFile /\ D!Cardinality(ks) \in 1..2 /\ D!Fits(D!Min(ks), r)
        /\ step' = [name |-> "write",
                    todo |-> [i \in 1..D!Cardinality(ks) |->
                                LET k == IF i = 1 THEN D!Min(ks) ELSE D!Max(ks) IN D!Completion(k, r)],
                    result |-> [k \in Keys |->
                                  IF k \in ks THEN [file[k] EXCEPT !.status = "terminal", !.receipt = r]
                                  ELSE file[k]]]
  BY DEF D!RecordReceipts, D!Locks, Keys
<1>2. plan' = plan /\ tickets' = tickets /\ file' = file /\ tries' = tries /\ nested' = nested
  BY DEF D!RecordReceipts
<1>3. PlanIs /\ FileSound /\ NodesAre(file) /\ PlanStands(file)
  BY <1>1 DEF DeliveryInv, PlanSettled, FileSound, NodesSound
<1>4. PICK n, a, z : n = D!Cardinality(ks) /\ a = D!Min(ks) /\ z = D!Max(ks)
  OBVIOUS
<1>5. n \in 1..2 /\ a \in ks /\ z \in ks /\ ks = {a, z} /\ (n = 1 => ks = {a})
  <2>1. ks \subseteq Nat /\ IsFiniteSet(ks)
    BY <1>3, KeysAre, FS_Subset
  <2> QED BY <1>1, <1>4, <2>1, LeastAndLast
<1>6. PICK q : q = [i \in 1..n |-> IF i = 1 THEN D!Completion(a, r) ELSE D!Completion(z, r)]
  OBVIOUS
<1>7. PICK f : f = [k \in Keys |-> IF k \in ks THEN [file[k] EXCEPT !.status = "terminal", !.receipt = r]
                                   ELSE file[k]]
  OBVIOUS
<1>8. step' = [name |-> "write", todo |-> q, result |-> f]
  <2>1. q = [i \in 1..n |-> D!Completion(IF i = 1 THEN a ELSE z, r)]
    BY <1>6
  <2> QED BY <1>1, <1>4, <1>7, <2>1
<1>9. DOMAIN q = 1..n /\ q[1] = D!Completion(a, r) /\ 1 \in 1..n /\ (n = 2 => q[2] = D!Completion(z, r) /\ 2 \in 1..n)
  BY <1>5, <1>6
<1>10. \A k \in Keys : D!Completion(k, r) =
         IF D!Fits(k, r) THEN [what |-> "complete", name |-> file[k].name, receipt |-> r] ELSE [what |-> "refuse"]
  BY DEF D!Completion, D!NameOf
<1>11. \A i \in DOMAIN q : \E k \in ks : q[i] = D!Completion(k, r)
  BY <1>5, <1>6, <1>9
<1>12. \A i \in DOMAIN q : ItemSound(q, f, q[i])
  <2>1. SUFFICES ASSUME NEW i \in DOMAIN q PROVE ItemSound(q, f, q[i])
    OBVIOUS
  <2>2. PICK k \in ks : q[i] = D!Completion(k, r)
    BY <1>11
  <2> QED BY <1>1, <1>10, <2>2 DEF ItemSound
<1>13. ASSUME NEW k \in Keys
       PROVE  /\ NodeIs(f[k]) /\ f[k].name = file[k].name /\ f[k].children = file[k].children
              /\ f[k].dependsOn = file[k].dependsOn
              /\ f[k].status = IF k \in ks THEN "terminal" ELSE file[k].status
              /\ f[k].receipt = IF k \in ks THEN r ELSE file[k].receipt
  <2>1. CASE k \notin ks
    BY <1>3, <1>7, <2>1 DEF NodesAre
  <2>2. CASE k \in ks
    <3>1. PICK x : x = file[k]
      OBVIOUS
    <3>2. NodeIs(x)
      BY <1>3, <3>1 DEF NodesAre
    <3>3. f[k] = [x EXCEPT !.status = "terminal", !.receipt = r]
      BY <1>7, <2>2, <3>1
    <3>4. f[k] = [status |-> "terminal", name |-> x.name, parent |-> x.parent, children |-> x.children,
                  dependsOn |-> x.dependsOn, checkpoints |-> x.checkpoints, receipt |-> r]
      BY <3>2, <3>3, NodeCompleted
    <3> QED BY <2>2, <3>1, <3>4 DEF NodeIs
  <2> QED BY <2>1, <2>2
<1>14. NodesAre(f)
  <2>1. ASSUME NEW k \in Keys
        PROVE  /\ NodeIs(f[k]) /\ f[k].name \in {k} \X (1..MaxTries)
               /\ f[k].children \subseteq Keys /\ f[k].dependsOn \subseteq Keys
               /\ f[k].status \in {"materialized", "checkpointed", "terminal", "split_required", "split"}
    BY <1>3, <1>13 DEF NodesAre
  <2>2. f = [k \in Keys |-> f[k]]
    BY <1>7
  <2> QED BY <2>1, <2>2 DEF NodesAre
<1>15. Listed(q, [what |-> "refuse"]) \/ \A k \in ks : D!Fits(k, r)
  <2>1. D!Fits(a, r)
    BY <1>1, <1>4
  <2>2. CASE n = 1
    BY <1>5, <2>1, <2>2
  <2>3. CASE n = 2
    <3>1. z \in Keys
      BY <1>5
    <3> QED BY <1>5, <1>9, <1>10, <2>1, <2>3, <3>1 DEF Listed
  <2> QED BY <1>5, <2>2, <2>3
<1>16. ASSUME \A k \in ks : D!Fits(k, r)
       PROVE  Untouched(f) /\ Acyclic(f) /\ Flat(f) /\ \A k \in Keys : Owed(q, f, k)
  <2>1. \A k \in ks : file[k].status \in {"materialized", "checkpointed"}
    BY <1>16 DEF D!Fits
  <2>2. Untouched(f)
    BY <1>3, <1>13 DEF PlanStands, Untouched
  <2>3. Acyclic(f)
    BY <1>3, <1>13 DEF PlanStands, Acyclic
  <2>4. Flat(f)
    BY <1>3, <1>13 DEF PlanStands, Flat, NodesAre
  <2>5. ASSUME NEW k \in Keys PROVE Owed(q, f, k)
    <3>1. file[k].dependsOn \subseteq Keys
      BY <1>3 DEF NodesAre
    <3>2. Blocked(file, k) => Blocked(f, k)
      <4>1. {f[d].name : d \in f[k].dependsOn} = {file[d].name : d \in file[k].dependsOn}
        BY <1>13, <3>1
      <4> QED BY <1>13, <4>1 DEF Blocked
    <3>3. Torn(file, k) => Torn(f, k)
      <4>1. \A p \in file[k].dependsOn : file[p].status = "split_required" => f[p].status = "split_required"
        BY <1>13, <2>1, <3>1
      <4> QED BY <1>13, <3>1, <4>1 DEF Torn
    <3>4. Whole(f[k]) => Whole(file[k])
      BY <1>13, <2>1 DEF Whole
    <3>5. ASSUME f[k].status = "terminal"
          PROVE  \/ Completes(f, k)
                 \/ Listed(q, [what |-> "complete", name |-> f[k].name, receipt |-> f[k].receipt])
      <4>1. CASE k \in ks
        <5>1. D!Completion(k, r) = [what |-> "complete", name |-> f[k].name, receipt |-> f[k].receipt]
          BY <1>10, <1>13, <1>16, <4>1
        <5>2. \E i \in DOMAIN q : q[i] = D!Completion(k, r)
          BY <1>5, <1>9, <4>1
        <5> QED BY <5>1, <5>2 DEF Listed
      <4>2. CASE k \notin ks
        BY <1>3, <1>13, <3>5, <4>2 DEF FileSound, NodesSound, Completes
      <4> QED BY <4>1, <4>2
    <3> QED BY <1>3, <3>2, <3>3, <3>4, <3>5 DEF Owed, FileSound, NodesSound
  <2> QED BY <2>2, <2>3, <2>4, <2>5
<1>17. Flat(f) => Flat(f)'
  <2>1. Keys' = Keys
    BY <1>2, KeysRest
  <2> QED BY <1>2, <2>1 DEF Flat
<1>18. WriteIs(q, f)'
  <2>1. n \in Nat /\ q = [i \in DOMAIN q |-> q[i]]
    BY <1>5, <1>6
  <2> QED BY <1>1, <1>2, <1>9, <1>12, <1>13, <1>14, <1>15, <1>16, <1>17, <2>1, WriteBegins
<1>19. PlanSettled'
  BY <1>2, PlanSettledRests DEF DeliveryInv
<1> QED BY <1>2, <1>8, <1>18, <1>19 DEF DeliveryInv, WriteSound
(* The nodes after a split.                                                *)
AfterSplit(f, p, cs) ==
  \A k \in Keys :
    /\ f[k].name = file[k].name /\ f[k].receipt = file[k].receipt
    /\ f[k].status = IF k = p THEN "split" ELSE file[k].status
    /\ f[k].children = IF k = p THEN cs ELSE file[k].children
    /\ f[k].dependsOn = IF p \in file[k].dependsOn THEN (file[k].dependsOn \ {p}) \cup cs
                        ELSE file[k].dependsOn

LEMMA RewiredIs ==
  ASSUME PlanIs, NodesAre(file), NEW p \in Keys, NEW cs \in SUBSET Keys, p \notin cs, NEW f, f = D!Rewired(file, p, cs)
  PROVE  NodesAre(f) /\ AfterSplit(f, p, cs)
<1>1. ASSUME NEW k \in Keys
      PROVE  /\ NodeIs(f[k]) /\ f[k].name = file[k].name /\ f[k].receipt = file[k].receipt
             /\ f[k].status = IF k = p THEN "split" ELSE file[k].status
             /\ f[k].children = IF k = p THEN cs ELSE file[k].children
             /\ f[k].dependsOn = IF p \in file[k].dependsOn THEN (file[k].dependsOn \ {p}) \cup cs
                                 ELSE file[k].dependsOn
  <2>1. PICK x : x = file[k]
    OBVIOUS
  <2>2. NodeIs(x)
    BY <2>1 DEF NodesAre
  <2>3. PICK st : st = IF k = p THEN "split" ELSE x.status
    OBVIOUS
  <2>4. PICK ch : ch = IF k = p THEN cs ELSE x.children
    OBVIOUS
  <2>5. PICK pa : pa = IF k \in cs THEN p ELSE x.parent
    OBVIOUS
  <2>6. PICK dd : dd = IF p \in x.dependsOn THEN (x.dependsOn \ {p}) \cup cs ELSE x.dependsOn
    OBVIOUS
  <2>7. f[k] = NodeMade(x, st, ch, pa, dd)
    <3>1. f[k] = [file[k] EXCEPT !.status = IF k = p THEN "split" ELSE @,
                                 !.children = IF k = p THEN cs ELSE @,
                                 !.parent = IF k \in cs THEN p ELSE @,
                                 !.dependsOn = IF p \in @ THEN (@ \ {p}) \cup cs ELSE @]
      BY DEF D!Rewired, Keys
    <3>2. DOMAIN x = {"status", "name", "parent", "children", "dependsOn", "checkpoints", "receipt"}
      BY <2>2 DEF NodeIs
    <3> QED BY <2>1, <2>3, <2>4, <2>5, <2>6, <3>1, <3>2 DEF NodeMade
  <2>8. f[k] = [status |-> st, name |-> x.name, parent |-> pa, children |-> ch,
                dependsOn |-> dd, checkpoints |-> x.checkpoints, receipt |-> x.receipt]
    <3>1. NodeMade(x, st, ch, pa, dd)
            = [status |-> st, name |-> x.name, parent |-> pa, children |-> ch,
               dependsOn |-> dd, checkpoints |-> x.checkpoints, receipt |-> x.receipt]
      BY <2>2, NodeRewired
    <3> QED BY <2>7, <3>1
  <2>9. /\ f[k].name = x.name /\ f[k].receipt = x.receipt /\ f[k].status = st
        /\ f[k].children = ch /\ f[k].dependsOn = dd /\ NodeIs(f[k])
    BY <2>8 DEF NodeIs
  <2> QED BY <2>1, <2>3, <2>4, <2>6, <2>9
<1>2. f = [k \in Keys |-> f[k]]
  BY DEF D!Rewired, Keys
<1>3. ASSUME NEW k \in Keys
      PROVE  /\ f[k].name \in {k} \X (1..MaxTries) /\ f[k].children \subseteq Keys /\ f[k].dependsOn \subseteq Keys
             /\ f[k].status \in {"materialized", "checkpointed", "terminal", "split_required", "split"}
  <2>1. /\ file[k].name \in {k} \X (1..MaxTries) /\ file[k].children \subseteq Keys /\ file[k].dependsOn \subseteq Keys
        /\ file[k].status \in {"materialized", "checkpointed", "terminal", "split_required", "split"}
    BY DEF NodesAre
  <2>2. f[k].name \in {k} \X (1..MaxTries)
    BY <1>1, <2>1
  <2>3. f[k].children \subseteq Keys
    BY <1>1, <2>1
  <2>4. f[k].dependsOn \subseteq Keys
    BY <1>1, <2>1
  <2>5. f[k].status \in {"materialized", "checkpointed", "terminal", "split_required", "split"}
    BY <1>1, <2>1
  <2> QED BY <2>2, <2>3, <2>4, <2>5
<1>4. NodesAre(f)
  BY <1>1, <1>2, <1>3 DEF NodesAre
<1> QED BY <1>1, <1>4 DEF AfterSplit

LEMMA SplitStands ==
  ASSUME FileSound, plan' = plan, NEW p \in Keys, NEW cs \in SUBSET Keys, p \notin cs, cs # {},
         file[p].status = "split_required", \A c \in cs : file[c].status # "split_required",
         nested' = (nested \/ \E c \in cs : file[c].status = "split"),
         NEW f, NodesAre(f), AfterSplit(f, p, cs)
  PROVE  Untouched(f) /\ Flat(f)'
<1> USE DEF AfterSplit
<1>1. NodesAre(file) /\ Untouched(file) /\ Flat(file)
  BY DEF FileSound, NodesSound, PlanStands
<1>2. Untouched(f)
  <2>1. SUFFICES ASSUME NEW s \in Keys, NEW k \in Keys, f[s].status = "split_required"
                 PROVE  s \in f[k].dependsOn <=> s \in plan.deps[k]
    BY DEF Untouched
  <2>2. s # p /\ file[s].status = "split_required" /\ s \notin cs
    BY <2>1
  <2>3. s \in f[k].dependsOn <=> s \in file[k].dependsOn
    BY <2>2
  <2> QED BY <1>1, <2>2, <2>3 DEF Untouched
<1>3. \A k \in Keys : f[k].status = "split" => Keys # {k}
  BY <1>1 DEF Flat
<1>4. ASSUME NEW k \in Keys, NEW d \in f[k].children PROVE f[d].status # "split_required"
  <2>1. d \in Keys
    BY <1>4 DEF NodesAre
  <2>2. file[d].status # "split_required" \/ d = p
    BY <1>1, <1>4, <2>1 DEF Flat
  <2> QED BY <2>1, <2>2
<1>5. ASSUME ~nested', NEW k \in Keys, NEW d \in f[k].children \cup f[k].dependsOn PROVE f[d].status # "split"
  <2>1. d \in Keys
    BY <1>5 DEF NodesAre
  <2>2. d # p
    <3>1. p \notin f[k].dependsOn
      OBVIOUS
    <3>2. p \notin f[k].children
      BY <1>1 DEF Flat
    <3> QED BY <1>5, <3>1, <3>2
  <2>3. file[d].status # "split"
    <3>1. ~nested /\ \A c \in cs : file[c].status # "split"
      BY <1>5
    <3>2. d \in cs \/ d \in file[k].children \cup file[k].dependsOn
      BY <1>5
    <3> QED BY <1>1, <3>1, <3>2 DEF Flat
  <2> QED BY <2>1, <2>2, <2>3
<1>6. Flat(f)'
  <2>1. Keys' = Keys
    BY KeysRest
  <2> QED BY <1>3, <1>4, <1>5, <2>1 DEF Flat
<1> QED BY <1>2, <1>6

LEMMA RecordSplitKeeps == ASSUME DeliveryInv, D!RecordSplit PROVE DeliveryInv'
<1>1. PICK p \in Keys, cs \in SUBSET Keys :
        /\ step = D!Idle /\ file # D!NoFile /\ D!Cardinality(cs) >= 2 /\ D!SplitAllowed(p, cs)
        /\ LET nodes == D!Rewired(file, p, cs)
               first == [what |-> "parent", name |-> D!NameOf(p), ids |-> {D!NameOf(c) : c \in cs}]
               children == D!InOrder(cs)
               others == D!InOrder(D!Dependents(p))
               n == D!Cardinality(cs)
           IN step' = [name |-> "write", result |-> nodes,
                       todo |-> [i \in 1..(1 + n + D!Cardinality(D!Dependents(p))) |->
                          IF i = 1 THEN first
                          ELSE IF i <= n + 1
                          THEN [what |-> "child", name |-> D!NameOf(children[i - 1]), parent |-> p]
                          ELSE [what |-> "blocked", name |-> D!NameOf(others[i - n - 1]),
                                ids |-> D!NewBlockers(nodes, others[i - n - 1])]]]
        /\ nested' = (nested \/ \E c \in cs : file[c].status = "split")
  BY DEF D!RecordSplit, D!Locks, Keys
<1>2. plan' = plan /\ tickets' = tickets /\ file' = file /\ tries' = tries
  BY DEF D!RecordSplit
<1>3. PlanIs /\ FileSound /\ NodesAre(file) /\ PlanStands(file)
  BY <1>1 DEF DeliveryInv, PlanSettled, FileSound, NodesSound
<1>4. PICK f : f = D!Rewired(file, p, cs)
  OBVIOUS
<1>5. /\ file[p].status = "split_required" /\ \A c \in cs : file[c].status # "split_required"
      /\ D!IsDag(f)
  BY <1>1, <1>4 DEF D!SplitAllowed, D!Splittable
<1>6. p \notin cs
  BY <1>5
<1>7. PICK N \in Nat : Keys = 1..N
  BY <1>3, KeysAre
<1>8. PICK ks : ks = D!Dependents(p)
  OBVIOUS
<1>9. ks = {k \in Keys : p \in file[k].dependsOn}
  BY <1>3, <1>5, <1>8 DEF D!Dependents, Keys, PlanStands, Untouched
<1>10. PICK n, m, cc, oo : n = D!Cardinality(cs) /\ m = D!Cardinality(ks) /\ cc = D!InOrder(cs) /\ oo = D!InOrder(ks)
  OBVIOUS
<1>11. /\ n \in Nat /\ n >= 2 /\ cc \in [1..n -> cs]
  BY <1>1, <1>7, <1>10, InOrderIs
<1>12. m \in Nat /\ oo \in [1..m -> ks] /\ \A k \in ks : \E i \in 1..m : oo[i] = k
  <2>1. ks \in SUBSET (1..N)
    BY <1>7, <1>9
  <2> QED BY <1>10, <2>1, InOrderIs
<1>13. cs # {} /\ {file[c].name : c \in cs} # {}
  <2>1. 1 \in 1..n
    BY <1>11
  <2> QED BY <1>11, <2>1
<1>14. NodesAre(f) /\ AfterSplit(f, p, cs)
  BY <1>3, <1>4, <1>6, RewiredIs
<1>15. Untouched(f) /\ Flat(f)'
  BY <1>1, <1>2, <1>3, <1>5, <1>6, <1>13, <1>14, SplitStands
<1>16. Acyclic(f)
  BY <1>3, <1>5, DagIsAcyclic
<1>17. PICK first : first = [what |-> "parent", name |-> file[p].name, ids |-> {file[c].name : c \in cs}]
  OBVIOUS
<1>18. PICK q : q = [i \in 1..(1 + n + m) |->
                       IF i = 1 THEN first
                       ELSE IF i <= n + 1
                       THEN [what |-> "child", name |-> file[cc[i - 1]].name, parent |-> p]
                       ELSE [what |-> "blocked", name |-> file[oo[i - n - 1]].name,
                             ids |-> D!NewBlockers(f, oo[i - n - 1])]]
  OBVIOUS
<1>19. step' = [name |-> "write", todo |-> q, result |-> f]
  <2>1. \A k : D!NameOf(k) = file[k].name
    BY DEF D!NameOf
  <2>2. first = [what |-> "parent", name |-> D!NameOf(p), ids |-> {D!NameOf(c) : c \in cs}]
    BY <1>17 DEF D!NameOf
  <2>3. q = [i \in 1..(1 + n + m) |->
                       IF i = 1 THEN first
                       ELSE IF i <= n + 1
                       THEN [what |-> "child", name |-> D!NameOf(cc[i - 1]), parent |-> p]
                       ELSE [what |-> "blocked", name |-> D!NameOf(oo[i - n - 1]),
                             ids |-> D!NewBlockers(f, oo[i - n - 1])]]
    BY <1>18, <2>1
  <2> QED BY <1>1, <1>4, <1>8, <1>10, <2>2, <2>3
<1>20. DOMAIN q = 1..(1 + n + m) /\ 1 + n + m \in Nat /\ q = [i \in DOMAIN q |-> q[i]] /\ q[1] = first /\ 1 \in DOMAIN q
  BY <1>11, <1>12, <1>18
<1>21. ASSUME NEW k \in ks PROVE RewireOf(f, k) = [what |-> "blocked", name |-> file[k].name, ids |-> D!NewBlockers(f, k)]
  <2>1. k \in Keys /\ f[k].dependsOn \subseteq Keys /\ f[k].name = file[k].name
    BY <1>9, <1>14 DEF NodesAre, AfterSplit
  <2>2. {f[d].name : d \in f[k].dependsOn} = D!NewBlockers(f, k)
    <3>1. \A d \in f[k].dependsOn : f[d].name = D!NameOf(d)
      BY <1>14, <2>1 DEF D!NameOf, AfterSplit
    <3> QED BY <3>1 DEF D!NewBlockers
  <2> QED BY <2>1, <2>2 DEF RewireOf
<1>22. ASSUME NEW j \in 1..m PROVE j + n + 1 \in DOMAIN q /\ q[j + n + 1] = RewireOf(f, oo[j])
  <2>1. j + n + 1 \in 1..(1 + n + m) /\ j + n + 1 # 1 /\ ~(j + n + 1 <= n + 1) /\ (j + n + 1) - n - 1 = j
    BY <1>11, <1>12
  <2>2. oo[j] \in ks
    BY <1>12
  <2>3. q[j + n + 1] = [what |-> "blocked", name |-> file[oo[j]].name, ids |-> D!NewBlockers(f, oo[j])]
    BY <1>18, <2>1
  <2> QED BY <1>20, <1>21, <2>1, <2>2, <2>3
<1>23. ASSUME NEW i \in DOMAIN q PROVE ItemSound(q, f, q[i])
  <2>1. CASE i = 1
    <3>1. PICK ids : ids = {file[c].name : c \in cs}
      OBVIOUS
    <3>2. q[i] = [what |-> "parent", name |-> file[p].name, ids |-> ids] /\ ids # {}
      BY <1>13, <1>17, <1>20, <2>1, <3>1
    <3>3. ~Whole(f[p])
      BY <1>14 DEF Whole, AfterSplit
    <3> QED BY <1>5, <3>2, <3>3 DEF ItemSound
  <2>2. CASE i # 1 /\ i <= n + 1
    <3>1. i \in 1..(1 + n + m) /\ i - 1 \in 1..n
      BY <1>11, <1>12, <1>20, <2>2
    <3>2. cc[i - 1] \in Keys
      BY <1>11, <3>1
    <3>3. q[i] = [what |-> "child", name |-> file[cc[i - 1]].name, parent |-> p]
      BY <1>18, <2>2, <3>1
    <3> QED BY <3>2, <3>3 DEF ItemSound
  <2>3. CASE i # 1 /\ ~(i <= n + 1)
    <3>1. PICK j \in 1..m : i = j + n + 1
      <4>1. i - n - 1 \in 1..m /\ i = (i - n - 1) + n + 1
        BY <1>11, <1>12, <1>20, <2>3
      <4> QED BY <4>1
    <3>2. q[i] = RewireOf(f, oo[j]) /\ oo[j] \in ks
      BY <1>12, <1>22, <3>1
    <3>3. SplitBegun(q, p)
      BY <1>17, <1>20 DEF SplitBegun
    <3>4. oo[j] \in Keys /\ p \in file[oo[j]].dependsOn
      BY <1>9, <3>2
    <3> QED BY <1>5, <3>2, <3>3, <3>4 DEF ItemSound
  <2> QED BY <2>1, <2>2, <2>3
<1>24. ASSUME NEW k \in Keys PROVE Owed(q, f, k)
  <2>1. ASSUME f[k].status = "terminal" PROVE Completes(f, k)
    <3>1. file[k].status = "terminal"
      BY <1>14, <2>1 DEF AfterSplit
    <3> QED BY <1>3, <1>14, <3>1 DEF FileSound, NodesSound, Completes, AfterSplit
  <2>2. ASSUME Whole(f[k]) PROVE Blocked(f, k) \/ Torn(f, k) \/ Listed(q, RewireOf(f, k))
    <3>1. CASE p \in file[k].dependsOn
      <4>1. PICK j \in 1..m : oo[j] = k
        BY <1>9, <1>12, <3>1
      <4> QED BY <1>22, <4>1 DEF Listed
    <3>2. CASE p \notin file[k].dependsOn
      <4>1. f[k].dependsOn = file[k].dependsOn /\ file[k].dependsOn \subseteq Keys /\ f[k].name = file[k].name
        BY <1>3, <1>14, <3>2 DEF NodesAre, AfterSplit
      <4>2. Whole(file[k])
        BY <1>14, <2>2 DEF Whole, AfterSplit
      <4>3. Blocked(file, k) => Blocked(f, k)
        <5>1. {f[d].name : d \in f[k].dependsOn} = {file[d].name : d \in file[k].dependsOn}
          <6>1. \A d \in file[k].dependsOn : f[d].name = file[d].name
            BY <1>14, <4>1 DEF AfterSplit
          <6> QED BY <4>1, <6>1
        <5> QED BY <4>1, <5>1 DEF Blocked
      <4>4. Torn(file, k) => Torn(f, k)
        <5>1. \A s \in file[k].dependsOn : f[s].status = file[s].status /\ f[s].name = file[s].name
          BY <1>14, <3>2, <4>1 DEF AfterSplit
        <5> QED BY <4>1, <5>1 DEF Torn
      <4> QED BY <1>3, <4>2, <4>3, <4>4 DEF FileSound, NodesSound
    <3> QED BY <3>1, <3>2
  <2> QED BY <2>1, <2>2 DEF Owed
<1>25. WriteIs(q, f)'
  <2>1. \A k \in Keys : f[k].name = file[k].name
    BY <1>14 DEF AfterSplit
  <2> QED BY <1>1, <1>2, <1>14, <1>15, <1>16, <1>20, <1>23, <1>24, <2>1, WriteBegins
<1>26. PlanSettled'
  BY <1>1, <1>2, PlanSettledRests DEF DeliveryInv
<1> QED BY <1>2, <1>19, <1>25, <1>26 DEF DeliveryInv, WriteSound
(* The first item of a write, what it makes of its ticket, and the rest.   *)
ItemDone(w, f, j, new) ==
  /\ w.name = file[j].name /\ OneChange(file[j].name, new)
  /\ \/ w.what \in {"complete", "child"} /\ new.blockedBy = tickets[file[j].name].blockedBy
     \/ w.what = "parent" /\ ~Whole(file[j]) /\ ~Whole(f[j]) /\ new.children # {}
     \/ w = RewireOf(f, j) /\ Torn(file, j) /\ new.blockedBy = {f[d].name : d \in f[j].dependsOn}
  /\ w.what = "complete" => new.status = "done" /\ new.receipt = w.receipt
  /\ w.what = "parent" => new.children # {}

LEMMA ItemChanges ==
  ASSUME PlanIs, OneTicket, FileSound, NEW q, NEW f, WriteIs(q, f), 1 \in DOMAIN q, ~D!Refused(q[1]),
         tickets' = [tickets EXCEPT ![q[1].name] = D!Updated(@, q[1])], plan' = plan, nested' = nested
  PROVE  \E j \in Keys : \E new : ItemDone(q[1], f, j, new)
<1>1. PICK w : w = q[1]
  OBVIOUS
<1>2. ItemSound(q, f, w) /\ ~D!Refused(w)
  BY <1>1 DEF WriteIs
<1>3. w # [what |-> "refuse"]
  BY <1>2 DEF D!Refused
<1>4. ASSUME NEW j \in Keys PROVE file[j].name \in Names /\ There(file[j].name) /\ TicketIs(tickets[file[j].name])
  BY NameOfNode DEF FileSound, NodesSound, PlanIs
<1>5. tickets' = [tickets EXCEPT ![q[1].name] = D!Updated(tickets[q[1].name], q[1])]
  OBVIOUS
<1>6. ASSUME NEW k \in Keys, NEW r \in D!Receipts, w = [what |-> "complete", name |-> file[k].name, receipt |-> r]
      PROVE  \E j \in Keys : \E new : ItemDone(w, f, j, new)
  <2>1. PICK n, t, new : n = file[k].name /\ t = tickets[n] /\ new = [t EXCEPT !.status = "done", !.receipt = r]
    OBVIOUS
  <2>2. n \in Names /\ There(n) /\ FieldsAre(t)
    BY <1>4, <2>1 DEF TicketIs
  <2>3. new = [status |-> "done", receipt |-> r, blockedBy |-> t.blockedBy, parent |-> t.parent, children |-> t.children]
    <3>1. [t EXCEPT !.status = "done", !.receipt = r]
            = [status |-> "done", receipt |-> r, blockedBy |-> t.blockedBy, parent |-> t.parent, children |-> t.children]
      BY <2>2, TicketCompleted
    <3> QED BY <2>1, <3>1
  <2>4. TicketIs(new) /\ new # D!Absent
    BY <2>3 DEF TicketIs, FieldsAre, D!Absent
  <2>5. t.status = "done" => t.receipt = r
    BY <1>2, <1>6, <2>1 DEF D!Refused
  <2>6. tickets' = [tickets EXCEPT ![n] = new]
    <3>1. D!Updated(t, w) = new
      BY <1>6, <2>1 DEF D!Updated
    <3>2. q[1].name = n /\ tickets[q[1].name] = t
      BY <1>1, <1>6, <2>1
    <3> QED BY <1>1, <1>5, <3>1, <3>2
  <2>7. OneChange(n, new)
    BY <2>1, <2>2, <2>3, <2>4, <2>5, <2>6 DEF OneChange
  <2>8. ItemDone(w, f, k, new)
    BY <1>6, <2>1, <2>3, <2>7 DEF ItemDone
  <2> QED BY <2>8
<1>7. ASSUME NEW p \in Keys, NEW ids, w = [what |-> "parent", name |-> file[p].name, ids |-> ids],
             ids # {}, file[p].status = "split_required", ~Whole(f[p])
      PROVE  \E j \in Keys : \E new : ItemDone(w, f, j, new)
  <2>1. PICK n, t, new : n = file[p].name /\ t = tickets[n] /\ new = [t EXCEPT !.children = ids, !.blockedBy = ids]
    OBVIOUS
  <2>2. n \in Names /\ There(n) /\ TicketIs(t) /\ FieldsAre(t)
    BY <1>4, <2>1 DEF TicketIs
  <2>3. new = [status |-> t.status, receipt |-> t.receipt, blockedBy |-> ids, parent |-> t.parent, children |-> ids]
    <3>1. [t EXCEPT !.children = ids, !.blockedBy = ids]
            = [status |-> t.status, receipt |-> t.receipt, blockedBy |-> ids, parent |-> t.parent, children |-> ids]
      BY <2>2, TicketSplit
    <3> QED BY <2>1, <3>1
  <2>4. t.status = "open"
    BY <1>2, <1>7, <2>1, <2>2 DEF D!Refused, TicketIs, There
  <2>5. TicketIs(new) /\ new # D!Absent
    BY <2>3, <2>4 DEF TicketIs, FieldsAre, D!Absent
  <2>6. tickets' = [tickets EXCEPT ![n] = new]
    <3>1. D!Updated(t, w) = new
      BY <1>7, <2>1 DEF D!Updated
    <3>2. q[1].name = n /\ tickets[q[1].name] = t
      BY <1>1, <1>7, <2>1
    <3> QED BY <1>1, <1>5, <3>1, <3>2
  <2>7. OneChange(n, new)
    BY <1>7, <2>1, <2>2, <2>3, <2>4, <2>5, <2>6 DEF OneChange
  <2>8. ItemDone(w, f, p, new)
    BY <1>7, <2>1, <2>3, <2>7 DEF ItemDone, Whole
  <2> QED BY <2>8
<1>8. ASSUME NEW c \in Keys, NEW p \in Keys, w = [what |-> "child", name |-> file[c].name, parent |-> p]
      PROVE  \E j \in Keys : \E new : ItemDone(w, f, j, new)
  <2>1. PICK n, t, new : n = file[c].name /\ t = tickets[n] /\ new = [t EXCEPT !.parent = p]
    OBVIOUS
  <2>2. n \in Names /\ There(n) /\ TicketIs(t) /\ t # D!Absent
    BY <1>4, <2>1 DEF There
  <2>3. new = [status |-> t.status, receipt |-> t.receipt, blockedBy |-> t.blockedBy, parent |-> p, children |-> t.children]
    BY <2>1, <2>2 DEF TicketIs, FieldsAre
  <2>4. t.status \in {"open", "done"}
    BY <2>2 DEF TicketIs
  <2>5. TicketIs(new) /\ new # D!Absent
    BY <2>3, <2>4 DEF TicketIs, FieldsAre, D!Absent
  <2>6. tickets' = [tickets EXCEPT ![n] = new]
    <3>1. D!Updated(t, w) = new
      BY <1>8, <2>1 DEF D!Updated
    <3>2. q[1].name = n /\ tickets[q[1].name] = t
      BY <1>1, <1>8, <2>1
    <3> QED BY <1>1, <1>5, <3>1, <3>2
  <2>7. OneChange(n, new)
    BY <2>1, <2>2, <2>3, <2>5, <2>6 DEF OneChange
  <2>8. ItemDone(w, f, c, new)
    BY <1>8, <2>1, <2>3, <2>7 DEF ItemDone
  <2> QED BY <2>8
<1>9. ASSUME NEW k \in Keys, w = RewireOf(f, k), NEW p \in file[k].dependsOn,
             file[p].status = "split_required", SplitBegun(q, p)
      PROVE  \E j \in Keys : \E new : ItemDone(w, f, j, new)
  <2>1. PICK ids : ids = {f[d].name : d \in f[k].dependsOn}
    OBVIOUS
  <2>2. f[k].name = file[k].name
    BY DEF WriteIs
  <2>3. w = [what |-> "blocked", name |-> file[k].name, ids |-> ids]
    BY <1>9, <2>1, <2>2 DEF RewireOf
  <2>4. Torn(file, k)
    BY <1>1, <1>9, <2>3 DEF SplitBegun, Torn
  <2>5. PICK n, t, new : n = file[k].name /\ t = tickets[n] /\ new = [t EXCEPT !.blockedBy = ids]
    OBVIOUS
  <2>6. n \in Names /\ There(n) /\ TicketIs(t) /\ t # D!Absent
    BY <1>4, <2>5 DEF There
  <2>7. new = [status |-> t.status, receipt |-> t.receipt, blockedBy |-> ids, parent |-> t.parent, children |-> t.children]
    BY <2>5, <2>6 DEF TicketIs, FieldsAre
  <2>8. t.status \in {"open", "done"}
    BY <2>6 DEF TicketIs
  <2>9. TicketIs(new) /\ new # D!Absent
    BY <2>7, <2>8 DEF TicketIs, FieldsAre, D!Absent
  <2>10. tickets' = [tickets EXCEPT ![n] = new]
    <3>1. D!Updated(t, w) = new
      BY <2>3, <2>5 DEF D!Updated
    <3>2. q[1].name = n /\ tickets[q[1].name] = t
      BY <1>1, <2>3, <2>5
    <3> QED BY <1>1, <1>5, <3>1, <3>2
  <2>11. OneChange(n, new)
    BY <2>5, <2>6, <2>7, <2>9, <2>10 DEF OneChange
  <2>12. ItemDone(w, f, k, new)
    <3>1. w.what = "blocked" /\ w.name = file[k].name
      BY <2>3
    <3> QED BY <1>9, <2>1, <2>4, <2>5, <2>7, <2>11, <3>1 DEF ItemDone
  <2> QED BY <2>12
<1>10. CASE \E k \in Keys, r \in D!Receipts : w = [what |-> "complete", name |-> file[k].name, receipt |-> r]
  BY <1>1, <1>6, <1>10
<1>11. CASE \E p \in Keys : \E ids :
              /\ w = [what |-> "parent", name |-> file[p].name, ids |-> ids]
              /\ ids # {} /\ file[p].status = "split_required" /\ ~Whole(f[p])
  BY <1>1, <1>7, <1>11
<1>12. CASE \E c \in Keys, p \in Keys : w = [what |-> "child", name |-> file[c].name, parent |-> p]
  BY <1>1, <1>8, <1>12
<1>13. CASE \E k \in Keys : /\ w = RewireOf(f, k)
                            /\ \E p \in file[k].dependsOn :
                                 file[p].status = "split_required" /\ SplitBegun(q, p)
  BY <1>1, <1>9, <1>13
<1> QED BY <1>2, <1>3, <1>10, <1>11, <1>12, <1>13 DEF ItemSound

LEMMA RestIsOwed ==
  ASSUME PlanIs, FileSound, file' = file, NEW q, NEW f, WriteIs(q, f), NEW m \in Nat, DOMAIN q = 1..m, m # 0,
         q[1] # [what |-> "refuse"], NEW j \in Keys, NEW new, ItemDone(q[1], f, j, new),
         NEW rest, rest = [i \in 1..(m - 1) |-> q[i + 1]]
  PROVE  WriteIs(rest, f)'
<1>1. /\ DOMAIN rest = 1..(m - 1) /\ m - 1 \in Nat /\ rest = [i \in DOMAIN rest |-> rest[i]]
      /\ \A i \in DOMAIN rest : i + 1 \in DOMAIN q /\ rest[i] = q[i + 1]
  OBVIOUS
<1>2. ASSUME NEW w, Listed(q, w) PROVE w = q[1] \/ Listed(rest, w)
  <2>1. PICK i \in 1..m : q[i] = w
    BY <1>2 DEF Listed
  <2>2. CASE i = 1
    BY <2>1, <2>2
  <2>3. CASE i # 1
    <3>1. i - 1 \in DOMAIN rest /\ rest[i - 1] = q[i]
      BY <1>1, <2>3
    <3> QED BY <2>1, <3>1 DEF Listed
  <2> QED BY <2>2, <2>3
<1>3. PICK n : n = file[j].name
  OBVIOUS
<1>4. OneChange(n, new)
  BY <1>3 DEF ItemDone
<1>5. /\ Keys' = Keys /\ plan' = plan /\ nested' = nested
      /\ \A id \in Names : tickets'[id] = IF id = n THEN new ELSE tickets[id]
  <2>1. \A id \in Names : tickets'[id] = IF id = n THEN new ELSE tickets[id]
    BY <1>4, Changed
  <2>2. plan' = plan /\ nested' = nested
    BY <1>4 DEF OneChange
  <2> QED BY <2>1, <2>2, KeysRest
<1>6. NodesAre(f) /\ NodesAre(file) /\ file # D!NoFile /\ \A k \in Keys : f[k].name = file[k].name
  BY DEF WriteIs, FileSound, NodesSound
<1>7. \A k \in Keys : f[k].name \in Names /\ (f[k].name = n => k = j) /\ f[j].name = n
  BY <1>3, <1>6, NameOfNode
<1>8. \A k \in Keys : SplitBegun(q, k) => SplitBegun(rest, k)'
  <2>1. SUFFICES ASSUME NEW k \in Keys, SplitBegun(q, k) PROVE tickets'[file[k].name].children # {}
    BY DEF SplitBegun
  <2>2. file[k].name \in Names
    BY <1>6, <1>7
  <2>3. CASE tickets[file[k].name].children # {}
    BY <1>4, <1>5, <2>2, <2>3 DEF OneChange
  <2>4. CASE q[1].what = "parent" /\ q[1].name = file[k].name
    BY <1>3, <1>5, <2>2, <2>4 DEF ItemDone
  <2> QED BY <2>1, <2>3, <2>4 DEF SplitBegun
<1>9. \A i \in DOMAIN rest : ItemSound(rest, f, rest[i])'
  <2>1. SUFFICES ASSUME NEW i \in DOMAIN rest PROVE ItemSound(rest, f, rest[i])'
    OBVIOUS
  <2>2. PICK w : w = rest[i] /\ w = q[i + 1]
    BY <1>1
  <2>3. ItemSound(q, f, w)
    BY <1>1, <2>2 DEF WriteIs
  <2>4. \A k \in Keys : \A p \in file[k].dependsOn : SplitBegun(q, p) => SplitBegun(rest, p)'
    BY <1>6, <1>8 DEF NodesAre
  <2>5. ItemSound(rest, f, w)'
    BY <1>5, <2>3, <2>4, ItemRests
  <2> QED BY <2>2, <2>5
<1>10. NodesAre(f)'
  BY <1>5, <1>6, NodesRest
<1>11. CASE Listed(q, [what |-> "refuse"])
  <2>1. Listed(rest, [what |-> "refuse"])
    BY <1>2, <1>11
  <2>2. Listed(rest, [what |-> "refuse"])'
    BY <2>1 DEF Listed
  <2> QED BY <1>1, <1>5, <1>6, <1>9, <1>10, <2>2 DEF WriteIs, D!NoFile
<1>12. CASE ~Listed(q, [what |-> "refuse"])
  <2>1. PlanStands(f) /\ \A k \in Keys : Owed(q, f, k)
    BY <1>12 DEF WriteIs
  <2>2. PlanStands(f)'
    BY <1>5, <2>1, StandsRests
  <2>3. ASSUME NEW k \in Keys PROVE Owed(rest, f, k)'
    <3>1. Owed(q, f, k)
      BY <2>1
    <3>2. /\ Torn(f, k) => Torn(f, k)'
          /\ Completes(f, k) => Completes(f, k)'
          /\ (f[k].name # n \/ new.blockedBy = tickets[n].blockedBy) /\ Blocked(f, k) => Blocked(f, k)'
      BY <1>4, <1>6, ChangedNodes
    <3>3. ASSUME q[1] = RewireOf(f, k) PROVE Blocked(f, k)'
      <4>1. q[1].name = f[k].name /\ q[1].what = "blocked"
        BY <3>3 DEF RewireOf
      <4>2. k = j
        BY <1>3, <1>7, <4>1 DEF ItemDone
      <4>3. new.blockedBy = {f[d].name : d \in f[k].dependsOn}
        BY <4>1, <4>2 DEF ItemDone
      <4> QED BY <1>5, <1>7, <4>2, <4>3 DEF Blocked
    <3>4. ASSUME Whole(f[k]), Blocked(f, k) PROVE Blocked(f, k)'
      <4>1. CASE q[1] = RewireOf(f, j) /\ k = j
        BY <3>3, <4>1
      <4>2. CASE k # j
        BY <1>7, <3>2, <3>4, <4>2
      <4>3. CASE q[1] # RewireOf(f, j) /\ k = j
        BY <1>3, <3>2, <3>4, <4>3 DEF ItemDone
      <4> QED BY <4>1, <4>2, <4>3
    <3>5. ASSUME Listed(q, RewireOf(f, k)) PROVE Blocked(f, k)' \/ Listed(rest, RewireOf(f, k))'
      <4>1. CASE q[1] = RewireOf(f, k)
        BY <3>3, <4>1
      <4>2. CASE q[1] # RewireOf(f, k)
        <5>1. Listed(rest, RewireOf(f, k))
          BY <1>2, <3>5, <4>2
        <5> QED BY <5>1 DEF Listed, RewireOf
      <4> QED BY <4>1, <4>2
    <3>6. PICK done : done = [what |-> "complete", name |-> f[k].name, receipt |-> f[k].receipt]
      OBVIOUS
    <3>7. ASSUME Listed(q, done) PROVE Completes(f, k)' \/ Listed(rest, done)'
      <4>1. CASE q[1] = done
        <5>1. q[1].name = f[k].name /\ q[1].what = "complete" /\ q[1].receipt = f[k].receipt
          BY <3>6, <4>1
        <5>2. k = j
          BY <1>3, <1>7, <5>1 DEF ItemDone
        <5>3. new.status = "done" /\ new.receipt = f[k].receipt
          BY <5>1 DEF ItemDone
        <5> QED BY <1>5, <1>7, <5>2, <5>3 DEF Completes
      <4>2. CASE q[1] # done
        <5>1. Listed(rest, done)
          BY <1>2, <3>7, <4>2
        <5> QED BY <5>1 DEF Listed
      <4> QED BY <4>1, <4>2
    <3>8. Whole(f[k])' => Blocked(f, k)' \/ Torn(f, k)' \/ Listed(rest, RewireOf(f, k))'
      <4>1. Whole(f[k])' => Whole(f[k])
        BY DEF Whole
      <4> QED BY <3>1, <3>2, <3>4, <3>5, <4>1 DEF Owed
    <3>9. f[k].status = "terminal" => Completes(f, k)' \/ Listed(rest, done)'
      BY <3>1, <3>2, <3>6, <3>7 DEF Owed
    <3> QED BY <3>6, <3>8, <3>9 DEF Owed
  <2> QED BY <1>1, <1>5, <1>6, <1>9, <1>10, <2>2, <2>3 DEF WriteIs, D!NoFile
<1> QED BY <1>11, <1>12

LEMMA UpdateTicketKeeps == ASSUME DeliveryInv, D!UpdateTicket PROVE DeliveryInv'
<1>1. /\ step.name = "write" /\ step.todo # << >>
      /\ plan' = plan /\ file' = file /\ tries' = tries /\ nested' = nested
  BY DEF D!UpdateTicket
<1>2. PICK q, f : step = [name |-> "write", todo |-> q, result |-> f] /\ WriteIs(q, f)
  BY <1>1 DEF DeliveryInv, D!Idle, BatchSound, WriteSound
<1>3. PlanIs /\ OneTicket /\ file # D!NoFile /\ FileSound
  BY <1>2 DEF DeliveryInv, PlanSettled, WriteIs
<1>4. PICK m \in Nat : DOMAIN q = 1..m
  BY <1>2 DEF WriteIs
<1>5. m # 0 /\ 1 \in DOMAIN q
  <2>1. CASE m = 0
    BY <1>1, <1>2, <1>4, <2>1, NothingLeft DEF WriteIs
  <2> QED BY <1>4, <2>1
<1>6. D!Cardinality(DOMAIN q) = m
  BY <1>4, CountIs, FS_Interval
<1>7. CASE D!Refused(q[1])
  <2>1. step' = D!Idle /\ tickets' = tickets
    BY <1>2, <1>7 DEF D!UpdateTicket
  <2>2. PlanSettled'
    BY <1>1, <2>1, PlanSettledRests DEF DeliveryInv
  <2> QED BY <1>1, <2>1, <2>2 DEF DeliveryInv, D!Idle
<1>8. CASE ~D!Refused(q[1])
  <2>1. PICK rest : rest = [i \in 1..(m - 1) |-> q[i + 1]]
    OBVIOUS
  <2>2. /\ tickets' = [tickets EXCEPT ![q[1].name] = D!Updated(@, q[1])]
        /\ step' = [name |-> "write", todo |-> rest, result |-> f]
    BY <1>2, <1>6, <1>8, <2>1 DEF D!UpdateTicket
  <2>3. PICK j \in Keys : \E new : ItemDone(q[1], f, j, new)
    BY <1>1, <1>2, <1>3, <1>5, <1>8, <2>2, ItemChanges
  <2>4. PICK new : ItemDone(q[1], f, j, new)
    BY <2>3
  <2>5. OneChange(file[j].name, new)
    BY <2>4 DEF ItemDone
  <2>6. PlanIs' /\ OneTicket'
    BY <1>3, <2>5, Changed
  <2>7. FileSound'
    <3>1. new.blockedBy = tickets[file[j].name].blockedBy \/ ~Whole(file[j]) \/ Torn(file, j)
      BY <2>4 DEF ItemDone
    <3> QED BY <1>1, <1>3, <2>5, <3>1, FileChanged
  <2>8. q[1] # [what |-> "refuse"]
    BY <1>8 DEF D!Refused
  <2>9. WriteIs(rest, f)'
    BY <1>1, <1>2, <1>3, <1>4, <1>5, <2>1, <2>4, <2>8, RestIsOwed
  <2> QED BY <1>1, <1>3, <2>2, <2>6, <2>7, <2>9 DEF DeliveryInv, PlanSettled, WriteSound, D!NoFile
<1> QED BY <1>7, <1>8

LEMMA DeliveryStays ==
  ASSUME DeliveryInv, UNCHANGED planVars
  PROVE  DeliveryInv'
<1>1. /\ plan' = plan /\ tickets' = tickets /\ file' = file /\ nested' = nested
      /\ tries' = tries /\ step' = step
  BY DEF planVars
<1>2. PlanSettled'
  BY <1>1, PlanSettledRests DEF DeliveryInv
<1>3. Keys' = Keys /\ \A k, x : D!Node(k, x)' = D!Node(k, x) /\ D!TicketFor(k, x)' = D!TicketFor(k, x)
  BY <1>1, PlanRests
<1>4. ASSUME BatchSound PROVE BatchSound'
  <2>1. PICK b, f : step = [name |-> "materialize", batch |-> b, result |-> f] /\ BatchIs(b, f)
    BY <1>4 DEF BatchSound
  <2>2. \A k : plan.deps'[k] = plan.deps[k] /\ \A id : There(id)' <=> There(id)
    BY <1>1 DEF There
  <2>3. BatchIs(b, f)'
    BY <1>1, <1>3, <2>1, <2>2 DEF BatchIs, D!NoFile
  <2> QED BY <1>1, <2>1, <2>3 DEF BatchSound
<1>5. ASSUME WriteSound PROVE WriteSound'
  <2>1. PICK q, f : step = [name |-> "write", todo |-> q, result |-> f] /\ WriteIs(q, f)
    BY <1>5 DEF WriteSound
  <2>2. Flat(f) => Flat(f)'
    BY <1>1, <1>3 DEF Flat
  <2>3. WriteIs(q, f)'
    BY <1>1, <2>1, <2>2, WriteBegins DEF WriteIs, PlanStands
  <2> QED BY <1>1, <2>1, <2>3 DEF WriteSound
<1> QED BY <1>1, <1>2, <1>4, <1>5 DEF DeliveryInv, D!Idle

(* Delivery plans, for every plan the contract lets in, every number of    *)
(* tries, of deaths between two writes, of receipts, checkpoints and       *)
(* splits: a candidate has one ticket, a terminal one's is done with its   *)
(* receipt, resume lists as ready what the queue can serve and as waiting  *)
(* what it does not, and a plan that is not complete has work to do.       *)
THEOREM PlanFollowedCorrect == ProtocolsSpec => []PlanFollowed
<1>1. ProtocolsInit => DeliveryInv
  BY DeliveryBegins DEF ProtocolsInit
<1>2. DeliveryInv /\ [ProtocolsNext]_protocolVars => DeliveryInv'
  <2>1. SUFFICES ASSUME DeliveryInv, [ProtocolsNext]_protocolVars PROVE DeliveryInv'
    OBVIOUS
  <2>2. D!DNext \/ UNCHANGED planVars
    BY <2>1 DEF ProtocolsNext, protocolVars
  <2>3. CASE D!DNext
    BY <2>1, <2>3, MaterializeKeeps, CreateBatchKeeps, RecordReceiptsKeeps, RecordCheckpointKeeps,
       RecordSplitKeeps, UpdateTicketKeeps, ReplaceFileKeeps, DiesKeeps, DoneByHandKeeps DEF D!DNext
  <2>4. CASE UNCHANGED planVars
    BY <2>1, <2>4, DeliveryStays
  <2> QED BY <2>2, <2>3, <2>4
<1> QED BY <1>1, <1>2, PlanHolds, PTL DEF ProtocolsSpec
=============================================================================
