---------------------------- MODULE TicketRoutes ----------------------------
(***************************************************************************)
(* The process envelope and the completion receipt as the API routes guard *)
(* them (api/server.py 299-372, 873-895, 1021-1230).                       *)
(*                                                                         *)
(* A ticket is governed when it has the label process-envelope:v2 or a     *)
(* manifest of that schema.  Its envelope is valid when the URIs that the  *)
(* manifest declares are those of its inputs.  A route reads the ticket,   *)
(* checks what it read, then writes under the lock of the store; two       *)
(* server processes work on one store.                                     *)
(***************************************************************************)
EXTENDS Integers

CONSTANTS Servers,
          MaxWrites \* bound of a run

Manifests == {0, 1}  \* no manifest, or one that declares URI 1
Uris == {0, 1, 2}    \* no URI process, the declared one, another
Unset == -1             \* a field the body of a PATCH leaves out

VARIABLES
  record,  \* the stored ticket: label, manifest, uris, completed, revision
  request, \* what each server handles: pc, body, the record it read
  raced    \* history: an unguarded route wrote over a ticket changed since it read it

routeVars == <<record, request, raced>>

Bodies == [op : {"patch"}, label : {"keep", "set", "drop"}, manifest : Manifests \cup {Unset},
           uris : Uris \cup {Unset}, receipt : {FALSE}, guard : BOOLEAN]
          \cup [op : {"done", "complete"}, label : {"keep"}, manifest : {Unset},
                uris : {Unset}, receipt : BOOLEAN, guard : BOOLEAN]

Governed(label, manifest) == label \/ manifest # 0

(* _validate_process_envelope accepts.                                     *)
Acceptable(label, manifest, uris) ==
  Governed(label, manifest) => manifest # 0 /\ manifest = uris

Rested == [pc |-> "idle", body |-> [op |-> "none"], read |-> [revision |-> 0]]

(* POST /tickets lets in what it accepts.                                  *)
RInit ==
  /\ record \in {t \in [label : BOOLEAN, manifest : Manifests, uris : Uris,
                        completed : {"no"}, revision : {0}] :
                   Acceptable(t.label, t.manifest, t.uris)}
  /\ request = [s \in Servers |-> Rested]
  /\ raced = FALSE

-----------------------------------------------------------------------------
Labelled(b) == IF b.label = "keep" THEN record.label ELSE b.label = "set"

(* Inputs in the body are checked alone, with nothing where it left fields *)
(* out; without inputs the stored ones are checked.                        *)
Sent(b) == b.manifest # Unset \/ b.uris # Unset
Given(x) == IF x = Unset THEN 0 ELSE x

PatchAccepted(b) ==
  IF Sent(b) THEN Acceptable(Labelled(b), Given(b.manifest), Given(b.uris))
  ELSE Acceptable(Labelled(b), record.manifest, record.uris)

(* A mutant: a label the body does not mention is not considered.          *)
PatchLabelMutant(b) ==
  Acceptable(b.label = "set", Given(b.manifest), Given(b.uris))

PatchAllowed(b) == PatchAccepted(b)

(* A mutant: only the label makes a ticket governed.                       *)
CompletionLabelMutant(b) == record.label => b.op = "complete" /\ b.receipt

(* A governed ticket is completed with a receipt or not at all.            *)
CompletionAllowed(b) ==
  Governed(record.label, record.manifest) => b.op = "complete" /\ b.receipt

ReadAndCheck(s) == \E b \in Bodies :
  /\ request[s].pc = "idle" /\ record.revision < MaxWrites
  /\ b.op = "done" => ~b.guard /\ ~b.receipt
  /\ IF b.op = "patch" THEN PatchAllowed(b) ELSE CompletionAllowed(b)
  /\ request' = [request EXCEPT ![s] = [pc |-> "write", body |-> b,
                           read |-> [manifest |-> record.manifest, uris |-> record.uris,
                                     revision |-> record.revision]]]
  /\ UNCHANGED <<record, raced>>

(* _merged_ticket_updates: what a section leaves out stays as it was read. *)
Merged(x, read) == IF x = Unset THEN read ELSE x

Written(b, read) ==
  IF b.op = "patch"
  THEN [record EXCEPT !.label = CASE b.label = "keep" -> @ [] b.label = "set" -> TRUE
                                  [] b.label = "drop" -> FALSE,
                      !.manifest = IF Sent(b) THEN Merged(b.manifest, read.manifest) ELSE @,
                      !.uris = IF Sent(b) THEN Merged(b.uris, read.uris) ELSE @,
                      !.revision = @ + 1]
  ELSE [record EXCEPT !.completed =
          IF b.receipt THEN "receipt"
          ELSE IF Governed(record.label, record.manifest) THEN "unreceipted" ELSE "bare",
                      !.revision = @ + 1]

(* The guard of the if-current routes is compared under the lock.          *)
Write(s) ==
  /\ request[s].pc = "write"
  /\ LET b == request[s].body
         read == request[s].read
     IN IF b.guard /\ read.revision # record.revision
        THEN UNCHANGED <<record, raced>>
        ELSE /\ record' = Written(b, read)
             /\ raced' = (raced \/ read.revision # record.revision)
  /\ request' = [request EXCEPT ![s] = Rested]

RNext == \E s \in Servers : ReadAndCheck(s) \/ Write(s)

RSpec == RInit /\ [][RNext]_routeVars

-----------------------------------------------------------------------------
(* Whatever sequence of partial updates the routes accept, a ticket with   *)
(* the label of the envelope has a manifest that declares just the URIs it *)
(* is run with.  (A ticket governed by its manifest alone does not: a      *)
(* PATCH of its URIs is checked without the manifest it is merged with.)   *)
LabelledIsValid ==
  ~raced /\ record.label => record.manifest # 0 /\ record.manifest = record.uris

(* The done and complete routes never complete a governed ticket without a *)
(* receipt, whatever made it governed meanwhile.                           *)
ReceiptForGoverned == ~raced => record.completed # "unreceipted"
=============================================================================
