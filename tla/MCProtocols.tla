---------------------------- MODULE MCProtocols ----------------------------
(***************************************************************************)
(* One instance of each module about requests, plans and configuration,    *)
(* and one of Lifecycle whose callers all name the updated_at they saw.    *)
(* Every behaviour is one of one module: part says of which, and the       *)
(* variables of the others keep one initial value.                         *)
(***************************************************************************)
EXTENDS Lifecycle, Integers, FiniteSets, Sequences, TLC

CONSTANTS
  Readers, Free, Queries, MaxBytes, LMaxChanges,
  Servers,
  MaxIssues, MaxEdits, MaxRuns,
  Plans, Watched, MaxTries, MaxDeaths, MaxCheckpoints, MaxByHand,
  Editors, MaxSets, MaxByEditor,
  MaxTouches

(* The issues of a run have the numbers from one on.                       *)
ASSUME SyncAssumption == MaxIssues \in Nat \ {0}

(* Lists are of three kinds, and no request is called Free.                *)
ASSUME ListsAssumption ==
  Queries \subseteq {"queue", "archive", "full"} /\ MaxBytes \in Nat /\ Free \notin Readers

(* A plan lists its candidates, each of a kind.                            *)
ASSUME PlansAssumption ==
  MaxTries \in Nat /\ \A p \in Plans : p.kind \in Seq({"pending", "split_required", "terminal"})

VARIABLES
  part,
  files, acked, indexed, index, rebuild, sigCache, sigLock, mutation, bodies, latest,
  reader, backdated,
  record, request, raced,
  local, issues, last, mapping, tracker, run, edits, runs, dropped, orphaned, behind, deleted,
  plan, tickets, file, step, tries, deaths, byHand, doubled, nested,
  config, layout, editor, sets, byEditor, adopted, blind,
  mine, issue, product, touches, meant, sent, nameless, removed

L == INSTANCE TicketLists
R == INSTANCE TicketRoutes
X == INSTANCE ExternalSync
D == INSTANCE DeliveryPlan WITH op <- step
C == INSTANCE Configuration
F == INSTANCE Trackers WITH tracker <- product

(* Small plans: deps of candidate 1, 2, ...; kinds split_required,         *)
(* pending and terminal.                                                   *)
Plan(sharded, kind, deps) == [sharded |-> sharded, kind |-> kind, deps |-> deps]
MCPlans ==
  LET S == "split_required"
      P == "pending"
  IN {Plan(FALSE, <<S, P, P, P>>, <<{}, {}, {2}, {1}>>),
      Plan(FALSE, <<S, P, P, P>>, <<{}, {1}, {}, {2}>>),
      Plan(TRUE, <<S, P, P, "terminal">>, <<{}, {}, {2}, {}>>),
      Plan(TRUE, <<S, S, P, P, P>>, <<{}, {}, {1}, {}, {}>>)}

Symmetry == Permutations(Procs)

listVars == <<files, acked, indexed, index, rebuild, sigCache, sigLock, mutation,
              bodies, latest, reader, backdated>>
routeVars == <<record, request, raced>>
syncVars == <<local, issues, last, mapping, tracker, run, edits, runs, dropped, orphaned,
              behind, deleted>>
planVars == <<plan, tickets, file, step, tries, deaths, byHand, doubled, nested>>
configVars == <<config, layout, editor, sets, byEditor, adopted, blind>>
fieldVars == <<product, mine, issue, touches, meant, sent, nameless, removed>>

ProtocolsInit ==
  /\ part \in {"lists", "routes", "sync", "delivery", "configuration", "calls", "fields"}
  /\ L!LInit /\ (part # "lists" => ~indexed)
  /\ R!RInit /\ (part # "routes" => ~record.label /\ record.manifest = 0 /\ record.uris = 0)
  /\ X!SInit /\ (part # "sync" => tracker = "plain" /\ last = 0)
  /\ D!DInit /\ (part # "delivery" => plan = CHOOSE p \in MCPlans : TRUE)
  /\ C!CInit
  /\ F!TrackersInit /\ (part # "fields" => product = "generic" /\ issue = F!NoIssue)
  /\ Init /\ (part # "calls" => ticket.execution.state = "pending")

ProtocolsNext ==
  /\ UNCHANGED part
  /\ \/ /\ part = "lists" /\ L!LNext
        /\ UNCHANGED <<routeVars, syncVars, planVars, configVars, fieldVars, vars>>
     \/ /\ part = "routes" /\ R!RNext
        /\ UNCHANGED <<listVars, syncVars, planVars, configVars, fieldVars, vars>>
     \/ /\ part = "sync" /\ X!SNext
        /\ UNCHANGED <<listVars, routeVars, planVars, configVars, fieldVars, vars>>
     \/ /\ part = "delivery" /\ D!DNext
        /\ UNCHANGED <<listVars, routeVars, syncVars, configVars, fieldVars, vars>>
     \/ /\ part = "configuration" /\ C!CNext
        /\ UNCHANGED <<listVars, routeVars, syncVars, planVars, fieldVars, vars>>
     \/ /\ part = "calls" /\ Next
        /\ UNCHANGED <<listVars, routeVars, syncVars, planVars, configVars, fieldVars>>
     \/ /\ part = "fields" /\ F!TrackersNext
        /\ UNCHANGED <<listVars, routeVars, syncVars, planVars, configVars, vars>>

protocolVars ==
  <<part, listVars, routeVars, syncVars, planVars, configVars, fieldVars, vars>>

ProtocolsSpec == ProtocolsInit /\ [][ProtocolsNext]_protocolVars

-----------------------------------------------------------------------------
(* The properties, each about the code its module models.                  *)

(* Lists: an answer shows what this server finished before the request, a *)
(* cached body shows what its signature says, and the cache keeps within   *)
(* its bytes.                                                              *)
ListsTruthful == L!ReadsItsWrites /\ L!CachedAsSigned /\ L!CacheBounded

(* Routes: a ticket with the label has a valid envelope, and a governed    *)
(* ticket is not completed without a receipt.                              *)
RoutesGuarded == R!LabelledIsValid /\ R!ReceiptForGoverned

(* Sync: a pull overwrites no edit that was pushed or made before it.      *)
PullKeepsEdits == X!PullKeepsEdits

(* Sync: a ticket has one issue and an issue one ticket, save what the     *)
(* excuses name, and a deleted ticket does not come back; what goes to a   *)
(* tracker and comes back is what a person meant, and name and labels      *)
(* outlive the trip, save what the trackers cannot carry.                  *)
TrackersInStep ==
  /\ X!OneIssuePerTicket /\ X!OneTicketPerIssue /\ X!DeletedStaysAway
  /\ F!StatusComesBack /\ F!StaysReadable
  /\ F!NameStays /\ F!LabelStays /\ F!OnePriority

(* Delivery: a candidate has one ticket, however often it is tried, and a  *)
(* terminal candidate's ticket is done with its receipt; what resume lists *)
(* as ready the queue can serve, what waits it does not serve, and an      *)
(* incomplete plan has something to work on.                               *)
PlanFollowed ==
  /\ D!OneTicketPerCandidate /\ D!TerminalHasReceipt
  /\ D!ReadyIsUnblocked /\ D!WaitingIsBlocked /\ D!PlanGoesOn

(* Configuration: no value a client has not seen is overwritten, and       *)
(* shards are cut by the size the configuration names.                     *)
ConfigurationKept == C!NoBlindOverwrite /\ C!ShardsAsConfigured
=============================================================================
