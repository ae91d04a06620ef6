---------------------------- MODULE CallsProofs ----------------------------
(***************************************************************************)
(* Proofs about the calls of people and agents (MCCalls).                  *)
(***************************************************************************)
EXTENDS MCCalls, FiniteSetTheorems, SequenceTheorems, TLAPS

-----------------------------------------------------------------------------
(* RetryingClient.                                                         *)

Codes == {"none", "ok", "ticket_not_found", "invalid_transition", "lock_timeout", "store_error"}
CallRecords == [at : {"idle", "calls", "answered"}, op : R!Operations, expects : Nat, tries : Nat,
                answer : [code : Codes, retryable : BOOLEAN, attempts : Nat]]

ClientTyped ==
  /\ item \in [there : BOOLEAN, attempt : Nat, notes : Nat, updated_at : Nat,
               status : {"open", "in_progress", "done", "failed", "blocked"}]
  /\ call \in [Callers -> CallRecords]
  /\ applied \in [Callers -> Nat]

(* What a caller knows agrees with what was written for it; and once a     *)
(* call that names a revision was written, the revision is a past one.     *)
CallerSound(c) ==
  /\ call[c].at = "idle" => call[c].answer.code = "none" /\ applied[c] = 0
  /\ call[c].at = "calls" => call[c].answer.code = "none" /\ (applied[c] = 0 \/ c \in unsure)
  /\ call[c].at = "answered" =>
       IF call[c].answer.code = "ok" THEN ~call[c].answer.retryable /\ applied[c] > 0
                                     ELSE applied[c] = 0 \/ c \in unsure
  /\ applied[c] > 1 => c \in unsure /\ call[c].expects = 0
  /\ call[c].expects <= item.updated_at
  /\ call[c].expects # 0 /\ applied[c] > 0 => call[c].expects < item.updated_at

ClientInv == ClientTyped /\ \A c \in Callers : CallerSound(c)

LEMMA ClientInitSound == R!ClientInit => ClientInv
<1> SUFFICES ASSUME R!ClientInit PROVE ClientInv
  OBVIOUS
<1>1. ClientTyped
  BY DEF R!ClientInit, ClientTyped, CallRecords, Codes, R!Operations, R!NoAnswer, R!Anything
<1>2. ASSUME NEW c \in Callers PROVE CallerSound(c)
  BY <1>2 DEF R!ClientInit, CallerSound, R!NoAnswer, R!Anything
<1> QED BY <1>1, <1>2 DEF ClientInv

LEMMA StatusTyped ==
  ASSUME ClientTyped, NEW kind \in R!Operations
  PROVE  R!Status(kind) \in {"open", "in_progress", "done", "failed", "blocked"}
BY DEF ClientTyped, R!Status, R!Operations

(* A write moves updated_at and is counted.                                *)
LEMMA WriteCounted ==
  ASSUME ClientTyped, NEW c \in Callers, R!Write(c)
  PROVE  /\ item' \in [there : BOOLEAN, attempt : Nat, notes : Nat, updated_at : Nat,
                       status : {"open", "in_progress", "done", "failed", "blocked"}]
         /\ item'.updated_at = item.updated_at + 1
         /\ applied' \in [Callers -> Nat]
         /\ applied'[c] = applied[c] + 1
         /\ \A d \in Callers : d # c => applied'[d] = applied[d]
<1>1. call[c].op \in R!Operations
  BY DEF ClientTyped, CallRecords
<1>2. R!Status(call[c].op) \in {"open", "in_progress", "done", "failed", "blocked"}
  BY <1>1, StatusTyped
<1>3. item' \in [there : BOOLEAN, attempt : Nat, notes : Nat, updated_at : Nat,
                 status : {"open", "in_progress", "done", "failed", "blocked"}]
      /\ item'.updated_at = item.updated_at + 1
  <2> DEFINE status == R!Status(call[c].op)
             attempt == IF call[c].op = "fail" THEN item.attempt + 1 ELSE item.attempt
             notes == IF call[c].op = "note" THEN item.notes + 1 ELSE item.notes
  <2>1. item' = [item EXCEPT !.status = R!Status(call[c].op),
                   !.attempt = IF call[c].op = "fail" THEN item.attempt + 1 ELSE item.attempt,
                   !.notes = IF call[c].op = "note" THEN item.notes + 1 ELSE item.notes,
                   !.updated_at = item.updated_at + 1]
    BY DEF R!Write
  <2>4. item' = [item EXCEPT !.status = status, !.attempt = attempt, !.notes = notes,
                             !.updated_at = item.updated_at + 1]
    BY <2>1
  <2>2. attempt \in Nat /\ notes \in Nat
    BY DEF ClientTyped
  <2> HIDE DEF status, attempt, notes
  <2>3. status \in {"open", "in_progress", "done", "failed", "blocked"}
    BY <1>2 DEF status
  <2>5. item \in [there : BOOLEAN, attempt : Nat, notes : Nat, updated_at : Nat,
                  status : {"open", "in_progress", "done", "failed", "blocked"}]
    BY DEF ClientTyped
  <2>6. item'.updated_at = item.updated_at + 1
    BY <2>4, <2>5
  <2>7. item.updated_at + 1 \in Nat
    BY <2>5
  <2>8. item' \in [there : BOOLEAN, attempt : Nat, notes : Nat, updated_at : Nat,
                   status : {"open", "in_progress", "done", "failed", "blocked"}]
    BY <2>4, <2>2, <2>3, <2>5, <2>7
  <2> QED BY <2>6, <2>8
<1> QED BY <1>3 DEF ClientTyped, R!Write

LEMMA AnsweredTyped ==
  ASSUME ClientTyped, NEW c \in Callers, NEW word \in Codes, NEW retryable \in BOOLEAN,
         R!Answered(c, word, retryable)
  PROVE  /\ call' \in [Callers -> CallRecords]
         /\ call'[c].at = "answered" /\ call'[c].expects = call[c].expects
         /\ call'[c].answer.code = word /\ call'[c].answer.retryable = retryable
         /\ \A d \in Callers : d # c => call'[d] = call[d]
<1> DEFINE given == [code |-> word, retryable |-> retryable, attempts |-> call[c].tries]
           after == [call[c] EXCEPT !.at = "answered", !.answer = given]
<1>1. call[c] \in CallRecords /\ given \in [code : Codes, retryable : BOOLEAN, attempts : Nat]
  BY DEF ClientTyped, CallRecords
<1>2. call' = [call EXCEPT ![c] = after]
  BY DEF R!Answered, ClientTyped
<1>3. after \in CallRecords /\ after.at = "answered" /\ after.expects = call[c].expects
      /\ after.answer = given
  <2> HIDE DEF given
  <2> QED BY <1>1 DEF CallRecords
<1> HIDE DEF after
<1> QED BY <1>2, <1>3 DEF ClientTyped

(* Nothing about a caller changes but the ticket's revision.               *)
LEMMA CallerKept ==
  ASSUME ClientTyped, NEW d \in Callers, CallerSound(d), call'[d] = call[d],
         applied'[d] = applied[d], unsure \subseteq unsure',
         item'.updated_at \in Nat, item.updated_at <= item'.updated_at
  PROVE  CallerSound(d)'
BY DEF CallerSound, ClientTyped, CallRecords

LEMMA ClientStepSound == ClientInv /\ R!ClientNext => ClientInv'
<1> SUFFICES ASSUME ClientInv, R!ClientNext PROVE ClientInv'
  OBVIOUS
<1>t. ClientTyped /\ \A d \in Callers : CallerSound(d)
  BY DEF ClientInv
<1>u. item.updated_at \in Nat
  BY <1>t DEF ClientTyped
<1>1. CASE R!Deleted
  <2>1. UNCHANGED <<call, applied, unsure>> /\ item'.updated_at = item.updated_at
    BY <1>1, <1>t DEF R!Deleted, ClientTyped
  <2>2. ClientTyped'
    BY <1>1, <1>t DEF R!Deleted, ClientTyped
  <2> QED BY <1>t, <1>u, <2>1, <2>2, CallerKept DEF ClientInv
<1>2. ASSUME NEW c \in Callers, R!Issue(c) PROVE ClientInv'
  <2>1. UNCHANGED <<item, applied, unsure>>
    BY <1>2 DEF R!Issue
  <2>2. PICK kind \in R!Operations, expects \in {0, item.updated_at} :
          call' = [call EXCEPT ![c] = [at |-> "calls", op |-> kind, expects |-> expects,
                                       tries |-> 1, answer |-> R!NoAnswer]]
    BY <1>2 DEF R!Issue, R!Anything
  <2>3. call' \in [Callers -> CallRecords]
    BY <1>t, <1>u, <2>2 DEF ClientTyped, CallRecords, R!NoAnswer, Codes
  <2>4. CallerSound(c)'
    BY <1>2, <1>t, <1>u, <2>1, <2>2 DEF CallerSound, R!Issue, R!NoAnswer, ClientTyped
  <2>5. ASSUME NEW d \in Callers, d # c PROVE CallerSound(d)'
    BY <1>t, <1>u, <2>1, <2>2, <2>5, CallerKept DEF ClientTyped
  <2> QED BY <1>t, <2>1, <2>3, <2>4, <2>5 DEF ClientInv, ClientTyped
<1>3. ASSUME NEW c \in Callers, R!Repeat(c) PROVE ClientInv'
  <2> DEFINE after == [call[c] EXCEPT !.at = "calls", !.tries = 1, !.answer = R!NoAnswer]
  <2>1. UNCHANGED <<item, applied, unsure>> /\ call' = [call EXCEPT ![c] = after]
    BY <1>3, <1>t DEF R!Repeat, ClientTyped
  <2>2. /\ after \in CallRecords /\ after.at = "calls" /\ after.answer.code = "none"
        /\ after.expects = call[c].expects
    BY <1>t DEF ClientTyped, CallRecords, R!NoAnswer, Codes
  <2>3. applied[c] = 0 \/ c \in unsure
    BY <1>3, <1>t DEF R!Repeat, CallerSound
  <2> HIDE DEF after
  <2>4. call'[c] = after /\ call' \in [Callers -> CallRecords]
    BY <1>t, <2>1, <2>2 DEF ClientTyped
  <2>5. CallerSound(c)'
    BY <1>t, <2>1, <2>2, <2>3, <2>4 DEF CallerSound
  <2>6. ASSUME NEW d \in Callers, d # c PROVE CallerSound(d)'
    BY <1>t, <1>u, <2>1, <2>6, CallerKept DEF ClientTyped
  <2> QED BY <1>t, <2>1, <2>4, <2>5, <2>6 DEF ClientInv, ClientTyped
<1>4. ASSUME NEW c \in Callers, R!Apply(c) PROVE ClientInv'
  <2>a. call[c].at = "calls" /\ (applied[c] = 0 \/ c \in unsure) /\ call[c].expects \in Nat
        /\ applied[c] \in Nat
    BY <1>4, <1>t DEF R!Apply, CallerSound, ClientTyped, CallRecords
  (* Answered without a write.                                             *)
  <2>n. ASSUME NEW word \in Codes \ {"ok"}, NEW retryable \in BOOLEAN,
               R!Answered(c, word, retryable), UNCHANGED <<item, applied, unsure>>
        PROVE  ClientInv'
    <3>1. /\ call' \in [Callers -> CallRecords]
          /\ call'[c].at = "answered" /\ call'[c].expects = call[c].expects
          /\ call'[c].answer.code = word
          /\ \A d \in Callers : d # c => call'[d] = call[d]
      BY <1>t, <2>n, AnsweredTyped
    <3>2. CallerSound(c)'
      BY <1>t, <2>a, <2>n, <3>1 DEF CallerSound
    <3>3. ASSUME NEW d \in Callers, d # c PROVE CallerSound(d)'
      BY <1>t, <1>u, <2>n, <3>1, <3>3, CallerKept
    <3> QED BY <1>t, <2>n, <3>1, <3>2, <3>3 DEF ClientInv, ClientTyped
  (* Answered after a write.                                               *)
  <2>w. ASSUME NEW word \in Codes, NEW retryable \in BOOLEAN, ~R!Refused(c), R!Write(c),
               R!Answered(c, word, retryable), unsure \subseteq unsure',
               (word = "ok" /\ ~retryable) \/ (word # "ok" /\ c \in unsure')
        PROVE  ClientInv'
    <3>1. /\ call' \in [Callers -> CallRecords]
          /\ call'[c].at = "answered" /\ call'[c].expects = call[c].expects
          /\ call'[c].answer.code = word /\ call'[c].answer.retryable = retryable
          /\ \A d \in Callers : d # c => call'[d] = call[d]
      BY <1>t, <2>w, AnsweredTyped
    <3>2. /\ item'.updated_at = item.updated_at + 1 /\ applied'[c] = applied[c] + 1
          /\ \A d \in Callers : d # c => applied'[d] = applied[d]
          /\ ClientTyped'
      BY <1>t, <2>w, <3>1, WriteCounted DEF ClientTyped
    <3>3. call[c].expects = 0 \/ (call[c].expects = item.updated_at /\ applied[c] = 0)
      BY <1>t, <1>u, <2>a, <2>w DEF R!Refused, R!Anything, CallerSound
    <3>4. applied'[c] > 1 => c \in unsure' /\ call[c].expects = 0
      BY <2>a, <2>w, <3>2, <3>3
    <3>5. call[c].expects < item'.updated_at
      BY <1>t, <1>u, <2>a, <3>2 DEF CallerSound
    <3>6. CallerSound(c)'
      BY <1>u, <2>a, <2>w, <3>1, <3>2, <3>4, <3>5 DEF CallerSound
    <3>7. ASSUME NEW d \in Callers, d # c PROVE CallerSound(d)'
      BY <1>t, <1>u, <2>w, <3>1, <3>2, <3>7, CallerKept
    <3> QED BY <3>2, <3>6, <3>7 DEF ClientInv
  <2>1. CASE R!Succeeds(c)
    BY <2>1, <2>w DEF R!Succeeds, Codes
  <2>2. CASE R!NotFound(c)
    BY <2>2, <2>n DEF R!NotFound, Codes
  <2>3. CASE R!Invalid(c)
    BY <2>3, <2>n DEF R!Invalid, Codes
  <2>4. CASE R!StoreFails(c)
    BY <2>4, <2>n, <2>w DEF R!StoreFails, Codes
  <2>5. CASE R!LockTimesOut(c) /\ call[c].tries < LockRetries
    <3> DEFINE after == [call[c] EXCEPT !.tries = @ + 1]
    <3>1. UNCHANGED <<item, applied, unsure>> /\ call' = [call EXCEPT ![c] = after]
      BY <2>5, <1>t DEF R!LockTimesOut, ClientTyped
    <3>2. /\ after \in CallRecords /\ after.at = call[c].at /\ after.answer = call[c].answer
          /\ after.expects = call[c].expects
      BY <1>t DEF ClientTyped, CallRecords
    <3> HIDE DEF after
    <3>3. call'[c] = after /\ call' \in [Callers -> CallRecords]
      BY <1>t, <3>1, <3>2 DEF ClientTyped
    <3>4. CallerSound(c)'
      BY <1>t, <3>1, <3>2, <3>3 DEF CallerSound
    <3>5. ASSUME NEW d \in Callers, d # c PROVE CallerSound(d)'
      BY <1>t, <1>u, <3>1, <3>5, CallerKept DEF ClientTyped
    <3> QED BY <1>t, <3>1, <3>3, <3>4, <3>5 DEF ClientInv, ClientTyped
  <2>6. CASE R!LockTimesOut(c) /\ ~(call[c].tries < LockRetries)
    BY <2>6, <2>n DEF R!LockTimesOut, Codes
  <2> QED BY <1>4, <2>1, <2>2, <2>3, <2>4, <2>5, <2>6 DEF R!Apply
<1> QED BY <1>1, <1>2, <1>3, <1>4 DEF R!ClientNext

LEMMA ClientStaysSound == ClientInv /\ [CallsNext]_callsVars => ClientInv'
<1>1. ClientInv /\ UNCHANGED clientVars => ClientInv'
  BY DEF clientVars, ClientInv, ClientTyped, CallerSound
<1> QED
  BY <1>1, ClientStepSound DEF CallsNext, callsVars

(* Whatever callers repeat, and wherever the store fails: an answer is     *)
(* what happened, and a call is written once unless the store failed after *)
(* the write of a call that named no revision (client.py).                 *)
THEOREM AnsweredOnceCorrect == CallsSpec => []AnsweredOnce
<1>1. CallsInit => ClientInv
  BY ClientInitSound DEF CallsInit
<1>2. CallsSpec => []ClientInv
  BY <1>1, ClientStaysSound, PTL DEF CallsSpec
<1>3. ClientInv => AnsweredOnce
  <2> SUFFICES ASSUME ClientInv PROVE AnsweredOnce
    OBVIOUS
  <2>1. ASSUME NEW c \in Callers
        PROVE  /\ call[c].at \in {"idle", "calls", "answered"} /\ CallerSound(c)
               /\ applied[c] \in Nat
    BY <2>1 DEF ClientInv, ClientTyped, CallRecords
  <2>2. R!WrittenOnce
    BY <2>1 DEF R!WrittenOnce, CallerSound, R!Anything
  <2>3. R!AnswersTrue
    <3>1. ASSUME NEW c \in Callers, call[c].answer.code = "ok" PROVE applied[c] > 0
      BY <2>1, <3>1 DEF CallerSound
    <3>2. ASSUME NEW c \in Callers, call[c].answer.code \notin {"none", "ok"}
          PROVE  applied[c] = 0 \/ c \in unsure
      BY <2>1, <3>2 DEF CallerSound
    <3> QED BY <3>1, <3>2 DEF R!AnswersTrue
  <2> QED BY <2>2, <2>3 DEF AnsweredOnce
<1> QED BY <1>2, <1>3, PTL

-----------------------------------------------------------------------------
(* TicketCommands.                                                         *)

TicketShape(k) ==
  k = [status |-> k.status, labels |-> k.labels, sprint |-> k.sprint, notes |-> k.notes]
SessionShape(s) ==
  DOMAIN s = {"at", "listed", "shown", "wish", "updated", "failed", "took", "gone", "notes"}

TicketsShaped ==
  /\ B!There \subseteq Ids
  /\ \A t \in B!There : TicketShape(tickets[t])
  /\ DOMAIN wanted = Ids
  /\ DOMAIN session = Sessions
  /\ faults \in Nat

(* The ids a bulk update still has before it; each is listed once.         *)
Listing(q) == \E Elems : q \in Seq(Elems)
IdsOf(q) == {q[i].id : i \in 1..Len(q)}
Rest(s) == IdsOf(s.listed)
Distinct(q) == \A i, j \in 1..Len(q) : q[i].id = q[j].id => i = j

(* What a bulk update has told so far is what it showed less the rest.     *)
UpdateSound(s, f) ==
  s.at \in {"confirms", "updates", "moves", "told"} =>
    /\ s.shown = s.updated \cup s.failed \cup Rest(s)
    /\ s.updated \cap s.failed = {}
    /\ (s.updated \cup s.failed) \cap Rest(s) = {}
    /\ Distinct(s.listed)
    /\ s.updated \subseteq s.took \cup s.gone
    /\ s.took \subseteq s.updated \cup s.failed
                     \cup (IF s.at = "moves" THEN {s.listed[1].id} ELSE {})
    /\ s.failed \cap s.took # {} => s.wish.to # B!Whatever /\ f > 0
    /\ s.at = "told" => Len(s.listed) = 0
    /\ s.at # "told" => Len(s.listed) > 0
    /\ s.at = "moves" => s.wish.to # B!Whatever /\ s.listed[1].id \in s.took \cup s.gone

SessionSound(s, f, there) ==
  /\ SessionShape(s) /\ Listing(s.listed)
  /\ UpdateSound(s, f)
  /\ s.at = "deleted" => s.updated \cup s.gone = s.shown /\ s.shown \cap there = {}

CommandsInv ==
  /\ TicketsShaped
  /\ B!LabelsAddUp /\ B!NotesStay
  /\ \A c \in Sessions : SessionSound(session[c], faults, B!There)

LEMMA SameCardinality == \A Elems : B!Cardinality(Elems) = Cardinality(Elems)
BY DEF B!Cardinality, Cardinality

(* SetToSeq lists a finite set, each element once.                         *)
LEMMA SetToSeqLists ==
  ASSUME NEW Elems, IsFiniteSet(Elems)
  PROVE  /\ Cardinality(Elems) \in Nat
         /\ B!SetToSeq(Elems) \in [1..Cardinality(Elems) -> Elems]
         /\ \A i, j \in 1..Cardinality(Elems) : B!SetToSeq(Elems)[i] = B!SetToSeq(Elems)[j] => i = j
         /\ \A x \in Elems : \E i \in 1..Cardinality(Elems) : B!SetToSeq(Elems)[i] = x
<1>1. Cardinality(Elems) \in Nat /\ ExistsBijection(1..Cardinality(Elems), Elems)
  BY FS_CardinalityType
<1>2. \E f \in [1..Cardinality(Elems) -> Elems] : IsInjective(f)
  BY <1>1 DEF ExistsBijection, Bijection, Injection, IsInjective
<1>3. B!SetToSeq(Elems) \in [1..Cardinality(Elems) -> Elems] /\ IsInjective(B!SetToSeq(Elems))
  BY <1>2, SameCardinality DEF B!SetToSeq, B!IsInjective, IsInjective
<1>4. B!SetToSeq(Elems) \in Injection(1..Cardinality(Elems), Elems)
  BY <1>3 DEF Injection
<1>5. IsFiniteSet(1..Cardinality(Elems)) /\ Cardinality(1..Cardinality(Elems)) = Cardinality(Elems)
  BY <1>1, FS_Interval
<1>6. B!SetToSeq(Elems) \in Surjection(1..Cardinality(Elems), Elems)
  BY <1>4, <1>5, FS_Injection
<1>7. \A x \in Elems : \E i \in 1..Cardinality(Elems) : B!SetToSeq(Elems)[i] = x
  BY <1>6 DEF Surjection
<1> QED BY <1>1, <1>3, <1>7 DEF IsInjective

(* The tail of a listing is the rest of it.                                *)
LEMMA TailLists ==
  ASSUME NEW q, Listing(q), Len(q) > 0
  PROVE  /\ Len(q) \in Nat
         /\ Listing(Tail(q)) /\ Len(Tail(q)) = Len(q) - 1
         /\ Len(q) = 1 => Len(Tail(q)) = 0
         /\ Len(q) # 1 => Len(Tail(q)) > 0
         /\ \A i \in 1..Len(q) - 1 : Tail(q)[i] = q[i + 1]
         /\ Head(q) = q[1]
<1>1. PICK Elems : q \in Seq(Elems)
  BY DEF Listing
<1>2. q # << >>
  BY <1>1
<1>3. Len(q) \in Nat /\ Tail(q) \in Seq(Elems) /\ Len(Tail(q)) = Len(q) - 1
  BY <1>1, <1>2
<1>4. \A n, m \in Int : m = n - 1 /\ n > 0 => (n = 1 => m = 0) /\ (n # 1 => m > 0)
  OBVIOUS
<1>5. (Len(q) = 1 => Len(Tail(q)) = 0) /\ (Len(q) # 1 => Len(Tail(q)) > 0)
  BY <1>3, <1>4
<1>6. \A i \in 1..Len(q) - 1 : Tail(q)[i] = q[i + 1]
  BY <1>1, <1>2
<1>7. Head(q) = q[1]
  BY <1>1, <1>2
<1> QED BY <1>3, <1>5, <1>6, <1>7 DEF Listing

LEMMA TailRest ==
  ASSUME NEW q, Listing(q), Len(q) > 0, Distinct(q)
  PROVE  /\ Distinct(Tail(q))
         /\ IdsOf(Tail(q)) = IdsOf(q) \ {q[1].id}
<1>1. /\ Len(q) \in Nat /\ Len(Tail(q)) = Len(q) - 1
      /\ \A i \in 1..Len(q) - 1 : Tail(q)[i] = q[i + 1]
  BY TailLists
<1>2. Distinct(Tail(q))
  BY <1>1 DEF Distinct
<1>3. ASSUME NEW i \in 1..Len(q) - 1 PROVE Tail(q)[i].id \in {q[j].id : j \in 1..Len(q)} \ {q[1].id}
  BY <1>1, <1>3 DEF Distinct
<1>4. ASSUME NEW j \in 1..Len(q), q[j].id # q[1].id
      PROVE  \E i \in 1..Len(q) - 1 : Tail(q)[i].id = q[j].id
  <2>1. j - 1 \in 1..Len(q) - 1 /\ Tail(q)[j - 1] = q[j]
    BY <1>1, <1>4
  <2> QED BY <2>1
<1> DEFINE left == {Tail(q)[i].id : i \in 1..Len(q) - 1}
           all == {q[i].id : i \in 1..Len(q)}
<1>5. left \subseteq all \ {q[1].id}
  BY <1>3
<1>6. \A x \in all \ {q[1].id} : x \in left
  <2>1. ASSUME NEW j \in 1..Len(q), q[j].id # q[1].id PROVE q[j].id \in left
    BY <1>4, <2>1
  <2> QED BY <2>1
<1>7. left = all \ {q[1].id}
  BY <1>5, <1>6
<1> QED BY <1>1, <1>2, <1>7 DEF IdsOf

-----------------------------------------------------------------------------
(* The store's tickets.                                                    *)

LEMMA StoredKeeps ==
  ASSUME NEW t, NEW status, NEW labels, TicketShape(tickets[t]),
         NEW u \in B!Stored(t, status, labels)
  PROVE  TicketShape(u) /\ u.labels = labels /\ u.notes = tickets[t].notes
BY DEF TicketShape, B!Stored

(* One ticket is written and keeps its notes.                              *)
LEMMA WrittenKeeps ==
  ASSUME TicketsShaped, NEW t \in B!There, NEW u, tickets' = [tickets EXCEPT ![t] = u],
         TicketShape(u)
  PROVE  /\ B!There' = B!There
         /\ tickets'[t] = u /\ \A s \in B!There : s # t => tickets'[s] = tickets[s]
         /\ \A s \in B!There : TicketShape(tickets'[s])
BY DEF TicketsShaped, B!There

(* What a command on one ticket leaves true: its labels are wanted or the  *)
(* ticket is outdated.                                                     *)
LEMMA LabelsKept ==
  ASSUME TicketsShaped, B!LabelsAddUp, B!NotesStay, NEW t \in B!There, NEW u, TicketShape(u),
         tickets' = [tickets EXCEPT ![t] = u], u.notes = tickets[t].notes,
         UNCHANGED <<noted, overlapped>>,
         DOMAIN wanted' = Ids,
         \A s \in Ids : s # t => wanted'[s] = wanted[s] /\ (s \in outdated' <=> s \in outdated),
         t \in outdated' \/ u.labels = wanted'[t]
  PROVE  B!LabelsAddUp' /\ B!NotesStay'
<1>1. /\ B!There' = B!There
      /\ tickets'[t] = u /\ \A s \in B!There : s # t => tickets'[s] = tickets[s]
  BY WrittenKeeps
<1>2. B!There \subseteq Ids
  BY DEF TicketsShaped
<1>3. B!LabelsAddUp'
  BY <1>1, <1>2 DEF B!LabelsAddUp
<1>4. B!NotesStay'
  BY <1>1 DEF B!NotesStay
<1> QED BY <1>3, <1>4

LEMMA WithoutKeeps ==
  ASSUME TicketsShaped, B!LabelsAddUp, B!NotesStay, NEW gone,
         tickets' = B!Without(tickets, gone), UNCHANGED <<noted, overlapped, wanted, outdated>>
  PROVE  /\ B!There' = B!There \ gone
         /\ \A s \in B!There' : TicketShape(tickets'[s])
         /\ B!LabelsAddUp' /\ B!NotesStay'
BY DEF TicketsShaped, B!There, B!Without, B!LabelsAddUp, B!NotesStay

-----------------------------------------------------------------------------
(* The commands under way.                                                 *)

(* Faults only grow and tickets only go.                                   *)
LEMMA SoundStays ==
  ASSUME NEW s, NEW f \in Nat, NEW g \in Nat, NEW there, NEW left,
         SessionSound(s, f, there), f <= g, left \subseteq there
  PROVE  SessionSound(s, g, left)
<1>1. UpdateSound(s, g)
  BY DEF SessionSound, UpdateSound
<1> QED BY <1>1 DEF SessionSound

LEMMA IdleSound ==
  ASSUME NEW f, NEW there PROVE SessionSound(B!Idle, f, there)
<1>1. << >> \in Seq({})
  OBVIOUS
<1> QED BY <1>1 DEF SessionSound, SessionShape, Listing, UpdateSound, B!Idle

LEMMA PassesFields ==
  ASSUME NEW c, NEW r, SessionShape(r)
  PROVE  LET p == B!Passes(c, r) IN
         /\ SessionShape(p) /\ p.listed = Tail(r.listed)
         /\ p.at = IF Len(r.listed) = 1 THEN "told" ELSE "updates"
         /\ p.shown = r.shown /\ p.wish = r.wish /\ p.updated = r.updated
         /\ p.failed = r.failed /\ p.took = r.took /\ p.gone = r.gone
<1> DEFINE q == Tail(r.listed)
           a == IF Len(r.listed) = 1 THEN "told" ELSE "updates"
           p == [r EXCEPT !.listed = q, !.at = a]
<1>1. B!Passes(c, r) = p
  BY DEF B!Passes
<1> HIDE DEF q, a
<1>3. /\ p.at = a /\ p.listed = q /\ p.shown = r.shown /\ p.wish = r.wish
      /\ p.updated = r.updated /\ p.failed = r.failed /\ p.took = r.took /\ p.gone = r.gone
      /\ SessionShape(p)
  BY DEF SessionShape
<1> HIDE DEF p
<1> QED BY <1>1, <1>3 DEF q, a

(* A ticket of a bulk update was told: as updated or as failed.            *)
LEMMA PassesSound ==
  ASSUME NEW c, NEW r, NEW f, NEW there, SessionShape(r), Listing(r.listed),
         Len(r.listed) > 0, Distinct(r.listed),
         r.shown = r.updated \cup r.failed \cup Rest(r),
         r.listed[1].id \in r.updated \cup r.failed,
         r.updated \cap r.failed = {},
         (r.updated \cup r.failed) \cap Rest(r) = {r.listed[1].id},
         r.updated \subseteq r.took \cup r.gone,
         r.took \subseteq r.updated \cup r.failed,
         r.failed \cap r.took # {} => r.wish.to # B!Whatever /\ f > 0
  PROVE  SessionSound(B!Passes(c, r), f, there)
<1> DEFINE p == B!Passes(c, r)
           end == IF Len(r.listed) = 1 THEN "told" ELSE "updates"
<1>2. /\ p.at = end /\ p.listed = Tail(r.listed) /\ p.shown = r.shown /\ p.wish = r.wish
      /\ p.updated = r.updated /\ p.failed = r.failed /\ p.took = r.took /\ p.gone = r.gone
      /\ SessionShape(p)
  BY PassesFields
<1>b. /\ Listing(Tail(r.listed))
      /\ Len(r.listed) = 1 => Len(Tail(r.listed)) = 0
      /\ Len(r.listed) # 1 => Len(Tail(r.listed)) > 0
  BY TailLists
<1>r. /\ Distinct(Tail(r.listed))
      /\ IdsOf(Tail(r.listed)) = IdsOf(r.listed) \ {r.listed[1].id}
  BY TailRest
<1> HIDE DEF p
<1>a. p.listed = Tail(r.listed)
  BY <1>2
<1>4. Distinct(p.listed) /\ Rest(p) = Rest(r) \ {r.listed[1].id}
  <2>1. Distinct(p.listed)
    BY <1>a, <1>r
  <2> QED BY <1>a, <1>r, <2>1 DEF Rest
<1>5. p.at = "told" \/ p.at = "updates"
  BY <1>2
<1>6. (p.at = "told" => Len(p.listed) = 0) /\ (p.at # "told" => Len(p.listed) > 0)
  <2>1. p.at = IF Len(r.listed) = 1 THEN "told" ELSE "updates"
    BY <1>2
  <2>2. CASE Len(r.listed) = 1
    <3>1. Len(p.listed) = 0
      BY <1>a, <1>b, <2>2
    <3>2. p.at = "told"
      BY <2>1, <2>2
    <3> QED BY <3>1, <3>2
  <2>3. CASE Len(r.listed) # 1
    <3>1. Len(p.listed) > 0
      BY <1>a, <1>b, <2>3
    <3>2. p.at # "told"
      BY <2>1, <2>3
    <3> QED BY <3>1, <3>2
  <2> QED BY <2>2, <2>3
<1>7. UpdateSound(p, f)
  BY <1>2, <1>4, <1>5, <1>6 DEF UpdateSound
<1>8. p.at # "deleted"
  BY <1>5
<1>9. Listing(p.listed)
  BY <1>a, <1>b
<1> QED BY <1>2, <1>7, <1>8, <1>9 DEF SessionSound, p

(* One command moves on; the others stay as they are.                      *)
LEMMA OneMoves ==
  ASSUME NEW c \in Sessions, NEW x, TicketsShaped, TicketsShaped',
         \A d \in Sessions : SessionSound(session[d], faults, B!There),
         session' = [session EXCEPT ![c] = x],
         faults <= faults', B!There' \subseteq B!There,
         SessionSound(x, faults', B!There')
  PROVE  \A d \in Sessions : SessionSound(session'[d], faults', B!There')
<1>1. faults \in Nat /\ faults' \in Nat /\ DOMAIN session = Sessions
  BY DEF TicketsShaped
<1> SUFFICES ASSUME NEW d \in Sessions, d # c
             PROVE  SessionSound(session'[d], faults', B!There')
  BY <1>1
<1>2. session'[d] = session[d] /\ SessionSound(session[d], faults, B!There)
  BY <1>1
<1> QED BY <1>1, <1>2, SoundStays

-----------------------------------------------------------------------------
(* The steps.                                                              *)

LEMMA TicketStep ==
  ASSUME CommandsInv, NEW t \in B!There, NEW u, TicketShape(u),
         tickets' = [tickets EXCEPT ![t] = u], u.notes = tickets[t].notes,
         UNCHANGED <<session, faults, noted, overlapped>>,
         DOMAIN wanted' = Ids,
         \A s \in Ids : s # t => wanted'[s] = wanted[s] /\ (s \in outdated' <=> s \in outdated),
         t \in outdated' \/ u.labels = wanted'[t]
  PROVE  CommandsInv'
<1>1. TicketsShaped /\ B!LabelsAddUp /\ B!NotesStay
  BY DEF CommandsInv
<1>2. B!There' = B!There /\ \A s \in B!There : TicketShape(tickets'[s])
  BY <1>1, WrittenKeeps
<1>3. TicketsShaped'
  BY <1>1, <1>2 DEF TicketsShaped
<1>4. B!LabelsAddUp' /\ B!NotesStay'
  BY <1>1, LabelsKept
<1>5. \A c \in Sessions : SessionSound(session'[c], faults', B!There')
  BY <1>2 DEF CommandsInv
<1> QED BY <1>3, <1>4, <1>5 DEF CommandsInv

LEMMA SessionStep ==
  ASSUME CommandsInv, NEW c \in Sessions, NEW x, session' = [session EXCEPT ![c] = x],
         UNCHANGED <<tickets, wanted, noted, outdated, overlapped>>,
         faults' \in Nat, faults <= faults', SessionSound(x, faults', B!There)
  PROVE  CommandsInv'
<1>1. TicketsShaped /\ B!LabelsAddUp /\ B!NotesStay /\ B!There' = B!There
  BY DEF CommandsInv, B!There
<1>2. TicketsShaped'
  BY <1>1 DEF TicketsShaped
<1>3. B!LabelsAddUp' /\ B!NotesStay'
  BY <1>1 DEF B!LabelsAddUp, B!NotesStay
<1>4. \A d \in Sessions : SessionSound(session'[d], faults', B!There')
  BY <1>1, <1>2, OneMoves DEF CommandsInv
<1> QED BY <1>2, <1>3, <1>4 DEF CommandsInv

LEMMA GoneStep ==
  ASSUME CommandsInv, NEW gone, tickets' = B!Without(tickets, gone),
         UNCHANGED <<faults, wanted, noted, outdated, overlapped>>,
         session' = session
           \/ \E c \in Sessions : \E x : /\ session' = [session EXCEPT ![c] = x]
                                         /\ SessionSound(x, faults, B!There \ gone)
  PROVE  CommandsInv'
<1>1. TicketsShaped /\ B!LabelsAddUp /\ B!NotesStay
  BY DEF CommandsInv
<1>2. /\ B!There' = B!There \ gone
      /\ \A s \in B!There' : TicketShape(tickets'[s])
      /\ B!LabelsAddUp' /\ B!NotesStay'
  BY <1>1, WithoutKeeps
<1>3. DOMAIN session' = Sessions
  BY <1>1 DEF TicketsShaped
<1>4. TicketsShaped'
  BY <1>1, <1>2, <1>3 DEF TicketsShaped
<1>n. faults \in Nat /\ faults <= faults
  BY <1>1 DEF TicketsShaped
<1>5. \A d \in Sessions : SessionSound(session'[d], faults', B!There')
  <2>1. CASE session' = session
    BY <1>2, <1>n, <2>1, SoundStays DEF CommandsInv
  <2>2. CASE session' # session
    <3>0. PICK c \in Sessions : \E x : /\ session' = [session EXCEPT ![c] = x]
                                       /\ SessionSound(x, faults, B!There \ gone)
      BY <2>2
    <3>1. PICK x : /\ session' = [session EXCEPT ![c] = x]
                   /\ SessionSound(x, faults, B!There \ gone)
      BY <3>0
    <3> QED BY <1>1, <1>2, <1>4, <1>n, <3>1, OneMoves DEF CommandsInv
  <2> QED BY <2>1, <2>2
<1> QED BY <1>2, <1>4, <1>5 DEF CommandsInv

LEMMA OneCallStep ==
  ASSUME CommandsInv,
         B!DslDone \/ B!DslStart \/ B!DslBlock \/ B!DslLabels \/ B!DslMove \/ B!DslDelete
         \/ B!ToolUpdate \/ B!ToolMove \/ B!TerminalUpdate
  PROVE  CommandsInv'
<1>t. /\ TicketsShaped /\ B!There \subseteq Ids /\ \A t \in B!There : TicketShape(tickets[t])
      /\ B!LabelsAddUp
  BY DEF CommandsInv, TicketsShaped
<1>1. ASSUME NEW status, B!Update(status) PROVE CommandsInv'
  <2>0. PICK t \in B!There : \E u \in B!Stored(t, status, tickets[t].labels) :
          tickets' = [tickets EXCEPT ![t] = u]
    BY <1>1 DEF B!Update
  <2>1. PICK u \in B!Stored(t, status, tickets[t].labels) : tickets' = [tickets EXCEPT ![t] = u]
    BY <2>0
  <2>2. TicketShape(u) /\ u.labels = tickets[t].labels /\ u.notes = tickets[t].notes
    BY <1>t, <2>1, StoredKeeps
  <2>3. UNCHANGED <<session, faults, wanted, noted, outdated, overlapped>>
    BY <1>1 DEF B!Update
  <2>4. DOMAIN wanted' = Ids /\ (t \in outdated' \/ u.labels = wanted'[t])
    BY <1>t, <2>1, <2>2, <2>3 DEF TicketsShaped, B!LabelsAddUp
  <2> QED BY <2>1, <2>2, <2>3, <2>4, TicketStep
<1>2. CASE B!DslLabels
  <2>0. PICK t \in B!There, labels \in SUBSET Labels :
          /\ \E u \in B!Stored(t, B!Whatever, labels) : tickets' = [tickets EXCEPT ![t] = u]
          /\ wanted' = [wanted EXCEPT ![t] = labels]
          /\ outdated' = outdated \ {t}
    BY <1>2 DEF B!DslLabels
  <2>1. PICK u \in B!Stored(t, B!Whatever, labels) : tickets' = [tickets EXCEPT ![t] = u]
    BY <2>0
  <2>2. TicketShape(u) /\ u.labels = labels /\ u.notes = tickets[t].notes
    BY <1>t, <2>1, StoredKeeps
  <2>3. UNCHANGED <<session, faults, noted, overlapped>>
    BY <1>2 DEF B!DslLabels
  <2>4. /\ DOMAIN wanted' = Ids /\ wanted'[t] = labels
        /\ \A s \in Ids : s # t => wanted'[s] = wanted[s]
                                   /\ (s \in outdated' <=> s \in outdated)
    BY <1>t, <2>0 DEF TicketsShaped
  <2> QED BY <2>1, <2>2, <2>3, <2>4, TicketStep
<1>3. CASE B!Move
  <2>1. PICK t \in B!There, to \in B!Sprints :
          tickets' = [tickets EXCEPT ![t] = [tickets[t] EXCEPT !.sprint = to]]
    BY <1>3 DEF B!Move, B!There
  <2> DEFINE u == [tickets[t] EXCEPT !.sprint = to]
  <2>2. TicketShape(u) /\ u.labels = tickets[t].labels /\ u.notes = tickets[t].notes
    <3>1. TicketShape(tickets[t])
      BY <1>t
    <3> QED BY <3>1 DEF TicketShape
  <2>3. UNCHANGED <<session, faults, wanted, noted, outdated, overlapped>>
    BY <1>3 DEF B!Move
  <2> HIDE DEF u
  <2>4. DOMAIN wanted' = Ids /\ (t \in outdated' \/ u.labels = wanted'[t])
    BY <1>t, <2>1, <2>2, <2>3 DEF TicketsShaped, B!LabelsAddUp
  <2> QED BY <2>1, <2>2, <2>3, <2>4, TicketStep DEF u
<1>4. CASE B!DslDelete
  BY <1>4, GoneStep DEF B!DslDelete
<1> QED
  BY <1>1, <1>2, <1>3, <1>4
  DEF B!DslDone, B!DslStart, B!DslBlock, B!DslMove, B!ToolUpdate, B!ToolMove, B!TerminalUpdate

LEMMA NoteStep ==
  ASSUME CommandsInv, NEW c \in Sessions, B!NoteWrites(c)
  PROVE  CommandsInv'
<1> DEFINE t == CHOOSE t \in session[c].shown : TRUE
           note == commands + B!Cardinality({n \in noted : n[1] = t})
           u == [tickets[t] EXCEPT !.notes = session[c].notes \cup {note}]
<1>i. SessionSound(B!Idle, faults, B!There)
  BY IdleSound
<1>t. /\ TicketsShaped /\ B!There \subseteq Ids /\ \A s \in B!There : TicketShape(tickets[s])
      /\ B!LabelsAddUp /\ B!NotesStay /\ faults \in Nat /\ faults <= faults
  BY DEF CommandsInv, TicketsShaped
<1>s. session' = [session EXCEPT ![c] = B!Idle] /\ UNCHANGED <<commands, faults, wanted, outdated>>
  BY DEF B!NoteWrites
<1>1. CASE t \notin B!There
  <2>1. UNCHANGED <<tickets, noted, overlapped>>
    BY <1>1 DEF B!NoteWrites
  <2> QED BY <1>i, <1>t, <1>s, <2>1, SessionStep
<1>2. CASE t \in B!There
  <2>1. /\ tickets' = [tickets EXCEPT ![t] = u]
        /\ noted' = noted \cup {<<t, note>>}
        /\ overlapped' = IF tickets[t].notes \subseteq session[c].notes
                           THEN overlapped ELSE overlapped \cup {t}
    BY <1>2 DEF B!NoteWrites, B!There
  <2>2. /\ TicketShape(u) /\ u.labels = tickets[t].labels
        /\ u.notes = session[c].notes \cup {note}
    <3>1. TicketShape(tickets[t])
      BY <1>t, <1>2
    <3> HIDE DEF t, note
    <3> QED BY <3>1 DEF TicketShape
  <2> HIDE DEF u, note, t
  <2>3. /\ B!There' = B!There
        /\ tickets'[t] = u /\ \A s \in B!There : s # t => tickets'[s] = tickets[s]
        /\ \A s \in B!There : TicketShape(tickets'[s])
    BY <1>t, <1>2, <2>1, <2>2, WrittenKeeps
  <2>4. DOMAIN session' = Sessions
    BY <1>t, <1>s DEF TicketsShaped
  <2>5. TicketsShaped'
    BY <1>t, <1>s, <2>3, <2>4 DEF TicketsShaped
  <2>6. B!LabelsAddUp'
    BY <1>t, <1>s, <1>2, <2>2, <2>3 DEF B!LabelsAddUp
  <2>7. B!NotesStay'
    <3> SUFFICES ASSUME NEW n \in noted', n[1] \in B!There, n[1] \notin overlapped'
                 PROVE  n[2] \in tickets'[n[1]].notes
      BY <2>3 DEF B!NotesStay
    <3>1. CASE n[1] # t
      <4>1. n \in noted /\ n[1] \notin overlapped
        BY <2>1, <3>1
      <4> QED BY <1>t, <2>3, <3>1, <4>1 DEF B!NotesStay
    <3>2. CASE n[1] = t /\ n \in noted
      <4>1. n[1] \notin overlapped /\ tickets[t].notes \subseteq session[c].notes
        BY <2>1, <3>2
      <4>2. n[2] \in tickets[t].notes
        BY <1>t, <3>2, <4>1 DEF B!NotesStay
      <4> QED BY <2>2, <2>3, <3>2, <4>1, <4>2
    <3>3. CASE n = <<t, note>>
      BY <2>2, <2>3, <3>3
    <3> QED BY <2>1, <3>1, <3>2, <3>3
  <2>8. \A d \in Sessions : SessionSound(session'[d], faults', B!There')
    BY <1>i, <1>t, <1>s, <2>3, <2>5, OneMoves DEF CommandsInv
  <2> QED BY <2>5, <2>6, <2>7, <2>8 DEF CommandsInv
<1> QED BY <1>1, <1>2

-----------------------------------------------------------------------------
(* Bulk commands.                                                          *)

LEMMA ListIsSeq ==
  ASSUME NEW n \in Nat, NEW Elems, NEW q \in [1..n -> Elems]
  PROVE  Listing(q) /\ Len(q) = n
<1>1. q \in Seq(Elems)
  BY SeqDef
<1>2. Len(q) \in Nat /\ DOMAIN q = 1..Len(q) /\ DOMAIN q = 1..n
  BY <1>1, LenProperties
<1>3. Len(q) = n
  BY <1>2
<1> QED BY <1>1, <1>3 DEF Listing

ListOf(found, f) ==
  [i \in 1..B!Cardinality(found) |->
    LET t == B!SetToSeq(found)[i] IN [id |-> t, labels |-> f[t].labels]]

LEMMA ListedOnce ==
  ASSUME NEW found, IsFiniteSet(found), found # {}, NEW f
  PROVE  LET q == ListOf(found, f)
         IN  /\ Listing(q) /\ Len(q) > 0 /\ Distinct(q)
             /\ IdsOf(q) = found
<1>1. /\ Cardinality(found) \in Nat /\ B!SetToSeq(found) \in [1..Cardinality(found) -> found]
      /\ \A i, j \in 1..Cardinality(found) :
           B!SetToSeq(found)[i] = B!SetToSeq(found)[j] => i = j
      /\ \A x \in found : \E i \in 1..Cardinality(found) : B!SetToSeq(found)[i] = x
  BY SetToSeqLists
<1>2. B!Cardinality(found) = Cardinality(found)
  BY SameCardinality
<1> DEFINE q == ListOf(found, f)
           E == {q[i] : i \in 1..B!Cardinality(found)}
<1>3. /\ q \in [1..B!Cardinality(found) -> E]
      /\ \A i \in 1..B!Cardinality(found) : q[i].id = B!SetToSeq(found)[i]
  BY DEF ListOf
<1> HIDE DEF q, E
<1>4. PICK n, order : n = Cardinality(found) /\ order = B!SetToSeq(found)
  OBVIOUS
<1>5. /\ n \in Nat /\ order \in [1..n -> found]
      /\ \A i, j \in 1..n : order[i] = order[j] => i = j
      /\ \A x \in found : \E i \in 1..n : order[i] = x
  BY <1>1, <1>4
<1>6. q \in [1..n -> E] /\ \A i \in 1..n : q[i].id = order[i]
  BY <1>2, <1>3, <1>4
<1>7. Listing(q) /\ Len(q) = n
  BY <1>5, <1>6, ListIsSeq
<1>8. n # 0 /\ Len(q) > 0
  BY <1>5, <1>7
<1>9. Distinct(q)
  BY <1>5, <1>6, <1>7 DEF Distinct
<1>10. \A x \in found : \E i \in 1..n : q[i].id = x
  BY <1>5, <1>6
<1>11. IdsOf(q) = found
  <2>1. ASSUME NEW i \in 1..Len(q) PROVE q[i].id \in found
    BY <1>5, <1>6, <1>7
  <2>2. IdsOf(q) \subseteq found
    BY <2>1 DEF IdsOf
  <2>3. \A x \in found : \E i \in 1..Len(q) : q[i].id = x
    BY <1>7, <1>10
  <2>4. found \subseteq IdsOf(q)
    BY <2>3 DEF IdsOf
  <2> QED BY <2>2, <2>4
<1> QED BY <1>7, <1>8, <1>9, <1>11 DEF q

LEMMA BulkUpdateListsStep ==
  ASSUME CommandsInv, IsFiniteSet(Ids), NEW c \in Sessions, B!BulkUpdateLists(c)
  PROVE  CommandsInv'
<1>1. PICK filter \in Filters, wish \in Wishes :
        /\ B!Listing(filter) # {}
        /\ session' = [session EXCEPT ![c] =
             [B!Idle EXCEPT !.at = "confirms", !.shown = B!Listing(filter), !.wish = wish,
                !.listed = [i \in 1..B!Cardinality(B!Listing(filter)) |->
                  LET t == B!SetToSeq(B!Listing(filter))[i]
                  IN  [id |-> t, labels |-> tickets[t].labels]]]]
  BY DEF B!BulkUpdateLists
<1> DEFINE found == B!Listing(filter)
           q == ListOf(found, tickets)
           x == [B!Idle EXCEPT !.at = "confirms", !.shown = found, !.wish = wish, !.listed = q]
<1>2. session' = [session EXCEPT ![c] = x]
  BY <1>1 DEF ListOf
<1>3. found \subseteq Ids /\ faults \in Nat /\ faults <= faults
  BY DEF CommandsInv, TicketsShaped, B!Listing
<1>4. IsFiniteSet(found)
  BY <1>3, FS_Subset
<1>n. found # {}
  BY <1>1
<1>5. /\ Listing(q) /\ Len(q) > 0 /\ Distinct(q)
      /\ IdsOf(q) = found
  BY <1>n, <1>4, ListedOnce
<1> HIDE DEF q, found
<1>6. /\ SessionShape(x) /\ x.at = "confirms" /\ x.shown = found /\ x.listed = q
      /\ x.updated = {} /\ x.failed = {} /\ x.took = {} /\ x.gone = {}
  BY DEF B!Idle, SessionShape
<1> HIDE DEF x
<1>7. Rest(x) = found /\ Distinct(x.listed) /\ Len(x.listed) > 0 /\ Listing(x.listed)
  BY <1>5, <1>6 DEF Rest
<1>8. UpdateSound(x, faults)
  BY <1>6, <1>7 DEF UpdateSound
<1>9. SessionSound(x, faults, B!There)
  BY <1>6, <1>7, <1>8 DEF SessionSound
<1>10. UNCHANGED <<tickets, faults, wanted, noted, outdated, overlapped>>
  BY DEF B!BulkUpdateLists
<1> QED BY <1>2, <1>3, <1>9, <1>10, SessionStep

LEMMA AsksStep ==
  ASSUME CommandsInv, NEW c \in Sessions,
         B!NoteReads(c) \/ B!DeleteLists(c) \/ B!Confirm(c) \/ B!Cancel(c) \/ B!Report(c)
  PROVE  CommandsInv'
<1>t. /\ faults \in Nat /\ faults <= faults /\ DOMAIN session = Sessions
      /\ SessionSound(session[c], faults, B!There)
  BY DEF CommandsInv, TicketsShaped
<1>i. SessionSound(B!Idle, faults, B!There)
  BY IdleSound
<1>l. Listing(<< >>)
  BY IdleSound DEF SessionSound, B!Idle
<1>u. UNCHANGED <<tickets, faults, wanted, noted, outdated, overlapped>>
  BY DEF B!NoteReads, B!DeleteLists, B!Confirm, B!Cancel, B!Report
<1>1. CASE B!NoteReads(c)
  <2>1. PICK t \in B!There :
          session' = [session EXCEPT ![c] = [B!Idle EXCEPT !.at = "notes", !.shown = {t},
                                                           !.notes = tickets[t].notes]]
    BY <1>1 DEF B!NoteReads
  <2> DEFINE x == [B!Idle EXCEPT !.at = "notes", !.shown = {t}, !.notes = tickets[t].notes]
  <2>2. SessionShape(x) /\ x.at = "notes" /\ x.listed = << >>
    BY DEF B!Idle, SessionShape
  <2>3. SessionSound(x, faults, B!There)
    BY <1>l, <2>2 DEF SessionSound, UpdateSound
  <2> HIDE DEF x
  <2> QED BY <1>t, <1>u, <2>1, <2>3, SessionStep DEF x
<1>2. CASE B!DeleteLists(c)
  <2>1. PICK filter \in Filters, named \in SUBSET Ids :
          session' = [session EXCEPT ![c] =
            [B!Idle EXCEPT !.at = "asks", !.shown = named \cup B!Listing(filter)]]
    BY <1>2 DEF B!DeleteLists
  <2> DEFINE x == [B!Idle EXCEPT !.at = "asks", !.shown = named \cup B!Listing(filter)]
  <2>2. SessionShape(x) /\ x.at = "asks" /\ x.listed = << >>
    BY DEF B!Idle, SessionShape
  <2>3. SessionSound(x, faults, B!There)
    BY <1>l, <2>2 DEF SessionSound, UpdateSound
  <2> HIDE DEF x
  <2> QED BY <1>t, <1>u, <2>1, <2>3, SessionStep DEF x
<1>3. CASE B!Confirm(c)
  <2> DEFINE s == session[c]
             x == [s EXCEPT !.at = "updates"]
  <2>1. s.at = "confirms" /\ session' = [session EXCEPT ![c] = x]
    BY <1>3, <1>t DEF B!Confirm
  <2>2. SessionShape(s) /\ SessionSound(s, faults, B!There)
    BY <1>t DEF SessionSound
  <2> HIDE DEF s
  <2>3. /\ SessionShape(x) /\ x.at = "updates" /\ x.listed = s.listed /\ x.shown = s.shown
        /\ x.wish = s.wish /\ x.updated = s.updated /\ x.failed = s.failed
        /\ x.took = s.took /\ x.gone = s.gone
    BY <2>2 DEF SessionShape
  <2> HIDE DEF x
  <2>4. Rest(x) = Rest(s)
    BY <2>3 DEF Rest
  <2>5. UpdateSound(x, faults)
    BY <2>1, <2>2, <2>3, <2>4 DEF SessionSound, UpdateSound
  <2>6. SessionSound(x, faults, B!There)
    BY <2>2, <2>3, <2>5 DEF SessionSound
  <2> QED BY <1>t, <1>u, <2>1, <2>6, SessionStep
<1>4. CASE B!Cancel(c) \/ B!Report(c)
  BY <1>4, <1>i, <1>t, <1>u, SessionStep DEF B!Cancel, B!Report
<1> QED BY <1>1, <1>2, <1>3, <1>4

LEMMA BulkDeleteStep ==
  ASSUME CommandsInv, NEW c \in Sessions, B!BulkDelete(c)
  PROVE  CommandsInv'
<1> DEFINE s == session[c]
           x == [s EXCEPT !.at = "deleted", !.updated = s.shown \cap B!There,
                          !.gone = s.shown \ B!There]
<1>1. DOMAIN session = Sessions /\ SessionSound(s, faults, B!There)
  BY DEF CommandsInv, TicketsShaped
<1>2. session' = [session EXCEPT ![c] = x]
  BY <1>1 DEF B!BulkDelete
<1> HIDE DEF s
<1>3. /\ SessionShape(x) /\ x.at = "deleted" /\ x.listed = s.listed /\ x.shown = s.shown
      /\ x.updated = s.shown \cap B!There /\ x.gone = s.shown \ B!There
  BY <1>1 DEF SessionSound, SessionShape
<1> HIDE DEF x
<1>4. SessionSound(x, faults, B!There \ s.shown)
  BY <1>1, <1>3 DEF SessionSound, UpdateSound
<1> QED BY <1>2, <1>4, GoneStep DEF B!BulkDelete, s

-----------------------------------------------------------------------------
(* The ticket a bulk update has in hand.                                   *)

LEMMA InHand ==
  ASSUME CommandsInv, NEW c \in Sessions, session[c].at \in {"updates", "moves"}
  PROVE  LET s == session[c]
             t == B!Listed(c).id IN
         /\ SessionShape(s) /\ UpdateSound(s, faults) /\ Listing(s.listed) /\ Len(s.listed) > 0
         /\ t = s.listed[1].id /\ t \in Rest(s)
         /\ s.shown = s.updated \cup s.failed \cup Rest(s)
         /\ s.updated \cap s.failed = {}
         /\ (s.updated \cup s.failed) \cap Rest(s) = {}
         /\ Distinct(s.listed)
         /\ s.updated \subseteq s.took \cup s.gone
         /\ s.at = "updates" => s.took \subseteq s.updated \cup s.failed
         /\ s.at = "moves" => /\ s.took \subseteq s.updated \cup s.failed \cup {t}
                              /\ s.wish.to # B!Whatever /\ t \in s.took \cup s.gone
         /\ s.failed \cap s.took # {} => s.wish.to # B!Whatever /\ faults > 0
<1> DEFINE s == session[c]
<1>1. SessionSound(s, faults, B!There)
  BY DEF CommandsInv
<1>2. SessionShape(s) /\ UpdateSound(s, faults) /\ Listing(s.listed) /\ Len(s.listed) > 0
  BY <1>1 DEF SessionSound, UpdateSound
<1>3. Len(s.listed) \in Nat /\ Head(s.listed) = s.listed[1]
  BY <1>2, TailLists
<1>4. B!Listed(c).id = s.listed[1].id
  BY <1>3 DEF B!Listed
<1>5. 1 \in 1..Len(s.listed)
  BY <1>2, <1>3
<1>6. s.listed[1].id \in Rest(s)
  BY <1>5 DEF Rest, IdsOf
<1> QED BY <1>2, <1>4, <1>6 DEF UpdateSound

(* It is told: as updated or as failed.                                    *)
LEMMA TellsSound ==
  ASSUME CommandsInv, NEW c \in Sessions, session[c].at \in {"updates", "moves"},
         NEW t, t = B!Listed(c).id, NEW f, NEW there, NEW r, SessionShape(r),
         r.listed = session[c].listed, r.shown = session[c].shown, r.wish = session[c].wish,
         r.updated \cup r.failed = session[c].updated \cup session[c].failed \cup {t},
         r.updated \cap r.failed = {},
         r.updated \subseteq r.took \cup r.gone,
         r.took \subseteq r.updated \cup r.failed,
         r.failed \cap r.took # {} => r.wish.to # B!Whatever /\ f > 0
  PROVE  SessionSound(B!Passes(c, r), f, there)
<1>1. PICK s : s = session[c]
  OBVIOUS
<1>2. /\ Listing(s.listed) /\ Len(s.listed) > 0 /\ Distinct(s.listed)
      /\ t = s.listed[1].id /\ t \in Rest(s)
      /\ s.shown = s.updated \cup s.failed \cup Rest(s)
      /\ (s.updated \cup s.failed) \cap Rest(s) = {}
  BY <1>1, InHand
<1>3. Rest(r) = Rest(s) /\ r.listed[1].id = t
  BY <1>1, <1>2 DEF Rest
<1>4. /\ r.shown = r.updated \cup r.failed \cup Rest(r)
      /\ (r.updated \cup r.failed) \cap Rest(r) = {t}
  BY <1>1, <1>2, <1>3
<1> QED BY <1>1, <1>2, <1>3, <1>4, PassesSound

(* It goes on to its move.                                                 *)
LEMMA MovesSound ==
  ASSUME CommandsInv, NEW c \in Sessions, session[c].at = "updates",
         NEW t, t = B!Listed(c).id, NEW there, NEW x, SessionShape(x), x.at = "moves",
         x.listed = session[c].listed, x.shown = session[c].shown, x.wish = session[c].wish,
         x.wish.to # B!Whatever,
         x.updated = session[c].updated, x.failed = session[c].failed,
         x.took \cup x.gone = session[c].took \cup session[c].gone \cup {t},
         session[c].took \subseteq x.took, x.took \subseteq session[c].took \cup {t}
  PROVE  SessionSound(x, faults, there)
<1>1. PICK s : s = session[c]
  OBVIOUS
<1>2. /\ Listing(s.listed) /\ Len(s.listed) > 0 /\ Distinct(s.listed)
      /\ t = s.listed[1].id /\ t \in Rest(s)
      /\ s.shown = s.updated \cup s.failed \cup Rest(s)
      /\ s.updated \cap s.failed = {}
      /\ (s.updated \cup s.failed) \cap Rest(s) = {}
      /\ s.updated \subseteq s.took \cup s.gone
      /\ s.took \subseteq s.updated \cup s.failed
      /\ s.failed \cap s.took # {} => s.wish.to # B!Whatever /\ faults > 0
  BY <1>1, InHand
<1>3. Rest(x) = Rest(s) /\ x.listed[1].id = t
  BY <1>1, <1>2 DEF Rest
<1>4. t \notin s.failed
  BY <1>2
<1>5. x.failed \cap x.took = s.failed \cap s.took
  BY <1>1, <1>4
<1>6. UpdateSound(x, faults)
  BY <1>1, <1>2, <1>3, <1>5 DEF UpdateSound
<1> QED BY <1>1, <1>2, <1>6 DEF SessionSound

(* The store takes the update of a ticket that is there.                   *)
LEMMA TakesStep ==
  ASSUME CommandsInv, NEW c \in Sessions, session[c].at = "updates",
         NEW t \in B!There, t = B!Listed(c).id, B!Takes(c, t),
         UNCHANGED <<faults, noted, overlapped>>
  PROVE  CommandsInv'
<1>t. /\ TicketsShaped /\ B!There \subseteq Ids /\ TicketShape(tickets[t])
      /\ B!LabelsAddUp /\ B!NotesStay /\ faults \in Nat /\ faults <= faults
      /\ DOMAIN wanted = Ids /\ DOMAIN session = Sessions
  BY DEF CommandsInv, TicketsShaped
<1>1. PICK u \in B!Stored(t, B!Wish(c).status, B!NewLabels(c)) :
        tickets' = [tickets EXCEPT ![t] = u]
  BY DEF B!Takes
<1>2. TicketShape(u) /\ u.labels = B!NewLabels(c) /\ u.notes = tickets[t].notes
  BY <1>t, <1>1, StoredKeeps
<1>3. /\ B!There' = B!There /\ \A s \in B!There : TicketShape(tickets'[s])
  BY <1>t, <1>1, <1>2, WrittenKeeps
<1>4. /\ DOMAIN wanted' = Ids
      /\ \A s \in Ids : s # t => wanted'[s] = wanted[s] /\ (s \in outdated' <=> s \in outdated)
      /\ t \in outdated' \/ u.labels = wanted'[t]
  <2>1. CASE B!Relabels(c)
    <3>1. /\ wanted' = [wanted EXCEPT ![t] = (wanted[t] \cup B!Wish(c).add) \ B!Wish(c).remove]
          /\ outdated' = IF B!Listed(c).labels # tickets[t].labels
                           THEN outdated \cup {t} ELSE outdated
          /\ B!NewLabels(c) = (B!Listed(c).labels \cup B!Wish(c).add) \ B!Wish(c).remove
      BY <1>t, <2>1 DEF B!Takes, B!NewLabels
    <3>2. t \notin outdated => tickets[t].labels = wanted[t]
      BY <1>t DEF B!LabelsAddUp
    <3>3. wanted'[t] = (wanted[t] \cup B!Wish(c).add) \ B!Wish(c).remove
      BY <1>t, <3>1
    <3>4. t \in outdated' \/ u.labels = wanted'[t]
      BY <1>2, <3>1, <3>2, <3>3
    <3> QED BY <1>t, <3>1, <3>4
  <2>2. CASE ~B!Relabels(c)
    <3>1. wanted' = wanted /\ outdated' = outdated /\ B!NewLabels(c) = tickets[t].labels
      BY <2>2 DEF B!Takes, B!NewLabels
    <3> QED BY <1>t, <1>2, <3>1 DEF B!LabelsAddUp
  <2> QED BY <2>1, <2>2
<1>5. B!LabelsAddUp' /\ B!NotesStay'
  BY <1>t, <1>1, <1>2, <1>4, LabelsKept
<1>6. PICK s : s = session[c]
  OBVIOUS
<1>7. /\ SessionShape(s)
      /\ s.updated \cap s.failed = {} /\ (s.updated \cup s.failed) \cap Rest(s) = {}
      /\ t \in Rest(s) /\ s.updated \subseteq s.took \cup s.gone
      /\ s.took \subseteq s.updated \cup s.failed
      /\ s.failed \cap s.took # {} => s.wish.to # B!Whatever /\ faults > 0
  BY <1>6, InHand
<1>8. PICK x : session' = [session EXCEPT ![c] = x] /\ SessionSound(x, faults, B!There)
  <2>1. CASE s.wish.to = B!Whatever
    <3> DEFINE r == [s EXCEPT !.updated = s.updated \cup {t}, !.took = s.took \cup {t}]
    <3>1. session' = [session EXCEPT ![c] = B!Passes(c, r)]
      <4> DEFINE k == session[c]
                 y == [k EXCEPT !.updated = k.updated \cup {t}, !.took = k.took \cup {t}]
      <4>1. session' = [session EXCEPT ![c] = B!Passes(c, y)]
        <5>1. session' = [session EXCEPT ![c] =
                IF k.wish.to = B!Whatever THEN B!Passes(c, y)
                ELSE [k EXCEPT !.at = "moves", !.took = k.took \cup {t}]]
          BY <1>t DEF B!Takes, B!Wish
        <5> QED BY <1>6, <2>1, <5>1
      <4>2. y = r
        BY <1>6
      <4> QED BY <4>1, <4>2
    <3>2. /\ SessionShape(r) /\ r.listed = s.listed /\ r.shown = s.shown /\ r.wish = s.wish
          /\ r.updated = s.updated \cup {t} /\ r.failed = s.failed
          /\ r.took = s.took \cup {t} /\ r.gone = s.gone
      BY <1>7 DEF SessionShape
    <3> HIDE DEF r
    <3>3. SessionSound(B!Passes(c, r), faults, B!There)
      BY <1>6, <1>7, <3>2, TellsSound
    <3> QED BY <3>1, <3>3
  <2>2. CASE s.wish.to # B!Whatever
    <3> DEFINE x == [s EXCEPT !.at = "moves", !.took = s.took \cup {t}]
    <3>1. session' = [session EXCEPT ![c] = x]
      <4> DEFINE k == session[c]
                 y == [k EXCEPT !.at = "moves", !.took = k.took \cup {t}]
      <4>1. session' = [session EXCEPT ![c] = y]
        <5>1. session' = [session EXCEPT ![c] =
                IF k.wish.to = B!Whatever
                  THEN B!Passes(c, [k EXCEPT !.updated = k.updated \cup {t},
                                             !.took = k.took \cup {t}])
                  ELSE y]
          BY <1>t DEF B!Takes, B!Wish
        <5> QED BY <1>6, <2>2, <5>1
      <4>2. y = x
        BY <1>6
      <4> QED BY <4>1, <4>2
    <3>2. /\ SessionShape(x) /\ x.at = "moves" /\ x.listed = s.listed /\ x.shown = s.shown
          /\ x.wish = s.wish /\ x.updated = s.updated /\ x.failed = s.failed
          /\ x.took = s.took \cup {t} /\ x.gone = s.gone
      BY <1>7 DEF SessionShape
    <3> HIDE DEF x
    <3>3. SessionSound(x, faults, B!There)
      BY <1>6, <2>2, <3>2, MovesSound
    <3> QED BY <3>1, <3>3
  <2> QED BY <2>1, <2>2
<1>9. DOMAIN session' = Sessions
  BY <1>t, <1>8
<1>10. TicketsShaped'
  BY <1>t, <1>3, <1>4, <1>9 DEF TicketsShaped
<1>11. \A d \in Sessions : SessionSound(session'[d], faults', B!There')
  BY <1>t, <1>3, <1>8, <1>10, OneMoves DEF CommandsInv
<1> QED BY <1>5, <1>10, <1>11 DEF CommandsInv

(* The ticket is gone, which counts as updated.                            *)
LEMMA MissesStep ==
  ASSUME CommandsInv, NEW c \in Sessions, session[c].at = "updates",
         NEW t, t = B!Listed(c).id, B!Misses(c, t), UNCHANGED <<faults, noted, overlapped>>
  PROVE  CommandsInv'
<1>t. faults \in Nat /\ faults <= faults
  BY DEF CommandsInv, TicketsShaped
<1>1. PICK s : s = session[c]
  OBVIOUS
<1>2. /\ SessionShape(s)
      /\ s.updated \cap s.failed = {} /\ (s.updated \cup s.failed) \cap Rest(s) = {}
      /\ t \in Rest(s) /\ s.updated \subseteq s.took \cup s.gone
      /\ s.took \subseteq s.updated \cup s.failed
      /\ s.failed \cap s.took # {} => s.wish.to # B!Whatever /\ faults > 0
  BY <1>1, InHand
<1> DEFINE r == [s EXCEPT !.updated = s.updated \cup {t}, !.gone = s.gone \cup {t}]
           x == [s EXCEPT !.at = "moves", !.gone = s.gone \cup {t}]
<1>3. session' = [session EXCEPT ![c] = IF s.wish.to = B!Whatever THEN B!Passes(c, r) ELSE x]
  BY <1>1 DEF B!Misses, B!Wish
<1>4. /\ SessionShape(r) /\ r.listed = s.listed /\ r.shown = s.shown /\ r.wish = s.wish
      /\ r.updated = s.updated \cup {t} /\ r.failed = s.failed
      /\ r.took = s.took /\ r.gone = s.gone \cup {t}
  BY <1>2 DEF SessionShape
<1>5. /\ SessionShape(x) /\ x.at = "moves" /\ x.listed = s.listed /\ x.shown = s.shown
      /\ x.wish = s.wish /\ x.updated = s.updated /\ x.failed = s.failed
      /\ x.took = s.took /\ x.gone = s.gone \cup {t}
  BY <1>2 DEF SessionShape
<1> HIDE DEF r, x
<1>u. UNCHANGED <<tickets, wanted, noted, outdated, overlapped, faults>>
  BY DEF B!Misses
<1>6. CASE s.wish.to = B!Whatever
  <2>1. SessionSound(B!Passes(c, r), faults, B!There)
    BY <1>1, <1>2, <1>4, TellsSound
  <2> QED BY <1>t, <1>u, <1>3, <1>6, <2>1, SessionStep
<1>7. CASE s.wish.to # B!Whatever
  <2>1. SessionSound(x, faults, B!There)
    BY <1>1, <1>5, <1>7, MovesSound
  <2> QED BY <1>t, <1>u, <1>3, <1>7, <2>1, SessionStep
<1> QED BY <1>6, <1>7

(* An exception is collected; the update of a ticket that was to be moved  *)
(* may have been taken before.                                             *)
LEMMA FailsStep ==
  ASSUME CommandsInv, NEW c \in Sessions, session[c].at \in {"updates", "moves"},
         NEW t, t = B!Listed(c).id, B!Fails(c, t), UNCHANGED <<noted, overlapped>>,
         faults' = faults \/ faults' = faults + 1,
         session[c].at = "moves" => faults' > 0
  PROVE  CommandsInv'
<1>t. faults \in Nat /\ faults' \in Nat /\ faults <= faults' /\ (faults > 0 => faults' > 0)
  BY DEF CommandsInv, TicketsShaped
<1>1. PICK s : s = session[c]
  OBVIOUS
<1>2. /\ SessionShape(s)
      /\ s.updated \cap s.failed = {} /\ (s.updated \cup s.failed) \cap Rest(s) = {}
      /\ t \in Rest(s) /\ s.updated \subseteq s.took \cup s.gone
      /\ s.at = "updates" => s.took \subseteq s.updated \cup s.failed
      /\ s.at = "moves" => /\ s.took \subseteq s.updated \cup s.failed \cup {t}
                           /\ s.wish.to # B!Whatever
      /\ s.failed \cap s.took # {} => s.wish.to # B!Whatever /\ faults > 0
  BY <1>1, InHand
<1> DEFINE r == [s EXCEPT !.failed = s.failed \cup {t}]
<1>3. session' = [session EXCEPT ![c] = B!Passes(c, r)]
  BY <1>1 DEF B!Fails
<1>4. /\ SessionShape(r) /\ r.listed = s.listed /\ r.shown = s.shown /\ r.wish = s.wish
      /\ r.updated = s.updated /\ r.failed = s.failed \cup {t}
      /\ r.took = s.took /\ r.gone = s.gone
  BY <1>2 DEF SessionShape
<1> HIDE DEF r
<1>u. UNCHANGED <<tickets, wanted, noted, outdated, overlapped>>
  BY DEF B!Fails
<1>5. r.failed \cap r.took # {} => r.wish.to # B!Whatever /\ faults' > 0
  <2>1. CASE s.at = "updates"
    <3>1. t \notin s.took
      BY <1>2, <2>1
    <3> QED BY <1>t, <1>2, <1>4, <3>1
  <2>2. CASE s.at = "moves"
    BY <1>1, <1>2, <1>4, <2>2
  <2> QED BY <1>1, <2>1, <2>2
<1>6. r.took \subseteq r.updated \cup r.failed
  BY <1>1, <1>2, <1>4
<1>7. SessionSound(B!Passes(c, r), faults', B!There)
  BY <1>1, <1>2, <1>4, <1>5, <1>6, TellsSound
<1> QED BY <1>t, <1>u, <1>3, <1>7, SessionStep

LEMMA BulkUpdateStep ==
  ASSUME CommandsInv, NEW c \in Sessions, B!BulkUpdate(c)
  PROVE  CommandsInv'
<1>1. /\ session[c].at = "updates" /\ UNCHANGED <<commands, noted, overlapped>>
      /\ \/ B!Listed(c).id \in B!There /\ B!Takes(c, B!Listed(c).id) /\ UNCHANGED faults
         \/ B!Misses(c, B!Listed(c).id) /\ UNCHANGED faults
         \/ B!Fails(c, B!Listed(c).id) /\ (UNCHANGED faults \/ faults' = faults + 1)
  BY DEF B!BulkUpdate
<1>2. CASE B!Listed(c).id \in B!There /\ B!Takes(c, B!Listed(c).id) /\ UNCHANGED faults
  BY <1>1, <1>2, TakesStep
<1>3. CASE B!Misses(c, B!Listed(c).id) /\ UNCHANGED faults
  BY <1>1, <1>3, MissesStep
<1>4. CASE B!Fails(c, B!Listed(c).id) /\ (UNCHANGED faults \/ faults' = faults + 1)
  BY <1>1, <1>4, FailsStep
<1> QED BY <1>1, <1>2, <1>3, <1>4

LEMMA BulkMoveStep ==
  ASSUME CommandsInv, NEW c \in Sessions, B!BulkMove(c)
  PROVE  CommandsInv'
<1> DEFINE t == B!Listed(c).id
<1>t. /\ TicketsShaped /\ B!There \subseteq Ids /\ B!LabelsAddUp /\ B!NotesStay
      /\ faults \in Nat /\ faults <= faults
      /\ DOMAIN wanted = Ids /\ DOMAIN session = Sessions
      /\ \A s \in B!There : TicketShape(tickets[s])
  BY DEF CommandsInv, TicketsShaped
<1>0. session[c].at = "moves" /\ UNCHANGED <<noted, overlapped>>
  BY DEF B!BulkMove
<1>1. PICK s : s = session[c]
  OBVIOUS
<1>2. /\ SessionShape(s)
      /\ s.updated \cap s.failed = {} /\ (s.updated \cup s.failed) \cap Rest(s) = {}
      /\ t \in Rest(s) /\ s.updated \subseteq s.took \cup s.gone
      /\ s.took \subseteq s.updated \cup s.failed \cup {t}
      /\ t \in s.took \cup s.gone
      /\ s.failed \cap s.took # {} => s.wish.to # B!Whatever /\ faults > 0
  BY <1>0, <1>1, InHand
<1>3. CASE /\ t \in B!There
           /\ tickets' = [tickets EXCEPT ![t].sprint = B!Wish(c).to]
           /\ session' = [session EXCEPT ![c] =
                B!Passes(c, [session[c] EXCEPT !.updated = session[c].updated \cup {t}])]
           /\ UNCHANGED <<faults, wanted, outdated>>
  <2> DEFINE u == [tickets[t] EXCEPT !.sprint = B!Wish(c).to]
             r == [s EXCEPT !.updated = s.updated \cup {t}]
  <2>1. tickets' = [tickets EXCEPT ![t] = u]
    BY <1>3
  <2>2. TicketShape(u) /\ u.labels = tickets[t].labels /\ u.notes = tickets[t].notes
    <3>1. TicketShape(tickets[t])
      BY <1>t, <1>3
    <3> QED BY <3>1 DEF TicketShape
  <2>3. session' = [session EXCEPT ![c] = B!Passes(c, r)]
    BY <1>1, <1>3
  <2>4. /\ SessionShape(r) /\ r.listed = s.listed /\ r.shown = s.shown /\ r.wish = s.wish
        /\ r.updated = s.updated \cup {t} /\ r.failed = s.failed
        /\ r.took = s.took /\ r.gone = s.gone
    BY <1>2 DEF SessionShape
  <2> HIDE DEF u, r
  <2>5. SessionSound(B!Passes(c, r), faults, B!There)
    BY <1>0, <1>1, <1>2, <2>4, TellsSound
  <2>6. B!There' = B!There /\ \A v \in B!There : TicketShape(tickets'[v])
    BY <1>t, <1>3, <2>1, <2>2, WrittenKeeps
  <2>7. DOMAIN session' = Sessions
    BY <1>t, <2>3
  <2>8. TicketsShaped'
    BY <1>t, <1>3, <2>6, <2>7 DEF TicketsShaped
  <2>9. t \in outdated' \/ u.labels = wanted'[t]
    BY <1>t, <1>3, <2>2 DEF B!LabelsAddUp
  <2>10. B!LabelsAddUp' /\ B!NotesStay'
    BY <1>t, <1>0, <1>3, <2>1, <2>2, <2>9, LabelsKept
  <2>11. \A d \in Sessions : SessionSound(session'[d], faults', B!There')
    BY <1>t, <1>3, <2>3, <2>5, <2>6, <2>8, OneMoves DEF CommandsInv
  <2> QED BY <2>8, <2>10, <2>11 DEF CommandsInv
<1>4. CASE /\ session' = [session EXCEPT ![c] =
                B!Passes(c, [session[c] EXCEPT !.updated = session[c].updated \cup {t},
                                               !.gone = session[c].gone \cup {t}])]
           /\ UNCHANGED <<tickets, faults, wanted, outdated>>
  <2> DEFINE r == [s EXCEPT !.updated = s.updated \cup {t}, !.gone = s.gone \cup {t}]
  <2>1. session' = [session EXCEPT ![c] = B!Passes(c, r)]
    BY <1>1, <1>4
  <2>2. /\ SessionShape(r) /\ r.listed = s.listed /\ r.shown = s.shown /\ r.wish = s.wish
        /\ r.updated = s.updated \cup {t} /\ r.failed = s.failed
        /\ r.took = s.took /\ r.gone = s.gone \cup {t}
    BY <1>2 DEF SessionShape
  <2> HIDE DEF r
  <2>3. SessionSound(B!Passes(c, r), faults, B!There)
    BY <1>0, <1>1, <1>2, <2>2, TellsSound
  <2> QED BY <1>t, <1>0, <1>4, <2>1, <2>3, SessionStep
<1>5. CASE faults' = faults + 1 /\ B!Fails(c, t)
  <2>1. faults' > 0
    BY <1>t, <1>5
  <2> QED BY <1>0, <1>5, <2>1, FailsStep
<1> QED BY <1>3, <1>4, <1>5 DEF B!BulkMove

LEMMA CommandsInitSound == B!CommandsInit => CommandsInv
<1> SUFFICES ASSUME B!CommandsInit PROVE CommandsInv
  OBVIOUS
<1>1. TicketsShaped /\ B!LabelsAddUp /\ B!NotesStay
  BY DEF B!CommandsInit, TicketsShaped, TicketShape, B!There, B!LabelsAddUp, B!NotesStay
<1>2. \A c \in Sessions : session[c] = B!Idle
  BY DEF B!CommandsInit
<1> QED BY <1>1, <1>2, IdleSound DEF CommandsInv

LEMMA CommandsStaySound ==
  ASSUME IsFiniteSet(Ids), CommandsInv, [CallsNext]_callsVars
  PROVE  CommandsInv'
<1>1. CASE UNCHANGED commandVars
  <2>1. UNCHANGED <<tickets, session, faults, wanted, noted, outdated, overlapped>>
    BY <1>1 DEF commandVars
  <2> QED BY <2>1
    DEF CommandsInv, TicketsShaped, B!LabelsAddUp, B!NotesStay, B!There, SessionSound, UpdateSound
<1>2. CASE B!CommandsNext
  BY <1>2, OneCallStep, NoteStep, BulkUpdateListsStep, AsksStep, BulkDeleteStep,
     BulkUpdateStep, BulkMoveStep
  DEF B!CommandsNext
<1> QED BY <1>1, <1>2 DEF CallsNext, callsVars

(* Commands about a ticket's labels and notes add up and bulk commands     *)
(* report what they did, whoever gives how many of them about whatever     *)
(* tickets (commands.py, executor.py, server.py of mcp), outside the cases *)
(* CommandsAddUp names.                                                    *)
THEOREM CommandsAddUpCorrect ==
  ASSUME IsFiniteSet(Ids) PROVE CallsSpec => []CommandsAddUp
<1>1. CallsInit => CommandsInv
  BY CommandsInitSound DEF CallsInit
<1>2. CommandsInv /\ [CallsNext]_callsVars => CommandsInv'
  BY CommandsStaySound
<1>3. CommandsInv => CommandsAddUp
  <2> SUFFICES ASSUME CommandsInv PROVE CommandsAddUp
    OBVIOUS
  <2>1. ASSUME NEW c \in Sessions, session[c].at = "told" PROVE B!UpdateReportTrue(session[c])
    <3>1. UpdateSound(session[c], faults)
      BY DEF CommandsInv, SessionSound
    <3>2. Rest(session[c]) = {}
      BY <2>1, <3>1 DEF UpdateSound, Rest, IdsOf
    <3> QED BY <2>1, <3>1, <3>2 DEF UpdateSound, B!UpdateReportTrue
  <2>2. ASSUME NEW c \in Sessions, session[c].at = "deleted"
        PROVE  B!DeleteReportTrue(session[c])
    BY <2>2 DEF CommandsInv, SessionSound, B!DeleteReportTrue
  <2> QED BY <2>1, <2>2 DEF CommandsInv, CommandsAddUp, B!ReportsTrue
<1> QED BY <1>1, <1>2, <1>3, PTL DEF CallsSpec

-----------------------------------------------------------------------------
(* StrategyFile.                                                           *)

(* Sprints of a plan are numbered by their positions.                      *)
Numbered(q) == (\E X : q \in Seq(X)) /\ \A i \in 1..Len(q) : q[i].id = i
PlanOK(d) ==
  DOMAIN d = {"metadata", "plain", "sprints", "backlog"} /\ Numbered(d.sprints)

LEMMA NumberedLength ==
  ASSUME NEW q, Numbered(q)
  PROVE  Len(q) \in Nat /\ DOMAIN q = 1..Len(q) /\ S!Distinct(q)
<1>1. PICK X : q \in Seq(X)
  BY DEF Numbered
<1>2. Len(q) \in Nat /\ DOMAIN q = 1..Len(q)
  BY <1>1, LenProperties
<1> QED BY <1>2 DEF Numbered, S!Distinct

LEMMA NextIdIsNext ==
  ASSUME NEW q, Numbered(q)
  PROVE  S!NextId(q) = Len(q) + 1
<1>1. Len(q) \in Nat /\ DOMAIN q = 1..Len(q) /\ \A i \in 1..Len(q) : q[i].id = i
  BY NumberedLength DEF Numbered
<1> DEFINE ids == {0} \cup {q[i].id : i \in DOMAIN q}
<1>2. PICK n : n = Len(q)
  OBVIOUS
<1>3. n \in Nat /\ ids = 0..n
  BY <1>1, <1>2
<1> HIDE DEF ids
<1>4. n \in ids /\ \A y \in ids : n >= y
  BY <1>3
<1>5. S!Max(ids) \in ids /\ \A y \in ids : S!Max(ids) >= y
  BY <1>4 DEF S!Max
<1>6. S!Max(ids) = n
  BY <1>3, <1>4, <1>5
<1> QED BY <1>2, <1>6 DEF S!NextId, S!LastId, ids

LEMMA SprintNumbered ==
  ASSUME NEW q, Numbered(q), NEW c
  PROVE  LET r == Append(q, [id |-> S!NextId(q), by |-> c])
         IN  Numbered(r) /\ Len(r) = Len(q) + 1
<1>1. PICK X : q \in Seq(X)
  BY DEF Numbered
<1> DEFINE e == [id |-> S!NextId(q), by |-> c]
           r == Append(q, e)
<1>2. Len(q) \in Nat /\ e.id = Len(q) + 1
  BY NumberedLength, NextIdIsNext
<1> HIDE DEF e
<1>3. q \in Seq(X \cup {e})
  BY <1>1
<1>4. /\ r \in Seq(X \cup {e}) /\ Len(r) = Len(q) + 1
      /\ \A i \in 1..Len(q) : r[i] = q[i]
      /\ r[Len(q) + 1] = e
  BY <1>3, AppendProperties
<1>5. ASSUME NEW i \in 1..Len(q) + 1 PROVE r[i].id = i
  BY <1>2, <1>4 DEF Numbered
<1> QED BY <1>4, <1>5 DEF Numbered, e

LEMMA BeginningOK ==
  ASSUME NEW d, PlanOK(d), NEW upTo PROVE PlanOK(S!Beginning(d, upTo))
<1>1. Numbered(<< >>)
  <2>1. << >> \in Seq({})
    OBVIOUS
  <2> QED BY <2>1 DEF Numbered
<1> QED BY <1>1 DEF S!Beginning, S!Empty, PlanOK

LEMMA EmptyOK == PlanOK(S!Empty)
<1>1. << >> \in Seq({})
  OBVIOUS
<1> QED BY <1>1 DEF S!Empty, PlanOK, Numbered

(* What a request makes of a plan: a longer one for a new sprint, one      *)
(* without the items shown for a delete.                                   *)
LEMMA ResultOK ==
  ASSUME NEW d, PlanOK(d), NEW c
  PROVE  LET r == S!Result(d, c) IN
         /\ PlanOK(r)
         /\ Len(r.sprints) = IF client[c].op = "sprint" THEN Len(d.sprints) + 1
                                                        ELSE Len(d.sprints)
         /\ r.backlog = IF client[c].op = "delete" THEN d.backlog \ client[c].shown
                                                   ELSE d.backlog
<1>1. CASE client[c].op = "sprint"
  <2> DEFINE q == Append(d.sprints, [id |-> S!NextId(d.sprints), by |-> c])
             r == [d EXCEPT !.sprints = q]
  <2>1. S!Result(d, c) = r
    BY <1>1 DEF S!Result, S!WithSprint
  <2>2. Numbered(q) /\ Len(q) = Len(d.sprints) + 1
    BY SprintNumbered DEF PlanOK
  <2> HIDE DEF q
  <2>3. DOMAIN r = DOMAIN d /\ r.sprints = q /\ r.backlog = d.backlog
    BY DEF PlanOK
  <2> HIDE DEF r
  <2> QED BY <1>1, <2>1, <2>2, <2>3 DEF PlanOK
<1>2. CASE client[c].op = "delete"
  BY <1>2 DEF S!Result, S!WithoutShown, PlanOK
<1>3. CASE client[c].op # "sprint" /\ client[c].op # "delete"
  BY <1>3 DEF S!Result, S!Patched, PlanOK
<1> QED BY <1>1, <1>2, <1>3

Waits == {"selects", "confirms", "writes"}
Dumps == {"dumps", "closes"}
ClientSound(s) ==
  DOMAIN s = {"at", "op", "read", "shown", "since"} /\ PlanOK(s.read)

PlanTyped ==
  /\ DOMAIN client = Clients /\ \A c \in Clients : ClientSound(client[c])
  /\ writers = {c \in Clients : client[c].at \in Dumps}
  /\ PlanOK(file.doc) /\ PlanOK(promised)
  /\ told \in Seq(Nat)

(* One dump at a time fills the file before it ends.                       *)
OneWriter ==
  /\ ~overlaid => \A c, d \in writers : c = d
  /\ ~overlaid /\ ~died /\ (\A c \in Clients : client[c].at # "closes") => file.parses

(* Where nothing crosses, the last load of whoever is to write is what the *)
(* requests so far add up to, and while someone dumps the others' loads    *)
(* are known to be old.                                                    *)
InTurn ==
  S!Exclusive =>
    /\ \A c \in Clients :
         /\ client[c].at \in Waits /\ ~client[c].since =>
              client[c].read = promised /\ writers = {}
         /\ client[c].at \in Dumps => client[c].read = promised
    /\ writers = {} => file = [doc |-> promised, parses |-> TRUE]
    /\ \A i \in 1..Len(told) : told[i] <= Len(promised.sprints)
    /\ \A i, j \in 1..Len(told) : told[i] = told[j] => i = j

(* Old loads hold all items nobody deleted.                                *)
ItemsHeld ==
  ~torn /\ ~overlaid /\ ~died =>
    /\ \A c \in Clients : client[c].at # "idle" => promised.backlog \subseteq client[c].read.backlog
    /\ writers = {} => promised.backlog \subseteq file.doc.backlog

PlanInv == PlanTyped /\ OneWriter /\ InTurn /\ ItemsHeld

LEMMA IdleClient ==
  ClientSound(S!Idle) /\ S!Idle.at = "idle"
BY EmptyOK DEF ClientSound, S!Idle

LEMMA PlanInit == S!StrategyInit => PlanInv
<1> SUFFICES ASSUME S!StrategyInit PROVE PlanInv
  OBVIOUS
<1> DEFINE q == <<[id |-> 1, by |-> S!Nobody]>>
           d == [S!Empty EXCEPT !.backlog = Items, !.sprints = q]
<1>1. file = [doc |-> d, parses |-> TRUE] /\ promised = d
  BY DEF S!StrategyInit
<1>2. Numbered(q)
  <2>1. PICK e : e = [id |-> 1, by |-> S!Nobody]
    OBVIOUS
  <2>2. q = <<e>> /\ e.id = 1
    BY <2>1
  <2>3. q \in Seq({e}) /\ Len(q) = 1 /\ q[1] = e
    BY <2>2
  <2>4. \A i \in 1..Len(q) : q[i].id = i
    BY <2>2, <2>3
  <2> HIDE DEF q
  <2> QED BY <2>3, <2>4 DEF Numbered
<1> HIDE DEF q
<1>3. PlanOK(d)
  BY <1>2 DEF PlanOK, S!Empty
<1> HIDE DEF d
<1>4. /\ client = [c \in Clients |-> S!Idle] /\ writers = {} /\ told = << >>
      /\ ~stale /\ ~torn /\ ~overlaid /\ ~died
  BY DEF S!StrategyInit
<1>5. PlanTyped
  BY <1>1, <1>3, <1>4, IdleClient DEF PlanTyped, Dumps
<1>6. OneWriter
  BY <1>1, <1>4, IdleClient DEF OneWriter
<1>7. InTurn
  BY <1>1, <1>4, IdleClient DEF InTurn, Waits, Dumps
<1>8. ItemsHeld
  BY <1>1, <1>4, IdleClient DEF ItemsHeld
<1> QED BY <1>5, <1>6, <1>7, <1>8 DEF PlanInv

LEMMA LoadsStep ==
  ASSUME PlanInv, NEW c \in Clients, NEW kind, NEW stage \in {"selects", "writes"},
         S!Loads(c, kind, stage)
  PROVE  PlanInv'
<1> DEFINE x == [S!Idle EXCEPT !.at = stage, !.op = kind, !.read = file.doc]
           y == IF file.parses THEN x ELSE S!Idle
<1>t. /\ DOMAIN client = Clients /\ PlanOK(file.doc)
      /\ writers = {d \in Clients : client[d].at \in Dumps}
  BY DEF PlanInv, PlanTyped
<1>1. /\ client[c].at = "idle" /\ torn' = (torn \/ writers # {})
      /\ client' = [client EXCEPT ![c] = y]
      /\ UNCHANGED <<file, writers, promised, told, stale, overlaid, died>>
  BY DEF S!Loads
<1>2. ClientSound(x) /\ x.at = stage /\ x.read = file.doc
  BY <1>t, IdleClient DEF ClientSound, S!Idle
<1> HIDE DEF x
<1>3. /\ ClientSound(y) /\ y.at \notin Dumps
      /\ y.at # "idle" => y.read = file.doc
  BY <1>2, IdleClient DEF Dumps
<1> HIDE DEF y
<1>4. client'[c] = y /\ (\A d \in Clients : d # c => client'[d] = client[d])
      /\ DOMAIN client' = Clients
  BY <1>t, <1>1
<1>5. PlanTyped'
  <2>1. writers' = {d \in Clients : client'[d].at \in Dumps}
    <3>1. client[c].at \notin Dumps
      BY <1>1 DEF Dumps
    <3> QED BY <1>t, <1>1, <1>3, <1>4, <3>1
  <2>2. \A d \in Clients : ClientSound(client'[d])
    BY <1>3, <1>4 DEF PlanInv, PlanTyped
  <2> QED BY <1>1, <1>4, <2>1, <2>2 DEF PlanInv, PlanTyped
<1>6. OneWriter'
  <2>1. client[c].at # "closes" /\ y.at # "closes"
    BY <1>1, <1>3 DEF Dumps
  <2> QED BY <1>1, <1>4, <2>1 DEF PlanInv, OneWriter
<1>7. InTurn'
  <2> SUFFICES ASSUME S!Exclusive' PROVE InTurn!2'
    BY DEF InTurn
  <2>1. S!Exclusive /\ writers = {}
    BY <1>1 DEF S!Exclusive
  <2>2. file = [doc |-> promised, parses |-> TRUE]
    BY <2>1 DEF PlanInv, InTurn
  <2>3. y.at \in Waits => y.read = promised
    BY <1>3, <2>2 DEF Waits
  <2> QED BY <1>1, <1>3, <1>4, <2>1, <2>2, <2>3 DEF PlanInv, InTurn
<1>8. ItemsHeld'
  BY <1>1, <1>3, <1>4 DEF PlanInv, ItemsHeld
<1> QED BY <1>5, <1>6, <1>7, <1>8 DEF PlanInv

LEMMA ChoosesStep ==
  ASSUME PlanInv, NEW c \in Clients, S!Select(c) \/ S!Confirm(c)
  PROVE  PlanInv'
<1> DEFINE s == client[c]
<1>t. /\ DOMAIN client = Clients /\ ClientSound(s)
      /\ writers = {d \in Clients : client[d].at \in Dumps}
  BY DEF PlanInv, PlanTyped
<1>u. UNCHANGED <<file, requests, writers, promised, told, stale, torn, overlaid, died>>
  BY DEF S!Select, S!Confirm
<1>1. PICK y : /\ client' = [client EXCEPT ![c] = y]
               /\ s.at \in Waits /\ ClientSound(y)
               /\ y.at = "idle" \/ (y.at \in Waits /\ y.read = s.read /\ y.since = s.since)
  <2>1. CASE S!Select(c)
    <3>1. PICK matching \in SUBSET client[c].read.backlog :
            client' = [client EXCEPT ![c] =
              IF matching = {} THEN S!Idle
              ELSE [client[c] EXCEPT !.at = "confirms", !.shown = matching]]
      BY <2>1 DEF S!Select
    <3> DEFINE x == [s EXCEPT !.at = "confirms", !.shown = matching]
    <3>2. /\ ClientSound(x) /\ x.at = "confirms" /\ x.read = s.read /\ x.since = s.since
      BY <1>t DEF ClientSound
    <3>3. s.at \in Waits
      BY <2>1 DEF S!Select, Waits
    <3>4. client' = [client EXCEPT ![c] = IF matching = {} THEN S!Idle ELSE x]
      BY <3>1
    <3> HIDE DEF x
    <3> QED BY <3>2, <3>3, <3>4, IdleClient DEF Waits
  <2>2. CASE S!Confirm(c)
    <3>1. PICK yes \in BOOLEAN :
            client' = [client EXCEPT ![c] =
              IF yes THEN [client[c] EXCEPT !.at = "writes"] ELSE S!Idle]
      BY <2>2 DEF S!Confirm
    <3> DEFINE x == [s EXCEPT !.at = "writes"]
    <3>2. /\ ClientSound(x) /\ x.at = "writes" /\ x.read = s.read /\ x.since = s.since
      BY <1>t DEF ClientSound
    <3>3. s.at \in Waits
      BY <2>2 DEF S!Confirm, Waits
    <3>4. client' = [client EXCEPT ![c] = IF yes THEN x ELSE S!Idle]
      BY <3>1
    <3> HIDE DEF x
    <3> QED BY <3>2, <3>3, <3>4, IdleClient DEF Waits
  <2> QED BY <2>1, <2>2
<1>2. client'[c] = y /\ (\A d \in Clients : d # c => client'[d] = client[d])
      /\ DOMAIN client' = Clients
  BY <1>t, <1>1
<1>3. s.at \notin Dumps /\ y.at \notin Dumps /\ s.at # "idle" /\ s.at # "closes" /\ y.at # "closes"
  BY <1>1 DEF Waits, Dumps
<1>5. PlanTyped'
  <2>1. writers' = {d \in Clients : client'[d].at \in Dumps}
    BY <1>t, <1>u, <1>2, <1>3
  <2>2. \A d \in Clients : ClientSound(client'[d])
    BY <1>1, <1>2 DEF PlanInv, PlanTyped
  <2> QED BY <1>u, <1>2, <2>1, <2>2 DEF PlanInv, PlanTyped
<1>6. OneWriter'
  BY <1>u, <1>2, <1>3 DEF PlanInv, OneWriter
<1>7. InTurn'
  <2> SUFFICES ASSUME S!Exclusive' PROVE InTurn!2'
    BY DEF InTurn
  <2>1. S!Exclusive
    BY <1>u DEF S!Exclusive
  <2>2. y.at \in Waits /\ ~y.since => y.read = promised /\ writers = {}
    <3>1. y.at \in Waits => y.read = s.read /\ y.since = s.since
      BY <1>1 DEF Waits
    <3> QED BY <1>1, <2>1, <3>1 DEF PlanInv, InTurn
  <2> QED BY <1>u, <1>2, <1>3, <2>1, <2>2 DEF PlanInv, InTurn
<1>8. ItemsHeld'
  BY <1>u, <1>1, <1>2, <1>3 DEF PlanInv, ItemsHeld
<1> QED BY <1>5, <1>6, <1>7, <1>8 DEF PlanInv

LEMMA TruncateStep ==
  ASSUME PlanInv, NEW c \in Clients, S!Truncate(c)
  PROVE  PlanInv'
<1> DEFINE x == [client[c] EXCEPT !.at = "dumps"]
           Old(d) == [client[d] EXCEPT !.since = TRUE]
<1>t. /\ DOMAIN client = Clients /\ \A d \in Clients : ClientSound(client[d])
      /\ writers = {d \in Clients : client[d].at \in Dumps}
  BY DEF PlanInv, PlanTyped
<1>1. /\ client[c].at = "writes"
      /\ file' = [doc |-> S!Empty, parses |-> TRUE] /\ writers' = writers \cup {c}
      /\ overlaid' = (overlaid \/ writers # {}) /\ stale' = (stale \/ client[c].since)
      /\ UNCHANGED <<promised, told, torn, died>>
  BY DEF S!Truncate
<1>2. /\ DOMAIN client' = Clients /\ client'[c] = x
      /\ \A d \in Clients : d # c =>
           client'[d] = IF client[d].at \in Waits THEN Old(d) ELSE client[d]
  BY DEF S!Truncate, Waits
<1>3. ClientSound(x) /\ x.at = "dumps" /\ x.read = client[c].read
  BY <1>t DEF ClientSound
<1>4. \A d \in Clients : /\ ClientSound(Old(d)) /\ Old(d).since = TRUE
                         /\ Old(d).at = client[d].at /\ Old(d).read = client[d].read
  BY <1>t DEF ClientSound
<1> HIDE DEF x, Old
<1>5. \A d \in Clients : d # c =>
        /\ ClientSound(client'[d]) /\ client'[d].at = client[d].at
        /\ client'[d].read = client[d].read
        /\ client'[d].at \in Waits => client'[d].since
  BY <1>t, <1>2, <1>4
<1>6. PlanTyped'
  <2>1. writers' = {d \in Clients : client'[d].at \in Dumps}
    BY <1>t, <1>1, <1>2, <1>3, <1>5 DEF Dumps
  <2>2. \A d \in Clients : ClientSound(client'[d])
    BY <1>2, <1>3, <1>5
  <2> QED BY <1>1, <1>2, <2>1, <2>2, EmptyOK DEF PlanInv, PlanTyped
<1>7. OneWriter'
  BY <1>1 DEF PlanInv, OneWriter
<1>8. InTurn'
  <2> SUFFICES ASSUME S!Exclusive' PROVE InTurn!2'
    BY DEF InTurn
  <2>1. S!Exclusive /\ writers = {} /\ ~client[c].since
    BY <1>1 DEF S!Exclusive
  <2>2. client[c].read = promised
    BY <1>1, <2>1 DEF PlanInv, InTurn, Waits
  <2>3. \A d \in Clients : client[d].at \notin Dumps
    BY <1>t, <2>1
  <2>4. x.at \notin Waits
    BY <1>3 DEF Waits
  <2> QED BY <1>1, <1>2, <1>3, <1>5, <2>1, <2>2, <2>3, <2>4 DEF PlanInv, InTurn
<1>9. ItemsHeld'
  <2>1. client[c].at # "idle"
    BY <1>1
  <2> QED BY <1>1, <1>2, <1>3, <1>5, <2>1 DEF PlanInv, ItemsHeld
<1> QED BY <1>6, <1>7, <1>8, <1>9 DEF PlanInv

LEMMA FlushStep ==
  ASSUME PlanInv, NEW c \in Clients, S!Flush(c)
  PROVE  PlanInv'
<1> DEFINE s == client[c]
           x == [s EXCEPT !.at = "closes"]
<1>t. /\ DOMAIN client = Clients /\ ClientSound(s)
      /\ writers = {d \in Clients : client[d].at \in Dumps}
  BY DEF PlanInv, PlanTyped
<1>1. /\ s.at = "dumps" /\ client' = [client EXCEPT ![c] = x]
      /\ UNCHANGED <<requests, writers, promised, told, stale, torn, overlaid, died>>
  BY DEF S!Flush
<1>2. PICK upTo \in S!Sections, parses \in BOOLEAN :
        file' = [doc |-> S!Beginning(S!Result(s.read, c), upTo), parses |-> parses]
  BY DEF S!Flush
<1>3. PlanOK(file.doc)'
  <2>1. PlanOK(S!Beginning(S!Result(s.read, c), upTo))
    BY <1>t, ResultOK, BeginningOK DEF ClientSound
  <2> QED BY <1>2, <2>1
<1>4. ClientSound(x) /\ x.at = "closes" /\ x.read = s.read
  BY <1>t DEF ClientSound
<1> HIDE DEF x
<1>5. client'[c] = x /\ (\A d \in Clients : d # c => client'[d] = client[d])
      /\ DOMAIN client' = Clients
  BY <1>t, <1>1
<1>w. c \in writers /\ s.at \in Dumps /\ x.at \in Dumps /\ s.at # "idle" /\ x.at \notin Waits
  BY <1>t, <1>1, <1>4 DEF Dumps, Waits
<1>6. PlanTyped'
  <2>1. writers' = {d \in Clients : client'[d].at \in Dumps}
    BY <1>t, <1>1, <1>5, <1>w
  <2>2. \A d \in Clients : ClientSound(client'[d])
    BY <1>4, <1>5 DEF PlanInv, PlanTyped
  <2> QED BY <1>1, <1>3, <1>5, <2>1, <2>2 DEF PlanInv, PlanTyped
<1>7. OneWriter'
  BY <1>1, <1>4, <1>5 DEF PlanInv, OneWriter
<1>8. InTurn'
  <2> SUFFICES ASSUME S!Exclusive' PROVE InTurn!2'
    BY DEF InTurn
  <2>1. S!Exclusive
    BY <1>1 DEF S!Exclusive
  <2> QED BY <1>1, <1>4, <1>5, <1>w, <2>1 DEF PlanInv, InTurn
<1>9. ItemsHeld'
  BY <1>1, <1>4, <1>5, <1>w DEF PlanInv, ItemsHeld
<1> QED BY <1>6, <1>7, <1>8, <1>9 DEF PlanInv

LEMMA CloseStep ==
  ASSUME PlanInv, NEW c \in Clients, S!Close(c)
  PROVE  PlanInv'
<1> DEFINE s == client[c]
           doc == S!Result(s.read, c)
           sum == S!Result(promised, c)
<1>t. /\ DOMAIN client = Clients /\ ClientSound(s) /\ PlanOK(promised) /\ told \in Seq(Nat)
      /\ writers = {d \in Clients : client[d].at \in Dumps}
  BY DEF PlanInv, PlanTyped
<1>1. /\ s.at \in Dumps /\ client' = [client EXCEPT ![c] = S!Idle]
      /\ promised' = sum /\ writers' = writers \ {c}
      /\ told' = IF s.op = "sprint" THEN Append(told, S!NextId(s.read.sprints)) ELSE told
      /\ UNCHANGED <<requests, stale, torn, overlaid, died>>
  BY DEF S!Close, Dumps
<1>2. PICK parses : /\ file' = [doc |-> doc, parses |-> parses]
                    /\ ~overlaid => parses = TRUE
  BY DEF S!Close
<1>3. /\ PlanOK(doc)
      /\ doc.backlog = IF s.op = "delete" THEN s.read.backlog \ s.shown ELSE s.read.backlog
  BY <1>t, ResultOK DEF ClientSound
<1>4. /\ PlanOK(sum)
      /\ Len(sum.sprints) = IF s.op = "sprint" THEN Len(promised.sprints) + 1
                                               ELSE Len(promised.sprints)
      /\ sum.backlog = IF s.op = "delete" THEN promised.backlog \ s.shown ELSE promised.backlog
  BY <1>t, ResultOK
<1>5. S!NextId(s.read.sprints) = Len(s.read.sprints) + 1 /\ Len(s.read.sprints) \in Nat
  BY <1>t, NextIdIsNext, NumberedLength DEF ClientSound, PlanOK
<1>6. client'[c] = S!Idle /\ (\A d \in Clients : d # c => client'[d] = client[d])
      /\ DOMAIN client' = Clients
  BY <1>t, <1>1
<1>w. c \in writers /\ s.at # "idle"
  BY <1>t, <1>1 DEF Dumps
<1>i. S!Idle.at \notin Dumps /\ S!Idle.at \notin Waits /\ S!Idle.at = "idle"
  BY IdleClient DEF Dumps, Waits
<1>l. Len(promised.sprints) \in Nat /\ Len(told) \in Nat
  BY <1>t, NumberedLength DEF PlanOK
<1> HIDE DEF doc, sum
<1>7. PlanTyped'
  <2>1. writers' = {d \in Clients : client'[d].at \in Dumps}
    BY <1>t, <1>1, <1>6, <1>i
  <2>2. \A d \in Clients : ClientSound(client'[d])
    BY <1>6, IdleClient DEF PlanInv, PlanTyped
  <2>3. told' \in Seq(Nat)
    BY <1>t, <1>1, <1>5
  <2> QED BY <1>1, <1>2, <1>3, <1>4, <1>6, <2>1, <2>2, <2>3 DEF PlanTyped
<1>8. OneWriter'
  BY <1>1, <1>2 DEF PlanInv, OneWriter
<1>9. InTurn'
  <2> SUFFICES ASSUME S!Exclusive' PROVE InTurn!2'
    BY DEF InTurn
  <2>1. S!Exclusive /\ ~overlaid
    BY <1>1 DEF S!Exclusive
  <2>2. s.read = promised /\ doc = sum
    BY <1>1, <2>1 DEF PlanInv, InTurn, doc, sum
  <2>3. /\ \A d \in writers : d = c
        /\ \A d \in Clients : d # c => client[d].at \notin Dumps
        /\ \A d \in Clients : client[d].at \in Waits => client[d].since
    BY <1>t, <1>w, <2>1 DEF PlanInv, OneWriter, InTurn
  <2>4. file' = [doc |-> promised', parses |-> TRUE]
    BY <1>1, <1>2, <2>1, <2>2
  <2>5. /\ \A i \in 1..Len(told) : told[i] <= Len(promised.sprints)
        /\ \A i, j \in 1..Len(told) : told[i] = told[j] => i = j
    BY <2>1 DEF PlanInv, InTurn
  <2>6. /\ \A i \in 1..Len(told') : told'[i] <= Len(promised'.sprints)
        /\ \A i, j \in 1..Len(told') : told'[i] = told'[j] => i = j
    <3>1. CASE s.op # "sprint"
      BY <1>1, <1>4, <2>5, <3>1
    <3>2. CASE s.op = "sprint"
      <4>1. PICK n : n = Len(promised.sprints) /\ n \in Nat
        BY <1>l
      <4>2. told' = Append(told, n + 1) /\ Len(promised'.sprints) = n + 1
        BY <1>1, <1>4, <1>5, <2>2, <3>2, <4>1
      <4>3. \A i \in 1..Len(told) : told[i] \in Nat /\ told[i] <= n
        BY <1>t, <2>5, <4>1
      <4>4. /\ Len(told') = Len(told) + 1
            /\ \A i \in 1..Len(told) : told'[i] = told[i]
            /\ told'[Len(told) + 1] = n + 1
        BY <1>t, <4>1, <4>2
      <4> QED BY <1>l, <2>5, <4>1, <4>2, <4>3, <4>4
    <3> QED BY <3>1, <3>2
  <2> QED BY <1>1, <1>6, <1>i, <2>3, <2>4, <2>6
<1>10. ItemsHeld'
  <2> SUFFICES ASSUME ~torn, ~overlaid, ~died PROVE ItemsHeld!2'
    BY <1>1 DEF ItemsHeld
  <2>1. \A d \in Clients : client[d].at # "idle" => promised.backlog \subseteq client[d].read.backlog
    BY DEF PlanInv, ItemsHeld
  <2>2. sum.backlog \subseteq promised.backlog /\ sum.backlog \subseteq doc.backlog
    BY <1>3, <1>4, <1>w, <2>1
  <2> QED BY <1>1, <1>2, <1>6, <1>i, <2>1, <2>2
<1> QED BY <1>7, <1>8, <1>9, <1>10 DEF PlanInv

LEMMA DieStep ==
  ASSUME PlanInv, NEW c \in Clients, S!Die(c)
  PROVE  PlanInv'
<1>t. /\ DOMAIN client = Clients
      /\ writers = {d \in Clients : client[d].at \in Dumps}
  BY DEF PlanInv, PlanTyped
<1>1. /\ client[c].at \in {"writes", "dumps", "closes"}
      /\ client' = [client EXCEPT ![c] = S!Idle]
      /\ died' = (died \/ c \in writers) /\ writers' = writers \ {c}
      /\ UNCHANGED <<file, requests, promised, told, stale, torn, overlaid>>
  BY DEF S!Die
<1>2. client'[c] = S!Idle /\ (\A d \in Clients : d # c => client'[d] = client[d])
      /\ DOMAIN client' = Clients
  BY <1>t, <1>1
<1>i. S!Idle.at \notin Dumps /\ S!Idle.at \notin Waits /\ S!Idle.at = "idle"
  BY IdleClient DEF Dumps, Waits
<1>3. ~died' => ~died /\ client[c].at = "writes" /\ writers' = writers
  BY <1>t, <1>1 DEF Dumps
<1>7. PlanTyped'
  <2>1. writers' = {d \in Clients : client'[d].at \in Dumps}
    BY <1>t, <1>1, <1>2, <1>i
  <2>2. \A d \in Clients : ClientSound(client'[d])
    BY <1>2, IdleClient DEF PlanInv, PlanTyped
  <2> QED BY <1>1, <1>2, <2>1, <2>2 DEF PlanInv, PlanTyped
<1>8. OneWriter'
  BY <1>1, <1>2, <1>3 DEF PlanInv, OneWriter
<1>9. InTurn'
  <2> SUFFICES ASSUME S!Exclusive' PROVE InTurn!2'
    BY DEF InTurn
  <2>1. S!Exclusive
    BY <1>1, <1>3 DEF S!Exclusive
  <2>2. ~died'
    BY DEF S!Exclusive
  <2> QED BY <1>1, <1>2, <1>3, <1>i, <2>1, <2>2 DEF PlanInv, InTurn
<1>10. ItemsHeld'
  BY <1>1, <1>2, <1>3, <1>i DEF PlanInv, ItemsHeld
<1> QED BY <1>7, <1>8, <1>9, <1>10 DEF PlanInv

LEMMA PlanStays == PlanInv /\ [CallsNext]_callsVars => PlanInv'
<1> SUFFICES ASSUME PlanInv, [CallsNext]_callsVars PROVE PlanInv'
  OBVIOUS
<1>1. CASE UNCHANGED strategyVars
  BY <1>1
  DEF strategyVars, PlanInv, PlanTyped, OneWriter, InTurn, ItemsHeld, S!Exclusive
<1>2. CASE S!StrategyNext
  <2>1. PICK c \in Clients :
          \/ S!CreateSprint(c) \/ S!PatchTool(c) \/ S!PatchYaml(c)
          \/ S!BacklogDelete(c) \/ S!Select(c) \/ S!Confirm(c)
          \/ S!Truncate(c) \/ S!Flush(c) \/ S!Close(c) \/ S!Die(c)
    BY <1>2 DEF S!StrategyNext
  <2>2. CASE S!CreateSprint(c) \/ S!PatchTool(c) \/ S!PatchYaml(c) \/ S!BacklogDelete(c)
    BY <2>2, LoadsStep DEF S!CreateSprint, S!PatchTool, S!PatchYaml, S!BacklogDelete
  <2> QED BY <2>1, <2>2, ChoosesStep, TruncateStep, FlushStep, CloseStep, DieStep
<1> QED BY <1>1, <1>2 DEF CallsNext, callsVars

LEMMA PlanTruthful ==
  PlanInv => S!RequestsAddUp /\ S!PlanReadable /\ S!BacklogKept
<1> SUFFICES ASSUME PlanInv PROVE S!RequestsAddUp /\ S!PlanReadable /\ S!BacklogKept
  OBVIOUS
<1>1. S!RequestsAddUp
  BY DEF PlanInv, InTurn, S!RequestsAddUp
<1>2. S!BacklogKept
  BY DEF PlanInv, ItemsHeld, S!BacklogKept
<1>3. S!PlanReadable
  <2>1. writers = {} => \A c \in Clients : client[c].at # "closes"
    BY DEF PlanInv, PlanTyped, Dumps
  <2>2. S!Distinct(file.doc.sprints)
    BY NumberedLength DEF PlanInv, PlanTyped, PlanOK
  <2>3. DOMAIN told = 1..Len(told)
    BY DEF PlanInv, PlanTyped
  <2> QED BY <2>1, <2>2, <2>3 DEF PlanInv, OneWriter, InTurn, S!PlanReadable
<1> QED BY <1>1, <1>2, <1>3

-----------------------------------------------------------------------------
(* TicketValidation.                                                       *)

FileOK(r) ==
  /\ r = [lines |-> r.lines, issues |-> r.issues] /\ r.lines \in Nat
  /\ \A issue \in r.issues : issue[1] \in 1..r.lines
CodeOK(k) == DOMAIN k = DOMAIN Code /\ \A f \in DOMAIN k : FileOK(k[f])

Progress ==
  /\ CodeOK(code)
  /\ DOMAIN scan = {"told", "issues"}
  /\ at \in {"coding", "scanned", "validates", "looks", "told"}
  /\ next \in Nat /\ \E X : verdicts \in Seq(X)
  /\ next = Len(verdicts) + 1 /\ Len(verdicts) <= Len(Strategy)
  /\ at \in {"coding", "scanned"} => verdicts = << >> /\ ~garbled
  /\ at \in {"validates", "looks"} => next \in 1..Len(Strategy)
  /\ at # "looks" => seen = V!NothingSeen
  /\ at = "looks" => V!Ticket.rule = V!NoRule

(* Until the project is edited, the scan is of the project as it is.       *)
ScanHolds ==
  /\ ~scan.told => scan.issues = {}
  /\ at # "coding" /\ fresh /\ scan.told =>
       scan.issues \subseteq V!Detected /\ (~garbled => scan.issues = V!Detected)

(* Of the files looked at, those that exist are seen.                      *)
SeenSoFar ==
  at = "looks" =>
    /\ DOMAIN seen = {"looked", "lines"} /\ seen.looked \in 0..Len(V!Ticket.files)
    /\ \A s \in seen.lines : \E i \in 1..seen.looked : s[1] = V!Ticket.files[i]
    /\ fresh => \A i \in 1..seen.looked :
                  code[V!Ticket.files[i]].lines > 0 =>
                    <<V!Ticket.files[i], code[V!Ticket.files[i]].lines>> \in seen.lines
    /\ \A f \in still : /\ f \in DOMAIN code /\ V!Exists(f)
                        /\ \E i \in 1..Len(V!Ticket.files) : f = V!Ticket.files[i]
    /\ (\E i \in 1..seen.looked : V!Ticket.files[i] \in still) => seen.lines # {}

ValidationInv == Progress /\ ScanHolds /\ SeenSoFar /\ V!VerdictsTrue

LEMMA StrategyShape ==
  /\ Len(Strategy) \in Nat /\ DOMAIN Strategy = 1..Len(Strategy)
  /\ Len(Strategy) = 0 <=> Strategy = << >>
  /\ \A i \in 1..Len(Strategy) :
       /\ Strategy[i].files \in Seq(DOMAIN Code) /\ Strategy[i].line \in Nat
       /\ Len(Strategy[i].files) \in Nat
       /\ DOMAIN Strategy[i].files = 1..Len(Strategy[i].files)
       /\ \A j \in 1..Len(Strategy[i].files) : Strategy[i].files[j] \in DOMAIN Code
<1> DEFINE X == {Strategy[i] : i \in DOMAIN Strategy}
<1>1. Strategy \in Seq(X)
  BY ValidationAssumption
<1> HIDE DEF X
<1>2. Len(Strategy) \in Nat /\ DOMAIN Strategy = 1..Len(Strategy)
  BY <1>1, LenProperties
<1>3. Len(Strategy) = 0 <=> Strategy = << >>
  BY <1>1
<1>4. ASSUME NEW i \in 1..Len(Strategy)
      PROVE  /\ Strategy[i].files \in Seq(DOMAIN Code) /\ Strategy[i].line \in Nat
             /\ Len(Strategy[i].files) \in Nat
             /\ DOMAIN Strategy[i].files = 1..Len(Strategy[i].files)
             /\ \A j \in 1..Len(Strategy[i].files) : Strategy[i].files[j] \in DOMAIN Code
  <2>1. Strategy[i].files \in Seq(DOMAIN Code) /\ Strategy[i].line \in Nat
    BY <1>2, <1>4, ValidationAssumption
  <2> QED BY <2>1
<1> QED BY <1>2, <1>3, <1>4

LEMMA ValidationInitSound == V!ValidationInit => ValidationInv
<1> SUFFICES ASSUME V!ValidationInit PROVE ValidationInv
  OBVIOUS
<1>1. /\ code = Code /\ scan = V!NoScan /\ at = "coding" /\ next = 1
      /\ seen = V!NothingSeen /\ verdicts = << >> /\ ~garbled
  BY DEF V!ValidationInit
<1>2. CodeOK(code)
  BY <1>1, ValidationAssumption DEF CodeOK, FileOK
<1>3. << >> \in Seq({}) /\ Len(<< >>) = 0
  OBVIOUS
<1>4. Progress
  BY <1>1, <1>2, <1>3, StrategyShape DEF Progress, V!NoScan
<1>5. V!VerdictsTrue
  BY <1>1 DEF V!VerdictsTrue
<1>6. ScanHolds /\ SeenSoFar
  BY <1>1 DEF ScanHolds, SeenSoFar, V!NoScan
<1> QED BY <1>4, <1>5, <1>6 DEF ValidationInv

-----------------------------------------------------------------------------
(* The project is edited.                                                  *)
LEMMA EditStep ==
  ASSUME ValidationInv, NEW changed, CodeOK(changed), V!Edit(changed)
  PROVE  ValidationInv'
<1>1. /\ at # "told" /\ code' = changed /\ fresh' = (fresh /\ at = "coding")
      /\ still' = {f \in still : changed[f].lines > 0}
      /\ UNCHANGED <<scan, at, next, seen, verdicts, garbled>>
  BY DEF V!Edit
<1>2. Progress'
  BY <1>1 DEF ValidationInv, Progress, V!Ticket
<1>3. ScanHolds'
  BY <1>1 DEF ValidationInv, ScanHolds
<1>4. SeenSoFar'
  <2>1. CASE at = "looks"
    <3>1. ~fresh'
      BY <1>1, <2>1
    <3>2. \A f \in still' : f \in still /\ f \in DOMAIN code' /\ V!Exists(f)'
      BY <1>1, <2>1 DEF ValidationInv, SeenSoFar, Progress, CodeOK, V!Exists
    <3> QED BY <1>1, <2>1, <3>1, <3>2 DEF ValidationInv, SeenSoFar, V!Ticket
  <2>2. CASE at # "looks"
    BY <1>1, <2>2 DEF SeenSoFar
  <2> QED BY <2>1, <2>2
<1>5. V!VerdictsTrue'
  <2>1. CASE fresh'
    <3>1. verdicts' = << >>
      BY <1>1, <2>1 DEF ValidationInv, Progress
    <3> QED BY <3>1 DEF V!VerdictsTrue
  <2>2. CASE ~fresh'
    BY <1>1, <2>2 DEF ValidationInv, V!VerdictsTrue
  <2> QED BY <2>1, <2>2
<1> QED BY <1>2, <1>3, <1>4, <1>5 DEF ValidationInv

LEMMA EditsSound ==
  ASSUME ValidationInv, V!Fix \/ V!Shorten \/ V!Rename
  PROVE  ValidationInv'
<1>t. CodeOK(code)
  BY DEF ValidationInv, Progress
<1>1. CASE V!Fix
  <2>1. PICK f \in DOMAIN code : \E issue \in code[f].issues :
          V!Edit([code EXCEPT ![f].issues = code[f].issues \ {issue}])
    BY <1>1 DEF V!Fix
  <2>2. PICK issue \in code[f].issues :
          V!Edit([code EXCEPT ![f].issues = code[f].issues \ {issue}])
    BY <2>1
  <2> DEFINE r == [code[f] EXCEPT !.issues = code[f].issues \ {issue}]
             k == [code EXCEPT ![f] = r]
  <2>3. V!Edit(k)
    BY <2>2
  <2>4. FileOK(code[f])
    BY <1>t DEF CodeOK
  <2>5. FileOK(r)
    <3>1. DOMAIN code[f] = {"lines", "issues"}
      BY <2>4 DEF FileOK
    <3>2. /\ r.lines = code[f].lines /\ r.issues = code[f].issues \ {issue}
          /\ r = [lines |-> r.lines, issues |-> r.issues]
      BY <3>1
    <3> HIDE DEF r
    <3> QED BY <2>4, <3>2 DEF FileOK
  <2> HIDE DEF r
  <2>6. CodeOK(k)
    BY <1>t, <2>5 DEF CodeOK
  <2> HIDE DEF k
  <2> QED BY <2>3, <2>6, EditStep
<1>2. CASE V!Shorten
  <2>1. PICK f \in DOMAIN code :
          /\ code[f].lines > 1
          /\ V!Edit([code EXCEPT ![f] = [lines |-> code[f].lines - 1,
               issues |-> {i \in code[f].issues : i[1] < code[f].lines}]])
    BY <1>2 DEF V!Shorten
  <2> DEFINE r == [lines |-> code[f].lines - 1,
                   issues |-> {i \in code[f].issues : i[1] < code[f].lines}]
             k == [code EXCEPT ![f] = r]
  <2>3. V!Edit(k)
    BY <2>1
  <2>4. FileOK(code[f])
    BY <1>t DEF CodeOK
  <2>5. FileOK(r)
    BY <2>1, <2>4 DEF FileOK
  <2> HIDE DEF r
  <2>6. CodeOK(k)
    BY <1>t, <2>5 DEF CodeOK
  <2> HIDE DEF k
  <2> QED BY <2>3, <2>6, EditStep
<1>3. CASE V!Rename
  <2>1. PICK f \in DOMAIN code, g \in DOMAIN code :
          V!Edit([code EXCEPT ![f] = V!Gone, ![g] = code[f]])
    BY <1>3 DEF V!Rename
  <2> DEFINE k == [code EXCEPT ![f] = V!Gone, ![g] = code[f]]
  <2>2. FileOK(V!Gone)
    BY DEF FileOK, V!Gone
  <2>3. CodeOK(k)
    BY <1>t, <2>2 DEF CodeOK
  <2>4. V!Edit(k)
    BY <2>1
  <2> HIDE DEF k
  <2> QED BY <2>3, <2>4, EditStep
<1> QED BY <1>1, <1>2, <1>3

LEMMA ScanStep ==
  ASSUME ValidationInv, V!Scan \/ V!ReadIssues \/ V!Again
  PROVE  ValidationInv'
<1>e. << >> \in Seq({}) /\ Len(<< >>) = 0
  OBVIOUS
<1>1. CASE V!Scan
  <2>1. PICK spoke \in BOOLEAN :
          scan' = [told |-> spoke, issues |-> IF spoke THEN V!Detected ELSE {}]
    BY <1>1 DEF V!Scan
  <2>2. /\ at = "coding" /\ at' = "scanned" /\ fresh' = TRUE
        /\ UNCHANGED <<code, edits, next, seen, verdicts, still, garbled>>
    BY <1>1 DEF V!Scan
  <2>3. V!Detected' = V!Detected
    BY <2>2 DEF V!Detected
  <2>4. Progress' /\ verdicts' = << >>
    BY <2>1, <2>2 DEF ValidationInv, Progress
  <2>5. ScanHolds'
    BY <2>1, <2>2, <2>3 DEF ScanHolds
  <2>6. SeenSoFar' /\ V!VerdictsTrue'
    BY <2>2, <2>4 DEF SeenSoFar, V!VerdictsTrue
  <2> QED BY <2>4, <2>5, <2>6 DEF ValidationInv
<1>2. CASE V!ReadIssues
  <2>1. PICK known \in BOOLEAN :
          /\ scan' = IF known THEN scan ELSE [scan EXCEPT !.issues = {}]
          /\ garbled' = (scan.told /\ ~known)
    BY <1>2 DEF V!ReadIssues
  <2>2. /\ at = "scanned" /\ at' = IF Strategy = << >> THEN "told" ELSE "validates"
        /\ UNCHANGED <<code, edits, next, seen, verdicts, fresh, still>>
    BY <1>2 DEF V!ReadIssues
  <2>3. V!Detected' = V!Detected
    BY <2>2 DEF V!Detected
  <2>4. /\ DOMAIN scan' = {"told", "issues"} /\ scan'.told = scan.told
        /\ scan'.issues = IF known THEN scan.issues ELSE {}
    BY <2>1 DEF ValidationInv, Progress
  <2>5. next = 1 /\ verdicts = << >>
    BY <1>e, <2>2 DEF ValidationInv, Progress
  <2>6. Progress'
    BY <2>2, <2>4, <2>5, StrategyShape DEF ValidationInv, Progress
  <2>7. ScanHolds'
    <3>1. ~scan'.told => scan'.issues = {}
      BY <2>4 DEF ValidationInv, ScanHolds
    <3>2. CASE known
      <4>1. scan'.issues = scan.issues
        BY <2>4, <3>2
      <4>2. fresh /\ scan.told => scan.issues = V!Detected
        BY <2>2 DEF ValidationInv, ScanHolds, Progress
      <4> QED BY <2>2, <2>3, <2>4, <3>1, <4>1, <4>2 DEF ScanHolds
    <3>3. CASE ~known
      <4>1. scan'.issues = {} /\ (scan'.told => garbled')
        BY <2>1, <2>4, <3>3
      <4> QED BY <2>2, <3>1, <4>1 DEF ScanHolds
    <3> QED BY <3>2, <3>3
  <2>8. SeenSoFar' /\ V!VerdictsTrue'
    BY <2>2, <2>5 DEF SeenSoFar, V!VerdictsTrue
  <2> QED BY <2>6, <2>7, <2>8 DEF ValidationInv
<1>3. CASE V!Again
  <2>1. /\ at = "told" /\ at' = "coding" /\ scan' = V!NoScan
        /\ next' = 1 /\ verdicts' = << >> /\ garbled' = FALSE
        /\ UNCHANGED <<code, edits, seen, fresh, still>>
    BY <1>3 DEF V!Again
  <2>2. Progress'
    BY <1>e, <2>1, StrategyShape DEF ValidationInv, Progress, V!NoScan
  <2>3. ScanHolds' /\ SeenSoFar' /\ V!VerdictsTrue'
    BY <2>1 DEF ScanHolds, SeenSoFar, V!VerdictsTrue, V!NoScan
  <2> QED BY <2>2, <2>3 DEF ValidationInv
<1> QED BY <1>1, <1>2, <1>3

-----------------------------------------------------------------------------
(* A ticket is told.                                                       *)
LEMMA ConcludesStep ==
  ASSUME ValidationInv, at \in {"validates", "looks"}, NEW v, V!Concludes(v),
         UNCHANGED <<code, edits, scan, fresh, garbled>>,
         v.status = "current" => scan.told /\ (fresh => V!Wrong(V!Ticket)),
         v.status = "stale" /\ fresh /\ ~garbled => ~V!Wrong(V!Ticket)
  PROVE  ValidationInv'
<1>1. /\ verdicts' = Append(verdicts, v) /\ next' = next + 1
      /\ seen' = V!NothingSeen /\ still' = {}
      /\ at' = IF next = Len(Strategy) THEN "told" ELSE "validates"
  BY DEF V!Concludes
<1>x. PICK X : verdicts \in Seq(X)
  BY DEF ValidationInv, Progress
<1>t. /\ next \in Nat /\ verdicts \in Seq(X \cup {v}) /\ next = Len(verdicts) + 1
      /\ next \in 1..Len(Strategy)
  BY <1>x DEF ValidationInv, Progress
<1>2. /\ Len(verdicts) \in Nat /\ DOMAIN verdicts = 1..Len(verdicts)
      /\ verdicts' \in Seq(X \cup {v}) /\ Len(verdicts') = Len(verdicts) + 1
      /\ DOMAIN verdicts' = 1..Len(verdicts) + 1
      /\ \A i \in 1..Len(verdicts) : verdicts'[i] = verdicts[i]
      /\ verdicts'[next] = v
  BY <1>1, <1>t
<1>3. Progress'
  <2>1. /\ next' = Len(verdicts') + 1 /\ Len(verdicts') <= Len(Strategy)
        /\ at' = "validates" => next' \in 1..Len(Strategy)
    <3>1. PICK n, k, m : n = Len(verdicts) /\ m = Len(verdicts') /\ k = Len(Strategy)
      OBVIOUS
    <3>2. /\ n \in Nat /\ k \in Nat /\ m = n + 1 /\ next = n + 1 /\ next \in 1..k
          /\ next' = next + 1 /\ (at' = "validates" => next # k)
      BY <1>1, <1>2, <1>t, <3>1, StrategyShape
    <3>3. next' = m + 1 /\ m <= k /\ (at' = "validates" => next' \in 1..k)
      BY <3>2
    <3> QED BY <3>1, <3>3
  <2>2. at' \in {"validates", "told"}
    BY <1>1
  <2>3. next' \in Nat /\ \E Y : verdicts' \in Seq(Y)
    BY <1>1, <1>2, <1>t
  <2>4. CodeOK(code') /\ DOMAIN scan' = {"told", "issues"}
    BY DEF ValidationInv, Progress
  <2> QED BY <1>1, <2>1, <2>2, <2>3, <2>4 DEF Progress
<1>d. V!Detected' = V!Detected
  BY DEF V!Detected
<1>4. ScanHolds'
  <2>1. at # "coding"
    OBVIOUS
  <2> QED BY <1>d, <2>1 DEF ValidationInv, ScanHolds
<1>5. SeenSoFar'
  BY <1>1 DEF SeenSoFar
<1>6. V!VerdictsTrue'
  <2> SUFFICES ASSUME NEW i \in 1..Len(verdicts) + 1
               PROVE  /\ verdicts'[i].status = "current" =>
                           scan.told /\ (fresh => V!Wrong(Strategy[i]))
                      /\ verdicts'[i].status = "stale" /\ fresh /\ ~garbled =>
                           ~V!Wrong(Strategy[i])
    <3>1. \A t : V!Wrong(t)' <=> V!Wrong(t)
      BY <1>d DEF V!Wrong, V!Files
    <3> QED BY <1>2, <3>1 DEF V!VerdictsTrue
  <2>1. CASE i = next
    BY <1>2, <2>1 DEF V!Ticket
  <2>2. CASE i # next
    <3>1. i \in 1..Len(verdicts)
      BY <1>2, <1>t, <2>2
    <3> QED BY <1>2, <3>1 DEF ValidationInv, V!VerdictsTrue
  <2> QED BY <2>1, <2>2
<1> QED BY <1>3, <1>4, <1>5, <1>6 DEF ValidationInv

(* What the project says is wrong, is on a line of a file.                 *)
LEMMA DetectedLines ==
  ASSUME CodeOK(code), NEW d, d \in V!Detected
  PROVE  d[2] \in DOMAIN code /\ d[3] \in 1..code[d[2]].lines /\ code[d[2]].lines \in Nat
<1>1. PICK f \in DOMAIN code : d \in {<<issue[2], f, issue[1]>> : issue \in code[f].issues}
  BY DEF V!Detected
<1>2. PICK issue \in code[f].issues : d = <<issue[2], f, issue[1]>>
  BY <1>1
<1>3. d[2] = f /\ d[3] = issue[1]
  BY <1>2
<1>4. FileOK(code[f])
  BY DEF CodeOK
<1> QED BY <1>2, <1>3, <1>4 DEF FileOK

LEMMA RuleAnchorStep ==
  ASSUME ValidationInv, V!RuleAnchor PROVE ValidationInv'
<1>1. /\ at = "validates" /\ V!Ticket.rule # V!NoRule /\ V!Concludes(V!ByRule(V!Ticket))
      /\ UNCHANGED <<code, edits, scan, fresh, garbled>>
  BY DEF V!RuleAnchor
<1> DEFINE t == V!Ticket
           v == V!ByRule(t)
<1>3. v.status = "current" => /\ scan.told
                              /\ \E f \in V!Files(t) : <<t.rule, f>> \in V!RuleFile
  BY DEF V!ByRule, V!Verdict
<1>4. v.status = "stale" => /\ scan.told
                            /\ ~\E f \in V!Files(t) : <<t.rule, f>> \in V!RuleFile
  BY DEF V!ByRule, V!Verdict
<1> HIDE DEF v, t
<1>s. fresh /\ scan.told =>
        scan.issues \subseteq V!Detected /\ (~garbled => scan.issues = V!Detected)
  BY <1>1 DEF ValidationInv, ScanHolds
<1>5. ASSUME v.status = "current", fresh PROVE V!Wrong(t)
  <2>1. PICK f \in V!Files(t) : <<t.rule, f>> \in V!RuleFile
    BY <1>3, <1>5
  <2>2. PICK i \in scan.issues : <<t.rule, f>> = <<i[1], i[2]>>
    BY <2>1 DEF V!RuleFile
  <2>3. i \in V!Detected /\ i[1] = t.rule /\ i[2] = f
    BY <1>3, <1>5, <1>s, <2>2
  <2> QED BY <1>1, <2>1, <2>3 DEF V!Wrong, t
<1>6. ASSUME v.status = "stale", fresh, ~garbled, V!Wrong(t) PROVE FALSE
  <2>1. PICK d \in V!Detected : d[1] = t.rule /\ d[2] \in V!Files(t)
    BY <1>1, <1>6 DEF V!Wrong, t
  <2>2. d \in scan.issues
    BY <1>4, <1>6, <1>s
  <2>3. <<t.rule, d[2]>> \in V!RuleFile
    BY <2>1, <2>2 DEF V!RuleFile
  <2> QED BY <1>4, <1>6, <2>1, <2>3
<1>7. V!Concludes(v)
  BY <1>1 DEF v, t
<1> QED BY <1>1, <1>3, <1>5, <1>6, <1>7, ConcludesStep DEF t

LEMMA NoAnchorStep ==
  ASSUME ValidationInv, V!NoAnchor PROVE ValidationInv'
<1> DEFINE v == V!Verdict("unknown", "insufficient_data")
<1>1. v.status = "unknown"
  BY DEF V!Verdict
<1>2. /\ at = "validates" /\ V!Concludes(v) /\ UNCHANGED <<code, edits, scan, fresh, garbled>>
  BY DEF V!NoAnchor
<1> HIDE DEF v
<1> QED BY <1>1, <1>2, ConcludesStep

(* Its files: looked at one by one.                                        *)
LEMMA TicketFiles ==
  ASSUME ValidationInv, at \in {"validates", "looks"}
  PROVE  /\ V!Ticket.files \in Seq(DOMAIN code) /\ Len(V!Ticket.files) \in Nat
         /\ V!Ticket.line \in Nat
         /\ \A i \in 1..Len(V!Ticket.files) : V!Ticket.files[i] \in DOMAIN code
         /\ V!Files(V!Ticket) = {V!Ticket.files[i] : i \in 1..Len(V!Ticket.files)}
<1>1. next \in 1..Len(Strategy) /\ DOMAIN code = DOMAIN Code
  BY DEF ValidationInv, Progress, CodeOK
<1> QED BY <1>1, StrategyShape DEF V!Ticket, V!Files

LEMMA LooksStep ==
  ASSUME ValidationInv, V!LookFirst \/ V!Look PROVE ValidationInv'
<1>f. at \in {"validates", "looks"} =>
        /\ Len(V!Ticket.files) \in Nat
        /\ \A i \in 1..Len(V!Ticket.files) : V!Ticket.files[i] \in DOMAIN code
        /\ V!Files(V!Ticket) = {V!Ticket.files[i] : i \in 1..Len(V!Ticket.files)}
  BY TicketFiles
<1>u. UNCHANGED <<code, scan, next, verdicts, fresh, garbled>> /\ at' = "looks" /\ at # "coding"
      /\ at # "told" /\ at # "scanned" /\ V!Ticket.rule = V!NoRule
  BY DEF V!LookFirst, V!Look, ValidationInv, Progress
<1>d. V!Detected' = V!Detected
  BY <1>u DEF V!Detected
<1>1. Progress' /\ ScanHolds' /\ V!VerdictsTrue'
  <2>1. Progress'
    BY <1>u DEF ValidationInv, Progress, V!Ticket
  <2>2. ScanHolds'
    BY <1>u, <1>d DEF ValidationInv, ScanHolds
  <2>3. \A t : V!Wrong(t)' <=> V!Wrong(t)
    BY <1>d DEF V!Wrong, V!Files
  <2>4. V!VerdictsTrue'
    BY <1>u, <2>3 DEF ValidationInv, V!VerdictsTrue
  <2> QED BY <2>1, <2>2, <2>4
<1>2. V!Ticket' = V!Ticket
  BY <1>u DEF V!Ticket
<1>3. CASE V!LookFirst
  <2>1. /\ at = "validates" /\ seen = V!NothingSeen /\ seen' = seen
        /\ still' = {f \in V!Files(V!Ticket) : V!Exists(f)}
    BY <1>3 DEF V!LookFirst, ValidationInv, Progress
  <2>2. \A f \in still' : /\ f \in DOMAIN code' /\ V!Exists(f)'
                          /\ \E i \in 1..Len(V!Ticket.files) : f = V!Ticket.files[i]
    <3>1. ASSUME NEW f \in still'
          PROVE  \E i \in 1..Len(V!Ticket.files) : f = V!Ticket.files[i]
      <4>1. f \in V!Files(V!Ticket)
        BY <2>1
      <4>2. DOMAIN V!Ticket.files = 1..Len(V!Ticket.files)
        BY <2>1, TicketFiles
      <4> QED BY <4>1, <4>2 DEF V!Files
    <3>2. ASSUME NEW f \in still' PROVE f \in DOMAIN code' /\ V!Exists(f)'
      BY <1>f, <1>u, <2>1, <3>1 DEF V!Exists
    <3> QED BY <3>1, <3>2
  <2>3. DOMAIN seen = {"looked", "lines"} /\ seen.looked = 0 /\ seen.lines = {}
    BY <2>1 DEF V!NothingSeen
  <2> QED BY <1>1, <1>2, <1>f, <2>1, <2>2, <2>3 DEF ValidationInv, SeenSoFar
<1>4. CASE V!Look
  <2> DEFINE files == V!Ticket.files
             n == seen.looked + 1
             f == files[n]
  <2>1. /\ at = "looks" /\ seen.looked # Len(files) /\ still' = still
        /\ seen' = [looked |-> n, lines |-> seen.lines \cup
                      IF V!Exists(f) THEN {<<f, code[f].lines>>} ELSE {}]
    BY <1>4 DEF V!Look, V!Looked
  <2>2. /\ seen.looked \in 0..Len(files) /\ Len(files) \in Nat
        /\ \A s \in seen.lines : \E i \in 1..seen.looked : s[1] = files[i]
        /\ fresh => \A i \in 1..seen.looked :
                      code[files[i]].lines > 0 =>
                        <<files[i], code[files[i]].lines>> \in seen.lines
        /\ \A g \in still : /\ g \in DOMAIN code /\ V!Exists(g)
                            /\ \E i \in 1..Len(files) : g = files[i]
        /\ (\E i \in 1..seen.looked : files[i] \in still) => seen.lines # {}
    BY <1>f, <2>1 DEF ValidationInv, SeenSoFar
  <2> HIDE DEF files
  <2>3. n \in 1..Len(files) /\ seen.looked \in Nat /\ 1..n = 1..seen.looked \cup {n}
    BY <2>1, <2>2
  <2>4. /\ DOMAIN seen' = {"looked", "lines"} /\ seen'.looked = n
        /\ seen'.lines = seen.lines \cup IF V!Exists(f) THEN {<<f, code[f].lines>>} ELSE {}
    BY <2>1
  <2>5. \A s \in seen'.lines : \E i \in 1..n : s[1] = files[i]
    <3>1. ASSUME NEW s \in seen'.lines PROVE \E i \in 1..n : s[1] = files[i]
      <4>1. CASE s \in seen.lines
        BY <2>2, <2>3, <4>1
      <4>2. CASE s = <<f, code[f].lines>>
        BY <2>3, <4>2
      <4> QED BY <2>4, <4>1, <4>2
    <3> QED BY <3>1
  <2>6. fresh => \A i \in 1..n : code[files[i]].lines > 0 =>
                   <<files[i], code[files[i]].lines>> \in seen'.lines
    BY <2>2, <2>3, <2>4 DEF V!Exists
  <2>7. (\E i \in 1..n : files[i] \in still) => seen'.lines # {}
    BY <2>2, <2>3, <2>4
  <2>8. \A g \in still' : g \in DOMAIN code' /\ V!Exists(g)'
    BY <1>u, <2>1, <2>2 DEF V!Exists
  <2>9. seen'.looked \in 0..Len(files)
    BY <2>3, <2>4
  <2>10. SeenSoFar'
    BY <1>2, <1>u, <2>1, <2>2, <2>4, <2>5, <2>6, <2>7, <2>8, <2>9 DEF SeenSoFar, files
  <2> QED BY <1>1, <2>10 DEF ValidationInv
<1> QED BY <1>3, <1>4

(* Once all files were looked at.                                          *)
LEMMA AllSeen ==
  ASSUME ValidationInv, at = "looks", V!Looked
  PROVE  /\ \A s \in seen.lines : s[1] \in V!Files(V!Ticket)
         /\ fresh => \A f \in V!Files(V!Ticket) :
                       code[f].lines > 0 => <<f, code[f].lines>> \in seen.lines
         /\ (\E f \in still : TRUE) => seen.lines # {}
<1>1. V!Files(V!Ticket) = {V!Ticket.files[i] : i \in 1..Len(V!Ticket.files)}
  BY TicketFiles
<1> QED BY <1>1 DEF ValidationInv, SeenSoFar, V!Looked

LEMMA LineAnchorStep ==
  ASSUME ValidationInv, V!LineAnchor PROVE ValidationInv'
<1> DEFINE t == V!Ticket
           v == V!ByLine(t)
<1>1. /\ at = "looks" /\ V!Looked /\ V!Concludes(v)
      /\ UNCHANGED <<code, edits, scan, fresh, garbled>>
  BY DEF V!LineAnchor
<1>t. CodeOK(code) /\ t.rule = V!NoRule /\ t.line \in Nat
  BY <1>1, TicketFiles DEF ValidationInv, Progress
<1>a. /\ \A s \in seen.lines : s[1] \in V!Files(t)
      /\ fresh => \A f \in V!Files(t) : code[f].lines > 0 => <<f, code[f].lines>> \in seen.lines
  BY <1>1, AllSeen
<1>3. v.status = "current" => /\ scan.told
                              /\ \E s \in seen.lines : <<s[1], t.line>> \in V!FileLine
  BY DEF V!ByLine, V!Verdict
<1>4. v.status = "stale" => \A s \in seen.lines : t.line > s[2]
  BY DEF V!ByLine, V!Verdict
<1> HIDE DEF v, t
<1>s. fresh /\ scan.told => scan.issues \subseteq V!Detected
  BY <1>1 DEF ValidationInv, ScanHolds
<1>5. ASSUME v.status = "current", fresh PROVE V!Wrong(t)
  <2>1. PICK s \in seen.lines : <<s[1], t.line>> \in V!FileLine
    BY <1>3, <1>5
  <2>2. PICK i \in scan.issues : <<s[1], t.line>> = <<i[2], i[3]>>
    BY <2>1 DEF V!FileLine
  <2>3. i \in V!Detected /\ i[2] = s[1] /\ i[3] = t.line
    BY <1>3, <1>5, <1>s, <2>2
  <2> QED BY <1>a, <1>t, <2>1, <2>3 DEF V!Wrong
<1>6. ASSUME v.status = "stale", fresh, V!Wrong(t) PROVE FALSE
  <2>1. PICK d \in V!Detected : d[2] \in V!Files(t) /\ d[3] = t.line
    BY <1>t, <1>6 DEF V!Wrong
  <2>2. PICK f, n : f = d[2] /\ n = code[f].lines
    OBVIOUS
  <2>3. t.line \in 1..n /\ n \in Nat
    BY <1>t, <2>1, <2>2, DetectedLines
  <2>4. n > 0
    BY <2>3
  <2>5. <<f, n>> \in seen.lines
    BY <1>6, <1>a, <2>1, <2>2, <2>4
  <2>6. t.line > n
    BY <1>4, <1>6, <2>5
  <2> QED BY <1>t, <2>3, <2>6
<1> QED BY <1>1, <1>3, <1>5, <1>6, ConcludesStep DEF t

LEMMA FileAnchorStep ==
  ASSUME ValidationInv, V!FileAnchor PROVE ValidationInv'
<1> DEFINE t == V!Ticket
           v == V!ByFile
<1>1. /\ at = "looks" /\ V!Looked /\ V!Concludes(v) /\ t.line = V!NoLine
      /\ UNCHANGED <<code, edits, scan, fresh, garbled>>
  BY DEF V!FileAnchor
<1>t. CodeOK(code) /\ t.rule = V!NoRule
  BY <1>1 DEF ValidationInv, Progress
<1>2. v.status # "current"
  BY DEF V!ByFile, V!Verdict
<1> HIDE DEF v, t
<1>3. ~V!Wrong(t)
  <2> SUFFICES ASSUME NEW d \in V!Detected, d[3] = t.line PROVE FALSE
    BY <1>t DEF V!Wrong
  <2>1. d[3] \in 1..code[d[2]].lines /\ code[d[2]].lines \in Nat
    BY <1>t, DetectedLines
  <2> QED BY <1>1, <2>1 DEF V!NoLine
<1> QED BY <1>1, <1>2, <1>3, ConcludesStep DEF t

LEMMA ValidationStays == ValidationInv /\ [CallsNext]_callsVars => ValidationInv'
<1> SUFFICES ASSUME ValidationInv, [CallsNext]_callsVars PROVE ValidationInv'
  OBVIOUS
<1>1. CASE UNCHANGED validationVars
  <2>1. UNCHANGED <<code, scan, at, next, seen, verdicts, fresh, still, garbled>>
    BY <1>1 DEF validationVars
  <2> QED BY <2>1
    DEF ValidationInv, Progress, ScanHolds, SeenSoFar, V!VerdictsTrue, V!Wrong, V!Detected,
        V!Ticket, V!Exists, V!Files
<1>2. CASE V!ValidationNext
  BY <1>2, EditsSound, ScanStep, RuleAnchorStep, NoAnchorStep, LooksStep, LineAnchorStep,
     FileAnchorStep
  DEF V!ValidationNext
<1> QED BY <1>1, <1>2 DEF CallsNext, callsVars

LEMMA ValidationTruthful == ValidationInv => V!VerdictsTrue /\ V!MissingWasMissing
<1> SUFFICES ASSUME ValidationInv PROVE V!MissingWasMissing
  BY DEF ValidationInv
<1>1. ASSUME at = "looks", V!Looked, seen.lines = {} PROVE still = {}
  BY <1>1, AllSeen
<1> QED BY <1>1 DEF V!MissingWasMissing

(* planfile.yaml and its validation, for every plan, project and list of   *)
(* requests: crossed and cut off rewrites lose no more than                *)
(* StrategyTruthful allows, and a ticket is told stale or current as the   *)
(* project was at the scan (executor.py, server.py, ticket_validation.py). *)
THEOREM StrategyTruthfulCorrect == CallsSpec => []StrategyTruthful
<1>1. CallsInit => PlanInv /\ ValidationInv
  BY PlanInit, ValidationInitSound DEF CallsInit
<1>2. PlanInv /\ ValidationInv /\ [CallsNext]_callsVars => PlanInv' /\ ValidationInv'
  BY PlanStays, ValidationStays
<1>3. PlanInv /\ ValidationInv => StrategyTruthful
  BY PlanTruthful, ValidationTruthful DEF StrategyTruthful
<1> QED BY <1>1, <1>2, <1>3, PTL DEF CallsSpec
=============================================================================
