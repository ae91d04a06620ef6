---------------------------- MODULE TicketLists ----------------------------
(***************************************************************************)
(* GET /tickets in the API server (api/server.py 393-870) over the cached  *)
(* signature of the store (core/store.py 1202-1245) and its SQLite index.  *)
(*                                                                         *)
(* Many files make one answer.  Two parts stand for them here: "active",   *)
(* the current sprint, which every look at the signature cache probes, and *)
(* "other", archives and evidence, whose changes by another program may be *)
(* noticed a TTL late.  A body is a function from the parts to the         *)
(* revisions it shows.  A worker thread per request runs between the steps *)
(* of a mutation of this server, of other programs, of an index rebuild.   *)
(***************************************************************************)
EXTENDS Integers, FiniteSets

CONSTANTS Readers, Free,
          Queries,   \* among "queue", "archive" and "full"
          MaxBytes,  \* of the response cache
          LMaxChanges  \* bound of a run

Parts == {"active", "other"}
Bodies == [Parts -> 0..LMaxChanges]
NoBody == [p \in Parts |-> -1]
Size(q) == CASE q = "queue" -> 1 [] q = "archive" -> 3 [] q = "full" -> 4

VARIABLES
  files,     \* the revision of each part on disk
  acked,     \* the revisions whose mutation this server has finished
  indexed,   \* whether the SQLite index is enabled
  index,     \* what the index holds; equal to the signature it is stored with
  rebuild,   \* the rows a rebuild has read and not committed, or NoBody
  sigCache,  \* the cached signature and the probe it was taken with
  sigLock,   \* the reader that scans the files under the lock of that cache
  mutation,  \* this server's mutation, under the mutation lock
  bodies,    \* _TICKET_LIST_RESPONSE_CACHE
  latest,    \* _TICKET_LIST_LATEST: what was cached last for a query, its age
  reader,    \* the requests, each on a thread
  backdated  \* history: a rebuild put older rows under a reader that had found
             \* the index current

listVars == <<files, acked, indexed, index, rebuild, sigCache, sigLock, mutation,
              bodies, latest, reader, backdated>>

NoSig == [sig |-> NoBody, probe |-> -1]
NoMutation == [pc |-> "idle", part |-> "active", apply |-> FALSE]
NoLatest == [body |-> NoBody, age |-> "none"]
Idle == [pc |-> "idle", query |-> "none", begun |-> NoBody, probe |-> -1, sig |-> NoBody, body |-> NoBody, how |-> "none"]

LInit ==
  /\ files = [p \in Parts |-> 0] /\ acked = files
  /\ indexed \in BOOLEAN
  /\ index = files /\ rebuild = NoBody
  /\ sigCache = NoSig /\ sigLock = Free
  /\ mutation = NoMutation
  /\ bodies = {} /\ latest = [q \in Queries |-> NoLatest]
  /\ reader = [r \in Readers |-> Idle]
  /\ backdated = FALSE

Changes == files["active"] + files["other"]
Wrote(p) == files' = [files EXCEPT ![p] = Changes + 1]

cacheVars == <<bodies, latest>>
signVars == <<sigCache, sigLock>>
-----------------------------------------------------------------------------
(* A mutation of this server drops the cached signature when it has the    *)
(* mutation lock and when it gives it back; to drop it, it waits for the   *)
(* lock a scan of the files holds.                                         *)
BeginMutation ==
  /\ mutation.pc = "idle" /\ sigLock = Free /\ Changes < LMaxChanges
  /\ \E p \in Parts : mutation' = [pc |-> "write", part |-> p, apply |-> index = files]
  /\ sigCache' = NoSig
  /\ UNCHANGED <<files, acked, indexed, index, rebuild, sigLock, cacheVars, reader,
                 backdated>>

WriteAndApply ==
  \/ /\ mutation.pc = "write"
     /\ Wrote(mutation.part)
     /\ mutation' = [mutation EXCEPT !.pc = "apply"]
     /\ UNCHANGED <<acked, indexed, index, rebuild, signVars, cacheVars, reader, backdated>>
  \/ /\ mutation.pc = "apply"
     /\ index' = IF indexed /\ mutation.apply THEN files ELSE index
     /\ mutation' = [mutation EXCEPT !.pc = "leave"]
     /\ UNCHANGED <<files, acked, indexed, rebuild, signVars, cacheVars, reader, backdated>>

Leaves(free, dropped) ==
  /\ mutation.pc = "leave" /\ free
  /\ sigCache' = dropped
  /\ acked' = [acked EXCEPT ![mutation.part] = files[mutation.part]]
  /\ mutation' = NoMutation
  /\ UNCHANGED <<files, indexed, index, rebuild, sigLock, cacheVars, reader, backdated>>

(* A mutant: the signature is dropped without the lock of its cache.       *)
LeaveUnlockedMutant == Leaves(TRUE, NoSig)

LeaveMutation == Leaves(sigLock = Free, NoSig)

(* A hand edit or another process, which keeps the index current or not.   *)
OtherWrites ==
  /\ mutation.pc = "idle" /\ Changes < LMaxChanges
  /\ \E p \in Parts : Wrote(p)
  /\ index' \in {index} \cup (IF indexed /\ index = files THEN {files'} ELSE {})
  /\ UNCHANGED <<acked, indexed, rebuild, signVars, mutation, cacheVars, reader, backdated>>

(* A rebuild, forced or because the index is stale.                        *)
RebuildReads ==
  /\ indexed /\ rebuild = NoBody
  /\ rebuild' = files
  /\ UNCHANGED <<files, acked, indexed, index, signVars, mutation, cacheVars, reader,
                 backdated>>

RebuildCommits ==
  /\ rebuild # NoBody
  /\ index' = rebuild /\ rebuild' = NoBody
  /\ backdated' = (backdated \/ \E r \in Readers : reader[r].pc = "index"
                                                   /\ index # rebuild)
  /\ UNCHANGED <<files, acked, indexed, signVars, mutation, cacheVars, reader>>

(* The TTL of the cached signature, the ages of the cached bodies: younger *)
(* than 30 seconds, than 300 seconds, or older.                            *)
TimePasses ==
  /\ sigCache' = IF sigLock = Free THEN NoSig ELSE sigCache
  /\ latest' \in {latest,
                  [q \in Queries |-> IF latest[q].age = "fresh"
                                     THEN [latest[q] EXCEPT !.age = "recent"] ELSE latest[q]],
                  [q \in Queries |-> IF latest[q].age \in {"fresh", "recent"}
                                     THEN [latest[q] EXCEPT !.age = "old"] ELSE latest[q]]}
  /\ UNCHANGED <<files, acked, indexed, index, rebuild, sigLock, mutation, bodies, reader,
                 backdated>>

-----------------------------------------------------------------------------
Answer(r, how, body) ==
  reader' = [reader EXCEPT ![r] = [@ EXCEPT !.pc = "answered", !.how = how, !.body = body,
                                            !.sig = NoBody]]

Goes(r, pc) == reader' = [reader EXCEPT ![r].pc = pc]

worldVars == <<files, acked, indexed, index, rebuild, mutation, backdated>>

(* The lock of a query lets one request at a time build its answer.  A     *)
(* browser is shown what was built within 30 seconds and nothing else done.*)
Arrive(r) == \E q \in Queries, browser \in BOOLEAN :
  /\ reader[r].pc = "idle"
  /\ \A s \in Readers : reader[s].query # q \/ reader[s].pc \in {"idle", "answered"}
  /\ reader' = [reader EXCEPT ![r] =
       LET begun == [Idle EXCEPT !.query = q, !.begun = acked]
       IN IF browser /\ latest[q].age = "fresh"
          THEN [begun EXCEPT !.pc = "answered", !.how = "recent", !.body = latest[q].body]
          ELSE [begun EXCEPT !.pc = "sign"]]
  /\ UNCHANGED <<worldVars, signVars, cacheVars>>

(* _ticket_snapshot_signature: probed and cached while the index is        *)
(* enabled, taken afresh otherwise; the files are looked at one by one.    *)
Sign(r) == \E p \in Parts : LET first == [NoBody EXCEPT ![p] = files[p]] IN
  \/ /\ reader[r].pc = "sign"
     /\ reader' = [reader EXCEPT ![r].pc = IF indexed THEN "lookup" ELSE "scan",
                                 ![r].probe = files["active"],
                                 ![r].sig = IF indexed THEN NoBody ELSE first]
     /\ UNCHANGED <<worldVars, signVars, cacheVars>>
  \/ /\ reader[r].pc = "lookup" /\ sigLock = Free
     /\ IF sigCache # NoSig /\ sigCache.probe = reader[r].probe
        THEN /\ reader' = [reader EXCEPT ![r].pc = "find", ![r].sig = sigCache.sig,
                                      ![r].probe = -1]
             /\ UNCHANGED sigLock
        ELSE /\ reader' = [reader EXCEPT ![r].pc = "scan", ![r].sig = first]
             /\ sigLock' = r
     /\ UNCHANGED <<worldVars, sigCache, cacheVars>>
  \/ /\ reader[r].pc = "scan" /\ reader[r].sig[p] = -1
     /\ reader' = [reader EXCEPT ![r].pc = "find", ![r].sig[p] = files[p],
                                 ![r].probe = -1]
     /\ sigCache' = IF indexed THEN [sig |-> reader'[r].sig, probe |-> reader[r].probe]
                    ELSE sigCache
     /\ sigLock' = IF sigLock = r THEN Free ELSE sigLock
     /\ UNCHANGED <<worldVars, cacheVars>>

(* A body cached under this very signature; else the index when it is      *)
(* current, else whatever is left when it is not.                          *)
Find(r) ==
  /\ reader[r].pc = "find"
  /\ LET q == reader[r].query
         hit == {e \in bodies : e.query = q /\ e.sig = reader[r].sig}
     IN \/ \E e \in hit : Answer(r, "cached", e.body)
        \/ hit = {} /\ ~indexed /\ Goes(r, "files")
        \/ hit = {} /\ indexed /\ index = reader[r].sig /\ Goes(r, "index")
        \/ /\ hit = {} /\ indexed /\ index # reader[r].sig
           /\ IF latest[q].age \in {"fresh", "recent"}
              THEN Answer(r, "stale", latest[q].body)
              ELSE \/ q = "archive" /\ Answer(r, "stale", index)
                   \/ q # "queue" /\ Answer(r, "refused", NoBody)
                   \/ q = "queue" /\ Goes(r, "files")
  /\ UNCHANGED <<worldVars, signVars, cacheVars>>

(* A full page larger than a response may be is refused.                   *)
ReadIndex(r) ==
  /\ reader[r].pc = "index"
  /\ \/ reader' = [reader EXCEPT ![r].pc = "keep", ![r].body = index]
     \/ reader[r].query = "full" /\ Answer(r, "refused", NoBody)
  /\ UNCHANGED <<worldVars, signVars, cacheVars>>

ReadFiles(r) ==
  /\ \/ /\ reader[r].pc = "files"
        /\ reader' = [reader EXCEPT ![r].pc = "files2",
                                    ![r].body = [files EXCEPT !["other"] = -1]]
     \/ /\ reader[r].pc = "files2"
        /\ reader' = [reader EXCEPT ![r].pc = "keep", ![r].body["other"] = files["other"]]
  /\ UNCHANGED <<worldVars, signVars, cacheVars>>

(* What the bodies of both tables weigh; a body in both weighs once.       *)
Weight(B, L) ==
  LET held == {<<e.query, e.body>> : e \in B}
              \cup {<<q, L[q].body>> : q \in {q \in Queries : L[q] # NoLatest}}
      Of(q) == Size(q) * Cardinality({h \in held : h[1] = q})
  IN (IF "queue" \in Queries THEN Of("queue") ELSE 0)
     + (IF "archive" \in Queries THEN Of("archive") ELSE 0)
     + (IF "full" \in Queries THEN Of("full") ELSE 0)

(* _cache_ticket_list_response: when there is no room, all goes.           *)
CachesIn(r, kept) ==
  LET q == reader[r].query
      B == {e \in bodies : e.query # q}
      L == [latest EXCEPT ![q] = NoLatest]
      full == Weight(B, L) + Size(q) > MaxBytes
      entry == [query |-> q, sig |-> reader[r].sig, body |-> reader[r].body]
  IN IF Size(q) > MaxBytes THEN bodies' = B /\ latest' = L
     ELSE /\ bodies' = (IF full THEN {} ELSE B) \cup {entry}
          /\ latest' = [(IF full THEN kept ELSE L)
                          EXCEPT ![q] = [body |-> reader[r].body, age |-> "fresh"]]

NothingLatest == [q \in Queries |-> NoLatest]

(* Mutants: the table of latest bodies is not emptied with the other; the  *)
(* files are not looked at again.                                          *)
CachesHalfMutant(r) == CachesIn(r, latest)

Caches(r) == CachesIn(r, NothingLatest)

KeepUncheckedMutant(r) ==
  /\ reader[r].pc = "keep" /\ Caches(r)
  /\ Answer(r, "built", reader[r].body)
  /\ UNCHANGED <<worldVars, signVars>>

(* Read from the files, an answer is kept only if no file has changed since*)
(* the signature -- unless the index is enabled, whoever built it.         *)
Keep(r) ==
  /\ reader[r].pc = "keep"
  /\ IF indexed \/ reader[r].sig = files THEN Caches(r) ELSE UNCHANGED cacheVars
  /\ Answer(r, "built", reader[r].body)
  /\ UNCHANGED <<worldVars, signVars>>

Done(r) ==
  /\ reader[r].pc = "answered"
  /\ reader' = [reader EXCEPT ![r] = Idle]
  /\ UNCHANGED <<worldVars, signVars, cacheVars>>

LNext == \/ BeginMutation \/ WriteAndApply \/ LeaveMutation \/ OtherWrites
         \/ RebuildReads \/ RebuildCommits \/ TimePasses
         \/ \E r \in Readers : \/ Arrive(r) \/ Sign(r) \/ Find(r) \/ ReadIndex(r)
                               \/ ReadFiles(r) \/ Keep(r) \/ Done(r)

LSpec == LInit /\ [][LNext]_listVars

-----------------------------------------------------------------------------
(* A program that is not a browser, and is not told that its answer is     *)
(* stale, sees every change this server had acknowledged when it asked,    *)
(* wherever the answer came from -- except from an index that a rebuild    *)
(* begun before the change replaced between check and read.                *)
ReadsItsWrites ==
  ~backdated =>
    \A r \in Readers : reader[r].pc = "answered" /\ reader[r].how \in {"cached", "built"} =>
      \A p \in Parts : reader[r].body[p] >= reader[r].begun[p]

(* A body kept under a signature shows the files as that signature says,   *)
(* never parts of different times; with an index enabled it may be newer.  *)
CachedAsSigned ==
  ~backdated =>
    \A e \in bodies : IF indexed THEN \A p \in Parts : e.body[p] >= e.sig[p]
                      ELSE e.body = e.sig

(* The two tables hold no more bytes than allowed, one body for a query,   *)
(* and what is offered as the latest answer is one of the cached ones.     *)
CacheBounded ==
  /\ Weight(bodies, latest) <= MaxBytes
  /\ \A e, f \in bodies : e.query = f.query => e = f
  /\ \A q \in Queries : latest[q] # NoLatest =>
       \E e \in bodies : e.query = q /\ e.body = latest[q].body
=============================================================================
