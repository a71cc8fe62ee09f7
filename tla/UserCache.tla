------------------------------ MODULE UserCache ------------------------------
(***************************************************************************)
(* UserBusinessService over RedisService and UserServiceClient: the cache- *)
(* aside copy of one user's profile.  Keys never interact, so one profile  *)
(* stands for all.                                                         *)
(*                                                                         *)
(* Each request is a handler that awaits Redis and the user service in     *)
(* turn; other handlers, of this or of another gateway process (Redis is   *)
(* shared, the handlers keep no state of their own), interleave at every   *)
(* await.  PUT and DELETE are RemoteCalls: retried, and possibly applied   *)
(* after their call was answered.  GET changes nothing, so only the value  *)
(* its last attempt read matters.                                          *)
(*                                                                         *)
(* A Redis command fails when ioredis gives it up; its effect may or may   *)
(* not have happened by then.                                              *)
(***************************************************************************)
EXTENDS Naturals

CONSTANTS
  Readers,     \* GET /users/:id requests
  Updaters,    \* PUT /users/:id requests, each with a body of its own
  Deleters,    \* DELETE /users/:id requests
  CacheTtl,    \* CACHE_TTL_SECONDS, 300 by default; 0 is accepted
  MaxRetries   \* 2 in BaseHttpClient.request

Writers == Updaters \cup Deleters

ASSUME UserCacheAssumption ==
  /\ Readers \cap Writers = {}
  /\ Updaters \cap Deleters = {}
  /\ CacheTtl \in Nat
  /\ MaxRetries \in Nat

Original == "original"
Gone == "gone"
None == "none"

\* A profile is named after the update that wrote it.
Profiles == Updaters \cup {Original}

ASSUME ProfileNames == {Original, Gone, None} \cap Updaters = {}

VARIABLES
  status, request,  \* the writers' remote calls
  record,    \* the user service's row: a profile, or Gone
  cache,     \* Redis: a profile, or None
  pc,        \* pc[h]: what handler h awaits, or how it ended
  fetched,   \* fetched[r]: what reader r holds: nothing, a profile or Gone
  mishaps    \* history: what went wrong so far that can leave a stale copy

callVars == <<status, request>>
vars == <<status, request, record, cache, pc, fetched, mishaps>>

RC == INSTANCE RemoteCall WITH Calls <- Writers
Attempts == 0..MaxRetries

TypeOK ==
  /\ RC!TypeOK
  /\ record \in Profiles \cup {Gone}
  /\ cache \in Profiles \cup {None}
  /\ pc \in [Readers \cup Writers ->
               {"idle", "lookup", "fetch", "fill", "call", "flush", "done", "failed"}]
  /\ fetched \in [Readers -> Profiles \cup {None}]
  /\ mishaps \subseteq {"fillRace", "unanswered", "lateApply", "redisError"}

Init ==
  /\ RC!Init
  /\ record = Original
  /\ cache = None
  /\ pc = [h \in Readers \cup Writers |-> "idle"]
  /\ fetched = [r \in Readers |-> None]
  /\ mishaps = {}

Goto(h, where) == pc' = [pc EXCEPT ![h] = where]
Blame(what) == mishaps' = mishaps \cup {what}

-----------------------------------------------------------------------------
(* getUserById *)

Get(r) ==
  /\ pc[r] = "idle"
  /\ Goto(r, "lookup")
  /\ UNCHANGED <<callVars, record, cache, fetched, mishaps>>

\* A hit is the answer; a miss goes to the service.
Lookup(r) ==
  /\ pc[r] = "lookup"
  /\ IF cache = None
     THEN Goto(r, "fetch") /\ UNCHANGED fetched
     ELSE Goto(r, "done") /\ fetched' = [fetched EXCEPT ![r] = cache]
  /\ UNCHANGED <<callVars, record, cache, mishaps>>

\* Faulty forms stand before the definition they deform, here and below.
FetchUnchecked(r) ==
  /\ pc[r] = "fetch"
  /\ fetched' = [fetched EXCEPT ![r] = record]
  /\ Goto(r, "fill")
  /\ UNCHANGED <<callVars, record, cache, mishaps>>

\* The service reads the row for the attempt whose reply will be received.
Fetch(r) ==
  /\ pc[r] = "fetch"
  /\ record # Gone
  /\ fetched' = [fetched EXCEPT ![r] = record]
  /\ Goto(r, "fill")
  /\ UNCHANGED <<callVars, record, cache, mishaps>>

\* SETEX, or SET when the time to live is 0.
Fill(r) ==
  /\ pc[r] = "fill"
  /\ cache' = fetched[r]
  /\ IF fetched[r] = record THEN UNCHANGED mishaps ELSE Blame("fillRace")
  /\ pc' \in {[pc EXCEPT ![r] = "done"], [pc EXCEPT ![r] = "failed"]}
  /\ UNCHANGED <<callVars, record, fetched>>

\* Redis or the service fails: the request does, with a 500 or a 404.
ReadFails(r) ==
  /\ pc[r] \in {"lookup", "fetch", "fill"}
  /\ Goto(r, "failed")
  /\ UNCHANGED <<callVars, record, cache, fetched, mishaps>>

-----------------------------------------------------------------------------
(* updateUser and deleteUser *)

Write(w) ==
  /\ pc[w] = "idle"
  /\ Goto(w, "call")
  /\ UNCHANGED <<callVars, record, cache, fetched, mishaps>>

Attempt(w) ==
  /\ pc[w] = "call"
  /\ \E a \in Attempts : RC!Send(w, a)
  /\ UNCHANGED <<record, cache, pc, fetched, mishaps>>

Written(w) ==
  /\ pc[w] = "call"
  /\ \E a \in Attempts : RC!Succeed(w, a)
  /\ Goto(w, "flush")
  /\ UNCHANGED <<record, cache, fetched, mishaps>>

NotWritten(w) ==
  /\ pc[w] = "call"
  /\ RC!Fail(w) \/ \E a \in Attempts : RC!Refuse(w, a)
  /\ IF \E a \in Attempts : request[w][a] \in {"sent", "applied"}
     THEN Blame("unanswered")
     ELSE UNCHANGED mishaps
  /\ Goto(w, "failed")
  /\ UNCHANGED <<record, cache, fetched>>

FlushOtherKey(w) ==
  /\ pc[w] = "flush"
  /\ Goto(w, "done")
  /\ UNCHANGED <<callVars, record, cache, fetched, mishaps>>

FlushWritesThrough(w) ==
  /\ pc[w] = "flush"
  /\ cache' = IF w \in Updaters THEN w ELSE None
  /\ Goto(w, "done")
  /\ UNCHANGED <<callVars, record, fetched, mishaps>>

Flush(w) ==
  /\ pc[w] = "flush"
  /\ cache' = None
  /\ Goto(w, "done")
  /\ UNCHANGED <<callVars, record, fetched, mishaps>>

\* DEL fails, before or after its effect; the write is answered 500.
FlushFails(w) ==
  /\ pc[w] = "flush"
  /\ cache' \in {cache, None}
  /\ Blame("redisError")
  /\ Goto(w, "failed")
  /\ UNCHANGED <<callVars, record, fetched>>

-----------------------------------------------------------------------------
(* The user service and Redis. *)

\* What w does to the row.
Result(w) == IF w \in Updaters THEN w ELSE Gone

ServiceApply(w, a) ==
  /\ record # Gone
  /\ RC!Apply(w, a)
  /\ record' = Result(w)
  /\ IF status[w] = "pending" THEN UNCHANGED mishaps ELSE Blame("lateApply")
  /\ UNCHANGED <<cache, pc, fetched>>

ServiceDecline(w, a) ==
  /\ RC!Decline(w, a)
  /\ UNCHANGED <<record, cache, pc, fetched, mishaps>>

ExpireBranchesSwapped ==
  /\ CacheTtl = 0
  /\ cache # None
  /\ cache' = None
  /\ UNCHANGED <<callVars, record, pc, fetched, mishaps>>

\* The time to live ends.
Expire ==
  /\ CacheTtl > 0
  /\ cache # None
  /\ cache' = None
  /\ UNCHANGED <<callVars, record, pc, fetched, mishaps>>

-----------------------------------------------------------------------------
Read(r) == Get(r) \/ Lookup(r) \/ Fetch(r) \/ Fill(r) \/ ReadFails(r)

Mutate(w) ==
  \/ Write(w) \/ Attempt(w) \/ Written(w) \/ NotWritten(w)
  \/ Flush(w) \/ FlushFails(w)

Next ==
  \/ \E r \in Readers : Read(r)
  \/ \E w \in Writers : Mutate(w)
  \/ \E w \in Writers, a \in Attempts : ServiceApply(w, a) \/ ServiceDecline(w, a)
  \/ Expire

Spec == Init /\ [][Next]_vars

\* Redis drops entries that have a time to live; handlers run on.
Fairness ==
  /\ WF_vars(Expire)
  /\ \A r \in Readers : WF_vars(pc[r] # "idle" /\ Read(r))
  /\ \A w \in Writers : WF_vars(pc[w] # "idle" /\ Mutate(w))

FairSpec == Spec /\ Fairness

-----------------------------------------------------------------------------
(* Properties. *)

Stale == cache # None /\ cache # record

\* The only ways for the cached copy to disagree with the row once no write is
\* under way: a reader filled the cache with a value that a write overtook, a
\* write that was (or will be) applied was answered as failed, a repeated or
\* delayed attempt was applied after its write was answered, or DEL failed.
StaleHasReason ==
  Stale /\ (\A w \in Writers : pc[w] \notin {"call", "flush"}) => mishaps # {}

\* A stale copy does not last: it is flushed, refilled, or expires.
StaleIsTemporary == Stale ~> ~Stale

\* The profile of a deleted user is not served for ever: once the row is gone
\* the cache ends up without it, whatever fills were under way.
DeletedIsForgotten == (record = Gone) ~> [](cache = None)

\* Whatever overlaps, a copy is never made up or resurrected: it was taken from
\* the row or from a copy, and a read answers nothing else.
copies ==
  ({cache} \cup {fetched[r] : r \in {q \in Readers : pc[q] = "fill"}}) \ {None}

served == [r \in Readers |-> IF pc[r] = "done" THEN fetched[r] ELSE None]

Record == INSTANCE CachedRecord WITH row <- record, Updates <- Updaters

ImplementsCachedRecord == Record!Spec

=============================================================================
