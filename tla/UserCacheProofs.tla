--------------------------- MODULE UserCacheProofs ---------------------------
(* Theorems about UserCache, for any requests, any number of retries and any *)
(* time to live.                                                             *)
EXTENDS UserCache, TLAPS

USE DEF UserCacheAssumption, ProfileNames

Handlers == Readers \cup Writers

(***************************************************************************)
(* The writers' calls, pointwise.                                          *)
(***************************************************************************)
Marked(w, a, x) == request' = [request EXCEPT ![w][a] = x] /\ UNCHANGED status

Answered(w, x) == status' = [status EXCEPT ![w] = x] /\ UNCHANGED request

LEMMA CallNames ==
  /\ RC!Attempts = Attempts
  /\ RC!Answers = {"ok", "refused", "failed"}
BY DEF RC!Attempts, RC!Answers, Attempts

\* One request is marked, the others stay.
LEMMA SetRequest ==
  ASSUME RC!TypeOK, NEW w \in Writers, NEW a \in Attempts,
         NEW x \in {"sent", "applied", "declined"}, Marked(w, a, x)
  PROVE  /\ RC!TypeOK'
         /\ \A v \in Writers, b \in Attempts :
              request'[v][b] = IF v = w /\ b = a THEN x ELSE request[v][b]
BY CallNames DEF RC!TypeOK, Marked

\* One call is answered, the others stay.
LEMMA SetStatus ==
  ASSUME RC!TypeOK, NEW w \in Writers, NEW x \in {"ok", "refused", "failed"}, Answered(w, x)
  PROVE  /\ RC!TypeOK'
         /\ \A v \in Writers : status'[v] = IF v = w THEN x ELSE status[v]
BY CallNames DEF RC!TypeOK, Answered

\* One handler goes on, the others stay where they are.
LEMMA GotoEffect ==
  ASSUME TypeOK, NEW h \in Handlers,
         NEW x \in {"idle", "lookup", "fetch", "fill", "call", "flush", "done", "failed"},
         Goto(h, x)
  PROVE  /\ pc' \in [Handlers ->
                       {"idle", "lookup", "fetch", "fill", "call", "flush", "done", "failed"}]
         /\ \A g \in Handlers : pc'[g] = IF g = h THEN x ELSE pc[g]
BY DEF TypeOK, Goto, Handlers

\* No reader is a writer.
LEMMA Apart == \A r \in Readers, w \in Writers : r # w /\ r \in Handlers /\ w \in Handlers
BY UserCacheAssumption DEF Handlers

(***************************************************************************)
(* What each action does.                                                  *)
(***************************************************************************)
Moved(h, x) ==
  /\ TypeOK'
  /\ \A g \in Handlers : pc'[g] = IF g = h THEN x ELSE pc[g]

LEMMA GetEffect ==
  ASSUME TypeOK, NEW r \in Readers, Get(r)
  PROVE  /\ Moved(r, "lookup") /\ pc[r] = "idle"
         /\ UNCHANGED <<status, request, record, cache, fetched, mishaps>>
BY GotoEffect, Apart DEF Get, TypeOK, Moved, callVars, RC!TypeOK, Handlers

LEMMA LookupEffect ==
  ASSUME TypeOK, NEW r \in Readers, Lookup(r)
  PROVE  /\ pc[r] = "lookup"
         /\ UNCHANGED <<status, request, record, cache, mishaps>>
         /\ \/ Moved(r, "fetch") /\ UNCHANGED fetched
            \/ /\ Moved(r, "done") /\ cache # None
               /\ \A q \in Readers : fetched'[q] = IF q = r THEN cache ELSE fetched[q]
<1>1. CASE cache = None
  BY <1>1, GotoEffect, Apart DEF Lookup, TypeOK, Moved, callVars, RC!TypeOK, Handlers
<1>2. CASE cache # None
  BY <1>2, GotoEffect, Apart DEF Lookup, TypeOK, Moved, callVars, RC!TypeOK, Handlers
<1> QED BY <1>1, <1>2

LEMMA FetchEffect ==
  ASSUME TypeOK, NEW r \in Readers, Fetch(r)
  PROVE  /\ Moved(r, "fill") /\ pc[r] = "fetch" /\ record \in Profiles
         /\ \A q \in Readers : fetched'[q] = IF q = r THEN record ELSE fetched[q]
         /\ UNCHANGED <<status, request, record, cache, mishaps>>
<1>1. record \in Profiles
  BY DEF Fetch, TypeOK
<1> QED BY <1>1, GotoEffect, Apart DEF Fetch, TypeOK, Moved, callVars, RC!TypeOK, Handlers

LEMMA FillEffect ==
  ASSUME TypeOK, NEW r \in Readers, Fill(r)
  PROVE  /\ Moved(r, "done") \/ Moved(r, "failed")
         /\ pc[r] = "fill" /\ cache' = fetched[r]
         /\ fetched[r] # record => mishaps' # {}
         /\ UNCHANGED <<status, request, record, fetched>>
<1>1. mishaps' \subseteq {"fillRace", "unanswered", "lateApply", "redisError"}
  BY DEF Fill, Blame, TypeOK
<1>2. fetched[r] # record => mishaps' # {}
  BY DEF Fill, Blame
<1>3. cache' \in Profiles \cup {None}
  BY DEF Fill, TypeOK
<1>4. Goto(r, "done") \/ Goto(r, "failed")
  BY DEF Fill, Goto
<1> QED BY <1>1, <1>2, <1>3, <1>4, GotoEffect, Apart
        DEF Fill, TypeOK, Moved, callVars, RC!TypeOK, Handlers

LEMMA ReadFailsEffect ==
  ASSUME TypeOK, NEW r \in Readers, ReadFails(r)
  PROVE  /\ Moved(r, "failed") /\ pc[r] \in {"lookup", "fetch", "fill"}
         /\ UNCHANGED <<status, request, record, cache, fetched, mishaps>>
BY GotoEffect, Apart DEF ReadFails, TypeOK, Moved, callVars, RC!TypeOK, Handlers

LEMMA WriteEffect ==
  ASSUME TypeOK, NEW w \in Writers, Write(w)
  PROVE  /\ Moved(w, "call") /\ pc[w] = "idle"
         /\ UNCHANGED <<status, request, record, cache, fetched, mishaps>>
BY GotoEffect, Apart DEF Write, TypeOK, Moved, callVars, RC!TypeOK, Handlers

LEMMA AttemptEffect ==
  ASSUME TypeOK, NEW w \in Writers, Attempt(w)
  PROVE  /\ TypeOK' /\ pc[w] = "call"
         /\ \E a \in Attempts : \A v \in Writers, b \in Attempts :
              request'[v][b] = IF v = w /\ b = a THEN "sent" ELSE request[v][b]
         /\ \A b \in Attempts : request[w][b] = "applied" => request'[w][b] = "applied"
         /\ UNCHANGED <<status, record, cache, pc, fetched, mishaps>>
<1>1. PICK a \in Attempts : RC!Send(w, a)
  BY DEF Attempt
<1>2. Marked(w, a, "sent") /\ request[w][a] = "unsent"
  BY <1>1, CallNames DEF RC!Send, Marked, Attempts
<1>3. RC!TypeOK
  BY DEF TypeOK
<1>4. /\ RC!TypeOK'
      /\ \A v \in Writers, b \in Attempts :
           request'[v][b] = IF v = w /\ b = a THEN "sent" ELSE request[v][b]
  BY <1>2, <1>3, SetRequest
<1> QED BY <1>1, <1>2, <1>4 DEF Attempt, TypeOK, RC!Send

LEMMA WrittenEffect ==
  ASSUME TypeOK, NEW w \in Writers, Written(w)
  PROVE  /\ Moved(w, "flush") /\ pc[w] = "call"
         /\ \A v \in Writers : status'[v] = IF v = w THEN "ok" ELSE status[v]
         /\ UNCHANGED <<request, record, cache, fetched, mishaps>>
<1>1. Answered(w, "ok")
  BY DEF Written, RC!Succeed, Answered
<1>2. RC!TypeOK
  BY DEF TypeOK
<1>3. /\ RC!TypeOK'
      /\ \A v \in Writers : status'[v] = IF v = w THEN "ok" ELSE status[v]
  BY <1>1, <1>2, SetStatus
<1> QED BY <1>1, <1>3, GotoEffect, Apart DEF Written, TypeOK, Moved, Answered, Handlers

LEMMA NotWrittenEffect ==
  ASSUME TypeOK, NEW w \in Writers, NotWritten(w)
  PROVE  /\ Moved(w, "failed") /\ pc[w] = "call"
         /\ \E x \in {"refused", "failed"} :
              \A v \in Writers : status'[v] = IF v = w THEN x ELSE status[v]
         /\ (\E a \in Attempts : request[w][a] = "applied") => mishaps' # {}
         /\ mishaps \subseteq mishaps'
         /\ UNCHANGED <<request, record, cache, fetched>>
<1>1. Answered(w, "refused") \/ Answered(w, "failed")
  BY DEF NotWritten, RC!Fail, RC!Refuse, Answered
<1>2. RC!TypeOK
  BY DEF TypeOK
<1>3. /\ RC!TypeOK' /\ UNCHANGED request
      /\ \E x \in {"refused", "failed"} :
           \A v \in Writers : status'[v] = IF v = w THEN x ELSE status[v]
  <2>1. CASE Answered(w, "refused")
    <3>1. /\ RC!TypeOK'
          /\ \A v \in Writers : status'[v] = IF v = w THEN "refused" ELSE status[v]
      BY <1>2, <2>1, SetStatus
    <3> QED BY <2>1, <3>1 DEF Answered
  <2>2. CASE Answered(w, "failed")
    <3>1. /\ RC!TypeOK'
          /\ \A v \in Writers : status'[v] = IF v = w THEN "failed" ELSE status[v]
      BY <1>2, <2>2, SetStatus
    <3> QED BY <2>2, <3>1 DEF Answered
  <2> QED BY <1>1, <2>1, <2>2
<1>4. /\ mishaps' \subseteq {"fillRace", "unanswered", "lateApply", "redisError"}
      /\ mishaps \subseteq mishaps'
      /\ (\E a \in Attempts : request[w][a] = "applied") => mishaps' # {}
  BY DEF NotWritten, Blame, TypeOK
<1>5. Moved(w, "failed")
  BY <1>3, <1>4, GotoEffect, Apart DEF NotWritten, TypeOK, Moved, Handlers
<1> QED BY <1>3, <1>4, <1>5 DEF NotWritten

LEMMA FlushEffect ==
  ASSUME TypeOK, NEW w \in Writers, Flush(w)
  PROVE  /\ Moved(w, "done") /\ pc[w] = "flush" /\ cache' = None
         /\ UNCHANGED <<status, request, record, fetched, mishaps>>
BY GotoEffect, Apart DEF Flush, TypeOK, Moved, callVars, RC!TypeOK, Handlers

LEMMA FlushFailsEffect ==
  ASSUME TypeOK, NEW w \in Writers, FlushFails(w)
  PROVE  /\ Moved(w, "failed") /\ pc[w] = "flush" /\ cache' \in {cache, None} /\ mishaps' # {}
         /\ UNCHANGED <<status, request, record, fetched>>
<1>1. mishaps' \subseteq {"fillRace", "unanswered", "lateApply", "redisError"} /\ mishaps' # {}
  BY DEF FlushFails, Blame, TypeOK
<1> QED BY <1>1, GotoEffect, Apart DEF FlushFails, TypeOK, Moved, callVars, RC!TypeOK, Handlers

LEMMA ServiceApplyEffect ==
  ASSUME TypeOK, NEW w \in Writers, NEW a \in Attempts, ServiceApply(w, a)
  PROVE  /\ TypeOK' /\ record # Gone /\ record' \in Updaters \cup {Gone}
         /\ request[w][a] = "sent"
         /\ \A v \in Writers, b \in Attempts :
              request'[v][b] = IF v = w /\ b = a THEN "applied" ELSE request[v][b]
         /\ status[w] # "pending" => mishaps' # {}
         /\ UNCHANGED <<status, cache, pc, fetched>>
<1>1. Marked(w, a, "applied") /\ request[w][a] = "sent"
  BY DEF ServiceApply, RC!Apply, Marked
<1>2. RC!TypeOK
  BY DEF TypeOK
<1>3. /\ RC!TypeOK'
      /\ \A v \in Writers, b \in Attempts :
           request'[v][b] = IF v = w /\ b = a THEN "applied" ELSE request[v][b]
  BY <1>1, <1>2, SetRequest
<1>4. /\ mishaps' \subseteq {"fillRace", "unanswered", "lateApply", "redisError"}
      /\ status[w] # "pending" => mishaps' # {}
  BY DEF ServiceApply, Blame, TypeOK
<1>5. record' \in Updaters \cup {Gone}
  BY DEF ServiceApply, Result
<1> QED BY <1>1, <1>3, <1>4, <1>5 DEF ServiceApply, TypeOK, Profiles, Marked

LEMMA ServiceDeclineEffect ==
  ASSUME TypeOK, NEW w \in Writers, NEW a \in Attempts, ServiceDecline(w, a)
  PROVE  /\ TypeOK' /\ request[w][a] = "sent"
         /\ \A v \in Writers, b \in Attempts :
              request'[v][b] = IF v = w /\ b = a THEN "declined" ELSE request[v][b]
         /\ UNCHANGED <<status, record, cache, pc, fetched, mishaps>>
<1>1. Marked(w, a, "declined") /\ request[w][a] = "sent"
  BY DEF ServiceDecline, RC!Decline, Marked
<1>2. RC!TypeOK
  BY DEF TypeOK
<1>3. /\ RC!TypeOK'
      /\ \A v \in Writers, b \in Attempts :
           request'[v][b] = IF v = w /\ b = a THEN "declined" ELSE request[v][b]
  BY <1>1, <1>2, SetRequest
<1> QED BY <1>1, <1>3 DEF ServiceDecline, TypeOK, Marked

LEMMA ExpireEffect ==
  ASSUME TypeOK, Expire
  PROVE  /\ TypeOK' /\ cache' = None
         /\ UNCHANGED <<status, request, record, pc, fetched, mishaps>>
BY DEF Expire, TypeOK, callVars, RC!TypeOK

\* The steps by the state they change: TypeOK holds after each, and each is one
\* of the effects above.
LEMMA StepCases ==
  ASSUME TypeOK, [Next]_vars
  PROVE  \/ \E r \in Readers :
              Get(r) \/ Lookup(r) \/ Fetch(r) \/ Fill(r) \/ ReadFails(r)
         \/ \E w \in Writers :
              \/ Write(w) \/ Attempt(w) \/ Written(w) \/ NotWritten(w)
              \/ Flush(w) \/ FlushFails(w)
         \/ \E w \in Writers, a \in Attempts : ServiceApply(w, a) \/ ServiceDecline(w, a)
         \/ Expire
         \/ UNCHANGED vars
BY DEF Next, Read, Mutate

\* Every step keeps the types.
LEMMA TypeStep == TypeOK /\ [Next]_vars => TypeOK'
<1> SUFFICES ASSUME TypeOK, [Next]_vars PROVE TypeOK'
  OBVIOUS
<1>1. CASE UNCHANGED vars
  BY <1>1 DEF vars, callVars, TypeOK, RC!TypeOK
<1> QED
  BY <1>1, StepCases, GetEffect, LookupEffect, FetchEffect, FillEffect, ReadFailsEffect,
     WriteEffect, AttemptEffect, WrittenEffect, NotWrittenEffect, FlushEffect,
     FlushFailsEffect, ServiceApplyEffect, ServiceDeclineEffect, ExpireEffect
  DEF Moved

\* The types hold at first.
LEMMA TypeInit == Init => TypeOK
BY UserCacheAssumption DEF Init, TypeOK, RC!Init, RC!TypeOK, Profiles

\* The variables keep their types, whatever overlaps.
THEOREM TypeCorrect == Spec => []TypeOK
BY TypeInit, TypeStep, PTL DEF Spec

(***************************************************************************)
(* Why a copy is stale.  Until something goes wrong, a copy that differs   *)
(* from the row is one that a write has yet to flush: the row changes only *)
(* under a writer that awaits its call, and that writer flushes next.      *)
(***************************************************************************)
CallPlaced(w) ==
  /\ status[w] = "pending" => pc[w] \in {"idle", "call"}
  /\ pc[w] = "idle" => \A a \in Attempts : request[w][a] = "unsent"

ToBeFlushed(w) ==
  pc[w] \in {"call", "flush"} /\ \E a \in Attempts : request[w][a] = "applied"

StaleExplained ==
  /\ \A w \in Writers : CallPlaced(w)
  /\ mishaps = {} /\ Stale => \E w \in Writers : ToBeFlushed(w)

\* A step of a reader leaves the writers where they are.
LEMMA ReaderMoves ==
  ASSUME NEW r \in Readers, NEW x, Moved(r, x)
  PROVE  \A w \in Writers : pc'[w] = pc[w]
BY Apart DEF Moved

\* Every step leaves the calls where the writers' places say.
LEMMA CallPlacedStep ==
  TypeOK /\ (\A w \in Writers : CallPlaced(w)) /\ [Next]_vars => \A w \in Writers : CallPlaced(w)'
<1> SUFFICES ASSUME TypeOK, [Next]_vars, NEW v \in Writers, CallPlaced(v) PROVE CallPlaced(v)'
  OBVIOUS
<1> USE DEF CallPlaced
<1>1. ASSUME NEW r \in Readers,
             Get(r) \/ Lookup(r) \/ Fetch(r) \/ Fill(r) \/ ReadFails(r)
      PROVE  CallPlaced(v)'
  <2>1. pc'[v] = pc[v] /\ UNCHANGED <<status, request>>
    BY <1>1, ReaderMoves, GetEffect, LookupEffect, FetchEffect, FillEffect, ReadFailsEffect
  <2> QED BY <2>1
<1>2. ASSUME NEW w \in Writers, Write(w) PROVE CallPlaced(v)'
  BY <1>2, WriteEffect, Apart DEF Moved, Handlers
<1>3. ASSUME NEW w \in Writers, Attempt(w) PROVE CallPlaced(v)'
  BY <1>3, AttemptEffect
<1>4. ASSUME NEW w \in Writers, Written(w) PROVE CallPlaced(v)'
  BY <1>4, WrittenEffect, Apart DEF Moved, Handlers
<1>5. ASSUME NEW w \in Writers, NotWritten(w) PROVE CallPlaced(v)'
  BY <1>5, NotWrittenEffect, Apart DEF Moved, Handlers
<1>6. ASSUME NEW w \in Writers, Flush(w) \/ FlushFails(w) PROVE CallPlaced(v)'
  BY <1>6, FlushEffect, FlushFailsEffect, Apart DEF Moved, Handlers
<1>7. ASSUME NEW w \in Writers, NEW a \in Attempts, ServiceApply(w, a) \/ ServiceDecline(w, a)
      PROVE  CallPlaced(v)'
  BY <1>7, ServiceApplyEffect, ServiceDeclineEffect
<1>8. CASE Expire \/ UNCHANGED vars
  BY <1>8, ExpireEffect DEF vars, callVars
<1> QED BY <1>1, <1>2, <1>3, <1>4, <1>5, <1>6, <1>7, <1>8, StepCases

\* A step that keeps cache and row keeps the reason, if the writers to flush stay.
LEMMA ReasonStays ==
  ASSUME StaleExplained, UNCHANGED <<record, cache>>, mishaps \subseteq mishaps',
         mishaps' = {} => \A w \in Writers : ToBeFlushed(w) => ToBeFlushed(w)'
  PROVE  mishaps' = {} /\ Stale' => \E w \in Writers : ToBeFlushed(w)'
BY DEF StaleExplained, Stale

\* Every step that makes the copy stale has a writer that will flush it, or goes
\* on record as a mishap.
LEMMA StaleStep ==
  ASSUME TypeOK, StaleExplained, [Next]_vars
  PROVE  mishaps' = {} /\ Stale' => \E w \in Writers : ToBeFlushed(w)'
<1> DEFINE Goal == mishaps' = {} /\ Stale' => \E w \in Writers : ToBeFlushed(w)'
<1> SUFFICES Goal
  OBVIOUS
<1>1. ASSUME NEW r \in Readers, Get(r) \/ Lookup(r) \/ Fetch(r) \/ ReadFails(r) PROVE Goal
  <2>1. UNCHANGED <<record, cache, mishaps, request>> /\ \A w \in Writers : pc'[w] = pc[w]
    BY <1>1, ReaderMoves, GetEffect, LookupEffect, FetchEffect, ReadFailsEffect
  <2> QED BY <2>1, ReasonStays DEF ToBeFlushed
<1>2. ASSUME NEW r \in Readers, Fill(r) PROVE Goal
  BY <1>2, FillEffect DEF Stale
<1>3. ASSUME NEW w \in Writers, Write(w) PROVE Goal
  <2>1. UNCHANGED <<record, cache, mishaps, request>>
    BY <1>3, WriteEffect
  <2>2. \A v \in Writers : pc'[v] = IF v = w THEN "call" ELSE pc[v]
    BY <1>3, WriteEffect, Apart DEF Moved, Handlers
  <2> QED BY <2>1, <2>2, ReasonStays DEF ToBeFlushed
<1>4. ASSUME NEW w \in Writers, Attempt(w) PROVE Goal
  <2>1. UNCHANGED <<record, cache, mishaps, pc>>
    BY <1>4, AttemptEffect
  <2>2. \A v \in Writers, b \in Attempts : request[v][b] = "applied" => request'[v][b] = "applied"
    BY <1>4, AttemptEffect
  <2> QED BY <2>1, <2>2, ReasonStays DEF ToBeFlushed
<1>5. ASSUME NEW w \in Writers, Written(w) PROVE Goal
  <2>1. UNCHANGED <<record, cache, mishaps, request>>
    BY <1>5, WrittenEffect
  <2>2. \A v \in Writers : pc'[v] = IF v = w THEN "flush" ELSE pc[v]
    BY <1>5, WrittenEffect, Apart DEF Moved, Handlers
  <2> QED BY <2>1, <2>2, ReasonStays DEF ToBeFlushed
<1>6. ASSUME NEW w \in Writers, NotWritten(w) PROVE Goal
  <2>1. UNCHANGED <<record, cache, request>> /\ mishaps \subseteq mishaps'
    BY <1>6, NotWrittenEffect
  <2>2. \A v \in Writers : v # w => pc'[v] = pc[v]
    BY <1>6, NotWrittenEffect, Apart DEF Moved, Handlers
  <2>3. mishaps' = {} => ~ToBeFlushed(w)
    BY <1>6, NotWrittenEffect DEF ToBeFlushed
  <2> QED BY <2>1, <2>2, <2>3, ReasonStays DEF ToBeFlushed
<1>7. ASSUME NEW w \in Writers, Flush(w) \/ FlushFails(w) PROVE Goal
  BY <1>7, FlushEffect, FlushFailsEffect DEF Stale
<1>8. ASSUME NEW w \in Writers, NEW a \in Attempts, ServiceApply(w, a) PROVE Goal
  <2> SUFFICES ASSUME mishaps' = {} PROVE ToBeFlushed(w)'
    OBVIOUS
  <2>1. status[w] = "pending" /\ request[w][a] = "sent"
    BY <1>8, ServiceApplyEffect
  <2>2. pc[w] = "call"
    BY <2>1 DEF StaleExplained, CallPlaced
  <2>3. pc' = pc /\ request'[w][a] = "applied"
    BY <1>8, ServiceApplyEffect
  <2> QED BY <2>2, <2>3 DEF ToBeFlushed
<1>9. ASSUME NEW w \in Writers, NEW a \in Attempts, ServiceDecline(w, a) PROVE Goal
  <2>1. UNCHANGED <<record, cache, mishaps, pc>>
    BY <1>9, ServiceDeclineEffect
  <2>2. \A v \in Writers, b \in Attempts : request[v][b] = "applied" => request'[v][b] = "applied"
    BY <1>9, ServiceDeclineEffect
  <2> QED BY <2>1, <2>2, ReasonStays DEF ToBeFlushed
<1>10. CASE Expire
  BY <1>10, ExpireEffect DEF Stale
<1>11. CASE UNCHANGED vars
  <2>1. UNCHANGED <<record, cache, mishaps, pc, request>>
    BY <1>11 DEF vars, callVars
  <2> QED BY <2>1, ReasonStays DEF ToBeFlushed
<1> HIDE DEF Goal
<1> QED
  BY <1>1, <1>2, <1>3, <1>4, <1>5, <1>6, <1>7, <1>8, <1>9, <1>10, <1>11, StepCases

\* At first there is no copy.
LEMMA StaleInit == Init => StaleExplained
BY CallNames DEF Init, RC!Init, StaleExplained, CallPlaced, Stale

\* Once no write is under way, a stale copy has one of the four reasons: the
\* gateway's invalidation is complete but for them.
THEOREM StaleCopies == Spec => []StaleHasReason
<1>1. StaleExplained => StaleHasReason
  BY DEF StaleExplained, StaleHasReason, ToBeFlushed
<1>2. TypeOK /\ StaleExplained /\ [Next]_vars => StaleExplained'
  BY CallPlacedStep, StaleStep DEF StaleExplained
<1> QED BY <1>1, <1>2, StaleInit, TypeInit, TypeStep, PTL DEF Spec

(***************************************************************************)
(* UserCache implements CachedRecord.                                      *)
(***************************************************************************)

\* A reader that fills the cache has a profile to put there.
Holding == \A r \in Readers : pc[r] = "fill" => fetched[r] # None

\* The reader's next places, and what they hold, keep it so.
LEMMA HoldingStep == TypeOK /\ Holding /\ [Next]_vars => Holding'
<1> SUFFICES ASSUME TypeOK, Holding, [Next]_vars, NEW q \in Readers, pc'[q] = "fill"
             PROVE  fetched'[q] # None
  BY DEF Holding
<1> USE DEF Holding
<1>1. ASSUME NEW r \in Readers, Get(r) \/ Fill(r) \/ ReadFails(r) PROVE fetched'[q] # None
  BY <1>1, GetEffect, FillEffect, ReadFailsEffect, Apart DEF Moved, Handlers
<1>2. ASSUME NEW r \in Readers, Lookup(r) PROVE fetched'[q] # None
  BY <1>2, LookupEffect, Apart DEF Moved, Handlers
<1>3. ASSUME NEW r \in Readers, Fetch(r) PROVE fetched'[q] # None
  <2>1. record # None
    BY <1>3, FetchEffect, ProfileNames DEF Profiles, Original, None
  <2> QED BY <1>3, <2>1, FetchEffect, Apart DEF Moved, Handlers
<1>4. ASSUME NEW w \in Writers,
             \/ Write(w) \/ Attempt(w) \/ Written(w) \/ NotWritten(w)
             \/ Flush(w) \/ FlushFails(w)
      PROVE  fetched'[q] # None
  BY <1>4, WriteEffect, AttemptEffect, WrittenEffect, NotWrittenEffect, FlushEffect,
     FlushFailsEffect, Apart DEF Moved, Handlers
<1>5. ASSUME NEW w \in Writers, NEW a \in Attempts, ServiceApply(w, a) \/ ServiceDecline(w, a)
      PROVE  fetched'[q] # None
  BY <1>5, ServiceApplyEffect, ServiceDeclineEffect
<1>6. CASE Expire \/ UNCHANGED vars
  BY <1>6, ExpireEffect DEF vars
<1> QED BY <1>1, <1>2, <1>3, <1>4, <1>5, <1>6, StepCases

\* Copies are profiles, and so can be served.
LEMMA CopiesAreProfiles ==
  ASSUME TypeOK
  PROVE  /\ copies \subseteq Profiles /\ copies \subseteq Record!Available
         /\ \A v : v \in copies <=>
              v # None /\ (v = cache \/ \E r \in Readers : pc[r] = "fill" /\ v = fetched[r])
         /\ record # Gone => record \in Record!Available
<1>1. copies \subseteq Profiles /\ Gone \notin Profiles
  BY ProfileNames DEF copies, TypeOK, Profiles, Original, Gone, None
<1>2. \A v : v \in copies <=>
        v # None /\ (v = cache \/ \E r \in Readers : pc[r] = "fill" /\ v = fetched[r])
  BY DEF copies
<1>3. copies \subseteq Record!Available /\ (record # Gone => record \in Record!Available)
  BY <1>1 DEF Record!Available
<1> QED BY <1>1, <1>2, <1>3

\* What a reader's move does to the answers.
LEMMA ServedEffect ==
  ASSUME NEW r \in Readers, NEW x, Moved(r, x),
         \A q \in Readers : q # r => fetched'[q] = fetched[q]
  PROVE  /\ x # "done" /\ pc[r] # "done" => served' = served
         /\ x = "done" => served' = [served EXCEPT ![r] = fetched'[r]]
<1>1. pc'[r] = x /\ \A q \in Readers : q # r => pc'[q] = pc[q]
  BY Apart DEF Moved, Handlers
<1> QED BY <1>1 DEF served

\* ... and that of a writer does nothing to answers or copies.
LEMMA WriterUnseen ==
  ASSUME UNCHANGED fetched, \A r \in Readers : pc'[r] = pc[r]
  PROVE  /\ served' = served
         /\ cache' = cache => copies' = copies
BY DEF served, copies

LEMMA WriterMoves ==
  ASSUME NEW w \in Writers, NEW x, Moved(w, x)
  PROVE  \A r \in Readers : pc'[r] = pc[r]
BY Apart DEF Moved

\* Copies only dropped are copies of those there were.
LEMMA CopiesDropped ==
  ASSUME TypeOK, UNCHANGED fetched, cache' \in copies \cup {cache, None},
         \A r \in Readers : pc'[r] = "fill" => pc[r] = "fill"
  PROVE  copies' \in SUBSET Record!Available
<1>1. \A v : v \in copies' => v \in copies
  <2> SUFFICES ASSUME NEW v, v \in copies' PROVE v \in copies
    OBVIOUS
  <2>1. v # None /\ (v = cache' \/ \E r \in Readers : pc'[r] = "fill" /\ v = fetched'[r])
    BY DEF copies
  <2>2. CASE v = cache'
    BY <2>1, <2>2, CopiesAreProfiles
  <2>3. CASE \E r \in Readers : pc'[r] = "fill" /\ v = fetched'[r]
    BY <2>1, <2>3, CopiesAreProfiles
  <2> QED BY <2>1, <2>2, <2>3
<1> QED BY <1>1, CopiesAreProfiles

RecordStepped == Record!Next \/ UNCHANGED <<record, copies, served>>

\* A reader's steps copy, serve or drop.
LEMMA ReaderRecordStep ==
  ASSUME TypeOK, Holding, NEW r \in Readers,
         Get(r) \/ Lookup(r) \/ Fetch(r) \/ Fill(r) \/ ReadFails(r)
  PROVE  RecordStepped
<1>1. CASE Get(r)
  <2>1. UNCHANGED <<record, cache, fetched>> /\ Moved(r, "lookup") /\ pc[r] = "idle"
    BY <1>1, GetEffect
  <2>2. \A q \in Readers : pc'[q] = "fill" <=> pc[q] = "fill"
    BY <2>1, Apart DEF Moved, Handlers
  <2>3. copies' = copies
    BY <2>1, <2>2 DEF copies
  <2> QED BY <2>1, <2>3, ServedEffect DEF RecordStepped
<1>2. CASE Lookup(r)
  <2>1. UNCHANGED <<record, cache>> /\ pc[r] = "lookup"
    BY <1>2, LookupEffect
  <2>2. CASE Moved(r, "fetch") /\ UNCHANGED fetched
    <3>1. \A q \in Readers : pc'[q] = "fill" <=> pc[q] = "fill"
      BY <2>1, <2>2, Apart DEF Moved, Handlers
    <3>2. copies' = copies
      BY <2>1, <2>2, <3>1 DEF copies
    <3> QED BY <2>1, <2>2, <3>2, ServedEffect DEF RecordStepped
  <2>3. CASE /\ Moved(r, "done") /\ cache # None
             /\ \A q \in Readers : fetched'[q] = IF q = r THEN cache ELSE fetched[q]
    <3>1. served' = [served EXCEPT ![r] = cache] /\ served[r] = None
      BY <2>1, <2>3, ServedEffect DEF served
    <3>2. \A q \in Readers :
            /\ pc'[q] = "fill" <=> pc[q] = "fill"
            /\ pc[q] = "fill" => fetched'[q] = fetched[q]
      BY <2>1, <2>3, Apart DEF Moved, Handlers
    <3>3. copies' = copies
      BY <2>1, <3>2 DEF copies
    <3>4. cache \in Record!Available /\ copies' \in SUBSET Record!Available
      BY <2>3, <3>3, CopiesAreProfiles
    <3>5. Record!Serve(r)
      BY <2>1, <3>1, <3>4 DEF Record!Serve
    <3> QED BY <3>5 DEF Record!Next, RecordStepped
  <2> QED BY <1>2, <2>2, <2>3, LookupEffect
<1>3. CASE Fetch(r)
  <2>1. /\ Moved(r, "fill") /\ pc[r] = "fetch" /\ record \in Profiles
        /\ \A q \in Readers : fetched'[q] = IF q = r THEN record ELSE fetched[q]
        /\ UNCHANGED <<record, cache>>
    BY <1>3, FetchEffect
  <2>2. served' = served
    BY <2>1, ServedEffect
  <2>3. \A q \in Readers : q # r => pc'[q] = pc[q]
    BY <2>1, Apart DEF Moved, Handlers
  <2>4. record # Gone
    BY <1>3 DEF Fetch
  <2>5. \A v \in copies' : v \in copies \/ v = record
    <3> SUFFICES ASSUME NEW v \in copies' PROVE v \in copies \/ v = record
      OBVIOUS
    <3>1. v # None /\ (v = cache' \/ \E q \in Readers : pc'[q] = "fill" /\ v = fetched'[q])
      BY DEF copies
    <3> QED BY <2>1, <2>3, <3>1, CopiesAreProfiles
  <2>6. copies' \in SUBSET Record!Available
    BY <2>4, <2>5, CopiesAreProfiles
  <2>7. Record!CopyOrDrop
    BY <2>1, <2>2, <2>6 DEF Record!CopyOrDrop
  <2> QED BY <2>7 DEF Record!Next, RecordStepped
<1>4. CASE Fill(r)
  <2>1. /\ pc[r] = "fill" /\ cache' = fetched[r] /\ UNCHANGED <<record, fetched>>
        /\ Moved(r, "done") \/ Moved(r, "failed")
    BY <1>4, FillEffect
  <2>2. cache' \in copies
    BY <2>1, CopiesAreProfiles DEF Holding
  <2>3. \A q \in Readers : pc'[q] = "fill" => pc[q] = "fill"
    BY <2>1, Apart DEF Moved, Handlers
  <2>4. copies' \in SUBSET Record!Available
    BY <2>1, <2>2, <2>3, CopiesDropped
  <2>5. CASE Moved(r, "done")
    <3>1. served' = [served EXCEPT ![r] = fetched[r]] /\ served[r] = None
      BY <2>1, <2>5, ServedEffect DEF served
    <3>2. fetched[r] \in Record!Available
      BY <2>1, <2>2, CopiesAreProfiles
    <3>3. Record!Serve(r)
      BY <2>1, <2>4, <3>1, <3>2 DEF Record!Serve
    <3> QED BY <3>3 DEF Record!Next, RecordStepped
  <2>6. CASE Moved(r, "failed")
    <3>1. served' = served
      BY <2>1, <2>6, ServedEffect
    <3>2. Record!CopyOrDrop
      BY <2>1, <2>4, <3>1 DEF Record!CopyOrDrop
    <3> QED BY <3>2 DEF Record!Next, RecordStepped
  <2> QED BY <2>1, <2>5, <2>6
<1>5. CASE ReadFails(r)
  <2>1. /\ Moved(r, "failed") /\ pc[r] \in {"lookup", "fetch", "fill"}
        /\ UNCHANGED <<record, cache, fetched>>
    BY <1>5, ReadFailsEffect
  <2>2. \A q \in Readers : pc'[q] = "fill" => pc[q] = "fill"
    BY <2>1, Apart DEF Moved, Handlers
  <2>3. copies' \in SUBSET Record!Available
    BY <2>1, <2>2, CopiesDropped
  <2>4. served' = served
    BY <2>1, ServedEffect
  <2>5. Record!CopyOrDrop
    BY <2>1, <2>3, <2>4 DEF Record!CopyOrDrop
  <2> QED BY <2>5 DEF Record!Next, RecordStepped
<1> QED BY <1>1, <1>2, <1>3, <1>4, <1>5

\* A writer's steps, the service's and Redis's write, drop, or are not seen.
LEMMA OtherRecordStep ==
  ASSUME TypeOK,
         \/ \E w \in Writers :
              \/ Write(w) \/ Attempt(w) \/ Written(w) \/ NotWritten(w)
              \/ Flush(w) \/ FlushFails(w)
         \/ \E w \in Writers, a \in Attempts : ServiceApply(w, a) \/ ServiceDecline(w, a)
         \/ Expire
  PROVE  RecordStepped
<1>1. ASSUME NEW w \in Writers, Write(w) \/ Attempt(w) \/ Written(w) \/ NotWritten(w)
      PROVE  RecordStepped
  <2>1. UNCHANGED <<record, cache, fetched>> /\ \A r \in Readers : pc'[r] = pc[r]
    BY <1>1, WriteEffect, AttemptEffect, WrittenEffect, NotWrittenEffect, WriterMoves
  <2> QED BY <2>1, WriterUnseen DEF RecordStepped
<1>2. ASSUME UNCHANGED <<record, fetched>>, cache' \in {cache, None},
             \A r \in Readers : pc'[r] = pc[r]
      PROVE  RecordStepped
  <2>1. served' = served /\ copies' \in SUBSET Record!Available
    BY <1>2, WriterUnseen, CopiesDropped
  <2>2. Record!CopyOrDrop
    BY <1>2, <2>1 DEF Record!CopyOrDrop
  <2> QED BY <2>2 DEF Record!Next, RecordStepped
<1>3. ASSUME NEW w \in Writers, Flush(w) \/ FlushFails(w) PROVE RecordStepped
  BY <1>2, <1>3, FlushEffect, FlushFailsEffect, WriterMoves
<1>4. ASSUME NEW w \in Writers, NEW a \in Attempts, ServiceApply(w, a) PROVE RecordStepped
  <2>1. /\ record # Gone /\ record' \in Updaters \cup {Gone}
        /\ UNCHANGED <<cache, pc, fetched>>
    BY <1>4, ServiceApplyEffect
  <2>2. UNCHANGED <<copies, served>>
    BY <2>1, WriterUnseen
  <2>3. Record!Write
    BY <2>1, <2>2 DEF Record!Write
  <2> QED BY <2>3 DEF Record!Next, RecordStepped
<1>5. ASSUME NEW w \in Writers, NEW a \in Attempts, ServiceDecline(w, a) PROVE RecordStepped
  BY <1>2, <1>5, ServiceDeclineEffect
<1>6. CASE Expire
  BY <1>2, <1>6, ExpireEffect
<1> QED BY <1>1, <1>3, <1>4, <1>5, <1>6

\* Every step of the handlers, the service or Redis is one the record allows.
LEMMA RecordStep == TypeOK /\ Holding /\ [Next]_vars => [Record!Next]_<<record, copies, served>>
<1> SUFFICES ASSUME TypeOK, Holding, [Next]_vars PROVE RecordStepped
  BY DEF RecordStepped
<1>1. CASE UNCHANGED vars
  BY <1>1 DEF vars, copies, served, RecordStepped
<1> QED BY <1>1, StepCases, ReaderRecordStep, OtherRecordStep

\* At first there are no copies and no answers.
LEMMA RecordInit == Init => Record!Init /\ Holding
<1> SUFFICES ASSUME Init PROVE Record!Init /\ Holding
  OBVIOUS
<1>1. \A r \in Readers : pc[r] = "idle"
  BY DEF Init
<1>2. copies = {} /\ served = [r \in Readers |-> None]
  BY <1>1 DEF Init, copies, served
<1> QED BY <1>1, <1>2 DEF Init, Record!Init, Holding

\* With Redis, handlers and calls out of sight, every copy comes from the row or
\* from a copy, and every answer is one of them: nothing is made up, and nothing
\* that row and copies have lost comes back.
THEOREM Implementation == Spec => ImplementsCachedRecord
BY TypeInit, TypeStep, HoldingStep, RecordInit, RecordStep, PTL
   DEF Spec, ImplementsCachedRecord, Record!Spec

\* The writers make their calls as RemoteCall lets them: they send, and take an
\* answer, only while one is awaited, and the service does the rest.  So what
\* HttpClientProofs shows of the clients is enough for what is proved here.
THEOREM UsesRemoteCall == Spec => RC!Spec
<1>1. Init => RC!Init
  BY DEF Init
<1>2. ASSUME [Next]_vars PROVE [RC!Next]_(RC!rcVars)
  <2>1. ASSUME UNCHANGED callVars PROVE UNCHANGED RC!rcVars
    BY <2>1 DEF callVars, RC!rcVars
  <2>2. ASSUME NEW w \in Writers, Attempt(w) \/ Written(w) \/ NotWritten(w) PROVE RC!Next
    BY <2>2, CallNames DEF Attempt, Written, NotWritten, RC!Next
  <2>3. ASSUME NEW w \in Writers, NEW a \in Attempts, ServiceApply(w, a) \/ ServiceDecline(w, a)
        PROVE  RC!Next
    BY <2>3, CallNames DEF ServiceApply, ServiceDecline, RC!Next
  <2>4. ASSUME NEW w \in Writers, Write(w) \/ Flush(w) \/ FlushFails(w) PROVE UNCHANGED RC!rcVars
    BY <2>1, <2>4 DEF Write, Flush, FlushFails
  <2>5. ASSUME NEW r \in Readers, Read(r) PROVE UNCHANGED RC!rcVars
    BY <2>1, <2>5 DEF Read, Get, Lookup, Fetch, Fill, ReadFails
  <2>6. CASE Expire
    BY <2>1, <2>6 DEF Expire
  <2>7. CASE UNCHANGED vars
    BY <2>1, <2>7 DEF vars, callVars
  <2> QED BY <1>2, <2>2, <2>3, <2>4, <2>5, <2>6, <2>7 DEF Next, Mutate
<1> QED BY <1>1, <1>2, PTL DEF Spec, RC!Spec

(***************************************************************************)
(* A deleted profile: what DeletedIsForgotten rests on, next to the time   *)
(* to live and handlers that run on.                                       *)
(***************************************************************************)

\* The row and the copy are gone, and nobody is about to put one back.
Forgotten == record = Gone /\ cache = None /\ \A r \in Readers : pc[r] # "fill"

StaysForgotten ==
  Forgotten => Forgotten' /\ \A r \in Readers : pc[r] # "done" => pc'[r] # "done"

\* Once a deleted profile is out of the cache and no fill is under way, it is out
\* for good, and no read is answered with it: whatever late attempts, updates and
\* further deletions come, the service has nothing to give, and a cache that is only
\* filled from the service gets nothing.
THEOREM StaysGone == Spec => [][StaysForgotten]_vars
<1>1. TypeOK /\ [Next]_vars => [StaysForgotten]_vars
  <2> SUFFICES ASSUME TypeOK, Next, Forgotten
               PROVE  /\ Forgotten'
                      /\ \A r \in Readers : pc[r] # "done" => pc'[r] # "done"
    BY DEF StaysForgotten
  <2> USE DEF Forgotten
  <2>1. ASSUME NEW h \in Readers \cup Writers, NEW where, where # "fill",
               h \in Readers => where # "done", Goto(h, where)
        PROVE  /\ \A r \in Readers : pc'[r] # "fill"
               /\ \A r \in Readers : pc[r] # "done" => pc'[r] # "done"
    BY <2>1 DEF TypeOK, Goto
  <2>2. ASSUME NEW r \in Readers, Read(r)
        PROVE  Forgotten' /\ \A q \in Readers : pc[q] # "done" => pc'[q] # "done"
    <3>1. CASE Get(r)
      BY <2>1, <3>1 DEF Get
    <3>2. CASE Lookup(r)
      BY <2>1, <3>2 DEF Lookup
    <3>3. CASE ReadFails(r)
      BY <2>1, <3>3 DEF ReadFails
    <3> QED BY <2>2, <3>1, <3>2, <3>3 DEF Read, Fetch, Fill
  <2>3. ASSUME NEW w \in Writers, Mutate(w)
        PROVE  Forgotten' /\ \A q \in Readers : pc[q] # "done" => pc'[q] # "done"
    <3>0. w \notin Readers
      BY UserCacheAssumption
    <3>1. CASE Write(w)
      BY <2>1, <3>0, <3>1 DEF Write
    <3>2. CASE Attempt(w)
      BY <3>2 DEF Attempt
    <3>3. CASE Written(w) \/ NotWritten(w)
      BY <2>1, <3>0, <3>3 DEF Written, NotWritten
    <3>4. CASE Flush(w) \/ FlushFails(w)
      BY <2>1, <3>0, <3>4 DEF Flush, FlushFails
    <3> QED BY <2>3, <3>1, <3>2, <3>3, <3>4 DEF Mutate
  <2>4. ASSUME NEW w \in Writers, NEW a \in Attempts, ServiceApply(w, a) \/ ServiceDecline(w, a)
        PROVE  Forgotten' /\ \A q \in Readers : pc[q] # "done" => pc'[q] # "done"
    BY <2>4 DEF ServiceApply, ServiceDecline
  <2>5. ~Expire
    BY DEF Expire
  <2> QED BY <2>2, <2>3, <2>4, <2>5 DEF Next
<1> QED BY <1>1, TypeInit, TypeStep, PTL DEF Spec
=============================================================================
