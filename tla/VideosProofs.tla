----------------------------- MODULE VideosProofs -----------------------------
(* Theorems about Videos, for any requests, any number of retries, and any   *)
(* timeouts and settings of the breaker.                                     *)
EXTENDS Videos, TLAPS

USE DEF VideosAssumption

(***************************************************************************)
(* The inductive invariant.                                                *)
(***************************************************************************)

Answers == Client!Answers

Typed ==
  /\ pc \in [Calls -> {"idle", "inflight", "backoff"} \cup Answers]
  /\ attempt \in [Calls -> Attempts]
  /\ request \in [Calls -> [Attempts -> Client!RequestStates]]
  /\ reply \in [Calls -> {"none", "data", "empty", "notFound", "timeout"}]

\* The retry loop and the wire: nothing was sent for an attempt yet to come, and
\* a call in flight has sent the attempt it waits for.
Sent(c) ==
  /\ \A a \in Attempts :
       request[c][a] # "unsent" =>
         \/ a < attempt[c]
         \/ a = attempt[c] /\ pc[c] \in {"inflight"} \cup Answers
  /\ pc[c] = "inflight" => request[c][attempt[c]] # "unsent"

\* An attempt that reached the wire and came to nothing.
FailedOn(d, a) == request[d][a] # "unsent" /\ (a < attempt[d] \/ pc[d] = "failed")

SomeFailed == \E d \in Calls, a \in Attempts : FailedOn(d, a)

Reached(c) == \E a \in Attempts : request[c][a] # "unsent"

\* The answer and the call: only the interceptor answers before the call ends, and
\* it does when the attempts made, the current one included, may have lasted long
\* enough.  A fallback without an attempt has the failure of somebody's.
Replied(c) ==
  /\ pc[c] = "idle" => reply[c] = "none"
  /\ reply[c] \in {"data", "empty", "notFound"} => pc[c] \in Answers
  /\ reply[c] = "timeout" /\ pc[c] \in {"inflight", "backoff"} => MayHaveElapsed(c)
  /\ DataWasServed(c)
  /\ reply[c] \in {"empty", "notFound"} => Reached(c) \/ SomeFailed

\* The breaker leaves the closed state for a failure only.
BreakerHasReason == breaker # "closed" => SomeFailed

AllInOrder == \A c \in Calls : Sent(c) /\ Replied(c)

IInv == Typed /\ BreakerHasReason /\ AllInOrder

(***************************************************************************)
(* Facts about the parts of a step.                                        *)
(***************************************************************************)

LEMMA Numbers ==
  /\ MaxRetries \in Nat
  /\ Client!Attempts = Attempts
  /\ \A a \in Attempts : a \in Nat
BY VideosAssumption DEF Client!HttpClientAssumption, Client!Attempts, Attempts

\* More attempts take no less time.
LEMMA ElapsedGrows ==
  ASSUME NEW n \in Nat, n * CallTimeout >= RequestTimeout
  PROVE  (n + 1) * CallTimeout >= RequestTimeout
<1>1. CallTimeout \in Nat /\ RequestTimeout \in Nat
  BY VideosAssumption
<1> QED BY <1>1

\* A failed attempt answers the call, or takes it one attempt further.
LEMMA FailEffect ==
  ASSUME Typed, NEW c \in Calls, Client!AttemptFailed(c)
  PROVE  /\ pc' \in [Calls -> {"idle", "inflight", "backoff"} \cup Answers]
         /\ attempt' \in [Calls -> Attempts]
         /\ \A d \in Calls : d # c => pc'[d] = pc[d] /\ attempt'[d] = attempt[d]
         /\ \/ pc'[c] = "failed" /\ attempt'[c] = attempt[c]
            \/ pc'[c] = "backoff" /\ attempt'[c] = attempt[c] + 1
<1>1. attempt[c] \in 0..MaxRetries /\ MaxRetries \in Nat
  BY Numbers DEF Typed, Attempts
<1>2. CASE attempt[c] = MaxRetries
  BY <1>2 DEF Typed, Client!AttemptFailed, Answers, Client!Answers
<1>3. CASE attempt[c] # MaxRetries
  <2>1. attempt[c] + 1 \in Attempts
    BY <1>1, <1>3 DEF Attempts
  <2> QED BY <1>3, <2>1 DEF Typed, Client!AttemptFailed
<1> QED BY <1>2, <1>3

\* What the operation answers, if its call has just been answered and nobody has
\* answered before it.
LEMMA ContinueEffect ==
  ASSUME Typed, NEW c \in Calls, Continue(c)
  PROVE  /\ reply' \in [Calls -> {"none", "data", "empty", "notFound", "timeout"}]
         /\ \A d \in Calls : d # c => reply'[d] = reply[d]
         /\ \/ reply'[c] = reply[c]
            \/ /\ pc'[c] \in Answers
               /\ reply'[c] \in {"data", "empty", "notFound"}
               /\ reply'[c] = "data" => pc'[c] = "ok"
<1>1. CASE pc'[c] \in Answers /\ reply[c] = "none"
  <2>1. PICK r \in Outcomes(c, pc'[c]) : reply' = [reply EXCEPT ![c] = r]
    BY <1>1 DEF Continue, Answers
  <2>2. r \in {"data", "empty", "notFound"} /\ (r = "data" => pc'[c] = "ok")
    BY <2>1 DEF Outcomes, Fallback
  <2> QED BY <1>1, <2>1, <2>2 DEF Typed
<1>2. CASE ~(pc'[c] \in Answers /\ reply[c] = "none")
  BY <1>2 DEF Continue, Answers, Typed
<1> QED BY <1>1, <1>2

\* A failure leads the breaker to "open" or nowhere.
LEMMA BreakerEffect ==
  /\ Client!BreakerFailure => breaker' \in {breaker, "open"}
  /\ Client!BreakerSuccess => breaker' \in {breaker, "closed"}
BY DEF Client!BreakerFailure, Client!BreakerSuccess

(***************************************************************************)
(* A step of one call, for itself and for the others.                      *)
(***************************************************************************)

Same(d) ==
  /\ pc'[d] = pc[d] /\ attempt'[d] = attempt[d] /\ reply'[d] = reply[d]
  /\ \A a \in Attempts : request'[d][a] = request[d][a]

LEMMA SameKeeps ==
  ASSUME Typed, NEW d \in Calls, Same(d), SomeFailed => SomeFailed', Sent(d), Replied(d)
  PROVE  Sent(d)' /\ Replied(d)'
<1> USE DEF Same
<1>1. attempt[d] \in Attempts
  BY DEF Typed
<1>2. Sent(d)'
  BY <1>1 DEF Sent
<1>3. Reached(d) => Reached(d)'
  BY DEF Reached
<1>4. MayHaveElapsed(d) => MayHaveElapsed(d)'
  BY DEF MayHaveElapsed, AttemptsMade
<1>5. DataWasServed(d) => DataWasServed(d)'
  BY DEF DataWasServed
<1>6. Replied(d)'
  BY <1>3, <1>4, <1>5 DEF Replied
<1> QED BY <1>2, <1>6

\* A failure once seen is not taken back: attempts are not unsent, the loop does
\* not go back, and a failed call stays so.
LEMMA FailedStays ==
  ASSUME Typed, Typed', NEW c \in Calls, \A d \in Calls : d # c => Same(d),
         \A a \in Attempts : request[c][a] # "unsent" => request'[c][a] # "unsent",
         attempt[c] <= attempt'[c], pc[c] = "failed" => pc'[c] = "failed"
  PROVE  SomeFailed => SomeFailed'
<1> SUFFICES ASSUME NEW d \in Calls, NEW a \in Attempts, FailedOn(d, a)
             PROVE  FailedOn(d, a)'
  BY DEF SomeFailed
<1>1. a \in Nat /\ attempt[c] \in Nat /\ attempt'[c] \in Nat
  BY Numbers DEF Typed
<1> QED BY <1>1 DEF FailedOn, Same

LEMMA OneCall ==
  ASSUME IInv, Typed', NEW c \in Calls, \A d \in Calls : d # c => Same(d),
         SomeFailed => SomeFailed', BreakerHasReason', Sent(c)', Replied(c)'
  PROVE  IInv'
BY SameKeeps DEF IInv, AllInOrder

\* An attempt fails, on the wire or at an open breaker: now there is a failure.
LEMMA FailStep ==
  ASSUME IInv, NEW c \in Calls, Client!AttemptFailed(c), Continue(c), UNCHANGED request,
         \/ pc[c] \in {"idle", "backoff"} /\ breaker # "closed"
         \/ pc[c] = "inflight"
  PROVE  IInv'
<1>1. Typed /\ Sent(c) /\ Replied(c)
  BY DEF IInv, AllInOrder
<1>2. /\ pc' \in [Calls -> {"idle", "inflight", "backoff"} \cup Answers]
      /\ attempt' \in [Calls -> Attempts]
      /\ \A d \in Calls : d # c => pc'[d] = pc[d] /\ attempt'[d] = attempt[d]
      /\ \/ pc'[c] = "failed" /\ attempt'[c] = attempt[c]
         \/ pc'[c] = "backoff" /\ attempt'[c] = attempt[c] + 1
  BY <1>1, FailEffect
<1>3. /\ reply' \in [Calls -> {"none", "data", "empty", "notFound", "timeout"}]
      /\ \A d \in Calls : d # c => reply'[d] = reply[d]
      /\ \/ reply'[c] = reply[c]
         \/ /\ pc'[c] \in Answers
            /\ reply'[c] \in {"data", "empty", "notFound"}
            /\ reply'[c] = "data" => pc'[c] = "ok"
  BY <1>1, ContinueEffect
<1>4. Typed' /\ \A d \in Calls : d # c => Same(d)
  BY <1>1, <1>2, <1>3 DEF Typed, Same
<1>5. attempt[c] \in Attempts /\ attempt[c] \in Nat /\ \A a \in Attempts : a \in Nat
  BY <1>1, Numbers DEF Typed
<1>6. pc[c] \notin Answers /\ pc'[c] \in {"failed", "backoff"} /\ "failed" \in Answers /\ "backoff" \notin Answers
  BY <1>2 DEF Answers, Client!Answers
<1>7. SomeFailed'
  <2>1. CASE pc[c] = "inflight"
    <3>1. request'[c][attempt[c]] # "unsent" /\ (attempt[c] < attempt'[c] \/ pc'[c] = "failed")
      BY <1>1, <1>2, <1>5, <2>1 DEF Sent
    <3> QED BY <1>5, <3>1 DEF SomeFailed, FailedOn
  <2>2. CASE pc[c] # "inflight"
    <3>1. SomeFailed
      BY <2>2 DEF IInv, BreakerHasReason
    <3>2. attempt[c] <= attempt'[c] /\ pc[c] # "failed"
      BY <1>2, <1>5, <1>6
    <3> QED BY <1>1, <1>4, <3>1, <3>2, FailedStays
  <2> QED BY <2>1, <2>2
<1>8. Sent(c)'
  <2>1. \A a \in Attempts : request'[c][a] # "unsent" => a <= attempt[c]
    BY <1>1, <1>5 DEF Sent
  <2> QED BY <1>2, <1>5, <1>6, <2>1 DEF Sent
<1>9. Replied(c)'
  <2>1. pc'[c] # "idle"
    BY <1>6
  <2>2. reply'[c] \in {"data", "empty", "notFound"} => pc'[c] \in Answers
    BY <1>1, <1>3, <1>6 DEF Replied
  <2>3. reply'[c] # "data"
    BY <1>1, <1>3, <1>6 DEF Replied
  <2>4. reply'[c] = "timeout" /\ pc'[c] = "backoff" => MayHaveElapsed(c)'
    <3> SUFFICES ASSUME reply'[c] = "timeout", pc'[c] = "backoff"
                 PROVE  MayHaveElapsed(c)'
      OBVIOUS
    <3>1. reply[c] = "timeout" /\ attempt'[c] = attempt[c] + 1
      BY <1>2, <1>3
    <3>2. MayHaveElapsed(c) /\ pc[c] \in {"inflight", "backoff"}
      BY <1>1, <3>1 DEF Replied
    <3>3. (attempt[c] + 1) * CallTimeout >= RequestTimeout
      BY <1>5, <3>2, ElapsedGrows DEF MayHaveElapsed, AttemptsMade
    <3> QED BY <1>5, <3>1, <3>3 DEF MayHaveElapsed, AttemptsMade
  <2> QED BY <1>6, <1>7, <2>1, <2>2, <2>3, <2>4 DEF Replied, DataWasServed
<1> QED BY <1>4, <1>7, <1>8, <1>9, OneCall DEF BreakerHasReason

\* An attempt is sent: the call had not been answered, but the client may have been.
LEMMA FireStep ==
  ASSUME IInv, NEW c \in Calls, Client!FireAdmitted(c), Continue(c)
  PROVE  IInv'
<1>1. Typed /\ Sent(c) /\ Replied(c)
  BY DEF IInv, AllInOrder
<1>2. attempt[c] \in Attempts /\ attempt[c] \in Nat /\ \A a \in Attempts : a \in Nat
  BY <1>1, Numbers DEF Typed
<1>3. /\ pc[c] \in {"idle", "backoff"} /\ pc' = [pc EXCEPT ![c] = "inflight"]
      /\ request' = [request EXCEPT ![c][attempt[c]] = "sent"]
      /\ attempt' = attempt /\ breaker' = breaker
  BY DEF Client!FireAdmitted, Client!CanFire
<1>4. pc'[c] = "inflight" /\ pc[c] \notin Answers /\ pc'[c] \notin Answers
  BY <1>1, <1>3 DEF Typed, Answers, Client!Answers
<1>5. reply' = reply
  BY <1>4 DEF Continue, Answers
<1>6. \A d \in Calls, a \in Attempts :
        request'[d][a] = IF d = c /\ a = attempt[c] THEN "sent" ELSE request[d][a]
  BY <1>1, <1>3 DEF Typed
<1>7. Typed'
  BY <1>1, <1>2, <1>3, <1>5 DEF Typed, Client!RequestStates
<1>8. \A d \in Calls : d # c => Same(d)
  BY <1>1, <1>3, <1>5, <1>6 DEF Typed, Same
<1>9. SomeFailed => SomeFailed'
  BY <1>1, <1>2, <1>3, <1>4, <1>6, <1>7, <1>8, FailedStays
<1>10. Sent(c)'
  BY <1>1, <1>2, <1>3, <1>4, <1>6 DEF Sent
<1>11. Replied(c)'
  <2>1. reply[c] \notin {"data", "empty", "notFound"}
    BY <1>1, <1>4 DEF Replied
  <2>2. reply'[c] = "timeout" => MayHaveElapsed(c)'
    <3> SUFFICES ASSUME reply[c] = "timeout" PROVE MayHaveElapsed(c)'
      BY <1>5
    <3>1. MayHaveElapsed(c) /\ pc[c] = "backoff"
      BY <1>1, <1>3 DEF Replied
    <3>2. (attempt[c] + 1) * CallTimeout >= RequestTimeout
      BY <1>2, <3>1, ElapsedGrows DEF MayHaveElapsed, AttemptsMade
    <3> QED BY <1>2, <1>3, <1>4, <3>2 DEF MayHaveElapsed, AttemptsMade
  <2> QED BY <1>4, <1>5, <2>1, <2>2 DEF Replied, DataWasServed
<1>12. BreakerHasReason'
  BY <1>3, <1>9 DEF IInv, BreakerHasReason
<1> QED BY <1>7, <1>8, <1>9, <1>10, <1>11, <1>12, OneCall

\* The reply to the current attempt ends the call.
LEMMA BodyStep ==
  ASSUME IInv, NEW c \in Calls, Client!ReceiveBody(c), Continue(c)
  PROVE  IInv'
<1>1. Typed /\ Sent(c) /\ Replied(c)
  BY DEF IInv, AllInOrder
<1>2. attempt[c] \in Attempts /\ attempt[c] \in Nat /\ \A a \in Attempts : a \in Nat
  BY <1>1, Numbers DEF Typed
<1>3. /\ pc[c] = "inflight" /\ UNCHANGED <<attempt, request>>
      /\ \E x \in Answers :
           /\ pc' = [pc EXCEPT ![c] = x]
           /\ x = "ok" => request[c][attempt[c]] = "acked"
      /\ breaker' \in {breaker, "closed"}
  BY BreakerEffect DEF Client!ReceiveBody, Answers, Client!Answers
<1>4. /\ pc' \in [Calls -> {"idle", "inflight", "backoff"} \cup Answers]
      /\ pc'[c] \in Answers
      /\ pc'[c] = "ok" => request[c][attempt[c]] = "acked"
      /\ \A d \in Calls : d # c => pc'[d] = pc[d]
  BY <1>1, <1>3 DEF Typed
<1>5. /\ reply' \in [Calls -> {"none", "data", "empty", "notFound", "timeout"}]
      /\ \A d \in Calls : d # c => reply'[d] = reply[d]
      /\ \/ reply'[c] = reply[c]
         \/ /\ pc'[c] \in Answers
            /\ reply'[c] \in {"data", "empty", "notFound"}
            /\ reply'[c] = "data" => pc'[c] = "ok"
  BY <1>1, ContinueEffect
<1>6. Typed' /\ \A d \in Calls : d # c => Same(d)
  BY <1>1, <1>3, <1>4, <1>5 DEF Typed, Same
<1>7. /\ pc[c] \notin Answers
      /\ \A x \in Answers : x \notin {"idle", "inflight", "backoff"}
  BY <1>3 DEF Answers, Client!Answers
<1>8. SomeFailed => SomeFailed'
  BY <1>1, <1>2, <1>3, <1>6, FailedStays
<1>9. Sent(c)'
  BY <1>1, <1>2, <1>3, <1>4, <1>7 DEF Sent
<1>10. \A b \in Attempts : b > attempt[c] => request[c][b] = "unsent"
  BY <1>1, <1>2 DEF Sent
<1>11. Replied(c)'
  <2>1. pc'[c] \notin {"idle", "inflight", "backoff"}
    BY <1>4, <1>7
  <2>2. reply'[c] = "data" => request[c][attempt[c]] = "acked"
    BY <1>1, <1>4, <1>5, <1>7 DEF Replied
  <2>3. Reached(c)'
    BY <1>1, <1>2, <1>3 DEF Reached, Sent
  <2>4. DataWasServed(c)'
    BY <1>2, <1>3, <1>10, <2>2 DEF DataWasServed
  <2> QED BY <1>4, <2>1, <2>3, <2>4 DEF Replied
<1>12. BreakerHasReason'
  BY <1>3, <1>8 DEF IInv, BreakerHasReason
<1> QED BY <1>6, <1>8, <1>9, <1>11, <1>12, OneCall

\* The interceptor answers, the call goes on.
LEMMA TimesOutStep ==
  ASSUME IInv, NEW c \in Calls, RequestTimesOut(c)
  PROVE  IInv'
<1>1. Typed /\ Sent(c) /\ Replied(c)
  BY DEF IInv, AllInOrder
<1>2. /\ pc[c] \in {"inflight", "backoff"} /\ MayHaveElapsed(c)
      /\ reply' = [reply EXCEPT ![c] = "timeout"]
      /\ pc' = pc /\ attempt' = attempt /\ request' = request /\ breaker' = breaker
  BY DEF RequestTimesOut, clientVars
<1>3. Typed' /\ (\A d \in Calls : d # c => Same(d)) /\ reply'[c] = "timeout"
  BY <1>1, <1>2 DEF Typed, Same
<1>4. SomeFailed => SomeFailed'
  BY <1>2 DEF SomeFailed, FailedOn
<1>5. Sent(c)'
  BY <1>1, <1>2 DEF Sent
<1>6. Replied(c)'
  BY <1>2, <1>3 DEF Replied, DataWasServed, MayHaveElapsed, AttemptsMade
<1>7. BreakerHasReason'
  BY <1>2, <1>4 DEF IInv, BreakerHasReason
<1> QED BY <1>3, <1>4, <1>5, <1>6, <1>7, OneCall

\* The service takes an attempt that was sent, and what else was answered stands.
LEMMA ServiceStep ==
  ASSUME IInv, NEW c \in Calls, NEW a \in Attempts,
         Client!ServiceApply(c, a) \/ Client!ServiceDecline(c, a), UNCHANGED reply
  PROVE  IInv'
<1>1. Typed /\ Sent(c) /\ Replied(c)
  BY DEF IInv, AllInOrder
<1>2. /\ request[c][a] = "sent"
      /\ \E x \in {"acked", "torn", "refused", "errored"} : request' = [request EXCEPT ![c][a] = x]
      /\ pc' = pc /\ attempt' = attempt /\ breaker' = breaker
  BY DEF Client!ServiceApply, Client!ServiceDecline, Client!breakerVars
<1>3. PICK x \in {"acked", "torn", "refused", "errored"} : request' = [request EXCEPT ![c][a] = x]
  BY <1>2
<1>4. \A d \in Calls, b \in Attempts :
        request'[d][b] = IF d = c /\ b = a THEN x ELSE request[d][b]
  BY <1>1, <1>3 DEF Typed
<1>5. Typed'
  BY <1>1, <1>2, <1>3 DEF Typed, Client!RequestStates
<1>6. \A d \in Calls : d # c => Same(d)
  BY <1>2, <1>4 DEF Same
<1>7. attempt[c] \in Nat
  BY <1>1, Numbers DEF Typed
<1>8. SomeFailed => SomeFailed'
  BY <1>1, <1>2, <1>4, <1>5, <1>6, <1>7, FailedStays
<1>9. Sent(c)'
  BY <1>1, <1>2, <1>4 DEF Sent, Typed
<1>10. Replied(c)'
  <2>1. DataWasServed(c)'
    BY <1>1, <1>2, <1>4 DEF Replied, DataWasServed
  <2>2. MayHaveElapsed(c) => MayHaveElapsed(c)'
    BY <1>2 DEF MayHaveElapsed, AttemptsMade
  <2>3. Reached(c) => Reached(c)'
    BY <1>2, <1>4 DEF Reached
  <2> QED BY <1>1, <1>2, <1>8, <2>1, <2>2, <2>3 DEF Replied
<1>11. BreakerHasReason'
  BY <1>2, <1>8 DEF IInv, BreakerHasReason
<1> QED BY <1>5, <1>6, <1>8, <1>9, <1>10, <1>11, OneCall

\* Only the breaker changes, and not from closed.
LEMMA BreakerStep ==
  ASSUME IInv, UNCHANGED <<pc, attempt, request, reply>>, breaker' # "closed" => breaker # "closed"
  PROVE  IInv'
<1>1. Typed' /\ \A d \in Calls : Same(d)
  BY DEF IInv, Typed, Same
<1>2. SomeFailed => SomeFailed'
  BY DEF SomeFailed, FailedOn
<1> QED BY <1>1, <1>2, SameKeeps DEF IInv, AllInOrder, BreakerHasReason

(***************************************************************************)
(* The theorems.                                                           *)
(***************************************************************************)

LEMMA Initially == Init => IInv
<1> SUFFICES ASSUME Init PROVE IInv
  OBVIOUS
<1>1. 0 \in Attempts
  BY Numbers DEF Attempts
<1>2. Typed
  BY <1>1, Numbers DEF Init, Client!Init, Typed, Client!RequestStates
<1>3. AllInOrder
  BY Numbers DEF Init, Client!Init, AllInOrder, Sent, Replied, DataWasServed
<1>4. BreakerHasReason
  BY DEF Init, Client!Init, BreakerHasReason
<1> QED BY <1>2, <1>3, <1>4 DEF IInv

LEMMA Inductive == IInv /\ [Next]_vars => IInv'
<1> SUFFICES ASSUME IInv, [Next]_vars PROVE IInv'
  OBVIOUS
<1>1. ASSUME NEW c \in Calls, Proceed(c) PROVE IInv'
  <2>1. CASE Client!FireRejected(c)
    <3>1. pc[c] \in {"idle", "backoff"} /\ breaker # "closed"
      BY <2>1 DEF Client!FireRejected, Client!CanFire, Client!Admits
    <3>2. Client!AttemptFailed(c) /\ UNCHANGED request /\ Continue(c)
      BY <1>1, <2>1 DEF Client!FireRejected, Proceed
    <3> QED BY <3>1, <3>2, FailStep
  <2>2. CASE Client!FireAdmitted(c)
    BY <1>1, <2>2, FireStep DEF Proceed
  <2>3. CASE Client!ReceiveBody(c)
    BY <1>1, <2>3, BodyStep DEF Proceed
  <2>4. CASE Client!ReceiveError(c)
    BY <1>1, <2>4, FailStep DEF Proceed, Client!ReceiveError
  <2> QED BY <1>1, <2>1, <2>2, <2>3, <2>4 DEF Proceed
<1>2. ASSUME NEW c \in Calls, AttemptTimesOut(c) PROVE IInv'
  BY <1>2, FailStep DEF AttemptTimesOut, Client!Timeout
<1>3. CASE Environment
  <2>1. UNCHANGED reply
    BY <1>3 DEF Environment
  <2>2. CASE Client!ResetTimer \/ Client!RotateWindow
    BY <2>1, <2>2, BreakerStep DEF Client!ResetTimer, Client!RotateWindow
  <2> QED BY <1>3, <2>1, <2>2, ServiceStep DEF Environment
<1>4. CASE UNCHANGED vars
  BY <1>4, BreakerStep DEF vars, clientVars
<1> QED BY <1>1, <1>2, <1>3, <1>4, TimesOutStep DEF Next

LEMMA Invariance == Spec => []IInv
BY Initially, Inductive, PTL DEF Spec

\* Data answers a request only if the service applied the attempt the call waited
\* for; and a request that is turned away without an attempt of its own has that
\* from another one's failure.
THEOREM AnswersHaveReasons == Spec => []AnswerHasReason
<1>1. ASSUME IInv, NEW c \in Calls PROVE DataWasServed(c) /\ TurnedAwayHasReason(c)
  <2>1. Replied(c)
    BY <1>1 DEF IInv, AllInOrder
  <2>2. ASSUME reply[c] \in {"empty", "notFound"}, \A a \in Attempts : request[c][a] = "unsent"
        PROVE  \E d \in Calls \ {c} : \E a \in Attempts :
                 request[d][a] # "unsent" /\ (a < attempt[d] \/ pc[d] = "failed")
    <3>1. PICK d \in Calls, a \in Attempts : FailedOn(d, a)
      BY <2>1, <2>2 DEF Replied, Reached, SomeFailed
    <3>2. d # c
      BY <2>2, <3>1 DEF FailedOn
    <3> QED BY <3>1, <3>2 DEF FailedOn
  <2> QED BY <2>1, <2>2 DEF Replied, TurnedAwayHasReason
<1>2. IInv => AnswerHasReason
  BY <1>1 DEF AnswerHasReason
<1> QED BY <1>2, Invariance, PTL

\* An attempt is sent for nobody only when the interceptor has answered, and only if
\* the attempts before it may have used up the request timeout.
THEOREM LateSends == Spec => LateSendIsLast
<1> DEFINE Late ==
      \A c \in Calls, a \in Attempts :
        reply[c] # "none" /\ request[c][a] = "unsent" /\ request'[c][a] # "unsent" =>
          reply[c] = "timeout" /\ a * CallTimeout >= RequestTimeout
<1>1. IInv /\ [Next]_vars => [Late]_vars
  <2> SUFFICES ASSUME IInv, Next, NEW c \in Calls, NEW a \in Attempts,
                      reply[c] # "none", request[c][a] = "unsent", request'[c][a] # "unsent"
               PROVE  reply[c] = "timeout" /\ a * CallTimeout >= RequestTimeout
    OBVIOUS
  <2>1. Typed /\ Replied(c)
    BY DEF IInv, AllInOrder
  <2>2. \E d \in Calls : Client!FireAdmitted(d)
    <3>1. ASSUME NEW d \in Calls, NEW b \in Attempts,
                 Client!ServiceApply(d, b) \/ Client!ServiceDecline(d, b)
          PROVE  FALSE
      BY <2>1, <3>1 DEF Typed, Client!ServiceApply, Client!ServiceDecline
    <3> QED
      BY <3>1 DEF Next, Proceed, AttemptTimesOut, RequestTimesOut, Environment, clientVars,
         Client!FireRejected, Client!ReceiveBody, Client!ReceiveError, Client!Timeout,
         Client!ResetTimer, Client!RotateWindow
  <2>3. PICK d \in Calls : Client!FireAdmitted(d)
    BY <2>2
  <2>4. d = c /\ a = attempt[c]
    BY <2>1, <2>3 DEF Typed, Client!FireAdmitted
  <2>5. pc[c] = "backoff"
    BY <2>1, <2>3, <2>4 DEF Client!FireAdmitted, Client!CanFire, Replied
  <2>6. reply[c] = "timeout" /\ MayHaveElapsed(c)
    BY <2>1, <2>5 DEF Replied, Typed, Answers, Client!Answers
  <2>7. a \in Nat
    BY Numbers
  <2> QED BY <2>4, <2>5, <2>6, <2>7 DEF MayHaveElapsed, AttemptsMade
<1> QED BY <1>1, Invariance, PTL DEF Spec, LateSendIsLast

\* Each step is one of the client's, or none of its business.
LEMMA ClientStep == [Next]_vars => [Client!Next]_(Client!vars)
<1> SUFFICES ASSUME [Next]_vars PROVE [Client!Next]_(Client!vars)
  OBVIOUS
<1>1. ASSUME UNCHANGED clientVars PROVE UNCHANGED Client!vars
  BY <1>1 DEF clientVars, Client!vars
<1>2. ASSUME NEW c \in Calls, Proceed(c) \/ AttemptTimesOut(c) PROVE Client!Next
  BY <1>2 DEF Proceed, AttemptTimesOut, Client!Next, Client!Client
<1>3. ASSUME NEW c \in Calls, RequestTimesOut(c) PROVE UNCHANGED Client!vars
  BY <1>1, <1>3 DEF RequestTimesOut
<1>4. CASE Environment
  BY <1>4, Numbers DEF Environment, Client!Next
<1>5. CASE UNCHANGED vars
  BY <1>1, <1>5 DEF vars
<1> QED BY <1>2, <1>3, <1>4, <1>5 DEF Next

\* The operations use their client as HttpClient says: the request timeout, and what
\* they make of an answer, touch neither its calls nor its breaker.  So what
\* HttpClientProofs shows of a client holds of theirs.
THEOREM UsesHttpClient == Spec => Client!Spec
<1>1. Init => Client!Init
  BY DEF Init
<1> QED BY <1>1, ClientStep, PTL DEF Spec, Client!Spec

(***************************************************************************)
(* Type correctness: the count of timed-out attempts against the loop.     *)
(***************************************************************************)

BreakerTyped ==
  /\ breaker \in {"closed", "open", "halfOpen"}
  /\ pendingClose \in BOOLEAN
  /\ fires \in [1..Buckets -> Nat]
  /\ failures \in [1..Buckets -> Nat]

\* No more attempts are given up than were made: those before the current one, and
\* the last if it failed the call.
CountedOnce ==
  /\ timedOut \in [Calls -> Nat]
  /\ \A c \in Calls : timedOut[c] <= attempt[c] + IF pc[c] = "failed" THEN 1 ELSE 0

\* Counting an event in the youngest bucket, and dropping the oldest.
LEMMA BucketTypes ==
  ASSUME NEW f \in [1..Buckets -> Nat]
  PROVE  /\ [f EXCEPT ![1] = @ + 1] \in [1..Buckets -> Nat]
         /\ [i \in 1..Buckets |-> IF i = 1 THEN 0 ELSE f[i - 1]] \in [1..Buckets -> Nat]
<1>0. Buckets \in Nat \ {0}
  BY VideosAssumption DEF Client!HttpClientAssumption
<1>1. 1 \in 1..Buckets /\ \A i \in 1..Buckets : i # 1 => i - 1 \in 1..Buckets
  BY <1>0
<1>2. f[1] + 1 \in Nat
  BY <1>1
<1> QED BY <1>1, <1>2

LEMMA BreakerTypedStep == BreakerTyped /\ [Next]_vars => BreakerTyped'
<1> SUFFICES ASSUME BreakerTyped, [Client!Next]_(Client!vars) PROVE BreakerTyped'
  BY ClientStep
<1> USE DEF BreakerTyped
<1>1. ASSUME NEW c \in Calls, Client!FireRejected(c) \/ Client!FireAdmitted(c) PROVE BreakerTyped'
  BY <1>1, BucketTypes DEF Client!FireRejected, Client!FireAdmitted, Client!CountFire
<1>2. ASSUME Client!BreakerFailure PROVE BreakerTyped'
  <2>1. failures' \in [1..Buckets -> Nat]
    BY <1>2, BucketTypes DEF Client!BreakerFailure
  <2>2. breaker' \in {"closed", "open", "halfOpen"} /\ pendingClose' \in BOOLEAN
    BY <1>2 DEF Client!BreakerFailure
  <2> QED BY <1>2, <2>1, <2>2 DEF Client!BreakerFailure
<1>3. ASSUME NEW c \in Calls, Client!ReceiveBody(c) PROVE BreakerTyped'
  BY <1>3 DEF Client!ReceiveBody, Client!BreakerSuccess
<1>4. ASSUME NEW c \in Calls, NEW a \in Client!Attempts,
             Client!ServiceApply(c, a) \/ Client!ServiceDecline(c, a)
      PROVE  BreakerTyped'
  BY <1>4 DEF Client!ServiceApply, Client!ServiceDecline, Client!breakerVars
<1>5. CASE Client!ResetTimer
  BY <1>5 DEF Client!ResetTimer
<1>6. CASE Client!RotateWindow
  BY <1>6, BucketTypes DEF Client!RotateWindow
<1>7. CASE UNCHANGED Client!vars
  BY <1>7 DEF Client!vars
<1> QED
  BY <1>1, <1>2, <1>3, <1>4, <1>5, <1>6, <1>7
  DEF Client!Next, Client!Client, Client!ReceiveError, Client!Timeout

\* A timed-out attempt is counted in the step that ends it.
LEMMA CountedOnceStep == Typed /\ CountedOnce /\ [Next]_vars => CountedOnce'
<1> SUFFICES ASSUME Typed, CountedOnce, [Next]_vars PROVE CountedOnce'
  OBVIOUS
<1> DEFINE Bound(c) == attempt[c] + IF pc[c] = "failed" THEN 1 ELSE 0
<1>0. \A c \in Calls : attempt[c] \in Nat /\ timedOut[c] \in Nat
  BY Numbers DEF Typed, CountedOnce
<1>1. ASSUME NEW c \in Calls, Client!AttemptFailed(c), pc[c] # "failed"
      PROVE  /\ Bound(c)' = Bound(c) + 1
             /\ \A d \in Calls : d # c => Bound(d)' = Bound(d)
  BY <1>0, <1>1, FailEffect
<1>2. ASSUME NEW c \in Calls, Proceed(c) PROVE CountedOnce'
  <2>1. CASE Client!FireRejected(c) \/ Client!ReceiveError(c)
    <3>1. Client!AttemptFailed(c) /\ pc[c] # "failed"
      BY <2>1 DEF Client!FireRejected, Client!ReceiveError, Client!CanFire
    <3>2. timedOut' = timedOut
      BY <1>2 DEF Proceed
    <3>3. \A d \in Calls : timedOut[d] <= Bound(d)' /\ Bound(d) \in Nat
      BY <1>0, <1>1, <3>1 DEF CountedOnce
    <3> QED BY <3>2, <3>3 DEF CountedOnce
  <2>2. CASE Client!FireAdmitted(c) \/ Client!ReceiveBody(c)
    <3>1. \A d \in Calls : pc[d] = "failed" => pc'[d] = "failed"
      BY <2>2 DEF Typed, Client!FireAdmitted, Client!ReceiveBody, Client!CanFire
    <3>2. attempt' = attempt /\ timedOut' = timedOut
      BY <1>2, <2>2 DEF Proceed, Client!FireAdmitted, Client!ReceiveBody
    <3> QED BY <1>0, <3>1, <3>2 DEF CountedOnce
  <2> QED BY <1>2, <2>1, <2>2 DEF Proceed
<1>3. ASSUME NEW c \in Calls, AttemptTimesOut(c) PROVE CountedOnce'
  <2>1. /\ Client!AttemptFailed(c) /\ pc[c] # "failed"
        /\ timedOut' = [timedOut EXCEPT ![c] = @ + 1]
    BY <1>3 DEF AttemptTimesOut, Client!Timeout
  <2>2. /\ timedOut' \in [Calls -> Nat]
        /\ \A d \in Calls : timedOut'[d] = IF d = c THEN timedOut[d] + 1 ELSE timedOut[d]
    BY <1>0, <2>1 DEF CountedOnce
  <2>3. \A d \in Calls : timedOut'[d] <= Bound(d)'
    BY <1>0, <1>1, <2>1, <2>2 DEF CountedOnce
  <2> QED BY <2>2, <2>3 DEF CountedOnce
<1>4. ASSUME UNCHANGED <<pc, attempt, timedOut>> PROVE CountedOnce'
  BY <1>4 DEF CountedOnce
<1>5. ASSUME NEW c \in Calls, RequestTimesOut(c) PROVE CountedOnce'
  BY <1>4, <1>5 DEF RequestTimesOut, clientVars
<1>6. CASE Environment
  BY <1>4, <1>6 DEF Environment, Client!ServiceApply, Client!ServiceDecline,
     Client!ResetTimer, Client!RotateWindow
<1>7. CASE UNCHANGED vars
  BY <1>4, <1>7 DEF vars, clientVars
<1> QED BY <1>2, <1>3, <1>5, <1>6, <1>7 DEF Next

\* The variables keep their types: in particular no attempt is counted as timed out
\* that was not made, so the count by which the request timer is judged is sound.
THEOREM TypeCorrect == Spec => []TypeOK
<1>1. Init => BreakerTyped /\ CountedOnce
  <2>1. Buckets \in Nat \ {0}
    BY VideosAssumption DEF Client!HttpClientAssumption
  <2>2. Init => BreakerTyped
    <3> SUFFICES ASSUME Init PROVE BreakerTyped
      OBVIOUS
    <3>1. /\ breaker = "closed" /\ pendingClose = FALSE
          /\ fires = [i \in 1..Buckets |-> 0] /\ failures = [i \in 1..Buckets |-> 0]
      BY DEF Init, Client!Init
    <3> QED BY <2>1, <3>1 DEF BreakerTyped
  <2>3. Init => CountedOnce
    BY DEF Init, Client!Init, CountedOnce
  <2> QED BY <2>2, <2>3
<1>2. IInv /\ BreakerTyped /\ CountedOnce => TypeOK
  <2> SUFFICES ASSUME IInv, BreakerTyped, CountedOnce PROVE TypeOK
    OBVIOUS
  <2>1. Typed
    BY DEF IInv
  <2>2. Client!TypeOK
    BY <2>1, Numbers DEF Typed, BreakerTyped, Client!TypeOK, Answers
  <2>3. ASSUME NEW c \in Calls PROVE timedOut[c] \in 0..(MaxRetries + 1)
    <3>1. attempt[c] \in 0..MaxRetries /\ MaxRetries \in Nat /\ timedOut[c] \in Nat
      BY <2>1, Numbers DEF Typed, Attempts, CountedOnce
    <3>2. timedOut[c] <= attempt[c] + 1
      BY <3>1 DEF CountedOnce
    <3> QED BY <3>1, <3>2
  <2>4. \A n \in 0..(MaxRetries + 1) : n \in Attempts \cup {MaxRetries + 1}
    BY Numbers DEF Attempts
  <2>5. timedOut \in [Calls -> Attempts \cup {MaxRetries + 1}]
    BY <2>3, <2>4 DEF CountedOnce
  <2> QED BY <2>1, <2>2, <2>5 DEF Typed, TypeOK
<1>3. IInv => Typed
  BY DEF IInv
<1> QED
  BY <1>1, <1>2, <1>3, Invariance, BreakerTypedStep, CountedOnceStep, PTL DEF Spec
=============================================================================
