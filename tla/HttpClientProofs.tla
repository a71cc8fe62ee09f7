-------------------------- MODULE HttpClientProofs --------------------------
(* Theorems about HttpClient, for any calls, any number of retries, any     *)
(* threshold and any statistics window.                                     *)
EXTENDS HttpClient, TLAPS

(***************************************************************************)
(* How the retry loop and the wire fit together: nothing was sent for an   *)
(* attempt that is yet to come, and a call in flight has sent the attempt  *)
(* it waits for.                                                           *)
(***************************************************************************)
SentSoFar ==
  \A c \in Calls :
    /\ \A a \in Attempts :
         request[c][a] # "unsent" =>
           \/ a < attempt[c]
           \/ a = attempt[c] /\ pc[c] \in {"inflight"} \cup Answers
    /\ pc[c] = "inflight" => request[c][attempt[c]] # "unsent"

USE DEF HttpClientAssumption

(***************************************************************************)
(* Type correctness.                                                       *)
(***************************************************************************)

\* Giving up or going on leaves the loop variable within its range.
LEMMA AttemptFailedType ==
  ASSUME TypeOK, NEW c \in Calls, AttemptFailed(c)
  PROVE  /\ pc' \in [Calls -> {"idle", "inflight", "backoff"} \cup Answers]
         /\ attempt' \in [Calls -> Attempts]
<1>1. MaxRetries \in Nat /\ attempt[c] \in 0..MaxRetries
  BY HttpClientAssumption DEF TypeOK, Attempts
<1>2. CASE attempt[c] = MaxRetries
  BY <1>2 DEF TypeOK, AttemptFailed, Answers
<1>3. CASE attempt[c] # MaxRetries
  <2>1. attempt[c] + 1 \in Attempts
    BY <1>1, <1>3 DEF Attempts
  <2> QED BY <1>3, <2>1 DEF TypeOK, AttemptFailed
<1> QED BY <1>2, <1>3

\* Counting an event in the youngest bucket.
LEMMA CountType ==
  ASSUME NEW f \in [1..Buckets -> Nat]
  PROVE  [f EXCEPT ![1] = @ + 1] \in [1..Buckets -> Nat]
<1>1. 1 \in 1..Buckets
  BY HttpClientAssumption
<1>2. f[1] + 1 \in Nat
  BY <1>1
<1> QED BY <1>1, <1>2

\* Rotating the buckets.
LEMMA RotateType ==
  ASSUME NEW f \in [1..Buckets -> Nat]
  PROVE  [i \in 1..Buckets |-> IF i = 1 THEN 0 ELSE f[i - 1]] \in [1..Buckets -> Nat]
<1>1. \A i \in 1..Buckets : i # 1 => i - 1 \in 1..Buckets
  BY HttpClientAssumption
<1> QED BY <1>1

\* Recording one more state of a request.
LEMMA RequestType ==
  ASSUME TypeOK, NEW c \in Calls, NEW a \in Attempts, NEW x \in RequestStates
  PROVE  [request EXCEPT ![c][a] = x] \in [Calls -> [Attempts -> RequestStates]]
BY DEF TypeOK

\* The breaker's bookkeeping keeps its types.
LEMMA BreakerFailureType ==
  ASSUME TypeOK, BreakerFailure
  PROVE  /\ breaker' \in {"closed", "open", "halfOpen"}
         /\ pendingClose' \in BOOLEAN
         /\ fires' \in [1..Buckets -> Nat]
         /\ failures' \in [1..Buckets -> Nat]
<1>1. failures' \in [1..Buckets -> Nat]
  BY CountType DEF TypeOK, BreakerFailure
<1>2. breaker' \in {"closed", "open", "halfOpen"} /\ pendingClose' \in BOOLEAN
  BY DEF TypeOK, BreakerFailure
<1>3. fires' \in [1..Buckets -> Nat]
  BY DEF TypeOK, BreakerFailure
<1> QED BY <1>1, <1>2, <1>3

\* Every step keeps the types.
LEMMA TypeStep == TypeOK /\ [Next]_vars => TypeOK'
<1> SUFFICES ASSUME TypeOK, [Next]_vars PROVE TypeOK'
  OBVIOUS
<1>1. ASSUME NEW c \in Calls, FireRejected(c) PROVE TypeOK'
  BY <1>1, AttemptFailedType, CountType DEF TypeOK, FireRejected, CountFire
<1>2. ASSUME NEW c \in Calls, FireAdmitted(c) PROVE TypeOK'
  <2>1. attempt[c] \in Attempts
    BY DEF TypeOK
  <2>2. request' \in [Calls -> [Attempts -> RequestStates]]
    BY <1>2, <2>1, RequestType DEF FireAdmitted, RequestStates
  <2>3. fires' \in [1..Buckets -> Nat]
    BY <1>2, CountType DEF TypeOK, FireAdmitted, CountFire
  <2> QED BY <1>2, <2>2, <2>3 DEF TypeOK, FireAdmitted
<1>3. ASSUME NEW c \in Calls, ReceiveBody(c) PROVE TypeOK'
  BY <1>3 DEF TypeOK, ReceiveBody, BreakerSuccess, Answers
<1>4. ASSUME NEW c \in Calls, ReceiveError(c) PROVE TypeOK'
  BY <1>4, AttemptFailedType, BreakerFailureType DEF TypeOK, ReceiveError
<1>5. ASSUME NEW c \in Calls, Timeout(c) PROVE TypeOK'
  BY <1>5, AttemptFailedType, BreakerFailureType DEF TypeOK, Timeout
<1>6. ASSUME NEW c \in Calls, NEW a \in Attempts, ServiceApply(c, a) PROVE TypeOK'
  BY <1>6, RequestType DEF TypeOK, ServiceApply, RequestStates, breakerVars
<1>7. ASSUME NEW c \in Calls, NEW a \in Attempts, ServiceDecline(c, a) PROVE TypeOK'
  BY <1>7, RequestType DEF TypeOK, ServiceDecline, RequestStates, breakerVars
<1>8. CASE ResetTimer
  BY <1>8 DEF TypeOK, ResetTimer
<1>9. CASE RotateWindow
  BY <1>9, RotateType DEF TypeOK, RotateWindow
<1>10. CASE UNCHANGED vars
  BY <1>10 DEF TypeOK, vars
<1> QED
  BY <1>1, <1>2, <1>3, <1>4, <1>5, <1>6, <1>7, <1>8, <1>9, <1>10 DEF Next, Client

\* The types hold at first.
LEMMA TypeInit == Init => TypeOK
<1> SUFFICES ASSUME Init PROVE TypeOK
  OBVIOUS
<1>1. 0 \in Attempts
  BY HttpClientAssumption DEF Attempts
<1>2. attempt \in [Calls -> Attempts]
  BY <1>1 DEF Init
<1>3. request \in [Calls -> [Attempts -> RequestStates]]
  BY DEF Init, RequestStates
<1>4. fires \in [1..Buckets -> Nat] /\ failures \in [1..Buckets -> Nat]
  BY DEF Init
<1> QED BY <1>2, <1>3, <1>4 DEF Init, TypeOK

\* Every reachable state of the client is well typed; in particular the retry
\* loop never runs past its last attempt.
THEOREM TypeCorrect == Spec => []TypeOK
BY TypeInit, TypeStep, PTL DEF Spec

(***************************************************************************)
(* The half-open breaker.                                                  *)
(***************************************************************************)

\* What the end of an attempt does to the calls in flight.
LEMMA AttemptFailedLands ==
  ASSUME TypeOK, NEW c \in Calls, AttemptFailed(c)
  PROVE  /\ pc'[c] # "inflight"
         /\ \A d \in Calls : d # c => pc'[d] = pc[d]
BY DEF TypeOK, AttemptFailed

\* A settled attempt leaves the half-open state, so HalfOpenHasTrial can only
\* be lost by a step that spends the trial, and that step sends it.
LEMMA HalfOpenStep == TypeOK /\ HalfOpenHasTrial /\ [Next]_vars => HalfOpenHasTrial'
<1> SUFFICES ASSUME TypeOK, HalfOpenHasTrial, [Next]_vars PROVE HalfOpenHasTrial'
  OBVIOUS
<1>1. ASSUME NEW c \in Calls, FireRejected(c) PROVE HalfOpenHasTrial'
  <2> SUFFICES ASSUME breaker = "halfOpen", ~pendingClose
               PROVE  \E d \in Calls : pc'[d] = "inflight"
    BY <1>1 DEF HalfOpenHasTrial, FireRejected
  <2>1. PICK d \in Calls : pc[d] = "inflight"
    BY DEF HalfOpenHasTrial
  <2>2. d # c
    BY <1>1, <2>1 DEF FireRejected, CanFire
  <2> QED BY <1>1, <2>1, <2>2, AttemptFailedLands DEF FireRejected
<1>2. ASSUME NEW c \in Calls, FireAdmitted(c) PROVE HalfOpenHasTrial'
  <2>1. pc'[c] = "inflight"
    BY <1>2 DEF TypeOK, FireAdmitted
  <2> QED BY <2>1 DEF HalfOpenHasTrial
<1>3. ASSUME NEW c \in Calls, ReceiveBody(c) PROVE HalfOpenHasTrial'
  <2>1. CASE breaker = "halfOpen"
    BY <1>3, <2>1 DEF HalfOpenHasTrial, ReceiveBody, BreakerSuccess
  <2>2. CASE breaker # "halfOpen"
    BY <1>3, <2>2 DEF HalfOpenHasTrial, ReceiveBody, BreakerSuccess
  <2> QED BY <2>1, <2>2
<1>4. ASSUME NEW c \in Calls, ReceiveError(c) \/ Timeout(c) PROVE HalfOpenHasTrial'
  <2>1. breaker' # "halfOpen"
    BY <1>4 DEF TypeOK, ReceiveError, Timeout, BreakerFailure
  <2> QED BY <2>1 DEF HalfOpenHasTrial
<1>5. ASSUME NEW c \in Calls, NEW a \in Attempts, ServiceApply(c, a) \/ ServiceDecline(c, a)
      PROVE  HalfOpenHasTrial'
  BY <1>5 DEF HalfOpenHasTrial, ServiceApply, ServiceDecline, breakerVars
<1>6. CASE ResetTimer
  BY <1>6 DEF HalfOpenHasTrial, ResetTimer
<1>7. CASE RotateWindow \/ UNCHANGED vars
  BY <1>7 DEF HalfOpenHasTrial, RotateWindow, vars
<1> QED BY <1>1, <1>2, <1>3, <1>4, <1>5, <1>6, <1>7 DEF Next, Client

\* A breaker never stays half open with its trial spent and nobody in flight to
\* decide it: a client cannot wedge itself shut.
THEOREM NeverWedged == Spec => []HalfOpenHasTrial
<1>1. Init => HalfOpenHasTrial
  BY DEF Init, HalfOpenHasTrial
<1> QED BY <1>1, TypeInit, TypeStep, HalfOpenStep, PTL DEF Spec

\* Every step keeps the trials apart.
LEMMA OneTrialStep == TypeOK /\ OneTrialAtATime /\ [Next]_vars => OneTrialAtATime'
<1> SUFFICES ASSUME TypeOK, OneTrialAtATime, [Next]_vars PROVE OneTrialAtATime'
  OBVIOUS
<1>1. ASSUME NEW c \in Calls, FireRejected(c) PROVE OneTrialAtATime'
  <2>1. \A d \in Calls : pc'[d] = "inflight" => pc[d] = "inflight"
    BY <1>1, AttemptFailedLands DEF FireRejected
  <2> QED BY <1>1, <2>1 DEF OneTrialAtATime, FireRejected
<1>2. ASSUME NEW c \in Calls, FireAdmitted(c) PROVE OneTrialAtATime'
  <2> SUFFICES ASSUME ~EarlyReset, breaker = "halfOpen"
               PROVE  \A d \in Calls : pc'[d] = "inflight" => d = c
    BY <1>2 DEF OneTrialAtATime, FireAdmitted
  <2>1. pendingClose
    BY <1>2 DEF FireAdmitted, Admits
  <2>2. \A d \in Calls : pc[d] # "inflight"
    BY <2>1 DEF OneTrialAtATime
  <2> QED BY <1>2, <2>2 DEF TypeOK, FireAdmitted
<1>3. ASSUME NEW c \in Calls, ReceiveBody(c) PROVE OneTrialAtATime'
  <2>1. breaker' # "halfOpen"
    BY <1>3 DEF TypeOK, ReceiveBody, BreakerSuccess
  <2> QED BY <2>1 DEF OneTrialAtATime
<1>4. ASSUME NEW c \in Calls, ReceiveError(c) \/ Timeout(c) PROVE OneTrialAtATime'
  <2>1. breaker' # "halfOpen"
    BY <1>4 DEF TypeOK, ReceiveError, Timeout, BreakerFailure
  <2> QED BY <2>1 DEF OneTrialAtATime
<1>5. ASSUME NEW c \in Calls, NEW a \in Attempts, ServiceApply(c, a) \/ ServiceDecline(c, a)
      PROVE  OneTrialAtATime'
  BY <1>5 DEF OneTrialAtATime, ServiceApply, ServiceDecline, breakerVars
<1>6. CASE ResetTimer
  BY <1>6 DEF OneTrialAtATime, ResetTimer
<1>7. CASE RotateWindow \/ UNCHANGED vars
  BY <1>7 DEF OneTrialAtATime, RotateWindow, vars
<1> QED BY <1>1, <1>2, <1>3, <1>4, <1>5, <1>6, <1>7 DEF Next, Client

\* There is no trial at first.
LEMMA OneTrialInit == Init => OneTrialAtATime
BY DEF Init, OneTrialAtATime

\* With a reset timer that outlasts every call, a service under trial has at
\* most one request of this client outstanding.
THEOREM OneTrial == Spec => []OneTrialAtATime
BY OneTrialInit, TypeInit, TypeStep, OneTrialStep, PTL DEF Spec

\* ... and only the success of that trial closes the breaker.
THEOREM TrialCloses == Spec => ClosedByTrial
<1> DEFINE Closing ==
      ~EarlyReset /\ breaker # "closed" /\ breaker' = "closed" =>
        /\ breaker = "halfOpen" /\ ~pendingClose
        /\ \E c \in Calls : pc[c] = "inflight" /\ pc'[c] \in Answers
<1>1. TypeOK /\ OneTrialAtATime /\ [Next]_vars => [Closing]_vars
  <2> SUFFICES ASSUME TypeOK, OneTrialAtATime, Next, ~EarlyReset,
                      breaker # "closed", breaker' = "closed"
               PROVE  /\ breaker = "halfOpen" /\ ~pendingClose
                      /\ \E c \in Calls : pc[c] = "inflight" /\ pc'[c] \in Answers
    BY DEF vars
  <2>1. PICK c \in Calls : ReceiveBody(c)
    BY DEF Next, Client, FireRejected, FireAdmitted, ReceiveError, Timeout, BreakerFailure,
           ServiceApply, ServiceDecline, breakerVars, ResetTimer, RotateWindow
  <2>2. breaker = "halfOpen" /\ ~pendingClose
    BY <2>1 DEF ReceiveBody, BreakerSuccess, OneTrialAtATime
  <2>3. pc[c] = "inflight" /\ pc'[c] \in Answers
    BY <2>1 DEF TypeOK, ReceiveBody, Answers
  <2> QED BY <2>2, <2>3
<1> QED BY <1>1, TypeCorrect, OneTrial, PTL DEF Spec, ClosedByTrial


(***************************************************************************)
(* The client implements RemoteCall.                                       *)
(***************************************************************************)

\* What AttemptFailed leaves: the call answered, or one attempt further.
LEMMA AttemptFailedNext ==
  ASSUME TypeOK, NEW c \in Calls, pc[c] \notin Answers, AttemptFailed(c)
  PROVE  /\ \A d \in Calls : d # c => pc'[d] = pc[d] /\ attempt'[d] = attempt[d]
         /\ \/ pc' = [pc EXCEPT ![c] = "failed"] /\ attempt'[c] = attempt[c]
            \/ pc' = [pc EXCEPT ![c] = "backoff"] /\ attempt'[c] = attempt[c] + 1
BY DEF TypeOK, AttemptFailed

\* Every step keeps the loop and the wire in line.
LEMMA SentSoFarStep == TypeOK /\ SentSoFar /\ [Next]_vars => SentSoFar'
<1> SUFFICES ASSUME TypeOK, SentSoFar, [Next]_vars PROVE SentSoFar'
  OBVIOUS
<1>0. \A c \in Calls : attempt[c] \in Attempts /\ attempt[c] \in Nat
  BY HttpClientAssumption DEF TypeOK, Attempts
<1>a. \A a \in Attempts : a \in Nat
  BY HttpClientAssumption DEF Attempts
<1>1. ASSUME NEW c \in Calls, AttemptFailed(c), UNCHANGED request,
             pc[c] \in {"idle", "backoff", "inflight"}
      PROVE  SentSoFar'
  <2>1. pc[c] \notin Answers
    BY <1>1 DEF Answers
  <2>2. ASSUME NEW d \in Calls, d # c
        PROVE  /\ \A a \in Attempts :
                    request'[d][a] # "unsent" =>
                      \/ a < attempt'[d]
                      \/ a = attempt'[d] /\ pc'[d] \in {"inflight"} \cup Answers
               /\ pc'[d] = "inflight" => request'[d][attempt'[d]] # "unsent"
    BY <1>1, <2>1, <2>2, AttemptFailedNext DEF SentSoFar
  <2>3. ASSUME NEW a \in Attempts, request'[c][a] # "unsent"
        PROVE  \/ a < attempt'[c]
               \/ a = attempt'[c] /\ pc'[c] \in {"inflight"} \cup Answers
    <3>1. a <= attempt[c]
      BY <1>1, <2>3, <1>0, <1>a DEF SentSoFar
    <3>2. CASE pc' = [pc EXCEPT ![c] = "failed"] /\ attempt'[c] = attempt[c]
      <4>1. pc'[c] \in Answers
        BY <3>2 DEF TypeOK, Answers
      <4> QED BY <3>1, <3>2, <4>1, <1>0, <1>a
    <3>3. CASE attempt'[c] = attempt[c] + 1
      BY <3>1, <3>3, <1>0, <1>a
    <3> QED BY <1>1, <2>1, <3>2, <3>3, AttemptFailedNext
  <2>4. pc'[c] # "inflight"
    BY <1>1, AttemptFailedLands
  <2> QED BY <2>2, <2>3, <2>4 DEF SentSoFar
<1>2. ASSUME NEW c \in Calls, FireRejected(c) PROVE SentSoFar'
  BY <1>1, <1>2 DEF FireRejected, CanFire
<1>3. ASSUME NEW c \in Calls, FireAdmitted(c) PROVE SentSoFar'
  <2>1. \A d \in Calls, a \in Attempts :
          ~(d = c /\ a = attempt[c]) => request'[d][a] = request[d][a]
    BY <1>3 DEF TypeOK, FireAdmitted
  <2>2. request'[c][attempt[c]] = "sent"
    BY <1>3, <1>0 DEF TypeOK, FireAdmitted
  <2>3. pc'[c] = "inflight" /\ \A d \in Calls : d # c => pc'[d] = pc[d]
    BY <1>3 DEF TypeOK, FireAdmitted
  <2>4. attempt' = attempt
    BY <1>3 DEF FireAdmitted
  <2>5. pc[c] \notin {"inflight"} \cup Answers
    BY <1>3 DEF FireAdmitted, CanFire, Answers
  <2> QED BY <2>1, <2>2, <2>3, <2>4, <2>5, <1>0 DEF SentSoFar
<1>4. ASSUME NEW c \in Calls, ReceiveBody(c) PROVE SentSoFar'
  <2>1. pc[c] = "inflight" /\ pc'[c] \in Answers /\ pc'[c] # "inflight"
    BY <1>4 DEF TypeOK, ReceiveBody, Answers
  <2>2. \A d \in Calls : d # c => pc'[d] = pc[d]
    BY <1>4 DEF TypeOK, ReceiveBody
  <2> QED BY <1>4, <2>1, <2>2 DEF SentSoFar, ReceiveBody
<1>5. ASSUME NEW c \in Calls, ReceiveError(c) \/ Timeout(c) PROVE SentSoFar'
  BY <1>1, <1>5 DEF ReceiveError, Timeout
<1>6. ASSUME NEW c \in Calls, NEW a \in Attempts, ServiceApply(c, a) \/ ServiceDecline(c, a)
      PROVE  SentSoFar'
  <2>1. \A d \in Calls, b \in Attempts :
          request'[d][b] = "unsent" <=> request[d][b] = "unsent"
    BY <1>6 DEF TypeOK, ServiceApply, ServiceDecline
  <2> QED BY <1>6, <2>1, <1>0 DEF SentSoFar, ServiceApply, ServiceDecline
<1>7. CASE ResetTimer \/ RotateWindow \/ UNCHANGED vars
  BY <1>7 DEF SentSoFar, ResetTimer, RotateWindow, vars
<1> QED BY <1>2, <1>3, <1>4, <1>5, <1>6, <1>7 DEF Next, Client

\* A call that is answered changes its abstract status, and no other's.
LEMMA StatusAnswered ==
  ASSUME TypeOK, NEW c \in Calls, NEW x \in Answers, pc' = [pc EXCEPT ![c] = x]
  PROVE  callStatus' = [callStatus EXCEPT ![c] = x]
BY DEF TypeOK, callStatus

\* One that goes on does not.
LEMMA StatusPending ==
  ASSUME TypeOK, NEW c \in Calls, pc[c] \notin Answers,
         NEW x, x \notin Answers, pc' = [pc EXCEPT ![c] = x]
  PROVE  callStatus' = callStatus
BY DEF TypeOK, callStatus

\* What a change of the wire or of the loop does to the requests as seen by
\* RemoteCall.
LEMMA RequestSeen ==
  ASSUME TypeOK, NEW c \in Calls, NEW a \in Attempts, NEW x \in RequestStates,
         request' = [request EXCEPT ![c][a] = x]
  PROVE  callRequest' = [callRequest EXCEPT ![c][a] = Seen(x)]
<1> DEFINE row == [b \in Attempts |-> Seen(request[c][b])]
           after == [row EXCEPT ![a] = Seen(x)]
<1>1. \A d \in Calls, b \in Attempts :
        request'[d][b] = IF d = c /\ b = a THEN x ELSE request[d][b]
  BY DEF TypeOK
<1>2. callRequest[c] = row
  BY DEF callRequest
<1>3. [callRequest EXCEPT ![c][a] = Seen(x)] =
        [d \in Calls |-> IF d = c THEN after ELSE callRequest[d]]
  BY <1>2 DEF callRequest
<1>4. after = [b \in Attempts |-> Seen(request'[c][b])]
  <2>1. after = [b \in Attempts |-> IF b = a THEN Seen(x) ELSE Seen(request[c][b])]
    OBVIOUS
  <2>2. \A b \in Attempts :
          Seen(request'[c][b]) = IF b = a THEN Seen(x) ELSE Seen(request[c][b])
    BY <1>1
  <2> HIDE DEF after
  <2> QED BY <2>1, <2>2
<1>5. \A d \in Calls : d # c => callRequest[d] = [b \in Attempts |-> Seen(request'[d][b])]
  BY <1>1 DEF callRequest
<1>6. [d \in Calls |-> IF d = c THEN after ELSE callRequest[d]] =
        [d \in Calls |-> [b \in Attempts |-> Seen(request'[d][b])]]
  <2> HIDE DEF after
  <2> QED BY <1>4, <1>5
<1> QED BY <1>3, <1>6 DEF callRequest

\* Seen keeps apart what was sent and what was not.
LEMMA SeenUnsent ==
  ASSUME TypeOK, NEW c \in Calls, NEW a \in Attempts
  PROVE  callRequest[c][a] = "unsent" <=> request[c][a] = "unsent"
<1>1. request[c][a] \in RequestStates
  BY DEF TypeOK
<1> QED BY <1>1 DEF callRequest, Seen, RequestStates

\* Every step is a step of RemoteCall, or none.
LEMMA RemoteCallStep ==
  ASSUME TypeOK, SentSoFar, [Next]_vars
  PROVE  [RC!Next]_(RC!rcVars)
<1>0. \A c \in Calls : attempt[c] \in Attempts /\ attempt[c] \in Nat
  BY HttpClientAssumption DEF TypeOK, Attempts
<1>a. RC!Attempts = Attempts /\ RC!Answers = Answers /\ \A a \in Attempts : a \in Nat
  BY HttpClientAssumption DEF RC!Attempts, RC!Answers, Attempts, Answers
<1>b. ASSUME UNCHANGED <<pc, request>> PROVE UNCHANGED RC!rcVars
  BY <1>b DEF RC!rcVars, callStatus, callRequest
<1>1. ASSUME NEW c \in Calls, AttemptFailed(c), UNCHANGED request,
             pc[c] \in {"idle", "backoff", "inflight"}
      PROVE  RC!Fail(c) \/ UNCHANGED RC!rcVars
  <2>1. pc[c] \notin Answers /\ callStatus[c] = "pending"
    BY <1>1 DEF Answers, callStatus
  <2>2. callRequest' = callRequest
    BY <1>1 DEF callRequest
  <2>3. CASE pc' = [pc EXCEPT ![c] = "failed"]
    <3>1. callStatus' = [callStatus EXCEPT ![c] = "failed"]
      BY <2>3, StatusAnswered DEF Answers
    <3> QED BY <2>1, <2>2, <3>1 DEF RC!Fail
  <2>4. CASE pc' = [pc EXCEPT ![c] = "backoff"]
    <3>1. callStatus' = callStatus
      BY <2>1, <2>4, StatusPending DEF Answers
    <3> QED BY <2>2, <3>1 DEF RC!rcVars
  <2> QED BY <1>1, <2>1, <2>3, <2>4, AttemptFailedNext
<1>2. ASSUME NEW c \in Calls, FireRejected(c) PROVE RC!Fail(c) \/ UNCHANGED RC!rcVars
  BY <1>1, <1>2 DEF FireRejected, CanFire
<1>3. ASSUME NEW c \in Calls, FireAdmitted(c) PROVE RC!Send(c, attempt[c])
  <2>1. pc[c] \notin Answers /\ callStatus[c] = "pending"
    BY <1>3 DEF FireAdmitted, CanFire, Answers, callStatus
  <2>2. callStatus' = callStatus
    BY <1>3, <2>1, StatusPending DEF FireAdmitted, Answers
  <2>3. callRequest' = [callRequest EXCEPT ![c][attempt[c]] = "sent"]
    <3>1. PICK x \in RequestStates : x = "sent" /\ Seen(x) = "sent"
      BY DEF Seen, RequestStates
    <3>2. PICK a \in Attempts : a = attempt[c]
      BY <1>0
    <3>3. request' = [request EXCEPT ![c][a] = x]
      BY <1>3, <3>1, <3>2 DEF FireAdmitted
    <3>4. callRequest' = [callRequest EXCEPT ![c][a] = Seen(x)]
      BY <3>3, RequestSeen
    <3> QED BY <3>1, <3>2, <3>4
  <2>4. ASSUME NEW b \in Attempts, b >= attempt[c] PROVE callRequest[c][b] = "unsent"
    <3>1. pc[c] \notin {"inflight"} \cup Answers
      BY <1>3 DEF FireAdmitted, CanFire, Answers
    <3>2. request[c][b] = "unsent"
      BY <2>4, <3>1, <1>0, <1>a DEF SentSoFar
    <3> QED BY <3>2, SeenUnsent
  <2> QED BY <1>a, <2>1, <2>2, <2>3, <2>4 DEF RC!Send
<1>4. ASSUME NEW c \in Calls, ReceiveBody(c)
      PROVE  RC!Succeed(c, attempt[c]) \/ RC!Refuse(c, attempt[c]) \/ RC!Fail(c)
  <2>1. pc[c] = "inflight" /\ callStatus[c] = "pending"
    BY <1>4 DEF ReceiveBody, Answers, callStatus
  <2>2. callRequest' = callRequest
    BY <1>4 DEF ReceiveBody, callRequest
  <2>3. RC!Latest(c, attempt[c])
    <3>1. callRequest[c][attempt[c]] # "unsent"
      BY <2>1, <1>0, SeenUnsent DEF SentSoFar
    <3>2. ASSUME NEW b \in Attempts, b > attempt[c] PROVE callRequest[c][b] = "unsent"
      <4>1. request[c][b] = "unsent"
        BY <3>2, <1>0, <1>a DEF SentSoFar
      <4> QED BY <4>1, SeenUnsent
    <3> QED BY <1>a, <3>1, <3>2 DEF RC!Latest
  <2>4. CASE request[c][attempt[c]] = "acked" /\ pc' = [pc EXCEPT ![c] = "ok"]
    <3>1. callStatus' = [callStatus EXCEPT ![c] = "ok"]
      BY <2>4, StatusAnswered DEF Answers
    <3>2. callRequest[c][attempt[c]] = "applied"
      BY <2>4, <1>0 DEF callRequest, Seen
    <3> QED BY <2>1, <2>2, <2>3, <3>1, <3>2 DEF RC!Succeed
  <2>5. CASE request[c][attempt[c]] = "refused" /\ pc' = [pc EXCEPT ![c] = "refused"]
    <3>1. callStatus' = [callStatus EXCEPT ![c] = "refused"]
      BY <2>5, StatusAnswered DEF Answers
    <3>2. callRequest[c][attempt[c]] = "declined"
      BY <2>5, <1>0 DEF callRequest, Seen
    <3> QED BY <2>1, <2>2, <2>3, <3>1, <3>2 DEF RC!Refuse
  <2>6. CASE pc' = [pc EXCEPT ![c] = "failed"]
    <3>1. callStatus' = [callStatus EXCEPT ![c] = "failed"]
      BY <2>6, StatusAnswered DEF Answers
    <3> QED BY <2>1, <2>2, <3>1 DEF RC!Fail
  <2> QED BY <1>4, <2>4, <2>5, <2>6 DEF ReceiveBody
<1>5. ASSUME NEW c \in Calls, ReceiveError(c) \/ Timeout(c)
      PROVE  RC!Fail(c) \/ UNCHANGED RC!rcVars
  BY <1>1, <1>5 DEF ReceiveError, Timeout
<1>6. ASSUME NEW c \in Calls, NEW a \in Attempts, ServiceApply(c, a) PROVE RC!Apply(c, a)
  <2>1. PICK reply \in {"acked", "torn"} : request' = [request EXCEPT ![c][a] = reply]
    BY <1>6 DEF ServiceApply
  <2>2. Seen(reply) = "applied" /\ callRequest[c][a] = "sent" /\ reply \in RequestStates
    BY <1>6 DEF ServiceApply, Seen, callRequest, RequestStates
  <2>3. callStatus' = callStatus
    BY <1>6 DEF ServiceApply, callStatus
  <2>4. callRequest' = [callRequest EXCEPT ![c][a] = "applied"]
    BY <2>1, <2>2, RequestSeen
  <2> QED BY <2>2, <2>3, <2>4 DEF RC!Apply
<1>7. ASSUME NEW c \in Calls, NEW a \in Attempts, ServiceDecline(c, a) PROVE RC!Decline(c, a)
  <2>1. PICK reply \in {"refused", "errored"} : request' = [request EXCEPT ![c][a] = reply]
    BY <1>7 DEF ServiceDecline
  <2>2. Seen(reply) = "declined" /\ callRequest[c][a] = "sent" /\ reply \in RequestStates
    BY <1>7 DEF ServiceDecline, Seen, callRequest, RequestStates
  <2>3. callStatus' = callStatus
    BY <1>7 DEF ServiceDecline, callStatus
  <2>4. callRequest' = [callRequest EXCEPT ![c][a] = "declined"]
    BY <2>1, <2>2, RequestSeen
  <2> QED BY <2>2, <2>3, <2>4 DEF RC!Decline
<1>8. CASE ResetTimer \/ RotateWindow \/ UNCHANGED vars
  BY <1>8, <1>b DEF ResetTimer, RotateWindow, vars
<1>9. ASSUME NEW c \in Calls, Client(c) PROVE RC!Next \/ UNCHANGED RC!rcVars
  BY <1>9, <1>0, <1>a, <1>2, <1>3, <1>4, <1>5 DEF Client, RC!Next
<1>10. ASSUME NEW c \in Calls, NEW a \in Attempts, ServiceApply(c, a) \/ ServiceDecline(c, a)
       PROVE  RC!Next
  BY <1>10, <1>a, <1>6, <1>7 DEF RC!Next
<1> QED BY <1>8, <1>9, <1>10 DEF Next

\* Whatever the breaker, the retry loop and the service do, a call behaves as a
\* RemoteCall: it is answered at most once, a success is the service's reply to
\* the latest attempt, and nothing is sent after the answer.
THEOREM Implementation == Spec => ImplementsRemoteCall
<1>1. Init => RC!Init
  BY HttpClientAssumption
     DEF Init, RC!Init, callStatus, callRequest, Seen, Answers, Attempts, RC!Attempts
<1>2. Init => SentSoFar
  BY DEF Init, SentSoFar
<1>3. TypeOK /\ SentSoFar /\ [Next]_vars => [RC!Next]_(RC!rcVars)
  BY RemoteCallStep
<1> QED
  BY <1>1, <1>2, <1>3, TypeInit, TypeStep, SentSoFarStep, PTL
  DEF Spec, ImplementsRemoteCall, RC!Spec

(***************************************************************************)
(* The calls run out of steps: what EveryCallAnswered rests on, next to    *)
(* the timers that keep them going.                                        *)
(***************************************************************************)

\* How many more steps the client can take in call c: two for every attempt, to fire
\* it and to settle it, and none once it is answered.
Left(c) ==
  IF pc[c] \in Answers THEN 0
  ELSE 2 * (MaxRetries - attempt[c]) + IF pc[c] = "inflight" THEN 1 ELSE 2

LeftShrinks ==
  \A c \in Calls : Left(c)' <= Left(c) /\ (Client(c) => Left(c)' < Left(c))

\* The client's step in one call leaves fewer for it and as many for the others.
LEMMA ClientShrinks ==
  ASSUME TypeOK, NEW c \in Calls, Client(c)
  PROVE  /\ Left(c) \in Nat /\ Left(c)' \in Nat /\ Left(c)' < Left(c)
         /\ \A d \in Calls : d # c => Left(d)' = Left(d)
<1>0. MaxRetries \in Nat /\ \A d \in Calls : attempt[d] \in 0..MaxRetries
  BY HttpClientAssumption DEF TypeOK, Attempts
<1>1. ASSUME AttemptFailed(c), pc[c] \in {"idle", "backoff", "inflight"}
      PROVE  /\ Left(c) \in Nat /\ Left(c)' \in Nat /\ Left(c)' < Left(c)
             /\ \A d \in Calls : d # c => Left(d)' = Left(d)
  <2>1. CASE attempt[c] = MaxRetries
    <3>1. /\ pc'[c] = "failed" /\ attempt' = attempt
          /\ \A d \in Calls : d # c => pc'[d] = pc[d]
      BY <1>1, <2>1 DEF TypeOK, AttemptFailed
    <3> QED BY <1>0, <1>1, <2>1, <3>1 DEF Left, Answers
  <2>2. CASE attempt[c] # MaxRetries
    <3>1. /\ pc'[c] = "backoff" /\ attempt'[c] = attempt[c] + 1
          /\ \A d \in Calls : d # c => pc'[d] = pc[d] /\ attempt'[d] = attempt[d]
      BY <1>1, <2>2 DEF TypeOK, AttemptFailed
    <3> QED BY <1>0, <1>1, <2>2, <3>1 DEF Left, Answers
  <2> QED BY <2>1, <2>2
<1>2. CASE FireRejected(c)
  BY <1>1, <1>2 DEF FireRejected, CanFire
<1>3. CASE FireAdmitted(c)
  <2>1. /\ pc[c] \in {"idle", "backoff"} /\ pc'[c] = "inflight" /\ attempt' = attempt
        /\ \A d \in Calls : d # c => pc'[d] = pc[d]
    BY <1>3 DEF TypeOK, FireAdmitted, CanFire
  <2> QED BY <1>0, <2>1 DEF Left, Answers
<1>4. CASE ReceiveBody(c)
  <2>1. /\ pc[c] = "inflight" /\ pc'[c] \in Answers /\ attempt' = attempt
        /\ \A d \in Calls : d # c => pc'[d] = pc[d]
    BY <1>4 DEF TypeOK, ReceiveBody, Answers
  <2> QED BY <1>0, <2>1 DEF Left, Answers
<1>5. CASE ReceiveError(c) \/ Timeout(c)
  BY <1>1, <1>5 DEF ReceiveError, Timeout
<1> QED BY <1>2, <1>3, <1>4, <1>5 DEF Client

\* Nobody else's step gives a call more to do.
LEMMA OthersKeepLeft ==
  ASSUME UNCHANGED <<pc, attempt>>
  PROVE  \A c \in Calls : Left(c)' = Left(c)
BY DEF Left

\* A call of request() comes to an end: each step the client takes in it, whatever
\* the breaker, the service and the other calls do, uses up one of a number that no
\* step replenishes, and that is 2 * (MaxRetries + 1) when the call is made.  An
\* endless call would be one whose timers no longer fire.
THEOREM CallsRunOut == Spec => [][LeftShrinks]_vars
<1>1. TypeOK /\ [Next]_vars => [LeftShrinks]_vars
  <2> SUFFICES ASSUME TypeOK, Next, NEW c \in Calls
               PROVE  Left(c)' <= Left(c) /\ (Client(c) => Left(c)' < Left(c))
    BY DEF LeftShrinks
  <2>1. Left(c) \in Int
    BY HttpClientAssumption DEF TypeOK, Attempts, Left
  <2>2. ASSUME NEW d \in Calls, Client(d) PROVE Left(c)' <= Left(c)
    BY <2>1, <2>2, ClientShrinks
  <2>3. ASSUME UNCHANGED <<pc, attempt>> PROVE Left(c)' <= Left(c)
    BY <2>1, <2>3, OthersKeepLeft
  <2>4. (\E d \in Calls : Client(d)) \/ UNCHANGED <<pc, attempt>>
    BY DEF Next, ServiceApply, ServiceDecline, ResetTimer, RotateWindow
  <2> QED BY <2>2, <2>3, <2>4, ClientShrinks
<1> QED BY <1>1, TypeCorrect, PTL DEF Spec

=============================================================================
