----------------------------- MODULE HttpClient -----------------------------
(***************************************************************************)
(* One BaseHttpClient instance: every call made through it, the retry loop *)
(* of retryWithBackoff around each, the one opossum circuit breaker all of *)
(* them share, and the service at the other end of the wire.               *)
(*                                                                         *)
(* request(), the first fire() and the rejection of an open breaker run in *)
(* one synchronous stretch of the event loop, so they are one action; each *)
(* await is a point where other calls interleave.  A request that opossum  *)
(* times out is not aborted: it stays where it is and the service may take *)
(* it later.  A lost request is one the service never takes, a lost reply  *)
(* one that is never received; the breaker's timeout answers both.         *)
(***************************************************************************)
EXTENDS Integers, Functions

CONSTANTS
  Calls,           \* concurrent calls of request()
  MaxRetries,      \* 2 in BaseHttpClient.request
  ErrorThreshold,  \* errorThresholdPercentage, 50 by default; never checked
  Buckets,         \* buckets of opossum's rolling statistics, 10 by default
  EarlyReset       \* resetTimeout may be shorter than a call's timeout: the
                   \* configuration allows it, the defaults (30 s, 5 s) do not

ASSUME HttpClientAssumption ==
  /\ MaxRetries \in Nat
  /\ ErrorThreshold \in Int
  /\ Buckets \in Nat \ {0}
  /\ EarlyReset \in BOOLEAN

VARIABLES
  pc,            \* pc[c]: where call c is, or how it was answered
  attempt,       \* attempt[c]: the loop variable of retryWithBackoff
  request,       \* request[c][a]: attempt a on the wire and at the service
  breaker,       \* opossum's state
  pendingClose,  \* a half-open breaker waits for the call that tries it
  fires,         \* fires[i], failures[i]: counts of the i-th youngest bucket
  failures

breakerVars == <<breaker, pendingClose, fires, failures>>
vars == <<pc, attempt, request, breaker, pendingClose, fires, failures>>

Attempts == 0..MaxRetries
Answers == {"ok", "refused", "failed"}

\* A request is applied or not, and answered by a body with success true
\* ("acked"), by one with success false ("refused"), or by an error: a status
\* of 400 or more, a connection refused or one reset after the effect ("torn").
RequestStates == {"unsent", "sent", "acked", "torn", "refused", "errored"}

TypeOK ==
  /\ pc \in [Calls -> {"idle", "inflight", "backoff"} \cup Answers]
  /\ attempt \in [Calls -> Attempts]
  /\ request \in [Calls -> [Attempts -> RequestStates]]
  /\ breaker \in {"closed", "open", "halfOpen"}
  /\ pendingClose \in BOOLEAN
  /\ fires \in [1..Buckets -> Nat]
  /\ failures \in [1..Buckets -> Nat]

Init ==
  /\ pc = [c \in Calls |-> "idle"]
  /\ attempt = [c \in Calls |-> 0]
  /\ request = [c \in Calls |-> [a \in Attempts |-> "unsent"]]
  /\ breaker = "closed"
  /\ pendingClose = FALSE
  /\ fires = [i \in 1..Buckets |-> 0]
  /\ failures = [i \in 1..Buckets |-> 0]

-----------------------------------------------------------------------------
(* The retry loop. *)

\* Faulty forms, each a plausible bug that a property must notice, stand before
\* the definition they deform.
AttemptFailedOneTooMany(c) ==
  IF attempt[c] > MaxRetries
  THEN /\ pc' = [pc EXCEPT ![c] = "failed"]
       /\ UNCHANGED attempt
  ELSE /\ pc' = [pc EXCEPT ![c] = "backoff"]
       /\ attempt' = [attempt EXCEPT ![c] = @ + 1]

AttemptFailedUncounted(c) ==
  IF attempt[c] = MaxRetries
  THEN /\ pc' = [pc EXCEPT ![c] = "failed"]
       /\ UNCHANGED attempt
  ELSE /\ pc' = [pc EXCEPT ![c] = "backoff"]
       /\ UNCHANGED attempt

\* The attempt threw: give up after the last one, else sleep before the next.
AttemptFailed(c) ==
  IF attempt[c] = MaxRetries
  THEN /\ pc' = [pc EXCEPT ![c] = "failed"]
       /\ UNCHANGED attempt
  ELSE /\ pc' = [pc EXCEPT ![c] = "backoff"]
       /\ attempt' = [attempt EXCEPT ![c] = @ + 1]

\* A call is made, or wakes from its backoff.
CanFire(c) == pc[c] \in {"idle", "backoff"}

(* opossum's fire() and the two ways it settles. *)

AdmitsOneAtATime ==
  (breaker = "closed" /\ \A c \in Calls : pc[c] # "inflight") \/ pendingClose

AdmitsUnlessOpen == breaker # "open"

Admits == breaker = "closed" \/ pendingClose

CountFire == fires' = [fires EXCEPT ![1] = @ + 1]

\* fire() rejects with "Breaker is open", which retryWithBackoff treats as any
\* other error.
FireRejected(c) ==
  /\ CanFire(c)
  /\ ~Admits
  /\ CountFire
  /\ AttemptFailed(c)
  /\ UNCHANGED <<request, breaker, pendingClose, failures>>

FireAdmitted(c) ==
  /\ CanFire(c)
  /\ Admits
  /\ CountFire
  /\ pendingClose' = FALSE
  /\ pc' = [pc EXCEPT ![c] = "inflight"]
  /\ request' = [request EXCEPT ![c][attempt[c]] = "sent"]
  /\ UNCHANGED <<attempt, breaker, failures>>

OverThreshold(fired, failed) == failed * 100 > ErrorThreshold * fired

BreakerFailureByRateOnly ==
  /\ failures' = [failures EXCEPT ![1] = @ + 1]
  /\ IF OverThreshold(SumFunction(fires), SumFunction(failures) + 1)
     THEN /\ breaker' = "open"
          /\ pendingClose' = FALSE
     ELSE UNCHANGED <<breaker, pendingClose>>
  /\ UNCHANGED fires

\* The failure is counted, then the rate looked at: no minimum of calls is
\* configured, and a half-open breaker opens at once.
BreakerFailure ==
  /\ failures' = [failures EXCEPT ![1] = @ + 1]
  /\ IF breaker = "halfOpen" \/ OverThreshold(SumFunction(fires), SumFunction(failures) + 1)
     THEN /\ breaker' = "open"
          /\ pendingClose' = FALSE
     ELSE UNCHANGED <<breaker, pendingClose>>
  /\ UNCHANGED fires

BreakerSuccessAlwaysCloses ==
  /\ breaker' = "closed"
  /\ pendingClose' = FALSE
  /\ UNCHANGED <<fires, failures>>

BreakerSuccess ==
  /\ IF breaker = "halfOpen"
     THEN /\ breaker' = "closed"
          /\ pendingClose' = FALSE
     ELSE UNCHANGED <<breaker, pendingClose>>
  /\ UNCHANGED <<fires, failures>>

ReceiveBodyOfAnyAttempt(c) ==
  /\ pc[c] = "inflight"
  /\ \E a \in Attempts :
       /\ request[c][a] = "acked"
       /\ pc' = [pc EXCEPT ![c] = "ok"]
  /\ BreakerSuccess
  /\ UNCHANGED <<attempt, request>>

\* The reply to the attempt the call is waiting for is a 2xx.  The body is read
\* after the retry loop; a JSON null throws there, which makes a failed call of
\* what the breaker counted as a success.
ReceiveBody(c) ==
  /\ pc[c] = "inflight"
  /\ \/ /\ request[c][attempt[c]] = "acked"
        /\ pc' = [pc EXCEPT ![c] = "ok"]
     \/ /\ request[c][attempt[c]] = "refused"
        /\ pc' = [pc EXCEPT ![c] = "refused"]
     \/ /\ request[c][attempt[c]] \in {"acked", "refused"}
        /\ pc' = [pc EXCEPT ![c] = "failed"]
  /\ BreakerSuccess
  /\ UNCHANGED <<attempt, request>>

ReceiveError(c) ==
  /\ pc[c] = "inflight"
  /\ request[c][attempt[c]] \in {"torn", "errored"}
  /\ BreakerFailure
  /\ AttemptFailed(c)
  /\ UNCHANGED request

\* opossum's timer, which may run before a reply that is already under way.
Timeout(c) ==
  /\ pc[c] = "inflight"
  /\ BreakerFailure
  /\ AttemptFailed(c)
  /\ UNCHANGED request

\* With the default timeouts every call admitted before the breaker opened has
\* been settled by then.
ResetTimer ==
  /\ breaker = "open"
  /\ EarlyReset \/ \A c \in Calls : pc[c] # "inflight"
  /\ breaker' = "halfOpen"
  /\ pendingClose' = TRUE
  /\ UNCHANGED <<pc, attempt, request, fires, failures>>

\* The oldest bucket of the statistics is dropped.
RotateWindow ==
  /\ fires' = [i \in 1..Buckets |-> IF i = 1 THEN 0 ELSE fires[i - 1]]
  /\ failures' = [i \in 1..Buckets |-> IF i = 1 THEN 0 ELSE failures[i - 1]]
  /\ UNCHANGED <<pc, attempt, request, breaker, pendingClose>>

-----------------------------------------------------------------------------
(* The service. *)

ServiceApply(c, a) ==
  /\ request[c][a] = "sent"
  /\ \E reply \in {"acked", "torn"} : request' = [request EXCEPT ![c][a] = reply]
  /\ UNCHANGED <<pc, attempt, breakerVars>>

ServiceDecline(c, a) ==
  /\ request[c][a] = "sent"
  /\ \E reply \in {"refused", "errored"} : request' = [request EXCEPT ![c][a] = reply]
  /\ UNCHANGED <<pc, attempt, breakerVars>>

-----------------------------------------------------------------------------
Client(c) ==
  \/ FireRejected(c)
  \/ FireAdmitted(c)
  \/ ReceiveBody(c)
  \/ ReceiveError(c)
  \/ Timeout(c)

Next ==
  \/ \E c \in Calls : Client(c)
  \/ \E c \in Calls, a \in Attempts : ServiceApply(c, a) \/ ServiceDecline(c, a)
  \/ ResetTimer
  \/ RotateWindow

Spec == Init /\ [][Next]_vars

\* Timers fire: opossum's timeout and reset timer, and the sleep of the retry
\* loop.  Nothing is assumed of the service or the network.
Fairness ==
  /\ \A c \in Calls :
       /\ WF_vars(pc[c] = "backoff" /\ (FireRejected(c) \/ FireAdmitted(c)))
       /\ WF_vars(Timeout(c))
  /\ WF_vars(ResetTimer)

FairSpec == Spec /\ Fairness

-----------------------------------------------------------------------------
(* Properties.  A comment over each names the behaviour it is about. *)

\* A half-open breaker that has spent its trial (pendingClose is FALSE, so it
\* rejects everyone) still has a call in flight whose outcome will move it.
\* Otherwise the client would reject every call until the process restarts:
\* opossum starts its reset timer only when it opens.
HalfOpenHasTrial ==
  breaker = "halfOpen" /\ ~pendingClose => \E c \in Calls : pc[c] = "inflight"

\* "HALF-OPEN (allow one test call)": with the default timeouts, a half-open
\* breaker has at most one request outstanding to a service that is believed
\* sick, and none before the trial is admitted.
OneTrialAtATime ==
  ~EarlyReset /\ breaker = "halfOpen" =>
    \A c, d \in Calls :
      pc[c] = "inflight" /\ pc[d] = "inflight" => c = d /\ ~pendingClose

\* With the default timeouts, the breaker closes only on the success of a call
\* admitted as the trial, never on that of one older than the outage.
ClosedByTrial ==
  [][~EarlyReset /\ breaker # "closed" /\ breaker' = "closed" =>
       /\ breaker = "halfOpen" /\ ~pendingClose
       /\ \E c \in Calls : pc[c] = "inflight" /\ pc'[c] \in Answers]_vars

\* The retry loop terminates whatever the service, the network and the breaker
\* do: request() answers every call.
EveryCallAnswered ==
  \A c \in Calls : pc[c] \in {"inflight", "backoff"} ~> pc[c] \in Answers

\* What business code may rely on: a call is a RemoteCall, seen without the
\* loop, the breaker and the way the replies take.
callStatus == [c \in Calls |-> IF pc[c] \in Answers THEN pc[c] ELSE "pending"]

Seen(state) ==
  CASE state \in {"acked", "torn"} -> "applied"
    [] state \in {"refused", "errored"} -> "declined"
    [] OTHER -> state

callRequest == [c \in Calls |-> [a \in Attempts |-> Seen(request[c][a])]]

RC == INSTANCE RemoteCall WITH status <- callStatus, request <- callRequest

ImplementsRemoteCall == RC!Spec

=============================================================================
