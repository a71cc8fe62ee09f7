------------------------------- MODULE Videos -------------------------------
(***************************************************************************)
(* VideoBusinessService over VideoServiceClient: the three operations make *)
(* one call each, through one HTTP client and its one circuit breaker, and *)
(* turn every kind of failure into an answer of their own.  The timeout    *)
(* interceptor may answer first; the call goes on.                         *)
(*                                                                         *)
(* The client is HttpClient as it stands.  Time is counted in attempts:    *)
(* one takes at most CallTimeout, a sleep between two takes next to        *)
(* nothing, so the number of attempts made bounds the time gone from       *)
(* above, and the number of those that timed out from below.               *)
(***************************************************************************)
EXTENDS Integers

CONSTANTS
  Calls,           \* the requests, one call each
  Op,              \* Op[c]: "list", "upload" or "stream"
  CallTimeout,     \* circuitBreaker.timeout, in seconds: 5 by default
  RequestTimeout,  \* requestTimeout, 10 by default
  MaxRetries, ErrorThreshold, Buckets, EarlyReset

VARIABLES
  pc, attempt, request, breaker, pendingClose, fires, failures,  \* HttpClient
  reply,     \* reply[c]: what the request was answered
  timedOut   \* timedOut[c]: attempts that opossum gave up waiting for

Client == INSTANCE HttpClient

ASSUME VideosAssumption ==
  /\ Client!HttpClientAssumption
  /\ Op \in [Calls -> {"list", "upload", "stream"}]
  /\ CallTimeout \in Nat \ {0}
  /\ RequestTimeout \in Nat \ {0}

clientVars == <<pc, attempt, request, breaker, pendingClose, fires, failures>>
vars == <<clientVars, reply, timedOut>>

Attempts == 0..MaxRetries

\* The answers that stand in for a failure: an empty list, else a 404.
Fallback(c) == IF Op[c] = "list" THEN "empty" ELSE "notFound"

TypeOK ==
  /\ Client!TypeOK
  /\ reply \in [Calls -> {"none", "data", "empty", "notFound", "timeout"}]
  /\ timedOut \in [Calls -> Attempts \cup {MaxRetries + 1}]

Init ==
  /\ Client!Init
  /\ reply = [c \in Calls |-> "none"]
  /\ timedOut = [c \in Calls |-> 0]

-----------------------------------------------------------------------------
OutcomesUnchecked(c, answer) ==
  CASE answer = "ok" -> {"data", Fallback(c)}
    [] answer = "refused" -> {"data"}
    [] OTHER -> {Fallback(c)}

\* What the operation makes of the client's answer; a success may lack data.
Outcomes(c, answer) ==
  IF answer = "ok" THEN {"data", Fallback(c)} ELSE {Fallback(c)}

\* The operation continues in the step that answers its call.
Continue(c) ==
  IF pc'[c] \in Client!Answers /\ reply[c] = "none"
  THEN \E r \in Outcomes(c, pc'[c]) : reply' = [reply EXCEPT ![c] = r]
  ELSE UNCHANGED reply

AttemptsMade(c) == attempt[c] + IF pc[c] = "inflight" THEN 1 ELSE 0

\* Attempts do not last long enough for the interceptor's timer before there
\* are this many of them ...
MayHaveElapsed(c) == AttemptsMade(c) * CallTimeout >= RequestTimeout

\* ... and the timer has run when this many have timed out, with a sleep before
\* the last.
MustHaveElapsed(c) == attempt[c] > 0 /\ (timedOut[c] + 1) * CallTimeout >= RequestTimeout

Proceed(c) ==
  /\ Client!FireRejected(c) \/ Client!FireAdmitted(c)
     \/ Client!ReceiveBody(c) \/ Client!ReceiveError(c)
  /\ Continue(c)
  /\ UNCHANGED timedOut

AttemptTimesOut(c) ==
  /\ MustHaveElapsed(c) => reply[c] # "none"
  /\ Client!Timeout(c)
  /\ timedOut' = [timedOut EXCEPT ![c] = @ + 1]
  /\ Continue(c)

RequestTimesOutEarly(c) ==
  /\ pc[c] \in {"inflight", "backoff"}
  /\ reply[c] = "none"
  /\ reply' = [reply EXCEPT ![c] = "timeout"]
  /\ UNCHANGED <<clientVars, timedOut>>

\* TimeoutInterceptor.  The call is not cancelled.
RequestTimesOut(c) ==
  /\ pc[c] \in {"inflight", "backoff"}
  /\ reply[c] = "none"
  /\ MayHaveElapsed(c)
  /\ reply' = [reply EXCEPT ![c] = "timeout"]
  /\ UNCHANGED <<clientVars, timedOut>>

\* The video service, opossum's reset timer and its window.
Environment ==
  /\ \/ \E c \in Calls, a \in Attempts : Client!ServiceApply(c, a) \/ Client!ServiceDecline(c, a)
     \/ Client!ResetTimer
     \/ Client!RotateWindow
  /\ UNCHANGED <<reply, timedOut>>

Next ==
  \/ \E c \in Calls : Proceed(c) \/ AttemptTimesOut(c) \/ RequestTimesOut(c)
  \/ Environment

Spec == Init /\ [][Next]_vars

-----------------------------------------------------------------------------
(* Properties. *)

\* Data is an answer of the service to the attempt that waited for it, also if
\* an earlier attempt was given up and answered since: an upload that is
\* answered 201 was stored.
DataWasServed(c) ==
  reply[c] = "data" => \E a \in Attempts :
    /\ request[c][a] = "acked"
    /\ \A b \in Attempts : b > a => request[c][b] = "unsent"

\* An operation that is answered with its fallback without ever having reached
\* the video service owes it to a failure of another: an upload that fails once
\* empties the listings of everybody, since they share a breaker that one failure
\* opens.  Load alone, or the first call, never turns anybody away.
TurnedAwayHasReason(c) ==
  reply[c] \in {"empty", "notFound"} /\ (\A a \in Attempts : request[c][a] = "unsent") =>
    \E d \in Calls \ {c} : \E a \in Attempts :
      request[d][a] # "unsent" /\ (a < attempt[d] \/ pc[d] = "failed")

\* What an operation answers, data or fallback, has a reason in what became of
\* the requests to the video service.
AnswerHasReason == \A c \in Calls : DataWasServed(c) /\ TurnedAwayHasReason(c)

\* The budgets of the two timeouts: the request timeout runs out while its last
\* attempt is still to come, so the service may be asked for what nobody waits
\* for, but with the defaults for the last attempt only, and never for a request
\* that was answered otherwise.
LateSendIsLast ==
  [][\A c \in Calls, a \in Attempts :
       reply[c] # "none" /\ request[c][a] = "unsent" /\ request'[c][a] # "unsent" =>
         reply[c] = "timeout" /\ a * CallTimeout >= RequestTimeout]_vars

=============================================================================
