----------------------------- MODULE RemoteCall -----------------------------
(***************************************************************************)
(* What a call through one of the gateway's HTTP clients promises to the   *)
(* business service that awaits it, with the retries and the circuit       *)
(* breaker out of sight: BaseHttpClient.request never throws, it answers   *)
(* "ok" (success: true), "refused" (the service said success: false) or    *)
(* "failed" (success: false with status code 500).                         *)
(*                                                                         *)
(* The promise is weak on purpose.  An attempt that timed out stays on its *)
(* way to the service, so it may still be applied after the call has been  *)
(* answered; only "ok" says anything about what the service did.           *)
(***************************************************************************)
EXTENDS Naturals

CONSTANTS
  Calls,      \* the calls made
  MaxRetries  \* attempts beyond the first, 2 in BaseHttpClient.request

VARIABLES
  status,   \* status[c]: what the awaiting code knows of call c ("pending" until
            \* it is answered, made or not)
  request   \* request[c][a]: what became of attempt a of call c

rcVars == <<status, request>>

Attempts == 0..MaxRetries
Answers == {"ok", "refused", "failed"}

TypeOK ==
  /\ status \in [Calls -> {"pending"} \cup Answers]
  /\ request \in [Calls -> [Attempts -> {"unsent", "sent", "applied", "declined"}]]

Init ==
  /\ status = [c \in Calls |-> "pending"]
  /\ request = [c \in Calls |-> [a \in Attempts |-> "unsent"]]

\* Attempt a is the latest of c that left the gateway: only its reply counts.
Latest(c, a) ==
  /\ request[c][a] # "unsent"
  /\ \A b \in Attempts : b > a => request[c][b] = "unsent"

\* An attempt leaves the gateway, after every earlier one.
Send(c, a) ==
  /\ status[c] = "pending"
  /\ \A b \in Attempts : b >= a => request[c][b] = "unsent"
  /\ request' = [request EXCEPT ![c][a] = "sent"]
  /\ UNCHANGED status

\* The service takes an attempt, however late, and applies it or declines it.
Apply(c, a) ==
  /\ request[c][a] = "sent"
  /\ request' = [request EXCEPT ![c][a] = "applied"]
  /\ UNCHANGED status

Decline(c, a) ==
  /\ request[c][a] = "sent"
  /\ request' = [request EXCEPT ![c][a] = "declined"]
  /\ UNCHANGED status

Succeed(c, a) ==
  /\ status[c] = "pending"
  /\ Latest(c, a)
  /\ request[c][a] = "applied"
  /\ status' = [status EXCEPT ![c] = "ok"]
  /\ UNCHANGED request

Refuse(c, a) ==
  /\ status[c] = "pending"
  /\ Latest(c, a)
  /\ request[c][a] = "declined"
  /\ status' = [status EXCEPT ![c] = "refused"]
  /\ UNCHANGED request

Fail(c) ==
  /\ status[c] = "pending"
  /\ status' = [status EXCEPT ![c] = "failed"]
  /\ UNCHANGED request

Next ==
  \E c \in Calls :
    \/ \E a \in Attempts :
         Send(c, a) \/ Apply(c, a) \/ Decline(c, a) \/ Succeed(c, a) \/ Refuse(c, a)
    \/ Fail(c)

Spec == Init /\ [][Next]_rcVars

=============================================================================
