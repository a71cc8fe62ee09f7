---------------------------- MODULE MCAuthSession ----------------------------
(* AuthSession on small instances. *)
EXTENDS AuthSession, FiniteSets

\* Bounds: one request is retried, no login is (nothing the client can present
\* depends on which attempt of a login it was given), one access token expires,
\* and two attempts are on their way to the service at any time.
Retried == {k \in Requests : \E a \in Attempts : a > 0 /\ request[k][a] # "unsent"}
FewRetried == Cardinality(Retried) <= 1 /\ Retried \cap Logins = {}
FewExpire == Cardinality(expired) <= 1
FewOnTheWay == Cardinality({ka \in Requests \X Attempts : request[ka[1]][ka[2]] = "sent"}) <= 2
=============================================================================
