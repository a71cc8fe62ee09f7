---------------------------- MODULE MCSignupSaga ----------------------------
(* SignupSaga for signups that all ask for one address. *)
EXTENDS SignupSaga, FiniteSets, TLC

CONSTANTS TheEmail, MaxOnTheWay, MaxRetried

OneEmail == {TheEmail}
EmailOfAll == [s \in Signups |-> TheEmail]

RequestsThatAre(states, attempts) ==
  Cardinality({ca \in (Signups \X Kinds) \X attempts : request[ca[1]][ca[2]] \in states})

\* Bounds: requests under way to the services, and attempts beyond the first of
\* their call.
FewOnTheWay == RequestsThatAre({"sent"}, Attempts) <= MaxOnTheWay
FewRetried ==
  RequestsThatAre({"sent", "applied", "declined"}, Attempts \ {0}) <= MaxRetried

Symmetry == Permutations(Signups)
=============================================================================
