------------------------------ MODULE MCVideos ------------------------------
(* Videos with a listing and an upload. *)
EXTENDS Videos, FiniteSets

CONSTANTS listing, upload

OpOf == [c \in Calls |-> IF c = listing THEN "list" ELSE "upload"]

\* Bound: five attempts between the two, two of them unanswered by the service
\* and one answered by an error, two in a window.
FewAttempts ==
  /\ attempt[listing] + attempt[upload] <= 3
  /\ Cardinality({ca \in Calls \X Attempts : request[ca[1]][ca[2]] = "sent"}) <= 2
  /\ Cardinality({ca \in Calls \X Attempts : request[ca[1]][ca[2]] \in {"torn", "errored"}}) <= 1
  /\ fires[1] <= 2
=============================================================================
