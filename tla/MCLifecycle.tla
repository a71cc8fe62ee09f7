---------------------------- MODULE MCLifecycle ----------------------------
(* Lifecycle with a signup, a reader and the message of another service.    *)
EXTENDS Lifecycle

CONSTANTS m1, m2, id1, id2, s1, TheType

TheIds == [m \in Messages |-> IF m = m1 THEN id1 ELSE id2]
OneType == {TheType}
AllTypes == [m \in Messages |-> TheType]
TheEvent == [s \in Signups |-> m1]
=============================================================================
