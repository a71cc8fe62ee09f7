----------------------------- MODULE MCMessaging -----------------------------
(* Messaging with two copies of one event, a second event, and junk.        *)
EXTENDS Messaging

CONSTANTS m1, m2, m3, m4, id1, id2, id3

AllIds == [m \in Messages |->
  CASE m \in {m1, m2} -> id1 [] m = m3 -> id2 [] OTHER -> id3]

CONSTANT TheType
OneType == {TheType}
AllTypes == [m \in Messages |-> TheType]
=============================================================================
