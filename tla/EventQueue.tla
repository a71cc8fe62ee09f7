----------------------------- MODULE EventQueue -----------------------------
(***************************************************************************)
(* What publishing and consuming through RabbitMQService and               *)
(* RabbitMQConsumerService come to: a queue that delivers at least once.   *)
(*                                                                         *)
(* A copy of an event that has entered the queue stays until its handler   *)
(* completed, until its event was handled through another delivery, or     *)
(* until it was refused: it does not parse, no handler knows its type, or  *)
(* its handler failed.  Then it is out for good.  A handler may complete   *)
(* for a copy that stays.  A copy may be lost, but only on its way in.     *)
(***************************************************************************)
EXTENDS Naturals

CONSTANTS Messages, EventIds, IdOf

VARIABLES
  stage,    \* stage[m]: where copy m of its event is
  effects   \* effects[id]: times a handler completed for the event

TypeOK ==
  /\ stage \in [Messages -> {"outside", "queued", "lost", "processed", "duplicate", "refused"}]
  /\ effects \in [EventIds -> Nat]

Init ==
  /\ stage = [m \in Messages |-> "outside"]
  /\ effects = [id \in EventIds |-> 0]

Move(m, from, to) ==
  /\ stage[m] = from
  /\ stage' = [stage EXCEPT ![m] = to]

Complete(m) == effects' = [effects EXCEPT ![IdOf[m]] = @ + 1]

Handle(m) == Move(m, "queued", "processed") /\ Complete(m)

HandleAndKeep(m) == stage[m] = "queued" /\ Complete(m) /\ UNCHANGED stage

Skip(m) == effects[IdOf[m]] > 0 /\ Move(m, "queued", "duplicate") /\ UNCHANGED effects

Refuse(m) == Move(m, "queued", "refused") /\ UNCHANGED effects

\* The copies on their way in when a channel ends share their fate.
WayIn ==
  /\ \E ms \in SUBSET Messages, to \in {"queued", "lost"} :
       /\ \A m \in ms : stage[m] = "outside"
       /\ stage' = [m \in Messages |-> IF m \in ms THEN to ELSE stage[m]]
  /\ UNCHANGED effects

Next ==
  \/ WayIn
  \/ \E m \in Messages : Handle(m) \/ HandleAndKeep(m) \/ Skip(m) \/ Refuse(m)

Spec == Init /\ [][Next]_<<stage, effects>>

=============================================================================
