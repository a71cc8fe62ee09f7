------------------------------ MODULE Messaging ------------------------------
(***************************************************************************)
(* RabbitMQService and RabbitMQConsumerService in one gateway process, and *)
(* the broker's gateway.events queue with its dead-letter queue.           *)
(*                                                                         *)
(* The consumer asks for manual acknowledgement and sets no prefetch, so   *)
(* the broker hands over every ready message at once and the handlers run  *)
(* interleaved at their awaits.  Losing the connection is only logged: the *)
(* channel object stays, its operations throw, and nothing reconnects.     *)
(* What the consumers of events may rely on, with the connection and the   *)
(* process out of sight, is the specification EventQueue.                  *)
(*                                                                         *)
(* External: the broker requeues unacknowledged messages when a channel    *)
(* ends and dead-letters rejected ones; Node ends the process on the       *)
(* rejection that handleMessage leaves unhandled; something restarts it.   *)
(***************************************************************************)
EXTENDS Naturals, Sequences, FiniteSets, Functions

CONSTANTS
  Messages,     \* copies of events
  EventIds,
  Types,        \* event types, which are also the routing keys
  IdOf,         \* IdOf[m]: eventId; two copies may carry one id
  TypeOf,       \* TypeOf[m]: eventType
  Malformed,    \* copies that JSON.parse refuses
  Own,          \* copies this gateway publishes; others put the rest in the queue
  QueueBound,   \* somebody bound gateway.events to the exchange; the code does not
  MaxIds,       \* capacity of processedIds, 10000 in the code
  MaxRestarts   \* bound: restarts of the process

ASSUME MessagingAssumption ==
  /\ IdOf \in [Messages -> EventIds]
  /\ \A id \in EventIds : IsFiniteSet({m \in Messages : IdOf[m] = id})
  /\ TypeOf \in [Messages -> Types]
  /\ Malformed \subseteq Messages
  /\ Own \subseteq Messages \ Malformed
  /\ QueueBound \in BOOLEAN
  /\ MaxIds \in Nat \ {0}
  /\ MaxRestarts \in Nat

VARIABLES
  place,      \* place[m]: where copy m is, or how it left the queue
  link,       \* RabbitMQService's connection; its channel is null until "open"
  consumer,   \* the consumer's onModuleInit: not run, or its outcome
  handlers,   \* types registered with registerHandler
  running,    \* copies whose handler has been called and not yet settled
  processed,  \* processedIds, oldest first
  effects,    \* effects[id]: times a handler completed for the event
  restarts    \* restarts so far; the process is down when link is "down"

processVars == <<link, consumer, handlers, running, processed>>
vars == <<place, link, consumer, handlers, running, processed, effects, restarts>>

\* A copy leaves the queue by an ack after its handler completed, as a
\* duplicate, or without a handler, or by a nack into the dead-letter queue.
Settled == {"processed", "duplicate", "unhandled", "dead"}

TypeOK ==
  /\ place \in [Messages -> {"absent", "buffered", "lost", "unrouted", "ready", "unacked"} \cup Settled]
  /\ link \in {"connecting", "open", "failed", "closed", "down"}
  /\ consumer \in {"starting", "attached", "detached"}
  /\ handlers \subseteq Types
  /\ running \subseteq Messages
  /\ processed \in Seq(EventIds)
  /\ effects \in [EventIds -> Nat]
  /\ restarts \in 0..MaxRestarts

Fresh ==
  /\ consumer = "starting"
  /\ handlers = {}
  /\ running = {}
  /\ processed = <<>>

Init ==
  /\ place = [m \in Messages |-> "absent"]
  /\ link = "connecting"
  /\ Fresh
  /\ effects = [id \in EventIds |-> 0]
  /\ restarts = 0

Move(m, where) == place' = [place EXCEPT ![m] = where]

-----------------------------------------------------------------------------
(* Start-up: the two onModuleInit hooks of one module, in any order. *)

\* "closed" when an assertion about a queue failed and took the channel along.
Connect ==
  /\ link = "connecting"
  /\ link' \in {"open", "failed", "closed"}
  /\ UNCHANGED <<place, consumer, handlers, running, processed, effects, restarts>>

\* startConsuming: without a channel it warns and is never tried again.  (On a
\* closed one consume() rejects and the start-up fails, which is a Crash.)
StartConsuming ==
  /\ consumer = "starting"
  /\ link \notin {"closed", "down"}
  /\ consumer' = IF link = "open" THEN "attached" ELSE "detached"
  /\ UNCHANGED <<place, link, handlers, running, processed, effects, restarts>>

RegisterHandler(t) ==
  /\ link # "down"
  /\ handlers' = handlers \cup {t}
  /\ UNCHANGED <<place, link, consumer, running, processed, effects, restarts>>

-----------------------------------------------------------------------------
(* Publishing. *)

\* The only binding the code makes to the exchange is that of the dead-letter
\* queue, for keys no event type has.
RoutedTo == IF QueueBound THEN "ready" ELSE "unrouted"

\* publish() writes to the socket and returns TRUE, with no confirmation from
\* the broker; without a usable channel it returns FALSE and changes nothing.
Publish(m) ==
  /\ m \in Own
  /\ place[m] = "absent"
  /\ link = "open"
  /\ Move(m, "buffered")
  /\ UNCHANGED <<processVars, effects, restarts>>

Route(m) ==
  /\ place[m] = "buffered"
  /\ Move(m, RoutedTo)
  /\ UNCHANGED <<processVars, effects, restarts>>

Arrive(m) ==
  /\ m \in Messages \ Own
  /\ place[m] = "absent"
  /\ Move(m, "ready")
  /\ UNCHANGED <<processVars, effects, restarts>>

-----------------------------------------------------------------------------
(* handleMessage.  It runs to its first await in the delivery. *)

Delivered(m) ==
  /\ place[m] = "ready"
  /\ consumer = "attached"
  /\ link = "open"

Known(m) == IdOf[m] \in Range(processed)
HasHandler(m) == TypeOf[m] \in handlers

DeliverSettled(m) ==
  /\ Delivered(m)
  /\ \/ m \in Malformed /\ Move(m, "dead")
     \/ m \notin Malformed /\ Known(m) /\ Move(m, "duplicate")
     \/ m \notin Malformed /\ ~Known(m) /\ ~HasHandler(m) /\ Move(m, "unhandled")
  /\ UNCHANGED <<processVars, effects, restarts>>

RememberOneTooMany(ids, id) ==
  LET added == IF id \in Range(ids) THEN ids ELSE Append(ids, id)
  IN IF Len(added) > MaxIds + 1 THEN Tail(added) ELSE added

\* Set.add keeps an id that is there already; the oldest is evicted when there
\* are too many.
Remember(ids, id) ==
  LET added == IF id \in Range(ids) THEN ids ELSE Append(ids, id)
  IN IF Len(added) > MaxIds THEN Tail(added) ELSE added

Remembered(m) == processed' = Remember(processed, IdOf[m])

HandOver(m) ==
  /\ Delivered(m)
  /\ m \notin Malformed
  /\ ~Known(m)
  /\ HasHandler(m)
  /\ running' = running \cup {m}
  /\ Move(m, "unacked")
  /\ UNCHANGED <<link, consumer, handlers, effects, restarts>>

\* Faulty forms, named for their fault, stand before the definition they
\* deform, here and elsewhere.
DeliverToHandlerIdFirst(m) == HandOver(m) /\ Remembered(m)

DeliverToHandler(m) == HandOver(m) /\ UNCHANGED processed

\* What follows the handler, on an open channel.
Settle(m, where) ==
  /\ m \in running
  /\ link = "open"
  /\ running' = running \ {m}
  /\ Move(m, where)
  /\ UNCHANGED <<link, consumer, handlers, restarts>>

TakeEffect(m) == effects' = [effects EXCEPT ![IdOf[m]] = @ + 1]

HandlerSucceedsWholeEnvelope(m) ==
  Settle(m, "processed") /\ TakeEffect(m) /\ processed' = Remember(processed, m)

HandlerSucceedsNoAck(m) == Settle(m, place[m]) /\ TakeEffect(m) /\ Remembered(m)

HandlerSucceedsRequeued(m) == Settle(m, "ready") /\ TakeEffect(m) /\ Remembered(m)

HandlerSucceeds(m) == Settle(m, "processed") /\ TakeEffect(m) /\ Remembered(m)

HandlerFailsRequeue(m) == Settle(m, "ready") /\ UNCHANGED <<processed, effects>>

HandlerFails(m) == Settle(m, "dead") /\ UNCHANGED <<processed, effects>>

-----------------------------------------------------------------------------
(* Failures. *)

\* What is left of the copies when the channel ends, by the fate of those that
\* were still in its buffer.
AfterChannel(buffered) ==
  [m \in Messages |->
    CASE place[m] = "unacked" -> "ready"
      [] place[m] = "buffered" -> buffered
      [] OTHER -> place[m]]

EndOfChannel ==
  /\ link = "open"
  /\ link' = "closed"
  /\ UNCHANGED <<consumer, handlers, running, processed, effects, restarts>>

\* The broker has requeued what was unacknowledged; the handlers run on.
ConnectionLost == EndOfChannel /\ place' = AfterChannel("lost")

\* disconnect(), from onModuleDestroy: closing the channel waits for the broker,
\* behind what was published.  It does not wait for the handlers.  Without an
\* open channel it only logs.
Disconnect == EndOfChannel /\ place' = AfterChannel(RoutedTo)

Down ==
  /\ link' = "down"
  /\ consumer' = "starting"
  /\ handlers' = {}
  /\ running' = {}
  /\ processed' = <<>>

\* A handler settles on the dead channel: ack throws, the nack in the catch
\* block throws as well, and nobody awaits handleMessage.  Node ends the process.
SettlesOnDeadChannel(m) ==
  /\ m \in running
  /\ link = "closed"
  /\ effects' \in {effects, [effects EXCEPT ![IdOf[m]] = @ + 1]}
  /\ Down
  /\ UNCHANGED <<place, restarts>>

\* The process stops for any other reason.
Crash ==
  /\ link # "down"
  /\ Down
  /\ place' = AfterChannel("lost")
  /\ UNCHANGED <<effects, restarts>>

Restart ==
  /\ link = "down"
  /\ restarts < MaxRestarts
  /\ restarts' = restarts + 1
  /\ link' = "connecting"
  /\ UNCHANGED <<place, consumer, handlers, running, processed, effects>>

-----------------------------------------------------------------------------
HandlerEnds(m) == HandlerSucceeds(m) \/ HandlerFails(m) \/ SettlesOnDeadChannel(m)

Next ==
  \/ Connect
  \/ StartConsuming
  \/ \E t \in Types : RegisterHandler(t)
  \/ \E m \in Messages :
       \/ Publish(m) \/ Route(m) \/ Arrive(m)
       \/ DeliverSettled(m) \/ DeliverToHandler(m)
       \/ HandlerEnds(m)
  \/ ConnectionLost
  \/ Disconnect
  \/ Crash
  \/ Restart

Spec == Init /\ [][Next]_vars

\* Start-up runs on, the broker delivers, handlers settle, and whatever runs
\* the process restarts it (as often as MaxRestarts allows).
Fairness ==
  /\ WF_vars(Connect)
  /\ WF_vars(StartConsuming)
  /\ WF_vars(Restart)
  /\ \A m \in Messages :
       /\ WF_vars(DeliverSettled(m) \/ DeliverToHandler(m))
       /\ WF_vars(HandlerEnds(m))

FairSpec == Spec /\ Fairness

-----------------------------------------------------------------------------
(* Properties. *)

\* No delivery is leaked: while the channel is open, the copies the broker
\* holds unacknowledged are exactly those whose handler is still running.  (A
\* leaked one would stay in the queue until the connection ends.)
UnackedIsRunning ==
  link = "open" => {m \in Messages : place[m] = "unacked"} = running

\* processedIds stays within its capacity, without repetitions, and every id in
\* it is that of an event some handler completed for.
ProcessedIdsSound ==
  /\ Len(processed) <= MaxIds
  /\ \A i, j \in 1..Len(processed) : processed[i] = processed[j] => i = j
  /\ \A i \in 1..Len(processed) : effects[processed[i]] > 0

\* The work is repeated only by a duplicate copy or a new life of the process:
\* within one life each copy reaches its handler's end once, although nothing is
\* remembered while the handler runs and the set of ids forgets.
HandledOncePerLife ==
  \A id \in EventIds :
    effects[id] <= Cardinality({m \in Messages : IdOf[m] = id}) * (restarts + 1)

\* Every copy in the queue is settled, whichever way its handler goes and
\* however often it fails.  The only ways to be stuck: the connection is gone,
\* or the consumer looked for the channel before there was one.
QueuedIsSettled ==
  \A m \in Messages :
    place[m] \in {"ready", "unacked"} ~>
      (place[m] \in Settled \/ link # "open" \/ consumer # "attached")

\* What is left of it all for those who publish and consume: an at-least-once
\* queue.  An event is skipped as a duplicate only if a handler completed for it,
\* in this life of the process or an earlier one; the ids remembered never swallow
\* an event whose handler failed or was cut short.
StageOf(where) ==
  CASE where \in {"absent", "buffered"} -> "outside"
    [] where \in {"ready", "unacked"} -> "queued"
    [] where \in {"dead", "unhandled"} -> "refused"
    [] where = "unrouted" -> "lost"
    [] OTHER -> where

stage == [m \in Messages |-> StageOf(place[m])]

Queue == INSTANCE EventQueue

ImplementsQueue == Queue!Spec

=============================================================================
