----------------------------- MODULE Lifecycle -----------------------------
(***************************************************************************)
(* One life of the gateway process: the start-up hooks, requests that use  *)
(* Redis and RabbitMQ, and the stop that a signal sets off while requests  *)
(* and message handlers are under way.  RabbitMQ is the module Messaging,  *)
(* without restarts.                                                       *)
(*                                                                         *)
(* A signal that comes before the server listens is left out.  External:   *)
(* Nest awaits the hooks of one module after those of another, closes the  *)
(* server, which waits for the connections that are open and not for the   *)
(* handlers behind them, and then sends itself the signal again; it exits  *)
(* at once when a hook throws.  ioredis queues commands while it is        *)
(* offline, and gives them up in the end.                                  *)
(***************************************************************************)
EXTENDS Naturals, Functions

CONSTANTS
  Messages, EventIds, Types, IdOf, TypeOf, Malformed, Own, QueueBound, MaxIds,
  Signups,   \* requests for POST /v1/auth/signup ...
  Readers,   \* ... and for GET /v1/users/:id
  EventOf    \* EventOf[s]: the event that signup s publishes

Requests == Signups \cup Readers

VARIABLES
  place, link, consumer, handlers, running, processed, effects,  \* Messaging
  phase,     \* of the process
  signal,    \* the first signal received
  redis,     \* the client's connection, and the QUIT it may have been given
  hooksRun,  \* the destroy hooks that have returned
  step,      \* step[r]: what the handler of request r awaits
  answer,    \* answer[r]: what its client was sent, unless it left before
  exit       \* how the process ended

MQ == INSTANCE Messaging WITH restarts <- 0, MaxRestarts <- 0

ASSUME LifecycleAssumption ==
  /\ MQ!MessagingAssumption
  /\ Signups \cap Readers = {}
  /\ EventOf \in [Signups -> Own]
  /\ \A s, t \in Signups : EventOf[s] = EventOf[t] => s = t

queueVars == <<place, link, consumer, handlers, running, processed, effects>>
requestVars == <<step, answer>>
processVars == <<phase, signal, redis, hooksRun, exit>>
vars == <<queueVars, requestVars, processVars>>

Hooks == {"redis", "rabbitmq"}
Ended == {"done", "failed"}
Answers == {"none", "answer", "timeout", "left"}

TypeOK ==
  /\ MQ!TypeOK
  /\ phase \in {"starting", "serving", "stopping", "draining", "gone"}
  /\ signal \in {"none", "SIGTERM", "SIGINT"}
  /\ redis \in {"connecting", "ready", "offline", "quitQueued", "quitting", "ended"}
  /\ hooksRun \subseteq Hooks
  /\ step \in [Requests -> {"idle", "register", "profile", "rollback", "lookup", "fetch", "fill"} \cup Ended]
  /\ answer \in [Requests -> Answers]
  /\ exit \in {"none", "killed", "hookFailed", "deadChannel", "signalled", "drained"}

Init ==
  /\ MQ!Init
  /\ phase = "starting"
  /\ signal = "none"
  /\ redis = "connecting"
  /\ hooksRun = {}
  /\ step = [r \in Requests |-> "idle"]
  /\ answer = [r \in Requests |-> "none"]
  /\ exit = "none"

-----------------------------------------------------------------------------
(* Start-up.  Neither hook lets a failed connection stop it. *)

ConnectRedis ==
  /\ phase # "gone"
  /\ redis = "connecting"
  /\ redis' \in {"ready", "offline"}
  /\ UNCHANGED <<queueVars, requestVars, phase, signal, hooksRun, exit>>

StartServing ==
  /\ phase = "starting"
  /\ phase' = "serving"
  /\ UNCHANGED <<queueVars, requestVars, signal, redis, hooksRun, exit>>

ListenEarly == StartServing

\* app.listen() opens the port after every start-up hook.
Listen == StartServing /\ redis # "connecting" /\ link # "connecting" /\ consumer # "starting"

\* The messaging services and the broker, as long as the process lives.
MessagingStep ==
  /\ phase # "gone"
  /\ \/ MQ!Connect \/ MQ!StartConsuming
     \/ \E t \in Types : MQ!RegisterHandler(t)
     \/ \E m \in Messages :
          \/ MQ!Route(m) \/ MQ!Arrive(m)
          \/ MQ!DeliverSettled(m) \/ MQ!DeliverToHandler(m)
          \/ MQ!HandlerSucceeds(m) \/ MQ!HandlerFails(m)
     \/ MQ!ConnectionLost
  /\ UNCHANGED <<requestVars, processVars>>

RedisComesOrGoes ==
  /\ phase # "gone"
  /\ \/ redis = "ready" /\ redis' = "offline"
     \/ redis = "offline" /\ redis' = "ready"
     \/ redis = "quitQueued" /\ redis' = "quitting"
  /\ UNCHANGED <<queueVars, requestVars, phase, signal, hooksRun, exit>>

-----------------------------------------------------------------------------
(* Requests. *)

\* The server listens until the destroy hooks have returned; after that, a
\* connection kept alive may bring a request until all are closed.
Listening == phase \in {"serving", "stopping"}

Accept(r) ==
  /\ Listening
  /\ step[r] = "idle"
  /\ step' = [step EXCEPT ![r] = IF r \in Signups THEN "register" ELSE "lookup"]
  /\ UNCHANGED <<queueVars, answer, processVars>>

\* The handler of r goes on from one await to the next, or ends.
Continue(r, from, to) ==
  /\ phase # "gone"
  /\ step[r] = from
  /\ step' = [step EXCEPT ![r] = to]
  /\ answer' = [answer EXCEPT ![r] = IF to \in Ended /\ @ = "none" THEN "answer" ELSE @]
  /\ UNCHANGED processVars

\* A call to a service is answered one way or another.
ServiceAnswers(r) ==
  /\ \/ \E to \in {"profile", "failed"} : Continue(r, "register", to)
     \/ Continue(r, "profile", "rollback")
     \/ Continue(r, "rollback", "failed")
     \/ \E to \in {"fill", "failed"} : Continue(r, "fetch", to)
  /\ UNCHANGED queueVars

\* execute() does not look at what publish() returns.
SignupCompletes(r) ==
  /\ Continue(r, "profile", "done")
  /\ IF link = "open" THEN MQ!Publish(EventOf[r]) ELSE UNCHANGED queueVars

\* A command is answered by Redis, before a QUIT that follows it, or given up for
\* want of a connection.
RedisAnswers(r) ==
  /\ \/ /\ redis \in {"ready", "quitting"}
        /\ \/ \E to \in {"fetch", "done"} : Continue(r, "lookup", to)
           \/ Continue(r, "fill", "done")
     \/ /\ redis # "ready"
        /\ \E from \in {"lookup", "fill"} : Continue(r, from, "failed")
  /\ UNCHANGED queueVars

Underway(r) == step[r] \notin {"idle"} \cup Ended

Waits(r) == Underway(r) /\ answer[r] = "none"

\* The client waits no more; the handler does not notice.
Abandon(r, how) ==
  /\ phase # "gone"
  /\ Waits(r)
  /\ answer' = [answer EXCEPT ![r] = how]
  /\ UNCHANGED <<queueVars, step, processVars>>

\* Answered 408 by TimeoutInterceptor.
ClientTimeout(r) == Abandon(r, "timeout")

\* The client closes its connection; nothing in the code listens for that.
ClientCloses(r) == Abandon(r, "left")

-----------------------------------------------------------------------------
(* The stop. *)

\* Nest ignores signals after the first.
Signal(sig) ==
  /\ phase = "serving"
  /\ phase' = "stopping"
  /\ signal' = sig
  /\ UNCHANGED <<queueVars, requestVars, redis, hooksRun, exit>>

Returned(hook) == hooksRun' = hooksRun \cup {hook}

\* One hook at a time.
MayRun(hook) == phase = "stopping" /\ hook \notin hooksRun /\ redis \notin {"quitQueued", "quitting"}

MayBeQueued == redis = "offline" /\ \E r \in Requests : step[r] \in {"lookup", "fill"}

QuitRedisSkipped ==
  /\ MayRun("redis")
  /\ Returned("redis")
  /\ UNCHANGED <<queueVars, requestVars, phase, signal, redis, exit>>

\* client.quit(): sent if ready; if offline, queued behind other commands, or the
\* end at once if none is queued (one that was sent before is not).
QuitRedis ==
  /\ MayRun("redis")
  /\ \/ redis = "ready" /\ redis' = "quitting" /\ UNCHANGED hooksRun
     \/ MayBeQueued /\ redis' = "quitQueued" /\ UNCHANGED hooksRun
     \/ redis = "offline" /\ redis' = "ended" /\ Returned("redis")
  /\ UNCHANGED <<queueVars, requestVars, phase, signal, exit>>

QuitReturns ==
  /\ phase = "stopping"
  /\ redis = "quitting"
  /\ redis' = "ended"
  /\ Returned("redis")
  /\ UNCHANGED <<queueVars, requestVars, phase, signal, exit>>

DisconnectRabbitMQ ==
  /\ MayRun("rabbitmq")
  /\ IF link = "open" THEN MQ!Disconnect ELSE UNCHANGED queueVars
  /\ Returned("rabbitmq")
  /\ UNCHANGED <<requestVars, phase, signal, redis, exit>>

Gone(how) ==
  /\ phase' = "gone"
  /\ exit' = how
  /\ UNCHANGED <<requestVars, signal, redis, hooksRun>>

Exit(how) == MQ!Crash /\ Gone(how)

\* The connection ends under QUIT, or the queue is given up: quit() rejects.
QuitFails ==
  /\ phase = "stopping"
  /\ redis \in {"quitting", "quitQueued"}
  /\ Exit("hookFailed")

\* The hooks have returned, and the signal comes again.  SIGTERM still has the
\* listener of tracing.ts, so it ends nothing by itself.
Resignal ==
  /\ phase = "stopping"
  /\ hooksRun = Hooks
  /\ \/ signal = "SIGINT" /\ Exit("signalled")
     \/ signal = "SIGTERM" /\ phase' = "draining"
        /\ UNCHANGED <<queueVars, requestVars, signal, redis, hooksRun, exit>>

ResignalAtOnce == Resignal

\* First the server closes: no connection is left on which a client waits.
Close == Resignal /\ \A r \in Requests : ~Waits(r)

\* Nothing is left on the event loop.
Drain ==
  /\ phase = "draining"
  /\ redis = "ended"
  /\ link # "open"
  /\ running = {}
  /\ \A r \in Requests : ~Underway(r)
  /\ Exit("drained")

\* An unhandled rejection (see Messaging).
DeadChannel ==
  /\ phase # "gone"
  /\ \E m \in Messages : MQ!SettlesOnDeadChannel(m)
  /\ Gone("deadChannel")

Killed == phase # "gone" /\ Exit("killed")

-----------------------------------------------------------------------------
Handle(r) == ServiceAnswers(r) \/ SignupCompletes(r) \/ RedisAnswers(r)

Next ==
  \/ ConnectRedis \/ Listen \/ MessagingStep \/ RedisComesOrGoes
  \/ \E r \in Requests : Accept(r) \/ Handle(r) \/ ClientTimeout(r) \/ ClientCloses(r)
  \/ \E sig \in {"SIGTERM", "SIGINT"} : Signal(sig)
  \/ QuitRedis \/ QuitReturns \/ QuitFails \/ DisconnectRabbitMQ
  \/ Close \/ Drain \/ DeadChannel \/ Killed

Spec == Init /\ [][Next]_vars

\* Hooks and handlers run on: their calls are answered (HttpClient), Redis
\* answers or is given up, the handlers of messages settle.
Fairness ==
  /\ WF_vars(QuitRedis)
  /\ WF_vars(QuitReturns \/ QuitFails)
  /\ WF_vars(DisconnectRabbitMQ)
  /\ WF_vars(Close)
  /\ WF_vars(Drain)
  /\ WF_vars(DeadChannel)
  /\ \A r \in Requests : WF_vars(Handle(r))

FairSpec == Spec /\ Fairness

-----------------------------------------------------------------------------
(* Properties. *)

\* A request that was accepted is cut short only by an end that is not orderly,
\* or by an orderly SIGINT behind the back of a client that no longer waits: it
\* was answered 408, or it closed its connection and was answered nothing.  So a
\* signup may leave an account without a profile.  An orderly SIGTERM cuts none.
CutHasReason ==
  \A r \in Requests : phase = "gone" /\ Underway(r) =>
    \/ exit \in {"killed", "hookFailed", "deadChannel"}
    \/ exit = "signalled" /\ signal = "SIGINT" /\ answer[r] \in {"timeout", "left"}

\* A user who was created is unheard of only because the broker drops what is
\* not bound, or because the channel is gone: while it is open, the event of
\* every completed signup is on its way, in the queue or consumed.
SilentUserHasReason ==
  \A s \in Signups : step[s] = "done" /\ link = "open" =>
    /\ place[EventOf[s]] \notin {"absent", "lost"}
    /\ place[EventOf[s]] = "unrouted" => ~QueueBound

\* A signal ends the process, in the end: no hook waits for ever, and nothing
\* keeps the event loop busy once SIGTERM has been swallowed.
StopsAtLast == signal # "none" ~> phase = "gone"

=============================================================================
