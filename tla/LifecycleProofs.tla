--------------------------- MODULE LifecycleProofs ---------------------------
(* Theorems about Lifecycle, for any requests, messages and handlers, and    *)
(* about Bootstrap, which is how the process comes to be one.                *)
EXTENDS Lifecycle, Bootstrap, Sequences, TLAPS

USE DEF LifecycleAssumption

(***************************************************************************)
(* The inductive invariant.                                                *)
(***************************************************************************)

Places == {"absent", "buffered", "lost", "unrouted", "ready", "unacked"} \cup MQ!Settled
Steps == {"idle", "register", "profile", "rollback", "lookup", "fetch", "fill"} \cup Ended

Typed ==
  /\ place \in [Messages -> Places]
  /\ running \subseteq Messages
  /\ step \in [Requests -> Steps]
  /\ answer \in [Requests -> Answers]

\* No request is accepted, hence no event published, before RabbitMQ's start-up hook
\* has come to an end.
Started ==
  /\ link = "connecting" => phase = "starting"
  /\ phase = "starting" => \A r \in Requests : step[r] = "idle"

\* A request stays on its route; its handler has ended if the answer is its own.
OnRoute(r) ==
  /\ r \in Signups => step[r] \notin {"lookup", "fetch", "fill"}
  /\ r \in Readers => step[r] \notin {"register", "profile", "rollback"}
  /\ answer[r] = "answer" => step[r] \in Ended

\* What SilentUserHasReason says of a signup that is done; the event of any other
\* has not been published.
Told(s) ==
  /\ step[s] # "done" => place[EventOf[s]] = "absent"
  /\ step[s] = "done" /\ link = "open" =>
       /\ place[EventOf[s]] \notin {"absent", "lost"}
       /\ place[EventOf[s]] = "unrouted" => ~QueueBound

RunningPresent == \A m \in running : place[m] # "absent"

AllOnRoute == \A r \in Requests : OnRoute(r)
AllTold == \A s \in Signups : Told(s)

IInv == Typed /\ Started /\ RunningPresent /\ AllOnRoute /\ AllTold /\ CutHasReason

(***************************************************************************)
(* What the steps of Messaging do here.                                    *)
(***************************************************************************)

LEMMA EventOwn == \A s \in Signups : EventOf[s] \in Own /\ EventOf[s] \in Messages
BY LifecycleAssumption DEF MQ!MessagingAssumption

\* No step but a publication brings an event of the gateway's own into being, and
\* none takes a copy back; while the channel stays open nothing is lost; and the
\* channel opens at most once.
Carries ==
  /\ place' \in [Messages -> Places] /\ running' \subseteq Messages
  /\ RunningPresent'
  /\ link' = "connecting" => link = "connecting"
  /\ link' = "open" => link \in {"connecting", "open"}
  /\ \A m \in Own :
       /\ place[m] = "absent" <=> place'[m] = "absent"
       /\ link = "open" /\ link' = "open" /\ place'[m] = "lost" => place[m] = "lost"
       /\ place'[m] = "unrouted" => place[m] = "unrouted" \/ ~QueueBound \/ link' # "open"

\* A copy is moved, not back to where it came from.
LEMMA MoveCarries ==
  ASSUME Typed, RunningPresent, NEW m \in Messages, NEW where \in Places,
         MQ!Move(m, where), where # "absent", m \in Own => place[m] # "absent",
         where = "lost" => link' # "open", where = "unrouted" => ~QueueBound,
         running' \subseteq running \cup {m}, UNCHANGED link
  PROVE  Carries
<1>1. /\ place' \in [Messages -> Places]
      /\ place'[m] = where
      /\ \A n \in Messages : n # m => place'[n] = place[n]
  BY DEF Typed, MQ!Move
<1>2. \A n \in Own : n \in Messages
  BY LifecycleAssumption DEF MQ!MessagingAssumption
<1>3. RunningPresent'
  BY <1>1 DEF RunningPresent, Typed, MQ!Move
<1> QED BY <1>1, <1>2, <1>3 DEF Carries, Typed

\* The channel or the process ends.
LEMMA EndCarries ==
  ASSUME Typed, RunningPresent, NEW b \in {"lost", "ready", "unrouted"},
         place' = MQ!AfterChannel(b), link' \in {"closed", "down"}, running' \subseteq running
  PROVE  Carries
<1>1. \A m \in Messages :
        place'[m] = IF place[m] = "unacked" THEN "ready"
                    ELSE IF place[m] = "buffered" THEN b ELSE place[m]
  BY DEF MQ!AfterChannel
<1>2. place' \in [Messages -> Places]
  BY DEF Typed, MQ!AfterChannel, Places
<1>3. \A n \in Own : n \in Messages
  BY LifecycleAssumption DEF MQ!MessagingAssumption
<1>4. running' \subseteq Messages
  BY DEF Typed
<1>5. RunningPresent'
  BY <1>1, <1>4 DEF RunningPresent
<1> QED BY <1>1, <1>2, <1>3, <1>4, <1>5 DEF Carries

\* Nothing happens to the queue.
LEMMA RestCarries ==
  ASSUME Typed, RunningPresent, place' = place, running' = running,
         link' = link \/ (link' = "open" /\ link = "connecting") \/ link' \in {"failed", "closed", "down"}
  PROVE  Carries
BY DEF Carries, Typed, RunningPresent

LEMMA MessagingCarries == Typed /\ RunningPresent /\ MessagingStep => Carries
<1> SUFFICES ASSUME Typed, RunningPresent, MessagingStep PROVE Carries
  OBVIOUS
<1>1. ASSUME MQ!Connect PROVE Carries
  BY <1>1, RestCarries DEF MQ!Connect
<1>2. ASSUME MQ!StartConsuming PROVE Carries
  BY <1>2, RestCarries DEF MQ!StartConsuming
<1>3. ASSUME NEW t \in Types, MQ!RegisterHandler(t) PROVE Carries
  BY <1>3, RestCarries DEF MQ!RegisterHandler
<1>4. ASSUME NEW m \in Messages, MQ!Route(m) PROVE Carries
  <2>1. /\ MQ!Move(m, MQ!RoutedTo) /\ place[m] = "buffered"
        /\ running' = running /\ UNCHANGED link
    BY <1>4 DEF MQ!Route, MQ!processVars
  <2>2. MQ!RoutedTo \in Places /\ MQ!RoutedTo \notin {"absent", "lost"}
        /\ (MQ!RoutedTo = "unrouted" => ~QueueBound)
    BY DEF MQ!RoutedTo, Places
  <2> QED BY <2>1, <2>2, MoveCarries
<1>5. ASSUME NEW m \in Messages, MQ!Arrive(m) PROVE Carries
  <2>1. /\ MQ!Move(m, "ready") /\ m \notin Own
        /\ running' = running /\ UNCHANGED link
    BY <1>5 DEF MQ!Arrive, MQ!processVars
  <2> QED BY <2>1, MoveCarries DEF Places
<1>6. ASSUME NEW m \in Messages, MQ!DeliverSettled(m) PROVE Carries
  <2>1. /\ \E where \in {"dead", "duplicate", "unhandled"} : MQ!Move(m, where)
        /\ place[m] = "ready"
        /\ running' = running /\ UNCHANGED link
    BY <1>6 DEF MQ!DeliverSettled, MQ!Delivered, MQ!processVars
  <2> QED BY <2>1, MoveCarries DEF Places, MQ!Settled
<1>7. ASSUME NEW m \in Messages, MQ!DeliverToHandler(m) PROVE Carries
  <2>1. /\ MQ!Move(m, "unacked") /\ place[m] = "ready"
        /\ running' = running \cup {m} /\ UNCHANGED link
    BY <1>7 DEF MQ!DeliverToHandler, MQ!HandOver, MQ!Delivered
  <2> QED BY <2>1, MoveCarries DEF Places
<1>8. ASSUME NEW m \in Messages, NEW where \in {"processed", "dead"}, MQ!Settle(m, where) PROVE Carries
  <2>1. /\ MQ!Move(m, where) /\ m \in running
        /\ running' = running \ {m} /\ UNCHANGED link
    BY <1>8 DEF MQ!Settle
  <2>2. place[m] # "absent"
    BY <2>1 DEF RunningPresent
  <2> QED BY <2>1, <2>2, MoveCarries DEF Places, MQ!Settled
<1>9. ASSUME MQ!ConnectionLost PROVE Carries
  BY <1>9, EndCarries DEF MQ!ConnectionLost, MQ!EndOfChannel
<1> QED
  BY <1>1, <1>2, <1>3, <1>4, <1>5, <1>6, <1>7, <1>8, <1>9
  DEF MessagingStep, MQ!HandlerSucceeds, MQ!HandlerFails

LEMMA DisconnectCarries ==
  ASSUME Typed, RunningPresent, MQ!Disconnect
  PROVE  Carries
BY EndCarries DEF MQ!Disconnect, MQ!EndOfChannel, MQ!RoutedTo

LEMMA CrashCarries ==
  ASSUME Typed, RunningPresent, MQ!Crash
  PROVE  Carries /\ link' = "down"
BY EndCarries DEF MQ!Crash, MQ!Down

LEMMA DeadChannelCarries ==
  ASSUME Typed, RunningPresent, NEW m \in Messages, MQ!SettlesOnDeadChannel(m)
  PROVE  Carries /\ link' = "down"
<1>1. UNCHANGED place /\ link' = "down" /\ running' = {}
  BY DEF MQ!SettlesOnDeadChannel, MQ!Down
<1> QED BY <1>1 DEF Carries, Typed, RunningPresent

(***************************************************************************)
(* Steps that leave the requests alone.                                    *)
(***************************************************************************)

\* Whatever becomes of the queue, as long as nothing is published, and unless the
\* process goes, the invariant stays.
LEMMA QueueStep ==
  ASSUME IInv, Carries, UNCHANGED requestVars,
         phase' = "starting" => phase = "starting",
         phase' # "starting" /\ phase = "starting" => link' # "connecting",
         CutHasReason'
  PROVE  IInv'
<1>1. UNCHANGED <<step, answer>>
  BY DEF requestVars
<1>2. Typed' /\ RunningPresent'
  BY <1>1 DEF IInv, Typed, Carries
<1>3. Started'
  BY <1>1 DEF IInv, Started, Carries
<1>4. AllOnRoute'
  BY <1>1 DEF IInv, AllOnRoute, OnRoute
<1>5. ASSUME NEW s \in Signups PROVE Told(s)'
  <2>1. /\ EventOf[s] \in Own /\ s \in Requests
        /\ Told(s)
    BY EventOwn DEF IInv, AllTold, Requests
  <2>2. step[s] = "done" => link # "connecting"
    BY <2>1 DEF IInv, Started
  <2> QED BY <1>1, <2>1, <2>2 DEF Told, Carries
<1> QED BY <1>2, <1>3, <1>4, <1>5 DEF IInv, AllTold

\* Nothing is done to the queue.
LEMMA QueueAlone ==
  ASSUME IInv, UNCHANGED queueVars
  PROVE  Carries
BY RestCarries DEF IInv, queueVars

\* While the process is there, nothing is cut.
LEMMA NotGone == phase' # "gone" => CutHasReason'
BY DEF CutHasReason

LEMMA StartStep ==
  ASSUME IInv, ConnectRedis \/ Listen \/ RedisComesOrGoes
  PROVE  IInv'
<1>1. UNCHANGED <<queueVars, requestVars>> /\ phase # "gone" /\ phase' # "gone"
  BY DEF ConnectRedis, Listen, StartServing, RedisComesOrGoes
<1>2. Carries /\ link' = link
  BY <1>1, QueueAlone DEF queueVars
<1>3. /\ phase' = "starting" => phase = "starting"
      /\ phase' # "starting" /\ phase = "starting" => link' # "connecting"
  BY <1>2 DEF ConnectRedis, Listen, StartServing, RedisComesOrGoes
<1> QED BY <1>1, <1>2, <1>3, NotGone, QueueStep

LEMMA MessagingKeeps == ASSUME IInv, MessagingStep PROVE IInv'
<1>1. Carries
  BY MessagingCarries DEF IInv
<1>2. UNCHANGED requestVars /\ phase' = phase /\ phase # "gone"
  BY DEF MessagingStep, processVars
<1> QED BY <1>1, <1>2, NotGone, QueueStep

\* The stop begins only after the start-up has ended.
LEMMA StopStep ==
  ASSUME IInv, (\E sig \in {"SIGTERM", "SIGINT"} : Signal(sig)) \/ QuitRedis \/ QuitReturns \/ DisconnectRabbitMQ
  PROVE  IInv'
<1>1. UNCHANGED requestVars /\ phase \in {"serving", "stopping"} /\ phase' = "stopping"
  BY DEF Signal, QuitRedis, QuitReturns, DisconnectRabbitMQ, MayRun
<1>2. UNCHANGED queueVars \/ MQ!Disconnect
  BY DEF Signal, QuitRedis, QuitReturns, DisconnectRabbitMQ
<1>3. Carries
  BY <1>2, QueueAlone, DisconnectCarries DEF IInv
<1> QED BY <1>1, <1>3, NotGone, QueueStep

\* An end that is not orderly, whenever it comes.
LEMMA DisorderlyStep ==
  ASSUME IInv, QuitFails \/ DeadChannel \/ Killed
  PROVE  IInv'
<1>1. /\ UNCHANGED requestVars /\ phase' = "gone"
      /\ exit' \in {"killed", "hookFailed", "deadChannel"}
  BY DEF QuitFails, DeadChannel, Killed, Exit, Gone
<1>2. Carries /\ link' = "down"
  BY CrashCarries, DeadChannelCarries DEF QuitFails, DeadChannel, Killed, Exit, IInv
<1>3. CutHasReason'
  BY <1>1 DEF CutHasReason
<1> QED BY <1>1, <1>2, <1>3, QueueStep

\* SIGINT comes again when nobody waits: who is under way then was answered by the
\* interceptor, or has lost its client.
LEMMA CloseStep == ASSUME IInv, Close PROVE IInv'
<1>1. \A r \in Requests : Underway(r) => answer[r] \in {"timeout", "left"}
  BY DEF Close, IInv, Typed, Answers, AllOnRoute, OnRoute, Underway, Waits
<1>2. CASE signal = "SIGINT" /\ Exit("signalled")
  <2>1. UNCHANGED <<step, answer>> /\ signal' = "SIGINT" /\ exit' = "signalled" /\ phase' = "gone"
    BY <1>2 DEF Exit, Gone, requestVars
  <2>2. CutHasReason'
    BY <1>1, <2>1 DEF CutHasReason, Underway
  <2>3. Carries /\ link' = "down" /\ UNCHANGED requestVars
    BY <1>2, CrashCarries DEF Exit, Gone, IInv
  <2> QED BY <2>1, <2>2, <2>3, QueueStep
<1>3. CASE phase' = "draining" /\ UNCHANGED <<queueVars, requestVars>>
  <2>1. Carries /\ phase = "stopping"
    BY <1>3, QueueAlone DEF Close, Resignal
  <2> QED BY <1>3, <2>1, NotGone, QueueStep
<1> QED BY <1>2, <1>3 DEF Close, Resignal

\* The event loop is empty: nobody is under way.
LEMMA DrainStep == ASSUME IInv, Drain PROVE IInv'
<1>1. UNCHANGED <<step, answer>> /\ phase' = "gone" /\ UNCHANGED requestVars
  BY DEF Drain, Exit, Gone, requestVars
<1>2. CutHasReason'
  BY <1>1 DEF CutHasReason, Underway, Drain
<1>3. Carries /\ link' = "down"
  BY CrashCarries DEF Drain, Exit, IInv
<1> QED BY <1>1, <1>2, <1>3, QueueStep

(***************************************************************************)
(* Steps of a request.                                                     *)
(***************************************************************************)

LEMMA RequestStep ==
  ASSUME IInv, NEW r \in Requests, NEW to \in Steps, NEW told \in Answers,
         step' = [step EXCEPT ![r] = to], answer' = [answer EXCEPT ![r] = told],
         phase \notin {"starting", "gone"}, phase' = phase, link' = link,
         place' \in [Messages -> Places], running' \subseteq Messages, RunningPresent',
         \A s \in Signups : s # r => place'[EventOf[s]] = place[EventOf[s]],
         r \in Signups => to \notin {"lookup", "fetch", "fill"},
         r \in Readers => to \notin {"register", "profile", "rollback"},
         told = "answer" => to \in Ended,
         r \in Signups => Told(r)'
  PROVE  IInv'
<1>1. Typed'
  BY DEF IInv, Typed
<1>2. Started'
  BY DEF IInv, Started
<1>3. /\ step'[r] = to /\ answer'[r] = told
      /\ \A q \in Requests : q # r => step'[q] = step[q] /\ answer'[q] = answer[q]
  BY DEF IInv, Typed
<1>4. AllOnRoute'
  BY <1>3 DEF IInv, AllOnRoute, OnRoute
<1>5. ASSUME NEW s \in Signups, s # r PROVE Told(s)'
  <2>1. Told(s) /\ s \in Requests
    BY DEF IInv, AllTold, Requests
  <2> QED BY <1>3, <1>5, <2>1 DEF Told
<1>6. AllTold'
  BY <1>5 DEF AllTold
<1>7. CutHasReason'
  BY NotGone
<1> QED BY <1>1, <1>2, <1>4, <1>6, <1>7 DEF IInv

\* The queue is not touched, and a signup is not done.
LEMMA QuietStep ==
  ASSUME IInv, NEW r \in Requests, NEW to \in Steps, NEW told \in Answers,
         step' = [step EXCEPT ![r] = to], answer' = [answer EXCEPT ![r] = told],
         phase \notin {"starting", "gone"}, phase' = phase, UNCHANGED queueVars,
         r \in Signups => to \notin {"lookup", "fetch", "fill"},
         r \in Readers => to \notin {"register", "profile", "rollback"},
         told = "answer" => to \in Ended,
         r \in Signups => (to = "done" <=> step[r] = "done")
  PROVE  IInv'
<1>1. place' = place /\ running' = running /\ link' = link
  BY DEF queueVars
<1>2. /\ place' \in [Messages -> Places] /\ running' \subseteq Messages /\ RunningPresent'
      /\ \A s \in Signups : s # r => place'[EventOf[s]] = place[EventOf[s]]
  BY <1>1 DEF IInv, Typed, RunningPresent
<1>3. step'[r] = to
  BY DEF IInv, Typed
<1>4. r \in Signups => Told(r)'
  BY <1>1, <1>3 DEF IInv, AllTold, Told
<1> QED BY <1>1, <1>2, <1>4, RequestStep

\* Which request a handler's step is of, and what it leaves alone.
LEMMA ContinueEffect ==
  ASSUME IInv, NEW r \in Requests, NEW from \in Steps, NEW to \in Steps, from # "idle",
         Continue(r, from, to)
  PROVE  /\ step[r] = from /\ step' = [step EXCEPT ![r] = to]
         /\ phase \notin {"starting", "gone"} /\ phase' = phase
         /\ \E told \in Answers :
              /\ answer' = [answer EXCEPT ![r] = told]
              /\ told = "answer" => to \in Ended \/ answer[r] = "answer"
<1> USE DEF Answers
<1> DEFINE told == IF to \in Ended /\ answer[r] = "none" THEN "answer" ELSE answer[r]
<1>1. /\ step[r] = from /\ step' = [step EXCEPT ![r] = to]
      /\ phase # "gone" /\ phase' = phase
      /\ answer' = [answer EXCEPT ![r] = told]
  BY DEF Continue, processVars
<1>2. told \in Answers
  BY DEF IInv, Typed
<1>3. phase # "starting"
  BY <1>1 DEF IInv, Started
<1> QED BY <1>1, <1>2, <1>3

LEMMA AcceptStep == ASSUME IInv, NEW r \in Requests, Accept(r) PROVE IInv'
<1> DEFINE to == IF r \in Signups THEN "register" ELSE "lookup"
<1>1. /\ step[r] = "idle" /\ step' = [step EXCEPT ![r] = to]
      /\ phase \notin {"starting", "gone"} /\ phase' = phase
      /\ answer' = answer /\ UNCHANGED queueVars
  BY DEF Accept, Listening, processVars
<1>2. to \in Steps /\ to # "done"
  BY DEF Steps
<1>3. answer[r] \in Answers /\ answer' = [answer EXCEPT ![r] = answer[r]]
  BY <1>1 DEF IInv, Typed
<1>4. answer[r] # "answer"
  BY <1>1 DEF IInv, AllOnRoute, OnRoute, Ended
<1>5. r \in Readers => r \notin Signups
  BY LifecycleAssumption
<1>6. /\ r \in Signups => to \notin {"lookup", "fetch", "fill"}
      /\ r \in Readers => to \notin {"register", "profile", "rollback"}
  BY <1>5
<1> HIDE DEF to
<1> QED BY <1>1, <1>2, <1>3, <1>4, <1>6, QuietStep

\* Whichever way its client stopped waiting, the request goes on.
LEMMA AbandonStep ==
  ASSUME IInv, NEW r \in Requests, NEW how \in Answers \ {"answer"}, Abandon(r, how)
  PROVE  IInv'
<1>1. /\ step' = step /\ phase # "gone" /\ phase' = phase
      /\ step[r] \notin {"idle"} \cup Ended
      /\ answer' = [answer EXCEPT ![r] = how] /\ UNCHANGED queueVars
  BY DEF Abandon, Waits, Underway, processVars
<1>2. step[r] \in Steps /\ step' = [step EXCEPT ![r] = step[r]]
  BY <1>1 DEF IInv, Typed
<1>3. phase # "starting"
  BY <1>1 DEF IInv, Started
<1>4. OnRoute(r)
  BY DEF IInv, AllOnRoute
<1> QED BY <1>1, <1>2, <1>3, <1>4, QuietStep DEF OnRoute

LEMMA ServiceStep == ASSUME IInv, NEW r \in Requests, ServiceAnswers(r) PROVE IInv'
<1>1. PICK from \in Steps, to \in Steps :
        /\ Continue(r, from, to)
        /\ \/ from = "register" /\ to \in {"profile", "failed"}
           \/ from = "profile" /\ to = "rollback"
           \/ from = "rollback" /\ to = "failed"
           \/ from = "fetch" /\ to \in {"fill", "failed"}
  BY DEF ServiceAnswers, Steps, Ended
<1>2. UNCHANGED queueVars
  BY DEF ServiceAnswers
<1>3. /\ step[r] = from /\ step' = [step EXCEPT ![r] = to]
      /\ phase \notin {"starting", "gone"} /\ phase' = phase
  BY <1>1, ContinueEffect
<1>4. PICK told \in Answers :
        /\ answer' = [answer EXCEPT ![r] = told]
        /\ told = "answer" => to \in Ended \/ answer[r] = "answer"
  BY <1>1, ContinueEffect
<1>5. OnRoute(r) /\ from \notin Ended
  BY <1>1 DEF IInv, AllOnRoute, Ended
<1>6. /\ r \in Signups => to \notin {"lookup", "fetch", "fill"}
      /\ r \in Readers => to \notin {"register", "profile", "rollback"}
      /\ told = "answer" => to \in Ended
      /\ from # "done" /\ to # "done"
  BY <1>1, <1>3, <1>4, <1>5 DEF OnRoute, Ended
<1> QED BY <1>2, <1>3, <1>4, <1>6, QuietStep

LEMMA RedisStep == ASSUME IInv, NEW r \in Requests, RedisAnswers(r) PROVE IInv'
<1>1. PICK from \in Steps, to \in Steps :
        /\ Continue(r, from, to)
        /\ from \in {"lookup", "fill"} /\ to \in {"fetch", "done", "failed"}
  BY DEF RedisAnswers, Steps, Ended
<1>2. UNCHANGED queueVars
  BY DEF RedisAnswers
<1>3. /\ step[r] = from /\ step' = [step EXCEPT ![r] = to]
      /\ phase \notin {"starting", "gone"} /\ phase' = phase
  BY <1>1, ContinueEffect
<1>4. PICK told \in Answers :
        /\ answer' = [answer EXCEPT ![r] = told]
        /\ told = "answer" => to \in Ended \/ answer[r] = "answer"
  BY <1>1, ContinueEffect
<1>5. OnRoute(r)
  BY DEF IInv, AllOnRoute
<1>6. /\ r \notin Signups /\ to \notin {"register", "profile", "rollback"}
      /\ told = "answer" => to \in Ended
  BY <1>1, <1>3, <1>4, <1>5 DEF OnRoute, Ended
<1> QED BY <1>2, <1>3, <1>4, <1>6, QuietStep

\* The event of a signup that is done is in the channel's buffer, if there is one.
LEMMA SignupStep == ASSUME IInv, NEW r \in Requests, SignupCompletes(r) PROVE IInv'
<1>1. "profile" \in Steps /\ "done" \in Steps /\ "done" \in Ended
  BY DEF Steps, Ended
<1>2. /\ step[r] = "profile" /\ step' = [step EXCEPT ![r] = "done"]
      /\ phase \notin {"starting", "gone"} /\ phase' = phase
  BY <1>1, ContinueEffect DEF SignupCompletes
<1>3. PICK told \in Answers : answer' = [answer EXCEPT ![r] = told]
  BY <1>1, ContinueEffect DEF SignupCompletes
<1>4. r \in Signups /\ r \notin Readers
  BY <1>2, LifecycleAssumption DEF IInv, AllOnRoute, OnRoute, Requests
<1>5. EventOf[r] \in Messages /\ step'[r] = "done"
  BY <1>2, <1>4, EventOwn DEF IInv, Typed
<1>6. CASE link = "open"
  <2>1. /\ MQ!Move(EventOf[r], "buffered") /\ link' = link /\ running' = running
    BY <1>6 DEF SignupCompletes, MQ!Publish, MQ!processVars
  <2>2. /\ place' \in [Messages -> Places]
        /\ place'[EventOf[r]] = "buffered"
        /\ \A m \in Messages : m # EventOf[r] => place'[m] = place[m]
    BY <1>5, <2>1 DEF IInv, Typed, Places, MQ!Move
  <2>3. running' \subseteq Messages /\ RunningPresent'
    BY <2>1, <2>2 DEF IInv, Typed, RunningPresent
  <2>4. \A s \in Signups : s # r => place'[EventOf[s]] = place[EventOf[s]]
    BY <1>4, <2>2, EventOwn, LifecycleAssumption
  <2>5. Told(r)'
    BY <1>5, <2>2 DEF Told
  <2> QED BY <1>1, <1>2, <1>3, <1>4, <2>1, <2>2, <2>3, <2>4, <2>5, RequestStep
<1>7. CASE link # "open"
  <2>1. place' = place /\ link' = link /\ running' = running
    BY <1>7 DEF SignupCompletes, queueVars
  <2>2. Told(r)'
    BY <1>5, <1>7, <2>1 DEF Told
  <2>3. place' \in [Messages -> Places] /\ running' \subseteq Messages /\ RunningPresent'
    BY <2>1 DEF IInv, Typed, RunningPresent
  <2> QED BY <1>1, <1>2, <1>3, <1>4, <2>1, <2>2, <2>3, RequestStep
<1> QED BY <1>6, <1>7

(***************************************************************************)
(* The theorems.                                                           *)
(***************************************************************************)

LEMMA Initially == Init => IInv
<1> SUFFICES ASSUME Init PROVE IInv
  OBVIOUS
<1>1. Typed
  BY DEF Init, MQ!Init, MQ!Fresh, Typed, Places, Steps, Answers
<1>2. Started /\ RunningPresent /\ AllOnRoute
  BY DEF Init, MQ!Init, MQ!Fresh, Started, RunningPresent, AllOnRoute, OnRoute
<1>3. AllTold
  BY EventOwn DEF Init, MQ!Init, AllTold, Told, Requests
<1>4. CutHasReason
  BY DEF Init, CutHasReason
<1> QED BY <1>1, <1>2, <1>3, <1>4 DEF IInv

LEMMA StutterStep == ASSUME IInv, UNCHANGED vars PROVE IInv'
<1>1. UNCHANGED requestVars /\ phase' = phase /\ exit' = exit /\ signal' = signal /\ Carries
  BY QueueAlone DEF vars, processVars
<1>2. CutHasReason'
  BY <1>1 DEF IInv, CutHasReason, Underway, requestVars
<1> QED BY <1>1, <1>2, QueueStep

LEMMA Inductive == IInv /\ [Next]_vars => IInv'
<1> SUFFICES ASSUME IInv, Next PROVE IInv'
  BY StutterStep
<1>1. ASSUME NEW r \in Requests, Accept(r) \/ Handle(r) PROVE IInv'
  BY <1>1, AcceptStep, ServiceStep, SignupStep, RedisStep DEF Handle
<1>2. ASSUME NEW r \in Requests, ClientTimeout(r) \/ ClientCloses(r) PROVE IInv'
  BY <1>2, AbandonStep DEF ClientTimeout, ClientCloses, Answers
<1> QED BY <1>1, <1>2, StartStep, MessagingKeeps, StopStep, DisorderlyStep, CloseStep, DrainStep DEF Next

LEMMA Invariance == Spec => []IInv
BY Initially, Inductive, PTL DEF Spec

\* Only a killed process, a failed hook or a dead channel cuts short a request whose
\* client still waits for it.  SIGINT ends handlers too, of clients that were answered
\* 408 or have left.
THEOREM Cuts == Spec => []CutHasReason
<1>1. IInv => CutHasReason
  BY DEF IInv
<1> QED BY <1>1, Invariance, PTL

\* While the channel is open, the event of every completed signup has reached it,
\* and it is not dropped if the queue is bound.
THEOREM SilentUsers == Spec => []SilentUserHasReason
<1>1. IInv => SilentUserHasReason
  BY DEF IInv, AllTold, Told, SilentUserHasReason
<1> QED BY <1>1, Invariance, PTL

(***************************************************************************)
(* The process and Messaging.                                              *)
(***************************************************************************)

\* Each step is one of the messaging services', or leaves them alone.
LEMMA QueueSteps == [Next]_vars => [MQ!Next]_(MQ!vars)
<1> SUFFICES ASSUME [Next]_vars PROVE [MQ!Next]_(MQ!vars)
  OBVIOUS
<1>1. ASSUME UNCHANGED queueVars PROVE UNCHANGED MQ!vars
  BY <1>1 DEF queueVars, MQ!vars
<1>2. CASE UNCHANGED vars
  BY <1>1, <1>2 DEF vars
<1>3. CASE MessagingStep
  BY <1>3 DEF MessagingStep, MQ!Next, MQ!HandlerEnds
<1>4. ASSUME NEW r \in Requests, SignupCompletes(r) PROVE [MQ!Next]_(MQ!vars)
  <2>1. CASE link = "open"
    <3>1. MQ!Publish(EventOf[r])
      BY <1>4, <2>1 DEF SignupCompletes
    <3>2. EventOf[r] \in Messages
      BY <3>1, LifecycleAssumption DEF MQ!Publish, MQ!MessagingAssumption
    <3> QED BY <3>1, <3>2 DEF MQ!Next
  <2>2. CASE link # "open"
    BY <1>1, <1>4, <2>2 DEF SignupCompletes
  <2> QED BY <2>1, <2>2
<1>5. CASE DisconnectRabbitMQ
  BY <1>1, <1>5 DEF DisconnectRabbitMQ, MQ!Next
<1>6. CASE DeadChannel
  BY <1>6 DEF DeadChannel, MQ!Next, MQ!HandlerEnds
<1>7. CASE QuitFails \/ Killed \/ Drain \/ Close
  BY <1>1, <1>7 DEF QuitFails, Killed, Drain, Close, Resignal, Exit, MQ!Next
<1>8. CASE ConnectRedis \/ Listen \/ RedisComesOrGoes \/ QuitRedis \/ QuitReturns
  BY <1>1, <1>8 DEF ConnectRedis, Listen, StartServing, RedisComesOrGoes, QuitRedis, QuitReturns
<1>9. ASSUME NEW sig \in {"SIGTERM", "SIGINT"}, Signal(sig) PROVE [MQ!Next]_(MQ!vars)
  BY <1>1, <1>9 DEF Signal
<1>10. ASSUME NEW r \in Requests,
              Accept(r) \/ ClientTimeout(r) \/ ClientCloses(r) \/ ServiceAnswers(r) \/ RedisAnswers(r)
       PROVE  [MQ!Next]_(MQ!vars)
  BY <1>1, <1>10 DEF Accept, ClientTimeout, ClientCloses, Abandon, ServiceAnswers, RedisAnswers
<1> QED
  BY <1>2, <1>3, <1>4, <1>5, <1>6, <1>7, <1>8, <1>9, <1>10 DEF Next, Handle

\* The gateway that starts, serves and stops uses RabbitMQ as Messaging says: each
\* of its steps is one of the messaging services' or leaves them alone.  So what
\* MessagingProofs proves of them holds of it.
THEOREM UsesMessaging == Spec => MQ!Spec
<1>1. Init => MQ!Init
  BY DEF Init
<1> QED BY <1>1, QueueSteps, PTL DEF Spec, MQ!Spec

\* In one life of the process the connection is opened once, from the start, and is
\* not opened again: nothing reconnects.
LEMMA LinkOneWay ==
  ASSUME [MQ!Next]_(MQ!vars)
  PROVE  /\ link' = "open" => link \in {"connecting", "open"}
         /\ link' = "connecting" => link = "connecting"
<1>1. ~MQ!Restart
  BY DEF MQ!Restart
<1>2. ASSUME NEW m \in Messages,
             \/ MQ!Publish(m) \/ MQ!Route(m) \/ MQ!Arrive(m) \/ MQ!DeliverSettled(m)
             \/ MQ!DeliverToHandler(m) \/ MQ!HandlerSucceeds(m) \/ MQ!HandlerFails(m)
      PROVE  link' = link
  BY <1>2 DEF MQ!Publish, MQ!Route, MQ!Arrive, MQ!DeliverSettled, MQ!DeliverToHandler, MQ!HandOver,
     MQ!HandlerSucceeds, MQ!HandlerFails, MQ!Settle, MQ!processVars
<1>3. ASSUME MQ!StartConsuming \/ (\E t \in Types : MQ!RegisterHandler(t)) \/ UNCHANGED MQ!vars
      PROVE  link' = link
  BY <1>3 DEF MQ!StartConsuming, MQ!RegisterHandler, MQ!vars
<1>4. ASSUME MQ!ConnectionLost \/ MQ!Disconnect \/ MQ!Crash \/ \E m \in Messages : MQ!SettlesOnDeadChannel(m)
      PROVE  link' \in {"closed", "down"}
  BY <1>4 DEF MQ!ConnectionLost, MQ!Disconnect, MQ!EndOfChannel, MQ!Crash, MQ!SettlesOnDeadChannel, MQ!Down
<1>5. ASSUME MQ!Connect PROVE link = "connecting" /\ link' # "connecting"
  BY <1>5 DEF MQ!Connect
<1> QED BY <1>1, <1>2, <1>3, <1>4, <1>5 DEF MQ!Next, MQ!HandlerEnds

(***************************************************************************)
(* Type correctness, and how far the stop has come.                        *)
(***************************************************************************)

ProcessTyped ==
  /\ phase \in {"starting", "serving", "stopping", "draining", "gone"}
  /\ signal \in {"none", "SIGTERM", "SIGINT"}
  /\ redis \in {"connecting", "ready", "offline", "quitQueued", "quitting", "ended"}
  /\ hooksRun \subseteq Hooks
  /\ exit \in {"none", "killed", "hookFailed", "deadChannel", "signalled", "drained"}

\* The start-up hooks have ended when the server listens, the destroy hooks run in
\* the stop only, each leaves a connection that is over, and SIGTERM is swallowed
\* after both.
HooksInOrder ==
  /\ phase \in {"serving", "stopping", "draining"} => redis # "connecting" /\ link # "connecting"
  /\ phase \in {"starting", "serving"} =>
       hooksRun = {} /\ redis \in {"connecting", "ready", "offline"} /\ signal = "none"
  /\ phase # "gone" => ("redis" \in hooksRun <=> redis = "ended")
  /\ "rabbitmq" \in hooksRun => link \notin {"connecting", "open"}
  /\ phase = "draining" => hooksRun = Hooks /\ signal = "SIGTERM"

StopInv == ProcessTyped /\ HooksInOrder

\* A step that leaves the process as it is, whatever it does to requests and queue.
LEMMA ProcessAlone ==
  ASSUME StopInv, UNCHANGED processVars,
         link' = "open" => link \in {"connecting", "open"},
         link' = "connecting" => link = "connecting"
  PROVE  StopInv'
BY DEF StopInv, ProcessTyped, HooksInOrder, processVars

LEMMA StopInvStep == StopInv /\ [Next]_vars => StopInv'
<1> SUFFICES ASSUME StopInv, [Next]_vars PROVE StopInv'
  OBVIOUS
<1>0. /\ link' = "open" => link \in {"connecting", "open"}
      /\ link' = "connecting" => link = "connecting"
  BY QueueSteps, LinkOneWay
<1>1. ASSUME UNCHANGED processVars PROVE StopInv'
  BY <1>0, <1>1, ProcessAlone
<1> USE DEF StopInv, ProcessTyped, HooksInOrder
<1>2. CASE ConnectRedis \/ RedisComesOrGoes
  BY <1>2 DEF ConnectRedis, RedisComesOrGoes, queueVars
<1>3. CASE Listen
  BY <1>3 DEF Listen, StartServing, queueVars
<1>4. ASSUME NEW r \in Requests, Accept(r) \/ Handle(r) \/ ClientTimeout(r) \/ ClientCloses(r)
      PROVE  StopInv'
  BY <1>1, <1>4 DEF Accept, Handle, ClientTimeout, ClientCloses, Abandon, ServiceAnswers,
     SignupCompletes, RedisAnswers, Continue
<1>5. ASSUME NEW sig \in {"SIGTERM", "SIGINT"}, Signal(sig) PROVE StopInv'
  BY <1>5 DEF Signal, queueVars
<1>6. CASE QuitRedis \/ QuitReturns
  BY <1>6 DEF QuitRedis, QuitReturns, MayRun, Returned, queueVars, Hooks
<1>7. CASE DisconnectRabbitMQ
  <2>1. link' \notin {"connecting", "open"}
    BY <1>7 DEF DisconnectRabbitMQ, MayRun, MQ!Disconnect, MQ!EndOfChannel, queueVars
  <2>2. /\ phase = "stopping" /\ hooksRun' = hooksRun \cup {"rabbitmq"}
        /\ UNCHANGED <<phase, signal, redis, exit>>
    BY <1>7 DEF DisconnectRabbitMQ, MayRun, Returned
  <2> QED BY <2>1, <2>2 DEF Hooks
<1>8. ASSUME NEW how \in {"killed", "hookFailed", "deadChannel", "signalled", "drained"}, Gone(how)
      PROVE  StopInv'
  BY <1>0, <1>8 DEF Gone
<1>9. CASE QuitFails \/ Drain \/ DeadChannel \/ Killed
  BY <1>8, <1>9 DEF QuitFails, Drain, DeadChannel, Killed, Exit
<1>10. CASE Close
  <2>1. CASE Exit("signalled")
    BY <1>8, <2>1 DEF Exit
  <2>2. CASE /\ signal = "SIGTERM" /\ phase' = "draining" /\ hooksRun = Hooks /\ phase = "stopping"
             /\ UNCHANGED <<queueVars, requestVars, signal, redis, hooksRun, exit>>
    BY <2>2 DEF queueVars
  <2> QED BY <1>10, <2>1, <2>2 DEF Close, Resignal
<1>11. CASE MessagingStep
  BY <1>1, <1>11 DEF MessagingStep
<1>12. CASE UNCHANGED vars
  BY <1>1, <1>12 DEF vars
<1> QED
  BY <1>2, <1>3, <1>4, <1>5, <1>6, <1>7, <1>9, <1>10, <1>11, <1>12 DEF Next

LEMMA StopInvariance == Spec => []StopInv
<1>1. Init => StopInv
  BY DEF Init, StopInv, ProcessTyped, HooksInOrder
<1> QED BY <1>1, StopInvStep, PTL DEF Spec

\* What the stop waits for: before its hooks have returned, a hook that may be called
\* now or a QUIT that is answered or given up; while SIGTERM is being swallowed,
\* neither connection, only what is still running.
StopGoesOn ==
  /\ phase = "stopping" /\ hooksRun # Hooks =>
       \/ redis \in {"quitting", "quitQueued"}
       \/ MayRun("redis") /\ redis \in {"ready", "offline"}
       \/ MayRun("rabbitmq")
  /\ phase = "draining" => redis = "ended" /\ link # "open"

\* The stop cannot hang on a connection.  No hook finds its connection in a state it
\* does not provide for, such as a Redis client that is still connecting or has
\* ended already; and a process that SIGTERM does not end by itself has closed both,
\* so nothing keeps its event loop alive but handlers.
THEOREM StopNeverStuck == Spec => []StopGoesOn
<1>1. StopInv => StopGoesOn
  BY DEF StopInv, ProcessTyped, HooksInOrder, StopGoesOn, MayRun, Hooks
<1> QED BY <1>1, StopInvariance, PTL

\* Remembering an id keeps a list of ids.
LEMMA RememberType ==
  ASSUME NEW ids \in Seq(EventIds), NEW id \in EventIds
  PROVE  MQ!Remember(ids, id) \in Seq(EventIds)
<1> DEFINE added == IF id \in MQ!Range(ids) THEN ids ELSE Append(ids, id)
<1>1. added \in Seq(EventIds)
  OBVIOUS
<1>2. MQ!Remember(ids, id) = IF Len(added) > MaxIds THEN Tail(added) ELSE added
  BY DEF MQ!Remember
<1> HIDE DEF added
<1>3. MaxIds \in Nat /\ Len(<<>>) = 0
  BY LifecycleAssumption DEF MQ!MessagingAssumption
<1>4. Len(added) > MaxIds => added # <<>>
  BY <1>3
<1>5. Len(added) > MaxIds => Tail(added) \in Seq(EventIds)
  BY <1>1, <1>4
<1> QED BY <1>1, <1>2, <1>5

LEMMA QueueTypes == MQ!TypeOK /\ [MQ!Next]_(MQ!vars) => MQ!TypeOK'
<1> SUFFICES ASSUME MQ!TypeOK, [MQ!Next]_(MQ!vars) PROVE MQ!TypeOK'
  OBVIOUS
<1> USE DEF MQ!TypeOK
<1>0. \A m \in Messages : IdOf[m] \in EventIds
  BY LifecycleAssumption DEF MQ!MessagingAssumption
<1>1. CASE MQ!Connect \/ MQ!StartConsuming \/ \E t \in Types : MQ!RegisterHandler(t)
  BY <1>1 DEF MQ!Connect, MQ!StartConsuming, MQ!RegisterHandler
<1>2. ASSUME NEW m \in Messages, MQ!Publish(m) \/ MQ!Arrive(m) \/ MQ!Route(m) PROVE MQ!TypeOK'
  BY <1>2 DEF MQ!Publish, MQ!Arrive, MQ!Route, MQ!RoutedTo, MQ!Move, MQ!processVars
<1>3. ASSUME NEW m \in Messages, MQ!DeliverSettled(m) PROVE MQ!TypeOK'
  BY <1>3 DEF MQ!DeliverSettled, MQ!Move, MQ!processVars, MQ!Settled
<1>4. ASSUME NEW m \in Messages, MQ!DeliverToHandler(m) PROVE MQ!TypeOK'
  BY <1>4 DEF MQ!DeliverToHandler, MQ!HandOver, MQ!Move
<1>5. ASSUME NEW m \in Messages, MQ!HandlerSucceeds(m) PROVE MQ!TypeOK'
  <2>1. processed' \in Seq(EventIds)
    BY <1>0, <1>5, RememberType DEF MQ!HandlerSucceeds, MQ!Remembered
  <2>2. effects' \in [EventIds -> Nat]
    BY <1>0, <1>5 DEF MQ!HandlerSucceeds, MQ!TakeEffect
  <2> QED BY <1>5, <2>1, <2>2 DEF MQ!HandlerSucceeds, MQ!Settle, MQ!Move, MQ!Settled
<1>6. ASSUME NEW m \in Messages, MQ!HandlerFails(m) PROVE MQ!TypeOK'
  BY <1>6 DEF MQ!HandlerFails, MQ!Settle, MQ!Move, MQ!Settled
<1>7. MQ!Down => /\ link' = "down" /\ consumer' = "starting" /\ handlers' = {}
                 /\ running' = {} /\ processed' \in Seq(EventIds)
  BY DEF MQ!Down
<1>8. ASSUME NEW m \in Messages, MQ!SettlesOnDeadChannel(m) PROVE MQ!TypeOK'
  <2>1. effects' \in [EventIds -> Nat]
    BY <1>0, <1>8 DEF MQ!SettlesOnDeadChannel
  <2> QED BY <1>7, <1>8, <2>1 DEF MQ!SettlesOnDeadChannel
<1>9. ASSUME NEW b \in {"lost", "ready", "unrouted"}, place' = MQ!AfterChannel(b)
      PROVE  place' \in [Messages -> {"absent", "buffered", "lost", "unrouted", "ready", "unacked"} \cup MQ!Settled]
  BY <1>9 DEF MQ!AfterChannel
<1>10. CASE MQ!ConnectionLost \/ MQ!Disconnect
  BY <1>9, <1>10 DEF MQ!ConnectionLost, MQ!Disconnect, MQ!EndOfChannel, MQ!RoutedTo
<1>11. CASE MQ!Crash
  BY <1>7, <1>9, <1>11 DEF MQ!Crash
<1>12. CASE UNCHANGED MQ!vars
  BY <1>12 DEF MQ!vars
<1>13. ~MQ!Restart
  BY DEF MQ!Restart
<1> QED
  BY <1>1, <1>2, <1>3, <1>4, <1>5, <1>6, <1>8, <1>10, <1>11, <1>12, <1>13
  DEF MQ!Next, MQ!HandlerEnds

\* Process, requests and queue keep their types.
THEOREM TypeCorrect == Spec => []TypeOK
<1>1. Init => MQ!TypeOK
  BY DEF Init, MQ!Init, MQ!Fresh, MQ!TypeOK
<1>2. IInv /\ StopInv /\ MQ!TypeOK => TypeOK
  BY DEF IInv, Typed, Steps, StopInv, ProcessTyped, TypeOK
<1> QED BY <1>1, <1>2, QueueSteps, QueueTypes, Invariance, StopInvariance, PTL DEF Spec

(***************************************************************************)
(* The configuration the process starts with: theorems about Bootstrap.    *)
(***************************************************************************)
\* Any variables with any values in each place, where BootInit has one at a time
\* out of the ordinary.
Anything(values) ==
  /\ DOMAIN values \subseteq Keys
  /\ \A k \in DOMAIN values : values[k] \in Values(k)

AnyStart ==
  /\ Anything(shell) /\ Anything(file)
  /\ env = shell
  /\ tracing = "none"
  /\ validated = <<>>
  /\ config = <<>>
  /\ stage = "import"

Assigned(values) ==
  [k \in Keys |-> IF k \in Numbers THEN TextOf(values[k]) ELSE values[k]]

\* The inductive invariant: each reader's result, once it has run, is a function of
\* the variables given.
Imported == stage # "import" => tracing = EndpointIn(shell)

Loaded ==
  IF stage \in {"import", "validate", "refused"}
  THEN env = shell
  ELSE LET given == Over(shell, file) IN
       /\ Valid(given)
       /\ validated = Converted(given)
       /\ env = Over(shell, Assigned(validated))

Configured ==
  IF stage \in {"listen", "up", "crashed"}
  THEN config = [k \in Keys |-> Read(k, env[k])]
  ELSE config = <<>>

BootInv == Anything(shell) /\ Anything(file) /\ Imported /\ Loaded /\ Configured

\* The starts of the model are among them.
LEMMA AnythingStarts == BootInit => AnyStart
<1> SUFFICES ASSUME BootInit PROVE AnyStart
  OBVIOUS
<1>1. PICK k \in Keys, home \in {"shell", "file"} :
        LET Choices == {<<>>} \cup [{k} -> Values(k)]
            Of(where) == IF where = home THEN Ordinary ELSE <<>>
        IN \E s \in Choices, f \in Choices :
             /\ shell = Given(Of("shell"), k, s)
             /\ file = Given(Of("file"), k, f)
  BY DEF BootInit
<1>2. /\ Anything(<<>>)
      /\ Anything(Ordinary)
  BY BootstrapAssumption DEF BootstrapAssumption, Anything, Ordinary, Values, Required, Services, Numbers,
         NumberDefault, KeyForms, Keys
<1>3. ASSUME NEW values, Anything(values), NEW s \in {<<>>} \cup [{k} -> Values(k)]
      PROVE  Anything(Given(values, k, s))
  BY <1>3 DEF Anything, Given, Over
<1> QED BY <1>1, <1>2, <1>3 DEF AnyStart, BootInit

\* Nothing has been read at first.
LEMMA BootInvInit == AnyStart => BootInv
BY DEF AnyStart, BootInv, Imported, Loaded, Configured

\* listen() leaves the configuration alone, whatever it makes of the port.
LEMMA ListenEffect ==
  OpenPort => /\ stage = "listen" /\ stage' \in {"up", "crashed"}
                 /\ UNCHANGED <<shell, file, env, tracing, validated, config>>
BY DEF OpenPort

\* Each reader keeps what the others have read.
LEMMA BootStep == BootInv /\ [BootNext]_bootVars => BootInv'
<1> SUFFICES ASSUME BootInv, [BootNext]_bootVars PROVE BootInv'
  OBVIOUS
<1> USE DEF BootInv, Anything, Imported, Loaded, Configured
<1>1. CASE ImportTracing
  BY <1>1 DEF ImportTracing
<1>2. CASE Refuse
  BY <1>2 DEF Refuse
<1>3. CASE Validate
  BY <1>3 DEF Validate, Merged, Assign, Assigned
<1>4. CASE Configure
  <2>1. DOMAIN env = Keys
    BY <1>4 DEF Configure, Over, Assigned
  <2>2. config' = [k \in Keys |-> Read(k, env[k])]
    BY <1>4, <2>1 DEF Configure
  <2> QED BY <1>4, <2>2 DEF Configure
<1>5. CASE OpenPort
  <2>1. /\ stage = "listen" /\ stage' \in {"up", "crashed"}
        /\ UNCHANGED <<shell, file, env, tracing, validated, config>>
    BY <1>5, ListenEffect
  <2> QED BY <2>1
<1>6. CASE UNCHANGED bootVars
  BY <1>6 DEF bootVars
<1> QED BY <1>1, <1>2, <1>3, <1>4, <1>5, <1>6 DEF BootNext

\* The number in a text without an exponent.
LEMMA PlainText ==
  ASSUME NEW text \in Numerals, text.exp = 0
  PROVE  Tenths(text) \div 10 = ParseInt(text)
<1>1. /\ text.int \in Nat /\ text.frac \in 0..9
      /\ 10 ^ text.exp = 1
  BY BootstrapAssumption DEF BootstrapAssumption
<1>2. Tenths(text) = text.int * 10 + text.frac
  BY <1>1 DEF Tenths
<1>3. (text.int * 10 + text.frac) \div 10 = text.int
  BY <1>1
<1> QED BY <1>2, <1>3 DEF ParseInt

\* No number is a string, nor a string a number.
LEMMA Apart ==
  /\ \A k \in Numbers : k \in Keys /\ k # "JWT_PUBLIC_KEY"
  /\ \A k \in Required \cup Optional : k \in Keys /\ k \notin Numbers
BY DEF Keys, Numbers, NumberDefault, Required, Services, Optional

\* A number comes through text and back, but for a fraction and an exponent.
LEMMA NumbersRead == BootInv => NumbersAsValidated
<1>1. ASSUME BootInv, NEW k \in Numbers, k \in DOMAIN shell
      PROVE  shell[k] \in Numerals
  BY <1>1, Apart DEF BootInv, Anything, Values
<1>2. ASSUME BootInv, NEW k \in Numbers, config # <<>>
      PROVE  /\ config[k] = ParseInt(env[k])
             /\ validated = Converted(Over(shell, file))
             /\ env = Over(shell, Assigned(validated))
  BY <1>2, Apart DEF BootInv, Configured, Loaded, Read
<1> SUFFICES ASSUME BootInv, config # <<>>, NEW k \in Numbers,
                    k \in DOMAIN shell => shell[k].exp = 0
             PROVE  config[k] = validated[k] \div 10
  BY <1>1, BootstrapAssumption DEF NumbersAsValidated, BootstrapAssumption
<1>3. CASE k \in DOMAIN shell
  <2>1. env[k] = shell[k] /\ validated[k] = Tenths(shell[k])
    BY <1>2, <1>3, Apart DEF Over, Converted
  <2> QED BY <1>1, <1>2, <1>3, <2>1, PlainText
<1>4. CASE k \notin DOMAIN shell
  <2>1. env[k] = TextOf(validated[k])
    BY <1>2, <1>4, Apart DEF Over, Assigned
  <2> QED BY <1>2, <2>1 DEF TextOf, ParseInt
<1> QED BY <1>3, <1>4

\* Strings go through the readers as they are.
LEMMA WordsRead ==
  ASSUME BootInv, stage = "up", NEW k \in Required \cup Optional
  PROVE  /\ k \in Keys /\ k \notin Numbers
         /\ env[k] = IF k \in DOMAIN shell THEN shell[k]
                     ELSE IF k \in DOMAIN file THEN file[k] ELSE "default"
         /\ config[k] = IF k = "JWT_PUBLIC_KEY" THEN DecodeKey(env[k]) ELSE env[k]
<1>1. k \in Keys /\ k \notin Numbers
  BY Apart
<1>2. /\ validated = Converted(Over(shell, file))
      /\ env = Over(shell, Assigned(validated))
      /\ config = [j \in Keys |-> Read(j, env[j])]
  BY DEF BootInv, Configured, Loaded
<1>3. validated[k] = IF k \in DOMAIN shell THEN shell[k]
                     ELSE IF k \in DOMAIN file THEN file[k] ELSE "default"
  BY <1>1, <1>2 DEF Over, Converted
<1>4. env[k] = IF k \in DOMAIN shell THEN shell[k] ELSE validated[k]
  BY <1>1, <1>2 DEF Over, Assigned
<1>5. config[k] = IF k = "JWT_PUBLIC_KEY" THEN DecodeKey(env[k]) ELSE env[k]
  BY <1>1, <1>2 DEF Read
<1> QED BY <1>1, <1>3, <1>4, <1>5

\* A key that does not come out as PEM was base64 of the one-line form.
LEMMA WordsGiven == BootInv => WordsAsGiven
<1> SUFFICES ASSUME BootInv, stage = "up" PROVE WordsAsGiven
  BY DEF WordsAsGiven
<1>1. ASSUME NEW k \in (Required \cup Optional) \ {"JWT_PUBLIC_KEY"}
      PROVE  config[k] = IF k \in DOMAIN shell THEN shell[k]
                         ELSE IF k \in DOMAIN file THEN file[k] ELSE "default"
  BY WordsRead
<1>2. ASSUME config["JWT_PUBLIC_KEY"] # "pem"
      PROVE  \E given \in {shell, file} :
               "JWT_PUBLIC_KEY" \in DOMAIN given /\ given["JWT_PUBLIC_KEY"] = "base64OfEscaped"
  <2> DEFINE k == "JWT_PUBLIC_KEY"
  <2>1. k \in Required /\ k \notin Numbers
    BY DEF Required, Numbers, NumberDefault
  <2>2. Valid(Over(shell, file))
    BY DEF BootInv, Loaded
  <2>3. k \in DOMAIN shell \cup DOMAIN file
    BY <2>1, <2>2 DEF Valid, Over
  <2>4. PICK given \in {shell, file} : k \in DOMAIN given /\ env[k] = given[k] /\ Over(shell, file)[k] = given[k]
    BY <2>1, <2>3, WordsRead DEF Over
  <2>5. env[k] \in KeyForms /\ env[k] # "empty"
    <3>1. env[k] \in KeyForms
      BY <2>1, <2>4 DEF BootInv, Anything, Values
    <3>2. Accepted(k, env[k])
      BY <2>2, <2>3, <2>4 DEF Valid, Over
    <3> QED BY <2>1, <3>1, <3>2 DEF Accepted, Services
  <2>6. DecodeKey(env[k]) # "pem"
    BY <1>2, <2>1, WordsRead
  <2>7. env[k] = "base64OfEscaped"
    BY <2>5, <2>6 DEF DecodeKey, KeyForms
  <2> QED BY <2>4, <2>7
<1> QED BY <1>1, <1>2 DEF WordsAsGiven

\* tracing.ts and the factory read the same text, unless the file has the only one.
LEMMA TracesSent == BootInv => TracesGoAstrayOnlyByFile
<1> SUFFICES ASSUME BootInv, stage = "up", "JAEGER_ENDPOINT" \in DOMAIN file => "JAEGER_ENDPOINT" \in DOMAIN shell
             PROVE  tracing = config["JAEGER_ENDPOINT"]
  BY DEF TracesGoAstrayOnlyByFile
<1>1. "JAEGER_ENDPOINT" \in Optional
  BY DEF Optional
<1>2. tracing = IF "JAEGER_ENDPOINT" \in DOMAIN shell THEN shell["JAEGER_ENDPOINT"] ELSE "default"
  BY DEF BootInv, Imported, EndpointIn
<1> QED BY <1>1, <1>2, WordsRead

\* From any start.
LEMMA BootInvariance == AnyStart /\ [][BootNext]_bootVars => []BootInv
BY BootInvInit, BootStep, PTL

\* Whatever is given, in any combination and in either place: the three readers
\* agree but for the edges the properties name.  So variables do not interact, and
\* the runs lose nothing by having one out of the ordinary at a time.
THEOREM AnyConfiguration ==
  AnyStart /\ [][BootNext]_bootVars => [](ConfigAsGiven /\ TracesGoAstrayOnlyByFile)
<1>1. BootInv => ConfigAsGiven /\ TracesGoAstrayOnlyByFile
  BY NumbersRead, WordsGiven, TracesSent DEF ConfigAsGiven
<1> QED BY <1>1, BootInvariance, PTL

\* The gateway runs with the configuration it was given, and with the numbers that
\* were validated.
THEOREM Configuration == BootSpec => []ConfigAsGiven
BY AnyConfiguration, AnythingStarts, PTL DEF BootSpec

\* Spans go to the configured endpoint, unless the file alone has it.
THEOREM StrayTraces == BootSpec => []TracesGoAstrayOnlyByFile
BY AnyConfiguration, AnythingStarts, PTL DEF BootSpec
=============================================================================
