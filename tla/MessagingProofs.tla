--------------------------- MODULE MessagingProofs ---------------------------
(* Theorems about Messaging, for any copies, ids and types of events, any    *)
(* capacity of processedIds and any number of restarts.                      *)
EXTENDS Messaging, FiniteSetTheorems, SequenceTheorems, TLAPS

USE DEF MessagingAssumption

(***************************************************************************)
(* processedIds.                                                           *)
(***************************************************************************)

Distinct(ids) == \A i, j \in 1..Len(ids) : ids[i] = ids[j] => i = j

\* An id that is not there is appended.
LEMMA AddSound ==
  ASSUME NEW ids \in Seq(EventIds), Distinct(ids), NEW id \in EventIds, id \notin Range(ids)
  PROVE  /\ Append(ids, id) \in Seq(EventIds)
         /\ Len(Append(ids, id)) = Len(ids) + 1
         /\ Distinct(Append(ids, id))
         /\ \A i \in 1..Len(ids) : Append(ids, id)[i] = ids[i]
         /\ Append(ids, id)[Len(ids) + 1] = id
<1>1. /\ Append(ids, id) \in Seq(EventIds)
      /\ Len(Append(ids, id)) = Len(ids) + 1
      /\ \A i \in 1..Len(ids) : Append(ids, id)[i] = ids[i]
      /\ Append(ids, id)[Len(ids) + 1] = id
      /\ Len(ids) \in Nat
  OBVIOUS
<1>2. \A i \in 1..Len(ids) : ids[i] # id
  BY LenProperties DEF Range
<1> QED BY <1>1, <1>2 DEF Distinct

\* Without its oldest id the list is as good as before.
LEMMA EvictSound ==
  ASSUME NEW ids \in Seq(EventIds), Distinct(ids), Len(ids) > 0
  PROVE  /\ Tail(ids) \in Seq(EventIds)
         /\ Len(Tail(ids)) = Len(ids) - 1
         /\ Distinct(Tail(ids))
         /\ \A i \in 1..Len(Tail(ids)) : i + 1 \in 1..Len(ids) /\ Tail(ids)[i] = ids[i + 1]
<1>1. ids # <<>> /\ Len(ids) \in Nat
  OBVIOUS
<1>2. /\ Tail(ids) \in Seq(EventIds)
      /\ Len(Tail(ids)) = Len(ids) - 1
      /\ \A i \in 1..Len(Tail(ids)) : Tail(ids)[i] = ids[i + 1]
  BY <1>1, HeadTailProperties
<1>3. \A i \in 1..Len(Tail(ids)) : i + 1 \in 1..Len(ids)
  BY <1>1, <1>2
<1>4. Distinct(Tail(ids))
  <2> SUFFICES ASSUME NEW i \in 1..Len(Tail(ids)), NEW j \in 1..Len(Tail(ids)),
                      Tail(ids)[i] = Tail(ids)[j]
               PROVE  i = j
    BY DEF Distinct
  <2>1. ids[i + 1] = ids[j + 1]
    BY <1>2
  <2>2. i + 1 = j + 1
    BY <1>3, <2>1 DEF Distinct
  <2> QED BY <2>2
<1> QED BY <1>2, <1>3, <1>4

\* Remembering keeps the list within its capacity and free of repetitions, and
\* brings in no id but the one remembered.
LEMMA RememberSound ==
  ASSUME NEW ids \in Seq(EventIds), NEW id \in EventIds, Distinct(ids), Len(ids) <= MaxIds
  PROVE  /\ Remember(ids, id) \in Seq(EventIds)
         /\ Len(Remember(ids, id)) <= MaxIds
         /\ Distinct(Remember(ids, id))
         /\ \A i \in 1..Len(Remember(ids, id)) :
              Remember(ids, id)[i] = id \/ \E j \in 1..Len(ids) : Remember(ids, id)[i] = ids[j]
<1> DEFINE added == IF id \in Range(ids) THEN ids ELSE Append(ids, id)
<1>1. /\ added \in Seq(EventIds)
      /\ Distinct(added)
      /\ Len(added) <= MaxIds + 1
      /\ \A i \in 1..Len(added) : added[i] = id \/ \E j \in 1..Len(ids) : added[i] = ids[j]
  <2>1. CASE id \in Range(ids)
    BY <2>1, MessagingAssumption
  <2>2. CASE id \notin Range(ids)
    BY <2>2, AddSound, MessagingAssumption
  <2> QED BY <2>1, <2>2
<1>2. Remember(ids, id) = IF Len(added) > MaxIds THEN Tail(added) ELSE added
  BY DEF Remember
<1> HIDE DEF added
<1>3. CASE Len(added) > MaxIds
  <2>1. Len(added) > 0 /\ Len(added) = MaxIds + 1
    BY <1>1, <1>3, MessagingAssumption
  <2>2. /\ Tail(added) \in Seq(EventIds)
        /\ Len(Tail(added)) = Len(added) - 1
        /\ Distinct(Tail(added))
        /\ \A i \in 1..Len(Tail(added)) : i + 1 \in 1..Len(added) /\ Tail(added)[i] = added[i + 1]
    BY <1>1, <2>1, EvictSound
  <2>3. Len(Tail(added)) <= MaxIds
    BY <2>1, <2>2, MessagingAssumption
  <2>4. \A i \in 1..Len(Tail(added)) :
          Tail(added)[i] = id \/ \E j \in 1..Len(ids) : Tail(added)[i] = ids[j]
    BY <1>1, <2>2
  <2> QED BY <1>2, <1>3, <2>2, <2>3, <2>4
<1>4. CASE ~(Len(added) > MaxIds)
  <2>1. Len(added) <= MaxIds
    BY <1>1, <1>4, MessagingAssumption
  <2> QED BY <1>1, <1>2, <1>4, <2>1
<1> QED BY <1>3, <1>4

(***************************************************************************)
(* Type correctness, together with what processedIds needs to stay in      *)
(* shape.                                                                  *)
(***************************************************************************)

\* Only what was processed is remembered, each id once, and no more of them than
\* the capacity.
ProcessedSound ==
  /\ Len(processed) <= MaxIds
  /\ Distinct(processed)
  /\ \A i \in 1..Len(processed) : effects[processed[i]] > 0

\* A process that is down has forgotten everything.
LEMMA DownSound ==
  ASSUME Down
  PROVE  /\ processed' \in Seq(EventIds) /\ Len(processed') = 0
         /\ link' = "down" /\ consumer' = "starting" /\ handlers' = {} /\ running' = {}
BY EmptySeq DEF Down

\* What completing a handler does to the counts.
LEMMA TakeEffectSound ==
  ASSUME TypeOK, NEW m \in Messages, TakeEffect(m)
  PROVE  /\ effects' \in [EventIds -> Nat]
         /\ IdOf[m] \in EventIds
         /\ effects'[IdOf[m]] = effects[IdOf[m]] + 1
         /\ \A id \in EventIds : id # IdOf[m] => effects'[id] = effects[id]
<1>1. IdOf[m] \in EventIds
  BY MessagingAssumption
<1> QED BY <1>1 DEF TypeOK, TakeEffect

\* What the end of the channel leaves of the copies.
LEMMA AfterChannelType ==
  ASSUME TypeOK, NEW b \in {"lost", "ready", "unrouted"}
  PROVE  /\ AfterChannel(b) \in [Messages -> {"absent", "lost", "unrouted", "ready"} \cup Settled]
         /\ \A m \in Messages :
              AfterChannel(b)[m] = IF place[m] = "unacked" THEN "ready"
                                   ELSE IF place[m] = "buffered" THEN b ELSE place[m]
BY DEF TypeOK, AfterChannel, Settled

\* Where a copy is routed to is a place.
LEMMA RoutedToType == RoutedTo \in {"ready", "unrouted"}
BY DEF RoutedTo

\* Every step keeps the types.
LEMMA TypeStep == TypeOK /\ ProcessedSound /\ [Next]_vars => TypeOK'
<1> SUFFICES ASSUME TypeOK, ProcessedSound, [Next]_vars PROVE TypeOK'
  OBVIOUS
<1> USE DEF TypeOK
<1>1. CASE Connect
  BY <1>1 DEF Connect
<1>2. CASE StartConsuming
  BY <1>2 DEF StartConsuming
<1>3. ASSUME NEW t \in Types, RegisterHandler(t) PROVE TypeOK'
  BY <1>3 DEF RegisterHandler
<1>4. ASSUME NEW m \in Messages, Publish(m) \/ Arrive(m) PROVE TypeOK'
  BY <1>4 DEF Publish, Arrive, Move, processVars
<1>5. ASSUME NEW m \in Messages, Route(m) PROVE TypeOK'
  BY <1>5, RoutedToType DEF Route, Move, processVars
<1>6. ASSUME NEW m \in Messages, DeliverSettled(m) PROVE TypeOK'
  BY <1>6 DEF DeliverSettled, Move, processVars, Settled
<1>7. ASSUME NEW m \in Messages, DeliverToHandler(m) PROVE TypeOK'
  BY <1>7 DEF DeliverToHandler, HandOver, Move, processVars
<1>8. ASSUME NEW m \in Messages, HandlerSucceeds(m) PROVE TypeOK'
  <2>1. IdOf[m] \in EventIds
    BY MessagingAssumption
  <2>2. processed' \in Seq(EventIds)
    BY <1>8, <2>1, RememberSound DEF HandlerSucceeds, Remembered, ProcessedSound
  <2>3. effects' \in [EventIds -> Nat]
    BY <1>8, TakeEffectSound DEF HandlerSucceeds
  <2> QED BY <1>8, <2>2, <2>3 DEF HandlerSucceeds, Settle, Move, Settled
<1>9. ASSUME NEW m \in Messages, HandlerFails(m) PROVE TypeOK'
  BY <1>9 DEF HandlerFails, Settle, Move, Settled
<1>10. ASSUME NEW m \in Messages, SettlesOnDeadChannel(m) PROVE TypeOK'
  <2>1. effects' \in [EventIds -> Nat]
    BY <1>10, TakeEffectSound DEF SettlesOnDeadChannel, TakeEffect
  <2> QED BY <1>10, <2>1, DownSound DEF SettlesOnDeadChannel
<1>11. CASE ConnectionLost
  BY <1>11, AfterChannelType DEF ConnectionLost, EndOfChannel, Settled
<1>12. CASE Disconnect
  BY <1>12, AfterChannelType, RoutedToType DEF Disconnect, EndOfChannel, Settled
<1>13. CASE Crash
  BY <1>13, AfterChannelType, DownSound DEF Crash, Settled
<1>14. CASE Restart
  BY <1>14, MessagingAssumption DEF Restart
<1>15. CASE UNCHANGED vars
  BY <1>15 DEF vars
<1> QED
  BY <1>1, <1>2, <1>3, <1>4, <1>5, <1>6, <1>7, <1>8, <1>9, <1>10, <1>11, <1>12, <1>13,
     <1>14, <1>15 DEF Next, HandlerEnds

\* Every step keeps the list of ids sound: it grows only by the id of an event
\* whose handler completed in the same step, and counts never decrease.
LEMMA ProcessedStep == TypeOK /\ ProcessedSound /\ [Next]_vars => ProcessedSound'
<1> SUFFICES ASSUME TypeOK, ProcessedSound, [Next]_vars PROVE ProcessedSound'
  OBVIOUS
<1>1. ASSUME NEW m \in Messages, HandlerSucceeds(m) PROVE ProcessedSound'
  <2>1. /\ processed \in Seq(EventIds) /\ IdOf[m] \in EventIds
        /\ Distinct(processed) /\ Len(processed) <= MaxIds
    BY MessagingAssumption DEF TypeOK, ProcessedSound
  <2>2. processed' = Remember(processed, IdOf[m])
    BY <1>1 DEF HandlerSucceeds, Remembered
  <2>3. /\ processed' \in Seq(EventIds)
        /\ Len(processed') <= MaxIds
        /\ Distinct(processed')
        /\ \A i \in 1..Len(processed') :
             processed'[i] = IdOf[m] \/ \E j \in 1..Len(processed) : processed'[i] = processed[j]
    BY <2>1, <2>2, RememberSound
  <2>4. \A i \in 1..Len(processed') : effects'[processed'[i]] > 0
    <3> SUFFICES ASSUME NEW i \in 1..Len(processed') PROVE effects'[processed'[i]] > 0
      OBVIOUS
    <3>1. processed'[i] \in EventIds
      BY <2>3, ElementOfSeq
    <3>2. CASE processed'[i] = IdOf[m]
      BY <1>1, <3>2, <2>1, TakeEffectSound DEF HandlerSucceeds, TypeOK
    <3>3. CASE processed'[i] # IdOf[m]
      <4>1. effects[processed'[i]] > 0
        BY <2>3, <3>3 DEF ProcessedSound
      <4> QED BY <1>1, <3>1, <3>3, <4>1, TakeEffectSound DEF HandlerSucceeds
    <3> QED BY <3>2, <3>3
  <2> QED BY <2>3, <2>4 DEF ProcessedSound, Distinct
<1>2. ASSUME Len(processed') = 0 PROVE ProcessedSound'
  BY <1>2, MessagingAssumption DEF ProcessedSound, Distinct
<1>3. ASSUME NEW m \in Messages, SettlesOnDeadChannel(m) PROVE ProcessedSound'
  BY <1>2, <1>3, DownSound DEF SettlesOnDeadChannel
<1>4. CASE Crash
  BY <1>2, <1>4, DownSound DEF Crash
<1>5. ASSUME UNCHANGED <<processed, effects>> PROVE ProcessedSound'
  BY <1>5 DEF ProcessedSound, Distinct
<1> QED
  BY <1>1, <1>3, <1>4, <1>5
  DEF Next, HandlerEnds, Connect, StartConsuming, RegisterHandler, Publish, Route, Arrive,
      DeliverSettled, DeliverToHandler, HandOver, HandlerFails, ConnectionLost, Disconnect,
      EndOfChannel, Restart, processVars, vars

\* At first nothing is remembered.
LEMMA InitSound == Init => TypeOK /\ ProcessedSound
<1> SUFFICES ASSUME Init PROVE TypeOK /\ ProcessedSound
  OBVIOUS
<1>1. processed \in Seq(EventIds) /\ Len(processed) = 0
  BY EmptySeq DEF Init, Fresh
<1>2. TypeOK
  BY <1>1, MessagingAssumption DEF Init, Fresh, TypeOK
<1>3. ProcessedSound
  BY <1>1, MessagingAssumption DEF ProcessedSound, Distinct
<1> QED BY <1>2, <1>3

\* The variables keep their types, for any number of restarts.
THEOREM TypeCorrect == Spec => []TypeOK
BY InitSound, TypeStep, ProcessedStep, PTL DEF Spec

\* The set of processed ids never exceeds its capacity or repeats an id, and
\* holds only ids of events some handler completed for.
THEOREM ProcessedCorrect == Spec => []ProcessedIdsSound
<1>1. ProcessedSound => ProcessedIdsSound
  BY DEF ProcessedSound, ProcessedIdsSound, Distinct
<1> QED BY <1>1, InitSound, TypeStep, ProcessedStep, PTL DEF Spec

(***************************************************************************)
(* The broker's view of a copy and the process's view of it: a copy held   *)
(* unacknowledged is one whose handler runs, and a handler left running on *)
(* a closed channel works on a copy that is back in the queue.             *)
(***************************************************************************)
RunningSound ==
  /\ link = "open" => \A m \in Messages : place[m] = "unacked" <=> m \in running
  /\ link # "open" => \A m \in Messages : place[m] # "unacked"
  /\ link = "closed" => \A m \in running : place[m] = "ready"
  /\ link \notin {"open", "closed"} => running = {}

\* What moving a copy does to the places.
LEMMA MoveSound ==
  ASSUME TypeOK, NEW m \in Messages, NEW where, Move(m, where)
  PROVE  /\ place'[m] = where
         /\ \A n \in Messages : n # m => place'[n] = place[n]
BY DEF TypeOK, Move

\* The same with a handler that has run.
LEMMA SettleSound ==
  ASSUME TypeOK, NEW m \in Messages, NEW where, Settle(m, where)
  PROVE  /\ place'[m] = where
         /\ \A n \in Messages : n # m => place'[n] = place[n]
         /\ m \in running /\ running' = running \ {m} /\ link = "open" /\ link' = "open"
BY MoveSound DEF Settle

\* Every step keeps the two views together.
LEMMA RunningStep == TypeOK /\ RunningSound /\ [Next]_vars => RunningSound'
<1> SUFFICES ASSUME TypeOK, RunningSound, [Next]_vars PROVE RunningSound'
  OBVIOUS
<1> USE DEF RunningSound
<1>1. CASE Connect
  BY <1>1 DEF Connect
<1>2. ASSUME NEW m \in Messages, Publish(m) \/ Arrive(m) PROVE RunningSound'
  <2>1. UNCHANGED <<link, running>> /\ place[m] = "absent"
    BY <1>2 DEF Publish, Arrive, processVars
  <2>2. /\ place'[m] \in {"buffered", "ready"}
        /\ \A n \in Messages : n # m => place'[n] = place[n]
    BY <1>2, MoveSound DEF Publish, Arrive
  <2> QED BY <2>1, <2>2 DEF TypeOK
<1>3. ASSUME NEW m \in Messages, Route(m) PROVE RunningSound'
  <2>1. UNCHANGED <<link, running>> /\ place[m] = "buffered"
    BY <1>3 DEF Route, processVars
  <2>2. /\ place'[m] \in {"unrouted", "ready"}
        /\ \A n \in Messages : n # m => place'[n] = place[n]
    BY <1>3, MoveSound, RoutedToType DEF Route
  <2> QED BY <2>1, <2>2 DEF TypeOK
<1>4. ASSUME NEW m \in Messages, DeliverSettled(m) PROVE RunningSound'
  <2>1. UNCHANGED <<link, running>> /\ place[m] = "ready" /\ link = "open"
    BY <1>4 DEF DeliverSettled, Delivered, processVars
  <2>2. /\ place'[m] \in {"dead", "duplicate", "unhandled"}
        /\ \A n \in Messages : n # m => place'[n] = place[n]
    BY <1>4, MoveSound DEF DeliverSettled
  <2> QED BY <2>1, <2>2
<1>5. ASSUME NEW m \in Messages, DeliverToHandler(m) PROVE RunningSound'
  <2>1. link = "open" /\ link' = "open" /\ running' = running \cup {m}
    BY <1>5 DEF DeliverToHandler, HandOver, Delivered
  <2>2. /\ place'[m] = "unacked"
        /\ \A n \in Messages : n # m => place'[n] = place[n]
    BY <1>5, MoveSound DEF DeliverToHandler, HandOver
  <2> QED BY <2>1, <2>2
<1>6. ASSUME NEW m \in Messages, NEW where \in {"processed", "dead"}, Settle(m, where)
      PROVE  RunningSound'
  BY <1>6, SettleSound
<1>7. ASSUME NEW m \in Messages, SettlesOnDeadChannel(m) PROVE RunningSound'
  BY <1>7, DownSound DEF SettlesOnDeadChannel
<1>8. ASSUME NEW b \in {"lost", "ready", "unrouted"}, EndOfChannel, place' = AfterChannel(b)
      PROVE  RunningSound'
  BY <1>8, AfterChannelType DEF EndOfChannel, TypeOK
<1>9. CASE Crash
  BY <1>9, AfterChannelType, DownSound DEF Crash
<1>10. CASE Restart
  BY <1>10 DEF Restart
<1>11. ASSUME UNCHANGED <<place, link, running>> PROVE RunningSound'
  BY <1>11
<1> QED
  BY <1>1, <1>2, <1>3, <1>4, <1>5, <1>6, <1>7, <1>8, <1>9, <1>10, <1>11, RoutedToType
  DEF Next, HandlerEnds, HandlerSucceeds, HandlerFails, ConnectionLost, Disconnect,
      StartConsuming, RegisterHandler, vars

\* At first nothing runs.
LEMMA RunningInit == Init => RunningSound
BY DEF Init, Fresh, RunningSound

\* No delivery is leaked: on an open channel the copies held unacknowledged are
\* exactly those whose handler runs.
THEOREM NoLeak == Spec => []UnackedIsRunning
<1>1. TypeOK /\ RunningSound => UnackedIsRunning
  BY DEF TypeOK, RunningSound, UnackedIsRunning
<1> QED BY <1>1, RunningInit, RunningStep, TypeStep, ProcessedStep, InitSound, PTL DEF Spec

(***************************************************************************)
(* How often the handlers may have completed for an event: once per copy   *)
(* and former life of the process, and in this life once per copy that was *)
(* acknowledged.                                                           *)
(***************************************************************************)
Copies(id) == {m \in Messages : IdOf[m] = id}
Done(id) == {m \in Messages : IdOf[m] = id /\ place[m] = "processed"}

Counted ==
  \A id \in EventIds :
    /\ effects[id] <= Cardinality(Copies(id)) * (restarts + 1)
    /\ link # "down" =>
         effects[id] <= Cardinality(Copies(id)) * restarts + Cardinality(Done(id))

\* One more life.
LEMMA OneMoreLife ==
  ASSUME NEW c \in Nat, NEW r \in Nat
  PROVE  /\ c * (r + 1) = c * r + c
         /\ c * r \in Nat /\ c * (r + 1) \in Nat
OBVIOUS

\* There are finitely many copies of an event.
LEMMA CopiesFinite ==
  ASSUME NEW id \in EventIds
  PROVE  /\ IsFiniteSet(Copies(id)) /\ Cardinality(Copies(id)) \in Nat
         /\ \A S \in SUBSET Copies(id) :
              IsFiniteSet(S) /\ Cardinality(S) \in Nat /\ Cardinality(S) <= Cardinality(Copies(id))
BY MessagingAssumption, FS_Subset, FS_CardinalityType DEF Copies

\* The copies done are among them, before a step and after it.
LEMMA DoneSome ==
  ASSUME NEW id \in EventIds
  PROVE  /\ Done(id) \in SUBSET Copies(id)
         /\ Done(id)' \in SUBSET Copies(id)
BY DEF Done, Copies

\* A copy that was acknowledged stays so.
LEMMA DoneStays ==
  ASSUME TypeOK, RunningSound, [Next]_vars, NEW n \in Messages, place[n] = "processed"
  PROVE  place'[n] = "processed"
<1>1. ASSUME NEW m \in Messages, NEW where, Move(m, where), place[m] # "processed"
      PROVE  place'[n] = "processed"
  BY <1>1, MoveSound
<1>2. ASSUME NEW m \in Messages, NEW where, Settle(m, where) PROVE place'[n] = "processed"
  <2>1. place[m] = "unacked"
    BY <1>2 DEF Settle, RunningSound
  <2> QED BY <1>1, <1>2, <2>1 DEF Settle
<1>3. ASSUME NEW b \in {"lost", "ready", "unrouted"}, place' = AfterChannel(b)
      PROVE  place'[n] = "processed"
  BY <1>3, AfterChannelType
<1>4. ASSUME UNCHANGED place PROVE place'[n] = "processed"
  BY <1>4
<1> QED
  BY <1>1, <1>2, <1>3, <1>4, RoutedToType
  DEF Next, HandlerEnds, Connect, StartConsuming, RegisterHandler, Publish, Route, Arrive,
      DeliverSettled, DeliverToHandler, HandOver, Delivered, HandlerSucceeds, HandlerFails,
      SettlesOnDeadChannel, ConnectionLost, Disconnect, Crash, Restart, vars

\* The number of copies done never falls, and never exceeds the number of copies.
LEMMA DoneGrows ==
  ASSUME TypeOK, RunningSound, [Next]_vars, NEW id \in EventIds
  PROVE  /\ Cardinality(Done(id)) \in Nat
         /\ Cardinality(Done(id)') \in Nat
         /\ Cardinality(Done(id)) <= Cardinality(Done(id)')
         /\ Cardinality(Done(id)') <= Cardinality(Copies(id))
<1>1. /\ Cardinality(Done(id)) \in Nat /\ IsFiniteSet(Done(id)')
      /\ Cardinality(Done(id)') \in Nat
      /\ Cardinality(Done(id)') <= Cardinality(Copies(id))
  BY DoneSome, CopiesFinite
<1>2. Done(id) \in SUBSET (Done(id)')
  BY DoneStays DEF Done
<1> QED BY <1>1, <1>2, FS_Subset

\* Every step keeps the counts within their bounds.
LEMMA CountedStep == TypeOK /\ RunningSound /\ Counted /\ [Next]_vars => Counted'
<1> SUFFICES ASSUME TypeOK, RunningSound, Counted, [Next]_vars, NEW id \in EventIds
             PROVE  /\ effects'[id] <= Cardinality(Copies(id)) * (restarts' + 1)
                    /\ link' # "down" =>
                         effects'[id] <= Cardinality(Copies(id)) * restarts' + Cardinality(Done(id)')
  BY DEF Counted, Copies
<1> DEFINE c == Cardinality(Copies(id))
           d == Cardinality(Done(id))
           e == Cardinality(Done(id)')
           Goal == /\ effects'[id] <= c * (restarts' + 1)
                   /\ link' # "down" => effects'[id] <= c * restarts' + e
<1>1. /\ c \in Nat /\ d \in Nat /\ e \in Nat /\ d <= e /\ e <= c
      /\ restarts \in Nat /\ effects[id] \in Nat
  BY DoneGrows, CopiesFinite, MessagingAssumption DEF TypeOK
<1>2. /\ effects[id] <= c * (restarts + 1)
      /\ link # "down" => effects[id] <= c * restarts + d
  BY DEF Counted
<1>3. /\ c * (restarts + 1) = c * restarts + c
      /\ c * restarts \in Nat
  BY <1>1, OneMoreLife
<1> SUFFICES Goal
  OBVIOUS
<1>4. ASSUME NEW m \in Messages, IdOf[m] = id, HandlerSucceeds(m) PROVE Goal
  <2>1. m \notin Done(id) /\ m \in Done(id)'
    BY <1>4, SettleSound DEF HandlerSucceeds, Done, RunningSound
  <2>2. Done(id) \in SUBSET (Done(id)')
    BY DoneStays DEF Done
  <2>3. IsFiniteSet(Done(id)')
    BY DoneSome, CopiesFinite
  <2>4. d # e
    BY <2>1, <2>2, <2>3, FS_Subset
  <2>5. effects'[id] = effects[id] + 1 /\ restarts' = restarts /\ link # "down"
    BY <1>4, TakeEffectSound DEF HandlerSucceeds, Settle
  <2> HIDE DEF c, d, e
  <2>6. effects'[id] <= c * restarts + e
    BY <1>1, <1>2, <1>3, <2>4, <2>5
  <2>7. effects'[id] <= c * (restarts + 1)
    BY <1>1, <1>2, <1>3, <2>4, <2>5
  <2> QED BY <2>5, <2>6, <2>7
<1>5. ASSUME NEW m \in Messages, IdOf[m] = id, SettlesOnDeadChannel(m) PROVE Goal
  <2>1. m \in Copies(id) /\ m \notin Done(id)
    BY <1>5 DEF SettlesOnDeadChannel, RunningSound, Copies, Done
  <2>2. d # c
    BY <2>1, DoneSome, CopiesFinite, FS_Subset
  <2>3. /\ effects'[id] = effects[id] \/ effects'[id] = effects[id] + 1
        /\ restarts' = restarts /\ link = "closed" /\ link' = "down"
    BY <1>5, TakeEffectSound, DownSound DEF SettlesOnDeadChannel, TakeEffect
  <2> HIDE DEF c, d, e
  <2>4. effects'[id] <= c * (restarts + 1)
    BY <1>1, <1>2, <1>3, <2>2, <2>3
  <2> QED BY <2>3, <2>4
<1>6. CASE Restart
  <2>1. restarts' = restarts + 1 /\ effects'[id] = effects[id]
    BY <1>6 DEF Restart
  <2>2. c * (restarts' + 1) = c * restarts' + c /\ c * restarts' \in Nat
    BY <1>1, <2>1, OneMoreLife
  <2> HIDE DEF c, d, e
  <2>3. effects'[id] <= c * restarts'
    BY <1>2, <2>1
  <2> QED BY <1>1, <2>1, <2>2, <2>3
<1>7. ASSUME effects'[id] = effects[id], restarts' = restarts, link = "down" => link' = "down"
      PROVE  Goal
  <2> HIDE DEF c, d, e
  <2> QED BY <1>1, <1>2, <1>3, <1>7
<1>8. ASSUME NEW m \in Messages, IdOf[m] # id, HandlerSucceeds(m) \/ SettlesOnDeadChannel(m)
      PROVE  Goal
  <2>1. effects'[id] = effects[id]
    BY <1>8, TakeEffectSound DEF HandlerSucceeds, SettlesOnDeadChannel, TakeEffect
  <2>2. restarts' = restarts /\ link # "down"
    BY <1>8 DEF HandlerSucceeds, SettlesOnDeadChannel, Settle
  <2> QED BY <1>7, <2>1, <2>2
<1>9. CASE Crash
  BY <1>7, <1>9, DownSound DEF Crash
<1> HIDE DEF Goal
<1> QED
  BY <1>4, <1>5, <1>6, <1>7, <1>8, <1>9
  DEF Next, HandlerEnds, Connect, StartConsuming, RegisterHandler, Publish, Route, Arrive,
      DeliverSettled, DeliverToHandler, HandOver, HandlerFails, Settle, ConnectionLost,
      Disconnect, EndOfChannel, processVars, vars

\* At first nothing was handled.
LEMMA CountedInit == Init => Counted
<1> SUFFICES ASSUME Init, NEW id \in EventIds
             PROVE  /\ effects[id] <= Cardinality(Copies(id)) * (restarts + 1)
                    /\ effects[id] <= Cardinality(Copies(id)) * restarts + Cardinality(Done(id))
  BY DEF Counted
<1>1. effects[id] = 0 /\ restarts = 0
  BY DEF Init
<1>2. Cardinality(Copies(id)) \in Nat /\ Cardinality(Done(id)) \in Nat
  BY CopiesFinite, DoneSome
<1> QED BY <1>1, <1>2

\* Within one life of the process each copy of an event is handled at most once,
\* for any number of copies, a list of ids of any capacity and any interleaving.
THEOREM HandledOnce == Spec => []HandledOncePerLife
<1>1. Counted => HandledOncePerLife
  BY DEF Counted, Copies, HandledOncePerLife
<1> QED
  BY <1>1, CountedInit, CountedStep, RunningInit, RunningStep, TypeStep, ProcessedStep,
     InitSound, PTL DEF Spec

(***************************************************************************)
(* Messaging implements EventQueue.                                        *)
(***************************************************************************)

\* The stages the places stand for.
LEMMA Stages ==
  /\ StageOf("absent") = "outside" /\ StageOf("buffered") = "outside"
  /\ StageOf("ready") = "queued" /\ StageOf("unacked") = "queued"
  /\ StageOf("dead") = "refused" /\ StageOf("unhandled") = "refused"
  /\ StageOf("unrouted") = "lost" /\ StageOf("lost") = "lost"
  /\ StageOf("processed") = "processed" /\ StageOf("duplicate") = "duplicate"
BY DEF StageOf

\* A step that changes no copy's stage changes no stage.
LEMMA StageKept ==
  ASSUME \A m \in Messages : StageOf(place'[m]) = StageOf(place[m])
  PROVE  stage' = stage
BY DEF stage

\* Moving a copy moves its stage.
LEMMA StageMoved ==
  ASSUME TypeOK, NEW m \in Messages, NEW where, Move(m, where)
  PROVE  stage' = [stage EXCEPT ![m] = StageOf(where)]
<1>1. place'[m] = where /\ \A n \in Messages : n # m => place'[n] = place[n]
  BY MoveSound
<1> QED BY <1>1 DEF stage

\* A copy on its way in gets there or is lost.
LEMMA EntersAlone ==
  ASSUME TypeOK, NEW m \in Messages, NEW where \in {"ready", "unrouted"}, Move(m, where),
         place[m] \in {"absent", "buffered"}, UNCHANGED effects
  PROVE  Queue!WayIn
<1>1. stage' = [n \in Messages |-> IF n \in {m} THEN StageOf(where) ELSE stage[n]]
  BY StageMoved DEF stage
<1>2. StageOf(where) \in {"queued", "lost"}
  BY Stages
<1>3. \A n \in {m} : stage[n] = "outside"
  BY Stages DEF stage
<1>4. {m} \in SUBSET Messages
  OBVIOUS
<1> QED BY <1>1, <1>2, <1>3, <1>4 DEF Queue!WayIn

\* The copies in the buffer of a channel that ends share their fate; what was
\* unacknowledged is queued as before.
LEMMA EnterTogether ==
  ASSUME TypeOK, NEW b \in {"lost", "ready", "unrouted"}, place' = AfterChannel(b),
         UNCHANGED effects
  PROVE  Queue!WayIn
<1> DEFINE ms == {m \in Messages : place[m] = "buffered"}
<1>1. stage' = [n \in Messages |-> IF n \in ms THEN StageOf(b) ELSE stage[n]]
  <2>1. \A n \in Messages :
          StageOf(place'[n]) = IF n \in ms THEN StageOf(b) ELSE StageOf(place[n])
    BY AfterChannelType, Stages
  <2> QED BY <2>1 DEF stage
<1>2. StageOf(b) \in {"queued", "lost"}
  BY Stages
<1>3. \A n \in ms : stage[n] = "outside"
  BY Stages DEF stage
<1>4. ms \in SUBSET Messages
  OBVIOUS
<1> HIDE DEF ms
<1> QED BY <1>1, <1>2, <1>3, <1>4 DEF Queue!WayIn

\* A delivery that is a duplicate is one of an event that was handled: this is
\* where it matters that ids are remembered after the handler, not before.
LEMMA SkipIsEarned ==
  ASSUME TypeOK, ProcessedSound, NEW m \in Messages, Known(m)
  PROVE  effects[IdOf[m]] > 0
<1>1. PICK i \in 1..Len(processed) : processed[i] = IdOf[m]
  BY LenProperties DEF Known, Range, TypeOK
<1> QED BY <1>1 DEF ProcessedSound

\* Every step of Messaging is a step of the queue, or none.
LEMMA QueueStep ==
  TypeOK /\ ProcessedSound /\ RunningSound /\ [Next]_vars => [Queue!Next]_<<stage, effects>>
<1> SUFFICES ASSUME TypeOK, ProcessedSound, RunningSound, [Next]_vars
             PROVE  Queue!Next \/ UNCHANGED <<stage, effects>>
  OBVIOUS
<1> DEFINE Goal == Queue!Next \/ UNCHANGED <<stage, effects>>
<1> SUFFICES Goal
  OBVIOUS
<1>1. ASSUME UNCHANGED <<place, effects>> PROVE Goal
  BY <1>1, StageKept
<1>2. ASSUME NEW m \in Messages, Publish(m) PROVE Goal
  <2>1. place'[m] = "buffered" /\ \A n \in Messages : n # m => place'[n] = place[n]
    BY <1>2, MoveSound DEF Publish
  <2>2. place[m] = "absent" /\ UNCHANGED effects
    BY <1>2 DEF Publish
  <2> QED BY <2>1, <2>2, Stages, StageKept
<1>3. ASSUME NEW m \in Messages, Route(m) PROVE Goal
  BY <1>3, EntersAlone, RoutedToType DEF Route, Queue!Next
<1>4. ASSUME NEW m \in Messages, Arrive(m) PROVE Goal
  BY <1>4, EntersAlone DEF Arrive, Queue!Next
<1>5. ASSUME NEW m \in Messages, DeliverSettled(m) PROVE Goal
  <2>1. stage[m] = "queued" /\ UNCHANGED effects
    BY <1>5, Stages DEF DeliverSettled, Delivered, stage
  <2>2. CASE Move(m, "dead") \/ Move(m, "unhandled")
    <3>1. stage' = [stage EXCEPT ![m] = "refused"]
      BY <2>2, StageMoved, Stages
    <3>2. Queue!Refuse(m)
      BY <2>1, <3>1 DEF Queue!Refuse, Queue!Move
    <3> QED BY <3>2 DEF Queue!Next
  <2>3. CASE Known(m) /\ Move(m, "duplicate")
    <3>1. stage' = [stage EXCEPT ![m] = "duplicate"]
      BY <2>3, StageMoved, Stages
    <3>2. Queue!Skip(m)
      BY <2>1, <2>3, <3>1, SkipIsEarned DEF Queue!Skip, Queue!Move
    <3> QED BY <3>2 DEF Queue!Next
  <2> QED BY <1>5, <2>2, <2>3 DEF DeliverSettled
<1>6. ASSUME NEW m \in Messages, DeliverToHandler(m) PROVE Goal
  <2>1. place'[m] = "unacked" /\ \A n \in Messages : n # m => place'[n] = place[n]
    BY <1>6, MoveSound DEF DeliverToHandler, HandOver
  <2>2. place[m] = "ready" /\ UNCHANGED effects
    BY <1>6 DEF DeliverToHandler, HandOver, Delivered
  <2> QED BY <2>1, <2>2, Stages, StageKept
<1>7. ASSUME NEW m \in Messages, HandlerSucceeds(m) PROVE Goal
  <2>1. stage[m] = "queued"
    BY <1>7, Stages DEF HandlerSucceeds, Settle, RunningSound, stage
  <2>2. stage' = [stage EXCEPT ![m] = "processed"]
    BY <1>7, StageMoved, Stages DEF HandlerSucceeds, Settle
  <2>3. Queue!Handle(m)
    BY <1>7, <2>1, <2>2 DEF HandlerSucceeds, TakeEffect, Queue!Handle, Queue!Move, Queue!Complete
  <2> QED BY <2>3 DEF Queue!Next
<1>8. ASSUME NEW m \in Messages, HandlerFails(m) PROVE Goal
  <2>1. stage[m] = "queued" /\ UNCHANGED effects
    BY <1>8, Stages DEF HandlerFails, Settle, RunningSound, stage
  <2>2. stage' = [stage EXCEPT ![m] = "refused"]
    BY <1>8, StageMoved, Stages DEF HandlerFails, Settle
  <2>3. Queue!Refuse(m)
    BY <2>1, <2>2 DEF Queue!Refuse, Queue!Move
  <2> QED BY <2>3 DEF Queue!Next
<1>9. ASSUME NEW m \in Messages, SettlesOnDeadChannel(m) PROVE Goal
  <2>1. stage[m] = "queued" /\ UNCHANGED stage
    BY <1>9, Stages, StageKept DEF SettlesOnDeadChannel, RunningSound, stage
  <2>2. CASE effects' = effects
    BY <2>1, <2>2
  <2>3. CASE effects' = [effects EXCEPT ![IdOf[m]] = @ + 1]
    <3>1. Queue!HandleAndKeep(m)
      BY <2>1, <2>3 DEF Queue!HandleAndKeep, Queue!Complete
    <3> QED BY <3>1 DEF Queue!Next
  <2> QED BY <1>9, <2>2, <2>3 DEF SettlesOnDeadChannel
<1>10. CASE ConnectionLost
  BY <1>10, EnterTogether DEF ConnectionLost, EndOfChannel, Queue!Next
<1>11. CASE Disconnect
  BY <1>11, EnterTogether, RoutedToType DEF Disconnect, EndOfChannel, Queue!Next
<1>12. CASE Crash
  BY <1>12, EnterTogether DEF Crash, Queue!Next
<1> HIDE DEF Goal
<1> QED
  BY <1>1, <1>2, <1>3, <1>4, <1>5, <1>6, <1>7, <1>8, <1>9, <1>10, <1>11, <1>12
  DEF Next, HandlerEnds, Connect, StartConsuming, RegisterHandler, Restart, vars

\* The queue starts with every copy outside.
LEMMA QueueInit == Init => Queue!Init
BY Stages DEF Init, Queue!Init, stage

\* Connection, channel, process and set of ids out of sight, what is left is an
\* at-least-once queue: no event is skipped that no handler completed for, and no
\* copy that entered the queue leaves it but handled, skipped or refused.
THEOREM Implementation == Spec => ImplementsQueue
BY InitSound, TypeStep, ProcessedStep, RunningInit, RunningStep, QueueInit, QueueStep, PTL
   DEF Spec, ImplementsQueue, Queue!Spec

(***************************************************************************)
(* Copies in the queue only go forward: what QueuedIsSettled rests on, next *)
(* to a broker that delivers and handlers that settle.                      *)
(***************************************************************************)

\* While the channel stays open, a copy at its handler comes to an end there, one that
\* is ready is settled or handed over, and what is settled stays so.
GoesForward ==
  link = "open" /\ link' = "open" =>
    \A m \in Messages :
      /\ place[m] = "unacked" => place'[m] \in {"unacked", "processed", "dead"}
      /\ place[m] = "ready" => place'[m] \in {"ready", "unacked", "dead", "duplicate", "unhandled"}
      /\ place[m] \in Settled => place'[m] = place[m]

\* A copy is moved from one place to the next.
LEMMA MoveForward ==
  ASSUME TypeOK, NEW m \in Messages, NEW where, Move(m, where),
         place[m] = "unacked" => where \in {"unacked", "processed", "dead"},
         place[m] = "ready" => where \in {"ready", "unacked", "dead", "duplicate", "unhandled"},
         place[m] \notin Settled
  PROVE  GoesForward
BY DEF TypeOK, Move, GoesForward

\* No copy is delivered twice on one channel, whatever its handler does: a handler that
\* fails rejects without requeueing, and nobody takes back what was settled.  With
\* NoLeak, by which a copy that is held has a handler that will end, each is settled
\* after one delivery unless the channel goes.
THEOREM NoRedelivery == Spec => [][GoesForward]_vars
<1>1. TypeOK /\ UnackedIsRunning /\ [Next]_vars => [GoesForward]_vars
  <2> SUFFICES ASSUME TypeOK, UnackedIsRunning, Next, link = "open", link' = "open" PROVE GoesForward
    BY DEF GoesForward
  <2>0. ASSUME place' = place PROVE GoesForward
    BY <2>0 DEF GoesForward
  <2>1. ASSUME NEW m \in Messages, Publish(m) \/ Arrive(m) \/ Route(m) PROVE GoesForward
    <3>1. place[m] \in {"absent", "buffered"} /\ \E where \in {"buffered", "ready", RoutedTo} : Move(m, where)
      BY <2>1 DEF Publish, Arrive, Route
    <3> QED BY <3>1, MoveForward DEF Settled
  <2>2. ASSUME NEW m \in Messages, DeliverSettled(m) \/ DeliverToHandler(m) PROVE GoesForward
    <3>1. place[m] = "ready" /\ \E where \in {"dead", "duplicate", "unhandled", "unacked"} : Move(m, where)
      BY <2>2 DEF DeliverSettled, DeliverToHandler, HandOver, Delivered
    <3> QED BY <3>1, MoveForward DEF Settled
  <2>3. ASSUME NEW m \in Messages, HandlerSucceeds(m) \/ HandlerFails(m) PROVE GoesForward
    <3>1. m \in running /\ \E where \in {"processed", "dead"} : Move(m, where)
      BY <2>3 DEF HandlerSucceeds, HandlerFails, Settle
    <3>2. place[m] = "unacked"
      BY <3>1 DEF UnackedIsRunning
    <3> QED BY <3>1, <3>2, MoveForward DEF Settled
  <2>4. ~(ConnectionLost \/ Disconnect \/ Crash \/ Restart \/ \E m \in Messages : SettlesOnDeadChannel(m))
    BY DEF ConnectionLost, Disconnect, EndOfChannel, Crash, Down, Restart, SettlesOnDeadChannel
  <2>5. CASE Connect \/ StartConsuming \/ \E t \in Types : RegisterHandler(t)
    BY <2>0, <2>5 DEF Connect, StartConsuming, RegisterHandler
  <2> QED BY <2>1, <2>2, <2>3, <2>4, <2>5 DEF Next, HandlerEnds
<1> QED BY <1>1, TypeCorrect, NoLeak, PTL DEF Spec
=============================================================================
