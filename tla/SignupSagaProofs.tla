-------------------------- MODULE SignupSagaProofs --------------------------
(* Theorems about SignupSaga, for any signups, any addresses and any number *)
(* of retries.                                                              *)
EXTENDS SignupSaga, TLAPS

(***************************************************************************)
(* The inductive invariant.  A signup's place in execute() says which of   *)
(* its calls can have been made, and how they were answered.               *)
(***************************************************************************)
Unmade(s, k) == \A a \in Attempts : request[<<s, k>>][a] = "unsent"

Applied(s, k, a) == request[<<s, k>>][a] = "applied"

ProgressOf(s) ==
  /\ told[s] # NoId => \E a \in Attempts : told[s] = <<s, a>> /\ Applied(s, "register", a)
  /\ step[s] \in {"profile", "rollback", "done"} => told[s] # NoId
  /\ step[s] \in {"idle", "register"} => told[s] = NoId
  /\ told[s] = NoId => Unmade(s, "profile")
  /\ step[s] \notin {"rollback", "failed"} \/ told[s] = NoId => Unmade(s, "rollback")
  /\ status[<<s, "rollback">>] # "pending" => step[s] = "failed"
  /\ step[s] = "failed" /\ told[s] # NoId => status[<<s, "rollback">>] # "pending"
  /\ answer[s] = "created" => step[s] = "done"

Progress == \A s \in Signups : ProgressOf(s)

\* An account is there exactly if its registration was applied and no delete of
\* it was: addresses are not shared and ids are not reused.
OwnerOf(e) ==
  \A s \in Signups, a \in Attempts :
    accounts[e] = <<s, a>> => e = EmailOf[s] /\ Applied(s, "register", a)

AccountOf(s) ==
  /\ \A a \in Attempts :
       Applied(s, "register", a) =>
         \/ accounts[EmailOf[s]] = <<s, a>>
         \/ told[s] = <<s, a>> /\ \E b \in Attempts : Applied(s, "rollback", b)
  /\ \A b \in Attempts : Applied(s, "rollback", b) => accounts[EmailOf[s]] # told[s]
  /\ status[<<s, "rollback">>] = "ok" => \E b \in Attempts : Applied(s, "rollback", b)

Accounts ==
  /\ \A e \in Emails : OwnerOf(e)
  /\ \A s \in Signups : AccountOf(s)

\* Profiles are kept, and only signups that are done are announced.
ProfileOf(s) ==
  /\ \A a \in Attempts : Applied(s, "profile", a) => told[s] \in profiles
  /\ step[s] = "done" => told[s] \in profiles

Announced ==
  /\ \A s \in Signups : ProfileOf(s)
  /\ \A id \in events : \E s \in Signups : step[s] = "done" /\ told[s] = id

\* A registration that was answered by its service tells of the latest attempt:
\* whatever else may be or become an account was sent before that one.
Open(s, a) == request[<<s, "register">>][a] \in {"sent", "applied"}
Overtaken(s, a) == \E b \in Attempts : b > a /\ request[<<s, "register">>][b] # "unsent"

HeardOf(s) ==
  /\ step[s] \notin {"idle", "register"} => status[<<s, "register">>] # "pending"
  /\ status[<<s, "register">>] \in {"ok", "refused"} =>
       \A a \in Attempts : Open(s, a) => told[s] = <<s, a>> \/ Overtaken(s, a)

Heard == \A s \in Signups : HeardOf(s)

IInv == TypeOK /\ Progress /\ Accounts /\ Announced /\ Heard

USE DEF SignupAssumption

\* Ids are told from NoId and from each other.
LEMMA IdsDiffer == \A s \in Signups, a \in Attempts : <<s, a>> \in Ids /\ <<s, a>> # NoId
BY DEF Ids, NoId

(***************************************************************************)
(* What the steps of a remote call do to the calls, pointwise.             *)
(***************************************************************************)
LEMMA CallNames ==
  /\ RC!Attempts = Attempts
  /\ RC!Answers = {"ok", "refused", "failed"}
  /\ \A s \in Signups, k \in Kinds : <<s, k>> \in Signups \X Kinds
BY DEF RC!Attempts, RC!Answers, Attempts

Marked(s, k, a, x) ==
  request' = [request EXCEPT ![<<s, k>>][a] = x] /\ UNCHANGED status

Answered(s, k, x) ==
  status' = [status EXCEPT ![<<s, k>>] = x] /\ UNCHANGED request

\* One request is marked, the others stay.
LEMMA SetRequest ==
  ASSUME RC!TypeOK, NEW s \in Signups, NEW k \in Kinds, NEW a \in Attempts,
         NEW x \in {"sent", "applied", "declined"}, Marked(s, k, a, x)
  PROVE  /\ RC!TypeOK'
         /\ \A t \in Signups, j \in Kinds, b \in Attempts :
              request'[<<t, j>>][b] =
                IF t = s /\ j = k /\ b = a THEN x ELSE request[<<t, j>>][b]
BY CallNames DEF RC!TypeOK, Marked

\* One call is answered, the others stay.
LEMMA SetStatus ==
  ASSUME RC!TypeOK, NEW s \in Signups, NEW k \in Kinds,
         NEW x \in {"ok", "refused", "failed"}, Answered(s, k, x)
  PROVE  /\ RC!TypeOK'
         /\ \A t \in Signups, j \in Kinds :
              status'[<<t, j>>] = IF t = s /\ j = k THEN x ELSE status[<<t, j>>]
BY CallNames DEF RC!TypeOK, Answered

\* A call that ends: its status is an answer, "ok" only if an attempt of it was
\* applied.
LEMMA CallSucceeds ==
  ASSUME RC!TypeOK, NEW s \in Signups, NEW k \in Kinds, NEW a \in Attempts,
         RC!Succeed(<<s, k>>, a)
  PROVE  /\ RC!TypeOK' /\ UNCHANGED request /\ Applied(s, k, a)
         /\ \A t \in Signups, j \in Kinds :
              status'[<<t, j>>] = IF t = s /\ j = k THEN "ok" ELSE status[<<t, j>>]
<1>1. Answered(s, k, "ok")
  BY DEF RC!Succeed, Answered
<1> QED BY <1>1, SetStatus DEF RC!Succeed, Applied, Answered

\* A call that ends otherwise is "refused" or "failed".
LEMMA CallUnsuccessful ==
  ASSUME RC!TypeOK, NEW s \in Signups, NEW k \in Kinds, Unsuccessful(<<s, k>>)
  PROVE  /\ RC!TypeOK' /\ UNCHANGED request
         /\ \E x \in {"refused", "failed"} : \A t \in Signups, j \in Kinds :
              status'[<<t, j>>] = IF t = s /\ j = k THEN x ELSE status[<<t, j>>]
<1>1. Answered(s, k, "refused") \/ Answered(s, k, "failed")
  BY DEF Unsuccessful, RC!Fail, RC!Refuse, Answered
<1>2. CASE Answered(s, k, "refused")
  <2>1. /\ RC!TypeOK'
        /\ \A t \in Signups, j \in Kinds :
             status'[<<t, j>>] = IF t = s /\ j = k THEN "refused" ELSE status[<<t, j>>]
    BY <1>2, SetStatus
  <2> QED BY <1>2, <2>1 DEF Answered
<1>3. CASE Answered(s, k, "failed")
  <2>1. /\ RC!TypeOK'
        /\ \A t \in Signups, j \in Kinds :
             status'[<<t, j>>] = IF t = s /\ j = k THEN "failed" ELSE status[<<t, j>>]
    BY <1>3, SetStatus
  <2> QED BY <1>3, <2>1 DEF Answered
<1> QED BY <1>1, <1>2, <1>3

(***************************************************************************)
(* Type correctness.                                                       *)
(***************************************************************************)
LEMMA TypeInit == Init => TypeOK
BY CallNames DEF Init, TypeOK, RC!Init, RC!TypeOK, Ids, Kinds

(***************************************************************************)
(* The steps, pointwise: what each does to the calls and the variables.    *)
(***************************************************************************)

\* execute() starts.
LEMMA BeginEffect ==
  ASSUME TypeOK, NEW s \in Signups, Begin(s)
  PROVE  /\ UNCHANGED <<status, request, told, answer, accounts, profiles, events>>
         /\ step[s] = "idle" /\ step' = [step EXCEPT ![s] = "register"]
BY DEF Begin, Goto, serviceVars

\* An attempt of the call awaited is sent: nothing is applied by it, and no
\* other call is made.
LEMMA AttemptEffect ==
  ASSUME TypeOK, NEW s \in Signups, Attempt(s)
  PROVE  /\ UNCHANGED <<status, step, told, answer, accounts, profiles, events>>
         /\ RC!TypeOK'
         /\ step[s] \in Kinds
         /\ \A t \in Signups, j \in Kinds, b \in Attempts :
              Applied(t, j, b)' <=> Applied(t, j, b)
         /\ \A t \in Signups, j \in Kinds :
              Unmade(t, j) /\ ~(t = s /\ j = step[s]) => Unmade(t, j)'
<1>1. PICK a \in Attempts : RC!Send(<<s, step[s]>>, a)
  BY DEF Attempt
<1>2. PICK k \in Kinds : k = step[s]
  BY DEF Attempt
<1>3. request[<<s, k>>][a] = "unsent"
  BY <1>1, <1>2, CallNames DEF RC!Send, Attempts
<1>4. Marked(s, k, a, "sent")
  BY <1>1, <1>2 DEF RC!Send, Marked
<1>5. /\ RC!TypeOK'
      /\ \A t \in Signups, j \in Kinds, b \in Attempts :
           request'[<<t, j>>][b] =
             IF t = s /\ j = k /\ b = a THEN "sent" ELSE request[<<t, j>>][b]
  BY <1>4, SetRequest DEF TypeOK
<1>6. \A t \in Signups, j \in Kinds, b \in Attempts : Applied(t, j, b)' <=> Applied(t, j, b)
  BY <1>3, <1>5 DEF Applied
<1>7. \A t \in Signups, j \in Kinds :
        Unmade(t, j) /\ ~(t = s /\ j = step[s]) => Unmade(t, j)'
  BY <1>2, <1>5 DEF Unmade
<1> QED BY <1>4, <1>5, <1>6, <1>7 DEF Attempt, serviceVars, Marked

\* A service takes an attempt: it was on its way, so none of its effects was
\* there before, and its call had been made.
LEMMA TakenEffect ==
  ASSUME RC!TypeOK, NEW s \in Signups, NEW k \in Kinds, NEW a \in Attempts,
         NEW x \in {"applied", "declined"},
         request[<<s, k>>][a] = "sent", Marked(s, k, a, x)
  PROVE  /\ RC!TypeOK' /\ ~Unmade(s, k) /\ ~Applied(s, k, a)
         /\ \A t \in Signups, j \in Kinds : Unmade(t, j)' <=> Unmade(t, j)
         /\ \A t \in Signups, j \in Kinds, b \in Attempts :
              Applied(t, j, b)' <=>
                Applied(t, j, b) \/ (x = "applied" /\ t = s /\ j = k /\ b = a)
<1>1. /\ RC!TypeOK'
      /\ \A t \in Signups, j \in Kinds, b \in Attempts :
           request'[<<t, j>>][b] =
             IF t = s /\ j = k /\ b = a THEN x ELSE request[<<t, j>>][b]
  BY SetRequest
<1>2. \A t \in Signups, j \in Kinds : Unmade(t, j)' <=> Unmade(t, j)
  BY <1>1 DEF Unmade
<1>3. \A t \in Signups, j \in Kinds, b \in Attempts :
        Applied(t, j, b)' <=>
          Applied(t, j, b) \/ (x = "applied" /\ t = s /\ j = k /\ b = a)
  BY <1>1 DEF Applied
<1> QED BY <1>1, <1>2, <1>3 DEF Unmade, Applied

\* The auth service registers: the address was free.
LEMMA RegisterEffect ==
  ASSUME TypeOK, NEW s \in Signups, NEW a \in Attempts, Register(s, a)
  PROVE  /\ UNCHANGED <<status, step, told, answer, profiles, events>>
         /\ RC!TypeOK' /\ ~Applied(s, "register", a)
         /\ accounts[EmailOf[s]] = NoId
         /\ accounts' = [accounts EXCEPT ![EmailOf[s]] = <<s, a>>]
         /\ \A t \in Signups, j \in Kinds : Unmade(t, j)' <=> Unmade(t, j)
         /\ \A t \in Signups, j \in Kinds, b \in Attempts :
              Applied(t, j, b)' <=>
                Applied(t, j, b) \/ (t = s /\ j = "register" /\ b = a)
<1>1. "register" \in Kinds
  BY DEF Kinds
<1>2. Marked(s, "register", a, "applied") /\ request[<<s, "register">>][a] = "sent"
  BY DEF Register, RC!Apply, Marked
<1>3. RC!TypeOK
  BY DEF TypeOK
<1>4. /\ RC!TypeOK' /\ ~Unmade(s, "register") /\ ~Applied(s, "register", a)
      /\ \A t \in Signups, j \in Kinds : Unmade(t, j)' <=> Unmade(t, j)
      /\ \A t \in Signups, j \in Kinds, b \in Attempts :
           Applied(t, j, b)' <=> Applied(t, j, b) \/ (t = s /\ j = "register" /\ b = a)
  BY <1>1, <1>2, <1>3, TakenEffect
<1> QED BY <1>2, <1>4 DEF Register, Marked

\* The user service creates a profile: the call had been made.
LEMMA CreateProfileEffect ==
  ASSUME TypeOK, NEW s \in Signups, NEW a \in Attempts, CreateProfile(s, a)
  PROVE  /\ UNCHANGED <<status, step, told, answer, accounts, events>>
         /\ RC!TypeOK' /\ ~Unmade(s, "profile")
         /\ profiles' = profiles \cup {told[s]}
         /\ \A t \in Signups, j \in Kinds : Unmade(t, j)' <=> Unmade(t, j)
         /\ \A t \in Signups, j \in Kinds, b \in Attempts :
              Applied(t, j, b)' <=>
                Applied(t, j, b) \/ (t = s /\ j = "profile" /\ b = a)
<1>1. "profile" \in Kinds
  BY DEF Kinds
<1>2. Marked(s, "profile", a, "applied") /\ request[<<s, "profile">>][a] = "sent"
  BY DEF CreateProfile, RC!Apply, Marked
<1>3. RC!TypeOK
  BY DEF TypeOK
<1>4. /\ RC!TypeOK' /\ ~Unmade(s, "profile") /\ ~Applied(s, "profile", a)
      /\ \A t \in Signups, j \in Kinds : Unmade(t, j)' <=> Unmade(t, j)
      /\ \A t \in Signups, j \in Kinds, b \in Attempts :
           Applied(t, j, b)' <=> Applied(t, j, b) \/ (t = s /\ j = "profile" /\ b = a)
  BY <1>1, <1>2, <1>3, TakenEffect
<1> QED BY <1>2, <1>4 DEF CreateProfile, Marked

\* The auth service deletes: the call had been made, the account was there.
LEMMA DeleteAccountEffect ==
  ASSUME TypeOK, NEW s \in Signups, NEW a \in Attempts, DeleteAccount(s, a)
  PROVE  /\ UNCHANGED <<status, step, told, answer, profiles, events>>
         /\ RC!TypeOK' /\ ~Unmade(s, "rollback")
         /\ accounts[EmailOf[s]] = told[s]
         /\ accounts' = [accounts EXCEPT ![EmailOf[s]] = NoId]
         /\ \A t \in Signups, j \in Kinds : Unmade(t, j)' <=> Unmade(t, j)
         /\ \A t \in Signups, j \in Kinds, b \in Attempts :
              Applied(t, j, b)' <=>
                Applied(t, j, b) \/ (t = s /\ j = "rollback" /\ b = a)
<1>1. "rollback" \in Kinds
  BY DEF Kinds
<1>2. Marked(s, "rollback", a, "applied") /\ request[<<s, "rollback">>][a] = "sent"
  BY DEF DeleteAccount, RC!Apply, Marked
<1>3. RC!TypeOK
  BY DEF TypeOK
<1>4. /\ RC!TypeOK' /\ ~Unmade(s, "rollback") /\ ~Applied(s, "rollback", a)
      /\ \A t \in Signups, j \in Kinds : Unmade(t, j)' <=> Unmade(t, j)
      /\ \A t \in Signups, j \in Kinds, b \in Attempts :
           Applied(t, j, b)' <=> Applied(t, j, b) \/ (t = s /\ j = "rollback" /\ b = a)
  BY <1>1, <1>2, <1>3, TakenEffect
<1> QED BY <1>2, <1>4 DEF DeleteAccount, Marked

\* A service declines: nothing is applied.
LEMMA DeclineEffect ==
  ASSUME TypeOK, NEW s \in Signups, NEW k \in Kinds, NEW a \in Attempts, Decline(s, k, a)
  PROVE  /\ UNCHANGED <<status, step, told, answer, accounts, profiles, events>>
         /\ RC!TypeOK'
         /\ \A t \in Signups, j \in Kinds : Unmade(t, j)' <=> Unmade(t, j)
         /\ \A t \in Signups, j \in Kinds, b \in Attempts :
              Applied(t, j, b)' <=> Applied(t, j, b)
<1>1. Marked(s, k, a, "declined") /\ request[<<s, k>>][a] = "sent"
  BY DEF Decline, RC!Decline, Marked
<1>2. /\ RC!TypeOK'
      /\ \A t \in Signups, j \in Kinds : Unmade(t, j)' <=> Unmade(t, j)
      /\ \A t \in Signups, j \in Kinds, b \in Attempts :
           Applied(t, j, b)' <=> Applied(t, j, b)
  BY <1>1, TakenEffect DEF TypeOK
<1> QED BY <1>1, <1>2 DEF Decline, serviceVars, Marked

\* The registration is answered "ok", by an attempt that was applied.
LEMMA RegisteredEffect ==
  ASSUME TypeOK, NEW s \in Signups, Registered(s)
  PROVE  /\ UNCHANGED <<request, answer, accounts, profiles, events>>
         /\ RC!TypeOK'
         /\ step[s] = "register" /\ step' = [step EXCEPT ![s] = "profile"]
         /\ \E a \in Attempts :
              Applied(s, "register", a) /\ told' = [told EXCEPT ![s] = <<s, a>>]
         /\ \A t \in Signups : status'[<<t, "rollback">>] = status[<<t, "rollback">>]
<1>1. PICK a \in Attempts :
        RC!Succeed(<<s, "register">>, a) /\ told' = [told EXCEPT ![s] = <<s, a>>]
  BY DEF Registered
<1>2. "register" \in Kinds /\ "rollback" \in Kinds
  BY DEF Kinds
<1>3. RC!TypeOK' /\ UNCHANGED request /\ Applied(s, "register", a)
  BY <1>1, <1>2, CallSucceeds DEF TypeOK
<1>4. \A t \in Signups : status'[<<t, "rollback">>] = status[<<t, "rollback">>]
  BY <1>1, <1>2, CallSucceeds DEF TypeOK
<1> QED BY <1>1, <1>3, <1>4 DEF Registered, Goto, serviceVars

\* The registration is not answered "ok".
LEMMA NotRegisteredEffect ==
  ASSUME TypeOK, NEW s \in Signups, NotRegistered(s)
  PROVE  /\ UNCHANGED <<request, told, accounts, profiles, events>>
         /\ RC!TypeOK'
         /\ step[s] = "register" /\ step' = [step EXCEPT ![s] = "failed"]
         /\ Reply(s, "error")
         /\ \A t \in Signups : status'[<<t, "rollback">>] = status[<<t, "rollback">>]
<1>1. "register" \in Kinds /\ "rollback" \in Kinds
  BY DEF Kinds
<1>2. RC!TypeOK
  BY DEF TypeOK
<1>3. Unsuccessful(<<s, "register">>)
  BY DEF NotRegistered
<1>4. RC!TypeOK' /\ UNCHANGED request
  BY <1>1, <1>2, <1>3, CallUnsuccessful, Zenon
<1>5. PICK x \in {"refused", "failed"} : \A t \in Signups, j \in Kinds :
        status'[<<t, j>>] = IF t = s /\ j = "register" THEN x ELSE status[<<t, j>>]
  BY <1>1, <1>2, <1>3, CallUnsuccessful, Zenon
<1>6. ASSUME NEW t \in Signups
      PROVE  status'[<<t, "rollback">>] = status[<<t, "rollback">>]
  <2>1. status'[<<t, "rollback">>] =
          IF t = s /\ "rollback" = "register" THEN x ELSE status[<<t, "rollback">>]
    BY <1>1, <1>5, Zenon
  <2> QED BY <2>1
<1> QED BY <1>4, <1>6 DEF NotRegistered, Goto, serviceVars

\* The profile is answered "ok", by an attempt that was applied; only this
\* step announces.
LEMMA ProfiledEffect ==
  ASSUME TypeOK, NEW s \in Signups, Profiled(s)
  PROVE  /\ UNCHANGED <<request, told, accounts, profiles>>
         /\ RC!TypeOK'
         /\ step[s] = "profile" /\ step' = [step EXCEPT ![s] = "done"]
         /\ Reply(s, "created")
         /\ \E a \in Attempts : Applied(s, "profile", a)
         /\ events' \subseteq events \cup {told[s]}
         /\ \A t \in Signups : status'[<<t, "rollback">>] = status[<<t, "rollback">>]
<1>1. PICK a \in Attempts : RC!Succeed(<<s, "profile">>, a)
  BY DEF Profiled
<1>2. "profile" \in Kinds /\ "rollback" \in Kinds
  BY DEF Kinds
<1>3. RC!TypeOK' /\ UNCHANGED request /\ Applied(s, "profile", a)
  BY <1>1, <1>2, CallSucceeds DEF TypeOK
<1>4. \A t \in Signups : status'[<<t, "rollback">>] = status[<<t, "rollback">>]
  BY <1>1, <1>2, CallSucceeds DEF TypeOK
<1> QED BY <1>3, <1>4 DEF Profiled, Goto, serviceVars

\* The profile is not answered "ok".
LEMMA NotProfiledEffect ==
  ASSUME TypeOK, NEW s \in Signups, NotProfiled(s)
  PROVE  /\ UNCHANGED <<request, told, answer, accounts, profiles, events>>
         /\ RC!TypeOK'
         /\ step[s] = "profile" /\ step' = [step EXCEPT ![s] = "rollback"]
         /\ \A t \in Signups : status'[<<t, "rollback">>] = status[<<t, "rollback">>]
<1>1. "profile" \in Kinds /\ "rollback" \in Kinds
  BY DEF Kinds
<1>2. RC!TypeOK
  BY DEF TypeOK
<1>3. Unsuccessful(<<s, "profile">>)
  BY DEF NotProfiled
<1>4. RC!TypeOK' /\ UNCHANGED request
  BY <1>1, <1>2, <1>3, CallUnsuccessful, Zenon
<1>5. PICK x \in {"refused", "failed"} : \A t \in Signups, j \in Kinds :
        status'[<<t, j>>] = IF t = s /\ j = "profile" THEN x ELSE status[<<t, j>>]
  BY <1>1, <1>2, <1>3, CallUnsuccessful, Zenon
<1>6. ASSUME NEW t \in Signups
      PROVE  status'[<<t, "rollback">>] = status[<<t, "rollback">>]
  <2>1. status'[<<t, "rollback">>] =
          IF t = s /\ "rollback" = "profile" THEN x ELSE status[<<t, "rollback">>]
    BY <1>1, <1>5, Zenon
  <2> QED BY <2>1
<1> QED BY <1>4, <1>6 DEF NotProfiled, Goto, serviceVars

\* The rollback is answered, "ok" only by an attempt that was applied.
LEMMA RollbackAnsweredEffect ==
  ASSUME TypeOK, NEW s \in Signups, RollbackAnswered(s)
  PROVE  /\ UNCHANGED <<request, told, accounts, profiles, events>>
         /\ RC!TypeOK'
         /\ step[s] = "rollback" /\ step' = [step EXCEPT ![s] = "failed"]
         /\ Reply(s, "error")
         /\ status'[<<s, "rollback">>] \in {"ok", "refused", "failed"}
         /\ status'[<<s, "rollback">>] = "ok" => \E a \in Attempts : Applied(s, "rollback", a)
         /\ \A t \in Signups \ {s} : status'[<<t, "rollback">>] = status[<<t, "rollback">>]
<1>1. "rollback" \in Kinds
  BY DEF Kinds
<1>2. CASE Unsuccessful(<<s, "rollback">>)
  <2>1. PICK x \in {"refused", "failed"} : \A t \in Signups, j \in Kinds :
          status'[<<t, j>>] = IF t = s /\ j = "rollback" THEN x ELSE status[<<t, j>>]
    BY <1>1, <1>2, CallUnsuccessful DEF TypeOK
  <2>2. RC!TypeOK' /\ UNCHANGED request
    BY <1>1, <1>2, CallUnsuccessful DEF TypeOK
  <2> QED BY <1>1, <2>1, <2>2 DEF RollbackAnswered, Goto, serviceVars
<1>3. ASSUME NEW a \in Attempts, RC!Succeed(<<s, "rollback">>, a)
      PROVE  /\ RC!TypeOK' /\ UNCHANGED request /\ Applied(s, "rollback", a)
             /\ status'[<<s, "rollback">>] = "ok"
             /\ \A t \in Signups \ {s} :
                  status'[<<t, "rollback">>] = status[<<t, "rollback">>]
  BY <1>1, <1>3, CallSucceeds DEF TypeOK
<1>4. CASE \E a \in Attempts : RC!Succeed(<<s, "rollback">>, a)
  BY <1>3, <1>4 DEF RollbackAnswered, Goto, serviceVars
<1> QED BY <1>2, <1>4 DEF RollbackAnswered

\* The timeout changes the answer and nothing else.
LEMMA ClientTimeoutEffect ==
  ASSUME TypeOK, NEW s \in Signups, ClientTimeout(s)
  PROVE  /\ UNCHANGED <<status, request, step, told, accounts, profiles, events>>
         /\ answer[s] = "none" /\ Reply(s, "timeout")
BY DEF ClientTimeout, serviceVars

\* What Unmade and Applied say depends on the requests alone.
LEMMA SameRequest ==
  ASSUME UNCHANGED request
  PROVE  /\ \A t \in Signups, j \in Kinds : Unmade(t, j)' <=> Unmade(t, j)
         /\ \A t \in Signups, j \in Kinds, b \in Attempts :
              Applied(t, j, b)' <=> Applied(t, j, b)
BY DEF Unmade, Applied

\* A call that was not made had no effect.
LEMMA UnmadeNotApplied ==
  \A s \in Signups, k \in Kinds, a \in Attempts : Unmade(s, k) => ~Applied(s, k, a)
BY DEF Unmade, Applied

\* The three calls of a signup.
LEMMA KindNames == Kinds = {"register", "profile", "rollback"}
BY DEF Kinds

\* Every step keeps the types.
LEMMA TypeStep ==
  ASSUME TypeOK, Progress, [Next]_vars
  PROVE  TypeOK'
<1>1. ASSUME NEW s \in Signups, Begin(s)  PROVE TypeOK'
  BY <1>1, BeginEffect DEF TypeOK, Kinds, RC!TypeOK
<1>2. ASSUME NEW s \in Signups, Attempt(s)  PROVE TypeOK'
  BY <1>2, AttemptEffect DEF TypeOK
<1>3. ASSUME NEW s \in Signups, Registered(s)  PROVE TypeOK'
  BY <1>3, RegisteredEffect DEF TypeOK, Kinds, Ids
<1>4. ASSUME NEW s \in Signups, NotRegistered(s)  PROVE TypeOK'
  BY <1>4, NotRegisteredEffect DEF TypeOK, Reply
<1>5. ASSUME NEW s \in Signups, Profiled(s)  PROVE TypeOK'
  <2>1. told[s] # NoId
    BY <1>5, ProfiledEffect DEF Progress, ProgressOf
  <2>2. told[s] \in Ids
    BY <2>1 DEF TypeOK
  <2> QED BY <1>5, <2>2, ProfiledEffect DEF TypeOK, Reply
<1>6. ASSUME NEW s \in Signups, NotProfiled(s)  PROVE TypeOK'
  BY <1>6, NotProfiledEffect DEF TypeOK, Kinds
<1>7. ASSUME NEW s \in Signups, RollbackAnswered(s)  PROVE TypeOK'
  BY <1>7, RollbackAnsweredEffect DEF TypeOK, Reply
<1>8. ASSUME NEW s \in Signups, ClientTimeout(s)  PROVE TypeOK'
  BY <1>8, ClientTimeoutEffect DEF TypeOK, Reply, RC!TypeOK
<1>9. ASSUME NEW s \in Signups, NEW a \in Attempts, Register(s, a)  PROVE TypeOK'
  <2>1. EmailOf[s] \in Emails /\ <<s, a>> \in Ids
    BY SignupAssumption, IdsDiffer
  <2>2. accounts' \in [Emails -> Ids \cup {NoId}]
    BY <1>9, <2>1, RegisterEffect DEF TypeOK
  <2> QED BY <1>9, <2>2, RegisterEffect DEF TypeOK
<1>10. ASSUME NEW s \in Signups, NEW a \in Attempts, CreateProfile(s, a)  PROVE TypeOK'
  <2>1. told[s] # NoId
    BY <1>10, CreateProfileEffect DEF Progress, ProgressOf
  <2>2. told[s] \in Ids
    BY <2>1 DEF TypeOK
  <2> QED BY <1>10, <2>2, CreateProfileEffect DEF TypeOK
<1>11. ASSUME NEW s \in Signups, NEW a \in Attempts, DeleteAccount(s, a)  PROVE TypeOK'
  BY <1>11, DeleteAccountEffect DEF TypeOK
<1>12. ASSUME NEW s \in Signups, NEW k \in Kinds, NEW a \in Attempts, Decline(s, k, a)
      PROVE  TypeOK'
  BY <1>12, DeclineEffect DEF TypeOK
<1>13. CASE UNCHANGED vars
  BY <1>13 DEF TypeOK, RC!TypeOK, vars, serviceVars
<1> QED
  BY <1>1, <1>2, <1>3, <1>4, <1>5, <1>6, <1>7, <1>8, <1>9, <1>10, <1>11, <1>12, <1>13
  DEF Next, Orchestrate, Serve

\* Every step keeps a signup's calls in line with its place in execute().
LEMMA ProgressStep ==
  ASSUME TypeOK, NEW t \in Signups, ProgressOf(t), [Next]_vars
  PROVE  ProgressOf(t)'
<1>1. ASSUME NEW s \in Signups, Begin(s)  PROVE ProgressOf(t)'
  BY <1>1, BeginEffect, KindNames, SameRequest DEF ProgressOf, TypeOK
<1>2. ASSUME NEW s \in Signups, Attempt(s)  PROVE ProgressOf(t)'
  BY <1>2, AttemptEffect, KindNames DEF ProgressOf, TypeOK, Kinds
<1>3. ASSUME NEW s \in Signups, Registered(s)  PROVE ProgressOf(t)'
  BY <1>3, RegisteredEffect, KindNames, IdsDiffer, SameRequest DEF ProgressOf, TypeOK
<1>4. ASSUME NEW s \in Signups, NotRegistered(s)  PROVE ProgressOf(t)'
  BY <1>4, NotRegisteredEffect, KindNames, SameRequest DEF ProgressOf, TypeOK, Reply
<1>5. ASSUME NEW s \in Signups, Profiled(s)  PROVE ProgressOf(t)'
  BY <1>5, ProfiledEffect, KindNames, SameRequest DEF ProgressOf, TypeOK, Reply
<1>6. ASSUME NEW s \in Signups, NotProfiled(s)  PROVE ProgressOf(t)'
  BY <1>6, NotProfiledEffect, KindNames, SameRequest DEF ProgressOf, TypeOK
<1>7. ASSUME NEW s \in Signups, RollbackAnswered(s)  PROVE ProgressOf(t)'
  <2>1. /\ UNCHANGED <<request, told>>
        /\ step[s] = "rollback" /\ step' = [step EXCEPT ![s] = "failed"]
        /\ Reply(s, "error")
    BY <1>7, RollbackAnsweredEffect
  <2>2. /\ Unmade(t, "profile")' <=> Unmade(t, "profile")
        /\ Unmade(t, "rollback")' <=> Unmade(t, "rollback")
        /\ \A a \in Attempts : Applied(t, "register", a)' <=> Applied(t, "register", a)
    BY <2>1, KindNames, SameRequest
  <2>3. CASE t = s
    <3>1. step[t] = "rollback" /\ step'[t] = "failed" /\ told'[t] = told[t]
      BY <2>1, <2>3 DEF TypeOK
    <3>2. answer'[t] # "created"
      BY <2>1, <2>3 DEF ProgressOf, TypeOK, Reply
    <3>3. status'[<<t, "rollback">>] # "pending"
      BY <1>7, <2>3, RollbackAnsweredEffect
    <3> QED BY <2>2, <3>1, <3>2, <3>3 DEF ProgressOf
  <2>4. CASE t # s
    <3>1. step'[t] = step[t] /\ told'[t] = told[t]
      BY <2>1, <2>4 DEF TypeOK
    <3>2. answer'[t] = answer[t]
      BY <2>1, <2>4 DEF TypeOK, Reply
    <3>3. status'[<<t, "rollback">>] = status[<<t, "rollback">>]
      BY <1>7, <2>4, RollbackAnsweredEffect
    <3> QED BY <2>2, <3>1, <3>2, <3>3 DEF ProgressOf
  <2> QED BY <2>3, <2>4
<1>8. ASSUME NEW s \in Signups, ClientTimeout(s)  PROVE ProgressOf(t)'
  BY <1>8, ClientTimeoutEffect, KindNames, SameRequest DEF ProgressOf, TypeOK, Reply
<1>9. ASSUME NEW s \in Signups, NEW a \in Attempts, Register(s, a)  PROVE ProgressOf(t)'
  BY <1>9, RegisterEffect, KindNames DEF ProgressOf, TypeOK
<1>10. ASSUME NEW s \in Signups, NEW a \in Attempts, CreateProfile(s, a)  PROVE ProgressOf(t)'
  BY <1>10, CreateProfileEffect, KindNames DEF ProgressOf, TypeOK
<1>11. ASSUME NEW s \in Signups, NEW a \in Attempts, DeleteAccount(s, a)  PROVE ProgressOf(t)'
  BY <1>11, DeleteAccountEffect, KindNames DEF ProgressOf, TypeOK
<1>12. ASSUME NEW s \in Signups, NEW k \in Kinds, NEW a \in Attempts, Decline(s, k, a)
      PROVE  ProgressOf(t)'
  BY <1>12, DeclineEffect, KindNames DEF ProgressOf, TypeOK
<1>13. CASE UNCHANGED vars
  BY <1>13, KindNames, SameRequest DEF ProgressOf, TypeOK, vars, serviceVars
<1> QED
  BY <1>1, <1>2, <1>3, <1>4, <1>5, <1>6, <1>7, <1>8, <1>9, <1>10, <1>11, <1>12, <1>13
  DEF Next, Orchestrate, Serve

\* Every step keeps an account in the hands of the signup that asked for it.
LEMMA OwnerStep ==
  ASSUME TypeOK, NEW e \in Emails, OwnerOf(e), [Next]_vars
  PROVE  OwnerOf(e)'
<1>1. ASSUME NEW s \in Signups, Begin(s)  PROVE OwnerOf(e)'
  BY <1>1, BeginEffect, KindNames, SameRequest DEF OwnerOf, TypeOK
<1>2. ASSUME NEW s \in Signups, Attempt(s)  PROVE OwnerOf(e)'
  BY <1>2, AttemptEffect, KindNames DEF OwnerOf, TypeOK
<1>3. ASSUME NEW s \in Signups, Registered(s)  PROVE OwnerOf(e)'
  BY <1>3, RegisteredEffect, KindNames, SameRequest DEF OwnerOf, TypeOK
<1>4. ASSUME NEW s \in Signups, NotRegistered(s)  PROVE OwnerOf(e)'
  BY <1>4, NotRegisteredEffect, KindNames, SameRequest DEF OwnerOf, TypeOK
<1>5. ASSUME NEW s \in Signups, Profiled(s)  PROVE OwnerOf(e)'
  BY <1>5, ProfiledEffect, KindNames, SameRequest DEF OwnerOf, TypeOK
<1>6. ASSUME NEW s \in Signups, NotProfiled(s)  PROVE OwnerOf(e)'
  BY <1>6, NotProfiledEffect, KindNames, SameRequest DEF OwnerOf, TypeOK
<1>7. ASSUME NEW s \in Signups, RollbackAnswered(s)  PROVE OwnerOf(e)'
  BY <1>7, RollbackAnsweredEffect, KindNames, SameRequest DEF OwnerOf, TypeOK
<1>8. ASSUME NEW s \in Signups, ClientTimeout(s)  PROVE OwnerOf(e)'
  BY <1>8, ClientTimeoutEffect, KindNames, SameRequest DEF OwnerOf, TypeOK
<1>9. ASSUME NEW s \in Signups, NEW a \in Attempts, Register(s, a)  PROVE OwnerOf(e)'
  BY <1>9, RegisterEffect, KindNames, IdsDiffer DEF OwnerOf, TypeOK
<1>10. ASSUME NEW s \in Signups, NEW a \in Attempts, CreateProfile(s, a)  PROVE OwnerOf(e)'
  BY <1>10, CreateProfileEffect, KindNames DEF OwnerOf, TypeOK
<1>11. ASSUME NEW s \in Signups, NEW a \in Attempts, DeleteAccount(s, a)  PROVE OwnerOf(e)'
  <2>1. accounts'[e] = NoId \/ accounts'[e] = accounts[e]
    BY <1>11, DeleteAccountEffect DEF TypeOK
  <2>2. \A t \in Signups, b \in Attempts : Applied(t, "register", b) => Applied(t, "register", b)'
    BY <1>11, DeleteAccountEffect, KindNames
  <2> QED BY <2>1, <2>2, IdsDiffer DEF OwnerOf
<1>12. ASSUME NEW s \in Signups, NEW k \in Kinds, NEW a \in Attempts, Decline(s, k, a)
      PROVE  OwnerOf(e)'
  BY <1>12, DeclineEffect, KindNames DEF OwnerOf, TypeOK
<1>13. CASE UNCHANGED vars
  BY <1>13, KindNames, SameRequest DEF OwnerOf, TypeOK, vars, serviceVars
<1> QED
  BY <1>1, <1>2, <1>3, <1>4, <1>5, <1>6, <1>7, <1>8, <1>9, <1>10, <1>11, <1>12, <1>13
  DEF Next, Orchestrate, Serve

\* Every step keeps the account of a signup until its rollback is applied.
LEMMA AccountStep ==
  ASSUME TypeOK, Progress, NEW t \in Signups, AccountOf(t), ProgressOf(t), [Next]_vars
  PROVE  AccountOf(t)'
<1>1. ASSUME NEW s \in Signups, Begin(s)  PROVE AccountOf(t)'
  BY <1>1, BeginEffect, KindNames, SameRequest DEF AccountOf, TypeOK
<1>2. ASSUME NEW s \in Signups, Attempt(s)  PROVE AccountOf(t)'
  BY <1>2, AttemptEffect, KindNames DEF AccountOf, TypeOK
<1>3. ASSUME NEW s \in Signups, Registered(s)  PROVE AccountOf(t)'
  <2>1. CASE t = s
    <3>1. told[s] = NoId
      BY <1>3, <2>1, RegisteredEffect DEF ProgressOf
    <3>2. \A b \in Attempts : ~Applied(s, "rollback", b)
      BY <2>1, <3>1, UnmadeNotApplied, KindNames DEF ProgressOf
    <3> QED BY <1>3, <2>1, <3>1, <3>2, RegisteredEffect, KindNames, IdsDiffer, SameRequest
            DEF AccountOf
  <2>2. CASE t # s
    BY <1>3, <2>2, RegisteredEffect, KindNames, SameRequest DEF AccountOf, TypeOK
  <2> QED BY <2>1, <2>2
<1>4. ASSUME NEW s \in Signups, NotRegistered(s)  PROVE AccountOf(t)'
  BY <1>4, NotRegisteredEffect, KindNames, SameRequest DEF AccountOf, TypeOK
<1>5. ASSUME NEW s \in Signups, Profiled(s)  PROVE AccountOf(t)'
  BY <1>5, ProfiledEffect, KindNames, SameRequest DEF AccountOf, TypeOK
<1>6. ASSUME NEW s \in Signups, NotProfiled(s)  PROVE AccountOf(t)'
  BY <1>6, NotProfiledEffect, KindNames, SameRequest DEF AccountOf, TypeOK
<1>7. ASSUME NEW s \in Signups, RollbackAnswered(s)  PROVE AccountOf(t)'
  <2>1. status'[<<t, "rollback">>] = "ok" => \E b \in Attempts : Applied(t, "rollback", b)
    BY <1>7, RollbackAnsweredEffect DEF AccountOf
  <2> QED BY <1>7, <2>1, RollbackAnsweredEffect, KindNames, SameRequest DEF AccountOf
<1>8. ASSUME NEW s \in Signups, ClientTimeout(s)  PROVE AccountOf(t)'
  BY <1>8, ClientTimeoutEffect, KindNames, SameRequest DEF AccountOf, TypeOK
<1>9. ASSUME NEW s \in Signups, NEW a \in Attempts, Register(s, a)  PROVE AccountOf(t)'
  <2>1. /\ accounts[EmailOf[s]] = NoId
        /\ accounts'[EmailOf[t]] = IF EmailOf[t] = EmailOf[s] THEN <<s, a>> ELSE accounts[EmailOf[t]]
    BY <1>9, RegisterEffect, SignupAssumption DEF TypeOK
  <2>2. /\ told' = told /\ status' = status
        /\ \A b \in Attempts : Applied(t, "rollback", b)' <=> Applied(t, "rollback", b)
        /\ \A b \in Attempts :
             Applied(t, "register", b)' <=> Applied(t, "register", b) \/ (t = s /\ b = a)
    BY <1>9, RegisterEffect, KindNames
  <2>3. \A b \in Attempts : Applied(t, "register", b)' =>
          \/ accounts'[EmailOf[t]] = <<t, b>>
          \/ told[t] = <<t, b>> /\ \E c \in Attempts : Applied(t, "rollback", c)
    BY <2>1, <2>2, IdsDiffer DEF AccountOf
  <2>4. told[t] # <<s, a>>
    BY <1>9, RegisterEffect, IdsDiffer DEF ProgressOf
  <2>5. \A b \in Attempts : Applied(t, "rollback", b) => accounts'[EmailOf[t]] # told[t]
    BY <2>1, <2>4 DEF AccountOf
  <2> QED BY <2>2, <2>3, <2>5 DEF AccountOf
<1>10. ASSUME NEW s \in Signups, NEW a \in Attempts, CreateProfile(s, a)  PROVE AccountOf(t)'
  BY <1>10, CreateProfileEffect, KindNames DEF AccountOf, TypeOK
<1>11. ASSUME NEW s \in Signups, NEW a \in Attempts, DeleteAccount(s, a)  PROVE AccountOf(t)'
  <2>1. /\ accounts[EmailOf[s]] = told[s]
        /\ accounts'[EmailOf[t]] = IF EmailOf[t] = EmailOf[s] THEN NoId ELSE accounts[EmailOf[t]]
    BY <1>11, DeleteAccountEffect, SignupAssumption DEF TypeOK
  <2>2. /\ told' = told /\ status' = status
        /\ \A b \in Attempts : Applied(t, "register", b)' <=> Applied(t, "register", b)
        /\ \A b \in Attempts :
             Applied(t, "rollback", b)' <=> Applied(t, "rollback", b) \/ (t = s /\ b = a)
    BY <1>11, DeleteAccountEffect, KindNames
  <2>3. PICK c \in Attempts : told[s] = <<s, c>>
    BY <1>11, DeleteAccountEffect DEF Progress, ProgressOf
  <2>4. \A b \in Attempts : Applied(t, "register", b) =>
          \/ accounts'[EmailOf[t]] = <<t, b>>
          \/ told[t] = <<t, b>> /\ \E d \in Attempts : Applied(t, "rollback", d)'
    BY <2>1, <2>2, <2>3 DEF AccountOf
  <2>5. \A b \in Attempts : Applied(t, "rollback", b)' => accounts'[EmailOf[t]] # told[t]
    <3>1. CASE EmailOf[t] = EmailOf[s]
      <4>1. \A b \in Attempts : Applied(t, "rollback", b)' => told[t] # NoId
        BY <2>2, <2>3, UnmadeNotApplied, IdsDiffer, KindNames DEF ProgressOf
      <4> QED BY <2>1, <3>1, <4>1
    <3>2. CASE EmailOf[t] # EmailOf[s]
      BY <2>1, <2>2, <3>2 DEF AccountOf
    <3> QED BY <3>1, <3>2
  <2> QED BY <2>2, <2>4, <2>5 DEF AccountOf
<1>12. ASSUME NEW s \in Signups, NEW k \in Kinds, NEW a \in Attempts, Decline(s, k, a)
      PROVE  AccountOf(t)'
  BY <1>12, DeclineEffect, KindNames DEF AccountOf, TypeOK
<1>13. CASE UNCHANGED vars
  BY <1>13, KindNames, SameRequest DEF AccountOf, TypeOK, vars, serviceVars
<1> QED
  BY <1>1, <1>2, <1>3, <1>4, <1>5, <1>6, <1>7, <1>8, <1>9, <1>10, <1>11, <1>12, <1>13
  DEF Next, Orchestrate, Serve

\* Every step keeps the profiles.
LEMMA ProfileStep ==
  ASSUME TypeOK, NEW t \in Signups, ProfileOf(t), ProgressOf(t), [Next]_vars
  PROVE  ProfileOf(t)'
<1>1. ASSUME NEW s \in Signups, Begin(s)  PROVE ProfileOf(t)'
  BY <1>1, BeginEffect, KindNames, SameRequest DEF ProfileOf, TypeOK
<1>2. ASSUME NEW s \in Signups, Attempt(s)  PROVE ProfileOf(t)'
  BY <1>2, AttemptEffect, KindNames DEF ProfileOf, TypeOK
<1>3. ASSUME NEW s \in Signups, Registered(s)  PROVE ProfileOf(t)'
  <2>1. CASE t = s
    <3>1. \A b \in Attempts : ~Applied(s, "profile", b)
      BY <1>3, <2>1, RegisteredEffect, UnmadeNotApplied, KindNames DEF ProgressOf
    <3> QED BY <1>3, <2>1, <3>1, RegisteredEffect, KindNames, SameRequest DEF ProfileOf, TypeOK
  <2>2. CASE t # s
    BY <1>3, <2>2, RegisteredEffect, KindNames, SameRequest DEF ProfileOf, TypeOK
  <2> QED BY <2>1, <2>2
<1>4. ASSUME NEW s \in Signups, NotRegistered(s)  PROVE ProfileOf(t)'
  BY <1>4, NotRegisteredEffect, KindNames, SameRequest DEF ProfileOf, TypeOK
<1>5. ASSUME NEW s \in Signups, Profiled(s)  PROVE ProfileOf(t)'
  BY <1>5, ProfiledEffect, KindNames, SameRequest DEF ProfileOf, TypeOK
<1>6. ASSUME NEW s \in Signups, NotProfiled(s)  PROVE ProfileOf(t)'
  BY <1>6, NotProfiledEffect, KindNames, SameRequest DEF ProfileOf, TypeOK
<1>7. ASSUME NEW s \in Signups, RollbackAnswered(s)  PROVE ProfileOf(t)'
  BY <1>7, RollbackAnsweredEffect, KindNames, SameRequest DEF ProfileOf, TypeOK
<1>8. ASSUME NEW s \in Signups, ClientTimeout(s)  PROVE ProfileOf(t)'
  BY <1>8, ClientTimeoutEffect, KindNames, SameRequest DEF ProfileOf, TypeOK
<1>9. ASSUME NEW s \in Signups, NEW a \in Attempts, Register(s, a)  PROVE ProfileOf(t)'
  BY <1>9, RegisterEffect, KindNames DEF ProfileOf, TypeOK
<1>10. ASSUME NEW s \in Signups, NEW a \in Attempts, CreateProfile(s, a)  PROVE ProfileOf(t)'
  BY <1>10, CreateProfileEffect, KindNames DEF ProfileOf, TypeOK
<1>11. ASSUME NEW s \in Signups, NEW a \in Attempts, DeleteAccount(s, a)  PROVE ProfileOf(t)'
  BY <1>11, DeleteAccountEffect, KindNames DEF ProfileOf, TypeOK
<1>12. ASSUME NEW s \in Signups, NEW k \in Kinds, NEW a \in Attempts, Decline(s, k, a)
      PROVE  ProfileOf(t)'
  BY <1>12, DeclineEffect, KindNames DEF ProfileOf, TypeOK
<1>13. CASE UNCHANGED vars
  BY <1>13, KindNames, SameRequest DEF ProfileOf, TypeOK, vars, serviceVars
<1> QED
  BY <1>1, <1>2, <1>3, <1>4, <1>5, <1>6, <1>7, <1>8, <1>9, <1>10, <1>11, <1>12, <1>13
  DEF Next, Orchestrate, Serve

\* Every step keeps the events to signups that are done.
LEMMA EventStep ==
  ASSUME TypeOK, Progress, Announced, [Next]_vars
  PROVE  \A id \in events' : \E s \in Signups : step'[s] = "done" /\ told'[s] = id
<1> DEFINE Told(t, id) == step[t] = "done" /\ told[t] = id
<1>1. ASSUME NEW t \in Signups, step[t] = "done"
      PROVE  step'[t] = "done" /\ told'[t] = told[t]
  <2>1. ASSUME NEW s \in Signups, Orchestrate(s)
        PROVE  step'[t] = "done" /\ told'[t] = told[t]
    BY <1>1, <2>1, BeginEffect, AttemptEffect, RegisteredEffect, NotRegisteredEffect,
       ProfiledEffect, NotProfiledEffect, RollbackAnsweredEffect, KindNames
    DEF Orchestrate, TypeOK
  <2>2. ASSUME NEW s \in Signups, ClientTimeout(s) \/ \E a \in Attempts : Serve(s, a)
        PROVE  UNCHANGED <<step, told>>
    BY <2>2, ClientTimeoutEffect, RegisterEffect, CreateProfileEffect,
       DeleteAccountEffect, DeclineEffect
    DEF Serve
  <2> QED BY <1>1, <2>1, <2>2 DEF Next, vars
<1>2. ASSUME NEW id \in events', id \notin events
      PROVE  \E s \in Signups : step'[s] = "done" /\ told'[s] = id
  <2>1. PICK s \in Signups : Profiled(s)
    BY <1>2, BeginEffect, AttemptEffect, RegisteredEffect, NotRegisteredEffect,
       NotProfiledEffect, RollbackAnsweredEffect, ClientTimeoutEffect, RegisterEffect,
       CreateProfileEffect, DeleteAccountEffect, DeclineEffect
    DEF Next, Orchestrate, Serve, vars
  <2> QED BY <1>2, <2>1, ProfiledEffect DEF TypeOK
<1> QED BY <1>1, <1>2 DEF Announced

\* What a step leaves of a registration that was answered: no new attempt of it,
\* and no attempt taken back.
HeardAsBefore(s) ==
  /\ told'[s] = told[s]
  /\ status'[<<s, "register">>] = status[<<s, "register">>]
  /\ step'[s] \notin {"idle", "register"} => step[s] \notin {"idle", "register"}
  /\ status[<<s, "register">>] = "pending" \/ \A a \in Attempts : Open(s, a)' => Open(s, a)
  /\ \A a \in Attempts :
       request[<<s, "register">>][a] # "unsent" => request'[<<s, "register">>][a] # "unsent"

LEMMA HeardStays ==
  ASSUME NEW t \in Signups, HeardOf(t), HeardAsBefore(t)
  PROVE  HeardOf(t)'
<1>1. \A a \in Attempts : Overtaken(t, a) => Overtaken(t, a)'
  BY DEF HeardAsBefore, Overtaken
<1> QED BY <1>1 DEF HeardOf, HeardAsBefore

\* A request that is marked or sent, seen from the registration of t.
LEMMA HeardMarked ==
  ASSUME TypeOK, NEW t \in Signups, NEW s \in Signups, NEW k \in Kinds, NEW a \in Attempts,
         NEW x \in {"sent", "applied", "declined"}, Marked(s, k, a, x),
         UNCHANGED <<told, step>>,
         status[<<s, k>>] = "pending" \/ request[<<s, k>>][a] = "sent"
  PROVE  HeardAsBefore(t)
<1>1. \A b \in Attempts :
        request'[<<t, "register">>][b] =
          IF t = s /\ "register" = k /\ b = a THEN x ELSE request[<<t, "register">>][b]
  <2>1. RC!TypeOK /\ "register" \in Kinds
    BY DEF TypeOK, Kinds
  <2> QED BY <2>1, SetRequest
<1>2. \A b \in Attempts :
        request[<<t, "register">>][b] # "unsent" => request'[<<t, "register">>][b] # "unsent"
  BY <1>1
<1>3. status[<<t, "register">>] = "pending" \/ \A b \in Attempts : Open(t, b)' => Open(t, b)
  BY <1>1 DEF Open
<1> QED BY <1>2, <1>3 DEF HeardAsBefore, Marked

\* Every step keeps what the orchestrator has heard.
LEMMA HeardStep ==
  ASSUME TypeOK, NEW t \in Signups, ProgressOf(t), HeardOf(t), [Next]_vars
  PROVE  HeardOf(t)'
<1>0. "register" \in Kinds /\ RC!TypeOK
  BY DEF Kinds, TypeOK
<1>1. ASSUME HeardAsBefore(t) PROVE HeardOf(t)'
  BY <1>1, HeardStays
<1>2. ASSUME NEW s \in Signups, Begin(s) PROVE HeardAsBefore(t)
  <2>1. UNCHANGED <<status, request, told>> /\ step[s] = "idle"
        /\ step' = [step EXCEPT ![s] = "register"]
    BY <1>2, BeginEffect
  <2> QED BY <2>1 DEF HeardAsBefore, Open, TypeOK
<1>3. ASSUME NEW s \in Signups, Attempt(s) PROVE HeardAsBefore(t)
  <2>1. PICK a \in Attempts : RC!Send(<<s, step[s]>>, a)
    BY <1>3 DEF Attempt
  <2>2. step[s] \in Kinds /\ UNCHANGED <<told, step>>
    BY <1>3 DEF Attempt
  <2>3. Marked(s, step[s], a, "sent") /\ status[<<s, step[s]>>] = "pending"
    BY <2>1 DEF RC!Send, Marked
  <2> QED BY <2>2, <2>3, HeardMarked
<1>4. ASSUME NEW s \in Signups, Registered(s), t = s PROVE HeardOf(t)'
  <2>1. PICK a \in Attempts :
          RC!Succeed(<<t, "register">>, a) /\ told' = [told EXCEPT ![t] = <<t, a>>]
    BY <1>4 DEF Registered
  <2>2. UNCHANGED request /\ told'[t] = <<t, a>>
    BY <2>1 DEF RC!Succeed, TypeOK
  <2>3. status'[<<t, "register">>] = "ok"
    BY <1>0, <2>1, CallSucceeds
  <2>4. /\ request[<<t, "register">>][a] # "unsent"
        /\ \A b \in Attempts : b > a => request[<<t, "register">>][b] = "unsent"
    BY <2>1, CallNames DEF RC!Succeed, RC!Latest
  <2>5. ASSUME NEW b \in Attempts, Open(t, b)'
        PROVE  told'[t] = <<t, b>> \/ Overtaken(t, b)'
    <3>1. CASE b = a
      BY <2>2, <3>1
    <3>2. CASE b < a
      BY <2>2, <2>4, <3>2 DEF Overtaken
    <3>3. CASE b > a
      BY <2>2, <2>4, <2>5, <3>3 DEF Open
    <3> QED BY <3>1, <3>2, <3>3, SignupAssumption DEF Attempts
  <2> QED BY <2>3, <2>5 DEF HeardOf
<1>5. ASSUME NEW s \in Signups, NotRegistered(s), t = s PROVE HeardOf(t)'
  <2>1. CASE RC!Fail(<<t, "register">>)
    <3>1. Answered(t, "register", "failed")
      BY <2>1 DEF RC!Fail, Answered
    <3>2. status'[<<t, "register">>] = "failed"
      BY <1>0, <3>1, SetStatus
    <3> QED BY <3>2 DEF HeardOf
  <2>2. ASSUME NEW a \in Attempts, RC!Refuse(<<t, "register">>, a) PROVE HeardOf(t)'
    <3>1. Answered(t, "register", "refused") /\ UNCHANGED request
      BY <2>2 DEF RC!Refuse, Answered
    <3>2. status'[<<t, "register">>] = "refused"
      BY <1>0, <3>1, SetStatus
    <3>3. /\ request[<<t, "register">>][a] = "declined"
          /\ \A b \in Attempts : b > a => request[<<t, "register">>][b] = "unsent"
      BY <2>2, CallNames DEF RC!Refuse, RC!Latest
    <3>4. ASSUME NEW b \in Attempts, Open(t, b)' PROVE Overtaken(t, b)'
      <4>1. b < a
        <5>1. b # a /\ ~(b > a)
          BY <3>1, <3>3, <3>4 DEF Open
        <5> QED BY <5>1, SignupAssumption DEF Attempts
      <4> QED BY <3>1, <3>3, <4>1 DEF Overtaken
    <3> QED BY <3>2, <3>4 DEF HeardOf
  <2> QED BY <1>5, <2>1, <2>2 DEF NotRegistered, Unsuccessful
<1>6. ASSUME NEW s \in Signups, NEW k \in Kinds, NEW x \in {"ok", "refused", "failed"},
             Answered(s, k, x), t # s \/ k # "register"
      PROVE  status'[<<t, "register">>] = status[<<t, "register">>] /\ UNCHANGED request
  BY <1>0, <1>6, SetStatus DEF Answered
<1>7. ASSUME NEW s \in Signups, Registered(s) \/ NotRegistered(s), t # s
      PROVE  HeardAsBefore(t)
  <2>1. \E x \in {"ok", "refused", "failed"} : Answered(s, "register", x)
    BY <1>7 DEF Registered, NotRegistered, Unsuccessful, RC!Succeed, RC!Refuse, RC!Fail, Answered
  <2>2. status'[<<t, "register">>] = status[<<t, "register">>] /\ UNCHANGED request
    BY <1>0, <1>6, <1>7, <2>1
  <2>3. told'[t] = told[t] /\ step'[t] = step[t]
    BY <1>7 DEF Registered, NotRegistered, Goto, TypeOK
  <2> QED BY <2>2, <2>3 DEF HeardAsBefore, Open
<1>8. ASSUME NEW s \in Signups, Profiled(s) \/ NotProfiled(s) \/ RollbackAnswered(s)
      PROVE  HeardAsBefore(t)
  <2>1. \E k \in {"profile", "rollback"}, x \in {"ok", "refused", "failed"} : Answered(s, k, x)
    BY <1>8
    DEF Profiled, NotProfiled, RollbackAnswered, Unsuccessful, RC!Succeed, RC!Refuse, RC!Fail,
        Answered
  <2>2. status'[<<t, "register">>] = status[<<t, "register">>] /\ UNCHANGED request
    BY <1>6, <2>1, KindNames
  <2>3. told'[t] = told[t] /\ (step'[t] = step[t] \/ step[t] \in {"profile", "rollback"})
    BY <1>8 DEF Profiled, NotProfiled, RollbackAnswered, Goto, TypeOK
  <2> QED BY <2>2, <2>3 DEF HeardAsBefore, Open
<1>9. ASSUME NEW s \in Signups, ClientTimeout(s) PROVE HeardAsBefore(t)
  BY <1>9, ClientTimeoutEffect DEF HeardAsBefore, Open
<1>10. ASSUME NEW s \in Signups, NEW a \in Attempts, Serve(s, a) PROVE HeardAsBefore(t)
  <2>1. \E k \in Kinds, x \in {"applied", "declined"} :
          Marked(s, k, a, x) /\ request[<<s, k>>][a] = "sent"
    BY <1>10, KindNames
    DEF Serve, Register, CreateProfile, DeleteAccount, Decline, RC!Apply, RC!Decline, Marked
  <2>2. UNCHANGED <<told, step>>
    BY <1>10 DEF Serve, Register, CreateProfile, DeleteAccount, Decline
  <2> QED BY <2>1, <2>2, HeardMarked
<1>11. ASSUME UNCHANGED vars PROVE HeardAsBefore(t)
  BY <1>11 DEF vars, HeardAsBefore, Open
<1>12. HeardAsBefore(t) \/ HeardOf(t)'
  BY <1>2, <1>3, <1>4, <1>5, <1>7, <1>8, <1>9, <1>10, <1>11 DEF Next, Orchestrate
<1> QED BY <1>1, <1>12

\* The invariant is inductive.
LEMMA Inductive ==
  ASSUME IInv, [Next]_vars
  PROVE  IInv'
<1>1. TypeOK'
  BY TypeStep DEF IInv
<1>2. Progress'
  BY ProgressStep DEF IInv, Progress
<1>3. Accounts'
  BY OwnerStep, AccountStep DEF IInv, Accounts, Progress
<1>4. Announced'
  <2>1. \A s \in Signups : ProfileOf(s)'
    BY ProfileStep DEF IInv, Announced, Progress
  <2> QED BY <2>1, EventStep DEF IInv, Announced
<1>5. Heard'
  BY HeardStep DEF IInv, Heard, Progress
<1> QED BY <1>1, <1>2, <1>3, <1>4, <1>5 DEF IInv

\* It holds at first.
LEMMA Initially == Init => IInv
<1> SUFFICES ASSUME Init  PROVE IInv
  OBVIOUS
<1>1. TypeOK
  BY TypeInit
<1>2. \A s \in Signups, k \in Kinds : Unmade(s, k) /\ status[<<s, k>>] = "pending"
  BY CallNames DEF Init, RC!Init, Unmade
<1>3. Progress
  BY <1>2, KindNames DEF Init, Progress, ProgressOf
<1>4. Accounts
  BY <1>2, UnmadeNotApplied, KindNames, IdsDiffer DEF Init, Accounts, OwnerOf, AccountOf
<1>5. Announced
  BY <1>2, UnmadeNotApplied, KindNames DEF Init, Announced, ProfileOf
<1>6. Heard
  BY <1>2, KindNames DEF Init, Heard, HeardOf
<1> QED BY <1>1, <1>3, <1>4, <1>5, <1>6 DEF IInv

\* A signup that is done never asked for a rollback, so its account is there.
LEMMA DoneKeepsAccount ==
  ASSUME IInv, NEW s \in Signups, step[s] = "done"
  PROVE  accounts[EmailOf[s]] = told[s]
<1>1. PICK a \in Attempts : told[s] = <<s, a>> /\ Applied(s, "register", a)
  BY DEF IInv, Progress, ProgressOf
<1>2. \A b \in Attempts : ~Applied(s, "rollback", b)
  BY UnmadeNotApplied, KindNames DEF IInv, Progress, ProgressOf
<1> QED BY <1>1, <1>2 DEF IInv, Accounts, AccountOf

\* A delete answered "ok" was applied, and no second account has that id.
LEMMA RolledBack ==
  ASSUME IInv  PROVE RolledBackAccountGone
<1> SUFFICES ASSUME NEW s \in Signups, status[<<s, "rollback">>] = "ok",
                    NEW e \in Emails, accounts[e] = told[s]
             PROVE  FALSE
  BY DEF RolledBackAccountGone, HasAccount
<1>1. PICK b \in Attempts : Applied(s, "rollback", b)
  BY DEF IInv, Accounts, AccountOf
<1>2. PICK a \in Attempts : told[s] = <<s, a>>
  BY <1>1, UnmadeNotApplied, KindNames DEF IInv, Progress, ProgressOf
<1>3. e = EmailOf[s]
  BY <1>2 DEF IInv, Accounts, OwnerOf
<1> QED BY <1>1, <1>3 DEF IInv, Accounts, AccountOf

\* In every state a signup's calls, its account and its profile agree with its
\* place in execute().
THEOREM Invariant == Spec => []IInv
BY Initially, Inductive, PTL DEF Spec

\* The variables keep their types.
THEOREM TypeCorrect == Spec => []TypeOK
<1>1. IInv => TypeOK
  BY DEF IInv
<1> QED BY <1>1, Invariant, PTL

\* A user that was announced has an account and a profile, for ever, whatever
\* late or repeated request of this or another signup its service takes.
THEOREM EventsAreTrue == Spec => []EventHasBothRecords
<1>1. ASSUME IInv  PROVE EventHasBothRecords
  <2> SUFFICES ASSUME NEW id \in events
               PROVE  id \in profiles /\ HasAccount(id)
    BY DEF EventHasBothRecords
  <2>1. PICK s \in Signups : step[s] = "done" /\ told[s] = id
    BY <1>1 DEF IInv, Announced
  <2>2. id \in profiles
    BY <1>1, <2>1 DEF IInv, Announced, ProfileOf
  <2>3. accounts[EmailOf[s]] = told[s]
    BY <1>1, <2>1, DoneKeepsAccount
  <2> QED BY <2>1, <2>2, <2>3, SignupAssumption DEF HasAccount
<1> QED BY <1>1, Invariant, PTL

\* So has a user whose client was answered 201.
THEOREM CreatedIsTrue == Spec => []CreatedHasBothRecords
<1>1. ASSUME IInv  PROVE CreatedHasBothRecords
  <2> SUFFICES ASSUME NEW s \in Signups, answer[s] = "created"
               PROVE  told[s] \in profiles /\ accounts[EmailOf[s]] = told[s]
    BY DEF CreatedHasBothRecords
  <2>1. step[s] = "done"
    BY <1>1 DEF IInv, Progress, ProgressOf
  <2>2. told[s] \in profiles
    BY <1>1, <2>1 DEF IInv, Announced, ProfileOf
  <2> QED BY <1>1, <2>1, <2>2, DoneKeepsAccount
<1> QED BY <1>1, Invariant, PTL

\* An account whose delete was confirmed is gone, and no late registration
\* brings it back.
THEOREM RollbackIsFinal == Spec => []RolledBackAccountGone
BY RolledBack, Invariant, PTL

\* An account that a failed signup left behind was the one it was told of, and
\* the rollback was answered with a failure, or it was never told of it: there is
\* no third way.
THEOREM OrphansExplained == Spec => []OrphanHasReason
<1>1. ASSUME IInv  PROVE OrphanHasReason
  <2> SUFFICES ASSUME NEW s \in Signups, NEW a \in Attempts, step[s] = "failed",
                      HasAccount(<<s, a>>)
               PROVE  IF told[s] = <<s, a>>
                      THEN status[<<s, "rollback">>] \in {"refused", "failed"}
                      ELSE Unheard(s, a)
    BY DEF OrphanHasReason
  <2>1. CASE told[s] = <<s, a>>
    <3>1. status[<<s, "rollback">>] # "pending"
      BY <1>1, <2>1, IdsDiffer DEF IInv, Progress, ProgressOf
    <3>2. status[<<s, "rollback">>] \in {"pending", "ok", "refused", "failed"}
      BY <1>1, CallNames, KindNames DEF IInv, TypeOK, RC!TypeOK
    <3>3. status[<<s, "rollback">>] # "ok"
      BY <1>1, <2>1, RolledBack DEF RolledBackAccountGone
    <3> QED BY <2>1, <3>1, <3>2, <3>3
  <2>2. CASE told[s] # <<s, a>>
    <3>1. Open(s, a)
      BY <1>1 DEF HasAccount, IInv, Accounts, OwnerOf, Applied, Open
    <3>2. status[<<s, "register">>] \in {"ok", "refused", "failed"}
      <4>1. status[<<s, "register">>] \in {"pending", "ok", "refused", "failed"}
        BY <1>1, CallNames, KindNames DEF IInv, TypeOK, RC!TypeOK
      <4> QED BY <1>1, <4>1 DEF IInv, Heard, HeardOf
    <3>3. status[<<s, "register">>] = "failed" \/ Overtaken(s, a)
      BY <1>1, <2>2, <3>1, <3>2 DEF IInv, Heard, HeardOf
    <3> QED BY <2>2, <3>3 DEF Unheard, Overtaken
  <2> QED BY <2>1, <2>2
<1> QED BY <1>1, Invariant, PTL

\* The orchestrator makes its three calls per signup as RemoteCall lets it, and the
\* services take attempts as it lets them.  So what HttpClientProofs shows of the
\* clients is enough for what is proved here.
THEOREM UsesRemoteCall == Spec => RC!Spec
<1>1. Init => RC!Init
  BY DEF Init
<1>2. ASSUME [Next]_vars PROVE [RC!Next]_(RC!rcVars)
  <2>1. \A s \in Signups, k \in Kinds : <<s, k>> \in Signups \X Kinds
    OBVIOUS
  <2>2. /\ "register" \in Kinds /\ "profile" \in Kinds /\ "rollback" \in Kinds
        /\ RC!Attempts = Attempts
    BY CallNames DEF Kinds
  <2>3. ASSUME NEW s \in Signups, Attempt(s) PROVE RC!Next
    BY <2>1, <2>2, <2>3 DEF Attempt, RC!Next
  <2>4. ASSUME NEW s \in Signups, Registered(s) \/ NotRegistered(s) PROVE RC!Next
    <3>1. <<s, "register">> \in Signups \X Kinds
      BY <2>1, <2>2
    <3> QED BY <2>2, <2>4, <3>1 DEF Registered, NotRegistered, Unsuccessful, RC!Next
  <2>5. ASSUME NEW s \in Signups, Profiled(s) \/ NotProfiled(s) PROVE RC!Next
    <3>1. <<s, "profile">> \in Signups \X Kinds
      BY <2>1, <2>2
    <3> QED BY <2>2, <2>5, <3>1 DEF Profiled, NotProfiled, Unsuccessful, RC!Next
  <2>6. ASSUME NEW s \in Signups, RollbackAnswered(s) PROVE RC!Next
    <3>1. <<s, "rollback">> \in Signups \X Kinds
      BY <2>1, <2>2
    <3> QED BY <2>2, <2>6, <3>1 DEF RollbackAnswered, Unsuccessful, RC!Next
  <2>7. ASSUME NEW s \in Signups, NEW a \in Attempts, Serve(s, a) PROVE RC!Next
    BY <2>1, <2>2, <2>7 DEF Serve, Register, CreateProfile, DeleteAccount, Decline, RC!Next
  <2>8. ASSUME NEW s \in Signups, Begin(s) \/ ClientTimeout(s) PROVE UNCHANGED RC!rcVars
    BY <2>8 DEF Begin, ClientTimeout, RC!rcVars
  <2>9. CASE UNCHANGED vars
    BY <2>9 DEF vars, RC!rcVars
  <2> QED BY <1>2, <2>3, <2>4, <2>5, <2>6, <2>7, <2>8, <2>9 DEF Next, Orchestrate
<1> QED BY <1>1, <1>2, PTL DEF Spec, RC!Spec
=============================================================================
