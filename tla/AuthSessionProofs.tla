-------------------------- MODULE AuthSessionProofs --------------------------
(* Theorems about AuthSession, for any requests to the four routes and any   *)
(* number of retries.                                                        *)
EXTENDS AuthSession, TLAPS

USE DEF AuthAssumption

(***************************************************************************)
(* The inductive invariant, request by request.                            *)
(***************************************************************************)

\* A request that has not come in has made no call and has no answer; one that
\* has carries the tokens its route asks for, and all of them were issued.
Placed(k) ==
  /\ pc[k] = "idle" => status[k] = "pending" /\ \A a \in Attempts : request[k][a] = "unsent"
  /\ pc[k] # "done" => answer[k] = "none"
  /\ k \in Grants => \A a \in Attempts : request[k][a] = "applied" => <<k, a>> \in issued
  /\ access[k] \in issued \cup {NoSession}
  /\ body[k] \in issued \cup {NoSession}
  /\ got[k] \in issued \cup {NoSession}
  /\ pc[k] # "idle" /\ k \in Refreshes => body[k] # NoSession
  /\ pc[k] # "idle" /\ k \in Logouts => access[k] # NoSession

\* What the service said of a token was true when it said so, and stays true; of
\* a condemned token it never said that there is nothing to object to.
CheckOf(v) ==
  /\ \A a \in Attempts :
       /\ verdict[v][a] # "none" => request[v][a] = "applied"
       /\ verdict[v][a] \in {"blacklisted", "token_revoked"} => body[v] \in revoked
       /\ verdict[v][a] = "account_banned" => banned
       /\ verdict[v][a] = "expired" => body[v] \in expired
  /\ v \in condemned =>
       /\ pc[v] # "idle"
       /\ banned \/ body[v] \in revoked
       /\ \A a \in Attempts : request[v][a] = "applied" => verdict[v][a] \in Reasons
       /\ answer[v] = "valid" => body[v] \in expired
  /\ answer[v] = "forbidden" => banned \/ body[v] \in revoked

Effective(o) == access[o] \in revoked /\ (body[o] # NoSession => body[o] \in spent)

\* A logout the service applied has had its effect.
LogoutOf(o) ==
  /\ \A a \in Attempts : request[o][a] = "applied" => Effective(o)
  /\ status[o] = "ok" => Effective(o)

\* A refresh the service declined had a spent token, or a banned user.
RefreshOf(f) ==
  /\ \A a \in Attempts : request[f][a] = "declined" => banned \/ body[f] \in spent
  /\ status[f] = "refused" => \E a \in Attempts : request[f][a] = "declined"

\* A refresh token is spent by a request that carried it.
SpentBy(s) ==
  \E k \in Refreshes \cup Logouts, a \in Attempts : body[k] = s /\ request[k][a] = "applied"

AllPlaced == \A k \in Requests : Placed(k)

Sound ==
  /\ \A v \in Checks : CheckOf(v)
  /\ \A o \in Logouts : LogoutOf(o)
  /\ \A f \in Refreshes : RefreshOf(f)
  /\ \A s \in spent : SpentBy(s)

IInv == TypeOK /\ AllPlaced /\ Sound

(***************************************************************************)
(* What a step leaves alone.                                               *)
(***************************************************************************)

\* Request j is not touched.
Same(j) ==
  /\ pc'[j] = pc[j] /\ status'[j] = status[j] /\ answer'[j] = answer[j]
  /\ access'[j] = access[j] /\ body'[j] = body[j] /\ got'[j] = got[j]
  /\ \A a \in Attempts : request'[j][a] = request[j][a]
  /\ j \in Checks => \A a \in Attempts : verdict'[j][a] = verdict[j][a]
  /\ j \in condemned' <=> j \in condemned

\* The service forgets nothing.
Grows ==
  /\ issued \subseteq issued' /\ expired \subseteq expired'
  /\ revoked \subseteq revoked' /\ spent \subseteq spent'
  /\ banned => banned'

\* A request that is not touched stays as sound as it was.
LEMMA SameKeeps ==
  ASSUME Grows, NEW j \in Requests, Same(j)
  PROVE  /\ Placed(j) => Placed(j)'
         /\ j \in Checks /\ CheckOf(j) => CheckOf(j)'
         /\ j \in Logouts /\ LogoutOf(j) => LogoutOf(j)'
         /\ j \in Refreshes /\ RefreshOf(j) => RefreshOf(j)'
<1> USE DEF Grows, Same
<1>1. Placed(j) => Placed(j)'
  BY DEF Placed
<1>2. j \in Checks /\ CheckOf(j) => CheckOf(j)'
  BY DEF CheckOf
<1>3. j \in Logouts /\ LogoutOf(j) => LogoutOf(j)'
  BY DEF LogoutOf, Effective
<1>4. j \in Refreshes /\ RefreshOf(j) => RefreshOf(j)'
  BY DEF RefreshOf
<1> QED BY <1>1, <1>2, <1>3, <1>4

\* The routes are told apart.
LEMMA Routes ==
  /\ \A k \in Refreshes : k \in Requests /\ k \in Grants /\ k \notin Logins /\ k \notin Checks /\ k \notin Logouts
  /\ \A k \in Logins : k \in Requests /\ k \in Grants /\ k \notin Checks /\ k \notin Logouts
  /\ \A k \in Checks : k \in Requests /\ k \notin Grants /\ k \notin Logouts
  /\ \A k \in Logouts : k \in Requests /\ k \notin Grants
  /\ \A k \in Grants : k \in Requests /\ k \notin Checks /\ k \notin Logouts
BY AuthAssumption DEF Requests, Grants

\* The tokens a client holds were issued.
LEMMA HeldIssued ==
  ASSUME TypeOK, AllPlaced, NEW s \in Held
  PROVE  s \in issued /\ s \in Sessions /\ s # NoSession
<1>1. PICK k \in Grants : s = got[k] /\ s # NoSession
  BY DEF Held
<1>2. got[k] \in issued \cup {NoSession}
  BY <1>1, Routes DEF AllPlaced, Placed
<1> QED BY <1>1, <1>2 DEF TypeOK

LEMMA CallNames ==
  /\ RC!Attempts = Attempts
  /\ RC!Answers = {"ok", "refused", "failed"}
BY DEF RC!Attempts, RC!Answers, Attempts

Marked(k, a, x) == request' = [request EXCEPT ![k][a] = x] /\ UNCHANGED status

Answered(k, x) == status' = [status EXCEPT ![k] = x] /\ UNCHANGED request

\* One attempt is marked, the others stay.
LEMMA SetRequest ==
  ASSUME RC!TypeOK, NEW k \in Requests, NEW a \in Attempts,
         NEW x \in {"sent", "applied", "declined"}, Marked(k, a, x)
  PROVE  /\ RC!TypeOK'
         /\ \A j \in Requests, b \in Attempts :
              request'[j][b] = IF j = k /\ b = a THEN x ELSE request[j][b]
BY CallNames DEF RC!TypeOK, Marked

\* One call is answered, the others stay.
LEMMA SetStatus ==
  ASSUME RC!TypeOK, NEW k \in Requests, NEW x \in {"ok", "refused", "failed"}, Answered(k, x)
  PROVE  /\ RC!TypeOK'
         /\ \A j \in Requests : status'[j] = IF j = k THEN x ELSE status[j]
BY CallNames DEF RC!TypeOK, Answered

(***************************************************************************)
(* What each action does.                                                  *)
(***************************************************************************)

\* A request comes in.
Arrived(k, h, s) ==
  /\ TypeOK' /\ Grows
  /\ \A j \in Requests : j # k => Same(j)
  /\ pc[k] = "idle" /\ pc'[k] = "call" /\ access'[k] = h /\ body'[k] = s
  /\ UNCHANGED <<status, request, answer, got, verdict, issued, expired, revoked, spent, banned>>

LEMMA CarryEffect ==
  ASSUME TypeOK, NEW k \in Requests, NEW h \in Sessions \cup {NoSession},
         NEW s \in Sessions \cup {NoSession}, Carry(k, h, s), condemned' \subseteq Checks,
         \A j \in Requests : j # k => (j \in condemned' <=> j \in condemned)
  PROVE  Arrived(k, h, s)
<1>1. /\ UNCHANGED <<status, request, answer, got, verdict, issued, expired, revoked, spent, banned>>
      /\ pc[k] = "idle"
      /\ pc' = [pc EXCEPT ![k] = "call"]
      /\ access' = [access EXCEPT ![k] = h]
      /\ body' = [body EXCEPT ![k] = s]
  BY DEF Carry, callVars, serviceVars
<1>2. TypeOK'
  BY <1>1 DEF TypeOK, RC!TypeOK
<1>3. \A j \in Requests : j # k => Same(j)
  BY <1>1 DEF TypeOK, Same
<1>4. pc'[k] = "call" /\ access'[k] = h /\ body'[k] = s
  BY <1>1 DEF TypeOK
<1> QED BY <1>1, <1>2, <1>3, <1>4 DEF Arrived, Grows

\* A request in whatever route comes in with tokens that were issued; a check is
\* condemned exactly if its token or user is.
LEMMA BeginEffect ==
  ASSUME TypeOK, AllPlaced, Begin
  PROVE  \E k \in Requests, h, s \in issued \cup {NoSession} :
           /\ Arrived(k, h, s)
           /\ k \in Refreshes => s # NoSession
           /\ k \in Logouts => h # NoSession
           /\ k \in Checks /\ k \in condemned' => k \in condemned \/ banned \/ s \in revoked
<1>0. issued \subseteq Sessions /\ condemned \subseteq Checks
  BY DEF TypeOK
<1>1. ASSUME NEW l \in Logins, Login(l)
      PROVE  l \in Requests /\ l \notin Checks /\ l \notin Logouts /\ l \notin Refreshes
             /\ Arrived(l, NoSession, NoSession)
  BY <1>0, <1>1, Routes, CarryEffect DEF Login
<1>2. ASSUME NEW f \in Refreshes, Refresh(f)
      PROVE  f \in Requests /\ f \notin Checks /\ f \notin Logouts
             /\ \E s \in issued : s # NoSession /\ Arrived(f, NoSession, s)
  <2>1. PICK s \in Held : Carry(f, NoSession, s) /\ UNCHANGED condemned
    BY <1>2 DEF Refresh
  <2>2. s \in issued /\ s \in Sessions /\ s # NoSession
    BY HeldIssued
  <2> QED BY <1>0, <2>1, <2>2, Routes, CarryEffect
<1>3. ASSUME NEW v \in Checks, Check(v)
      PROVE  v \in Requests /\ v \notin Refreshes /\ v \notin Logouts
             /\ \E h, s \in issued :
                  /\ Arrived(v, h, s)
                  /\ v \in condemned' => v \in condemned \/ banned \/ s \in revoked
  <2>1. PICK h \in Held, s \in Held :
          /\ Carry(v, h, s)
          /\ condemned' = IF banned \/ s \in revoked THEN condemned \cup {v} ELSE condemned
    BY <1>3 DEF Check
  <2>2. h \in issued /\ s \in issued /\ h \in Sessions /\ s \in Sessions
    BY HeldIssued
  <2>3. /\ condemned' \subseteq Checks
        /\ \A j \in Requests : j # v => (j \in condemned' <=> j \in condemned)
        /\ v \in condemned' => v \in condemned \/ banned \/ s \in revoked
    BY <1>0, <2>1
  <2>4. v \in Requests /\ v \notin Refreshes /\ v \notin Logouts
    BY Routes
  <2>5. Arrived(v, h, s)
    BY <2>1, <2>2, <2>3, <2>4, CarryEffect
  <2> QED BY <2>2, <2>3, <2>4, <2>5
<1>4. ASSUME NEW o \in Logouts, Logout(o)
      PROVE  o \in Requests /\ o \notin Refreshes /\ o \notin Checks
             /\ \E h \in issued, s \in issued \cup {NoSession} : h # NoSession /\ Arrived(o, h, s)
  <2>1. PICK h \in Held : \E s \in {h, NoSession} : Carry(o, h, s)
    BY <1>4 DEF Logout
  <2>2. PICK s \in {h, NoSession} : Carry(o, h, s)
    BY <2>1
  <2>3. h \in issued /\ h \in Sessions /\ h # NoSession
    BY HeldIssued
  <2>4. condemned' = condemned
    BY <1>4 DEF Logout
  <2> QED BY <1>0, <2>2, <2>3, <2>4, Routes, CarryEffect
<1> QED BY <1>1, <1>2, <1>3, <1>4 DEF Begin

\* An attempt of k that was x becomes y, and the gateway hears nothing of it.
Moved(k, a, x, y) ==
  /\ TypeOK' /\ Grows
  /\ \A j \in Requests : j # k => Same(j)
  /\ request[k][a] = x
  /\ \A b \in Attempts : request'[k][b] = IF b = a THEN y ELSE request[k][b]
  /\ UNCHANGED <<status, pc, answer, access, body, got, condemned>>

LEMMA AttemptEffect ==
  ASSUME TypeOK, NEW k \in Requests, Attempt(k)
  PROVE  /\ pc[k] = "call"
         /\ UNCHANGED <<verdict, issued, expired, revoked, spent, banned>>
         /\ \E a \in Attempts : Moved(k, a, "unsent", "sent")
<1>1. PICK a \in Attempts : RC!Send(k, a)
  BY DEF Attempt
<1>2. /\ pc[k] = "call"
      /\ UNCHANGED <<pc, answer, access, body, got, condemned>>
      /\ UNCHANGED <<verdict, issued, expired, revoked, spent, banned>>
  BY DEF Attempt, serviceVars
<1>3. /\ request[k][a] = "unsent"
      /\ Marked(k, a, "sent")
  BY <1>1, CallNames DEF RC!Send, Marked, Attempts
<1>4. RC!TypeOK
  BY DEF TypeOK
<1>5. /\ RC!TypeOK'
      /\ \A j \in Requests, b \in Attempts :
           request'[j][b] = IF j = k /\ b = a THEN "sent" ELSE request[j][b]
  BY <1>3, <1>4, SetRequest
<1>6. UNCHANGED status
  BY <1>3 DEF Marked
<1>7. TypeOK'
  BY <1>2, <1>5 DEF TypeOK
<1>8. \A j \in Requests : j # k => Same(j)
  BY <1>2, <1>5, <1>6 DEF Same
<1> QED BY <1>2, <1>3, <1>5, <1>6, <1>7, <1>8 DEF Moved, Grows

\* The service takes attempt a of k, which becomes y, and keeps what it says of
\* other requests and what it knew.
LEMMA TakenEffect ==
  ASSUME TypeOK, NEW k \in Requests, NEW a \in Attempts, NEW y \in {"applied", "declined"},
         request[k][a] = "sent", Marked(k, a, y), UNCHANGED gatewayVars,
         Grows, verdict' \in [Checks -> [Attempts -> Verdicts]],
         \A j \in Checks, b \in Attempts : j # k => verdict'[j][b] = verdict[j][b],
         issued' \subseteq Sessions, expired' \subseteq issued', revoked' \subseteq issued',
         spent' \subseteq issued', banned' \in BOOLEAN
  PROVE  Moved(k, a, "sent", y)
<1>1. RC!TypeOK
  BY DEF TypeOK
<1>2. /\ RC!TypeOK'
      /\ \A j \in Requests, b \in Attempts :
           request'[j][b] = IF j = k /\ b = a THEN y ELSE request[j][b]
  BY <1>1, SetRequest
<1>3. /\ UNCHANGED status
      /\ UNCHANGED <<pc, answer, access, body, got, condemned>>
  BY DEF Marked, gatewayVars
<1>4. TypeOK'
  BY <1>2, <1>3 DEF TypeOK
<1>5. \A j \in Requests : j # k => Same(j)
  BY <1>2, <1>3 DEF Same
<1> QED BY <1>2, <1>3, <1>4, <1>5 DEF Moved

LEMMA IssueEffect ==
  ASSUME TypeOK, AllPlaced, NEW k \in Requests, NEW a \in Attempts, Issue(k, a)
  PROVE  /\ Moved(k, a, "sent", "applied") /\ k \in Logins
         /\ <<k, a>> \in issued' /\ UNCHANGED spent
<1>1. /\ k \in Logins /\ k \in Grants
      /\ request[k][a] = "sent" /\ Marked(k, a, "applied")
      /\ issued' = issued \cup {<<k, a>>}
      /\ UNCHANGED gatewayVars
      /\ UNCHANGED <<verdict, expired, revoked, spent, banned>>
  BY Routes DEF Issue, RC!Apply, Marked
<1>2. /\ verdict' \in [Checks -> [Attempts -> Verdicts]]
      /\ issued' \subseteq Sessions /\ expired' \subseteq issued' /\ revoked' \subseteq issued'
      /\ spent' \subseteq issued' /\ banned' \in BOOLEAN
  BY <1>1 DEF TypeOK, Sessions
<1>3. Grows
  BY <1>1 DEF Grows
<1>4. Moved(k, a, "sent", "applied")
  BY <1>1, <1>2, <1>3, TakenEffect
<1> QED BY <1>1, <1>4

LEMMA RenewEffect ==
  ASSUME TypeOK, AllPlaced, NEW k \in Requests, NEW a \in Attempts, Renew(k, a)
  PROVE  /\ Moved(k, a, "sent", "applied") /\ k \in Refreshes
         /\ <<k, a>> \in issued' /\ spent' \subseteq spent \cup {body[k]}
<1>1. /\ k \in Refreshes /\ k \in Grants
      /\ request[k][a] = "sent" /\ Marked(k, a, "applied")
      /\ issued' = issued \cup {<<k, a>>}
      /\ spent' \in {spent, spent \cup {body[k]}}
      /\ UNCHANGED gatewayVars
      /\ UNCHANGED <<verdict, expired, revoked, banned>>
  BY Routes DEF Renew, RC!Apply, Marked
<1>2. body[k] \in issued
  BY DEF Renew, GoodForRefresh
<1>3. /\ verdict' \in [Checks -> [Attempts -> Verdicts]]
      /\ issued' \subseteq Sessions /\ expired' \subseteq issued' /\ revoked' \subseteq issued'
      /\ spent' \subseteq issued' /\ banned' \in BOOLEAN
  BY <1>1, <1>2 DEF TypeOK, Sessions
<1>4. Grows
  BY <1>1 DEF Grows
<1>5. Moved(k, a, "sent", "applied")
  BY <1>1, <1>3, <1>4, TakenEffect
<1> QED BY <1>1, <1>5

LEMMA JudgeEffect ==
  ASSUME TypeOK, AllPlaced, NEW k \in Requests, NEW a \in Attempts, Judge(k, a)
  PROVE  /\ Moved(k, a, "sent", "applied") /\ k \in Checks
         /\ UNCHANGED <<issued, expired, revoked, spent, banned>>
         /\ \E reason \in IF TrueOf(body[k]) = {} THEN {"valid"} ELSE TrueOf(body[k]) :
              \A b \in Attempts : verdict'[k][b] = IF b = a THEN reason ELSE verdict[k][b]
<1>1. /\ k \in Checks
      /\ request[k][a] = "sent" /\ Marked(k, a, "applied")
      /\ UNCHANGED gatewayVars
      /\ UNCHANGED <<issued, expired, revoked, spent, banned>>
  BY DEF Judge, RC!Apply, Marked
<1>2. PICK reason \in IF TrueOf(body[k]) = {} THEN {"valid"} ELSE TrueOf(body[k]) :
        verdict' = [verdict EXCEPT ![k][a] = reason]
  BY DEF Judge
<1>3. reason \in Verdicts
  BY <1>2 DEF TrueOf, Verdicts, Reasons
<1>4. verdict \in [Checks -> [Attempts -> Verdicts]]
  BY DEF TypeOK
<1>5. /\ verdict' \in [Checks -> [Attempts -> Verdicts]]
      /\ \A j \in Checks, b \in Attempts : j # k => verdict'[j][b] = verdict[j][b]
      /\ \A b \in Attempts : verdict'[k][b] = IF b = a THEN reason ELSE verdict[k][b]
  BY <1>1, <1>2, <1>3, <1>4
<1>6. /\ issued' \subseteq Sessions /\ expired' \subseteq issued' /\ revoked' \subseteq issued'
      /\ spent' \subseteq issued' /\ banned' \in BOOLEAN
  BY <1>1 DEF TypeOK
<1>7. Grows
  BY <1>1 DEF Grows
<1>8. Moved(k, a, "sent", "applied")
  BY <1>1, <1>5, <1>6, <1>7, TakenEffect
<1> QED BY <1>1, <1>2, <1>5, <1>8

LEMMA RevokeEffect ==
  ASSUME TypeOK, AllPlaced, NEW k \in Requests, NEW a \in Attempts, Revoke(k, a)
  PROVE  /\ Moved(k, a, "sent", "applied") /\ k \in Logouts
         /\ access[k] # NoSession => access[k] \in revoked'
         /\ body[k] # NoSession => body[k] \in spent'
         /\ spent' \subseteq spent \cup {body[k]}
<1>1. /\ k \in Logouts
      /\ request[k][a] = "sent" /\ Marked(k, a, "applied")
      /\ revoked' = revoked \cup ({access[k]} \ {NoSession})
      /\ spent' = spent \cup ({body[k]} \ {NoSession})
      /\ UNCHANGED gatewayVars
      /\ UNCHANGED <<verdict, issued, expired, banned>>
  BY DEF Revoke, RC!Apply, Marked
<1>2. access[k] \in issued \cup {NoSession} /\ body[k] \in issued \cup {NoSession}
  BY DEF AllPlaced, Placed
<1>3. /\ verdict' \in [Checks -> [Attempts -> Verdicts]]
      /\ issued' \subseteq Sessions /\ expired' \subseteq issued' /\ revoked' \subseteq issued'
      /\ spent' \subseteq issued' /\ banned' \in BOOLEAN
  BY <1>1, <1>2 DEF TypeOK
<1>4. Grows
  BY <1>1 DEF Grows
<1>5. Moved(k, a, "sent", "applied")
  BY <1>1, <1>3, <1>4, TakenEffect
<1> QED BY <1>1, <1>5

LEMMA DeclineEffect ==
  ASSUME TypeOK, NEW k \in Requests, NEW a \in Attempts, Decline(k, a)
  PROVE  /\ Moved(k, a, "sent", "declined")
         /\ UNCHANGED <<verdict, issued, expired, revoked, spent, banned>>
<1>1. /\ request[k][a] = "sent" /\ Marked(k, a, "declined")
      /\ UNCHANGED gatewayVars
      /\ UNCHANGED <<verdict, issued, expired, revoked, spent, banned>>
  BY DEF Decline, RC!Decline, Marked, serviceVars
<1>2. /\ verdict' \in [Checks -> [Attempts -> Verdicts]]
      /\ issued' \subseteq Sessions /\ expired' \subseteq issued' /\ revoked' \subseteq issued'
      /\ spent' \subseteq issued' /\ banned' \in BOOLEAN
  BY <1>1 DEF TypeOK
<1>3. Grows
  BY <1>1 DEF Grows
<1>4. Moved(k, a, "sent", "declined")
  BY <1>1, <1>2, <1>3, TakenEffect
<1> QED BY <1>1, <1>4

\* Request k, whose call was awaited, is answered: its status becomes x, the client
\* is told text and given session g.
Replied(k, x, text, g) ==
  /\ TypeOK' /\ Grows
  /\ \A j \in Requests : j # k => Same(j)
  /\ pc[k] = "call" /\ pc'[k] = "done"
  /\ status'[k] = x /\ answer'[k] = text /\ got'[k] = g
  /\ UNCHANGED <<request, access, body, condemned>>
  /\ UNCHANGED <<verdict, issued, expired, revoked, spent, banned>>

Texts == {"none", "tokens", "valid", "forbidden", "unauthorized", "loggedOut"}

LEMMA AnswerEffect ==
  ASSUME TypeOK, NEW k \in Requests, NEW x \in {"ok", "refused", "failed"}, NEW text \in Texts,
         NEW g \in Sessions \cup {NoSession},
         Answered(k, x), Answer(k, text), got' = [got EXCEPT ![k] = g]
  PROVE  Replied(k, x, text, g)
<1>1. /\ pc[k] = "call"
      /\ pc' = [pc EXCEPT ![k] = "done"]
      /\ answer' = [answer EXCEPT ![k] = text]
      /\ UNCHANGED <<access, body, condemned>>
      /\ UNCHANGED <<verdict, issued, expired, revoked, spent, banned>>
  BY DEF Answer, serviceVars
<1>2. RC!TypeOK
  BY DEF TypeOK
<1>3. /\ RC!TypeOK'
      /\ \A j \in Requests : status'[j] = IF j = k THEN x ELSE status[j]
  BY <1>2, SetStatus
<1>4. UNCHANGED request
  BY DEF Answered
<1>5. TypeOK'
  BY <1>1, <1>3 DEF TypeOK, Texts
<1>6. \A j \in Requests : j # k => Same(j)
  BY <1>1, <1>3, <1>4 DEF TypeOK, Same
<1>7. pc'[k] = "done" /\ answer'[k] = text /\ got'[k] = g
  BY <1>1 DEF TypeOK
<1> QED BY <1>1, <1>3, <1>4, <1>5, <1>6, <1>7 DEF Replied, Grows

(***************************************************************************)
(* The invariant, request by request.                                      *)
(***************************************************************************)

\* A step that touches request k alone leaves it in order.
InOrder(k) ==
  /\ Grows
  /\ \A j \in Requests : j # k => Same(j)
  /\ \A a \in Attempts :
       request[k][a] = "applied" => body'[k] = body[k] /\ request'[k][a] = "applied"
  /\ Placed(k)'
  /\ k \in Checks => CheckOf(k)'
  /\ k \in Logouts => LogoutOf(k)'
  /\ k \in Refreshes => RefreshOf(k)'
  /\ \A s \in spent' : s \in spent \/ SpentBy(s)'

LEMMA InOrderSuffices ==
  ASSUME IInv, TypeOK', NEW k \in Requests, InOrder(k)
  PROVE  IInv'
<1>1. ASSUME NEW j \in Requests
      PROVE  /\ Placed(j)'
             /\ j \in Checks => CheckOf(j)'
             /\ j \in Logouts => LogoutOf(j)'
             /\ j \in Refreshes => RefreshOf(j)'
  BY SameKeeps DEF IInv, AllPlaced, Sound, InOrder
<1>2. ASSUME NEW s \in spent
      PROVE  SpentBy(s)'
  <2>1. PICK j \in Refreshes \cup Logouts, a \in Attempts : body[j] = s /\ request[j][a] = "applied"
    BY DEF IInv, Sound, SpentBy
  <2>2. j \in Requests
    BY <2>1, Routes
  <2>3. body'[j] = s /\ request'[j][a] = "applied"
    BY <2>1, <2>2 DEF InOrder, Same
  <2> QED BY <2>1, <2>3 DEF SpentBy
<1>3. \A s \in spent' : SpentBy(s)'
  BY <1>2 DEF InOrder
<1> QED BY <1>1, <1>3, Routes DEF IInv, AllPlaced, Sound

LEMMA BeginStep == IInv /\ Begin => IInv'
<1> SUFFICES ASSUME IInv, Begin PROVE IInv'
  OBVIOUS
<1>1. TypeOK /\ AllPlaced
  BY DEF IInv
<1>2. PICK k \in Requests, h \in issued \cup {NoSession}, s \in issued \cup {NoSession} :
        /\ Arrived(k, h, s)
        /\ k \in Refreshes => s # NoSession
        /\ k \in Logouts => h # NoSession
        /\ k \in Checks /\ k \in condemned' => k \in condemned \/ banned \/ s \in revoked
  BY <1>1, BeginEffect
<1>3. TypeOK' /\ Grows /\ \A j \in Requests : j # k => Same(j)
  BY <1>2 DEF Arrived
<1>4. /\ pc[k] = "idle" /\ pc'[k] = "call" /\ access'[k] = h /\ body'[k] = s
      /\ UNCHANGED <<status, request, answer, got, verdict, issued, expired, revoked, spent, banned>>
  BY <1>2 DEF Arrived
<1>5. Placed(k)
  BY <1>1 DEF AllPlaced
<1>6. /\ status[k] = "pending" /\ answer[k] = "none"
      /\ \A a \in Attempts : request[k][a] = "unsent"
  BY <1>4, <1>5 DEF Placed
<1>7. Placed(k)'
  BY <1>2, <1>4, <1>5, <1>6 DEF Placed
<1>8. k \in Checks => CheckOf(k)'
  <2> SUFFICES ASSUME k \in Checks PROVE CheckOf(k)'
    OBVIOUS
  <2>1. CheckOf(k)
    BY DEF IInv, Sound
  <2>2. \A a \in Attempts : verdict[k][a] = "none"
    BY <1>6, <2>1 DEF CheckOf
  <2>3. k \notin condemned
    BY <1>4, <2>1 DEF CheckOf
  <2> QED BY <1>2, <1>4, <1>6, <2>2, <2>3 DEF CheckOf
<1>9. k \in Logouts => LogoutOf(k)'
  BY <1>4, <1>6 DEF LogoutOf
<1>10. k \in Refreshes => RefreshOf(k)'
  BY <1>4, <1>6 DEF RefreshOf
<1>11. InOrder(k)
  BY <1>3, <1>4, <1>6, <1>7, <1>8, <1>9, <1>10 DEF InOrder
<1> QED BY <1>3, <1>11, InOrderSuffices

LEMMA AttemptStep == ASSUME IInv, NEW k \in Requests, Attempt(k) PROVE IInv'
<1>1. TypeOK /\ Placed(k)
  BY DEF IInv, AllPlaced
<1>2. /\ pc[k] = "call"
      /\ UNCHANGED <<verdict, issued, expired, revoked, spent, banned>>
  BY <1>1, AttemptEffect
<1>3. PICK a \in Attempts : Moved(k, a, "unsent", "sent")
  BY <1>1, AttemptEffect
<1>4. TypeOK' /\ Grows /\ \A j \in Requests : j # k => Same(j)
  BY <1>3 DEF Moved
<1>5. /\ request[k][a] = "unsent"
      /\ \A b \in Attempts : request'[k][b] = IF b = a THEN "sent" ELSE request[k][b]
      /\ UNCHANGED <<status, pc, answer, access, body, got, condemned>>
  BY <1>3 DEF Moved
<1>6. Placed(k)'
  BY <1>1, <1>2, <1>5 DEF Placed
<1>7. k \in Checks => CheckOf(k)'
  BY <1>2, <1>5 DEF IInv, Sound, CheckOf
<1>8. k \in Logouts => LogoutOf(k)'
  BY <1>2, <1>5 DEF IInv, Sound, LogoutOf, Effective
<1>9. k \in Refreshes => RefreshOf(k)'
  BY <1>2, <1>5 DEF IInv, Sound, RefreshOf
<1>10. InOrder(k)
  BY <1>2, <1>4, <1>5, <1>6, <1>7, <1>8, <1>9 DEF InOrder
<1> QED BY <1>4, <1>10, InOrderSuffices

\* What the service's taking an attempt does to all but the facts of its route.
LEMMA MovedStep ==
  ASSUME IInv, NEW k \in Requests, NEW a \in Attempts, NEW y \in {"applied", "declined"},
         Moved(k, a, "sent", y),
         k \in Grants /\ y = "applied" => <<k, a>> \in issued',
         k \in Checks => CheckOf(k)',
         k \in Logouts => LogoutOf(k)',
         k \in Refreshes => RefreshOf(k)',
         \A s \in spent' : s \in spent \/ SpentBy(s)'
  PROVE  IInv'
<1>1. TypeOK' /\ Grows /\ \A j \in Requests : j # k => Same(j)
  BY DEF Moved
<1>2. /\ request[k][a] = "sent"
      /\ \A b \in Attempts : request'[k][b] = IF b = a THEN y ELSE request[k][b]
      /\ UNCHANGED <<status, pc, answer, access, body, got, condemned>>
  BY DEF Moved
<1>3. Placed(k)
  BY DEF IInv, AllPlaced
<1>4. Placed(k)'
  BY <1>1, <1>2, <1>3 DEF Placed, Grows
<1>5. InOrder(k)
  BY <1>1, <1>2, <1>4 DEF InOrder
<1> QED BY <1>1, <1>5, InOrderSuffices

LEMMA IssueStep == ASSUME IInv, NEW k \in Requests, NEW a \in Attempts, Issue(k, a) PROVE IInv'
<1>1. /\ Moved(k, a, "sent", "applied") /\ k \in Logins
      /\ <<k, a>> \in issued' /\ UNCHANGED spent
  BY IssueEffect DEF IInv
<1>2. k \notin Checks /\ k \notin Logouts /\ k \notin Refreshes
  BY <1>1, Routes
<1> QED BY <1>1, <1>2, MovedStep

LEMMA RenewStep == ASSUME IInv, NEW k \in Requests, NEW a \in Attempts, Renew(k, a) PROVE IInv'
<1>1. /\ Moved(k, a, "sent", "applied") /\ k \in Refreshes
      /\ <<k, a>> \in issued' /\ spent' \subseteq spent \cup {body[k]}
  BY RenewEffect DEF IInv
<1>2. k \notin Checks /\ k \notin Logouts
  BY <1>1, Routes
<1>3. /\ Grows /\ request[k][a] = "sent"
      /\ \A b \in Attempts : request'[k][b] = IF b = a THEN "applied" ELSE request[k][b]
      /\ UNCHANGED <<status, body>>
  BY <1>1 DEF Moved
<1>4. RefreshOf(k)
  BY <1>1 DEF IInv, Sound
<1>5. RefreshOf(k)'
  BY <1>3, <1>4 DEF RefreshOf, Grows
<1>6. /\ k \in Refreshes \cup Logouts
      /\ body'[k] = body[k] /\ request'[k][a] = "applied"
  BY <1>1, <1>3
<1>7. \A s \in spent' : s \in spent \/ SpentBy(s)'
  BY <1>1, <1>6 DEF SpentBy
<1> QED BY <1>1, <1>2, <1>5, <1>7, MovedStep

LEMMA JudgeStep == ASSUME IInv, NEW k \in Requests, NEW a \in Attempts, Judge(k, a) PROVE IInv'
<1>1. /\ Moved(k, a, "sent", "applied") /\ k \in Checks
      /\ UNCHANGED <<issued, expired, revoked, spent, banned>>
  BY JudgeEffect DEF IInv
<1>2. PICK reason \in IF TrueOf(body[k]) = {} THEN {"valid"} ELSE TrueOf(body[k]) :
        \A b \in Attempts : verdict'[k][b] = IF b = a THEN reason ELSE verdict[k][b]
  BY JudgeEffect DEF IInv
<1>3. k \notin Grants /\ k \notin Logouts /\ k \notin Refreshes
  BY <1>1, Routes
<1>4. /\ \A b \in Attempts : request'[k][b] = IF b = a THEN "applied" ELSE request[k][b]
      /\ UNCHANGED <<pc, answer, body, condemned>>
  BY <1>1 DEF Moved
<1>5. CheckOf(k)
  BY <1>1 DEF IInv, Sound
<1>6. \* The reply is true ...
      /\ reason \in {"blacklisted", "token_revoked"} => body[k] \in revoked
      /\ reason = "account_banned" => banned
      /\ reason = "expired" => body[k] \in expired
  BY <1>2 DEF TrueOf
<1>7. \* ... and names a reason if there is one.
      banned \/ body[k] \in revoked => reason \in Reasons
  BY <1>2 DEF TrueOf, Reasons
<1>8. CheckOf(k)'
  BY <1>1, <1>2, <1>4, <1>5, <1>6, <1>7 DEF CheckOf
<1> QED BY <1>1, <1>3, <1>8, MovedStep

LEMMA RevokeStep == ASSUME IInv, NEW k \in Requests, NEW a \in Attempts, Revoke(k, a) PROVE IInv'
<1>1. /\ Moved(k, a, "sent", "applied") /\ k \in Logouts
      /\ access[k] # NoSession => access[k] \in revoked'
      /\ body[k] # NoSession => body[k] \in spent'
      /\ spent' \subseteq spent \cup {body[k]}
  BY RevokeEffect DEF IInv
<1>2. k \notin Grants /\ k \notin Checks /\ k \notin Refreshes
  BY <1>1, Routes
<1>3. /\ request[k][a] = "sent"
      /\ \A b \in Attempts : request'[k][b] = IF b = a THEN "applied" ELSE request[k][b]
      /\ UNCHANGED <<status, access, body>>
  BY <1>1 DEF Moved
<1>4. access[k] # NoSession
  BY <1>1, <1>3 DEF IInv, AllPlaced, Placed
<1>5. LogoutOf(k)'
  BY <1>1, <1>3, <1>4 DEF LogoutOf, Effective
<1>6. /\ k \in Refreshes \cup Logouts
      /\ body'[k] = body[k] /\ request'[k][a] = "applied"
  BY <1>1, <1>3
<1>7. \A s \in spent' : s \in spent \/ SpentBy(s)'
  BY <1>1, <1>6 DEF SpentBy
<1> QED BY <1>1, <1>2, <1>5, <1>7, MovedStep

LEMMA DeclineStep == ASSUME IInv, NEW k \in Requests, NEW a \in Attempts, Decline(k, a) PROVE IInv'
<1>1. /\ Moved(k, a, "sent", "declined")
      /\ UNCHANGED <<verdict, issued, expired, revoked, spent, banned>>
  BY DeclineEffect DEF IInv
<1>2. /\ request[k][a] = "sent"
      /\ \A b \in Attempts : request'[k][b] = IF b = a THEN "declined" ELSE request[k][b]
      /\ UNCHANGED <<status, pc, answer, access, body, condemned>>
  BY <1>1 DEF Moved
<1>3. k \in Checks => CheckOf(k)'
  BY <1>1, <1>2 DEF IInv, Sound, CheckOf
<1>4. k \in Logouts => LogoutOf(k)'
  BY <1>1, <1>2 DEF IInv, Sound, LogoutOf, Effective
<1>5. k \in Refreshes => RefreshOf(k)'
  <2> SUFFICES ASSUME k \in Refreshes PROVE RefreshOf(k)'
    OBVIOUS
  <2>1. RefreshOf(k) /\ Placed(k) /\ k \in Requests
    BY Routes DEF IInv, Sound, AllPlaced
  <2>2. body[k] \in issued
    BY <1>2, <2>1 DEF Placed
  <2>3. banned \/ body[k] \in spent
    BY <2>2 DEF Decline, GoodForRefresh
  <2> QED BY <1>1, <1>2, <2>1, <2>3 DEF RefreshOf
<1> QED BY <1>1, <1>3, <1>4, <1>5, MovedStep

\* An answer is as good as the reply it is made from.
LEMMA RepliedStep ==
  ASSUME IInv, NEW k \in Requests, NEW x, NEW text, NEW g \in issued \cup {NoSession},
         Replied(k, x, text, g),
         k \in Logouts /\ x = "ok" => Effective(k),
         k \in Refreshes /\ x = "refused" => \E a \in Attempts : request[k][a] = "declined",
         k \in Checks /\ text = "forbidden" => banned \/ body[k] \in revoked,
         k \in Checks /\ k \in condemned /\ text = "valid" => body[k] \in expired
  PROVE  IInv'
<1>1. TypeOK' /\ Grows /\ \A j \in Requests : j # k => Same(j)
  BY DEF Replied
<1>2. /\ pc[k] = "call" /\ pc'[k] = "done"
      /\ status'[k] = x /\ answer'[k] = text /\ got'[k] = g
      /\ UNCHANGED <<request, access, body, condemned>>
      /\ UNCHANGED <<verdict, issued, expired, revoked, spent, banned>>
  BY DEF Replied
<1>3. Placed(k)
  BY DEF IInv, AllPlaced
<1>4. Placed(k)'
  BY <1>2, <1>3 DEF Placed
<1>5. k \in Checks => CheckOf(k)'
  BY <1>2 DEF IInv, Sound, CheckOf
<1>6. k \in Logouts => LogoutOf(k)'
  BY <1>2 DEF IInv, Sound, LogoutOf, Effective
<1>7. k \in Refreshes => RefreshOf(k)'
  BY <1>2 DEF IInv, Sound, RefreshOf
<1>8. InOrder(k)
  BY <1>1, <1>2, <1>4, <1>5, <1>6, <1>7 DEF InOrder
<1> QED BY <1>1, <1>8, InOrderSuffices

\* A failure, or a refusal, and then some attempt was declined.
LEMMA UnsuccessfulCases ==
  ASSUME NEW k \in Requests, Unsuccessful(k)
  PROVE  \E x \in {"refused", "failed"} :
           /\ Answered(k, x)
           /\ x = "refused" => \E a \in Attempts : request[k][a] = "declined"
BY CallNames DEF Unsuccessful, RC!Fail, RC!Refuse, Answered

LEMMA GrantedStep == ASSUME IInv, NEW k \in Requests, Granted(k) PROVE IInv'
<1>1. k \in Grants /\ k \notin Checks /\ k \notin Logouts
  BY Routes DEF Granted
<1>2. PICK a \in Attempts : RC!Succeed(k, a) /\ got' = [got EXCEPT ![k] = <<k, a>>]
  BY DEF Granted
<1>3. request[k][a] = "applied" /\ Answered(k, "ok") /\ Answer(k, "tokens")
  BY <1>2 DEF RC!Succeed, Answered, Granted
<1>4. <<k, a>> \in issued
  BY <1>1, <1>3 DEF IInv, AllPlaced, Placed
<1>5. TypeOK /\ <<k, a>> \in Sessions
  BY <1>4 DEF IInv, TypeOK
<1>6. Replied(k, "ok", "tokens", <<k, a>>)
  BY <1>2, <1>3, <1>5, AnswerEffect DEF Texts
<1> QED BY <1>1, <1>4, <1>6, RepliedStep

LEMMA JudgedStep == ASSUME IInv, NEW k \in Requests, Judged(k) PROVE IInv'
<1>1. k \in Checks /\ k \notin Refreshes /\ k \notin Logouts
  BY Routes DEF Judged
<1>2. PICK a \in Attempts : RC!Succeed(k, a) /\ Answer(k, Reading(verdict[k][a]))
  BY DEF Judged
<1> DEFINE text == Reading(verdict[k][a])
<1>3. request[k][a] = "applied" /\ Answered(k, "ok")
  BY <1>2 DEF RC!Succeed, Answered
<1>4. TypeOK /\ got[k] \in issued \cup {NoSession}
  BY DEF IInv, AllPlaced, Placed
<1>5. got[k] \in Sessions \cup {NoSession} /\ got' = [got EXCEPT ![k] = got[k]]
  BY <1>4 DEF TypeOK, Judged
<1>6. text \in Texts
  BY DEF Texts, Reading
<1>7. Replied(k, "ok", text, got[k])
  BY <1>2, <1>3, <1>4, <1>5, <1>6, AnswerEffect
<1>8. CheckOf(k)
  BY <1>1 DEF IInv, Sound
<1>9. text = "forbidden" => banned \/ body[k] \in revoked
  BY <1>8 DEF CheckOf, Reading
<1>10. \* Of a condemned token only "expired" is read as valid.
       k \in condemned /\ text = "valid" => body[k] \in expired
  BY <1>3, <1>8 DEF CheckOf, Reading, Reasons
<1> QED BY <1>1, <1>4, <1>7, <1>9, <1>10, RepliedStep

LEMMA UnauthorizedStep == ASSUME IInv, NEW k \in Requests, Unauthorized(k) PROVE IInv'
<1>1. k \notin Logouts
  BY Routes DEF Unauthorized
<1>2. PICK x \in {"refused", "failed"} :
        /\ Answered(k, x)
        /\ x = "refused" => \E a \in Attempts : request[k][a] = "declined"
  BY UnsuccessfulCases DEF Unauthorized
<1>3. TypeOK /\ got[k] \in issued \cup {NoSession}
  BY DEF IInv, AllPlaced, Placed
<1>4. /\ Answer(k, "unauthorized")
      /\ got[k] \in Sessions \cup {NoSession} /\ got' = [got EXCEPT ![k] = got[k]]
  BY <1>3 DEF TypeOK, Unauthorized
<1>5. Replied(k, x, "unauthorized", got[k])
  BY <1>2, <1>3, <1>4, AnswerEffect DEF Texts
<1> QED BY <1>1, <1>2, <1>3, <1>5, RepliedStep

LEMMA LoggedOutStep == ASSUME IInv, NEW k \in Requests, LoggedOut(k) PROVE IInv'
<1>1. k \in Logouts /\ k \notin Refreshes /\ k \notin Checks
  BY Routes DEF LoggedOut
<1>2. \E x \in {"ok", "refused", "failed"} : Answered(k, x) /\ (x = "ok" => Effective(k))
  <2>1. CASE Unsuccessful(k)
    BY <2>1, UnsuccessfulCases
  <2>2. CASE \E a \in Attempts : RC!Succeed(k, a)
    <3>1. PICK a \in Attempts : RC!Succeed(k, a)
      BY <2>2
    <3>2. request[k][a] = "applied" /\ Answered(k, "ok")
      BY <3>1 DEF RC!Succeed, Answered
    <3>3. Effective(k)
      BY <1>1, <3>2 DEF IInv, Sound, LogoutOf
    <3> QED BY <3>2, <3>3
  <2> QED BY <2>1, <2>2 DEF LoggedOut
<1>3. PICK x \in {"ok", "refused", "failed"} : Answered(k, x) /\ (x = "ok" => Effective(k))
  BY <1>2
<1>4. TypeOK /\ got[k] \in issued \cup {NoSession}
  BY DEF IInv, AllPlaced, Placed
<1>5. /\ Answer(k, "loggedOut")
      /\ got[k] \in Sessions \cup {NoSession} /\ got' = [got EXCEPT ![k] = got[k]]
  BY <1>4 DEF TypeOK, LoggedOut
<1>6. Replied(k, x, "loggedOut", got[k])
  BY <1>3, <1>4, <1>5, AnswerEffect DEF Texts
<1> QED BY <1>1, <1>3, <1>4, <1>6, RepliedStep

\* A step that touches no request.
LEMMA OutsideStep ==
  ASSUME IInv, TypeOK', Grows, \A j \in Requests : Same(j), UNCHANGED spent
  PROVE  IInv'
<1>1. ASSUME NEW j \in Requests
      PROVE  /\ Placed(j)'
             /\ j \in Checks => CheckOf(j)'
             /\ j \in Logouts => LogoutOf(j)'
             /\ j \in Refreshes => RefreshOf(j)'
  BY SameKeeps DEF IInv, AllPlaced, Sound
<1>2. ASSUME NEW s \in spent'
      PROVE  SpentBy(s)'
  BY Routes DEF IInv, Sound, SpentBy, Same
<1> QED BY <1>1, <1>2, Routes DEF IInv, AllPlaced, Sound

LEMMA BanStep == IInv /\ Ban => IInv'
<1> SUFFICES ASSUME IInv, Ban PROVE IInv'
  OBVIOUS
<1>1. /\ banned' = TRUE
      /\ UNCHANGED <<status, request, pc, answer, access, body, got, condemned>>
      /\ UNCHANGED <<verdict, issued, expired, revoked, spent>>
  BY DEF Ban, callVars, gatewayVars
<1>2. TypeOK' /\ Grows /\ \A j \in Requests : Same(j)
  BY <1>1 DEF IInv, TypeOK, RC!TypeOK, Grows, Same
<1> QED BY <1>1, <1>2, OutsideStep

LEMMA ExpireStep == ASSUME IInv, NEW s \in Sessions, Expire(s) PROVE IInv'
<1>1. /\ expired' = expired \cup {s}
      /\ UNCHANGED <<status, request, pc, answer, access, body, got, condemned>>
      /\ UNCHANGED <<verdict, issued, revoked, spent, banned>>
  BY DEF Expire, callVars, gatewayVars
<1>2. s \in issued
  BY HeldIssued DEF Expire, IInv
<1>3. TypeOK' /\ Grows /\ \A j \in Requests : Same(j)
  BY <1>1, <1>2 DEF IInv, TypeOK, RC!TypeOK, Grows, Same
<1> QED BY <1>1, <1>3, OutsideStep

LEMMA StutterStep == IInv /\ UNCHANGED vars => IInv'
<1> SUFFICES ASSUME IInv, UNCHANGED vars PROVE IInv'
  OBVIOUS
<1>1. /\ UNCHANGED <<status, request, pc, answer, access, body, got, condemned>>
      /\ UNCHANGED <<verdict, issued, expired, revoked, spent, banned>>
  BY DEF vars
<1>2. TypeOK' /\ Grows /\ \A j \in Requests : Same(j)
  BY <1>1 DEF IInv, TypeOK, RC!TypeOK, Grows, Same
<1> QED BY <1>1, <1>2, OutsideStep

LEMMA Initially == Init => IInv
<1> SUFFICES ASSUME Init PROVE IInv
  OBVIOUS
<1>1. TypeOK
  BY CallNames DEF Init, TypeOK, RC!Init, RC!TypeOK, Verdicts
<1>2. AllPlaced
  BY CallNames DEF Init, RC!Init, AllPlaced, Placed
<1>3. Sound
  BY CallNames, Routes DEF Init, RC!Init, Sound, CheckOf, LogoutOf, RefreshOf
<1> QED BY <1>1, <1>2, <1>3 DEF IInv

LEMMA Inductive == IInv /\ [Next]_vars => IInv'
<1> SUFFICES ASSUME IInv, Next PROVE IInv'
  BY StutterStep
<1>1. ASSUME NEW k \in Requests, NEW a \in Attempts,
             Issue(k, a) \/ Renew(k, a) \/ Judge(k, a) \/ Revoke(k, a) \/ Decline(k, a)
      PROVE  IInv'
  BY <1>1, IssueStep, RenewStep, JudgeStep, RevokeStep, DeclineStep
<1>2. ASSUME NEW k \in Requests,
             Attempt(k) \/ Granted(k) \/ Judged(k) \/ Unauthorized(k) \/ LoggedOut(k)
      PROVE  IInv'
  BY <1>2, AttemptStep, GrantedStep, JudgedStep, UnauthorizedStep, LoggedOutStep
<1> QED BY <1>1, <1>2, BeginStep, BanStep, ExpireStep DEF Next

LEMMA Invariance == Spec => []IInv
BY Initially, Inductive, PTL DEF Spec

(***************************************************************************)
(* The theorems.                                                           *)
(***************************************************************************)

\* Every variable keeps its type, and the service only ever revokes, spends or sees
\* expire tokens that it issued.
THEOREM TypeCorrect == Spec => []TypeOK
<1>1. IInv => TypeOK
  BY DEF IInv
<1> QED BY <1>1, Invariance, PTL

\* A check that begins after its token was revoked or its user banned is not
\* answered "valid", unless the token has expired.
THEOREM Condemned == Spec => []CondemnedIsNotValid
<1>1. IInv => CondemnedIsNotValid
  BY DEF IInv, TypeOK, Sound, CheckOf, CondemnedIsNotValid
<1> QED BY <1>1, Invariance, PTL

\* A check is answered "forbidden" only of a revoked token or a banned user.
THEOREM Forbidden == Spec => []ForbiddenIsTrue
<1>1. IInv => ForbiddenIsTrue
  BY DEF IInv, Sound, CheckOf, ForbiddenIsTrue
<1> QED BY <1>1, Invariance, PTL

\* A logout that the auth service confirmed has revoked what it was given.
THEOREM ConfirmedLogouts == Spec => []LoggedOutHasEffect
<1>1. IInv => LoggedOutHasEffect
  BY DEF IInv, Sound, LogoutOf, Effective, LoggedOutHasEffect
<1> QED BY <1>1, Invariance, PTL

\* A refresh refused to a user who is not banned, and whose refresh token nobody
\* else sent, was refused because of an earlier attempt of its own.
THEOREM LostSessions == Spec => []LostSessionHasReason
<1>1. ASSUME IInv, NEW f \in Refreshes, status[f] = "refused", ~banned,
             \A k \in Requests \ {f} : body[k] = body[f] => body[k] = NoSession
      PROVE  \E a \in Attempts : request[f][a] = "applied"
  <2>1. f \in Requests /\ Placed(f) /\ RefreshOf(f)
    BY <1>1, Routes DEF IInv, AllPlaced, Sound
  <2>2. body[f] # NoSession
    BY <1>1, <2>1 DEF Placed
  <2>3. body[f] \in spent
    BY <1>1, <2>1 DEF RefreshOf
  <2>4. PICK k \in Refreshes \cup Logouts, a \in Attempts :
          body[k] = body[f] /\ request[k][a] = "applied"
    BY <1>1, <2>3 DEF IInv, Sound, SpentBy
  <2>5. k = f
    BY <1>1, <2>2, <2>4, Routes
  <2> QED BY <2>4, <2>5
<1>2. IInv => LostSessionHasReason
  BY <1>1 DEF LostSessionHasReason
<1> QED BY <1>2, Invariance, PTL

\* The four services make their calls as RemoteCall lets them, and the auth
\* service takes attempts as it lets it.  So what HttpClientProofs shows of the
\* clients is enough for what is proved here.
THEOREM UsesRemoteCall == Spec => RC!Spec
<1>1. Init => RC!Init
  BY DEF Init
<1>2. ASSUME [Next]_vars PROVE [RC!Next]_(RC!rcVars)
  <2>1. ASSUME UNCHANGED callVars PROVE UNCHANGED RC!rcVars
    BY <2>1 DEF callVars, RC!rcVars
  <2>2. CASE Begin
    BY <2>1, <2>2 DEF Begin, Login, Refresh, Check, Logout, Carry
  <2>3. ASSUME NEW k \in Requests, Attempt(k) \/ Granted(k) \/ Judged(k) PROVE RC!Next
    BY <2>3, CallNames DEF Attempt, Granted, Judged, RC!Next
  <2>4. ASSUME NEW k \in Requests, Unauthorized(k) \/ LoggedOut(k) PROVE RC!Next
    BY <2>4, CallNames DEF Unauthorized, LoggedOut, Unsuccessful, RC!Next
  <2>5. ASSUME NEW k \in Requests, NEW a \in Attempts,
               Issue(k, a) \/ Renew(k, a) \/ Judge(k, a) \/ Revoke(k, a) \/ Decline(k, a)
        PROVE  RC!Next
    BY <2>5, CallNames DEF Issue, Renew, Judge, Revoke, Decline, RC!Next
  <2>6. CASE Ban
    BY <2>1, <2>6 DEF Ban
  <2>7. ASSUME NEW s \in Sessions, Expire(s) PROVE UNCHANGED RC!rcVars
    BY <2>1, <2>7 DEF Expire
  <2>8. CASE UNCHANGED vars
    BY <2>1, <2>8 DEF vars, callVars
  <2> QED BY <1>2, <2>2, <2>3, <2>4, <2>5, <2>6, <2>7, <2>8 DEF Next
<1> QED BY <1>1, <1>2, PTL DEF Spec, RC!Spec
=============================================================================
