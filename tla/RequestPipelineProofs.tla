------------------------ MODULE RequestPipelineProofs ------------------------
(* Theorems about RequestPipeline, for any finite set of requests, any routes, *)
(* tokens, addresses and pings, and any quota.                                 *)
EXTENDS RequestPipeline, FiniteSetTheorems, TLAPS

USE DEF PipelineAssumption

(***************************************************************************)
(* What the pieces of an action do, pointwise.                             *)
(***************************************************************************)
Stages == {"unsent", "throttle", "route", "running", "over"}

LEMMA GotoEffect ==
  ASSUME TypeOK, NEW r \in Requests, NEW x \in Stages, Goto(r, x)
  PROVE  /\ stage' \in [Requests -> Stages]
         /\ stage'[r] = x
         /\ \A q \in Requests : q # r => stage'[q] = stage[q]
BY DEF TypeOK, Goto, Stages

\* A response that is counted, or that a client who left does not get counted.
Counted(code) ==
  /\ total'[code] = total[code] + 1
  /\ \A c \in Codes : c # code => total'[c] = total[c]
  /\ errors' = IF code >= 400 THEN errors + 1 ELSE errors

Responded(r, code) ==
  /\ answer[r] = 0
  /\ answer'[r] = code
  /\ \A q \in Requests : q # r => answer'[q] = answer[q]
  /\ Counted(code) \/ (r \in gone /\ UNCHANGED <<total, errors>>)

LEMMA RespondEffect ==
  ASSUME TypeOK, NEW r \in Requests, NEW code \in Codes, Respond(r, code)
  PROVE  /\ answer' \in [Requests -> Codes \cup {0}]
         /\ total' \in [Codes -> Nat] /\ errors' \in Nat
         /\ Responded(r, code) \/ (answer[r] # 0 /\ UNCHANGED <<answer, total, errors>>)
<1>1. CASE answer[r] # 0
  BY <1>1 DEF Respond, TypeOK, metrics
<1>2. CASE answer[r] = 0
  <2>1. /\ answer' = [answer EXCEPT ![r] = code]
        /\ Count(code) \/ (r \in gone /\ UNCHANGED <<total, errors>>)
    BY <1>2 DEF Respond, metrics
  <2>2. /\ answer' \in [Requests -> Codes \cup {0}]
        /\ answer'[r] = code
        /\ \A q \in Requests : q # r => answer'[q] = answer[q]
    BY <2>1 DEF TypeOK
  <2>3. CASE Count(code)
    <3>1. total' \in [Codes -> Nat] /\ errors' \in Nat
      BY <2>3 DEF Count, TypeOK, Codes
    <3>2. Counted(code)
      BY <2>3 DEF Count, Counted, TypeOK
    <3> QED BY <1>2, <2>2, <3>1, <3>2 DEF Responded
  <2>4. CASE r \in gone /\ UNCHANGED <<total, errors>>
    BY <1>2, <2>2, <2>4 DEF Responded, TypeOK
  <2> QED BY <2>1, <2>3, <2>4
<1> QED BY <1>1, <1>2

\* A step of request r: its stage, and what it may have been answered.
Stepped(r, x) ==
  /\ stage'[r] = x
  /\ \A q \in Requests : q # r => stage'[q] = stage[q]

Quiet == UNCHANGED <<answer, total, errors>>

LEMMA RejectEffect ==
  ASSUME TypeOK, NEW r \in Requests, NEW code \in Codes, Reject(r, code)
  PROVE  /\ Stepped(r, "over") /\ stage' \in [Requests -> Stages]
         /\ answer' \in [Requests -> Codes \cup {0}]
         /\ total' \in [Codes -> Nat] /\ errors' \in Nat
         /\ Responded(r, code) \/ (answer[r] # 0 /\ Quiet)
BY GotoEffect, RespondEffect DEF Reject, Stepped, Quiet, Stages

LEMMA PassEffect ==
  ASSUME TypeOK, NEW r \in Requests, NEW x \in Stages, Pass(r, x)
  PROVE  /\ Stepped(r, x) /\ stage' \in [Requests -> Stages] /\ Quiet
         /\ answer' \in [Requests -> Codes \cup {0}]
         /\ total' \in [Codes -> Nat] /\ errors' \in Nat
BY GotoEffect DEF Pass, Stepped, Quiet, TypeOK, metrics

\* The codes used are codes.
LEMMA CodesUsed == {200, 400, 401, 403, 408, 429, 500, 503} = Codes /\ 0 \notin Codes
BY DEF Codes

LEMMA KeyType == \A r \in Requests : Key(r) \in Keys
BY DEF Keys

(***************************************************************************)
(* What each action does to all but the metrics; whom it answers.          *)
(***************************************************************************)

\* The response of a step, if it has one, is that of the request it advances.
Answers(r) == Quiet \/ \E code \in Codes : Responded(r, code)

Typed ==
  /\ stage' \in [Requests -> Stages]
  /\ answer' \in [Requests -> Codes \cup {0}]
  /\ total' \in [Codes -> Nat] /\ errors' \in Nat

LEMMA RejectAnswers ==
  ASSUME TypeOK, NEW r \in Requests, NEW code \in Codes, Reject(r, code)
  PROVE  Typed /\ Stepped(r, "over") /\ Answers(r)
BY RejectEffect DEF Typed, Answers, Responded

LEMMA PassAnswers ==
  ASSUME TypeOK, NEW r \in Requests, NEW x \in Stages, Pass(r, x)
  PROVE  Typed /\ Stepped(r, x) /\ Answers(r)
BY PassEffect DEF Typed, Answers

\* Who a request is by the time a guard asks.
Identified(r) == IF IsPublic(RouteOf[r]) THEN TRUE ELSE user[r] \in Tokens

LEMMA AuthenticateEffect ==
  ASSUME TypeOK, NEW r \in Requests, Authenticate(r)
  PROVE  /\ user' \in [Requests -> Tokens \cup {NoToken}]
         /\ \A q \in Requests : q # r => user'[q] = user[q]
         /\ Identified(r)'
BY DEF TypeOK, Authenticate, Identified

LEMMA ReceiveEffect ==
  ASSUME TypeOK, NEW r \in Requests, Receive(r)
  PROVE  /\ Typed /\ Answers(r)
         /\ stage[r] = "unsent"
         /\ user' \in [Requests -> Tokens \cup {NoToken}]
         /\ \A q \in Requests : q # r => user'[q] = user[q]
         /\ UNCHANGED <<gone, hits>>
         /\ \/ Stepped(r, "over")
            \/ Stepped(r, "throttle") /\ Identified(r)' /\ HasRole(RouteOf[r], user'[r].roles)
<1>1. stage[r] = "unsent" /\ UNCHANGED <<gone, hits>>
  BY DEF Receive
<1>2. CASE Reject(r, 401) /\ UNCHANGED user
  BY <1>1, <1>2, RejectAnswers, CodesUsed DEF TypeOK
<1>3. CASE Authenticate(r) /\ HasRole(RouteOf[r], user'[r].roles) /\ Pass(r, "throttle")
  BY <1>1, <1>3, PassAnswers, AuthenticateEffect DEF Stages
<1>4. CASE Authenticate(r) /\ Reject(r, 403)
  BY <1>1, <1>4, RejectAnswers, AuthenticateEffect, CodesUsed
<1> QED BY <1>2, <1>3, <1>4 DEF Receive

LEMMA ThrottleEffect ==
  ASSUME TypeOK, NEW r \in Requests, Throttle(r)
  PROVE  /\ Typed /\ Answers(r)
         /\ stage[r] = "throttle"
         /\ hits' \in [Keys -> 0..Limit]
         /\ UNCHANGED <<user, gone>>
         /\ \/ Stepped(r, "over") /\ UNCHANGED hits
            \/ Stepped(r, "route") /\ UNCHANGED hits
            \/ /\ Stepped(r, "route") /\ ~Exempt(r)
               /\ hits'[Key(r)] = hits[Key(r)] + 1
               /\ \A k \in Keys : k # Key(r) => hits'[k] = hits[k]
<1>1. stage[r] = "throttle" /\ UNCHANGED <<user, gone>>
  BY DEF Throttle
<1>2. CASE Pass(r, "route") /\ UNCHANGED hits
  BY <1>1, <1>2, PassAnswers DEF TypeOK, Stages
<1>3. CASE /\ ~Exempt(r) /\ hits[Key(r)] < Limit
           /\ hits' = [hits EXCEPT ![Key(r)] = @ + 1]
           /\ Pass(r, "route")
  <2>1. hits[Key(r)] + 1 \in 0..Limit
    BY <1>3, KeyType, PipelineAssumption DEF TypeOK
  <2>2. /\ hits' \in [Keys -> 0..Limit]
        /\ hits'[Key(r)] = hits[Key(r)] + 1
        /\ \A k \in Keys : k # Key(r) => hits'[k] = hits[k]
    BY <1>3, <2>1, KeyType DEF TypeOK
  <2> QED BY <1>1, <1>3, <2>2, PassAnswers DEF Stages
<1>4. CASE Reject(r, 429) /\ UNCHANGED hits
  BY <1>1, <1>4, RejectAnswers, CodesUsed DEF TypeOK
<1> QED BY <1>2, <1>3, <1>4 DEF Throttle

LEMMA InvokeEffect ==
  ASSUME TypeOK, NEW r \in Requests, Invoke(r)
  PROVE  /\ Typed /\ Answers(r)
         /\ stage[r] = "route"
         /\ UNCHANGED <<user, gone, hits>>
         /\ Stepped(r, "over") \/ (Stepped(r, "running") /\ Owns(r))
<1>1. stage[r] = "route" /\ UNCHANGED <<user, gone, hits>>
  BY DEF Invoke
<1>2. CASE Reject(r, 403) \/ Reject(r, 400)
  BY <1>1, <1>2, RejectAnswers, CodesUsed
<1>3. CASE Owns(r) /\ Pass(r, "running")
  BY <1>1, <1>3, PassAnswers DEF Stages
<1> QED BY <1>2, <1>3 DEF Invoke

LEMMA SettleEffect ==
  ASSUME TypeOK, NEW r \in Requests, HandlerReturns(r) \/ HandlerThrows(r)
  PROVE  /\ Typed /\ Answers(r)
         /\ stage[r] = "running" /\ Stepped(r, "over")
         /\ UNCHANGED <<user, gone, hits>>
<1>1. CASE HandlerReturns(r)
  <2>1. Reject(r, 200)
    BY <1>1 DEF HandlerReturns, Reject
  <2> QED BY <1>1, <2>1, RejectAnswers, CodesUsed DEF HandlerReturns
<1>2. CASE HandlerThrows(r)
  <2>1. Reject(r, 503) \/ Reject(r, 500)
    BY <1>2 DEF HandlerThrows
  <2> QED BY <1>2, <2>1, RejectAnswers, CodesUsed DEF HandlerThrows
<1> QED BY <1>1, <1>2

LEMMA TimeoutEffect ==
  ASSUME TypeOK, NEW r \in Requests, Timeout(r)
  PROVE  Typed /\ Answers(r) /\ UNCHANGED <<stage, user, gone, hits>>
<1>1. Respond(r, 408) /\ UNCHANGED <<stage, user, gone, hits>>
  BY DEF Timeout
<1> QED BY <1>1, RespondEffect, CodesUsed DEF Typed, Answers, Quiet, TypeOK, Stages, Responded

LEMMA ClientClosesEffect ==
  ASSUME TypeOK, NEW r \in Requests, ClientCloses(r)
  PROVE  /\ Typed /\ Quiet /\ gone' = gone \cup {r} /\ answer[r] = 0
         /\ UNCHANGED <<stage, user, hits>>
BY DEF ClientCloses, Typed, Quiet, TypeOK, Stages, metrics

LEMMA HitsExpireEffect ==
  ASSUME TypeOK, NEW k \in Keys, HitsExpire(k)
  PROVE  /\ Typed /\ Quiet /\ UNCHANGED <<stage, user, gone>>
         /\ hits' \in [Keys -> 0..Limit]
         /\ \A j \in Keys : hits'[j] <= hits[j]
<1>1. PICK n \in 0..Limit : n < hits[k] /\ hits' = [hits EXCEPT ![k] = n]
  BY DEF HitsExpire
<1>2. hits' \in [Keys -> 0..Limit] /\ \A j \in Keys : hits'[j] <= hits[j]
  BY <1>1, PipelineAssumption DEF TypeOK
<1> QED BY <1>2 DEF HitsExpire, Typed, Quiet, TypeOK, Stages, metrics

LEMMA StepCases ==
  ASSUME [Next]_vars
  PROVE  \/ \E r \in Requests :
              \/ Receive(r) \/ Throttle(r) \/ Invoke(r)
              \/ HandlerReturns(r) \/ HandlerThrows(r)
              \/ Timeout(r) \/ ClientCloses(r)
         \/ \E k \in Keys : HitsExpire(k)
         \/ UNCHANGED vars
BY DEF Next, Advance

\* Every step keeps the types.
LEMMA TypeStep == TypeOK /\ [Next]_vars => TypeOK'
<1> SUFFICES ASSUME TypeOK, [Next]_vars PROVE TypeOK'
  OBVIOUS
<1>1. ASSUME Typed, user' \in [Requests -> Tokens \cup {NoToken}], gone' \subseteq Requests,
             hits' \in [Keys -> 0..Limit]
      PROVE  TypeOK'
  BY <1>1 DEF Typed, TypeOK, Stages
<1>2. ASSUME NEW r \in Requests, Receive(r) \/ Throttle(r) PROVE TypeOK'
  BY <1>1, <1>2, ReceiveEffect, ThrottleEffect DEF TypeOK
<1>3. ASSUME NEW r \in Requests,
             Invoke(r) \/ HandlerReturns(r) \/ HandlerThrows(r) \/ Timeout(r) \/ ClientCloses(r)
      PROVE  TypeOK'
  BY <1>1, <1>3, InvokeEffect, SettleEffect, TimeoutEffect, ClientClosesEffect DEF TypeOK
<1>4. ASSUME NEW k \in Keys, HitsExpire(k) PROVE TypeOK'
  BY <1>1, <1>4, HitsExpireEffect DEF TypeOK
<1>5. CASE UNCHANGED vars
  BY <1>5 DEF vars, TypeOK
<1> QED BY <1>2, <1>3, <1>4, <1>5, StepCases

\* The types hold at first.
LEMMA TypeInit == Init => TypeOK
BY PipelineAssumption DEF Init, TypeOK

\* The variables keep their types; in particular no quota is ever exceeded.
THEOREM TypeCorrect == Spec => []TypeOK
BY TypeInit, TypeStep, PTL DEF Spec

(***************************************************************************)
(* The metrics.                                                            *)
(***************************************************************************)
Got(code) == {r \in Requests : answer[r] = code}
GotAny == {r \in Requests : answer[r] # 0}

MetricsSound ==
  /\ \A code \in Codes :
       /\ total[code] <= Cardinality(Got(code))
       /\ total[code] >= Cardinality(Got(code) \ gone)
  /\ \A code \in Codes : code >= 400 => total[code] <= errors
  /\ total[200] + errors <= Cardinality(GotAny)

\* Sets of requests can be counted, and one more is one more.
LEMMA RequestsCount ==
  ASSUME NEW S \in SUBSET Requests
  PROVE  /\ IsFiniteSet(S) /\ Cardinality(S) \in Nat
         /\ \A T \in SUBSET S : Cardinality(T) <= Cardinality(S)
         /\ \A r \in Requests \ S : Cardinality(S \cup {r}) = Cardinality(S) + 1
<1>1. IsFiniteSet(S)
  BY PipelineAssumption, FS_Subset
<1> QED BY <1>1, FS_Subset, FS_CardinalityType, FS_AddElement

\* A step that answers nobody keeps the metrics, also when a client leaves.
LEMMA QuietMetrics ==
  ASSUME TypeOK, MetricsSound, Quiet, gone \subseteq gone'
  PROVE  MetricsSound'
<1>1. \A code \in Codes :
        /\ Got(code)' = Got(code) /\ Got(code) \in SUBSET Requests
        /\ Cardinality(Got(code)' \ gone') <= Cardinality(Got(code) \ gone)
        /\ Cardinality(Got(code)' \ gone') \in Nat /\ Cardinality(Got(code) \ gone) \in Nat
  <2> TAKE code \in Codes
  <2>1. Got(code)' = Got(code) /\ Got(code) \in SUBSET Requests
    BY DEF Got, Quiet
  <2>2. Got(code) \ gone \in SUBSET Requests /\ Got(code) \ gone' \in SUBSET (Got(code) \ gone)
    BY <2>1
  <2> QED BY <2>1, <2>2, RequestsCount
<1>2. GotAny' = GotAny /\ total' = total /\ errors' = errors
  BY DEF GotAny, Quiet
<1>3. ASSUME NEW code \in Codes
      PROVE  /\ total'[code] <= Cardinality(Got(code)')
             /\ total'[code] >= Cardinality(Got(code)' \ gone')
             /\ code >= 400 => total'[code] <= errors'
  <2>1. /\ total[code] <= Cardinality(Got(code))
        /\ total[code] >= Cardinality(Got(code) \ gone)
        /\ code >= 400 => total[code] <= errors
        /\ total[code] \in Nat
    BY DEF MetricsSound, TypeOK
  <2> QED BY <1>1, <1>2, <2>1
<1>4. total'[200] + errors' <= Cardinality(GotAny')
  BY <1>2 DEF MetricsSound
<1> QED BY <1>3, <1>4 DEF MetricsSound

\* A response adds to its code, and to the errors if it is one.
LEMMA RespondedMetrics ==
  ASSUME TypeOK, MetricsSound, NEW r \in Requests, NEW code \in Codes, Responded(r, code),
         UNCHANGED gone
  PROVE  MetricsSound'
<1>1. answer[r] = 0 /\ answer'[r] = code /\ code # 0
      /\ \A q \in Requests : q # r => answer'[q] = answer[q]
  BY CodesUsed DEF Responded
<1>2. Got(code)' = Got(code) \cup {r} /\ r \notin Got(code) /\ Got(code) \in SUBSET Requests
  BY <1>1 DEF Got
<1>3. \A c \in Codes : c # code => Got(c)' = Got(c)
  BY <1>1, CodesUsed DEF Got
<1>4. GotAny' = GotAny \cup {r} /\ r \notin GotAny /\ GotAny \in SUBSET Requests
  BY <1>1 DEF GotAny
<1>5. /\ Cardinality(Got(code)') = Cardinality(Got(code)) + 1
      /\ Cardinality(GotAny') = Cardinality(GotAny) + 1
      /\ Cardinality(Got(code)) \in Nat /\ Cardinality(GotAny) \in Nat
  BY <1>2, <1>4, RequestsCount
<1>6. /\ r \notin gone => Cardinality(Got(code)' \ gone) = Cardinality(Got(code) \ gone) + 1
      /\ r \in gone => Got(code)' \ gone = Got(code) \ gone
      /\ Cardinality(Got(code) \ gone) \in Nat
  <2>1. Got(code) \ gone \in SUBSET Requests /\ r \notin Got(code) \ gone
    BY <1>2
  <2>2. r \notin gone => Got(code)' \ gone = (Got(code) \ gone) \cup {r}
    BY <1>2
  <2>3. r \in gone => Got(code)' \ gone = Got(code) \ gone
    BY <1>2
  <2> QED BY <2>1, <2>2, <2>3, RequestsCount
<1>7. /\ \A c \in Codes : total[c] \in Nat
      /\ errors \in Nat /\ 200 \in Codes
      /\ \A c \in Codes : c \in Nat /\ (c # 200 => c >= 400)
  BY DEF TypeOK, Codes
<1>8. CASE Counted(code)
  <2>1. /\ total'[code] = total[code] + 1
        /\ \A c \in Codes : c # code => total'[c] = total[c]
        /\ errors' = IF code >= 400 THEN errors + 1 ELSE errors
    BY <1>8 DEF Counted
  <2>2. /\ total'[code] <= Cardinality(Got(code)')
        /\ total'[code] >= Cardinality(Got(code)' \ gone')
    BY <1>5, <1>6, <1>7, <2>1 DEF MetricsSound
  <2>3. \A c \in Codes : c # code =>
          /\ total'[c] <= Cardinality(Got(c)')
          /\ total'[c] >= Cardinality(Got(c)' \ gone')
    BY <1>3, <2>1 DEF MetricsSound
  <2>4. \A c \in Codes : c >= 400 => total'[c] <= errors'
    BY <1>7, <2>1 DEF MetricsSound
  <2>5. total'[200] + errors' <= Cardinality(GotAny')
    <3>1. total[200] + errors <= Cardinality(GotAny)
      BY DEF MetricsSound
    <3>2. CASE code = 200
      BY <1>5, <1>7, <2>1, <3>1, <3>2
    <3>3. CASE code # 200
      BY <1>5, <1>7, <2>1, <3>1, <3>3
    <3> QED BY <3>2, <3>3
  <2> QED BY <2>2, <2>3, <2>4, <2>5 DEF MetricsSound
<1>9. CASE r \in gone /\ UNCHANGED <<total, errors>>
  <2>1. \A c \in Codes :
          /\ total'[c] <= Cardinality(Got(c)')
          /\ total'[c] >= Cardinality(Got(c)' \ gone')
    BY <1>3, <1>5, <1>6, <1>7, <1>9 DEF MetricsSound
  <2>2. total'[200] + errors' <= Cardinality(GotAny')
    BY <1>5, <1>7, <1>9 DEF MetricsSound
  <2> QED BY <1>9, <2>1, <2>2 DEF MetricsSound
<1> QED BY <1>8, <1>9 DEF Responded

\* Every step answers one request at most, and counts it once.
LEMMA MetricsStep == TypeOK /\ MetricsSound /\ [Next]_vars => MetricsSound'
<1> SUFFICES ASSUME TypeOK, MetricsSound, [Next]_vars PROVE MetricsSound'
  OBVIOUS
<1>1. ASSUME NEW r \in Requests, Answers(r), UNCHANGED gone PROVE MetricsSound'
  BY <1>1, QuietMetrics, RespondedMetrics DEF Answers
<1>2. ASSUME NEW r \in Requests,
             \/ Receive(r) \/ Throttle(r) \/ Invoke(r)
             \/ HandlerReturns(r) \/ HandlerThrows(r) \/ Timeout(r)
      PROVE  MetricsSound'
  BY <1>1, <1>2, ReceiveEffect, ThrottleEffect, InvokeEffect, SettleEffect, TimeoutEffect
<1>3. ASSUME NEW r \in Requests, ClientCloses(r) PROVE MetricsSound'
  BY <1>3, QuietMetrics, ClientClosesEffect
<1>4. ASSUME NEW k \in Keys, HitsExpire(k) PROVE MetricsSound'
  BY <1>4, QuietMetrics, HitsExpireEffect
<1>5. CASE UNCHANGED vars
  BY <1>5, QuietMetrics DEF vars, Quiet
<1> QED BY <1>2, <1>3, <1>4, <1>5, StepCases

\* At first nobody is answered and nothing is counted.
LEMMA MetricsInit == Init => MetricsSound
<1> SUFFICES ASSUME Init PROVE MetricsSound
  OBVIOUS
<1>1. \A code \in Codes : Got(code) = {} /\ total[code] = 0
  BY CodesUsed DEF Init, Got
<1>2. GotAny = {} /\ errors = 0 /\ total[200] = 0
  BY CodesUsed DEF Init, GotAny
<1>3. Cardinality({}) = 0
  BY FS_EmptySet
<1> QED BY <1>1, <1>2, <1>3 DEF MetricsSound

\* The counters agree with the responses, whatever leaves, hangs or is late.
THEOREM MetricsAreRight == Spec => []MetricsAgree
<1>1. MetricsSound => MetricsAgree
  BY DEF MetricsSound, MetricsAgree, Got, GotAny
<1> QED BY <1>1, MetricsInit, MetricsStep, TypeInit, TypeStep, PTL DEF Spec

(***************************************************************************)
(* Who gets to a handler.                                                  *)
(***************************************************************************)

\* What the role guard lets through, in the table's words.
LEMMA RolesAsked ==
  ASSUME NEW roles \in SUBSET RoleNames
  PROVE  /\ HasRole("profile", roles) => roles \cap {"admin", "ADMIN", "user", "USER"} # {}
         /\ HasRole("remove", roles) => roles \cap {"admin", "ADMIN"} # {}
         /\ IsAdmin(roles) => roles \cap {"admin", "ADMIN"} # {}
<1>1. /\ RequiredRoles("profile") = {"admin", "user"}
      /\ RequiredRoles("remove") = {"admin"}
  BY DEF RequiredRoles
<1>2. \A x \in RoleNames :
        /\ LowerCase(x) = "admin" => x \in {"admin", "ADMIN"}
        /\ LowerCase(x) = "user" => x \in {"user", "USER"}
  BY DEF RoleNames, LowerCase
<1> QED BY <1>1, <1>2 DEF HasRole, IsAdmin

\* The roles of whoever asks are names of roles.
LEMMA RolesOf ==
  ASSUME NEW token \in Tokens \cup {NoToken}
  PROVE  token.roles \in SUBSET RoleNames
<1>1. CASE token = NoToken
  BY <1>1 DEF NoToken
<1>2. CASE token \in Tokens
  BY <1>2, PipelineAssumption
<1> QED BY <1>1, <1>2

\* Whoever the first two guards let through may ask.
LEMMA GuardsAsk ==
  ASSUME NEW r \in Requests, user' \in [Requests -> Tokens \cup {NoToken}],
         Identified(r)', HasRole(RouteOf[r], user'[r].roles)
  PROVE  MayAsk(r)'
<1>1. user'[r] \in Tokens \cup {NoToken} /\ user'[r].roles \in SUBSET RoleNames
  BY RolesOf
<1>2. RouteOf[r] \in Routes
  BY PipelineAssumption
<1>3. CASE RouteOf[r] \in {"login", "live", "ready"}
  BY <1>3 DEF MayAsk
<1>4. CASE RouteOf[r] = "videos"
  <2>1. user'[r] # NoToken
    BY <1>4, PipelineAssumption DEF Identified, IsPublic
  <2> QED BY <1>4, <2>1 DEF MayAsk
<1>5. CASE RouteOf[r] = "profile"
  <2>1. user'[r].roles \cap {"admin", "ADMIN", "user", "USER"} # {}
    BY <1>1, <1>5, RolesAsked
  <2> QED BY <1>5, <2>1 DEF MayAsk
<1>6. CASE RouteOf[r] = "remove"
  <2>1. user'[r].roles \cap {"admin", "ADMIN"} # {}
    BY <1>1, <1>6, RolesAsked
  <2> QED BY <1>6, <2>1 DEF MayAsk
<1> QED BY <1>2, <1>3, <1>4, <1>5, <1>6 DEF Routes

\* Whoever the route's own guard lets through may touch the profile.
LEMMA GuardTouches ==
  ASSUME TypeOK, NEW r \in Requests, Owns(r)
  PROVE  MayTouch(r)
BY RolesOf, RolesAsked DEF Owns, MayTouch, TypeOK

\* Both depend on who asks, and on nothing else that changes.
LEMMA SameUser ==
  ASSUME NEW r \in Requests, user'[r] = user[r]
  PROVE  /\ MayAsk(r)' <=> MayAsk(r)
         /\ MayTouch(r)' <=> MayTouch(r)
         /\ Exempt(r)' <=> Exempt(r)
BY DEF MayAsk, MayTouch, Exempt

Admitted(r) ==
  /\ stage[r] \in {"throttle", "route", "running"} => MayAsk(r)
  /\ stage[r] = "running" => MayTouch(r)

AllAdmitted == \A r \in Requests : Admitted(r)

\* A step of one request leaves the others admitted.
LEMMA OthersAdmitted ==
  ASSUME NEW r \in Requests, Admitted(r), user'[r] = user[r], stage'[r] = stage[r]
  PROVE  Admitted(r)'
BY SameUser DEF Admitted

\* Every step that advances a request has the guard that admits it.
LEMMA AdmittedStep == TypeOK /\ AllAdmitted /\ [Next]_vars => AllAdmitted'
<1> SUFFICES ASSUME TypeOK, [Next]_vars, NEW q \in Requests, Admitted(q) PROVE Admitted(q)'
  BY DEF AllAdmitted
<1>1. ASSUME NEW r \in Requests, Receive(r) PROVE Admitted(q)'
  <2>1. CASE q # r
    BY <1>1, <2>1, ReceiveEffect, OthersAdmitted DEF Stepped
  <2>2. CASE q = r /\ Stepped(r, "over")
    BY <2>2 DEF Stepped, Admitted
  <2>3. CASE q = r /\ Stepped(r, "throttle") /\ Identified(r)' /\ HasRole(RouteOf[r], user'[r].roles)
    <3>1. MayAsk(r)'
      BY <1>1, <2>3, ReceiveEffect, GuardsAsk
    <3> QED BY <2>3, <3>1 DEF Stepped, Admitted
  <2> QED BY <1>1, <2>1, <2>2, <2>3, ReceiveEffect
<1>2. ASSUME NEW r \in Requests, Throttle(r) PROVE Admitted(q)'
  <2>1. stage[r] = "throttle" /\ UNCHANGED user /\ (Stepped(r, "over") \/ Stepped(r, "route"))
    BY <1>2, ThrottleEffect
  <2>2. CASE q # r
    BY <2>1, <2>2, OthersAdmitted DEF Stepped
  <2>3. CASE q = r
    BY <2>1, <2>3, SameUser DEF Stepped, Admitted
  <2> QED BY <2>2, <2>3
<1>3. ASSUME NEW r \in Requests, Invoke(r) PROVE Admitted(q)'
  <2>1. /\ stage[r] = "route" /\ UNCHANGED user
        /\ Stepped(r, "over") \/ (Stepped(r, "running") /\ MayTouch(r))
    BY <1>3, InvokeEffect, GuardTouches
  <2>2. CASE q # r
    BY <2>1, <2>2, OthersAdmitted DEF Stepped
  <2>3. CASE q = r
    BY <2>1, <2>3, SameUser DEF Stepped, Admitted
  <2> QED BY <2>2, <2>3
<1>4. ASSUME NEW r \in Requests, HandlerReturns(r) \/ HandlerThrows(r) PROVE Admitted(q)'
  <2>1. UNCHANGED user /\ Stepped(r, "over")
    BY <1>4, SettleEffect
  <2>2. CASE q # r
    BY <2>1, <2>2, OthersAdmitted DEF Stepped
  <2>3. CASE q = r
    BY <2>1, <2>3 DEF Stepped, Admitted
  <2> QED BY <2>2, <2>3
<1>5. ASSUME UNCHANGED <<stage, user>> PROVE Admitted(q)'
  BY <1>5, OthersAdmitted
<1>6. ASSUME NEW r \in Requests, Timeout(r) \/ ClientCloses(r) PROVE Admitted(q)'
  BY <1>5, <1>6, TimeoutEffect, ClientClosesEffect
<1>7. ASSUME NEW k \in Keys, HitsExpire(k) PROVE Admitted(q)'
  BY <1>5, <1>7, HitsExpireEffect
<1>8. CASE UNCHANGED vars
  BY <1>5, <1>8 DEF vars
<1> QED BY <1>1, <1>2, <1>3, <1>4, <1>6, <1>7, <1>8, StepCases

\* At first nobody is admitted anywhere.
LEMMA AdmittedInit == Init => AllAdmitted
BY DEF Init, AllAdmitted, Admitted

\* A handler runs only for those the table of routes names: the guards are
\* passed in order, by the same user, with nothing in between that forgets it.
THEOREM OnlyEntitled == Spec => []EntitledOnly
<1>1. AllAdmitted => EntitledOnly
  BY DEF AllAdmitted, Admitted, EntitledOnly
<1> QED BY <1>1, AdmittedInit, AdmittedStep, TypeInit, TypeStep, PTL DEF Spec

(***************************************************************************)
(* The quotas.                                                             *)
(***************************************************************************)
Spent(k) ==
  {r \in Requests : Key(r) = k /\ MayAsk(r) /\ ~Exempt(r) /\ stage[r] \notin {"unsent", "throttle"}}

\* Who has passed the throttler has passed it for good.
LEMMA SpentGrows ==
  ASSUME NEW k, \A r \in Requests : stage[r] # "unsent" => user'[r] = user[r],
         \A r \in Requests : stage[r] \notin {"unsent", "throttle"} =>
                               stage'[r] \notin {"unsent", "throttle"}
  PROVE  Spent(k) \in SUBSET (Spent(k)')
BY SameUser DEF Spent

\* The quotas after a step, if none was used up further.
LEMMA NoneSpent ==
  ASSUME HitsAreEarned, TypeOK, hits' \in [Keys -> 0..Limit], \A k \in Keys : hits'[k] <= hits[k],
         \A r \in Requests : stage[r] # "unsent" => user'[r] = user[r],
         \A r \in Requests : stage[r] \notin {"unsent", "throttle"} =>
                               stage'[r] \notin {"unsent", "throttle"}
  PROVE  HitsAreEarned'
<1> SUFFICES ASSUME NEW k \in Keys PROVE hits'[k] <= Cardinality(Spent(k)')
  BY DEF HitsAreEarned, Spent, Keys, Key
<1>1. Spent(k) \in SUBSET (Spent(k)')
  BY SpentGrows
<1>2. Spent(k)' \in SUBSET Requests
  BY DEF Spent
<1>3. /\ Cardinality(Spent(k)) <= Cardinality(Spent(k)')
      /\ Cardinality(Spent(k)) \in Nat /\ Cardinality(Spent(k)') \in Nat
  BY <1>1, <1>2, RequestsCount
<1>4. hits[k] <= Cardinality(Spent(k)) /\ hits[k] \in Nat /\ hits'[k] \in Nat
  BY PipelineAssumption DEF HitsAreEarned, Spent, TypeOK
<1> QED BY <1>3, <1>4

\* A hit is that of a request which was admitted and is not exempt, and which
\* has not used the quota before.
LEMMA EarnedStep ==
  TypeOK /\ AllAdmitted /\ HitsAreEarned /\ [Next]_vars => HitsAreEarned'
<1> SUFFICES ASSUME TypeOK, \A r \in Requests : Admitted(r), HitsAreEarned, [Next]_vars
             PROVE  HitsAreEarned'
  BY DEF AllAdmitted
<1>0. \A k \in Keys : hits[k] \in Nat
  BY PipelineAssumption DEF TypeOK
<1>1. ASSUME NEW r \in Requests, Receive(r) PROVE HitsAreEarned'
  <2>1. stage[r] = "unsent" /\ UNCHANGED hits
    BY <1>1, ReceiveEffect
  <2>2. \A q \in Requests : q # r => user'[q] = user[q] /\ stage'[q] = stage[q]
    BY <1>1, ReceiveEffect DEF Stepped
  <2> QED BY <1>0, <2>1, <2>2, NoneSpent DEF TypeOK
<1>2. ASSUME NEW r \in Requests, Throttle(r) PROVE HitsAreEarned'
  <2>1. /\ stage[r] = "throttle" /\ UNCHANGED user /\ hits' \in [Keys -> 0..Limit]
        /\ stage'[r] \in {"over", "route"}
        /\ \A q \in Requests : q # r => stage'[q] = stage[q]
    BY <1>2, ThrottleEffect DEF Stepped
  <2>2. CASE UNCHANGED hits
    BY <1>0, <2>1, <2>2, NoneSpent
  <2>3. CASE /\ ~Exempt(r) /\ hits'[Key(r)] = hits[Key(r)] + 1
             /\ \A k \in Keys : k # Key(r) => hits'[k] = hits[k]
    <3> SUFFICES ASSUME NEW k \in Keys PROVE hits'[k] <= Cardinality(Spent(k)')
      BY DEF HitsAreEarned, Spent, Keys, Key
    <3>1. Spent(k) \in SUBSET (Spent(k)') /\ Spent(k)' \in SUBSET Requests
      <4>1. Spent(k) \in SUBSET (Spent(k)')
        BY <2>1, SpentGrows
      <4> QED BY <4>1 DEF Spent
    <3>2. /\ Cardinality(Spent(k)) <= Cardinality(Spent(k)')
          /\ Cardinality(Spent(k)) \in Nat /\ Cardinality(Spent(k)') \in Nat
      BY <3>1, RequestsCount
    <3>3. hits[k] <= Cardinality(Spent(k)) /\ hits[k] \in Nat
      BY <1>0 DEF HitsAreEarned, Spent
    <3>4. CASE k # Key(r)
      BY <2>3, <3>2, <3>3, <3>4
    <3>5. CASE k = Key(r)
      <4>1. r \notin Spent(k) /\ r \in Spent(k)'
        <5>1. MayAsk(r)' /\ ~Exempt(r)'
          BY <2>1, <2>3, SameUser DEF Admitted
        <5> QED BY <2>1, <3>5, <5>1 DEF Spent, Key
      <4>2. Spent(k) \cup {r} \in SUBSET (Spent(k)') /\ Spent(k) \in SUBSET Requests
        BY <3>1, <4>1
      <4>3. Cardinality(Spent(k)) + 1 <= Cardinality(Spent(k)')
        BY <3>1, <4>1, <4>2, RequestsCount
      <4> QED BY <2>3, <3>2, <3>3, <3>5, <4>3
    <3> QED BY <3>4, <3>5
  <2> QED BY <1>2, <2>2, <2>3, ThrottleEffect
<1>3. ASSUME NEW r \in Requests, Invoke(r) \/ HandlerReturns(r) \/ HandlerThrows(r)
      PROVE  HitsAreEarned'
  <2>1. UNCHANGED <<user, hits>>
    BY <1>3, InvokeEffect, SettleEffect
  <2>2. /\ stage'[r] \in {"over", "running"}
        /\ \A q \in Requests : q # r => stage'[q] = stage[q]
    BY <1>3, InvokeEffect, SettleEffect DEF Stepped
  <2> QED BY <1>0, <2>1, <2>2, NoneSpent DEF TypeOK
<1>4. ASSUME UNCHANGED <<stage, user, hits>> PROVE HitsAreEarned'
  BY <1>0, <1>4, NoneSpent DEF TypeOK
<1>5. ASSUME NEW r \in Requests, Timeout(r) \/ ClientCloses(r) PROVE HitsAreEarned'
  BY <1>4, <1>5, TimeoutEffect, ClientClosesEffect
<1>6. ASSUME NEW k \in Keys, HitsExpire(k) PROVE HitsAreEarned'
  BY <1>6, HitsExpireEffect, NoneSpent
<1>7. CASE UNCHANGED vars
  BY <1>4, <1>7 DEF vars
<1> QED BY <1>1, <1>2, <1>3, <1>5, <1>6, <1>7, StepCases

\* At first no quota is used.
LEMMA EarnedInit == Init => HitsAreEarned
<1> SUFFICES ASSUME Init, NEW k \in Keys PROVE hits[k] <= Cardinality(Spent(k))
  BY DEF HitsAreEarned, Spent
<1>1. hits[k] = 0
  BY DEF Init
<1>2. Cardinality(Spent(k)) \in Nat
  <2>1. Spent(k) \in SUBSET Requests
    BY DEF Spent
  <2> QED BY <2>1, RequestsCount
<1> QED BY <1>1, <1>2

\* Requests that the first guards refuse spend nobody's quota.
THEOREM QuotasAreEarned == Spec => []HitsAreEarned
BY EarnedInit, EarnedStep, AdmittedInit, AdmittedStep, TypeInit, TypeStep, PTL DEF Spec
=============================================================================
