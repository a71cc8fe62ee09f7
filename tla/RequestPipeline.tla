--------------------------- MODULE RequestPipeline ---------------------------
(***************************************************************************)
(* What every request passes on its way to a handler and back: the three   *)
(* global guards in the order CrossCuttingModule provides them, the guard  *)
(* of the route, the validation pipe, the handler under the timeout        *)
(* interceptor, the exception filter, and the metrics middleware that      *)
(* waits for the response to finish.                                       *)
(*                                                                         *)
(* Nest awaits each guard in turn, so requests interleave between guards.  *)
(* A handler is whatever the other modules model: it may return, throw, or *)
(* never settle.  The readiness probe is a handler that waits for another  *)
(* request to this same gateway, through this same pipeline.               *)
(*                                                                         *)
(* External: the throttler's storage keeps a quota of Limit hits per key,  *)
(* a handler and an address, and refuses the rest; when its hits expire,   *)
(* or the block that follows a refusal ends, is left open.                 *)
(***************************************************************************)
EXTENDS Naturals, FiniteSets

CONSTANTS
  Requests,
  RouteOf,   \* RouteOf[r]: the route r asks for
  Tokens,    \* claims of the tokens that verify
  ParamOf,   \* ParamOf[r]: the :id in its path
  IpOf,
  Leavers,   \* requests whose client may close the connection
  PingOf,    \* PingOf[r]: the request a readiness probe r makes to the gateway
  Limit      \* THROTTLE_LIMIT_UNAUTHENTICATED, 10 by default, for everyone

\* request.user is not set: no token, one that does not verify, or a public
\* route.
NoToken == [sub |-> "", roles |-> {}]

\* Routes with the same decorators are one: "login" stands for signup and
\* refresh-token too, "videos" for stream-url, validate-token and logout,
\* "profile" for GET and PUT of a user, "remove" for DELETE of a user and the
\* upload of a video, "live" for the metrics.  Status 200 stands for every
\* success, 500 for every error a handler throws.
Routes == {"login", "videos", "profile", "remove", "live", "ready"}
IsPublic(route) == route \in {"login", "live", "ready"}
RequiredRoles(route) ==
  CASE route = "profile" -> {"admin", "user"}
    [] route = "remove" -> {"admin"}
    [] OTHER -> {}
HasDto(route) == route \in {"login", "videos", "profile", "remove"}

RoleNames == {"admin", "ADMIN", "user", "USER", "guest"}
LowerCase(role) ==
  CASE role = "ADMIN" -> "admin" [] role = "USER" -> "user" [] OTHER -> role

Probes == {r \in Requests : RouteOf[r] = "ready"}

ASSUME PipelineAssumption ==
  /\ IsFiniteSet(Requests)
  /\ RouteOf \in [Requests -> Routes]
  /\ \A token \in Tokens : token.roles \subseteq RoleNames /\ token # NoToken
  /\ PingOf \in [Probes -> {r \in Requests : RouteOf[r] = "live"}]
  /\ \A r, s \in Probes : PingOf[r] = PingOf[s] => r = s
  /\ Leavers \subseteq Requests
  /\ Limit \in Nat

VARIABLES
  stage,    \* stage[r]: the guard or pipe before r, or how its handler is
  user,     \* user[r]: request.user
  answer,   \* answer[r]: the status of the response, 0 until there is one
  gone,     \* requests whose client closed the connection unanswered
  hits,     \* hits[key]: how much of its quota is used up
  total,    \* total[code]: http_requests_total
  errors    \* http_request_errors_total

vars == <<stage, user, answer, gone, hits, total, errors>>
metrics == <<total, errors>>

Codes == {200, 400, 401, 403, 408, 429, 500, 503}
Key(r) == <<RouteOf[r], IpOf[r]>>
Keys == {Key(r) : r \in Requests}

TypeOK ==
  /\ stage \in [Requests -> {"unsent", "throttle", "route", "running", "over"}]
  /\ user \in [Requests -> Tokens \cup {NoToken}]
  /\ answer \in [Requests -> Codes \cup {0}]
  /\ gone \subseteq Requests
  /\ hits \in [Keys -> 0..Limit]
  /\ total \in [Codes -> Nat]
  /\ errors \in Nat

Init ==
  /\ stage = [r \in Requests |-> "unsent"]
  /\ user = [r \in Requests |-> NoToken]
  /\ answer = [r \in Requests |-> 0]
  /\ gone = {}
  /\ hits = [k \in Keys |-> 0]
  /\ total = [code \in Codes |-> 0]
  /\ errors = 0

Goto(r, where) == stage' = [stage EXCEPT ![r] = where]

\* Faulty forms stand before the definition they deform, here and below.
CountServerErrors(code) ==
  /\ total' = [total EXCEPT ![code] = @ + 1]
  /\ errors' = IF code >= 500 THEN errors + 1 ELSE errors

\* The metrics hang on the response's "finish", which a closed connection may
\* or may not bring.
Count(code) ==
  /\ total' = [total EXCEPT ![code] = @ + 1]
  /\ errors' = IF code >= 400 THEN errors + 1 ELSE errors

RespondWithoutCheck(r, code) ==
  /\ answer' = [answer EXCEPT ![r] = code]
  /\ Count(code) \/ (r \in gone /\ UNCHANGED metrics)

\* The first response is sent, by the interceptors or by the filter.  The check
\* is RxJS's: when timeout() has fired it has unsubscribed from the handler, so
\* an outcome that comes later reaches neither of them.
Respond(r, code) ==
  IF answer[r] = 0
  THEN /\ answer' = [answer EXCEPT ![r] = code]
       /\ Count(code) \/ (r \in gone /\ UNCHANGED metrics)
  ELSE UNCHANGED <<answer, metrics>>

\* HttpExceptionFilter.
Reject(r, code) ==
  /\ Goto(r, "over")
  /\ Respond(r, code)

Pass(r, where) ==
  /\ Goto(r, where)
  /\ UNCHANGED <<answer, metrics>>

-----------------------------------------------------------------------------
(* Guards.  The middlewares and the first two guards touch nothing but their *)
(* request, and neither does what follows the throttler: each is one step.    *)

HasAnyRole(route, roles) == RequiredRoles(route) = {} \/ roles # {}

\* RolesGuard, in whatever case the token spells the role.
HasRole(route, roles) ==
  \/ RequiredRoles(route) = {}
  \/ \E x \in roles : LowerCase(x) \in RequiredRoles(route)

\* JwtAuthGuard: on a public route the token is not even looked at.
Authenticate(r) ==
  \/ IsPublic(RouteOf[r]) /\ UNCHANGED user
  \/ ~IsPublic(RouteOf[r]) /\ \E token \in Tokens : user' = [user EXCEPT ![r] = token]

\* A ping is sent by the handler of its probe.
Receive(r) ==
  /\ stage[r] = "unsent"
  /\ \A p \in Probes : PingOf[p] = r => stage[p] = "running"
  /\ \/ ~IsPublic(RouteOf[r]) /\ Reject(r, 401) /\ UNCHANGED user
     \/ /\ Authenticate(r)
        /\ \/ HasRole(RouteOf[r], user'[r].roles) /\ Pass(r, "throttle")
           \/ ~HasRole(RouteOf[r], user'[r].roles) /\ Reject(r, 403)
  /\ UNCHANGED <<gone, hits>>

\* shouldSkip compares the role as the token spells it.
Exempt(r) == "admin" \in user[r].roles

ThrottleOneTooMany(r) ==
  /\ stage[r] = "throttle"
  /\ \/ Exempt(r) /\ Pass(r, "route") /\ UNCHANGED hits
     \/ /\ ~Exempt(r)
        /\ hits[Key(r)] <= Limit
        /\ hits' = [hits EXCEPT ![Key(r)] = @ + 1]
        /\ Pass(r, "route")
     \/ /\ ~Exempt(r)
        /\ hits[Key(r)] > Limit
        /\ Reject(r, 429)
        /\ UNCHANGED hits
  /\ UNCHANGED <<user, gone>>

\* RoleThrottlerGuard.
Throttle(r) ==
  /\ stage[r] = "throttle"
  /\ \/ Exempt(r) /\ Pass(r, "route") /\ UNCHANGED hits
     \/ /\ ~Exempt(r)
        /\ hits[Key(r)] < Limit
        /\ hits' = [hits EXCEPT ![Key(r)] = @ + 1]
        /\ Pass(r, "route")
     \/ /\ ~Exempt(r)
        /\ hits[Key(r)] = Limit
        /\ Reject(r, 429)
        /\ UNCHANGED hits
  /\ UNCHANGED <<user, gone>>

IsAdmin(roles) == \E x \in roles : LowerCase(x) = "admin"

OwnsOrHasRole(r) ==
  \/ RouteOf[r] # "profile"
  \/ user[r] # NoToken /\ (user[r].roles # {} \/ user[r].sub = ParamOf[r])

\* SelfOrAdminGuard, on the routes that use it.
Owns(r) ==
  \/ RouteOf[r] # "profile"
  \/ user[r] # NoToken /\ (IsAdmin(user[r].roles) \/ user[r].sub = ParamOf[r])

-----------------------------------------------------------------------------
(* The handler. *)

\* ValidationPipe refuses the body, or the handler is called and the timer of
\* TimeoutInterceptor runs.
Invoke(r) ==
  /\ stage[r] = "route"
  /\ \/ ~Owns(r) /\ Reject(r, 403)
     \/ Owns(r) /\ HasDto(RouteOf[r]) /\ Reject(r, 400)
     \/ Owns(r) /\ Pass(r, "running")
  /\ UNCHANGED <<user, gone, hits>>

HandlerReturns(r) ==
  /\ stage[r] = "running"
  /\ r \in Probes => answer[PingOf[r]] = 200
  /\ Goto(r, "over")
  /\ Respond(r, 200)
  /\ UNCHANGED <<user, gone, hits>>

\* An HttpException or any other error; a failed ping makes a 503.
HandlerThrows(r) ==
  /\ stage[r] = "running"
  /\ Reject(r, IF r \in Probes THEN 503 ELSE 500)
  /\ UNCHANGED <<user, gone, hits>>

TimeoutOfReturned(r) ==
  /\ stage[r] = "over"
  /\ answer[r] = 0
  /\ Respond(r, 408)
  /\ UNCHANGED <<stage, user, gone, hits>>

\* RequestTimeoutException; the handler runs on.
Timeout(r) ==
  /\ stage[r] = "running"
  /\ answer[r] = 0
  /\ Respond(r, 408)
  /\ UNCHANGED <<stage, user, gone, hits>>

-----------------------------------------------------------------------------
(* Clients and time. *)

ClientCloses(r) ==
  /\ r \in Leavers
  /\ stage[r] # "unsent"
  /\ answer[r] = 0
  /\ gone' = gone \cup {r}
  /\ UNCHANGED <<stage, user, answer, hits, metrics>>

\* One by one as they age, or all at once when a block ends.
HitsExpire(k) ==
  /\ \E n \in 0..Limit : n < hits[k] /\ hits' = [hits EXCEPT ![k] = n]
  /\ UNCHANGED <<stage, user, answer, gone, metrics>>

-----------------------------------------------------------------------------
Advance(r) == Throttle(r) \/ Invoke(r)

Next ==
  \/ \E r \in Requests :
       \/ Receive(r)
       \/ Advance(r)
       \/ HandlerReturns(r)
       \/ HandlerThrows(r)
       \/ Timeout(r)
       \/ ClientCloses(r)
  \/ \E k \in Keys : HitsExpire(k)

Spec == Init /\ [][Next]_vars

\* Guards and pipe are synchronous code behind an await, and the timer fires.
\* Nothing is assumed of a handler: it may hang.
Fairness == \A r \in Requests : WF_vars(Advance(r)) /\ WF_vars(Timeout(r))

FairSpec == Spec /\ Fairness

-----------------------------------------------------------------------------
(* Properties. *)

\* The metrics add up: a response counts once under its code, only those of
\* clients that left may be missing, and the errors are those of 400 and above.
MetricsAgree ==
  /\ \A code \in Codes :
       LET answered == {r \in Requests : answer[r] = code}
       IN /\ total[code] <= Cardinality(answered)
          /\ total[code] >= Cardinality(answered \ gone)
  /\ \A code \in Codes : code >= 400 => total[code] <= errors
  /\ total[200] + errors <= Cardinality({r \in Requests : answer[r] # 0})

\* The table of routes, docs/PROJECT-GUIDE.md:191-206, with the roles the
\* controllers ask for.
MayAsk(r) ==
  CASE RouteOf[r] \in {"login", "live", "ready"} -> TRUE
    [] RouteOf[r] = "videos" -> user[r] # NoToken
    [] RouteOf[r] = "profile" -> user[r].roles \cap {"admin", "ADMIN", "user", "USER"} # {}
    [] RouteOf[r] = "remove" -> user[r].roles \cap {"admin", "ADMIN"} # {}

MayTouch(r) ==
  RouteOf[r] = "profile" =>
    user[r].sub = ParamOf[r] \/ user[r].roles \cap {"admin", "ADMIN"} # {}

\* A handler runs only for those the table names, through all the guards.
EntitledOnly == \A r \in Requests : stage[r] = "running" => MayAsk(r) /\ MayTouch(r)

\* The quota of a route and address is spent only by requests that the table
\* lets ask and that are not exempt: any number of requests that the first two
\* guards refuse leaves the users behind the same address their quota.
HitsAreEarned ==
  \A k \in Keys :
    hits[k] <= Cardinality({r \in Requests : Key(r) = k /\ MayAsk(r) /\ ~Exempt(r)
                                            /\ stage[r] \notin {"unsent", "throttle"}})

\* Every request received is answered, even if its handler never settles, and
\* even a readiness probe whose own ping fails or hangs.
EveryRequestAnswered ==
  \A r \in Requests : stage[r] # "unsent" ~> answer[r] # 0

\* src/cross-cutting/rate-limiting/role-throttler.guard.ts:18, "Skip rate
\* limiting for admins": whom RolesGuard takes for an admin is never answered
\* 429.
AdminsUnlimited ==
  \A r \in Requests : IsAdmin(user[r].roles) => answer[r] # 429

=============================================================================
