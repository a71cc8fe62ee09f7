----------------------------- MODULE AuthSession -----------------------------
(***************************************************************************)
(* AuthController and AuthBusinessService over AuthServiceClient: login,   *)
(* refresh, validate-token and logout of one user, each a RemoteCall to    *)
(* the auth service, with retries and late attempts.                       *)
(*                                                                         *)
(* "JWT validation (hybrid)": JwtAuthGuard verifies an access token with   *)
(* the public key alone; what the auth service has revoked since shows     *)
(* only in its answer to validate-token.                                   *)
(*                                                                         *)
(* External: the auth service issues a pair of tokens, a session, named    *)
(* here after the attempt that got it.  A refresh may or may not spend the *)
(* refresh token it is given; a spent one is refused.  validate-token      *)
(* reports `valid' and, when a token is not, one `reason' that is true.    *)
(***************************************************************************)
EXTENDS Naturals

CONSTANTS
  Logins, Refreshes, Checks, Logouts,   \* requests to the four routes
  MaxRetries                            \* 2 in BaseHttpClient.request

Grants == Logins \cup Refreshes
Requests == Grants \cup Checks \cup Logouts

ASSUME AuthAssumption ==
  /\ Logins \cap Refreshes = {}
  /\ Checks \cap Grants = {}
  /\ Logouts \cap (Grants \cup Checks) = {}
  /\ MaxRetries \in Nat

VARIABLES
  status, request,  \* the remote calls
  pc,         \* pc[k]: "idle", "call" while its remote call is awaited, "done"
  answer,     \* answer[k]: what the client was told
  access,     \* access[k]: the session of the token in the Authorization header
  body,       \* body[k]: the session of the token in the body
  got,        \* got[k]: the session whose tokens k was answered with
  verdict,    \* verdict[k][a]: the service's reply to attempt a of a check
  issued, expired, revoked,   \* sessions, the latter two by their access tokens
  spent,      \* sessions whose refresh token is no longer good
  banned,     \* the user's account is banned
  condemned   \* history: checks whose token was revoked, or whose user was
              \* banned, before they began

callVars == <<status, request>>
serviceVars == <<verdict, issued, expired, revoked, spent, banned>>
vars == <<status, request, pc, answer, access, body, got, verdict, issued, expired,
          revoked, spent, banned, condemned>>

RC == INSTANCE RemoteCall WITH Calls <- Requests
Attempts == 0..MaxRetries

Sessions == Grants \X Attempts
NoSession == <<>>

Reasons == {"blacklisted", "token_revoked", "account_banned", "expired"}
Verdicts == Reasons \cup {"valid", "none"}

TypeOK ==
  /\ RC!TypeOK
  /\ pc \in [Requests -> {"idle", "call", "done"}]
  /\ answer \in [Requests -> {"none", "tokens", "valid", "forbidden", "unauthorized",
                              "loggedOut"}]
  /\ access \in [Requests -> Sessions \cup {NoSession}]
  /\ body \in [Requests -> Sessions \cup {NoSession}]
  /\ got \in [Requests -> Sessions \cup {NoSession}]
  /\ verdict \in [Checks -> [Attempts -> Verdicts]]
  /\ issued \subseteq Sessions
  /\ expired \subseteq issued
  /\ revoked \subseteq issued
  /\ spent \subseteq issued
  /\ banned \in BOOLEAN
  /\ condemned \subseteq Checks

Init ==
  /\ RC!Init
  /\ pc = [k \in Requests |-> "idle"]
  /\ answer = [k \in Requests |-> "none"]
  /\ access = [k \in Requests |-> NoSession]
  /\ body = [k \in Requests |-> NoSession]
  /\ got = [k \in Requests |-> NoSession]
  /\ verdict = [v \in Checks |-> [a \in Attempts |-> "none"]]
  /\ issued = {} /\ expired = {} /\ revoked = {} /\ spent = {}
  /\ banned = FALSE
  /\ condemned = {}

\* The sessions whose tokens the client has.
Held == {got[k] : k \in Grants} \ {NoSession}

\* JwtAuthGuard: signature and expiry, nothing else.
Verifies(s) == s \in Held \ expired

-----------------------------------------------------------------------------
(* Requests come in. *)

Carry(k, inHeader, inBody) ==
  /\ pc[k] = "idle"
  /\ pc' = [pc EXCEPT ![k] = "call"]
  /\ access' = [access EXCEPT ![k] = inHeader]
  /\ body' = [body EXCEPT ![k] = inBody]
  /\ UNCHANGED <<callVars, answer, got, serviceVars>>

Login(l) == Carry(l, NoSession, NoSession) /\ UNCHANGED condemned

\* Faulty forms stand before the definition they deform, here and below.
RefreshWithAccessToken(f) ==
  \E s \in Held : Carry(f, s, NoSession) /\ UNCHANGED condemned

Refresh(f) == \E s \in Held : Carry(f, NoSession, s) /\ UNCHANGED condemned

\* The token to validate is the body's; the header's is the guard's business.
Check(v) ==
  \E h, s \in Held :
    /\ Verifies(h)
    /\ Carry(v, h, s)
    /\ condemned' = IF banned \/ s \in revoked THEN condemned \cup {v} ELSE condemned

LogoutOfBody(o) ==
  \E h \in Held :
    /\ Verifies(h)
    /\ \E s \in {h, NoSession} : Carry(o, s, s)
    /\ UNCHANGED condemned

\* The body, and the refresh token in it, may be missing.
Logout(o) ==
  \E h \in Held :
    /\ Verifies(h)
    /\ \E s \in {h, NoSession} : Carry(o, h, s)
    /\ UNCHANGED condemned

Attempt(k) ==
  /\ pc[k] = "call"
  /\ \E a \in Attempts : RC!Send(k, a)
  /\ UNCHANGED <<pc, answer, access, body, got, serviceVars, condemned>>

-----------------------------------------------------------------------------
(* Remote calls are answered. *)

Answer(k, text) ==
  /\ pc[k] = "call"
  /\ pc' = [pc EXCEPT ![k] = "done"]
  /\ answer' = [answer EXCEPT ![k] = text]
  /\ UNCHANGED <<access, body, serviceVars, condemned>>

\* Also a success without data.
Unsuccessful(k) == RC!Fail(k) \/ \E a \in Attempts : RC!Refuse(k, a)

Granted(k) ==
  /\ k \in Grants
  /\ \E a \in Attempts : RC!Succeed(k, a) /\ got' = [got EXCEPT ![k] = <<k, a>>]
  /\ Answer(k, "tokens")

ReadingBlacklistOnly(reason) ==
  IF reason \in {"blacklisted", "account_banned"} THEN "forbidden" ELSE "valid"

ReadingVerbatim(reason) == reason

ReadingOfValid(reason) == IF reason = "valid" THEN "valid" ELSE "forbidden"

\* `revoked' and `banned' are made from the reason; `valid' is not looked at.
Reading(reason) ==
  IF reason \in {"blacklisted", "token_revoked", "account_banned"}
  THEN "forbidden" ELSE "valid"

Judged(v) ==
  /\ v \in Checks
  /\ \E a \in Attempts : RC!Succeed(v, a) /\ Answer(v, Reading(verdict[v][a]))
  /\ UNCHANGED got

Unauthorized(k) ==
  /\ k \in Grants \cup Checks
  /\ Unsuccessful(k)
  /\ Answer(k, "unauthorized")
  /\ UNCHANGED got

\* Whatever became of it.
LoggedOut(o) ==
  /\ o \in Logouts
  /\ Unsuccessful(o) \/ \E a \in Attempts : RC!Succeed(o, a)
  /\ Answer(o, "loggedOut")
  /\ UNCHANGED got

-----------------------------------------------------------------------------
(* The auth service; it takes any attempt that was sent, however late. *)

gatewayVars == <<pc, answer, access, body, got, condemned>>

Issue(l, a) ==
  /\ l \in Logins
  /\ ~banned
  /\ RC!Apply(l, a)
  /\ issued' = issued \cup {<<l, a>>}
  /\ UNCHANGED <<gatewayVars, verdict, expired, revoked, spent, banned>>

GoodForRefresh(s) == s \in issued \ spent /\ ~banned

Renew(f, a) ==
  /\ f \in Refreshes
  /\ GoodForRefresh(body[f])
  /\ RC!Apply(f, a)
  /\ issued' = issued \cup {<<f, a>>}
  /\ spent' \in {spent, spent \cup {body[f]}}
  /\ UNCHANGED <<gatewayVars, verdict, expired, revoked, banned>>

TrueOf(s) ==
  (IF s \in revoked THEN {"blacklisted", "token_revoked"} ELSE {})
    \cup (IF banned THEN {"account_banned"} ELSE {})
    \cup (IF s \in expired THEN {"expired"} ELSE {})

Judge(v, a) ==
  /\ v \in Checks
  /\ RC!Apply(v, a)
  /\ \E reason \in IF TrueOf(body[v]) = {} THEN {"valid"} ELSE TrueOf(body[v]) :
       verdict' = [verdict EXCEPT ![v][a] = reason]
  /\ UNCHANGED <<gatewayVars, issued, expired, revoked, spent, banned>>

Revoke(o, a) ==
  /\ o \in Logouts
  /\ RC!Apply(o, a)
  /\ revoked' = revoked \cup ({access[o]} \ {NoSession})
  /\ spent' = spent \cup ({body[o]} \ {NoSession})
  /\ UNCHANGED <<gatewayVars, verdict, issued, expired, banned>>

\* Any refusal; a refresh is refused for its token or for a ban.
Decline(k, a) ==
  /\ k \in Refreshes => ~GoodForRefresh(body[k])
  /\ RC!Decline(k, a)
  /\ UNCHANGED <<gatewayVars, serviceVars>>

Ban ==
  /\ banned' = TRUE
  /\ UNCHANGED <<callVars, gatewayVars, verdict, issued, expired, revoked, spent>>

\* Only the tokens the client has matter.
Expire(s) ==
  /\ s \in Held
  /\ expired' = expired \cup {s}
  /\ UNCHANGED <<callVars, gatewayVars, verdict, issued, revoked, spent, banned>>

-----------------------------------------------------------------------------
Begin ==
  \/ \E l \in Logins : Login(l)
  \/ \E f \in Refreshes : Refresh(f)
  \/ \E v \in Checks : Check(v)
  \/ \E o \in Logouts : Logout(o)

Next ==
  \/ Begin
  \/ \E k \in Requests :
       \/ Attempt(k)
       \/ Granted(k)
       \/ Judged(k)
       \/ Unauthorized(k)
       \/ LoggedOut(k)
       \/ \E a \in Attempts :
            Issue(k, a) \/ Renew(k, a) \/ Judge(k, a) \/ Revoke(k, a) \/ Decline(k, a)
  \/ Ban
  \/ \E s \in Sessions : Expire(s)

Spec == Init /\ [][Next]_vars

-----------------------------------------------------------------------------
(* Properties. *)

\* Revocation and bans take effect on every later check: none that begins after
\* them is answered "valid" for an unexpired token, whichever of its attempts
\* the answer comes from.
CondemnedIsNotValid ==
  \A v \in condemned : answer[v] = "valid" => body[v] \in expired

\* "Token has been revoked" and "User account is banned" are only said of a
\* token that is, or a user who is.
ForbiddenIsTrue ==
  \A v \in Checks : answer[v] = "forbidden" => banned \/ body[v] \in revoked

\* "Logged out successfully" may be untrue, but only if the auth service
\* refused or the call failed: a logout that it confirmed revoked the access
\* token the request came with, and the refresh token if it sent one.
LoggedOutHasEffect ==
  \A o \in Logouts : status[o] = "ok" =>
    access[o] \in revoked /\ (body[o] # NoSession => body[o] \in spent)

\* A client whose refresh was refused, though nobody else used its refresh
\* token and the user is not banned, lost its session to the gateway's own
\* retry: an attempt of the same request had been applied.
LostSessionHasReason ==
  \A f \in Refreshes :
    /\ status[f] = "refused"
    /\ ~banned
    /\ \A k \in Requests \ {f} : body[k] = body[f] => body[k] = NoSession
    => \E a \in Attempts : request[f][a] = "applied"

\* src/business/services/auth-business.service.ts:37, "Throws appropriate
\* exceptions if token is invalid, revoked, or user is banned": whoever is
\* answered valid: true had a valid token by the service's reply.
ValidIsValid ==
  \A v \in Checks : answer[v] = "valid" =>
    \E a \in Attempts : verdict[v][a] = "valid"

=============================================================================
