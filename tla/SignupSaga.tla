----------------------------- MODULE SignupSaga -----------------------------
(***************************************************************************)
(* SignupOrchestratorService.execute for concurrent signups: register with *)
(* the auth service, create the profile with the user service, delete the  *)
(* auth record again when that fails, publish user.created, answer.        *)
(*                                                                         *)
(* The three calls of a signup are RemoteCalls (HttpClient implements      *)
(* them), so each may be retried, and an attempt may reach its service     *)
(* after the orchestrator has moved on.  The timeout interceptor may       *)
(* answer the client 408 at any await; the handler keeps running.          *)
(*                                                                         *)
(* External: the auth service keeps one account per e-mail address and     *)
(* gives each account a fresh id, here the attempt that created it; the    *)
(* user service keeps at most one profile per user id.                     *)
(***************************************************************************)
EXTENDS Naturals

CONSTANTS
  Signups,     \* requests to POST /auth/signup
  Emails,
  EmailOf,     \* the address each of them asks for
  MaxRetries   \* 2 in BaseHttpClient.request

ASSUME SignupAssumption ==
  /\ EmailOf \in [Signups -> Emails]
  /\ MaxRetries \in Nat

VARIABLES
  status, request,  \* the remote calls
  step,       \* step[s]: the call execute() awaits, or where it is otherwise
  told,       \* told[s]: the id in the reply to s's registration
  answer,     \* answer[s]: what the client was told
  accounts,   \* accounts[e]: the id registered for e
  profiles,   \* ids that have a profile
  events      \* ids announced by user.created

serviceVars == <<accounts, profiles>>
vars == <<status, request, step, told, answer, accounts, profiles, events>>

Kinds == {"register", "profile", "rollback"}
RC == INSTANCE RemoteCall WITH Calls <- Signups \X Kinds
Attempts == 0..MaxRetries

Ids == Signups \X Attempts
NoId == <<>>

TypeOK ==
  /\ RC!TypeOK
  /\ step \in [Signups -> Kinds \cup {"idle", "failed", "done"}]
  /\ told \in [Signups -> Ids \cup {NoId}]
  /\ answer \in [Signups -> {"none", "created", "error", "timeout"}]
  /\ accounts \in [Emails -> Ids \cup {NoId}]
  /\ profiles \subseteq Ids
  /\ events \subseteq Ids

Init ==
  /\ RC!Init
  /\ step = [s \in Signups |-> "idle"]
  /\ told = [s \in Signups |-> NoId]
  /\ answer = [s \in Signups |-> "none"]
  /\ accounts = [e \in Emails |-> NoId]
  /\ profiles = {}
  /\ events = {}

Goto(s, where) == step' = [step EXCEPT ![s] = where]

\* The client hears the first answer only.
Reply(s, text) ==
  answer' = [answer EXCEPT ![s] = IF @ = "none" THEN text ELSE @]

-----------------------------------------------------------------------------
(* The orchestrator. *)

Begin(s) ==
  /\ step[s] = "idle"
  /\ Goto(s, "register")
  /\ UNCHANGED <<status, request, told, answer, serviceVars, events>>

\* The call awaited is attempted or retried.  The step that begins to await a
\* call leaves its first attempt to this action.
Attempt(s) ==
  /\ step[s] \in Kinds
  /\ \E a \in Attempts : RC!Send(<<s, step[s]>>, a)
  /\ UNCHANGED <<step, told, answer, serviceVars, events>>

\* Faulty forms stand before the definition they deform, here and below.
RegisteredWithoutId(s) ==
  /\ step[s] = "register"
  /\ \E a \in Attempts :
       /\ RC!Succeed(<<s, "register">>, a)
       /\ told' = [told EXCEPT ![s] = s]
  /\ Goto(s, "profile")
  /\ UNCHANGED <<answer, serviceVars, events>>

Registered(s) ==
  /\ step[s] = "register"
  /\ \E a \in Attempts :
       /\ RC!Succeed(<<s, "register">>, a)
       /\ told' = [told EXCEPT ![s] = <<s, a>>]
  /\ Goto(s, "profile")
  /\ UNCHANGED <<answer, serviceVars, events>>

\* Also a success without data.
Unsuccessful(c) == RC!Fail(c) \/ \E a \in Attempts : RC!Refuse(c, a)

\* No compensation: the registration is taken not to have happened.
NotRegistered(s) ==
  /\ step[s] = "register"
  /\ Unsuccessful(<<s, "register">>)
  /\ Goto(s, "failed")
  /\ Reply(s, "error")
  /\ UNCHANGED <<told, serviceVars, events>>

ProfiledUnchecked(s) ==
  /\ step[s] = "profile"
  /\ \E a \in Attempts : RC!Succeed(<<s, "profile">>, a) \/ RC!Refuse(<<s, "profile">>, a)
  /\ events' \in {events, events \cup {told[s]}}
  /\ Goto(s, "done")
  /\ Reply(s, "created")
  /\ UNCHANGED <<told, serviceVars>>

\* publish() follows without an await.  It returns FALSE when there is no
\* channel; nobody looks.
Profiled(s) ==
  /\ step[s] = "profile"
  /\ \E a \in Attempts : RC!Succeed(<<s, "profile">>, a)
  /\ events' \in {events, events \cup {told[s]}}
  /\ Goto(s, "done")
  /\ Reply(s, "created")
  /\ UNCHANGED <<told, serviceVars>>

NotProfiledNoRollback(s) ==
  /\ step[s] = "profile"
  /\ Unsuccessful(<<s, "profile">>)
  /\ Goto(s, "failed")
  /\ Reply(s, "error")
  /\ UNCHANGED <<told, serviceVars, events>>

NotProfiled(s) ==
  /\ step[s] = "profile"
  /\ Unsuccessful(<<s, "profile">>)
  /\ Goto(s, "rollback")
  /\ UNCHANGED <<told, answer, serviceVars, events>>

\* Either outcome of the rollback ends in the same exception.
RollbackAnswered(s) ==
  /\ step[s] = "rollback"
  /\ LET c == <<s, "rollback">>
     IN Unsuccessful(c) \/ \E a \in Attempts : RC!Succeed(c, a)
  /\ Goto(s, "failed")
  /\ Reply(s, "error")
  /\ UNCHANGED <<told, serviceVars, events>>

\* TimeoutInterceptor: RequestTimeoutException, while execute() is awaiting.
ClientTimeout(s) ==
  /\ step[s] \in Kinds
  /\ answer[s] = "none"
  /\ Reply(s, "timeout")
  /\ UNCHANGED <<status, request, step, told, serviceVars, events>>

-----------------------------------------------------------------------------
(* The services; each takes any attempt that was sent, however late. *)

Register(s, a) ==
  /\ RC!Apply(<<s, "register">>, a)
  /\ accounts[EmailOf[s]] = NoId
  /\ accounts' = [accounts EXCEPT ![EmailOf[s]] = <<s, a>>]
  /\ UNCHANGED <<step, told, answer, profiles, events>>

CreateProfile(s, a) ==
  /\ RC!Apply(<<s, "profile">>, a)
  /\ told[s] \notin profiles
  /\ profiles' = profiles \cup {told[s]}
  /\ UNCHANGED <<step, told, answer, accounts, events>>

DeleteAccountByEmail(s, a) ==
  /\ RC!Apply(<<s, "rollback">>, a)
  /\ accounts' = [accounts EXCEPT ![EmailOf[s]] = NoId]
  /\ UNCHANGED <<step, told, answer, profiles, events>>

DeleteAccountDeferred(s, a) ==
  /\ RC!Apply(<<s, "rollback">>, a)
  /\ accounts[EmailOf[s]] = told[s]
  /\ UNCHANGED <<step, told, answer, serviceVars, events>>

\* DELETE /v1/accounts/:id/credentials of an account that is still there.
DeleteAccount(s, a) ==
  /\ RC!Apply(<<s, "rollback">>, a)
  /\ accounts[EmailOf[s]] = told[s]
  /\ accounts' = [accounts EXCEPT ![EmailOf[s]] = NoId]
  /\ UNCHANGED <<step, told, answer, profiles, events>>

\* A conflict, an unknown id, or any other error.
Decline(s, k, a) ==
  /\ RC!Decline(<<s, k>>, a)
  /\ UNCHANGED <<step, told, answer, serviceVars, events>>

-----------------------------------------------------------------------------
Orchestrate(s) ==
  \/ Begin(s)
  \/ Attempt(s)
  \/ Registered(s)
  \/ NotRegistered(s)
  \/ Profiled(s)
  \/ NotProfiled(s)
  \/ RollbackAnswered(s)

Serve(s, a) ==
  \/ Register(s, a)
  \/ CreateProfile(s, a)
  \/ DeleteAccount(s, a)
  \/ \E k \in Kinds : Decline(s, k, a)

Next ==
  \E s \in Signups :
    \/ Orchestrate(s)
    \/ ClientTimeout(s)
    \/ \E a \in Attempts : Serve(s, a)

Spec == Init /\ [][Next]_vars

-----------------------------------------------------------------------------
(* Properties. *)

HasAccount(id) == \E e \in Emails : accounts[e] = id

\* user.created speaks the truth for ever: no late or repeated request of any
\* signup, and no compensation, takes away the account or the profile of a user
\* that consumers were told of.
EventHasBothRecords ==
  \A id \in events : id \in profiles /\ HasAccount(id)

\* The same of a client that was answered 201, whether or not the event went
\* out; in particular two clients are never both given one address.
CreatedHasBothRecords ==
  \A s \in Signups :
    answer[s] = "created" => told[s] \in profiles /\ accounts[EmailOf[s]] = told[s]

\* The compensation compensates: once the orchestrator has heard that its
\* delete succeeded, the account it was told of is gone for good.
RolledBackAccountGone ==
  \A s \in Signups : status[<<s, "rollback">>] = "ok" => ~HasAccount(told[s])

\* The orchestrator was not told of the account that attempt a made: it gave the
\* registration up, or had sent another attempt since.
Unheard(s, a) ==
  \/ status[<<s, "register">>] = "failed"
  \/ \E b \in Attempts : b > a /\ request[<<s, "register">>][b] # "unsent"

\* The only ways a signup that failed leaves an account behind, its own or that
\* of another of its attempts: the rollback was answered with a failure, or the
\* orchestrator was never told of the account.
OrphanHasReason ==
  \A s \in Signups, a \in Attempts :
    step[s] = "failed" /\ HasAccount(<<s, a>>)
      => IF told[s] = <<s, a>>
         THEN status[<<s, "rollback">>] \in {"refused", "failed"}
         ELSE Unheard(s, a)

\* docs/ARCHITECTURE.md:47, "If user-service fails after auth-service succeeds,
\* the orchestrator calls auth-service to delete the created user, preventing
\* orphan records.": once that delete has succeeded, neither an account nor a
\* profile of the created user is there.
CompensatedLeavesNoRecord ==
  \A s \in Signups :
    /\ told[s] # NoId
    /\ status[<<s, "profile">>] \in {"refused", "failed"}
    /\ status[<<s, "rollback">>] = "ok"
    => ~HasAccount(told[s]) /\ told[s] \notin profiles

=============================================================================
