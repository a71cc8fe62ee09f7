----------------------------- MODULE Bootstrap -----------------------------
(***************************************************************************)
(* How the gateway comes to its configuration: the import of tracing.ts,   *)
(* ConfigModule.forRoot with the Joi schema, the factory of app.config.ts, *)
(* and bootstrap() up to listen().                                         *)
(*                                                                         *)
(* A variable is read three times, by three readers: tracing.ts takes it   *)
(* from process.env before the .env file is loaded; Joi converts it; and   *)
(* the factory parses the text in process.env, where the file's variables  *)
(* and the schema's defaults arrive after validation only.                 *)
(*                                                                         *)
(* External: forRoot lets process.env take precedence over the file, and   *)
(* assigns the validated values of the variables that process.env lacks.   *)
(*                                                                         *)
(* Init, Next and Spec are BootInit, BootNext and BootSpec here, so that   *)
(* the life of the process, Lifecycle, can be extended along with it.      *)
(***************************************************************************)
EXTENDS Integers

CONSTANTS
  Numerals,  \* texts of numbers: records of the digits before the point, the
             \* one behind it, an exponent, and whether something follows
  Words      \* values of strings, see Values

ASSUME BootstrapAssumption ==
  /\ Numerals \subseteq [int : Nat, frac : 0..9, exp : Nat, junk : BOOLEAN]
  /\ Words \subseteq {"fit", "other", "unfit", "empty"} /\ "fit" \in Words

VARIABLES
  shell,      \* the environment the process is started with: given variables only
  file,       \* the .env file, likewise
  env,        \* process.env
  tracing,    \* the endpoint that the Jaeger exporter was given
  validated,  \* what Joi made of the variables
  config,     \* the namespace "app"
  stage

bootVars == <<shell, file, env, tracing, validated, config, stage>>

NumberDefault ==
  [ PORT |-> 3000, REDIS_PORT |-> 6379,
    THROTTLE_TTL_SECONDS |-> 60, THROTTLE_LIMIT_UNAUTHENTICATED |-> 10,
    THROTTLE_LIMIT_AUTHENTICATED |-> 60, THROTTLE_LIMIT_ADMIN |-> 200,
    CIRCUIT_BREAKER_TIMEOUT |-> 5000, CIRCUIT_BREAKER_ERROR_THRESHOLD |-> 50,
    CIRCUIT_BREAKER_RESET_TIMEOUT |-> 30000,
    REQUEST_TIMEOUT |-> 10000, CACHE_TTL_SECONDS |-> 300 ]

Numbers == DOMAIN NumberDefault
Services == {"AUTH_SERVICE_URL", "USER_SERVICE_URL", "VIDEO_SERVICE_URL"}
Required == Services \cup {"JWT_PUBLIC_KEY", "RABBITMQ_URL", "INTERNAL_API_KEY"}
Optional == {"NODE_ENV", "REDIS_HOST", "JAEGER_ENDPOINT"}
Keys == Numbers \cup Required \cup Optional

\* A public key as PEM, as PEM in one line, and base64 of either.
KeyForms == {"pem", "escaped", "base64", "base64OfEscaped", "empty"}

\* "unfit" is no URI and no environment's name; "default" is the schema's.
Values(k) ==
  CASE k \in Numbers -> Numerals
    [] k = "JWT_PUBLIC_KEY" -> KeyForms
    [] OTHER -> Words

\* At most one value is out of the ordinary: variables do not interact.
Ordinary == [k \in Required |-> IF k = "JWT_PUBLIC_KEY" THEN "pem" ELSE "fit"]

\* What first says, and second of the rest.
Over(first, second) ==
  [k \in DOMAIN first \cup DOMAIN second |->
    IF k \in DOMAIN first THEN first[k] ELSE second[k]]

Given(values, k, choice) ==
  Over(choice, [j \in DOMAIN values \ {k} |-> values[j]])

BootInit ==
  /\ \E k \in Keys, home \in {"shell", "file"} :
       LET Choices == {<<>>} \cup [{k} -> Values(k)]
           Of(place) == IF place = home THEN Ordinary ELSE <<>>
       IN \E s \in Choices, f \in Choices :
            /\ shell = Given(Of("shell"), k, s)
            /\ file = Given(Of("file"), k, f)
  /\ env = shell
  /\ tracing = "none"
  /\ validated = <<>>
  /\ config = <<>>
  /\ stage = "import"

-----------------------------------------------------------------------------
(* Readers of a text. *)

Tenths(text) == (text.int * 10 + text.frac) * 10 ^ text.exp

\* String() of a number: no exponent in this range.
TextOf(tenths) == [int |-> tenths \div 10, frac |-> tenths % 10, exp |-> 0, junk |-> FALSE]

\* Joi takes the number that the whole text denotes, or refuses.
Accepted(k, v) ==
  CASE k \in Numbers -> ~v.junk
    [] k \in Services \cup {"NODE_ENV", "JAEGER_ENDPOINT"} -> v \in {"fit", "other"}
    [] OTHER -> v # "empty"

\* parseInt stops at the first character that is no digit.
ParseInt(text) == text.int

DecodeKeyUnescaping(raw) == IF raw = "escaped" THEN "pem" ELSE raw

\* Without a PEM header it is taken for base64.
DecodeKey(raw) ==
  CASE raw \in {"pem", "escaped", "base64"} -> "pem"
    [] raw = "base64OfEscaped" -> "escaped"
    [] OTHER -> raw

Read(k, v) ==
  CASE k \in Numbers -> ParseInt(v)
    [] k = "JWT_PUBLIC_KEY" -> DecodeKey(v)
    [] OTHER -> v

-----------------------------------------------------------------------------
EndpointIn(variables) ==
  IF "JAEGER_ENDPOINT" \in DOMAIN variables THEN variables["JAEGER_ENDPOINT"] ELSE "default"

ImportTracingWithFile ==
  /\ stage = "import"
  /\ tracing' = EndpointIn(Over(file, env))
  /\ stage' = "validate"
  /\ UNCHANGED <<shell, file, env, validated, config>>

\* The first import of main.ts.
ImportTracing ==
  /\ stage = "import"
  /\ tracing' = EndpointIn(env)
  /\ stage' = "validate"
  /\ UNCHANGED <<shell, file, env, validated, config>>

MergedFileFirst == Over(file, env)

Merged == Over(env, file)

Valid(given) ==
  /\ Required \subseteq DOMAIN given
  /\ \A k \in DOMAIN given : Accepted(k, given[k])

Refuse ==
  /\ stage = "validate"
  /\ ~Valid(Merged)
  /\ stage' = "refused"
  /\ UNCHANGED <<shell, file, env, tracing, validated, config>>

Converted(given) ==
  [k \in Keys |->
    CASE k \in Numbers ->
           IF k \in DOMAIN given THEN Tenths(given[k]) ELSE NumberDefault[k] * 10
      [] OTHER -> IF k \in DOMAIN given THEN given[k] ELSE "default"]

AssignNothing(values) == UNCHANGED env

\* The validated values, as texts again.
Assign(values) ==
  env' = Over(env, [k \in Keys |-> IF k \in Numbers THEN TextOf(values[k]) ELSE values[k]])

Validate ==
  /\ stage = "validate"
  /\ Valid(Merged)
  /\ validated' = Converted(Merged)
  /\ Assign(validated')
  /\ stage' = "configure"
  /\ UNCHANGED <<shell, file, tracing, config>>

\* The factory, with its own fallbacks for what is not there.
Configure ==
  /\ stage = "configure"
  /\ config' = [k \in Keys |->
       CASE k \in DOMAIN env -> Read(k, env[k])
         [] k \in Numbers \ DOMAIN env -> NumberDefault[k]
         [] OTHER -> IF k \in Required THEN "empty" ELSE "default"]
  /\ stage' = "listen"
  /\ UNCHANGED <<shell, file, env, tracing, validated>>

Ports == 0..65535

\* listen() throws on what is no port, and nobody catches that.
OpenPort ==
  /\ stage = "listen"
  /\ stage' = IF config["PORT"] \in Ports THEN "up" ELSE "crashed"
  /\ UNCHANGED <<shell, file, env, tracing, validated, config>>

BootNext == ImportTracing \/ Refuse \/ Validate \/ Configure \/ OpenPort

BootSpec == BootInit /\ [][BootNext]_bootVars

-----------------------------------------------------------------------------
(* Properties. *)

BootTypeOK ==
  /\ stage \in {"import", "validate", "refused", "configure", "listen", "up", "crashed"}
  /\ \A variables \in {shell, file, env} :
       /\ DOMAIN variables \subseteq Keys
       /\ \A k \in DOMAIN variables \cap Numbers : ParseInt(variables[k]) \in Nat
  /\ tracing \in {"none", "default"} \cup Words
  /\ tracing = "none" <=> stage = "import"
  /\ config # <<>> => \A k \in Numbers : config[k] \in Nat

\* The gateway runs with the numbers that were validated, in whichever of the
\* three places they were given, but for two edges: a fraction is cut off, and
\* an exponent in the environment is lost (1e4 milliseconds are one).
NumbersAsValidated ==
  config # <<>> => \A k \in Numbers :
    \/ config[k] = validated[k] \div 10
    \/ k \in DOMAIN shell /\ shell[k].exp > 0

\* A variable that was given, validly, is what the gateway uses: neither a
\* default nor the value of the other place; and the key verifies tokens in
\* each of the forms that app.config.ts promises to support.
WordsAsGiven ==
  stage = "up" =>
    /\ \A k \in (Required \cup Optional) \ {"JWT_PUBLIC_KEY"} :
         config[k] = IF k \in DOMAIN shell THEN shell[k]
                     ELSE IF k \in DOMAIN file THEN file[k] ELSE "default"
    /\ config["JWT_PUBLIC_KEY"] # "pem" =>
         \E given \in {shell, file} :
           "JWT_PUBLIC_KEY" \in DOMAIN given /\ given["JWT_PUBLIC_KEY"] = "base64OfEscaped"

\* The two together, for what a reviewer of the three readers would ask: the
\* gateway runs with what it was given.
ConfigAsGiven == NumbersAsValidated /\ WordsAsGiven

\* The exporter sends to the configured endpoint, unless that is in the .env
\* file alone, which tracing.ts is too early to see.
TracesGoAstrayOnlyByFile ==
  stage = "up" /\ tracing # config["JAEGER_ENDPOINT"] =>
    "JAEGER_ENDPOINT" \in DOMAIN file \ DOMAIN shell

=============================================================================
