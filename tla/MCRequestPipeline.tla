------------------------- MODULE MCRequestPipeline -------------------------
(* RequestPipeline with two requests for one profile that share a quota,   *)
(* with any token, and a readiness probe with its ping.                    *)
EXTENDS RequestPipeline

MCRequests == {"one", "two", "probe", "ping"}

MCRouteOf ==
  [r \in MCRequests |->
    CASE r = "probe" -> "ready" [] r = "ping" -> "live" [] OTHER -> "profile"]

CONSTANT AdminRole   \* how the auth service spells it

Claims(sub, role) == [sub |-> sub, roles |-> {role}]

MCTokens ==
  {Claims("u", "USER"), Claims("v", "user"), Claims("a", AdminRole), Claims("g", "guest")}

MCParamOf == [r \in MCRequests |-> "u"]
MCIpOf == [r \in MCRequests |-> IF r = "ping" THEN "localhost" ELSE "office"]
MCPingOf == [r \in {"probe"} |-> "ping"]

\* Bound: what the probe and its ping use of their quotas does not expire.
ProbeHitsLast ==
  \A r \in {"probe", "ping"} : stage[r] \in {"route", "running"} => hits[Key(r)] = 1
=============================================================================
