\* Two requests for one profile by any of four tokens, a quota of one, and a
\* readiness probe whose client may leave.
SPECIFICATION FairSpec
CONSTANTS
  Requests <- MCRequests
  RouteOf <- MCRouteOf
  Tokens <- MCTokens
  ParamOf <- MCParamOf
  IpOf <- MCIpOf
  PingOf <- MCPingOf
  AdminRole = "admin"
  Leavers = {"probe"}
  Limit = 1
INVARIANTS
  TypeOK
  MetricsAgree
  EntitledOnly
  HitsAreEarned
PROPERTIES
  EveryRequestAnswered
CONSTRAINT
  ProbeHitsLast
\* Every request may have been answered.
CHECK_DEADLOCK FALSE
