\* Expected to fail: see AdminsUnlimited.  The auth service spells roles in
\* upper case (src/cross-cutting/guards/roles.guard.ts:21).
SPECIFICATION Spec
CONSTANTS
  Requests <- MCRequests
  RouteOf <- MCRouteOf
  Tokens <- MCTokens
  ParamOf <- MCParamOf
  IpOf <- MCIpOf
  PingOf <- MCPingOf
  AdminRole = "ADMIN"
  Leavers = {}
  Limit = 1
INVARIANTS
  AdminsUnlimited
CHECK_DEADLOCK FALSE
