\* Two concurrent calls of two attempts each, with the default timeouts.
SPECIFICATION FairSpec
CONSTANTS
  Calls = {c1, c2}
  MaxRetries = 1
  ErrorThreshold = 50
  Buckets = 1
  EarlyReset = FALSE
INVARIANTS
  TypeOK
  HalfOpenHasTrial
  OneTrialAtATime
PROPERTIES
  ClosedByTrial
  ImplementsRemoteCall
  EveryCallAnswered
\* Every call may have been answered.
CHECK_DEADLOCK FALSE
