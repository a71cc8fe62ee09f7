\* A listing and an upload, five attempts between them, all timeouts at their
\* defaults.
SPECIFICATION Spec
CONSTANTS
  listing = listing  upload = upload
  Calls = {listing, upload}
  Op <- OpOf
  CallTimeout = 5
  RequestTimeout = 10
  MaxRetries = 2
  ErrorThreshold = 50
  Buckets = 1
  EarlyReset = FALSE
CONSTRAINT FewAttempts
INVARIANTS
  AnswerHasReason
PROPERTIES
  LateSendIsLast
\* Every request may have been answered.
CHECK_DEADLOCK FALSE
