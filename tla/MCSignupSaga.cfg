\* Two clients sign up with one address; two attempts a call.
SPECIFICATION Spec
CONSTANTS
  Signups = {s1, s2}
  TheEmail = e
  MaxOnTheWay = 2
  MaxRetried = 2
  Emails <- OneEmail
  EmailOf <- EmailOfAll
  MaxRetries = 1
INVARIANTS
  TypeOK
  EventHasBothRecords
  CreatedHasBothRecords
  RolledBackAccountGone
  OrphanHasReason
CONSTRAINTS
  FewOnTheWay
  FewRetried
SYMMETRY Symmetry
\* Every signup may have ended.
CHECK_DEADLOCK FALSE
