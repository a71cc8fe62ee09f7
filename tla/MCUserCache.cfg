\* A read, an update and a delete of one profile, two attempts a write.
SPECIFICATION FairSpec
CONSTANTS
  Readers = {r1}
  Updaters = {u1}
  Deleters = {d1}
  CacheTtl = 300
  MaxRetries = 1
INVARIANTS
  TypeOK
  StaleHasReason
PROPERTIES
  StaleIsTemporary
  DeletedIsForgotten
  ImplementsCachedRecord
\* Every request may have ended.
CHECK_DEADLOCK FALSE
