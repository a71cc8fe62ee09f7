\* A login, a refresh, a check and a logout, within the bounds of the module.
SPECIFICATION Spec
CONSTANTS
  Logins = {l1}
  Refreshes = {f1}
  Checks = {v1}
  Logouts = {o1}
  MaxRetries = 1
INVARIANTS
  TypeOK
  CondemnedIsNotValid
  ForbiddenIsTrue
  LoggedOutHasEffect
  LostSessionHasReason
CONSTRAINTS
  FewRetried
  FewExpire
  FewOnTheWay
\* Every request may have been answered.
CHECK_DEADLOCK FALSE
