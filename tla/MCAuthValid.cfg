\* Expected to fail: see ValidIsValid.
SPECIFICATION Spec
CONSTANTS
  Logins = {l1}
  Refreshes = {}
  Checks = {v1}
  Logouts = {o1}
  MaxRetries = 1
INVARIANTS
  ValidIsValid
CHECK_DEADLOCK FALSE
