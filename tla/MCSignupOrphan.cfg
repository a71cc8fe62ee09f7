\* Expected to fail: see CompensatedLeavesNoRecord.
SPECIFICATION Spec
CONSTANTS
  Signups = {s1}
  TheEmail = e
  MaxOnTheWay = 2
  MaxRetried = 2
  Emails <- OneEmail
  EmailOf <- EmailOfAll
  MaxRetries = 1
INVARIANTS
  CompensatedLeavesNoRecord
CHECK_DEADLOCK FALSE
