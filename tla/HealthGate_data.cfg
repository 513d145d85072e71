\* Violated: DATA settles between the checks that need it and the question.
CONSTANTS
  Deadline = 2
  Limit = 5
  Margin = 2
  CheckTimeout = 2
  Kill = 1
  Noticed = 1
  Sleeps = {1}
  MaxSleeps = 0
SPECIFICATION Spec
INVARIANT DecidedWithData
CHECK_DEADLOCK FALSE
