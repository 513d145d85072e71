\* Two pauses of checks, sleeps the gate notices and sleeps it does not.
CONSTANTS
  Deadline = 2
  Limit = 5
  Margin = 2
  CheckTimeout = 2
  Kill = 1
  Noticed = 1
  Sleeps = {1, 3}
  MaxSleeps = 4
SPECIFICATION Spec
INVARIANTS  NotFailedEarly PassedIsSound
PROPERTY Decides
CHECK_DEADLOCK FALSE
