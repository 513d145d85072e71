\* A file or a slot is lost; on the board with two releases (which has a budget of
\* one) a write, lock, load or step fails as well.
CONSTANTS
  MaxFaults = 2
  MaxDamage = 1
  Ops = {"install"}
VIEW Seen
SPECIFICATION LossSpec
ACTION_CONSTRAINT Either
INVARIANTS CommittedIsProven TrialBounded RecoveryIsLast
