\* One write, lock, load or step fails, at any moment, or the board is held; nothing
\* is lost.
CONSTANTS
  MaxFaults = 1
  MaxDamage = 0
  Ops = {"install", "rollback", "hold"}
VIEW Seen
SPECIFICATION Spec
ACTION_CONSTRAINT HoldsCleanly
INVARIANTS TypeOK TrialWatched TrialBounded ProvenWorks
PROPERTIES TrialCounted VerdictStands FailedNotRetried FallbackKept KeepsContract
