\* Two commands, skewed clocks, repeated and late delivery, one crash.
CONSTANTS
  Cmds = {c1, c2}
  Window = 2
  Delay = 1
  MaxSkew <- Edge
  MaxTime = 5
  MaxBuffer = 1
  MaxCrashes = 1
SPECIFICATION FairSpec
INVARIANT TypeOK
PROPERTIES AgainOnlyIfAhead HonouredInTime ReadsOn
