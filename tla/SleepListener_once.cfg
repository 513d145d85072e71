\* Violated: a command from a clock that is not behind the board's is honoured again
\* when its nonce is dropped.
CONSTANTS
  Cmds = {c1}
  Window = 2
  Delay = 1
  MaxSkew <- Edge
  MaxTime = 5
  MaxBuffer = 1
  MaxCrashes = 0
SPECIFICATION FairSpec
PROPERTY UsableOnce
