\* Two runs at a time, three in all, of one machine on two channels or of two
\* machines on one; one counter is lost.
CONSTANTS
  Pubs = {p1, p2}
  Machines = {m1, m2}
  Near = {m1}
  Channels = {"testing", "stable"}
  Bundles <- TwoTrees
  Clocks <- MCClocks
  MaxRuns = 3
  MaxLost = 1
SYMMETRY Alike
VIEW Seen
SPECIFICATION MCSpec
INVARIANTS NamedIsWhole SerialsDiffer
PROPERTIES SerialsGrowInTurn TreeChangeIsReflash
CHECK_DEADLOCK FALSE
