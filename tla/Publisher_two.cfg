\* Violated: two machines read the same index, and the one with the higher serial is
\* the first to replace it.
CONSTANTS
  Pubs = {p1, p2}
  Machines = {m1, m2}
  Near = {m1}
  Channels = {"stable"}
  Bundles <- TwoTrees
  Clocks <- MCClocks
  MaxRuns = 2
  MaxLost = 0
SYMMETRY Alike
VIEW Seen
SPECIFICATION MCSpec
PROPERTY SerialsNeverGoBack
CHECK_DEADLOCK FALSE
