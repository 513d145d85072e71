\* One user, one power cut, one step by a person.
CONSTANTS
  Users = {u1}
  Disks <- MCDisks
  MaxCuts = 1
  MaxFormats = 1
SPECIFICATION FairSpec
INVARIANT HomesWhole
PROPERTIES MineStays ForeignUntouched NotUnderALogin LoginsCome
CHECK_DEADLOCK FALSE
