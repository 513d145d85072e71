\* Every case of the tests; every small layout; four who ask for sleep.
SPECIFICATION PartsSpec
INVARIANTS
  LayoutAddressable LayoutNotRefusedNeedlessly AsTested NoSleepMidUpdate
