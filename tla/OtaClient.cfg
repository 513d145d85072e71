\* A release, its rebuild and one RAUC does not accept; a misbehaving answer, a
\* change of channels, or one trial.
CONSTANTS
  Channels = {"stable", "beta"}
  Contents <- MCContents
  Offers <- MCOffers
  MaxSerial <- Serials
  MaxRefetch = 1
  Size = 2
  MaxFaults = 1
  MaxTrials = 1
VIEW Seen
SPECIFICATION MCSpec
INVARIANTS ReadyIsWhole InstallsTheOffer
PROPERTIES NoReplay ComesIn
CHECK_DEADLOCK FALSE
