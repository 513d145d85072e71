\* What must happen in the end, and which slot is taken: with installs and rollbacks;
\* with two releases and a loss.
CONSTANTS
  MaxFaults = 0
  MaxDamage = 1
  Ops = {"install", "rollback"}
VIEW SeenAlive
SPECIFICATION LiveSpec
PROPERTIES TrialEnds ComesBack StaysHome
