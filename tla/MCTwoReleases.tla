--------------------------- MODULE MCTwoReleases ---------------------------
(***************************************************************************)
(* ABBoard as it was flashed, and some updates after: a release that       *)
(* passed its trial in each slot.  On the first, releases are installed    *)
(* and a file or a slot is lost; on the second nothing is installed, and   *)
(* something else fails as well.  The budget tells them apart: the flashed *)
(* board has all of MaxFaults and spends none of it.                       *)
(***************************************************************************)
EXTENDS ABBoard

BothCommitted(first) ==
  [order |-> first, ok |-> [s \in Slots |-> TRUE], try |-> [s \in Slots |-> 0],
   com |-> [s \in Slots |-> TRUE], retry |-> NoSlot, stay |-> FALSE]

TwoReleases ==
  /\ \E first \in Slots :
       env = BothCommitted(first) /\ bak = env /\ home = first
  /\ torn = {}
  /\ good = [s \in Slots |-> TRUE] /\ proven = good
  /\ phase = "off" /\ grub = GrubIdle
  /\ boot = NoBoot /\ mark = {} /\ stopping = FALSE
  /\ pc = Fresh /\ lock = "free"
  /\ damage = MaxDamage
  /\ tboots = [s \in Slots |-> 0] /\ condemned = {} /\ lost = 0 /\ warm = 0

LossInit == Init \/ (TwoReleases /\ faults = MaxFaults - 1)
LossSpec == LossInit /\ [][Next]_vars

\* TLC leaves out every other step.
Either == IF faults = MaxFaults THEN faults' = faults ELSE ~InstallNext

\* What is done depends on none of the history; tboots and lost are what
\* TrialBounded and RecoveryIsLast are about.
Seen == <<esp, slots, phase, grub, run, pc, lock, budget, tboots, lost, warm>>

=============================================================================
