------------------------ MODULE SleepInterlockProofs ------------------------
(***************************************************************************)
(* The interlock between sleep and updates, proved: the check of the       *)
(* suspend job is not undone before the board sleeps.                      *)
(***************************************************************************)
EXTENDS SleepInterlock, TLAPS

USE DEF InstallStates, LogindStates

\* A suspend job that has passed boat-commit --may-sleep stays right: no later
\* step of the trial, the install or the askers begins what it checked for.
LEMMA CheckHoldsStep == CheckHolds /\ [Next]_vars => CheckHolds'
<1> SUFFICES ASSUME CheckHolds, [Next]_vars PROVE CheckHolds'
  OBVIOUS
<1> USE DEF CheckHolds, TypeOK, OnTrial
<1>1. CASE InhibitStarts
  BY <1>1 DEF InhibitStarts, Awake
<1>2. CASE Commits
  BY <1>2 DEF Commits, Awake
<1>3. CASE InhibitStops
  BY <1>3 DEF InhibitStops
<1>4. CASE InstallStarts
  BY <1>4 DEF InstallStarts, Awake
<1>5. CASE InstallWrites
  BY <1>5 DEF InstallWrites, InhibitGranted, Awake
<1>6. CASE InstallEnds
  BY <1>6 DEF InstallEnds
<1>7. CASE \E a \in Askers : Ask(a) \/ CheckMaySleep(a) \/ Request(a)
  <2> PICK a \in Askers : Ask(a) \/ CheckMaySleep(a) \/ Request(a)
    BY <1>7
  <2>1. CASE Ask(a)
    BY <2>1 DEF Ask
  <2>2. CASE CheckMaySleep(a)
    BY <2>2 DEF CheckMaySleep
  <2>3. CASE Request(a)
    BY <2>3 DEF Request
  <2> QED
    BY <2>1, <2>2, <2>3
<1>8. CASE ExecStartPre
  BY <1>8 DEF ExecStartPre, MaySleep
<1>9. CASE Suspend
  BY <1>9 DEF Suspend
<1>10. CASE Resume
  BY <1>10 DEF Resume
<1>11. CASE UNCHANGED vars
  BY <1>11 DEF vars
<1> QED
  BY <1>1, <1>2, <1>3, <1>4, <1>5, <1>6, <1>7, <1>8, <1>9, <1>10, <1>11 DEF Next

\* However requests, checks, locks, a trial and an install interleave, the board
\* never sleeps with the trial undecided or a slot half written.
THEOREM InterlockHolds == Spec => []NoSleepMidUpdate
<1>1. Init => CheckHolds
  BY DEF Init, CheckHolds, TypeOK, Askers, BoatSleep
<1>2. CheckHolds => NoSleepMidUpdate
  BY DEF CheckHolds, NoSleepMidUpdate, Awake
<1> QED
  BY <1>1, <1>2, CheckHoldsStep, PTL DEF Spec

=============================================================================
