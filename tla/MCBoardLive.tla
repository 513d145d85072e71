---------------------------- MODULE MCBoardLive ----------------------------
(***************************************************************************)
(* Two boards whose progress is checked: one as it was flashed, on which   *)
(* releases are installed and nothing is lost; and one with a release that *)
(* passed its trial in each slot, on which nothing is installed and a file *)
(* or a slot is lost.                                                      *)
(***************************************************************************)
EXTENDS MCTwoReleases

VARIABLE start    \* which of the two

EitherInit ==
  \/ start = "flashed" /\ Init
  \/ start = "two" /\ TwoReleases /\ faults = MaxFaults

\* A boot that got as far as the guard and then dies: the attempts it had
\* used are given back, and NVIDIA's count is not.
LateCrash == Crash /\ pc["guard"] # "start"

\* A cut during a boot that follows a lost one.
SecondCut == PowerCut /\ lost > 0

Usual == damage' = damage
Worst == ~LateCrash /\ ~SecondCut /\ ~InstallNext

LiveNext ==
  /\ Next /\ UNCHANGED start
  /\ IF start = "flashed" THEN Usual ELSE Worst

LiveSpec == EitherInit /\ [][LiveNext]_<<vars, start>> /\ Fairness

\* What is done depends on none of the history.  StaysHome is about home and the
\* boots lost in a row, up to two of them, and SecondCut about those of the board
\* with two releases; no step changes the history alone, so the board behaves from
\* any two states that look the same in the same way for ever.
SeenAlive == <<esp, slots, phase, grub, run, pc, lock, budget, warm, start, home,
               IF start = "two" \/ lost < 2 THEN lost ELSE 2>>

=============================================================================
