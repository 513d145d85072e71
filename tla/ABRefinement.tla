---------------------------- MODULE ABRefinement ----------------------------
(***************************************************************************)
(* The board of ABBoard keeps the contract of SlotContract: whatever       *)
(* writes, locks and loads fail, and wherever the power goes, as long as   *)
(* no file or slot is lost; and the contract of a board that loses things  *)
(* through every loss that leaves a copy of grubenv to go by.              *)
(***************************************************************************)
EXTENDS ABBoard

\* What runs, as the kernel command line says it.
Running ==
  IF phase = "up"
    THEN [slot |-> boot.slot,
          as |-> IF boot.trial THEN "trial" ELSE IF boot.last THEN "last" ELSE "usual"]
    ELSE [slot |-> "none", as |-> "off"]

Contract == INSTANCE SlotContract WITH works <- good, running <- Running

\* Every step of GRUB, the guard, boat-commit, an install, a rollback and the
\* power is a step of the contract or changes nothing in it.
KeepsContract == Contract!Spec

\* The same of a board that has files torn and slots lost: to the contract a
\* torn file is nothing, and a lost slot one that no longer works.
KeepsContractThroughLosses == Contract!LossySpec

\* A board that is held, by boat-slot, on a slot.
Held == env.stay \/ bak.stay \/ boot.stay \/ pc["inst"] = "holdbak"

\* TLC leaves out every other step: a held board is one on which nothing fails.
HoldsCleanly == Held \/ Held' => faults' = MaxFaults

\* What is done with the ESP and the slots depends on none of the history;
\* tboots and condemned are what TrialBounded and FailedNotRetried are about.
Seen == <<esp, slots, phase, grub, run, pc, lock, budget, tboots, condemned, warm>>

=============================================================================
