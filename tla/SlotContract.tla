---------------------------- MODULE SlotContract ----------------------------
(***************************************************************************)
(* What the A/B boot chain promises, without grubenv, its copy, attempts,  *)
(* locks, marks or processes: two slots, what is known of their releases,  *)
(* and which of them runs and why.  ABRefinement shows that the board      *)
(* keeps it.                                                               *)
(***************************************************************************)
VARIABLES
  works,    \* slot -> its release loads, comes up and is healthy
  proven,   \* slot -> what is in it was flashed, or has passed a trial
  running   \* nothing, or a slot, and how it came to run

vars == <<works, proven, running>>

Slots == {"A", "B"}
Other(s) == IF s = "A" THEN "B" ELSE "A"
Nothing == [slot |-> "none", as |-> "off"]

\* The flash: a release in A.
Flashed == [s \in Slots |-> s = "A"]

Init == works = Flashed /\ proven = Flashed /\ running = Nothing

-----------------------------------------------------------------------------
\* A boot as usual is of a proven release, one of anything else is a trial or
\* the last resort.
Boot(s, as) ==
  /\ running = Nothing
  /\ as = "usual" => proven[s]
  /\ running' = [slot |-> s, as |-> as]
  /\ UNCHANGED <<works, proven>>

\* A trial proves the release it runs, and only one that works.
Prove ==
  /\ running.as = "trial" /\ works[running.slot]
  /\ proven' = [proven EXCEPT ![running.slot] = TRUE]
  /\ UNCHANGED <<works, running>>

\* An install writes the slot that does not run, and only while a proven
\* release runs - or a last resort, when there is nothing to go by.
Overwrite ==
  /\ running # Nothing
  /\ proven[running.slot] \/ running.as = "last"
  /\ works' = [works EXCEPT ![Other(running.slot)] = FALSE]
  /\ proven' = [proven EXCEPT ![Other(running.slot)] = FALSE]
  /\ UNCHANGED running

\* What it brings is not proven, whatever it is.
Written ==
  /\ running # Nothing
  /\ ~proven[Other(running.slot)]
  /\ \E h \in BOOLEAN : works' = [works EXCEPT ![Other(running.slot)] = h]
  /\ UNCHANGED <<proven, running>>

\* The boot ends.
Stop ==
  /\ running' = Nothing
  /\ UNCHANGED <<works, proven>>

Reflash ==
  /\ running = Nothing
  /\ works' = Flashed /\ proven' = Flashed
  /\ UNCHANGED running

Next ==
  \/ \E s \in Slots, as \in {"usual", "trial", "last"} : Boot(s, as)
  \/ Prove \/ Overwrite \/ Written \/ Stop \/ Reflash

Spec == Init /\ [][Next]_vars

\* The contract of a board that may lose things: beside that, a slot goes bad
\* while nothing runs, with whatever is known of it.
Lose ==
  /\ running = Nothing
  /\ \E s \in Slots : works' = [works EXCEPT ![s] = FALSE]
  /\ UNCHANGED <<proven, running>>

LossySpec == Init /\ [][Next \/ Lose]_vars

=============================================================================
