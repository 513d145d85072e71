---------------------------- MODULE StorageCases ----------------------------
(***************************************************************************)
(* The cases of test-boat-storage.py: one command on a board the test sets *)
(* up, and what it must leave; and the order of the units the test reads   *)
(* from their files.                                                       *)
(***************************************************************************)
EXTENDS Storage, FiniteSets, TLC

VARIABLE case

boat == CHOOSE u \in Users : TRUE

\* The flashed board: SWAP blank, DATA the flash's, slot A booted.
BoardDefaults ==
  [swap |-> [named |-> TRUE, holds |-> "none", on |-> FALSE],
   data |-> [named |-> TRUE, holds |-> "clean"],
   mounted |-> TRUE, seeded |-> FALSE, resizes |-> TRUE,
   board |-> [slot |-> "A", root |-> "A", named |-> TRUE]]

\* with: how the case's board differs; left: what the command leaves.
Case(cmd, with, rc, left) ==
  [cmd |-> cmd, with |-> with @@ BoardDefaults, rc |-> rc, left |-> left]

SwapIs(named, holds, on) == "swap" :> [named |-> named, holds |-> holds, on |-> on]
DataIs(named, holds) == "data" :> [named |-> named, holds |-> holds]
Booted(slot, root) == "board" :> [slot |-> slot, root |-> root, named |-> TRUE]
As == <<>>
Unmounted == "mounted" :> FALSE

SWAP_CASES ==
  {Case(Swap, As, 0, SwapIs(TRUE, "swap", TRUE)),
   Case(Swap, SwapIs(TRUE, "swap", FALSE), 0, SwapIs(TRUE, "swap", TRUE)),
   Case(Swap, SwapIs(TRUE, "swap", TRUE), 0, As),
   Case(Swap, SwapIs(TRUE, "swsuspend", FALSE), 1, As),
   Case(Swap, SwapIs(FALSE, "none", FALSE), 1, As)}

CHECK_CASES ==
  {Case(Check, Unmounted, 0, As),
   Case(Check, DataIs(TRUE, "dirty") @@ Unmounted, 0, DataIs(TRUE, "clean")),
   Case(Check, DataIs(TRUE, "damaged") @@ Unmounted, 1, As),
   Case(Check, DataIs(TRUE, "other") @@ Unmounted, 1, As),
   Case(Check, DataIs(TRUE, "none") @@ Unmounted, 1, As),
   Case(Check, DataIs(FALSE, "clean") @@ Unmounted, 1, As)}

PREPARE_CASES ==
  {Case(Prepare, As, 0, "home" :> Homed),
   Case(Prepare, "seeded" :> TRUE, 0, As),
   Case(Prepare, Unmounted, 1, As)}

\* No row for the question format-data asks: FormatData is the answer's.
Format == <<"format-data">>
FORMAT_CASES ==
  {Case(Format, As, 1, As),
   Case(Format, DataIs(FALSE, "other") @@ Unmounted, 1, As),
   Case(Format, DataIs(TRUE, "other") @@ Unmounted, 0, DataIs(TRUE, "clean"))}

GROW_CASES ==
  {Case(Grow, As, 0, "grown" :> {"DATA", "A"}),
   Case(Grow, Booted("B", "B"), 0, "grown" :> {"DATA", "B"}),
   Case(Grow, Booted("A", "B"), 0, "grown" :> {"DATA"}),
   Case(Grow, Unmounted, 0, "grown" :> {"A"}),
   Case(Grow, DataIs(FALSE, "clean") @@ ("board" :> [slot |-> "A", root |-> "A", named |-> FALSE]),
        0, As),
   Case(Grow, Booted("none", "A"), 0, "grown" :> {"DATA"}),
   Case(Grow, "resizes" :> FALSE, 1, As)}

CASES == SWAP_CASES \cup CHECK_CASES \cup PREPARE_CASES \cup FORMAT_CASES \cup GROW_CASES

\* The home a user already has on DATA.
Notes == [Homed EXCEPT !.mine = TRUE]

\* What the command has no business with, SWAP or DATA, holds anything.
Aside(c) ==
  IF c.cmd = Swap THEN {DataIs(TRUE, h) : h \in DataHolds}
  ELSE {SwapIs(TRUE, h, FALSE) : h \in SwapHolds}

CaseInit ==
  /\ \E c \in CASES : \E a \in Aside(c) : case = [c EXCEPT !.with = a @@ c.with]
  /\ swap = case.with.swap /\ data = case.with.data /\ board = case.with.board
  /\ LET mount == IF case.with.mounted THEN "done" ELSE "failed"
     IN  unit = [x \in Units |->
                   CASE x = case.cmd -> IF x = Check THEN "running" ELSE "idle"
                     [] x = Mount -> mount
                     [] OTHER -> "done"]
  /\ home = [u \in Users |-> IF case.with.seeded THEN Notes ELSE NoHome]
  /\ disk = [u \in Users |-> home[u].name]
  /\ image = Users /\ grown = {} /\ cuts = 0 /\ formats = 1

\* Board.run: the one command, with the stubs' answers.
Run ==
  /\ CASE case.cmd = Swap -> SwapOn
       [] case.cmd = Check -> CheckData
       [] case.cmd = Prepare ->
            \/ DependencyFails(Prepare) \/ Starts(Prepare) \/ PrepareEnds
            \/ SeedStarts(boat) \/ SeedCopied(boat) \/ SeedSynced(boat)
            \/ SeedRenamed(boat) \/ SeedDone(boat)
       [] case.cmd = Format -> FormatData
       [] case.cmd = Grow -> GrowFs(IF case.with.resizes THEN {} ELSE ToGrow)
  /\ UNCHANGED case

\* A refused format-data is one that is not enabled.
Ended == IF case.cmd = Format THEN formats = 0 \/ ~Formattable ELSE Settled(case.cmd)

\* A command that neither ends nor goes on is a deadlock.
CaseNext == Run \/ (Ended /\ UNCHANGED <<vars, case>>)

CaseSpec == CaseInit /\ [][CaseNext]_<<vars, case>>

-----------------------------------------------------------------------------
Left ==
  case.left @@ [swap |-> case.with.swap, data |-> case.with.data, grown |-> {},
                home |-> IF case.with.seeded THEN Notes ELSE NoHome]

Failed == IF case.cmd = Format THEN formats = 1 ELSE unit[case.cmd] = "failed"

\* ordered and wiring_chain: what starts after what, and never both ways.
Want ==
  {<<Check, Mount>>, <<Mount, Prepare>>, <<Prepare, Journal>>, <<Journal, Flush>>,
   <<Mount, Rauc>>, <<Mount, Grow>>}
  \cup ({Prepare} \X Homes) \cup (Homes \X {Sessions})

\* The units that start before x, through any number of others.
Earlier(x) ==
  LET Within[n \in 0..Cardinality(Units)] ==
        IF n = 0 THEN After(x)
        ELSE Within[n - 1] \cup UNION {After(y) : y \in Within[n - 1]}
  IN  Within[Cardinality(Units)]

\* The commands do what test-boat-storage.py expects of boat-storage, whatever
\* the disk holds, and its units start in the order the test asks for.
AsTested ==
  /\ Ended => /\ Failed <=> case.rc = 1
              /\ [swap |-> swap, data |-> data, grown |-> grown, home |-> home[boat]] = Left
  /\ \A w \in Want : w[1] \in Earlier(w[2]) /\ w[2] \notin Earlier(w[1])

=============================================================================
