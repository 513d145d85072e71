--------------------------- MODULE GrubScenarios ---------------------------
(***************************************************************************)
(* The scenarios scripts/test-grub-ab.py runs the real GRUB through, put   *)
(* to the model of grub.cfg: from the same grubenv, on an ESP and slots    *)
(* that fail the same way, Grub's own actions must try the same slots,     *)
(* start the same one with the same flags and leave the same grubenv.      *)
(* Left out are the scenarios about what the model has no place for: an    *)
(* ORDER that names no slot, $root without a partition, a grub.cfg that is *)
(* missing or cut off.                                                     *)
(***************************************************************************)
EXTENDS Grub
LOCAL INSTANCE SequencesExt

VARIABLES
  sc,     \* the scenario
  tried   \* the kernel loads so far, in order (BOAT-LINUX lines)

(***************************************************************************)
(* grubenv, a slot's keys as <<OK, TRY, COMMITTED>>.  A TRY that is neither*)
(* 0 nor 1 reads as 2, and so does garbage.                                *)
(***************************************************************************)
Flag(n) == n = 1
Grubenv(order, a, b) ==
  LET key(k) == [s \in Slots |-> IF s = "A" THEN a[k] ELSE b[k]]
  IN  [order |-> order, ok |-> [s \in Slots |-> Flag(key(1)[s])], try |-> key(2),
       com |-> [s \in Slots |-> Flag(key(3)[s])], retry |-> NoSlot, stay |-> FALSE]
Staying(e) == [e EXCEPT !.stay = TRUE]

\* What a scenario sets up: fails, the slots that do not load; ro, an ESP
\* that refuses writes.  loads and result are what it expects.
Scenario(e, loads, result) ==
  [env |-> e, bak |-> Flashed, torn |-> {"bak"}, fails |-> {}, ro |-> FALSE,
   loads |-> loads, result |-> result]

\* The slot started is the last one tried, with these flags; the file is
\* left as it was, or becomes that.
Boots(flags, after)  == [boot |-> TRUE, flags |-> flags, after |-> after]
Resets(after)        == [boot |-> FALSE, flags |-> {}, after |-> after]
ReadOnly(s)          == [s EXCEPT !.ro = TRUE]
Failing(s, S)        == [s EXCEPT !.fails = S]
\* A torn, empty or missing grubenv, and what grubenv.bak holds.
Torn(s)              == [s EXCEPT !.torn = {"env", "bak"}]
TornWith(s, b)       == [s EXCEPT !.torn = {"env"}, !.bak = b]

-----------------------------------------------------------------------------
Up1 == <<1, 0, 1>>       \* usable, no attempt used, committed
New == <<1, 0, 0>>       \* usable, no attempt used, on trial
Off == <<0, 0, 0>>       \* empty

\* Attempts: counted, limited, and what happens when they are used up.
Attempts ==
  { Scenario(Grubenv("A", Up1, Off), <<"A">>, Boots({}, Grubenv("A", <<1, 1, 1>>, Off))),
    Scenario(Grubenv("A", <<1, 1, 1>>, Off), <<"A">>, Boots({}, Grubenv("A", <<1, 2, 1>>, Off))),
    Scenario(Grubenv("A", <<1, 2, 1>>, Off), <<"A">>,
             Boots({"last"}, Grubenv("A", <<0, 2, 1>>, Off))),
    Scenario(Grubenv("B", Up1, New), <<"B">>, Boots({"trial"}, Grubenv("B", Up1, <<1, 1, 0>>))),
    Scenario(Grubenv("B", Up1, <<1, 1, 0>>), <<"A">>,
             Boots({}, Grubenv("B", <<1, 1, 1>>, <<0, 1, 0>>))),
    Scenario(Grubenv("B", Up1, <<1, 1, 1>>), <<"B">>,
             Boots({}, Grubenv("B", Up1, <<1, 2, 1>>))),
    Scenario(Grubenv("B", Up1, <<1, 2, 1>>), <<"A">>,
             Boots({}, Grubenv("B", <<1, 1, 1>>, <<0, 2, 1>>))),
    Scenario(Grubenv("A", <<1, 1, 0>>, Up1), <<"B">>,
             Boots({}, Grubenv("A", <<0, 1, 0>>, <<1, 1, 1>>))) }

\* BOAT_STAY reaches the kernel.
Stays ==
  { Scenario(Staying(Grubenv("A", Up1, Off)), <<"A">>,
             Boots({"stay"}, Staying(Grubenv("A", <<1, 1, 1>>, Off)))),
    Scenario(Staying(Grubenv("B", Up1, New)), <<"B">>,
             Boots({"trial", "stay"}, Staying(Grubenv("B", Up1, <<1, 1, 0>>)))) }

\* A kernel or initrd that does not load, or a boot that comes back.
LoadFailures ==
  { Failing(Scenario(Grubenv("B", Up1, New), <<"B">>,
                     Resets(Grubenv("B", Up1, <<0, 1, 0>>))), Slots),
    Failing(Scenario(Grubenv("A", Up1, Off), <<"A">>,
                     Resets(Grubenv("A", <<0, 1, 1>>, Off))), Slots) }

\* The same with the slots swapped: every second update goes into A.
Mirrored ==
  LET toA == Grubenv("A", New, Up1)
  IN  { Scenario(toA, <<"A">>, Boots({"trial"}, Grubenv("A", <<1, 1, 0>>, Up1))),
        ReadOnly(Scenario(toA, <<"B">>, Boots({}, toA))),
        TornWith(Scenario(Flashed, <<"B">>, Boots({}, Flashed)), toA),
        Failing(Scenario(toA, <<"A">>, Resets(Grubenv("A", <<0, 1, 0>>, Up1))), {"A"}) }

\* A load failure that cannot be written down: the other slot, in this boot.
HandOvers ==
  LET both == Grubenv("A", Up1, Up1)
      one  == Grubenv("A", Up1, New)
  IN  { Failing(TornWith(Scenario(Flashed, <<"B", "A">>, Boots({"hand"}, Flashed)),
                         Grubenv("B", Up1, Up1)), {"B"}),
        Failing(ReadOnly(Scenario(both, <<"A", "B">>, Boots({"hand"}, both))), {"A"}),
        Failing(ReadOnly(Scenario(one, <<"A", "B">>, Boots({"last"}, one))), {"A"}),
        Failing(ReadOnly(Scenario(both, <<"A", "B">>, Resets(both))), Slots) }

\* No slot qualifies.
LastResorts ==
  LET worn(b) == Grubenv("B", <<0, 0, 0>>, <<b, 2, 1>>)
      both(n) == Grubenv("B", <<n, 2, 1>>, <<n, 2, 1>>)
      used    == Grubenv("A", <<1, 2, 1>>, New)
  IN  { Scenario(worn(1), <<"B">>, Boots({"last"}, worn(0))),
        Scenario(both(1), <<"B">>, Boots({"last"}, both(0))),
        Failing(Scenario(worn(1), <<"B", "A">>, Boots({"last"}, worn(0))), {"B"}),
        Failing(Scenario(Grubenv("A", <<1, 2, 1>>, Off), <<"A", "B">>,
                         Resets(Grubenv("A", <<0, 2, 1>>, Off))), Slots),
        ReadOnly(Scenario(used, <<"A">>, Boots({"last"}, used))) }

\* grubenv or its backup cannot be read, or the ESP takes no write.
Unreadable ==
  LET toB  == Grubenv("B", Up1, New)
      onB  == Grubenv("B", Up1, Up1)
      asIs == Scenario(Flashed, <<"A">>, Boots({}, Flashed))
  IN  { TornWith([asIs EXCEPT !.loads = <<"B">>], onB),
        TornWith(asIs, toB),
        ReadOnly(Scenario(toB, <<"A">>, Boots({}, toB))),
        ReadOnly(asIs),
        Torn(asIs) }

Scenarios ==
  Attempts \cup Stays \cup LoadFailures \cup Mirrored \cup HandOvers
    \cup LastResorts \cup Unreadable

-----------------------------------------------------------------------------
(***************************************************************************)
(* The fake board, one boot of it.                                         *)
(***************************************************************************)
Init ==
  /\ sc \in Scenarios /\ tried = <<>>
  /\ env = sc.env /\ bak = sc.bak /\ torn = sc.torn
  /\ good = [s \in Slots |-> s \notin sc.fails] /\ proven = [s \in Slots |-> TRUE]
  /\ phase = "off" /\ grub = GrubIdle
  /\ boot = NoBoot /\ mark = {} /\ stopping = FALSE
  /\ pc = Fresh /\ lock = "free"
  /\ faults = (IF sc.ro THEN MaxFaults ELSE 0) /\ damage = 0
  /\ tboots = [s \in Slots |-> 0] /\ condemned = {} /\ home = "A" /\ lost = 0 /\ warm = 0

\* The last resort's candidates in its order, up to the one that loads.
Resorts ==
  LET all == SetToSortSeq(Candidates, Before)
      ok == {i \in DOMAIN all : all[i] \notin sc.fails}
  IN  IF ok = {} THEN all ELSE SubSeq(all, 1, CHOOSE i \in ok : \A j \in ok : i <= j)

\* What the disk and the kernel stubs make of a step.
Simulated ==
  /\ phase = "off" => tried = <<>>
  /\ sc.ro => env' = env
  /\ phase = "load" => (phase' = "up") = (grub.chosen \notin sc.fails)
  /\ phase = "none" => IF Last(Resorts) \in sc.fails THEN phase' = "off"
                       ELSE phase' = "up" /\ boot'.slot = Last(Resorts)
  /\ tried' = CASE phase = "load" -> Append(tried, grub.chosen)
                [] phase = "none" -> tried \o Resorts
                [] OTHER -> tried

Step == GrubNext /\ Simulated /\ UNCHANGED sc

Ended == phase = "up" \/ (phase = "off" /\ tried # <<>>)

Stop == Ended /\ UNCHANGED <<vars, sc, tried>>

Next == Step \/ Stop

Spec == Init /\ [][Next]_<<vars, sc, tried>>

-----------------------------------------------------------------------------
Flags == {f \in {"trial", "last", "hand", "stay"} : boot[f]}

\* What the test looks at after a run: the kernel loads, the result and the
\* last command line, and the files on the ESP.
Checked ==
  /\ tried = sc.loads
  /\ env = sc.result.after /\ bak = sc.bak /\ torn = sc.torn
  /\ (phase = "up") = sc.result.boot
  /\ phase = "up" => boot.slot = Last(tried) /\ Flags = sc.result.flags

\* grub.cfg as modelled ends every scenario of the test the way the real GRUB
\* must: the slots tried, the one started and its flags, or a reset; and
\* grubenv afterwards, untouched where GRUB cannot or must not write it.
AsTested == Ended => Checked

=============================================================================
