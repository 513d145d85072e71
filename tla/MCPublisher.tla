---------------------------- MODULE MCPublisher ----------------------------
(***************************************************************************)
(* Publisher with two releases, for two device trees, and runs that are    *)
(* alike.  A behaviour is about one of two: one machine that publishes to  *)
(* two channels, or two machines that publish to one.                      *)
(***************************************************************************)
EXTENDS Publisher, SequencesExt

Release(version, firmware) ==
  [version |-> version, build |-> 1, firmware |-> firmware, ca |-> "fleet",
   by |-> "rauc-signing", fmt |-> "verity", bench |-> FALSE]

TwoTrees == {Release("1.2", "f"), Release("1.3", "e")}
MCClocks == {1, 3}
Alike == Permutations(Pubs)

VARIABLE about    \* which of the two

Under(p) == ~Doing(p, "off")

\* The one machine is the one that has the channels on its own disk.
OneMachine == \A p \in Pubs : Under(p) => run[p].machine \in Near
OneChannel == \A p \in Pubs : Under(p) => run[p].chan = "stable"

MCInit == about \in {"machine", "channel"} /\ Init

MCNext ==
  /\ Next /\ UNCHANGED about
  /\ IF about = "machine" THEN OneMachine' ELSE OneChannel'

MCSpec == MCInit /\ [][MCNext]_<<vars, about>>

\* What a key directory signed last; the serials before it are below that, until
\* one is not and SerialsDiffer false.
LastOf(d) ==
  LET its == {i \in 1..Len(signed) : signed[i].dir = d}
  IN  IF its = {} THEN 0 ELSE signed[Max(its)].serial

\* Why a run ended makes no difference to what comes after, and once a counter is
\* lost neither does the history.
Seen ==
  <<about, counter, lock, index, files, tmp, starts, lost,
    [p \in Pubs |-> IF Under(p) THEN run[p] ELSE Off],
    IF lost = MaxLost THEN <<SerialsDiffer, [d \in Dirs |-> LastOf(d)]>> ELSE <<>> >>

=============================================================================
