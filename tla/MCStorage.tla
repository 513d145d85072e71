----------------------------- MODULE MCStorage -----------------------------
\* Storage on every kind of DATA with one kind of SWAP, and the other way
\* round: neither's units look at the other's.  Of a partition under another
\* name nothing more is looked at, so two contents stand for all.
EXTENDS Storage

BlankSwap == [named |-> TRUE, holds |-> "none", on |-> FALSE]
CleanData == [named |-> TRUE, holds |-> "clean"]
SlotA == [slot |-> "A", root |-> "A", named |-> TRUE]

MCDisks ==
  {[swap |-> BlankSwap, data |-> d, board |-> SlotA]
     : d \in [named : {TRUE}, holds : DataHolds] \cup [named : {FALSE}, holds : {"other", "clean"}]}
  \cup {[swap |-> s, data |-> CleanData, board |-> SlotA]
          : s \in [named : {TRUE}, holds : SwapHolds, on : {FALSE}]
                   \cup [named : {FALSE}, holds : {"other", "swap"}, on : {FALSE}]}

=============================================================================
