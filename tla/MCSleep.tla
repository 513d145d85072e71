------------------------------ MODULE MCSleep ------------------------------
(***************************************************************************)
(* SleepListener with a window of two seconds and clocks as far off.       *)
(***************************************************************************)
EXTENDS SleepListener

Edge == Window    \* a sender's clock that is just in time, or just not

=============================================================================
