----------------------------- MODULE HealthGate -----------------------------
(***************************************************************************)
(* boat-commit's health checks: the loop that asks Tier 1 and, on a trial, *)
(* Tier 2 again and again until they pass or BOAT_HEALTH_DEADLINE is over, *)
(* with DATA still on its way and the board asleep in between.  What is    *)
(* then done with the verdict is in BoatCommit.  The clock counts pauses   *)
(* of the loop (5 s); a check without a time limit of its own takes none.  *)
(***************************************************************************)
EXTENDS Naturals

CONSTANTS
  Deadline,     \* BOAT_HEALTH_DEADLINE
  Limit,        \* boat-commit.service's TimeoutStartSec
  Margin,       \* what is left of it for the verdict once the checks stop
  CheckTimeout, \* BOAT_HEALTH_CHECK_TIMEOUT, of the operator's checks
  Kill,         \* timeout -k: how long such a check takes to die
  Noticed,      \* a sleep longer than this is given back
  Sleeps,       \* how long the board may sleep at a time
  MaxSleeps     \* and for how long in all

\* The shipped times leave the unit its Margin once the deadline is over.
TimesFit ==
  /\ {Deadline, Limit, Margin, CheckTimeout, Kill, Noticed} \subseteq Nat
  /\ Sleeps \subseteq Nat
  /\ Deadline + 1 + Margin <= Limit

VARIABLES
  trial,     \* the boot is a trial
  up,        \* the checks that pass if they are made now
  dead,      \* the checks this release never passes
  data,      \* DATA: pending, mounted or none (given up on)
  now,       \* /proc/uptime, which counts sleep too
  deadline, hardStop,
  before,    \* when the pause began
  step,      \* where the gate is
  reason,    \* a check of this round has failed
  verdict,   \* none, pass or fail
  asked,     \* history: the checks made, and passed, in this round
  early,     \* history: DATA was mounted when this round began
  awake,     \* history: time awake since the gate started
  missed     \* history: time asleep that the gate has not given back

gate == <<deadline, hardStop, before, step, reason, verdict, asked, early>>
board == <<trial, up, dead, data>>
clock == <<now, awake, missed>>
vars == <<gate, board, clock>>

\* os: the slot, its partition, a root that is read-write, the ESP, grubenv.
\* units: the critical units, none of the listed ones failed, boat-update.
\* What is on /data or waits for it: RAUC, Docker and the data units, health.d.
Checks == {"os", "units", "rauc", "docker", "healthd"}
OnData == {"rauc", "docker", "healthd"}

Init ==
  /\ trial \in BOOLEAN /\ dead \in SUBSET Checks /\ up \in SUBSET (Checks \ dead)
  /\ data \in {"pending", "mounted", "none"}
  /\ now = 0 /\ awake = 0 /\ missed = 0
  /\ deadline = Deadline /\ hardStop = Limit - Margin /\ before = 0
  /\ step = "tier1" /\ reason = FALSE /\ verdict = "none"
  /\ asked = {} /\ early = FALSE

-----------------------------------------------------------------------------
Mounted == data = "mounted"

Running(s) == verdict = "none" /\ step = s
To(s) == step' = s /\ UNCHANGED <<deadline, hardStop, before, verdict, early>>

\* A check that fails without a reason: its return, and not its fail, is kept.
Made_NoReason(c, s) ==
  \/ c \in up /\ asked' = asked \cup {c} /\ UNCHANGED reason /\ To(s)
  \/ c \notin up /\ UNCHANGED <<reason, asked>> /\ To("loop")

\* Check c passes, and s is next; or it fails, and the round is over.
Made(c, s) ==
  \/ c \in up /\ asked' = asked \cup {c} /\ UNCHANGED reason /\ To(s)
  \/ c \notin up /\ reason' = TRUE /\ UNCHANGED asked /\ To("loop")

Skipped(s) == To(s) /\ UNCHANGED <<reason, asked>>

\* A check of something on /data is only made when /data is there.
IfData(c, s) ==
  \/ Mounted /\ Made(c, s)
  \/ ~Mounted /\ Skipped(s)

\* tier1, at the start of a round.
Tier1 ==
  /\ Running("tier1")
  /\ early' = Mounted
  /\ \/ "os" \in up /\ asked' = {"os"} /\ reason' = FALSE /\ step' = "rauc"
     \/ "os" \notin up /\ asked' = {} /\ reason' = TRUE /\ step' = "loop"
  /\ UNCHANGED <<deadline, hardStop, before, verdict, board, clock>>

\* 'rauc status', the last of tier1; a committed boot is then through.
Tier1Rauc ==
  /\ Running("rauc")
  /\ IfData("rauc", IF trial THEN "units" ELSE "pass")
  /\ UNCHANGED <<board, clock>>

\* tier2.
Tier2Units ==
  /\ Running("units")
  /\ Made("units", "docker")
  /\ UNCHANGED <<board, clock>>

Tier2Docker ==
  /\ Running("docker")
  /\ IfData("docker", "healthd")
  /\ UNCHANGED <<board, clock>>

\* The operator's check may take all of its own time limit.
CheckLimit_Unclipped == CheckTimeout

\* How long the operator's check may take: never past the gate's own limit.
CheckLimit ==
  IF now + CheckTimeout + Kill <= hardStop THEN CheckTimeout
  ELSE IF now + Kill < hardStop THEN hardStop - now - Kill ELSE 0

Takes(t) == now' = now + t /\ awake' = awake + t /\ UNCHANGED missed

\* health.d, its checks as one: passed in time; or it fails, at once or by being stopped; or no
\* time is left for it.
Tier2HealthD ==
  /\ Running("healthd")
  /\ \/ ~Mounted /\ Skipped("pending") /\ UNCHANGED clock
     \/ /\ Mounted /\ CheckLimit = 0
        /\ reason' = TRUE /\ UNCHANGED asked /\ To("loop") /\ UNCHANGED clock
     \/ /\ Mounted /\ CheckLimit > 0
        /\ \/ "healthd" \in up /\ \E t \in 0..CheckLimit : Takes(t)
           \/ "healthd" \notin up /\ \E t \in 0..(CheckLimit + Kill) : Takes(t)
        /\ Made("healthd", "pending")
  /\ UNCHANGED board

-----------------------------------------------------------------------------
Over == now >= deadline

Decide(v) ==
  /\ verdict' = v /\ step' = "done"
  /\ UNCHANGED <<deadline, hardStop, before, reason, asked, early>>

\* A gate that waits for DATA however long its check takes.
DataPending_Forever ==
  /\ Running("pending")
  /\ data # "pending" /\ Decide("pass")
  /\ UNCHANGED <<board, clock>>

\* Both tiers have passed; but DATA may still be on its way.
DataPending ==
  /\ Running("pending")
  /\ \/ (data # "pending" \/ Over) /\ Decide("pass")
     \/ data = "pending" /\ ~Over /\ Skipped("loop")
  /\ UNCHANGED <<board, clock>>

\* A committed boot that passed tier 1.
CommittedPasses ==
  /\ Running("pass")
  /\ Decide("pass")
  /\ UNCHANGED <<board, clock>>

\* The end of a round that is not decided yet.
Loop ==
  /\ Running("loop")
  /\ \/ Over /\ Decide(IF reason THEN "fail" ELSE "pass")
     \/ /\ ~Over /\ step' = "pause" /\ before' = now
        /\ UNCHANGED <<deadline, hardStop, reason, verdict, asked, early>>
  /\ UNCHANGED <<board, clock>>

\* A sleep that is taken for time the checks have had.
GivenBack_Never(slept) == 0

\* How much of the time spent asleep during a pause the gate gives back.
GivenBack(slept) == IF slept > Noticed THEN slept ELSE 0

\* sleep 5, and what of it was the board's own sleep.
Pause ==
  /\ Running("pause")
  /\ now' = now + 1 /\ awake' = awake + 1
  /\ LET slept == now - before
     IN  /\ deadline' = deadline + GivenBack(slept)
         /\ hardStop' = hardStop + GivenBack(slept)
         /\ missed' = IF slept > Noticed THEN missed - slept ELSE missed
  /\ step' = "tier1"
  /\ UNCHANGED <<before, reason, verdict, asked, early, board>>

GateNext ==
  \/ Tier1 \/ Tier1Rauc \/ Tier2Units \/ Tier2Docker \/ Tier2HealthD
  \/ DataPending \/ CommittedPasses \/ Loop \/ Pause

-----------------------------------------------------------------------------
(***************************************************************************)
(* The rest of the board: units come up and go down, DATA's check ends in  *)
(* a mount or not, and the board sleeps.                                   *)
(***************************************************************************)
Changes ==
  /\ verdict = "none"
  /\ \E c \in Checks \ dead : up' = (up \cup {c}) \ (up \cap {c})
  /\ UNCHANGED <<gate, trial, dead, data, clock>>

DataSettles ==
  /\ verdict = "none" /\ data = "pending"
  /\ data' \in {"mounted", "none"}
  /\ UNCHANGED <<gate, trial, up, dead, clock>>

\* The board sleeps, for at most MaxSleeps in all.
Suspend ==
  /\ verdict = "none"
  /\ \E t \in Sleeps :
       /\ now + t - awake <= MaxSleeps
       /\ now' = now + t /\ missed' = missed + t
  /\ UNCHANGED <<gate, board, awake>>

Next == GateNext \/ Changes \/ DataSettles \/ Suspend

Spec == Init /\ [][Next]_vars /\ WF_vars(GateNext)

-----------------------------------------------------------------------------
\* The checks always reach their verdict before systemd stops the service
\* ("so the gate always reaches its verdict"), however long the operator's
\* check takes and however often the board slept.
InTime == verdict = "none" => awake + Margin <= Limit

\* A trial is not failed before its checks have had all of their time awake;
\* only a sleep the gate cannot see - a short one, or one outside its pause -
\* is held against them.
NotFailedEarly == trial /\ verdict = "fail" => awake + missed >= Deadline

\* A release that never passes one of the checks is not passed; those on
\* /data count when /data was there as the last round began.
PassedIsSound ==
  trial /\ verdict = "pass" =>
    dead \cap (IF early THEN Checks ELSE Checks \ OnData) = {}

\* "A trial is not decided while DATA is still being checked or mounted (its
\* checks would be skipped, not passed)": before the deadline, a trial is
\* passed with /data mounted only if the checks on /data were made.
DecidedWithData ==
  trial /\ verdict = "pass" /\ now < deadline /\ Mounted => OnData \subseteq asked

\* The checks end.
Decides == <>(verdict # "none")

=============================================================================
