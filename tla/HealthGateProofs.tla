-------------------------- MODULE HealthGateProofs --------------------------
(***************************************************************************)
(* The health gate's verdict, for every deadline, limit and length of a    *)
(* sleep: it comes in time, no trial is failed early, and what passes had  *)
(* everything it was asked for.                                            *)
(***************************************************************************)
EXTENDS HealthGate, TLAPS

Steps == {"tier1", "rauc", "units", "docker", "healthd", "pending", "pass", "loop",
          "pause", "done"}

\* The clocks count, and both limits have moved by the same.
ClockOK ==
  /\ {now, awake, missed, deadline, hardStop, before} \subseteq Nat
  /\ now + Deadline = awake + deadline + missed
  /\ hardStop + Deadline + Margin = deadline + Limit

\* A pause begins before the deadline, and only sleep goes by in it.
PauseOK ==
  verdict = "none" /\ step = "pause" =>
    before <= now /\ now <= before + missed /\ before < deadline

TimeInv ==
  /\ ClockOK /\ PauseOK /\ InTime /\ NotFailedEarly
  /\ verdict \in {"none", "pass", "fail"} /\ step \in Steps

-----------------------------------------------------------------------------
LEMMA TimeInit == ASSUME TimesFit PROVE Init => TimeInv
  BY DEF TimesFit, Init, TimeInv, ClockOK, PauseOK, InTime, NotFailedEarly, Steps

\* Steps that take no time and give no verdict.
LEMMA TimeStill ==
  ASSUME TimesFit, TimeInv, UNCHANGED <<now, awake, missed, deadline, hardStop, before>>,
         UNCHANGED verdict, step' \in Steps, step' = "pause" => step = "pause",
         trial' = trial
  PROVE  TimeInv'
  BY DEF TimeInv, ClockOK, PauseOK, InTime, NotFailedEarly

\* The operator's check ends before the gate's own limit.
LEMMA CheckEnds ==
  ASSUME TimesFit, TimeInv, CheckLimit > 0, NEW t \in 0..(CheckLimit + Kill)
  PROVE  t \in Nat /\ now + t <= hardStop
  BY DEF TimesFit, TimeInv, ClockOK, CheckLimit

LEMMA TimeNext == ASSUME TimesFit, TimeInv, [Next]_vars PROVE TimeInv'
<1> USE DEF Running, To, Steps
<1>1. CASE Tier1
  BY <1>1, TimeStill DEF Tier1, board, clock
<1>2. CASE Tier1Rauc \/ Tier2Units \/ Tier2Docker
  BY <1>2, TimeStill
  DEF Tier1Rauc, Tier2Units, Tier2Docker, IfData, Made, Skipped, board, clock
<1>3. CASE Tier2HealthD
  <2>1. CASE UNCHANGED clock
    BY <1>3, <2>1, TimeStill DEF Tier2HealthD, Made, Skipped, board, clock, Takes
  <2>2. CASE CheckLimit > 0 /\ \E t \in 0..(CheckLimit + Kill) : Takes(t)
    <3>1. PICK t \in 0..(CheckLimit + Kill) : Takes(t)
      BY <2>2
    <3>2. t \in Nat /\ now + t <= hardStop
      BY <2>2, CheckEnds
    <3>3. step' \in {"pending", "loop"} /\ verdict = "none"
          /\ UNCHANGED <<deadline, hardStop, before, verdict, trial>>
      BY <1>3 DEF Tier2HealthD, Made, Skipped, board
    <3> QED
      BY <3>1, <3>2, <3>3
      DEF Takes, TimesFit, TimeInv, ClockOK, PauseOK, InTime, NotFailedEarly
  <2>3. CheckLimit > 0 => 0..CheckLimit \subseteq 0..(CheckLimit + Kill)
    BY DEF TimesFit, TimeInv, ClockOK, CheckLimit
  <2> QED BY <1>3, <2>1, <2>2, <2>3 DEF Tier2HealthD
<1>4. CASE DataPending \/ CommittedPasses
  BY <1>4 DEF DataPending, CommittedPasses, Decide, Skipped, TimeInv, ClockOK, PauseOK,
              InTime, NotFailedEarly, board, clock
<1>5. CASE Loop
  BY <1>5 DEF Loop, Over, Decide, TimesFit, TimeInv, ClockOK, PauseOK, InTime,
              NotFailedEarly, board, clock
<1>6. CASE Pause
  BY <1>6 DEF Pause, GivenBack, TimesFit, TimeInv, ClockOK, PauseOK, InTime,
              NotFailedEarly, board
<1>7. CASE Changes \/ DataSettles
  BY <1>7, TimeStill DEF Changes, DataSettles, gate, clock, TimeInv
<1>8. CASE Suspend
  BY <1>8 DEF Suspend, TimesFit, TimeInv, ClockOK, PauseOK, InTime, NotFailedEarly,
              gate, board
<1>9. CASE UNCHANGED vars
  BY <1>9, TimeStill DEF vars, gate, board, clock, TimeInv
<1> QED
  BY <1>1, <1>2, <1>3, <1>4, <1>5, <1>6, <1>7, <1>8, <1>9 DEF Next, GateNext

\* However long the checks, the pauses and the sleeps, the gate has its verdict
\* while the unit still has its Margin.
THEOREM VerdictInTime == ASSUME TimesFit PROVE Spec => []InTime
<1>1. Init => TimeInv
  BY TimeInit
<1>2. TimeInv /\ [Next]_vars => TimeInv'
  BY TimeNext
<1>3. TimeInv => InTime
  BY DEF TimeInv
<1> QED BY <1>1, <1>2, <1>3, PTL DEF Spec

\* No trial is failed before its checks have had Deadline, awake or in a sleep
\* the gate could not see.
THEOREM NeverFailedEarly == ASSUME TimesFit PROVE Spec => []NotFailedEarly
<1>1. Init => TimeInv
  BY TimeInit
<1>2. TimeInv /\ [Next]_vars => TimeInv'
  BY TimeNext
<1>3. TimeInv => NotFailedEarly
  BY DEF TimeInv
<1> QED BY <1>1, <1>2, <1>3, PTL DEF Spec

-----------------------------------------------------------------------------
(***************************************************************************)
(* What is certain of a trial's round at each of its steps.                *)
(***************************************************************************)
Lives(c) == c \notin dead
\* A check of something on /data, if /data was there.
LivesOnData(c) == early => c \notin dead

RoundOK ==
  /\ step \in {"rauc", "units", "docker", "healthd", "pending"} => Lives("os")
  /\ step \in {"units", "docker", "healthd", "pending"} => LivesOnData("rauc")
  /\ step \in {"docker", "healthd", "pending"} => Lives("units")
  /\ step \in {"healthd", "pending"} => LivesOnData("docker")
  /\ step = "pending" => LivesOnData("healthd")

\* Everything that counts has passed, and so once could.
AllLive == dead \cap (IF early THEN Checks ELSE Checks \ OnData) = {}

SoundInv ==
  /\ dead \subseteq Checks /\ up \cap dead = {}
  /\ trial \in BOOLEAN /\ early \in BOOLEAN
  /\ early => data = "mounted"
  /\ trial /\ verdict = "none" =>
       /\ step # "pass"
       /\ RoundOK
       /\ step = "loop" /\ ~reason => AllLive
  /\ PassedIsSound

LEMMA PendingLives ==
  ASSUME SoundInv, trial, verdict = "none", step = "pending" PROVE AllLive
  BY DEF SoundInv, RoundOK, Lives, LivesOnData, AllLive, Checks, OnData

LEMMA SoundNext == SoundInv /\ [Next]_vars => SoundInv'
<1> SUFFICES ASSUME SoundInv, [Next]_vars PROVE SoundInv'
  OBVIOUS
<1> USE DEF Running, To
<1>1. CASE Tier1
  BY <1>1
  DEF Tier1, SoundInv, RoundOK, Lives, LivesOnData, AllLive, PassedIsSound, Mounted, board
<1>2. CASE Tier1Rauc \/ Tier2Units \/ Tier2Docker
  BY <1>2
  DEF Tier1Rauc, Tier2Units, Tier2Docker, IfData, Made, Skipped, Mounted, SoundInv,
      RoundOK, Lives, LivesOnData, AllLive, PassedIsSound, board
<1>3. CASE Tier2HealthD
  BY <1>3
  DEF Tier2HealthD, Made, Skipped, Mounted, SoundInv, RoundOK, Lives, LivesOnData,
      AllLive, PassedIsSound, board
<1>4. CASE DataPending
  BY <1>4, PendingLives
  DEF DataPending, Decide, Skipped, SoundInv, RoundOK, AllLive, PassedIsSound, board
<1>5. CASE CommittedPasses
  BY <1>5 DEF CommittedPasses, Decide, SoundInv, PassedIsSound, board
<1>6. CASE Loop
  BY <1>6 DEF Loop, Decide, SoundInv, RoundOK, AllLive, PassedIsSound, board
<1>7. CASE Pause
  BY <1>7 DEF Pause, SoundInv, RoundOK, PassedIsSound, board
<1>8. CASE Changes \/ DataSettles \/ Suspend \/ UNCHANGED vars
  BY <1>8
  DEF Changes, DataSettles, Suspend, SoundInv, RoundOK, Lives, LivesOnData, AllLive,
      PassedIsSound, gate, board, clock, vars
<1> QED
  BY <1>1, <1>2, <1>3, <1>4, <1>5, <1>6, <1>7, <1>8 DEF Next, GateNext

\* No trial is passed whose release never passes one of the checks; those on
\* /data count when /data was there as the last round began.
THEOREM PassesAreSound == Spec => []PassedIsSound
<1>1. Init => SoundInv
  BY DEF Init, SoundInv, RoundOK, PassedIsSound
<1>2. SoundInv /\ [Next]_vars => SoundInv'
  BY SoundNext
<1>3. SoundInv => PassedIsSound
  BY DEF SoundInv
<1> QED BY <1>1, <1>2, <1>3, PTL DEF Spec

=============================================================================
