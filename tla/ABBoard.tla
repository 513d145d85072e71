------------------------------ MODULE ABBoard ------------------------------
(***************************************************************************)
(* The A/B boot chain as a whole: GRUB, boat-grubenv-guard, boat-commit    *)
(* and the operations of boat-update and RAUC on one board, with the power *)
(* cuts, reboots, crashes and losses it is built to survive.               *)
(***************************************************************************)
EXTENDS Grub, GrubenvGuard, BoatCommit, SlotInstall

Init ==
  /\ env = Flashed /\ bak = Flashed /\ torn = {}
  /\ good = [s \in Slots |-> s = "A"] /\ proven = good
  /\ phase = "off" /\ grub = GrubIdle
  /\ boot = NoBoot /\ mark = {} /\ stopping = FALSE
  /\ pc = Fresh /\ lock = "free"
  /\ faults = MaxFaults /\ damage = MaxDamage
  /\ tboots = [s \in Slots |-> 0] /\ condemned = {} /\ home = "A" /\ lost = 0 /\ warm = 0

-----------------------------------------------------------------------------
(***************************************************************************)
(* What happens to the board.                                              *)
(***************************************************************************)
GuardDone == phase = "up" /\ pc["guard"] = "done"

\* This boot ends.
Down ==
  /\ phase' = "off" /\ grub' = GrubIdle
  /\ RunCleared
  /\ lost' = IF (phase = "up" /\ pc["guard"] \notin {"start", "run"}) \/ lost = 4
               THEN lost ELSE lost + 1
  /\ UNCHANGED <<tboots, condemned, home>>

\* A power cut: the next boot is a cold one, which seeds NVIDIA's counter.
PowerCut ==
  /\ phase \in GrubPhases \cup {"up"}
  /\ Down
  /\ warm' = 0
  /\ UNCHANGED <<esp, slots, budget>>

\* A release that is not good panics, hangs until the watchdog, cannot mount
\* its root or ends in emergency mode: each is made to end in a reset.
Crash ==
  /\ phase = "up" /\ ~good[boot.slot]
  /\ Down
  /\ warm' = IF warm < 4 THEN warm + 1 ELSE 4
  /\ UNCHANGED <<esp, slots, budget>>

\* nv_update_verifier (external) resets NVIDIA's count some time after
\* userspace is up; nothing orders it before or after the guard.
NvVerify ==
  /\ phase = "up" /\ warm > 0
  /\ warm' = 0
  /\ UNCHANGED <<esp, slots, phase, grub, run, pc, lock, budget, tboots, condemned,
                 home, lost>>

\* The helm's or an operator's reboot or power-off, on a system that is up;
\* before that there is nobody to ask, and the power key is a cut.
UserReboot ==
  /\ GuardDone /\ warm = 0 /\ ~stopping
  /\ stopping' = TRUE
  /\ UNCHANGED <<esp, slots, phase, grub, boot, mark, pc, lock, budget, hist>>

\* The shutdown is through, once boat-trial-inhibit has stopped: a reboot, or
\* a power-off and a later cold start.  nv_update_verifier has long run.
Halt ==
  /\ phase = "up" /\ stopping
  /\ pc["sd"] \in {"off", "done"}
  /\ Down
  /\ warm' \in {0, 1}
  /\ UNCHANGED <<esp, slots, budget>>

\* grubenv or grubenv.bak is found unreadable at the next boot, or when the
\* ESP is mounted: GRUB's save_env writes in place and a cut came in the
\* middle of it, or the ESP's blocks went bad.
Tear(f) ==
  /\ phase \in {"off", "up"} /\ pc = Fresh
  /\ damage > 0
  /\ f \notin torn
  /\ torn' = torn \cup {f}
  /\ damage' = damage - 1
  /\ env' = IF f = "env" THEN Flashed ELSE env
  /\ bak' = IF f = "bak" THEN Flashed ELSE bak
  /\ UNCHANGED <<slots, phase, grub, run, pc, lock, faults, hist>>

\* A slot's file system turns out to be lost.
Corrupt(s) ==
  /\ phase = "off" /\ damage > 0
  /\ good[s]
  /\ good' = [good EXCEPT ![s] = FALSE]
  /\ damage' = damage - 1
  /\ UNCHANGED <<esp, proven, phase, grub, run, pc, lock, faults, hist>>

\* A USB reflash, the only way out of NVIDIA's recovery.
Reflash ==
  /\ phase = "recovery"
  /\ phase' = "off"
  /\ env' = Flashed /\ bak' = Flashed /\ torn' = {}
  /\ good' = [s \in Slots |-> s = "A"] /\ proven' = good'
  /\ tboots' = [s \in Slots |-> 0] /\ condemned' = {} /\ home' = "A" /\ lost' = 0 /\ warm' = 0
  /\ UNCHANGED <<grub, run, pc, lock, budget>>

BoardNext ==
  \/ PowerCut \/ Crash \/ NvVerify \/ UserReboot \/ Halt
  \/ \E f \in {"env", "bak"} : Tear(f)
  \/ \E s \in Slots : Corrupt(s)
  \/ Reflash

Next == GrubNext \/ GuardNext \/ CommitNext \/ InstallNext \/ BoardNext

Spec == Init /\ [][Next]_vars

-----------------------------------------------------------------------------
(***************************************************************************)
(* Fairness.  GRUB, the guard, boat-commit and a shutdown under way go on: *)
(* each is a sequential program under systemd or the firmware, and flock   *)
(* serves everybody who waits.  An operation that holds the lock finishes  *)
(* its write.  Nothing is assumed of operators, of releases, or of the     *)
(* power.                                                                  *)
(***************************************************************************)
Fail(p) == FailWrite(p) \/ FailNoLock(p) \/ FailBak(p)

Fairness ==
  /\ WF_vars(GrubNext) /\ SF_vars(GuardNext)
  /\ WF_vars(GateStart \/ GateSettles \/ GatePasses \/ GateFails \/ GateFailMark)
  /\ SF_vars(Fail("gate")) /\ SF_vars(Fail("dl"))
  /\ WF_vars(DeadlineFires) /\ SF_vars(DeadlineDecides)
  /\ WF_vars(GateResetBak \/ GateStayBak \/ GateCommitBak)
  /\ WF_vars(InhibitStarts \/ ShutdownStarts)
  /\ SF_vars(ShutdownLeaves \/ ShutdownWrites \/ ShutdownBak)
  /\ WF_vars(InstallNext /\ lock = "inst")
  /\ WF_vars(Halt)

FairSpec == Spec /\ Fairness

-----------------------------------------------------------------------------
EspOK    == env \in Env /\ bak \in Env /\ torn \in SUBSET {"env", "bak"}
SlotsOK  == good \in [Slots -> BOOLEAN] /\ proven \in [Slots -> BOOLEAN]
RunOK    == boot \in Cmdline /\ mark \in SUBSET Marks /\ stopping \in BOOLEAN
Steps    == GuardSteps \cup GateSteps \cup DlSteps \cup SdSteps \cup InstSteps
PcOK     == /\ pc \in [Procs -> Steps]
            /\ pc["guard"] \in GuardSteps /\ pc["gate"] \in GateSteps
            /\ pc["dl"] \in DlSteps /\ pc["sd"] \in SdSteps
            /\ pc["inst"] \in InstSteps
BudgetOK == faults \in 0..MaxFaults /\ damage \in 0..MaxDamage
HistOK   == /\ tboots \in [Slots -> Nat] /\ condemned \in SUBSET Slots
            /\ home \in Slots /\ lost \in 0..4 /\ warm \in 0..4

\* Every variable holds a value of its type: the ESP's two files, GRUB's
\* variables, the kernel command line, the steps of each process and who
\* holds the lock.
TypeOK ==
  /\ EspOK /\ SlotsOK /\ RunOK /\ PcOK /\ BudgetOK /\ HistOK
  /\ phase \in GrubPhases \cup {"off", "up", "recovery"}
  /\ grub \in GrubVars
  /\ lock \in Procs \cup {"free"}

(***************************************************************************)
(* Trials.                                                                 *)
(***************************************************************************)
\* A slot on trial is never booted unless its attempt is in grubenv
\* (grub.cfg: "A slot on trial is never booted unless its attempt was
\* written to grubenv first").
TrialCounted ==
  [][phase # "up" /\ phase' = "up" /\ boot'.trial
       => Valid /\ env.ok[boot'.slot] /\ env.try[boot'.slot] >= 1]_vars

\* An installed release gets one trial boot, and one more when a clean
\* shutdown gave the attempt back; a fault or a loss may cost one more.
TrialBound == 2 + (MaxFaults - faults) + (MaxDamage - damage)

TrialBounded ==
  \A s \in Slots : tboots[s] <= TrialBound

(***************************************************************************)
(* Verdicts.                                                               *)
(***************************************************************************)
\* A slot is committed in grubenv, or in the copy GRUB falls back to, only if
\* what is in it was flashed or has passed a trial.
CommittedIsProven ==
  /\ Valid => \A s \in Slots : env.com[s] => proven[s]
  /\ "bak" \notin torn => \A s \in Slots : bak.com[s] => proven[s]

\* GRUB boots nothing but a proven release outside of a trial and the last
\* resort.
UntriedOnTrial ==
  phase = "up" /\ ~proven[boot.slot] => boot.trial \/ boot.last

\* What is called proven works: nothing but a flash, or a trial that a healthy
\* release passed, makes it so, and nothing writes over it unnoticed.
ProvenWorks == \A s \in Slots : proven[s] => good[s]

\* There is always a proven release to go back to: no install, whenever it
\* starts and wherever it is cut off, leaves the board without one - unless it
\* is made from a last resort boot, which pre-install and boat-update allow.
FallbackKept ==
  [][(\E s \in Slots : proven[s]) /\ ~boot.last => \E s \in Slots : proven'[s]]_vars

\* A verdict stands: while a trial runs, nobody makes a slot usable again that
\* grubenv has failed, and nobody undoes a commit that was recorded.
VerdictStands ==
  [][phase = "up" /\ phase' = "up" /\ boot.trial /\ Valid /\ Valid'
       => /\ pc["guard"] = "done" /\ ~env.ok[boot.slot] => ~env'.ok[boot.slot]
          /\ "committed" \in mark => env'.ok[boot.slot] /\ env'.com[boot.slot]]_vars

\* A slot whose failed trial is in grubenv gets no other trial boot before an
\* install into it begins or somebody rolls back to it.
FailedNotRetried ==
  [][phase # "up" /\ phase' = "up" /\ boot'.trial => boot'.slot \notin condemned]_vars

(***************************************************************************)
(* Where the board belongs.                                                *)
(***************************************************************************)
\* One boot that does not come up never moves the board off a good slot
\* ("a single power cut during boot never moves the boat back to an older
\* OS").
StaysHome ==
  [][phase # "up" /\ phase' = "up" /\ good[home] /\ lost < 2
       => boot'.trial \/ boot'.last \/ boot'.slot = home]_vars

\* The board does not end in NVIDIA's recovery while a good slot is usable
\* ("The handover must happen before NVIDIA's counter trips").
HandedOverInTime ==
  phase = "recovery" /\ Valid => \A s \in Slots : ~(good[s] /\ env.ok[s])

\* The same, when none of the four warm boots got as far as the guard: the
\* attempt limits of 2 and 1 fit into NVIDIA's three.
RecoveryIsLast == lost >= 4 => HandedOverInTime

(***************************************************************************)
(* Progress.                                                               *)
(***************************************************************************)
\* A trial that runs on is watched ("fail the trial if it is still not committed
\* (a check that hangs, a stuck unit)"): its deadline is off only once the slot is
\* committed, or has failed, in grubenv, and then the gate is about to reboot it
\* - unless the gate was killed between its mark and the reboot.
TrialWatched ==
  phase = "up" /\ boot.trial /\ ~boot.stay /\ ~stopping /\ pc["dl"] = "done" =>
    /\ Valid
    /\ \/ env.com[boot.slot]
       \/ ~env.ok[boot.slot] /\ (pc["gate"] = "failbak" \/ faults < MaxFaults)

\* Every trial ends: in a recorded commit, or with the boot it came from
\* ("every way of failing must end in a reset").
TrialEnds ==
  phase = "up" /\ boot.trial /\ ~boot.stay
    ~> phase # "up" \/ "committed" \in mark

\* Once the power stays on, the board is again and again up on a release that
\* works or has passed its trial - whatever is installed meanwhile, whichever slot
\* or file is lost ("No single power cut, crash or bad bundle leaves the board
\* unbootable") - or on a failed trial that an operator asked to be held.
ComesBack ==
  <>[][~PowerCut]_vars
    => []<>(GuardDone /\ (good[boot.slot] \/ proven[boot.slot] \/ boot.stay))

=============================================================================
