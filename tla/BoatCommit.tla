----------------------------- MODULE BoatCommit -----------------------------
(***************************************************************************)
(* boat-commit: the health gate (gate), the trial deadline (dl) and what a *)
(* clean shutdown does about an undecided trial (sd).  They run at the     *)
(* same time; the A/B lock and the marks in /run are all that keeps one    *)
(* from undoing another's verdict.                                         *)
(***************************************************************************)
EXTENDS BoardState

GateSteps == {"start", "reset", "resetbak", "check", "commit", "commitbak",
              "fail", "failwrite", "failbak", "stayoff", "staybak", "done"}
DlSteps   == {"armed", "lock", "failwrite", "failnolock", "failbak", "done"}
SdSteps   == {"off", "armed", "lock", "bak", "done"}

Marks == {"committed", "failed", "commitfailed"}

Gate(l) == phase = "up" /\ pc["gate"] = l

-----------------------------------------------------------------------------
(***************************************************************************)
(* A committed boot.                                                       *)
(***************************************************************************)
\* grubenv_get of the running slot's key: nothing when the block is torn.
IsCommitted == Valid /\ env.com[boot.slot]

\* boat-commit.service starts once the guard is through.  On a committed
\* slot the attempt count is reset first, before any check.
GateStart ==
  /\ Gate("start") /\ pc["guard"] = "done" /\ ~stopping
  /\ Goto("gate", IF /\ ~boot.trial /\ IsCommitted
                     /\ ~env.ok[boot.slot] \/ env.try[boot.slot] # 0
                  THEN "reset" ELSE "check")
  /\ UNCHANGED <<esp, slots, phase, grub, run, lock, budget, hist>>

\* Under the lock; a reset that fails is a problem: alerted, and no more
\* is written this boot.
GateReset ==
  /\ Gate("reset")
  /\ \/ /\ CanLock("gate")
        /\ \E ok \in BOOLEAN :
             /\ Replace([env EXCEPT !.ok[boot.slot] = TRUE,
                                    !.try[boot.slot] = 0], ok)
             /\ Goto("gate", IF ok THEN "resetbak" ELSE "done")
             /\ lock' = IF ok THEN "gate" ELSE "free"
        /\ home' = IF boot.last /\ Valid THEN boot.slot ELSE home
        /\ lost' = 0
     \/ /\ LockTimeout("gate")
        /\ Goto("gate", "done")
        /\ UNCHANGED <<env, damage, lock, home, lost>>
  /\ UNCHANGED <<bak, torn, slots, phase, grub, run, tboots, condemned, warm>>

GateResetBak ==
  /\ Gate("resetbak")
  /\ \E ok \in BOOLEAN :
       /\ SyncBak(ok)
       /\ Goto("gate", IF ok THEN "check" ELSE "done")
  /\ lock' = "free"
  /\ UNCHANGED <<env, slots, phase, grub, run, hist>>

\* A committed boot's verdict: an alert, or nothing - and the end of a debug
\* hold this boot carried.  A last resort boot is always an alert.
GateSettles ==
  /\ Gate("check") /\ ~boot.trial
  /\ \/ Goto("gate", "done")
     \/ /\ ~boot.last /\ Valid /\ good[boot.slot] /\ boot.stay /\ env.stay
        /\ Goto("gate", "stayoff")
  /\ UNCHANGED <<esp, slots, phase, grub, run, lock, budget, hist>>

GateStayOff ==
  /\ Gate("stayoff")
  /\ \/ /\ CanLock("gate")
        /\ \E ok \in BOOLEAN :
             /\ Replace([env EXCEPT !.stay = FALSE], ok)
             /\ Goto("gate", IF ok THEN "staybak" ELSE "done")
             /\ lock' = IF ok THEN "gate" ELSE "free"
     \/ /\ LockTimeout("gate")
        /\ Goto("gate", "done")
        /\ UNCHANGED <<env, damage, lock>>
  /\ UNCHANGED <<bak, torn, slots, phase, grub, run, hist>>

GateStayBak ==
  /\ Gate("staybak")
  /\ \E ok \in BOOLEAN : SyncBak(ok)
  /\ Goto("gate", "done")
  /\ lock' = "free"
  /\ UNCHANGED <<env, slots, phase, grub, run, hist>>

-----------------------------------------------------------------------------
(***************************************************************************)
(* A trial: commit it or fail it.                                          *)
(***************************************************************************)
\* Checks that pass whatever the release is like.
GatePasses_Unhealthy ==
  /\ Gate("check") /\ boot.trial /\ Valid
  /\ Goto("gate", "commit")
  /\ UNCHANGED <<esp, slots, phase, grub, run, lock, budget, hist>>

\* A last resort boot that is committed like a trial.
GatePasses_LastResort ==
  /\ Gate("check") /\ (boot.trial \/ boot.last) /\ Valid /\ good[boot.slot]
  /\ Goto("gate", "commit")
  /\ UNCHANGED <<esp, slots, phase, grub, run, lock, budget, hist>>

\* tier1 and tier2 pass: only a healthy release does, on a valid grubenv.
GatePasses ==
  /\ Gate("check") /\ boot.trial /\ Valid /\ good[boot.slot]
  /\ Goto("gate", "commit")
  /\ UNCHANGED <<esp, slots, phase, grub, run, lock, budget, hist>>

\* A check still fails at the deadline - the release's fault or the board's.
GateFails ==
  /\ Gate("check") /\ boot.trial
  /\ Goto("gate", "fail")
  /\ UNCHANGED <<esp, slots, phase, grub, run, lock, budget, hist>>

Committed == [env EXCEPT !.ok[boot.slot] = TRUE, !.try[boot.slot] = 0,
                         !.com[boot.slot] = TRUE, !.retry = NoSlot,
                         !.stay = @ /\ ~boot.stay]

\* commit_failed: the checks passed, the commit did not get written.
CommitFailed ==
  /\ mark' = mark \cup {"commitfailed"}
  /\ Goto("gate", "done")
  /\ lock' = "free"

\* A commit that does not look whether the slot was failed meanwhile.
StillUsable_Unchecked == Valid

\* What commit reads under the lock before it writes.
StillUsable == Valid /\ env.ok[boot.slot]

\* commit: under the lock, unless the slot was failed meanwhile.
GateCommit ==
  /\ Gate("commit") /\ CanLock("gate")
  /\ \/ /\ ~StillUsable
        /\ Goto("gate", "done")
        /\ UNCHANGED <<env, mark, lock, proven, home, tboots, budget>>
     \/ /\ StillUsable
        /\ proven' = [proven EXCEPT ![boot.slot] = TRUE]
        /\ \/ /\ Replace(Committed, TRUE)
              /\ Goto("gate", "commitbak")
              /\ lock' = "gate"
              /\ UNCHANGED mark
           \/ /\ Replace(Committed, FALSE)
              /\ CommitFailed
        /\ IF env' = Committed
             THEN /\ home' = IF env.ok[env.order] THEN env.order ELSE boot.slot
                  /\ tboots' = [tboots EXCEPT ![boot.slot] = 0]
             ELSE UNCHANGED <<home, tboots>>
  /\ UNCHANGED <<bak, torn, good, phase, grub, boot, stopping, condemned, lost,
                 warm>>

GateCommitTimeout ==
  /\ Gate("commit") /\ LockTimeout("gate")
  /\ mark' = mark \cup {"commitfailed"}
  /\ Goto("gate", "done")
  /\ UNCHANGED <<esp, slots, phase, grub, boot, stopping, lock, damage, hist>>

\* The copy to grubenv.bak counts for a commit: only then is it recorded, the
\* deadline's timer stopped and the sleep inhibitor with it.  The mark itself
\* may fail to be written, which is only a warning.
GateCommitBak ==
  /\ Gate("commitbak")
  /\ \/ /\ BakCopied
        /\ \/ mark' = mark \cup {"committed"} /\ UNCHANGED budget
           \/ UNCHANGED <<mark, damage>> /\ Fault
        /\ pc' = [pc EXCEPT !["gate"] = "done",
                            !["dl"] = IF @ = "armed" THEN "done" ELSE @,
                            !["sd"] = IF @ \in {"off", "armed"} THEN "done" ELSE @]
        /\ lock' = "free"
     \/ SyncBak(FALSE) /\ CommitFailed
  /\ UNCHANGED <<env, slots, phase, grub, boot, stopping, hist>>

\* A failed trial that stays up.
Reboot_Forgotten == UNCHANGED stopping

\* systemctl reboot, which the debug hold keeps from happening.
Reboot == stopping' = (stopping \/ ~boot.stay)

\* fail_trial in the gate: the mark first, then the lock.
GateFailMark ==
  /\ Gate("fail")
  /\ mark' = mark \cup {"failed"}
  /\ Goto("gate", "failwrite")
  /\ UNCHANGED <<esp, slots, phase, grub, boot, stopping, lock, budget, hist>>

\* The timer fires: from here on a commit no longer disarms the deadline.
DeadlineFires ==
  /\ phase = "up" /\ pc["dl"] = "armed" /\ boot.trial /\ ~stopping
  /\ Goto("dl", "lock")
  /\ UNCHANGED <<esp, slots, phase, grub, run, lock, budget, hist>>

\* --deadline: a commit or an earlier failure stands; anything else fails the
\* trial, with the lock or without it.
DeadlineDecides ==
  /\ phase = "up" /\ pc["dl"] = "lock"
  /\ \/ /\ CanLock("dl") /\ UNCHANGED budget
        /\ IF "committed" \in mark \/ (Valid /\ ~env.ok[boot.slot])
             THEN Goto("dl", "done") /\ UNCHANGED <<mark, lock>>
             ELSE /\ mark' = mark \cup {"failed"}
                  /\ Goto("dl", "failwrite")
                  /\ lock' = "dl"
     \/ /\ LockTimeout("dl") /\ UNCHANGED <<lock, damage>>
        /\ IF "committed" \in mark \/ (Valid /\ ~env.ok[boot.slot])
             THEN Goto("dl", "done") /\ UNCHANGED mark
             ELSE /\ mark' = mark \cup {"failed"}
                  /\ Goto("dl", "failnolock")
  /\ UNCHANGED <<esp, slots, phase, grub, boot, stopping, hist>>

\* The attempt is given back and the slot left usable.
Bad_StillUsable(s) == [env EXCEPT !.try[s] = 0]

\* What a failed trial's slot becomes in grubenv.
Bad(s) == [env EXCEPT !.ok[s] = FALSE, !.try[s] = 0]

\* The history of a trial whose failure is in grubenv.
Condemn(written) ==
  /\ IF written
       THEN /\ condemned' = condemned \cup {boot.slot}
            /\ home' = Other(boot.slot)
       ELSE UNCHANGED <<condemned, home>>
  /\ UNCHANGED <<tboots, lost, warm>>

\* fail_trial's write, by the gate or the deadline, under the lock.
FailWrite(p) ==
  /\ phase = "up" /\ pc[p] = "failwrite" /\ CanLock(p)
  /\ \E ok \in BOOLEAN :
       /\ Replace(Bad(boot.slot), ok)
       /\ Goto(p, IF ok THEN "failbak" ELSE "done")
       /\ lock' = IF ok THEN p ELSE "free"
       /\ IF ok THEN UNCHANGED stopping ELSE Reboot
  /\ Condemn(env' = Bad(boot.slot))
  /\ UNCHANGED <<bak, torn, slots, phase, grub, boot, mark>>

\* Without the lock nothing is written: GRUB's count ends this trial.
FailNoLock(p) ==
  /\ phase = "up"
  /\ \/ pc[p] = "failnolock" /\ UNCHANGED budget
     \/ pc[p] = "failwrite" /\ LockTimeout(p) /\ UNCHANGED damage
  /\ Goto(p, "done")
  /\ Reboot
  /\ UNCHANGED <<esp, slots, phase, grub, boot, mark, lock, hist>>

FailBak(p) ==
  /\ phase = "up" /\ pc[p] = "failbak"
  /\ \E ok \in BOOLEAN : SyncBak(ok)
  /\ Goto(p, "done")
  /\ lock' = "free"
  /\ Reboot
  /\ UNCHANGED <<env, slots, phase, grub, boot, mark, hist>>

\* A shutdown stops the gate and the deadline wherever they are.  The gate
\* is also stopped when a step of it hangs past boat-commit.service's limit.
Killed(p) ==
  /\ phase = "up" /\ pc[p] \notin {"start", "armed", "done"}
  /\ IF stopping THEN UNCHANGED faults ELSE p = "gate" /\ Fault
  /\ Goto(p, "done")
  /\ lock' = IF lock = p THEN "free" ELSE lock
  /\ UNCHANGED <<esp, slots, phase, grub, run, damage, hist>>

-----------------------------------------------------------------------------
(***************************************************************************)
(* --shutdown: boat-trial-inhibit stops while the system goes down.        *)
(***************************************************************************)
Decided == mark \cap {"committed", "failed"} # {}

\* boat-trial-inhibit starts once the guard is through and /data mounted (or
\* given up on); only then does a shutdown have it to stop.
InhibitStarts ==
  /\ phase = "up" /\ pc["sd"] = "off" /\ boot.trial /\ ~stopping
  /\ pc["guard"] = "done"
  /\ Goto("sd", "armed")
  /\ UNCHANGED <<esp, slots, phase, grub, run, lock, budget, hist>>

\* The marks as they are before the lock is asked for.
ShutdownStarts ==
  /\ phase = "up" /\ pc["sd"] = "armed" /\ stopping
  /\ Goto("sd", IF Decided THEN "done" ELSE "lock")
  /\ UNCHANGED <<esp, slots, phase, grub, run, lock, budget, hist>>

\* GRUB boots the other slot next: this trial was left by a rollback.
RolledBack == env.order = Other(boot.slot) /\ env.ok[Other(boot.slot)]

Undecided == /\ ~Decided /\ Valid
             /\ env.ok[boot.slot] /\ ~env.com[boot.slot]

\* A retry that is not remembered.
Retried_Forgotten == FALSE

\* An earlier shutdown gave this trial its attempt back already.
Retried == env.retry = boot.slot

\* Under the lock: nothing to do, or no second retry.
ShutdownLeaves ==
  /\ phase = "up" /\ pc["sd"] = "lock"
  /\ \/ /\ CanLock("sd") /\ UNCHANGED budget
        /\ \/ ~Undecided
           \/ ~RolledBack /\ Retried
     \/ LockTimeout("sd") /\ UNCHANGED damage
  /\ Goto("sd", "done")
  /\ UNCHANGED <<esp, slots, phase, grub, run, lock, hist>>

\* Under the lock: a rollback is a verdict; any other shutdown gives the
\* trial its attempt back, once.
ShutdownWrites ==
  /\ phase = "up" /\ pc["sd"] = "lock" /\ CanLock("sd") /\ Undecided
  /\ \E ok \in BOOLEAN :
       /\ \/ /\ RolledBack
             /\ mark' = mark \cup {"failed"}
             /\ Replace(Bad(boot.slot), ok)
             /\ Condemn(env' = Bad(boot.slot))
          \/ /\ ~RolledBack /\ ~Retried
             /\ Replace([env EXCEPT !.try[boot.slot] = 0,
                                    !.retry = boot.slot], ok)
             /\ UNCHANGED <<mark, hist>>
       /\ Goto("sd", IF ok THEN "bak" ELSE "done")
       /\ lock' = IF ok THEN "sd" ELSE "free"
  /\ UNCHANGED <<bak, torn, slots, phase, grub, boot, stopping>>

ShutdownBak ==
  /\ phase = "up" /\ pc["sd"] = "bak"
  /\ \E ok \in BOOLEAN : SyncBak(ok)
  /\ Goto("sd", "done")
  /\ lock' = "free"
  /\ UNCHANGED <<env, slots, phase, grub, run, hist>>

CommitNext ==
  \/ GateStart \/ GateReset \/ GateResetBak \/ GateSettles
  \/ GateStayOff \/ GateStayBak
  \/ GatePasses \/ GateFails \/ GateCommit \/ GateCommitTimeout
  \/ GateCommitBak \/ GateFailMark \/ DeadlineFires \/ DeadlineDecides
  \/ \E p \in {"gate", "dl"} :
       FailWrite(p) \/ FailNoLock(p) \/ FailBak(p) \/ Killed(p)
  \/ InhibitStarts \/ ShutdownStarts \/ ShutdownLeaves \/ ShutdownWrites
  \/ ShutdownBak

=============================================================================
