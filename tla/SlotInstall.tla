----------------------------- MODULE SlotInstall -----------------------------
(***************************************************************************)
(* What an operator starts on the running board: an install into the other *)
(* slot (boat-update, RAUC's handlers, RAUC itself through the grub-editenv*)
(* wrapper), a rollback and the debug hold.  boat-update's own lock allows *)
(* one of them at a time (inst).                                           *)
(***************************************************************************)
EXTENDS BoardState

CONSTANT Ops    \* what operators ask for

ASSUME OpsAssumption == Ops \subseteq {"install", "rollback", "hold"}

InstSteps == {"idle", "pre", "prebak", "markbad", "badbak", "write", "writing",
              "activate", "actbak", "verify", "wrongbak",
              "rollback", "rollbak", "holdbak"}

Target == Other(boot.slot)

Inst(l) == phase = "up" /\ pc["inst"] = l

\* Somebody, or boat-update's timer, asks for something on a system that is
\* up: the guard is through and nv_update_verifier has run.
Asked(op) ==
  op \in Ops /\ Inst("idle") /\ pc["guard"] = "done" /\ warm = 0 /\ ~stopping

\* One step of an operation that writes grubenv under the A/B lock and goes
\* on to step l, or gives up when the lock or the write fails.
LockedWrite(new, l) ==
  \/ /\ CanLock("inst")
     /\ \E ok \in BOOLEAN :
          /\ Replace(new, ok)
          /\ Goto("inst", IF ok THEN l ELSE "idle")
          /\ lock' = IF ok THEN "inst" ELSE "free"
  \/ /\ LockTimeout("inst")
     /\ Goto("inst", "idle")
     /\ UNCHANGED <<env, lock, damage>>

\* Its copy to grubenv.bak: one that fails stops the operation if it must.
LockedBak(must, l) ==
  /\ \E ok \in BOOLEAN :
       /\ SyncBak(ok)
       /\ Goto("inst", IF ok \/ ~must THEN l ELSE "idle")
  /\ lock' = "free"

-----------------------------------------------------------------------------
\* An install that may start during a trial.
OnTrial_Never == FALSE

\* The running slot is on trial: no install may start.
OnTrial == IF boot.trial THEN "committed" \notin mark
           ELSE ~boot.last /\ ~env.com[boot.slot]

\* boat-update's gates and the pre-install handler's refusals, read without
\* the A/B lock.  What else they refuse (compatible, version, room, ...) is a
\* choice not to take this step.
InstallStarts ==
  /\ Asked("install")
  /\ Valid /\ ~OnTrial
  /\ Goto("inst", "pre")
  /\ UNCHANGED <<esp, slots, phase, grub, run, lock, budget, hist>>

\* The history of a target that is given a new chance.
Renewed(written) ==
  IF written THEN /\ tboots' = [tboots EXCEPT ![Target] = 0]
                  /\ condemned' = condemned \ {Target}
             ELSE UNCHANGED <<tboots, condemned>>

\* Only the retry is reset: the target keeps the commit of what was in it.
Uncommitted_RetryOnly == [env EXCEPT !.retry = NoSlot]

\* What pre-install writes: the target's next release is on trial.
Uncommitted == [env EXCEPT !.com[Target] = FALSE, !.retry = NoSlot]

\* pre-install, at its end: the target is on trial until one passes.
PreInstall ==
  /\ Inst("pre")
  /\ LockedWrite(Uncommitted, "prebak")
  /\ Renewed(env' = Uncommitted)
  /\ UNCHANGED <<bak, torn, slots, phase, grub, run, home, lost, warm>>

\* grubenv.bak must have it too before the target is touched.
PreInstallBak ==
  /\ Inst("prebak")
  /\ LockedBak(TRUE, "markbad")
  /\ UNCHANGED <<env, slots, phase, grub, run, hist>>

\* RAUC marks the target bad before it writes it (external: RAUC; the write
\* goes through the grub-editenv wrapper).
RaucMarkBad ==
  /\ Inst("markbad")
  /\ LockedWrite([env EXCEPT !.ok[Target] = FALSE, !.try[Target] = 0], "badbak")
  /\ UNCHANGED <<bak, torn, slots, phase, grub, run, hist>>

RaucMarkBadBak ==
  /\ Inst("badbak")
  /\ LockedBak(FALSE, "write")
  /\ UNCHANGED <<env, slots, phase, grub, run, hist>>

\* The first block written: what was in the target is gone.
RaucWrites ==
  /\ Inst("write")
  /\ good' = [good EXCEPT ![Target] = FALSE]
  /\ proven' = [proven EXCEPT ![Target] = FALSE]
  /\ Goto("inst", "writing")
  /\ UNCHANGED <<esp, phase, grub, run, lock, budget, hist>>

\* The image and the bundle hook's carry-over are in place; the release may
\* or may not be a healthy one.
RaucWritten ==
  /\ Inst("writing")
  /\ \E h \in BOOLEAN : good' = [good EXCEPT ![Target] = h]
  /\ Goto("inst", "activate")
  /\ UNCHANGED <<esp, proven, phase, grub, run, lock, budget, hist>>

\* RAUC gives up: a refused bundle, a lost link, a hook that failed.
RaucAborts ==
  /\ phase = "up" /\ pc["inst"] \in {"markbad", "write", "writing", "activate"}
  /\ Goto("inst", "idle")
  /\ UNCHANGED <<esp, slots, phase, grub, run, lock, budget, hist>>

\* RAUC activates the target: first in ORDER, usable, no attempt used.
RaucActivates ==
  /\ Inst("activate")
  /\ LockedWrite([env EXCEPT !.order = Target, !.ok[Target] = TRUE,
                             !.try[Target] = 0], "actbak")
  /\ UNCHANGED <<bak, torn, slots, phase, grub, run, hist>>

\* The wrapper's copy, and the post-install handler's, both best effort.
RaucActivatesBak ==
  /\ Inst("actbak")
  /\ LockedBak(FALSE, "verify")
  /\ UNCHANGED <<env, slots, phase, grub, run, hist>>

\* The install is done - or a stream brought another release than the index
\* offered: the target is marked bad and this slot put first again.
InstallDone ==
  /\ Inst("verify")
  /\ Goto("inst", "idle")
  /\ UNCHANGED <<esp, slots, phase, grub, run, lock, budget, hist>>

StreamWrong ==
  /\ Inst("verify")
  /\ LockedWrite([env EXCEPT !.order = boot.slot, !.ok[Target] = FALSE,
                             !.try[Target] = 0], "wrongbak")
  /\ UNCHANGED <<bak, torn, slots, phase, grub, run, hist>>

StreamWrongBak ==
  /\ Inst("wrongbak")
  /\ LockedBak(TRUE, "idle")
  /\ UNCHANGED <<env, slots, phase, grub, run, hist>>

-----------------------------------------------------------------------------
\* do_rollback: the other slot must be usable when it is asked ...
RollbackAsked ==
  /\ Asked("rollback")
  /\ Valid /\ env.ok[Target]
  /\ Goto("inst", "rollback")
  /\ UNCHANGED <<esp, slots, phase, grub, run, lock, budget, hist>>

\* ... and once it is confirmed, comes first, usable, no attempt used.
Rollback ==
  /\ Inst("rollback")
  /\ LET new == [env EXCEPT !.order = Target, !.ok[Target] = TRUE,
                            !.try[Target] = 0]
     IN  /\ LockedWrite(new, "rollbak")
         /\ home' = IF env' = new /\ env.com[Target] THEN Target ELSE home
         /\ condemned' = IF env' = new THEN condemned \ {Target} ELSE condemned
         /\ tboots' = IF env' = new THEN [s \in Slots |-> 0] ELSE tboots
  /\ UNCHANGED <<bak, torn, slots, phase, grub, run, lost, warm>>

\* Only a rollback that was written whole is followed by its reboot.
RollbackBak ==
  /\ Inst("rollbak")
  /\ \E ok \in BOOLEAN : SyncBak(ok) /\ stopping' = (stopping \/ ok)
  /\ Goto("inst", "idle")
  /\ lock' = "free"
  /\ UNCHANGED <<env, slots, phase, grub, boot, mark, hist>>

\* do_debug_hold.
DebugHold ==
  /\ Asked("hold")
  /\ \E on \in BOOLEAN : LockedWrite([env EXCEPT !.stay = on], "holdbak")
  /\ UNCHANGED <<bak, torn, slots, phase, grub, run, hist>>

DebugHoldBak ==
  /\ Inst("holdbak")
  /\ LockedBak(TRUE, "idle")
  /\ UNCHANGED <<env, slots, phase, grub, run, hist>>

\* A shutdown stops whatever boat-update and RAUC were doing.
InstallKilled ==
  /\ phase = "up" /\ pc["inst"] # "idle" /\ stopping
  /\ Goto("inst", "idle")
  /\ lock' = IF lock = "inst" THEN "free" ELSE lock
  /\ UNCHANGED <<esp, slots, phase, grub, run, budget, hist>>

InstallNext ==
  \/ InstallStarts \/ PreInstall \/ PreInstallBak
  \/ RaucMarkBad \/ RaucMarkBadBak \/ RaucWrites \/ RaucWritten \/ RaucAborts
  \/ RaucActivates \/ RaucActivatesBak
  \/ InstallDone \/ StreamWrong \/ StreamWrongBak
  \/ RollbackAsked \/ Rollback \/ RollbackBak
  \/ DebugHold \/ DebugHoldBak \/ InstallKilled

=============================================================================
