---------------------------- MODULE GrubenvGuard ----------------------------
(***************************************************************************)
(* boat-grubenv-guard: early on every boot, give a committed slot its      *)
(* attempts back, write down the slot GRUB could not mark on a hand-over,  *)
(* and bring grubenv.bak up to date - or rebuild a torn grubenv from what  *)
(* this boot itself proves.                                                *)
(***************************************************************************)
EXTENDS BoardState

GuardSteps == {"start", "run", "resetbak", "hand", "bak", "rebuildbak", "done"}

\* The history of a boot the guard has seen to: on one that is neither a trial
\* nor a last resort, the board is where it belongs.
Reached ==
  /\ lost' = 0
  /\ home' = IF boot.trial \/ boot.last THEN home ELSE boot.slot
  /\ UNCHANGED <<condemned, warm>>

\* The guard exits, and with it goes its lock.
GuardEnds == Goto("guard", "done") /\ lock' = "free"

\* ab_lock.
GuardLock ==
  /\ phase = "up" /\ pc["guard"] = "start"
  /\ CanLock("guard")
  /\ lock' = "guard"
  /\ Goto("guard", "run")
  /\ UNCHANGED <<esp, slots, phase, grub, run, budget, hist>>

\* The guard dies with an alert: the ESP is not mounted, the layout is not
\* this image's, or the lock is not to be had.  Nothing is written.
GuardDies ==
  /\ phase = "up" /\ pc["guard"] = "start"
  /\ Fault
  /\ Goto("guard", "done")
  /\ UNCHANGED <<esp, slots, phase, grub, run, lock, damage, hist>>

\* A committed boot, and GRUB's count of it still stands.
ToReset == /\ ~boot.trial /\ ~boot.last
           /\ env.com[boot.slot] /\ env.try[boot.slot] # 0

\* A valid grubenv: reset the committed slot's attempts.
GuardReset ==
  /\ phase = "up" /\ pc["guard"] = "run" /\ Valid
  /\ \/ /\ ToReset
        /\ \E ok \in BOOLEAN :
             /\ Replace([env EXCEPT !.try[boot.slot] = 0], ok)
             /\ Goto("guard", IF ok THEN "resetbak" ELSE "hand")
     \/ /\ ~ToReset
        /\ Goto("guard", "hand")
        /\ UNCHANGED <<env, budget>>
  /\ Reached
  /\ UNCHANGED <<bak, torn, slots, phase, grub, run, lock, tboots>>

\* grubenv_set's second half: the copy to grubenv.bak.
GuardResetBak ==
  /\ phase = "up" /\ pc["guard"] = "resetbak"
  /\ \E ok \in BOOLEAN : SyncBak(ok)
  /\ Goto("guard", "hand")
  /\ UNCHANGED <<env, slots, phase, grub, run, lock, hist>>

\* The mark GRUB could not write on a hand-over.
GuardHand ==
  /\ phase = "up" /\ pc["guard"] = "hand"
  /\ LET other == Other(boot.slot)
     IN  \/ /\ boot.hand /\ (Valid => env.ok[other])
            /\ \E ok \in BOOLEAN : Replace([env EXCEPT !.ok[other] = FALSE], ok)
         \/ /\ ~boot.hand \/ (Valid /\ ~env.ok[other])
            /\ UNCHANGED <<env, budget>>
  /\ Goto("guard", "bak")
  /\ UNCHANGED <<bak, torn, slots, phase, grub, run, lock, hist>>

\* grubenv.bak becomes a copy of grubenv; a failure is an alert.
GuardBak ==
  /\ phase = "up" /\ pc["guard"] = "bak"
  /\ \E ok \in BOOLEAN : SyncBak(ok)
  /\ GuardEnds
  /\ UNCHANGED <<env, slots, phase, grub, run, hist>>

-----------------------------------------------------------------------------
\* A rebuild that takes the slot it knows nothing of for a committed one.
Rebuilt_TrustsOther ==
  [order |-> boot.slot, ok |-> [x \in Slots |-> TRUE],
   try |-> [x \in Slots |-> 0], com |-> [x \in Slots |-> TRUE],
   retry |-> NoSlot, stay |-> FALSE]

\* A rebuild that gives a trial its attempt back.
Rebuilt_Uncounted ==
  [order |-> boot.slot, ok |-> [x \in Slots |-> x = boot.slot \/ boot.trial],
   try |-> [x \in Slots |-> 0],
   com |-> [x \in Slots |-> IF x = boot.slot THEN ~boot.trial /\ ~boot.last
                            ELSE boot.trial],
   retry |-> NoSlot, stay |-> FALSE]

(***************************************************************************)
(* The grubenv the guard builds from the kernel command line alone.        *)
(***************************************************************************)
Rebuilt ==
  LET s == boot.slot
  IN  [order |-> s,
       ok    |-> [x \in Slots |-> x = s \/ boot.trial],
       try   |-> [x \in Slots |-> IF x = s /\ boot.trial THEN 1 ELSE 0],
       com   |-> [x \in Slots |-> IF x = s THEN ~boot.trial /\ ~boot.last
                                  ELSE boot.trial],
       retry |-> NoSlot,
       stay  |-> FALSE]

\* A torn grubenv is replaced by the rebuilt one.
GuardRebuild ==
  /\ phase = "up" /\ pc["guard"] = "run" /\ ~Valid
  /\ env' = Rebuilt
  /\ torn' = torn \ {"env"}
  /\ Goto("guard", "rebuildbak")
  /\ tboots' = IF boot.last THEN [tboots EXCEPT ![boot.slot] = 0] ELSE tboots
  /\ Reached
  /\ UNCHANGED <<bak, slots, phase, grub, run, lock, budget>>

\* The ESP refuses the rebuilt file: the torn one stays.
GuardRebuildFails ==
  /\ phase = "up" /\ pc["guard"] = "run" /\ ~Valid
  /\ Fault
  /\ GuardEnds
  /\ UNCHANGED <<esp, slots, phase, grub, run, damage, hist>>

GuardRebuildBak ==
  /\ phase = "up" /\ pc["guard"] = "rebuildbak"
  /\ \E ok \in BOOLEAN : SyncBak(ok)
  /\ GuardEnds
  /\ UNCHANGED <<env, slots, phase, grub, run, hist>>

GuardNext ==
  \/ GuardLock \/ GuardDies \/ GuardReset \/ GuardResetBak \/ GuardHand
  \/ GuardBak \/ GuardRebuild \/ GuardRebuildFails \/ GuardRebuildBak

=============================================================================
