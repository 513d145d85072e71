-------------------------------- MODULE Grub --------------------------------
(***************************************************************************)
(* grub.cfg: pick a slot, count the attempt, load it; mark a slot that     *)
(* would not load, hand over within the boot when the mark cannot be       *)
(* written, and boot something uncounted when no slot qualifies.  A power  *)
(* cut may come between any two of these steps.                            *)
(***************************************************************************)
EXTENDS BoardState

GrubVars == [mem : Env, envok : BOOLEAN, skip : Slots \cup {NoSlot},
             failed : Slots \cup {NoSlot}, chosen : Slots \cup {NoSlot},
             i : 1..3]

GrubPhases == {"pick", "count", "load", "none"}

\* grub.cfg's own defaults, used when neither copy can be read.
Defaults == Flashed

\* While GRUB does not run.
GrubIdle == [mem |-> Flashed, envok |-> FALSE, skip |-> NoSlot,
             failed |-> NoSlot, chosen |-> NoSlot, i |-> 1]

\* The i-th slot of ORDER.
SlotAt(e, i) == IF i = 1 THEN e.order ELSE Other(e.order)

\* Three ways to get the limits wrong: a committed slot loses its second
\* attempt; it has as many as NVIDIA's own counter; a trial never runs out.
Limit_OneForAll(e, s)    == 1
Limit_FourCommitted(e, s) == IF e.com[s] THEN 4 ELSE 1
Limit_EndlessTrial(e, s) == IF e.com[s] THEN 2 ELSE 3

\* BOAT_LIMIT: the attempts a slot has.
Limit(e, s) == IF e.com[s] THEN 2 ELSE 1

\* A save that goes to another file than the one that is read.
Saved_Elsewhere(new) == Valid /\ UNCHANGED <<env, budget>>

\* save_env rewrites a readable block in place; a torn one, or an ESP that
\* refuses writes, makes it fail.
Saved(new) == Valid /\ env' = new /\ UNCHANGED budget
NotSaved   == /\ UNCHANGED <<env, damage>>
              /\ \/ ~Valid /\ UNCHANGED faults
                 \/ Valid /\ Fault

\* The reset at the end of every path that booted nothing: a warm boot.
WarmReset ==
  /\ phase' = "off"
  /\ grub' = GrubIdle
  /\ warm' = IF warm < 4 THEN warm + 1 ELSE 4
  /\ lost' = IF lost < 4 THEN lost + 1 ELSE 4
  /\ UNCHANGED <<tboots, condemned, home>>

\* L4TLauncher starts GRUB, which reads grubenv, else grubenv.bak, else uses
\* its defaults; without a readable grubenv nothing is saved this boot.
GrubStart ==
  /\ phase = "off" /\ warm < 4
  /\ phase' = "pick"
  /\ grub' = [mem |-> IF Valid THEN env
                      ELSE IF "bak" \notin torn THEN bak ELSE Defaults,
              envok |-> Valid, skip |-> NoSlot, failed |-> NoSlot,
              chosen |-> NoSlot, i |-> 1]
  /\ UNCHANGED <<esp, slots, run, pc, lock, budget, hist>>

-----------------------------------------------------------------------------
(***************************************************************************)
(* pick_slot, one slot of ORDER at a time.                                 *)
(***************************************************************************)
\* A loop that goes on past the end of ORDER.
Scanning_PastEnd == phase = "pick"

\* The loop is at a slot of ORDER.
Scanning == phase = "pick" /\ grub.i < 3

\* Passed over: skipped, not usable, or on trial with nowhere to count it.
PickPass ==
  /\ Scanning
  /\ LET s == SlotAt(grub.mem, grub.i)
     IN  \/ s = grub.skip
         \/ ~grub.mem.ok[s]
         \/ /\ grub.mem.try[s] < Limit(grub.mem, s)
            /\ ~grub.mem.com[s] /\ ~grub.envok
  /\ grub' = [grub EXCEPT !.i = grub.i + 1]
  /\ UNCHANGED <<esp, slots, phase, run, pc, lock, budget, hist>>

\* Used up its attempts: marked bad, in grubenv too when it can be saved.
PickExhausted ==
  /\ Scanning
  /\ LET s == SlotAt(grub.mem, grub.i)
     IN  /\ s # grub.skip
         /\ grub.mem.ok[s]
         /\ grub.mem.try[s] >= Limit(grub.mem, s)
         /\ grub' = [grub EXCEPT !.i = grub.i + 1, !.mem.ok[s] = FALSE]
         /\ \/ grub.envok /\ Saved([env EXCEPT !.ok[s] = FALSE])
            \/ grub.envok /\ NotSaved
            \/ ~grub.envok /\ UNCHANGED <<env, budget>>
  /\ UNCHANGED <<bak, torn, slots, phase, run, pc, lock, hist>>

\* The first slot that qualifies is chosen; its attempt is counted in memory.
PickChoose ==
  /\ Scanning
  /\ LET s == SlotAt(grub.mem, grub.i)
     IN  /\ s # grub.skip
         /\ grub.mem.ok[s]
         /\ grub.mem.try[s] < Limit(grub.mem, s)
         /\ grub.mem.com[s] \/ grub.envok
         /\ grub' = [grub EXCEPT !.chosen = s,
                                 !.mem.try[s] = IF @ = 0 THEN 1 ELSE 2]
  /\ phase' = "count"
  /\ UNCHANGED <<esp, slots, run, pc, lock, budget, hist>>

\* No slot of ORDER qualifies.
PickNone ==
  /\ phase = "pick" /\ grub.i = 3
  /\ phase' = "none"
  /\ grub' = [grub EXCEPT !.chosen = NoSlot]
  /\ UNCHANGED <<esp, slots, run, pc, lock, budget, hist>>

Repick(g) == [g EXCEPT !.envok = FALSE, !.skip = g.chosen, !.chosen = NoSlot,
                       !.i = 1]

\* An attempt that was not saved is booted, trial or not.
BootsUncounted_Always == TRUE

\* Only a committed slot is booted when its attempt could not be saved.
BootsUncounted == grub.mem.com[grub.chosen]

\* The attempt is saved before the kernel is loaded.  When it cannot be, a
\* committed slot is booted anyway and one on trial is passed over.
GrubCount ==
  /\ phase = "count"
  /\ \/ /\ grub.envok /\ Saved([env EXCEPT !.try = grub.mem.try])
        /\ phase' = "load" /\ UNCHANGED grub
     \/ /\ grub.envok /\ NotSaved
        /\ IF BootsUncounted
             THEN phase' = "load" /\ UNCHANGED grub
             ELSE phase' = "pick" /\ grub' = Repick(grub)
     \/ /\ ~grub.envok
        /\ phase' = "load" /\ UNCHANGED <<grub, env, budget>>
  /\ UNCHANGED <<bak, torn, slots, run, pc, lock, hist>>

-----------------------------------------------------------------------------
\* boot_chosen started slot s's kernel.
Started(s, trial, last) ==
  /\ phase' = "up"
  /\ grub' = GrubIdle
  /\ boot' = [slot |-> s, trial |-> trial, last |-> last,
              hand |-> ~last /\ grub.failed # NoSlot, stay |-> grub.mem.stay]
  /\ tboots' = IF trial THEN [tboots EXCEPT ![s] = @ + 1] ELSE tboots
  /\ UNCHANGED <<mark, stopping, pc, lock, condemned, home, lost, warm>>

\* The chosen slot loads.
GrubBoot ==
  /\ phase = "load"
  /\ Started(grub.chosen, ~grub.mem.com[grub.chosen], FALSE)
  /\ UNCHANGED <<esp, slots, budget>>

\* None of these slots loads.  One that is not good may fail to; a good one
\* does on a read error.
NoneLoads(S) == IF \E s \in S : good[s] THEN Fault ELSE UNCHANGED faults

\* Its kernel or initrd did not load, and that could be saved: reset.
LoadFailed ==
  /\ phase = "load" /\ grub.failed = NoSlot /\ grub.envok
  /\ NoneLoads({grub.chosen})
  /\ Valid
  /\ env' = [env EXCEPT !.ok = [grub.mem.ok EXCEPT ![grub.chosen] = FALSE]]
  /\ WarmReset
  /\ UNCHANGED <<bak, torn, slots, run, pc, lock, damage>>

\* It could not be saved: pick again within this boot, uncounted.  (A good
\* slot's read error and the refused save are one fault here: one bad disk.)
HandOver ==
  /\ phase = "load" /\ grub.failed = NoSlot
  /\ IF good[grub.chosen] \/ (grub.envok /\ Valid)
       THEN Fault ELSE UNCHANGED faults
  /\ phase' = "pick"
  /\ grub' = [Repick(grub) EXCEPT !.failed = grub.chosen,
                                  !.mem.ok[grub.chosen] = FALSE]
  /\ UNCHANGED <<esp, slots, run, pc, lock, damage, hist>>

\* The slot handed over to did not load either.
HandOverFailed ==
  /\ phase = "load" /\ grub.failed # NoSlot
  /\ NoneLoads({grub.chosen})
  /\ WarmReset
  /\ UNCHANGED <<esp, slots, run, pc, lock, damage>>

\* The last resort's order: committed slots in ORDER, then A, then B.
Before(s, t) ==
  /\ s # t
  /\ IF grub.mem.com[s] = grub.mem.com[t]
       THEN s = IF grub.mem.com[s] THEN grub.mem.order ELSE "A"
       ELSE grub.mem.com[s]

\* Its candidates: never a slot that already failed to load this boot.
Candidates == Slots \ {grub.failed}

\* No slot qualifies: boot the first candidate that loads, writing nothing.
LastResort ==
  /\ phase = "none"
  /\ \E s \in Candidates :
       /\ NoneLoads({t \in Candidates : Before(t, s)})
       /\ Started(s, FALSE, TRUE)
  /\ UNCHANGED <<esp, slots, damage>>

\* None of them does.
NothingLoads ==
  /\ phase = "none"
  /\ NoneLoads(Candidates)
  /\ WarmReset
  /\ UNCHANGED <<esp, slots, run, pc, lock, damage>>

\* L4TLauncher's own counter: the fourth warm boot in a row that reached no
\* userspace sends every later boot to the empty recovery partition.
NvidiaTrips ==
  /\ phase = "off" /\ warm = 4
  /\ phase' = "recovery"
  /\ UNCHANGED <<esp, slots, grub, run, pc, lock, budget, hist>>

GrubNext ==
  \/ GrubStart \/ PickPass \/ PickExhausted \/ PickChoose \/ PickNone
  \/ GrubCount \/ GrubBoot \/ LoadFailed \/ HandOver \/ HandOverFailed
  \/ LastResort \/ NothingLoads \/ NvidiaTrips

=============================================================================
