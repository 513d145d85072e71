----------------------------- MODULE BoardState -----------------------------
(***************************************************************************)
(* The state the A/B boot chain of the boat computer works on, shared by   *)
(* every part of it: the two copies of GRUB's environment block on the ESP *)
(* (grubenv, grubenv.bak), the two root file system slots, the kernel      *)
(* command line and /run of the running boot, and the one lock every       *)
(* writer of grubenv takes.  The modules that extend this one hold one     *)
(* component each; ABBoard composes them.                                  *)
(***************************************************************************)
EXTENDS Naturals

CONSTANTS
  MaxFaults,    \* write errors, lock time-outs and load errors that may happen
  MaxDamage     \* losses: a torn grubenv or .bak, a slot whose disk goes bad

ASSUME BudgetAssumption == MaxFaults \in Nat /\ MaxDamage \in Nat

VARIABLES
  env,      \* grubenv on the ESP, as its readers see it
  bak,      \* grubenv.bak
  torn,     \* which of the two is unreadable
  good,     \* slot -> its release loads, comes up and is healthy
  proven,   \* slot -> what is in it was flashed, or has passed a trial
  phase,    \* where the board is: off, in GRUB (three steps), up, recovery
  grub,     \* GRUB's own variables while it runs
  boot,     \* the kernel command line of this boot
  mark,     \* boat-commit's marks of this boot, in /run/boat-ab
  pc,       \* where each process of the running system is
  lock,     \* who holds /run/boat-ab/commit.lock
  stopping, \* systemd is shutting the system down
  faults,   \* what is left of MaxFaults
  damage,   \* what is left of MaxDamage
  tboots,   \* history: slot -> trial boots since an install of it began, its
            \* commit, a rollback, or a grubenv rebuilt by a last resort boot
  condemned,\* history: slots with a failed trial in grubenv, until an install
            \* into them begins or a rollback to them
  home,     \* history: the slot the board belongs in
  lost,     \* history: boots in a row that ended before the guard or the
            \* gate had reset the attempt count
  warm      \* NVIDIA's count of warm boots that never reached userspace

esp    == <<env, bak, torn>>
slots  == <<good, proven>>
run    == <<boot, mark, stopping>>
budget == <<faults, damage>>
hist   == <<tboots, condemned, home, lost, warm>>
vars   == <<esp, slots, phase, grub, run, pc, lock, budget, hist>>

-----------------------------------------------------------------------------
Slots == {"A", "B"}
NoSlot == "none"

Other(s) == IF s = "A" THEN "B" ELSE "A"

(***************************************************************************)
(* grubenv: ORDER by the slot that comes first, x_OK, x_TRY, x_COMMITTED,  *)
(* BOAT_RETRY and BOAT_STAY.  A block that does not parse, or holds a      *)
(* value grub.cfg does not know, is torn.                                  *)
(***************************************************************************)
Env == [order : Slots, ok : [Slots -> BOOLEAN], try : [Slots -> 0..2],
        com : [Slots -> BOOLEAN], retry : Slots \cup {NoSlot}, stay : BOOLEAN]

\* The flash: A is written and committed, B is empty.
Flashed == [order |-> "A", ok |-> [s \in Slots |-> s = "A"],
            try |-> [s \in Slots |-> 0], com |-> [s \in Slots |-> s = "A"],
            retry |-> NoSlot, stay |-> FALSE]

Valid == "env" \notin torn

Cmdline == [slot : Slots, trial : BOOLEAN, last : BOOLEAN, hand : BOOLEAN,
            stay : BOOLEAN]

\* boat-grubenv-guard; boat-commit, its --deadline and its --shutdown; and
\* whatever boat-update is doing.
Procs == {"guard", "gate", "dl", "sd", "inst"}

\* The processes of a boot that has just started.
Fresh == [p \in Procs |-> CASE p \in {"guard", "gate"} -> "start"
                            [] p = "dl" -> "armed"
                            [] p = "sd" -> "off"
                            [] p = "inst" -> "idle"]

\* What the power takes with it: memory and /run.
NoBoot == [slot |-> "A", trial |-> FALSE, last |-> FALSE, hand |-> FALSE,
           stay |-> FALSE]
RunCleared ==
  boot' = NoBoot /\ mark' = {} /\ stopping' = FALSE /\ pc' = Fresh /\ lock' = "free"

-----------------------------------------------------------------------------
(***************************************************************************)
(* lib.sh.                                                                 *)
(***************************************************************************)
Fault == faults > 0 /\ faults' = faults - 1

\* ab_lock succeeds: nobody holds it, or this run of the script already does.
CanLock(p) == lock \in {"free", p}

\* ab_lock fails: someone else held it for all of BOAT_AB_LOCK_WAIT.
LockTimeout(p) == ~CanLock(p) /\ Fault

\* grubenv_replace: edit a copy, rename it over grubenv, flush.  It fails on
\* a torn block (grub-editenv refuses it) or when a step of it does; when
\* that step came after the rename, grubenv has changed all the same.
Replace(new, ok) ==
  /\ UNCHANGED damage
  /\ \/ ok /\ Valid /\ env' = new /\ UNCHANGED faults
     \/ ~ok /\ ~Valid /\ UNCHANGED <<env, faults>>
     \/ ~ok /\ Valid /\ env' \in {env, new} /\ Fault

\* grubenv_sync_bak: make grubenv.bak a copy of grubenv, whatever that is.
\* A step that fails after the rename leaves the copy in place.
BakCopied ==
  /\ bak' = env
  /\ torn' = IF Valid THEN torn \ {"bak"} ELSE torn \cup {"bak"}

SyncBak(ok) ==
  /\ UNCHANGED damage
  /\ \/ ok /\ BakCopied /\ UNCHANGED faults
     \/ ~ok /\ Fault /\ (BakCopied \/ UNCHANGED <<bak, torn>>)

\* Process p goes on to step l.
Goto(p, l) == pc' = [pc EXCEPT ![p] = l]

=============================================================================
