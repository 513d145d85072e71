-------------------------- MODULE ContractProofs ---------------------------
(***************************************************************************)
(* The verdicts on a trial stand, the board implements SlotContract, trial *)
(* boots run out and are watched, the board stays where it belongs, and    *)
(* NVIDIA's recovery comes last.                                           *)
(*                                                                         *)
(* Verdicts.  The gate, the deadline, the shutdown, the guard and an       *)
(* install write grubenv one at a time (LockInv), and a commit is still    *)
(* what grubenv says when it is recorded, and from then on (VerdictInv).   *)
(*                                                                         *)
(* The contract.  As long as nothing is lost, it takes one more invariant  *)
(* than that and what is proved about commits (Sound): what an install and *)
(* a commit that are under way were let start with still holds             *)
(* (ContractInv).  Losses keep it as long as each is recoverable, and one  *)
(* that comes before any fault is: until then some slot is committed, and  *)
(* beside a trial, or as the last resort, GRUB boots only such (Anchored). *)
(*                                                                         *)
(* Trials.  The boots a release has had and those grubenv still has for it *)
(* never come to more than the bound, which faults and losses raise        *)
(* (LeftInv); for that GRUB must pass over no trial that has its attempt   *)
(* (PassInv), and the running system start no install beside one (RunInv). *)
(* And while nothing is lost, a slot that has failed is not usable again   *)
(* until an install or a rollback takes that back (FailedInv).             *)
(*                                                                         *)
(* Deadline.  A trial that runs on has its deadline before it, or there is *)
(* a verdict and, unless the gate was killed by a fault, a reboot under    *)
(* way (WatchInv).                                                         *)
(*                                                                         *)
(* Home.  As long as nothing fails, wherever the other slot could be       *)
(* booted outside of a trial, home comes first in grubenv and has an       *)
(* attempt for each boot in a row that was lost, and one more (HomeInv).   *)
(*                                                                         *)
(* Recovery.  While a slot could be booted instead, each boot in a row     *)
(* that died before the guard has used up an attempt of the other slot, or *)
(* taken a fault (RecoveryInv).                                            *)
(***************************************************************************)
EXTENDS ABBoardProofs, ABRefinement

(***************************************************************************)
(* Verdicts.                                                               *)
(***************************************************************************)
\* Who is between a write and the end of its critical section has the lock.
Holds(p) ==
  \/ p = "guard" /\ pc[p] \in {"run", "resetbak", "hand", "bak", "rebuildbak"}
  \/ p = "gate" /\ pc[p] \in {"resetbak", "staybak", "commitbak", "failbak"}
  \/ p = "dl" /\ pc[p] \in {"failwrite", "failbak"}
  \/ p = "sd" /\ pc[p] = "bak"
  \/ p = "inst" /\ pc[p] \in {"prebak", "badbak", "actbak", "wrongbak", "rollbak",
                              "holdbak"}

LockInv == \A p \in Procs : Holds(p) => lock = p

\* The running slot is committed in a readable grubenv.
Stands == Valid /\ env.ok[boot.slot] /\ env.com[boot.slot]

\* The gate starts after the guard, resets only a committed boot's count, and
\* a commit stands from the moment it is written; from its mark on the gate
\* is through and the deadline not about to write.
VerdictInv ==
  /\ phase # "up" => pc = Fresh /\ mark = {}
  /\ pc["gate"] # "start" => pc["guard"] = "done"
  /\ pc["gate"] \in {"reset", "resetbak"} => ~boot.trial
  /\ pc["gate"] = "commitbak" => Stands
  /\ "committed" \in mark =>
       Stands /\ pc["gate"] = "done" /\ pc["dl"] \notin {"failwrite", "failbak"}

\* A step of process p that takes, keeps or gives back only its own lock.
OwnLock(p) ==
  /\ \A q \in Procs : q # p /\ Holds(q)' => Holds(q)
  /\ lock' = lock \/ (lock \in {"free", p} /\ lock' \in {"free", p})
  /\ Holds(p)' => lock' = p

\* Such a step keeps the lock's discipline.
LEMMA OwnLockStep ==
  ASSUME LockInv, NEW p \in Procs, OwnLock(p)
  PROVE  LockInv'
<1> SUFFICES ASSUME NEW q \in Procs, Holds(q)' PROVE lock' = q
  BY DEF LockInv
<1>1. CASE q = p
  BY <1>1 DEF OwnLock
<1>2. CASE q # p
  <2>1. lock = q
    BY <1>2 DEF OwnLock, LockInv
  <2>2. q # "free"
    BY DEF Procs
  <2> QED BY <1>2, <2>1, <2>2 DEF OwnLock
<1> QED BY <1>1, <1>2

\* One process moves at a time.
LEMMA GotoHolds ==
  ASSUME TypeOK, NEW p \in Procs, NEW l, Goto(p, l)
  PROVE  /\ pc'[p] = l
         /\ \A q \in Procs : q # p => pc'[q] = pc[q]
         /\ \A q \in Procs : q # p /\ Holds(q)' => Holds(q)
<1>1. pc'[p] = l /\ \A q \in Procs : q # p => pc'[q] = pc[q]
  BY DEF TypeOK, PcOK, Goto
<1> QED BY <1>1 DEF Holds

\* The guard keeps the lock from ab_lock to its end.
LEMMA GuardLocks == TypeOK /\ LockInv /\ GuardNext => LockInv'
<1> SUFFICES ASSUME TypeOK, LockInv, GuardNext PROVE OwnLock("guard")
  BY OwnLockStep DEF Procs
<1>p. "guard" \in Procs
  BY DEF Procs
<1>h. pc["guard"] \in {"run", "resetbak", "hand", "bak", "rebuildbak"} => lock = "guard"
  BY <1>p DEF LockInv, Holds
<1>1. CASE GuardLock
  BY <1>1, <1>p, GotoHolds DEF GuardLock, CanLock, OwnLock, Holds
<1>2. CASE GuardDies
  BY <1>2, <1>p, GotoHolds DEF GuardDies, OwnLock, Holds
<1>3. CASE GuardReset \/ GuardResetBak \/ GuardHand \/ GuardRebuild
  BY <1>3, <1>p, <1>h, GotoHolds
  DEF GuardReset, GuardResetBak, GuardHand, GuardRebuild, OwnLock, Holds
<1>4. CASE GuardBak \/ GuardRebuildFails \/ GuardRebuildBak
  BY <1>4, <1>p, <1>h, GotoHolds
  DEF GuardBak, GuardRebuildFails, GuardRebuildBak, GuardEnds, OwnLock, Holds
<1> QED BY <1>1, <1>2, <1>3, <1>4 DEF GuardNext

\* So do the gate, the deadline and the shutdown, each for its own writes.
LEMMA CommitLocks == TypeOK /\ LockInv /\ CommitNext => LockInv'
<1> SUFFICES ASSUME TypeOK, LockInv, CommitNext PROVE LockInv'
  OBVIOUS
<1>p. "gate" \in Procs /\ "dl" \in Procs /\ "sd" \in Procs
  BY DEF Procs
<1>h. /\ pc["gate"] \in {"resetbak", "staybak", "commitbak", "failbak"} => lock = "gate"
      /\ pc["dl"] \in {"failwrite", "failbak"} => lock = "dl"
      /\ pc["sd"] = "bak" => lock = "sd"
  BY <1>p DEF LockInv, Holds
<1>1. CASE GateStart \/ GateSettles \/ GatePasses \/ GateFails \/ GateFailMark
             \/ GateCommitTimeout
  <2>1. OwnLock("gate")
    BY <1>1, <1>p, GotoHolds
    DEF GateStart, GateSettles, GatePasses, GateFails, GateFailMark,
        GateCommitTimeout, OwnLock, Holds
  <2> QED BY <1>p, <2>1, OwnLockStep
<1>2. CASE GateReset \/ GateStayOff
  <2>1. OwnLock("gate")
    <3>1. PICK l \in {"resetbak", "staybak", "done"} :
            /\ Goto("gate", l)
            /\ \/ lock' = lock /\ l = "done"
               \/ CanLock("gate") /\ lock' = IF l = "done" THEN "free" ELSE "gate"
      BY <1>2 DEF GateReset, GateStayOff
    <3> QED
      BY <1>p, <3>1, GotoHolds DEF CanLock, OwnLock, Holds
  <2> QED BY <1>p, <2>1, OwnLockStep
<1>3. CASE GateResetBak \/ GateStayBak
  <2>1. OwnLock("gate")
    BY <1>3, <1>p, <1>h, GotoHolds DEF GateResetBak, GateStayBak, Gate, OwnLock, Holds
  <2> QED BY <1>p, <2>1, OwnLockStep
<1>4. CASE GateCommit
  <2>1. OwnLock("gate")
    <3>1. PICK l \in {"commitbak", "done"} :
            /\ Goto("gate", l) /\ CanLock("gate")
            /\ \/ lock' = lock /\ l = "done"
               \/ lock' = IF l = "done" THEN "free" ELSE "gate"
      BY <1>4 DEF GateCommit, CommitFailed
    <3> QED
      BY <1>p, <3>1, GotoHolds DEF CanLock, OwnLock, Holds
  <2> QED BY <1>p, <2>1, OwnLockStep
<1>5. CASE GateCommitBak
  <2>1. lock = "gate" /\ lock' = "free"
    BY <1>5, <1>h DEF GateCommitBak, Gate, CommitFailed
  <2>2. \A q \in Procs : Holds(q)' => Holds(q) /\ q # "gate"
    <3>1. CASE Goto("gate", "done")
      BY <1>p, <3>1, GotoHolds DEF Holds
    <3>2. CASE pc' = [pc EXCEPT !["gate"] = "done",
                            !["dl"] = IF @ = "armed" THEN "done" ELSE @,
                            !["sd"] = IF @ \in {"off", "armed"} THEN "done" ELSE @]
      <4>1. /\ pc'["gate"] = "done" /\ pc'["guard"] = pc["guard"]
            /\ pc'["inst"] = pc["inst"]
            /\ pc'["dl"] \in {pc["dl"], "done"} /\ pc'["sd"] \in {pc["sd"], "done"}
        BY <3>2 DEF TypeOK, PcOK, Procs
      <4> QED BY <4>1 DEF Holds
    <3> QED BY <1>5, <3>1, <3>2 DEF GateCommitBak, CommitFailed
  <2> QED BY <1>p, <2>1, <2>2, OwnLockStep DEF OwnLock
<1>6. CASE DeadlineFires
  <2>1. OwnLock("dl")
    BY <1>6, <1>p, GotoHolds DEF DeadlineFires, OwnLock, Holds
  <2> QED BY <1>p, <2>1, OwnLockStep
<1>7. CASE DeadlineDecides
  <2>1. OwnLock("dl")
    <3>1. PICK l \in {"failwrite", "failnolock", "done"} :
            /\ Goto("dl", l)
            /\ \/ lock' = lock /\ l # "failwrite"
               \/ CanLock("dl") /\ lock' = "dl"
      BY <1>7 DEF DeadlineDecides
    <3> QED
      BY <1>p, <3>1, GotoHolds DEF CanLock, OwnLock, Holds
  <2> QED BY <1>p, <2>1, OwnLockStep
<1>8. ASSUME NEW p \in {"gate", "dl"},
             FailWrite(p) \/ FailNoLock(p) \/ FailBak(p) \/ Killed(p)
      PROVE  LockInv'
  <2>p. p \in Procs
    BY <1>p
  <2>1. CASE FailWrite(p)
    <3>1. PICK l \in {"failbak", "done"} :
            /\ Goto(p, l) /\ CanLock(p)
            /\ lock' = IF l = "done" THEN "free" ELSE p
      BY <2>1 DEF FailWrite
    <3>2. OwnLock(p)
      BY <2>p, <3>1, GotoHolds DEF CanLock, OwnLock, Holds
    <3> QED BY <2>p, <3>2, OwnLockStep
  <2>2. CASE FailNoLock(p)
    <3>1. OwnLock(p)
      BY <2>2, <2>p, GotoHolds DEF FailNoLock, OwnLock, Holds
    <3> QED BY <2>p, <3>1, OwnLockStep
  <2>3. CASE FailBak(p)
    <3>1. lock = p /\ lock' = "free" /\ Goto(p, "done")
      BY <2>3, <1>h DEF FailBak
    <3>2. OwnLock(p)
      BY <2>p, <3>1, GotoHolds DEF OwnLock, Holds
    <3> QED BY <2>p, <3>2, OwnLockStep
  <2>4. CASE Killed(p)
    <3>1. Goto(p, "done") /\ lock' = IF lock = p THEN "free" ELSE lock
      BY <2>4 DEF Killed
    <3>2. OwnLock(p)
      BY <2>p, <3>1, GotoHolds DEF OwnLock, Holds
    <3> QED BY <2>p, <3>2, OwnLockStep
  <2> QED BY <1>8, <2>1, <2>2, <2>3, <2>4
<1>9. CASE InhibitStarts \/ ShutdownStarts \/ ShutdownLeaves
  <2>1. PICK l \in {"armed", "lock", "done"} : Goto("sd", l) /\ lock' = lock
    BY <1>9 DEF InhibitStarts, ShutdownStarts, ShutdownLeaves
  <2>2. OwnLock("sd")
    BY <1>p, <2>1, GotoHolds DEF OwnLock, Holds
  <2> QED BY <1>p, <2>2, OwnLockStep
<1>10. CASE ShutdownWrites
  <2>1. PICK l \in {"bak", "done"} :
          /\ Goto("sd", l) /\ CanLock("sd")
          /\ lock' = IF l = "done" THEN "free" ELSE "sd"
    BY <1>10 DEF ShutdownWrites
  <2>2. OwnLock("sd")
    BY <1>p, <2>1, GotoHolds DEF CanLock, OwnLock, Holds
  <2> QED BY <1>p, <2>2, OwnLockStep
<1>11. CASE ShutdownBak
  <2>1. OwnLock("sd")
    BY <1>11, <1>p, <1>h, GotoHolds DEF ShutdownBak, OwnLock, Holds
  <2> QED BY <1>p, <2>1, OwnLockStep
<1> QED
  BY <1>1, <1>2, <1>3, <1>4, <1>5, <1>6, <1>7, <1>8, <1>9, <1>10, <1>11
  DEF CommitNext

\* And so does every write of an install, a rollback and a debug hold.
LEMMA InstallLocks == TypeOK /\ LockInv /\ InstallNext => LockInv'
<1> SUFFICES ASSUME TypeOK, LockInv, InstallNext PROVE OwnLock("inst")
  BY OwnLockStep DEF Procs
<1>p. "inst" \in Procs
  BY DEF Procs
<1>h. pc["inst"] \in {"prebak", "badbak", "actbak", "wrongbak", "rollbak", "holdbak"}
        => lock = "inst"
  BY <1>p DEF LockInv, Holds
<1>w. ASSUME NEW new, NEW l, LockedWrite(new, l) PROVE OwnLock("inst")
  <2>1. CASE Goto("inst", "idle") /\ CanLock("inst") /\ lock' = "free"
    BY <1>p, <2>1, GotoHolds DEF CanLock, OwnLock, Holds
  <2>2. CASE Goto("inst", l) /\ CanLock("inst") /\ lock' = "inst"
    BY <1>p, <2>2, GotoHolds DEF CanLock, OwnLock
  <2>3. ASSUME NEW ok \in BOOLEAN, CanLock("inst"),
               Goto("inst", IF ok THEN l ELSE "idle"),
               lock' = IF ok THEN "inst" ELSE "free"
        PROVE  OwnLock("inst")
    <3>1. CASE ok
      BY <2>2, <2>3, <3>1
    <3>2. CASE ~ok
      BY <2>1, <2>3, <3>2
    <3> QED BY <3>1, <3>2
  <2>4. CASE CanLock("inst") /\ \E ok \in BOOLEAN :
               /\ Goto("inst", IF ok THEN l ELSE "idle")
               /\ lock' = IF ok THEN "inst" ELSE "free"
    <3>1. PICK ok \in BOOLEAN : /\ Goto("inst", IF ok THEN l ELSE "idle")
                                /\ lock' = IF ok THEN "inst" ELSE "free"
      BY <2>4
    <3> QED BY <2>3, <2>4, <3>1
  <2>5. CASE Goto("inst", "idle") /\ lock' = lock
    BY <1>p, <2>5, GotoHolds DEF OwnLock, Holds
  <2> QED BY <1>w, <2>4, <2>5 DEF LockedWrite
<1>b. ASSUME NEW must, NEW l \in {"markbad", "write", "verify", "idle"},
             LockedBak(must, l), lock = "inst"
      PROVE  OwnLock("inst")
  <2>1. PICK k \in {"markbad", "write", "verify", "idle"} : Goto("inst", k) /\ lock' = "free"
    BY <1>b DEF LockedBak
  <2> QED BY <1>p, <1>b, <2>1, GotoHolds DEF OwnLock, Holds
<1>1. CASE InstallStarts \/ RaucAborts \/ InstallDone \/ RollbackAsked \/ RaucWrites
             \/ RaucWritten
  BY <1>1, <1>p, GotoHolds
  DEF InstallStarts, RaucAborts, InstallDone, RollbackAsked, RaucWrites, RaucWritten,
      OwnLock, Holds
<1>2. CASE PreInstall \/ RaucMarkBad \/ RaucActivates \/ StreamWrong \/ Rollback
             \/ DebugHold
  BY <1>2, <1>w DEF PreInstall, RaucMarkBad, RaucActivates, StreamWrong, Rollback,
                    DebugHold
<1>3. CASE PreInstallBak \/ RaucMarkBadBak \/ RaucActivatesBak \/ StreamWrongBak
             \/ DebugHoldBak
  BY <1>3, <1>b, <1>h DEF PreInstallBak, RaucMarkBadBak, RaucActivatesBak,
                          StreamWrongBak, DebugHoldBak, Inst
<1>4. CASE RollbackBak
  BY <1>4, <1>p, <1>h, GotoHolds DEF RollbackBak, Inst, OwnLock, Holds
<1>5. CASE InstallKilled
  BY <1>5, <1>p, GotoHolds DEF InstallKilled, OwnLock, Holds
<1> QED BY <1>1, <1>2, <1>3, <1>4, <1>5 DEF InstallNext

\* The copy to grubenv.bak leaves grubenv itself as readable as it was.
LEMMA SyncBakValid == ASSUME BakCopied \/ (\E ok \in BOOLEAN : SyncBak(ok))
                      PROVE  Valid' <=> Valid
  BY DEF BakCopied, SyncBak, Valid

\* The guard is through before any verdict.
LEMMA GuardVerdict == TypeOK /\ VerdictInv /\ GuardNext => VerdictInv'
<1> SUFFICES ASSUME TypeOK, VerdictInv, GuardNext PROVE VerdictInv'
  OBVIOUS
<1>p. "guard" \in Procs /\ "gate" \in Procs
  BY DEF Procs
<1>1. pc["guard"] # "done" /\ mark' = mark /\ \E l : Goto("guard", l)
  BY DEF GuardNext, GuardLock, GuardDies, GuardReset, GuardResetBak, GuardHand,
         GuardBak, GuardRebuild, GuardRebuildFails, GuardRebuildBak, GuardEnds, run
<1>2. pc["gate"] = "start" /\ pc'["gate"] = "start"
  BY <1>p, <1>1, GotoOther DEF VerdictInv
<1> QED BY <1>1, <1>2, UpSteps DEF VerdictInv

\* What an install writes about the target is nothing about the running slot.
LEMMA InstallKeeps ==
  ASSUME TypeOK, InstallNext
  PROVE  /\ (Valid' <=> Valid) /\ UNCHANGED <<boot, mark>>
         /\ env'.ok[boot.slot] = env.ok[boot.slot]
         /\ env'.com[boot.slot] = env.com[boot.slot]
         /\ env'.try[boot.slot] = env.try[boot.slot]
         /\ \E l : Goto("inst", l)
<1> USE DEF esp, run, slots
<1>t. /\ env \in Env /\ boot.slot \in Slots /\ Target \in Slots /\ Target # boot.slot
      /\ env.ok \in [Slots -> BOOLEAN] /\ env.com \in [Slots -> BOOLEAN]
      /\ env.try \in [Slots -> 0..2]
  BY SlotTypes DEF TypeOK, EspOK, Env, RunOK, Target, Other, Slots
<1>w. ASSUME NEW new, NEW l, LockedWrite(new, l)
      PROVE  env' \in {env, new} /\ \E k : Goto("inst", k)
  BY <1>w, ReplaceKeeps DEF LockedWrite
<1>b. ASSUME NEW must, NEW l, LockedBak(must, l)
      PROVE  (Valid' <=> Valid) /\ \E k : Goto("inst", k)
  BY <1>b, SyncBakValid DEF LockedBak
<1>1. CASE InstallStarts \/ RaucAborts \/ InstallDone \/ RollbackAsked \/ RaucWrites
             \/ RaucWritten \/ InstallKilled
  BY <1>1 DEF InstallStarts, RaucAborts, InstallDone, RollbackAsked, RaucWrites,
              RaucWritten, InstallKilled, Valid
<1>2. CASE PreInstallBak \/ RaucMarkBadBak \/ RaucActivatesBak \/ StreamWrongBak
             \/ DebugHoldBak
  BY <1>2, <1>b DEF PreInstallBak, RaucMarkBadBak, RaucActivatesBak,
                    StreamWrongBak, DebugHoldBak
<1>3. CASE RollbackBak
  BY <1>3, SyncBakValid DEF RollbackBak
<1>4. CASE PreInstall \/ RaucMarkBad \/ RaucActivates \/ StreamWrong \/ Rollback
             \/ DebugHold
  <2>1. UNCHANGED <<torn, boot, mark>> /\ \E l : Goto("inst", l)
    BY <1>4, <1>w DEF PreInstall, RaucMarkBad, RaucActivates, StreamWrong, Rollback,
                      DebugHold
  <2>2. \/ env' \in {env, Uncommitted,
                     [env EXCEPT !.ok[Target] = FALSE, !.try[Target] = 0],
                     [env EXCEPT !.order = Target, !.ok[Target] = TRUE,
                                 !.try[Target] = 0],
                     [env EXCEPT !.order = boot.slot, !.ok[Target] = FALSE,
                                 !.try[Target] = 0]}
        \/ \E on \in BOOLEAN : env' = [env EXCEPT !.stay = on]
    BY <1>4, <1>w DEF PreInstall, RaucMarkBad, RaucActivates, StreamWrong, Rollback,
                      DebugHold
  <2>3. /\ env'.ok[boot.slot] = env.ok[boot.slot]
        /\ env'.com[boot.slot] = env.com[boot.slot]
        /\ env'.try[boot.slot] = env.try[boot.slot]
    <3>1. CASE env' \in {env, Uncommitted}
      BY <1>t, <3>1 DEF Uncommitted, Env
    <3>2. CASE env' = [env EXCEPT !.ok[Target] = FALSE, !.try[Target] = 0]
      BY <1>t, <3>2 DEF Env
    <3>3. CASE env' = [env EXCEPT !.order = Target, !.ok[Target] = TRUE,
                                  !.try[Target] = 0]
      BY <1>t, <3>3 DEF Env
    <3>4. CASE env' = [env EXCEPT !.order = boot.slot, !.ok[Target] = FALSE,
                                  !.try[Target] = 0]
      BY <1>t, <3>4 DEF Env
    <3>5. CASE \E on \in BOOLEAN : env' = [env EXCEPT !.stay = on]
      BY <1>t, <3>5 DEF Env
    <3> QED BY <2>2, <3>1, <3>2, <3>3, <3>4, <3>5
  <2> QED BY <2>1, <2>3 DEF Valid
<1> QED BY <1>1, <1>2, <1>3, <1>4 DEF InstallNext

\* So an install leaves every verdict standing.
LEMMA InstallVerdict == TypeOK /\ VerdictInv /\ InstallNext => VerdictInv'
<1> SUFFICES ASSUME TypeOK, VerdictInv, InstallNext PROVE VerdictInv'
  OBVIOUS
<1>1. /\ pc'["gate"] = pc["gate"] /\ pc'["guard"] = pc["guard"]
      /\ pc'["dl"] = pc["dl"]
  BY InstallKeeps, GotoOther DEF Procs
<1>2. Stands' <=> Stands
  BY InstallKeeps DEF Stands
<1> QED BY <1>1, <1>2, UpSteps, InstallKeeps DEF VerdictInv

\* Of boat-commit's steps only a commit makes the running slot usable on a
\* trial, and only one that already was.
LEMMA CommitKeepsBad ==
  ASSUME TypeOK, VerdictInv, CommitNext, boot.trial, ~env.ok[boot.slot]
  PROVE  ~env'.ok[boot.slot]
<1> USE DEF esp
<1>t. env \in Env /\ boot.slot \in Slots /\ env.ok \in [Slots -> BOOLEAN]
  BY SlotTypes DEF TypeOK, EspOK, Env, RunOK
<1>1. ~GateReset
  BY DEF GateReset, Gate, VerdictInv
<1>2. CASE GateCommit
  BY <1>2 DEF GateCommit, StillUsable
<1>3. CASE GateStayOff
  <2>1. env' \in {env, [env EXCEPT !.stay = FALSE]}
    BY <1>3, ReplaceKeeps DEF GateStayOff
  <2> QED BY <1>t, <2>1 DEF Env
<1>4. ~Bad(boot.slot).ok[boot.slot]
  BY <1>t DEF Bad, Env
<1>5. ASSUME NEW p \in {"gate", "dl"},
             FailWrite(p) \/ FailNoLock(p) \/ FailBak(p) \/ Killed(p)
      PROVE  ~env'.ok[boot.slot]
  BY <1>4, <1>5, ReplaceKeeps DEF FailWrite, FailNoLock, FailBak, Killed
<1>6. CASE ShutdownWrites
  <2>1. env' \in {env, Bad(boot.slot),
                  [env EXCEPT !.try[boot.slot] = 0, !.retry = boot.slot]}
    BY <1>6, ReplaceKeeps DEF ShutdownWrites
  <2>2. [env EXCEPT !.try[boot.slot] = 0, !.retry = boot.slot].ok = env.ok
    BY <1>t DEF Env
  <2> QED BY <1>4, <2>1, <2>2
<1>7. CASE GateStart \/ GateResetBak \/ GateSettles \/ GateStayBak \/ GatePasses
             \/ GateFails \/ GateCommitTimeout \/ GateCommitBak \/ GateFailMark
             \/ DeadlineFires \/ DeadlineDecides \/ InhibitStarts
             \/ ShutdownStarts \/ ShutdownLeaves \/ ShutdownBak
  BY <1>7 DEF GateStart, GateResetBak, GateSettles, GateStayBak, GatePasses,
              GateFails, GateCommitTimeout, GateCommitBak, GateFailMark,
              DeadlineFires, DeadlineDecides, InhibitStarts, ShutdownStarts,
              ShutdownLeaves, ShutdownBak
<1> QED BY <1>1, <1>2, <1>3, <1>5, <1>6, <1>7 DEF CommitNext

\* Under the lock a commit is written, copied and recorded undisturbed, and a
\* recorded one is left alone.
LEMMA CommitVerdict == TypeOK /\ LockInv /\ VerdictInv /\ CommitNext => VerdictInv'
<1> SUFFICES ASSUME TypeOK, LockInv, VerdictInv, CommitNext PROVE VerdictInv'
  OBVIOUS
<1> USE DEF esp, run
<1>u. phase = "up" /\ phase' = "up"
  BY UpSteps
<1>p. "gate" \in Procs /\ "dl" \in Procs /\ "sd" \in Procs /\ "guard" \in Procs
  BY DEF Procs
<1>h. /\ pc["gate"] = "commitbak" => lock = "gate"
      /\ pc["dl"] \in {"failwrite", "failbak"} => lock = "dl"
  BY <1>p DEF LockInv, Holds
<1>t. /\ env \in Env /\ boot.slot \in Slots
      /\ env.ok \in [Slots -> BOOLEAN] /\ env.com \in [Slots -> BOOLEAN]
  BY SlotTypes DEF TypeOK, EspOK, Env, RunOK
<1>c. "committed" \in mark => /\ pc["gate"] = "done" /\ Stands
                              /\ pc["dl"] \notin {"failwrite", "failbak"}
  BY DEF VerdictInv
\* A step of the gate before any mark.
<1>g. ASSUME NEW l, Goto("gate", l), boot' = boot, pc["gate"] # "done",
             "committed" \notin mark', pc["gate"] # "start" \/ pc["guard"] = "done",
             l \in {"reset", "resetbak"} => ~boot.trial,
             l = "commitbak" => Stands'
      PROVE  VerdictInv'
  <2>1. pc'["gate"] = l /\ pc'["guard"] = pc["guard"]
    BY <1>p, <1>g, GotoHolds
  <2> QED BY <1>u, <1>g, <2>1 DEF VerdictInv
\* A step of the deadline or the shutdown.
<1>d. ASSUME NEW p \in {"dl", "sd"}, NEW l, Goto(p, l), boot' = boot,
             mark' \in {mark, mark \cup {"failed"}},
             "committed" \in mark => p = "sd" \/ l \notin {"failwrite", "failbak"},
             "committed" \in mark \/ pc["gate"] = "commitbak" => Stands'
      PROVE  VerdictInv'
  <2>1. /\ pc'["gate"] = pc["gate"] /\ pc'["guard"] = pc["guard"]
        /\ pc'["dl"] = IF p = "dl" THEN l ELSE pc["dl"]
    BY <1>p, <1>d, GotoHolds
  <2>2. "committed" \in mark' <=> "committed" \in mark
    BY <1>d
  <2>3. "committed" \in mark' => pc'["dl"] \notin {"failwrite", "failbak"}
    BY <1>c, <1>d, <2>1, <2>2
  <2> QED BY <1>u, <1>d, <2>1, <2>2, <2>3 DEF VerdictInv
<1>1. CASE GateStart
  <2>1. PICK l \in {"reset", "check"} :
          Goto("gate", l) /\ (l = "reset" => ~boot.trial)
    BY <1>1 DEF GateStart
  <2> QED BY <1>1, <1>c, <1>g, <2>1 DEF GateStart, Gate
<1>2. CASE GateReset \/ GateResetBak \/ GateSettles \/ GateStayOff \/ GateStayBak
             \/ GatePasses \/ GateFails \/ GateCommitTimeout \/ GateFailMark
  <2>1. PICK l : Goto("gate", l) /\ l \notin {"reset", "commitbak"}
                 /\ (l = "resetbak" => pc["gate"] = "reset")
    BY <1>2 DEF GateReset, GateResetBak, GateSettles, GateStayOff, GateStayBak,
                GatePasses, GateFails, GateCommitTimeout, GateFailMark, Gate
  <2>2. /\ pc["gate"] \notin {"start", "done"} /\ boot' = boot
        /\ mark' \in {mark, mark \cup {"commitfailed"}, mark \cup {"failed"}}
    BY <1>2 DEF GateReset, GateResetBak, GateSettles, GateStayOff, GateStayBak,
                GatePasses, GateFails, GateCommitTimeout, GateFailMark, Gate
  <2>3. "committed" \notin mark'
    BY <1>c, <2>2
  <2>4. l = "resetbak" => ~boot.trial
    BY <2>1 DEF VerdictInv
  <2> QED BY <1>g, <2>1, <2>2, <2>3, <2>4
<1>3. CASE GateCommit
  <2>1. /\ pc["gate"] = "commit" /\ boot' = boot
        /\ mark' \in {mark, mark \cup {"commitfailed"}}
    BY <1>3 DEF GateCommit, Gate, CommitFailed
  <2>2. PICK l \in {"commitbak", "done"} :
          Goto("gate", l) /\ (l = "commitbak" => Replace(Committed, TRUE))
    BY <1>3 DEF GateCommit, CommitFailed
  <2>3. l = "commitbak" => Stands'
    <3> SUFFICES ASSUME l = "commitbak" PROVE Stands'
      OBVIOUS
    <3>1. Valid /\ env' = Committed /\ torn' = torn
      BY <1>3, <2>2 DEF Replace, GateCommit
    <3>2. Committed.ok[boot.slot] /\ Committed.com[boot.slot]
      BY <1>t DEF Committed, Env
    <3> QED BY <2>1, <3>1, <3>2 DEF Stands, Valid
  <2>4. "committed" \notin mark'
    BY <1>c, <2>1
  <2> QED BY <1>g, <2>1, <2>2, <2>3, <2>4
<1>4. CASE GateCommitBak
  <2>1. pc["gate"] = "commitbak" /\ lock = "gate" /\ boot' = boot /\ env' = env
    BY <1>4, <1>h DEF GateCommitBak, Gate
  <2>2. Stands'
    <3>1. Valid' <=> Valid
      BY <1>4, SyncBakValid DEF GateCommitBak
    <3> QED BY <2>1, <3>1 DEF VerdictInv, Stands
  <2>3. pc'["gate"] = "done" /\ pc'["guard"] = pc["guard"]
        /\ pc'["dl"] \in {pc["dl"], "done"}
    BY <1>4, <1>p DEF GateCommitBak, CommitFailed, Goto, TypeOK, PcOK
  <2>4. pc["guard"] = "done"
    BY <2>1 DEF VerdictInv
  <2>5. pc'["dl"] \notin {"failwrite", "failbak"}
    BY <1>h, <2>1, <2>3
  <2> QED BY <1>u, <2>2, <2>3, <2>4, <2>5 DEF VerdictInv
<1>5. CASE DeadlineFires \/ InhibitStarts \/ ShutdownStarts \/ ShutdownLeaves
  <2>1. PICK p \in {"dl", "sd"}, l \in {"lock", "armed", "done"} : Goto(p, l)
    BY <1>5 DEF DeadlineFires, InhibitStarts, ShutdownStarts, ShutdownLeaves
  <2>2. UNCHANGED <<env, torn, boot, mark>>
    BY <1>5 DEF DeadlineFires, InhibitStarts, ShutdownStarts, ShutdownLeaves
  <2>3. Stands' <=> Stands
    BY <2>2 DEF Stands, Valid
  <2> QED BY <1>d, <2>1, <2>2, <2>3 DEF VerdictInv
<1>6. CASE DeadlineDecides
  <2>1. PICK l \in {"done", "failwrite", "failnolock"} :
          Goto("dl", l) /\ (l # "done" => "committed" \notin mark)
    BY <1>6 DEF DeadlineDecides
  <2>2. UNCHANGED <<env, torn, boot>> /\ mark' \in {mark, mark \cup {"failed"}}
    BY <1>6 DEF DeadlineDecides
  <2>3. Stands' <=> Stands
    BY <2>2 DEF Stands, Valid
  <2> QED BY <1>d, <2>1, <2>2, <2>3 DEF VerdictInv
<1>7. ASSUME FailWrite("gate") \/ FailNoLock("gate") \/ FailBak("gate")
               \/ Killed("gate")
      PROVE  VerdictInv'
  <2>1. /\ pc["gate"] \notin {"start", "done"} /\ boot' = boot /\ mark' = mark
        /\ \E l \in {"failbak", "done"} : Goto("gate", l)
    BY <1>7 DEF FailWrite, FailNoLock, FailBak, Killed
  <2> QED BY <1>c, <1>g, <2>1
<1>8. ASSUME FailWrite("dl") \/ FailNoLock("dl") \/ FailBak("dl") \/ Killed("dl")
      PROVE  VerdictInv'
  <2>1. CASE FailWrite("dl")
    <3>1. "committed" \notin mark /\ pc["gate"] # "commitbak"
      BY <1>c, <1>h, <2>1 DEF FailWrite, CanLock
    <3> QED BY <1>d, <2>1, <3>1 DEF FailWrite
  <2>2. CASE FailNoLock("dl") \/ FailBak("dl") \/ Killed("dl")
    <3>1. UNCHANGED <<env, boot, mark>> /\ Goto("dl", "done")
      BY <2>2 DEF FailNoLock, FailBak, Killed
    <3>2. Valid' <=> Valid
      BY <2>2, SyncBakValid DEF FailNoLock, FailBak, Killed, Valid
    <3>3. Stands' <=> Stands
      BY <3>1, <3>2 DEF Stands
    <3> QED BY <1>d, <3>1, <3>3 DEF VerdictInv
  <2> QED BY <1>8, <2>1, <2>2
<1>9. CASE ShutdownWrites
  <2>1. "committed" \notin mark /\ pc["gate"] # "commitbak"
    BY <1>9, <1>h DEF ShutdownWrites, Undecided, Decided, CanLock
  <2>2. /\ boot' = boot /\ mark' \in {mark, mark \cup {"failed"}}
        /\ \E l \in {"bak", "done"} : Goto("sd", l)
    BY <1>9 DEF ShutdownWrites
  <2> QED BY <1>d, <2>1, <2>2
<1>10. CASE ShutdownBak
  <2>1. UNCHANGED <<env, boot, mark>> /\ Goto("sd", "done")
    BY <1>10 DEF ShutdownBak
  <2>2. Valid' <=> Valid
    BY <1>10, SyncBakValid DEF ShutdownBak
  <2>3. Stands' <=> Stands
    BY <2>1, <2>2 DEF Stands
  <2> QED BY <1>d, <2>1, <2>3 DEF VerdictInv
<1> QED
  BY <1>1, <1>2, <1>3, <1>4, <1>5, <1>6, <1>7, <1>8, <1>9, <1>10 DEF CommitNext

\* GRUB runs before there is a process or a mark.
LEMMA GrubVerdict == LockInv /\ VerdictInv /\ GrubNext => LockInv' /\ VerdictInv'
<1> SUFFICES ASSUME LockInv, VerdictInv, GrubNext PROVE LockInv' /\ VerdictInv'
  OBVIOUS
<1>1. phase # "up" /\ UNCHANGED <<pc, lock, mark>>
  BY DEF GrubNext, GrubStart, PickPass, PickExhausted, PickChoose, PickNone, GrubCount,
         GrubBoot, LoadFailed, HandOver, HandOverFailed, LastResort, NothingLoads,
         NvidiaTrips, Scanning, Started, run
<1>2. pc = Fresh /\ mark = {}
  BY <1>1 DEF VerdictInv
<1>3. Fresh["gate"] = "start"
  BY DEF Fresh, Procs
<1>4. VerdictInv'
  BY <1>1, <1>2, <1>3 DEF VerdictInv
<1>5. LockInv'
  BY <1>1 DEF LockInv, Holds
<1> QED BY <1>4, <1>5

\* The end of a boot takes the processes, the lock and the marks with it; a
\* loss is found while nobody has started.
LEMMA BoardVerdict == LockInv /\ VerdictInv /\ BoardNext => LockInv' /\ VerdictInv'
<1> SUFFICES ASSUME LockInv, VerdictInv, BoardNext PROVE LockInv' /\ VerdictInv'
  OBVIOUS
<1> USE DEF esp, slots, run
<1>f. /\ Fresh["gate"] = "start" /\ Fresh["guard"] = "start" /\ Fresh["dl"] = "armed"
      /\ Fresh["sd"] = "off" /\ Fresh["inst"] = "idle"
  BY DEF Fresh, Procs
<1>1. CASE PowerCut \/ Crash \/ Halt
  <2>1. phase' = "off" /\ pc' = Fresh /\ mark' = {}
    BY <1>1 DEF PowerCut, Crash, Halt, Down, RunCleared
  <2>2. LockInv'
    BY <1>f, <2>1 DEF LockInv, Holds
  <2>3. VerdictInv'
    BY <1>f, <2>1 DEF VerdictInv
  <2> QED BY <2>2, <2>3
<1>2. CASE NvVerify \/ UserReboot
  <2>1. UNCHANGED <<pc, lock, mark, env, torn, boot, phase>>
    BY <1>2 DEF NvVerify, UserReboot
  <2>2. LockInv'
    BY <2>1 DEF LockInv, Holds
  <2>3. VerdictInv'
    BY <2>1 DEF VerdictInv, Stands, Valid
  <2> QED BY <2>2, <2>3
<1>3. CASE (\E f \in {"env", "bak"} : Tear(f)) \/ (\E s \in Slots : Corrupt(s)) \/ Reflash
  <2>1. UNCHANGED <<pc, lock, mark>> /\ pc = Fresh
    BY <1>3 DEF Tear, Corrupt, Reflash, VerdictInv
  <2>2. phase = "up" => phase' = "up"
    <3>1. CASE \E f \in {"env", "bak"} : Tear(f)
      BY <3>1 DEF Tear
    <3>2. CASE (\E s \in Slots : Corrupt(s)) \/ Reflash
      BY <3>2 DEF Corrupt, Reflash
    <3> QED BY <1>3, <3>1, <3>2
  <2>3. "committed" \notin mark
    BY <1>f, <2>1 DEF VerdictInv
  <2>4. LockInv'
    BY <2>1 DEF LockInv, Holds
  <2>5. VerdictInv'
    BY <1>f, <2>1, <2>2, <2>3 DEF VerdictInv
  <2> QED BY <2>4, <2>5
<1> QED BY <1>1, <1>2, <1>3 DEF BoardNext

\* One writer at a time, and a commit stands once it is written.
LEMMA VerdictInvariant == Spec => [](LockInv /\ VerdictInv)
<1>1. Init => LockInv /\ VerdictInv
  <2>1. /\ Fresh["gate"] = "start" /\ Fresh["guard"] = "start" /\ Fresh["dl"] = "armed"
        /\ Fresh["sd"] = "off" /\ Fresh["inst"] = "idle"
    BY DEF Fresh, Procs
  <2> QED BY <2>1 DEF Init, LockInv, Holds, VerdictInv
<1>2. TypeOK /\ LockInv /\ VerdictInv /\ [Next]_vars => LockInv' /\ VerdictInv'
  <2> SUFFICES ASSUME TypeOK, LockInv, VerdictInv, [Next]_vars PROVE LockInv' /\ VerdictInv'
    OBVIOUS
  <2>1. CASE GuardNext
    BY <2>1, GuardLocks, GuardVerdict
  <2>2. CASE CommitNext
    BY <2>2, CommitLocks, CommitVerdict
  <2>3. CASE InstallNext
    BY <2>3, InstallLocks, InstallVerdict
  <2>4. CASE GrubNext
    BY <2>4, GrubVerdict
  <2>5. CASE BoardNext
    BY <2>5, BoardVerdict
  <2>6. CASE UNCHANGED vars
    BY <2>6 DEF vars, esp, run, LockInv, Holds, VerdictInv, Stands, Valid
  <2> QED BY <2>1, <2>2, <2>3, <2>4, <2>5, <2>6 DEF Next
<1> QED
  BY <1>1, <1>2, TypeCorrect, PTL DEF Spec

\* While a trial runs, whatever fails and whoever else writes grubenv: a slot
\* that grubenv has failed is not made usable again, and a commit that was
\* recorded is not undone.
THEOREM VerdictsStand == Spec => VerdictStands
<1>1. TypeOK /\ VerdictInv /\ VerdictInv' /\ [Next]_vars =>
        [phase = "up" /\ phase' = "up" /\ boot.trial /\ Valid /\ Valid'
           => /\ pc["guard"] = "done" /\ ~env.ok[boot.slot] => ~env'.ok[boot.slot]
              /\ "committed" \in mark => env'.ok[boot.slot] /\ env'.com[boot.slot]]_vars
  <2> SUFFICES ASSUME TypeOK, VerdictInv, VerdictInv', Next,
                      phase = "up", phase' = "up", boot.trial
               PROVE  /\ pc["guard"] = "done" /\ ~env.ok[boot.slot] => ~env'.ok[boot.slot]
                      /\ "committed" \in mark => env'.ok[boot.slot] /\ env'.com[boot.slot]
    OBVIOUS
  <2>1. CASE GuardNext
    <3>1. pc["guard"] # "done"
      BY <2>1 DEF GuardNext, GuardLock, GuardDies, GuardReset, GuardResetBak,
                  GuardHand, GuardBak, GuardRebuild, GuardRebuildFails, GuardRebuildBak
    <3> QED BY <3>1 DEF VerdictInv
  <2>2. CASE CommitNext
    <3>1. "committed" \in mark => "committed" \in mark'
      BY <2>2 DEF CommitNext, GateStart, GateReset, GateResetBak, GateSettles,
             GateStayOff, GateStayBak, GatePasses, GateFails, GateCommit,
             GateCommitTimeout, GateCommitBak, GateFailMark, DeadlineFires,
             DeadlineDecides, FailWrite, FailNoLock, FailBak, Killed, InhibitStarts,
             ShutdownStarts, ShutdownLeaves, ShutdownWrites, ShutdownBak,
             CommitFailed, run
    <3>2. boot' = boot
      BY <2>2 DEF CommitNext, GateStart, GateReset, GateResetBak, GateSettles,
             GateStayOff, GateStayBak, GatePasses, GateFails, GateCommit,
             GateCommitTimeout, GateCommitBak, GateFailMark, DeadlineFires,
             DeadlineDecides, FailWrite, FailNoLock, FailBak, Killed, InhibitStarts,
             ShutdownStarts, ShutdownLeaves, ShutdownWrites, ShutdownBak, run
    <3> QED BY <2>2, <3>1, <3>2, CommitKeepsBad DEF VerdictInv, Stands
  <2>3. CASE InstallNext
    BY <2>3, InstallKeeps DEF VerdictInv, Stands
  <2>4. CASE GrubNext
    BY <2>4 DEF GrubNext, GrubStart, PickPass, PickExhausted, PickChoose, PickNone,
                GrubCount, GrubBoot, LoadFailed, HandOver, HandOverFailed, LastResort,
                NothingLoads, NvidiaTrips, Scanning
  <2>5. CASE BoardNext
    <3>1. CASE NvVerify \/ UserReboot
      BY <3>1 DEF NvVerify, UserReboot, esp, VerdictInv, Stands
    <3>2. CASE \E f \in {"env", "bak"} : Tear(f)
      <4>1. pc = Fresh
        BY <3>2 DEF Tear
      <4>2. pc["guard"] = "start" /\ pc["gate"] = "start"
        BY <4>1 DEF Fresh, Procs
      <4> QED BY <4>2 DEF VerdictInv
    <3>3. ~(PowerCut \/ Crash \/ Halt \/ Reflash \/ \E s \in Slots : Corrupt(s))
      BY DEF PowerCut, Crash, Halt, Reflash, Corrupt, Down
    <3> QED BY <2>5, <3>1, <3>2, <3>3 DEF BoardNext
  <2> QED BY <2>1, <2>2, <2>3, <2>4, <2>5 DEF Next
<1> QED
  BY <1>1, VerdictInvariant, TypeCorrect, PTL DEF Spec, VerdictStands

-----------------------------------------------------------------------------
\* An install on its way to the first block it writes.
Approaches == {"pre", "prebak", "markbad", "badbak", "write"}

ContractInv ==
  /\ pc["inst"] \in Approaches => proven[boot.slot] \/ (boot.last /\ ~boot.trial)
  /\ pc["inst"] = "writing" => ~proven[Target]
  /\ pc["gate"] = "commit" => boot.trial /\ good[boot.slot]

-----------------------------------------------------------------------------
(***************************************************************************)
(* What the processes do to the slots and to each other's place.           *)
(***************************************************************************)
\* The guard touches neither.
LEMMA GuardShape ==
  TypeOK /\ GuardNext => /\ UNCHANGED <<good, proven, phase, boot>>
                         /\ pc'["inst"] = pc["inst"] /\ pc'["gate"] = pc["gate"]
<1> SUFFICES ASSUME TypeOK, GuardNext
             PROVE  /\ UNCHANGED <<good, proven, phase, boot>>
                    /\ pc'["inst"] = pc["inst"] /\ pc'["gate"] = pc["gate"]
  OBVIOUS
<1>1. UNCHANGED <<good, proven, phase, boot>>
  BY DEF GuardNext, GuardLock, GuardDies, GuardReset, GuardResetBak, GuardHand,
         GuardBak, GuardRebuild, GuardRebuildFails, GuardRebuildBak, slots, run
<1>2. \E l : Goto("guard", l)
  BY DEF GuardNext, GuardLock, GuardDies, GuardReset, GuardResetBak, GuardHand,
         GuardBak, GuardRebuild, GuardRebuildFails, GuardRebuildBak, GuardEnds
<1> QED
  BY <1>1, <1>2, GotoOther DEF Procs

\* boat-commit changes the slots only by a commit, and comes to one only from
\* checks that passed.
LEMMA CommitShape ==
  TypeOK /\ CommitNext =>
    /\ UNCHANGED <<good, phase, boot>>
    /\ pc'["inst"] = pc["inst"] /\ pc'["guard"] = pc["guard"]
    /\ \/ proven' = proven
       \/ pc["gate"] = "commit" /\ proven' = [proven EXCEPT ![boot.slot] = TRUE]
    /\ pc'["gate"] = "commit" => pc["gate"] = "commit" \/ (boot.trial /\ good[boot.slot])
<1> SUFFICES ASSUME TypeOK, CommitNext
             PROVE  /\ UNCHANGED <<good, phase, boot>>
                    /\ pc'["inst"] = pc["inst"] /\ pc'["guard"] = pc["guard"]
                    /\ \/ proven' = proven
                       \/ pc["gate"] = "commit" /\ proven' = [proven EXCEPT ![boot.slot] = TRUE]
                    /\ pc'["gate"] = "commit" =>
                         pc["gate"] = "commit" \/ (boot.trial /\ good[boot.slot])
  OBVIOUS
<1> USE DEF slots, run, Gate
<1>p. pc \in [Procs -> Steps]
  BY DEF TypeOK, PcOK
<1>1. CASE GateStart \/ GateReset \/ GateResetBak \/ GateSettles \/ GateStayOff \/ GateStayBak
  BY <1>1, <1>p DEF GateStart, GateReset, GateResetBak, GateSettles, GateStayOff, GateStayBak,
                    Goto, Procs
<1>2. CASE GatePasses \/ GateFails \/ GateFailMark
  BY <1>2, <1>p DEF GatePasses, GateFails, GateFailMark, Goto, Procs
<1>3. CASE GateCommit \/ GateCommitTimeout \/ GateCommitBak
  BY <1>3, <1>p DEF GateCommit, GateCommitTimeout, GateCommitBak, CommitFailed, Goto, Procs
<1>4. CASE DeadlineFires \/ DeadlineDecides
  BY <1>4, <1>p DEF DeadlineFires, DeadlineDecides, Goto, Procs
<1>5. ASSUME NEW p \in {"gate", "dl"}, FailWrite(p) \/ FailNoLock(p) \/ FailBak(p) \/ Killed(p)
      PROVE  /\ UNCHANGED <<good, proven, phase, boot>>
             /\ pc'["inst"] = pc["inst"] /\ pc'["guard"] = pc["guard"]
             /\ pc'["gate"] = "commit" => pc["gate"] = "commit"
  BY <1>5, <1>p DEF FailWrite, FailNoLock, FailBak, Killed, Goto, Procs
<1>6. CASE InhibitStarts \/ ShutdownStarts \/ ShutdownLeaves \/ ShutdownWrites \/ ShutdownBak
  BY <1>6, <1>p DEF InhibitStarts, ShutdownStarts, ShutdownLeaves, ShutdownWrites, ShutdownBak,
                    Goto, Procs
<1> QED
  BY <1>1, <1>2, <1>3, <1>4, <1>5, <1>6 DEF CommitNext

\* An install begins only off trial, changes the slots only by writing the
\* target, and comes to that only on its way.
LEMMA InstallShape ==
  TypeOK /\ InstallNext =>
    /\ UNCHANGED <<phase, boot>> /\ pc'["gate"] = pc["gate"]
    /\ pc'["inst"] \in Approaches => pc["inst"] \in Approaches \/ InstallStarts
    /\ pc'["inst"] = "writing" => RaucWrites
    /\ UNCHANGED <<good, proven>> \/ RaucWrites \/ RaucWritten
<1> SUFFICES ASSUME TypeOK, InstallNext
             PROVE  /\ UNCHANGED <<phase, boot>> /\ pc'["gate"] = pc["gate"]
                    /\ pc'["inst"] \in Approaches => pc["inst"] \in Approaches \/ InstallStarts
                    /\ pc'["inst"] = "writing" => RaucWrites
                    /\ UNCHANGED <<good, proven>> \/ RaucWrites \/ RaucWritten
  OBVIOUS
<1> USE DEF slots, run, Inst, Asked, Approaches
<1>p. pc \in [Procs -> Steps]
  BY DEF TypeOK, PcOK
<1>1. CASE InstallStarts \/ PreInstall \/ PreInstallBak
  BY <1>1, <1>p DEF InstallStarts, PreInstall, PreInstallBak, LockedWrite, LockedBak, Goto, Procs
<1>2. CASE RaucMarkBad \/ RaucMarkBadBak
  BY <1>2, <1>p DEF RaucMarkBad, RaucMarkBadBak, LockedWrite, LockedBak, Goto, Procs
<1>3. CASE RaucWrites \/ RaucWritten \/ RaucAborts
  BY <1>3, <1>p DEF RaucWrites, RaucWritten, RaucAborts, Goto, Procs
<1>4. CASE RaucActivates \/ RaucActivatesBak \/ InstallDone \/ StreamWrong \/ StreamWrongBak
  BY <1>4, <1>p DEF RaucActivates, RaucActivatesBak, InstallDone, StreamWrong, StreamWrongBak,
                    LockedWrite, LockedBak, Goto, Procs
<1>5. CASE RollbackAsked \/ Rollback \/ RollbackBak
  BY <1>5, <1>p DEF RollbackAsked, Rollback, RollbackBak, LockedWrite, Goto, Procs
<1>6. CASE DebugHold \/ DebugHoldBak \/ InstallKilled
  BY <1>6, <1>p DEF DebugHold, DebugHoldBak, InstallKilled, LockedWrite, LockedBak, Goto, Procs
<1> QED
  BY <1>1, <1>2, <1>3, <1>4, <1>5, <1>6 DEF InstallNext

\* GRUB boots a slot, as a trial, as the last resort, or as what GRUB's memory
\* holds for committed.
LEMMA GrubShape ==
  TypeOK /\ ChosenOK /\ GrubNext =>
    /\ UNCHANGED <<good, proven, pc>> /\ phase # "up"
    /\ phase' = "up" =>
         /\ boot'.slot \in Slots
         /\ boot'.trial \/ boot'.last \/ (phase \in GrubPhases /\ grub.mem.com[boot'.slot])
<1> SUFFICES ASSUME TypeOK, ChosenOK, GrubNext
             PROVE  /\ UNCHANGED <<good, proven, pc>> /\ phase # "up"
                    /\ phase' = "up" =>
                         /\ boot'.slot \in Slots
                         /\ boot'.trial \/ boot'.last
                              \/ (phase \in GrubPhases /\ grub.mem.com[boot'.slot])
  OBVIOUS
<1>1. CASE GrubStart \/ PickPass \/ PickExhausted \/ PickChoose \/ PickNone \/ GrubCount
  BY <1>1 DEF GrubStart, PickPass, PickExhausted, PickChoose, PickNone, GrubCount, Scanning, slots
<1>2. CASE LoadFailed \/ HandOver \/ HandOverFailed \/ NothingLoads \/ NvidiaTrips
  BY <1>2 DEF LoadFailed, HandOver, HandOverFailed, NothingLoads, NvidiaTrips, WarmReset, slots
<1>3. CASE GrubBoot
  <2>1. grub.chosen \in Slots
    BY <1>3 DEF GrubBoot, ChosenOK
  <2> QED
    BY <1>3, <2>1 DEF GrubBoot, Started, slots, GrubPhases
<1>4. CASE LastResort
  BY <1>4 DEF LastResort, Started, Candidates, slots
<1> QED
  BY <1>1, <1>2, <1>3, <1>4 DEF GrubNext

\* What happens to a board ends the boot, flashes it anew, takes a slot from
\* it while it is off, or leaves the slots and the boot alone.
LEMMA BoardShape ==
  BoardNext =>
    \/ phase' = "off" /\ pc' = Fresh /\ UNCHANGED <<good, proven>>
    \/ Reflash
    \/ \E s \in Slots : Corrupt(s)
    \/ UNCHANGED <<good, proven, phase, boot, pc>>
<1> USE DEF slots, run
<1>1. CASE PowerCut \/ Crash \/ Halt
  BY <1>1 DEF PowerCut, Crash, Halt, Down, RunCleared
<1>2. CASE NvVerify \/ UserReboot \/ \E f \in {"env", "bak"} : Tear(f)
  BY <1>2 DEF NvVerify, UserReboot, Tear
<1> QED
  BY <1>1, <1>2 DEF BoardNext

-----------------------------------------------------------------------------
\* The slot that runs, and the other one.
LEMMA RunningTypes ==
  ASSUME TypeOK
  PROVE  /\ boot.slot \in Slots /\ boot.trial \in BOOLEAN /\ boot.last \in BOOLEAN
         /\ Target \in Slots /\ Target # boot.slot
         /\ good \in [Slots -> BOOLEAN] /\ proven \in [Slots -> BOOLEAN]
BY DEF TypeOK, RunOK, SlotsOK, Cmdline, Target, Other, Slots

\* No install and no commit runs before the system is up.
LEMMA NoneBeforeUp ==
  ASSUME VerdictInv, phase # "up"
  PROVE  pc["inst"] = "idle" /\ pc["gate"] = "start"
BY DEF VerdictInv, Fresh, Procs

\* ~OnTrial: what runs is proven, or a last resort.
LEMMA OffTrialIsProven ==
  ASSUME TypeOK, Sound, VerdictInv, InstallStarts
  PROVE  proven[boot.slot] \/ (boot.last /\ ~boot.trial)
<1>1. CASE boot.trial
  <2>1. "committed" \in mark
    BY <1>1 DEF InstallStarts, OnTrial
  <2>2. env.com[boot.slot]
    BY <2>1 DEF VerdictInv, Stands
  <2> QED
    BY <2>2, RunningTypes DEF InstallStarts, Sound, CommittedIsProven
<1>2. CASE ~boot.trial
  BY <1>2, RunningTypes DEF InstallStarts, OnTrial, Sound, CommittedIsProven
<1> QED
  BY <1>1, <1>2

LEMMA ContractInvStep ==
  TypeOK /\ ChosenOK /\ Sound /\ VerdictInv /\ VerdictInv' /\ ContractInv /\ [Next]_vars
    => ContractInv'
<1> SUFFICES ASSUME TypeOK, ChosenOK, Sound, VerdictInv, VerdictInv', ContractInv,
                    [Next]_vars
             PROVE  ContractInv'
  OBVIOUS
<1>t. /\ boot.slot \in Slots /\ Target \in Slots /\ Target # boot.slot
      /\ good \in [Slots -> BOOLEAN] /\ proven \in [Slots -> BOOLEAN]
  BY RunningTypes
<1>1. CASE GuardNext
  BY <1>1, GuardShape DEF ContractInv, Target
<1>2. CASE CommitNext
  <2>1. Target' = Target /\ boot' = boot /\ good' = good
    BY <1>2, CommitShape DEF Target
  <2>2. (proven[boot.slot] => proven'[boot.slot]) /\ proven'[Target] = proven[Target]
    BY <1>2, <1>t, CommitShape
  <2> QED
    BY <1>2, <2>1, <2>2, CommitShape DEF ContractInv
<1>3. CASE InstallNext
  <2>1. Target' = Target /\ boot' = boot /\ pc'["gate"] = pc["gate"]
    BY <1>3, InstallShape DEF Target
  <2>2. good'[boot.slot] = good[boot.slot] /\ proven'[boot.slot] = proven[boot.slot]
    BY <1>3, <1>t, InstallShape DEF RaucWrites, RaucWritten
  <2>3. pc'["inst"] \in Approaches => proven[boot.slot] \/ (boot.last /\ ~boot.trial)
    BY <1>3, InstallShape, OffTrialIsProven DEF ContractInv
  <2>4. pc'["inst"] = "writing" => ~proven'[Target]
    BY <1>3, <1>t, InstallShape DEF RaucWrites
  <2> QED
    BY <2>1, <2>2, <2>3, <2>4 DEF ContractInv
<1>4. CASE GrubNext
  <2>1. pc'["inst"] = "idle" /\ pc'["gate"] = "start"
    BY <1>4, GrubShape, NoneBeforeUp
  <2> QED
    BY <2>1 DEF ContractInv, Approaches
<1>5. CASE BoardNext
  <2>1. CASE phase' = "off" /\ pc' = Fresh
    BY <2>1 DEF ContractInv, Approaches, Fresh, Procs
  <2>2. CASE Reflash \/ \E s \in Slots : Corrupt(s)
    <3>1. pc'["inst"] = "idle" /\ pc'["gate"] = "start"
      BY <2>2, NoneBeforeUp DEF Reflash, Corrupt
    <3> QED
      BY <3>1 DEF ContractInv, Approaches
  <2>3. CASE UNCHANGED <<good, proven, phase, boot, pc>>
    BY <2>3 DEF ContractInv, Target
  <2> QED
    BY <1>5, <2>1, <2>2, <2>3, BoardShape
<1>6. CASE UNCHANGED vars
  BY <1>6 DEF vars, slots, run, ContractInv, Target
<1> QED
  BY <1>1, <1>2, <1>3, <1>4, <1>5, <1>6 DEF Next

-----------------------------------------------------------------------------
(***************************************************************************)
(* Steps of the board are steps of the contract.                           *)
(***************************************************************************)
\* A board that is up runs something, as the contract sees it.
LEMMA RunningUp ==
  ASSUME TypeOK
  PROVE  /\ phase = "up" => /\ Running.slot = boot.slot /\ Running # Contract!Nothing
                            /\ Running.as = "trial" <=> boot.trial
                            /\ Running.as = "last" <=> ~boot.trial /\ boot.last
         /\ phase # "up" => Running = Contract!Nothing
<1>1. boot.slot # "none"
  BY RunningTypes DEF Slots
<1> QED
  BY <1>1 DEF Running, Contract!Nothing

LEMMA RunningKept ==
  ASSUME UNCHANGED <<phase, boot>>
  PROVE  Running' = Running
BY DEF Running

\* A slot that is lost is the contract's Lose, and any other step one of its Next.
LEMMA ContractStep ==
  TypeOK /\ TypeOK' /\ ChosenOK /\ Sound /\ VerdictInv /\ ContractInv /\ [Next]_vars
    => [Contract!Next \/ (Contract!Lose /\ damage' = damage - 1)]_(Contract!vars)
<1> SUFFICES ASSUME TypeOK, TypeOK', ChosenOK, Sound, VerdictInv, ContractInv,
                    [Next]_vars
             PROVE  \/ Contract!Next \/ (Contract!Lose /\ damage' = damage - 1)
                    \/ UNCHANGED <<good, proven, Running>>
  BY DEF Contract!vars
<1>t. /\ boot.slot \in Slots /\ Target \in Slots /\ Target # boot.slot
      /\ good \in [Slots -> BOOLEAN] /\ proven \in [Slots -> BOOLEAN]
  BY RunningTypes
<1>o. Target = Contract!Other(boot.slot)
  BY DEF Target, Other, Contract!Other
<1>1. CASE GuardNext
  BY <1>1, GuardShape, RunningKept
<1>2. CASE CommitNext
  <2>1. good' = good /\ Running' = Running
    BY <1>2, CommitShape, RunningKept
  <2>2. CASE proven' # proven
    <3>1. pc["gate"] = "commit" /\ proven' = [proven EXCEPT ![boot.slot] = TRUE]
      BY <1>2, <2>2, CommitShape
    <3>2. phase = "up" /\ boot.trial /\ good[boot.slot]
      BY <3>1, NoneBeforeUp DEF ContractInv
    <3>3. Contract!Prove
      BY <2>1, <3>1, <3>2, RunningUp DEF Contract!Prove
    <3> QED
      BY <3>3 DEF Contract!Next
  <2> QED
    BY <2>1, <2>2
<1>3. CASE InstallNext
  <2>1. Running' = Running
    BY <1>3, InstallShape, RunningKept
  <2>2. CASE RaucWrites
    <3>1. phase = "up" /\ (proven[boot.slot] \/ (boot.last /\ ~boot.trial))
      BY <2>2 DEF RaucWrites, Inst, ContractInv, Approaches
    <3>2. proven[boot.slot] \/ Running.as = "last"
      BY <3>1, RunningUp
    <3>3. Contract!Overwrite
      BY <1>o, <2>1, <2>2, <3>1, <3>2, RunningUp DEF RaucWrites, Contract!Overwrite
    <3> QED
      BY <3>3 DEF Contract!Next
  <2>3. CASE RaucWritten
    <3>1. phase = "up" /\ ~proven[Target]
      BY <2>3 DEF RaucWritten, Inst, ContractInv
    <3>2. Contract!Written
      BY <1>o, <2>1, <2>3, <3>1, RunningUp DEF RaucWritten, Contract!Written
    <3> QED
      BY <3>2 DEF Contract!Next
  <2> QED
    BY <1>3, <2>1, <2>2, <2>3, InstallShape
<1>4. CASE GrubNext
  <2>1. UNCHANGED <<good, proven>> /\ phase # "up"
    BY <1>4, GrubShape
  <2>2. CASE phase' # "up"
    <3>1. Running' = Running
      BY <2>1, <2>2 DEF Running
    <3> QED
      BY <2>1, <3>1
  <2>3. CASE phase' = "up"
    <3> DEFINE as == IF boot'.trial THEN "trial" ELSE IF boot'.last THEN "last" ELSE "usual"
    <3>1. Running = Contract!Nothing /\ Running' = [slot |-> boot'.slot, as |-> as]
      BY <2>1, <2>3, RunningUp DEF Running
    <3>2. boot'.slot \in Contract!Slots /\ as \in {"usual", "trial", "last"}
      BY <1>4, <2>3, GrubShape DEF Slots, Contract!Slots
    <3>3. as = "usual" => proven[boot'.slot]
      BY <1>4, <2>3, GrubShape DEF Sound
    <3> HIDE DEF as
    <3>4. Contract!Boot(boot'.slot, as)
      BY <2>1, <3>1, <3>3 DEF Contract!Boot
    <3> QED
      BY <3>2, <3>4 DEF Contract!Next
  <2> QED
    BY <2>2, <2>3
<1>5. CASE BoardNext
  <2>1. CASE phase' = "off" /\ UNCHANGED <<good, proven>>
    <3>1. Running' = Contract!Nothing
      BY <2>1 DEF Running, Contract!Nothing
    <3>2. Contract!Stop
      BY <2>1, <3>1 DEF Contract!Stop
    <3> QED
      BY <3>2 DEF Contract!Next
  <2>2. CASE Reflash
    <3>1. Running = Contract!Nothing /\ Running' = Running
      BY <2>2 DEF Reflash, Running, Contract!Nothing
    <3>2. Contract!Reflash
      BY <2>2, <3>1 DEF Reflash, Contract!Reflash, Contract!Flashed, Contract!Slots, Slots
    <3> QED
      BY <3>2 DEF Contract!Next
  <2>3. CASE \E s \in Slots : Corrupt(s)
    <3>1. Running = Contract!Nothing /\ Running' = Running
      BY <2>3 DEF Corrupt, Running, Contract!Nothing
    <3>2. Contract!Lose /\ damage' = damage - 1
      BY <2>3, <3>1 DEF Corrupt, Contract!Lose, Contract!Slots, Slots
    <3> QED
      BY <3>2
  <2>4. CASE UNCHANGED <<good, proven, phase, boot, pc>>
    BY <2>4, RunningKept
  <2> QED
    BY <1>5, <2>1, <2>2, <2>3, <2>4, BoardShape
<1>6. CASE UNCHANGED vars
  BY <1>6, RunningKept DEF vars, slots, run
<1> QED
  BY <1>1, <1>2, <1>3, <1>4, <1>5, <1>6 DEF Next

\* Without losses the damage account never moves.
LEMMA NothingLost ==
  ASSUME TypeOK, ProvenInv, MaxDamage = 0
  PROVE  Intact
BY DEF TypeOK, BudgetOK, ProvenInv

LEMMA ContractInvariant ==
  ASSUME MaxDamage = 0
  PROVE  Spec => [](TypeOK /\ ChosenOK /\ Intact /\ VerdictInv /\ ContractInv)
<1>1. Init => ContractInv
  BY DEF Init, ContractInv, Approaches, Fresh, Procs
<1>2. TypeOK /\ ChosenOK /\ ProvenInv => Intact
  BY NothingLost
<1>3. TypeOK /\ ChosenOK /\ Intact /\ VerdictInv /\ VerdictInv' /\ ContractInv /\ [Next]_vars
        => ContractInv'
  BY ContractInvStep DEF Intact
<1> QED
  BY <1>1, <1>2, <1>3, TypesHold, ProvenInvariant, VerdictInvariant, PTL DEF Spec

LEMMA InitContract == Init => Contract!Init /\ ContractInv /\ ProvenWorks
BY DEF Init, Contract!Init, Contract!Flashed, Contract!Slots, Contract!Nothing, Slots, Running,
       ContractInv, Approaches, Fresh, Procs, ProvenWorks

\* As long as nothing is lost, whatever fails and wherever the power goes: GRUB,
\* the guard, boat-commit, installs, rollbacks and the power together do only
\* what SlotContract allows.
THEOREM BoardKeepsContract ==
  ASSUME MaxDamage = 0
  PROVE  Spec => KeepsContract
<1>1. TypeOK /\ TypeOK' /\ ChosenOK /\ Intact /\ VerdictInv /\ ContractInv /\ [Next]_vars
        => [Contract!Next]_(Contract!vars)
  <2>1. TypeOK /\ TypeOK' => ~(damage' = damage - 1)
    BY DEF TypeOK, BudgetOK
  <2> QED BY <2>1, ContractStep DEF Intact
<1> QED
  BY <1>1, InitContract, ContractInvariant, PTL DEF Spec, KeepsContract, Contract!Spec

-----------------------------------------------------------------------------
\* What the contract gives: a step of it keeps what is proven working, and a
\* proven release to go back to.
LEMMA ContractKeeps ==
  ASSUME TypeOK, [Contract!Next]_(Contract!vars)
  PROVE  /\ ProvenWorks => ProvenWorks'
         /\ (\E s \in Slots : proven[s]) /\ Running.as # "last" => \E s \in Slots : proven'[s]
<1>t. good \in [Slots -> BOOLEAN] /\ proven \in [Slots -> BOOLEAN]
  BY RunningTypes
<1>1. CASE UNCHANGED <<good, proven>>
  BY <1>1 DEF ProvenWorks
<1>2. CASE Contract!Prove
  BY <1>2, <1>t DEF Contract!Prove, ProvenWorks
<1>3. CASE Contract!Overwrite
  <2>1. phase = "up"
    BY <1>3, RunningUp DEF Contract!Overwrite
  <2>2. Running.slot = boot.slot /\ Contract!Other(boot.slot) = Target
    BY <2>1, RunningUp DEF Contract!Other, Target, Other
  <2> QED
    BY <1>3, <1>t, <2>2, RunningTypes DEF Contract!Overwrite, ProvenWorks
<1>4. CASE Contract!Written
  BY <1>4, <1>t DEF Contract!Written, ProvenWorks
<1>5. CASE Contract!Reflash
  BY <1>5 DEF Contract!Reflash, Contract!Flashed, Contract!Slots, Slots, ProvenWorks
<1>6. CASE (\E s \in Contract!Slots, as \in {"usual", "trial", "last"} : Contract!Boot(s, as))
             \/ Contract!Stop
  BY <1>1, <1>6 DEF Contract!Boot, Contract!Stop
<1> QED
  BY <1>1, <1>2, <1>3, <1>4, <1>5, <1>6 DEF Contract!Next, Contract!vars

\* Until something is lost, an install and a commit go on from what they were
\* let start with, and what the board calls proven works.
LEMMA WorksInvariant ==
  Spec => [](damage = MaxDamage => ContractInv /\ ProvenWorks)
<1> DEFINE Whole == damage = MaxDamage => ContractInv /\ ProvenWorks
<1>1. Init => Whole
  BY InitContract
<1>2. TypeOK /\ TypeOK' /\ ChosenOK /\ VerdictInv /\ VerdictInv' /\ ProvenInv /\ Whole
        /\ [Next]_vars => Whole'
  <2> SUFFICES ASSUME TypeOK, TypeOK', ChosenOK, VerdictInv, VerdictInv', ProvenInv,
                      Whole, [Next]_vars, damage' = MaxDamage
               PROVE  ContractInv' /\ ProvenWorks'
    OBVIOUS
  <2>1. damage = MaxDamage /\ damage \in Nat
    BY NoneLost, BudgetAssumption
  <2>2. Sound /\ ContractInv /\ ProvenWorks
    BY <2>1 DEF ProvenInv, Intact
  <2>3. [Contract!Next]_(Contract!vars)
    <3>1. damage' # damage - 1
      BY <2>1
    <3> QED BY <2>2, <3>1, ContractStep
  <2> QED BY <2>2, <2>3, ContractInvStep, ContractKeeps
<1> HIDE DEF Whole
<1>3. Spec => []Whole
  BY <1>1, <1>2, TypesHold, VerdictInvariant, ProvenInvariant, PTL DEF Spec
<1> QED
  BY <1>3 DEF Whole

\* What the board calls proven works, until a slot or a copy of grubenv is lost.
THEOREM ProvenReleasesWork == Spec => [](damage = MaxDamage => ProvenWorks)
<1>1. (damage = MaxDamage => ContractInv /\ ProvenWorks) => (damage = MaxDamage => ProvenWorks)
  OBVIOUS
<1> QED
  BY <1>1, WorksInvariant, PTL

LEMMA WorksWithoutLoss == ASSUME MaxDamage = 0 PROVE Spec => []ProvenWorks
<1>1. TypeOK => damage = MaxDamage
  BY DEF TypeOK, BudgetOK
<1> QED
  BY <1>1, TypesHold, ProvenReleasesWork, PTL

\* What follows needs no more of the losses than that they left grubenv sound.
LEMMA SoundContract ==
  Spec /\ []Sound => KeepsContractThroughLosses /\ FallbackKept
<1>1. Init => Contract!Init /\ ContractInv
  BY InitContract
<1>2. TypeOK /\ ChosenOK /\ Sound /\ VerdictInv /\ VerdictInv' /\ ContractInv /\ [Next]_vars
        => ContractInv'
  BY ContractInvStep
<1>3. TypeOK /\ TypeOK' /\ ChosenOK /\ Sound /\ VerdictInv /\ ContractInv /\ [Next]_vars
        => [Contract!Next \/ Contract!Lose]_(Contract!vars)
  BY ContractStep
<1>4. TypeOK /\ TypeOK' /\ ChosenOK /\ Sound /\ VerdictInv /\ ContractInv /\ [Next]_vars
        => [(\E s \in Slots : proven[s]) /\ ~boot.last => \E s \in Slots : proven'[s]]_vars
  <2> SUFFICES ASSUME TypeOK, TypeOK', ChosenOK, Sound, VerdictInv, ContractInv, [Next]_vars,
                      \E s \in Slots : proven[s], ~boot.last
               PROVE  \E s \in Slots : proven'[s]
    OBVIOUS
  <2>1. Running.as # "last"
    BY RunningUp DEF Contract!Nothing
  <2>2. CASE Contract!Lose
    BY <2>2 DEF Contract!Lose
  <2>3. CASE [Contract!Next]_(Contract!vars)
    BY <2>1, <2>3, ContractKeeps
  <2> QED BY <2>2, <2>3, ContractStep
<1> QED
  BY <1>1, <1>2, <1>3, <1>4, TypesHold, VerdictInvariant, PTL
  DEF Spec, KeepsContractThroughLosses, Contract!LossySpec, FallbackKept

\* The contract through losses.  Files may be torn and slots lost any number of
\* times, with any faults: as long as each tear is recoverable, all the board
\* does is what the contract allows, and no install or rollback, cut off
\* wherever it may be, takes the last proven release from a board that did not
\* boot as its last resort.
THEOREM ContractAfterLosses ==
  Spec /\ [][RecoverableLoss]_vars => KeepsContractThroughLosses /\ FallbackKept
BY SoundInvariant, SoundContract, PTL

-----------------------------------------------------------------------------
(***************************************************************************)
(* Trials.                                                                 *)
(***************************************************************************)
\* Slot s is on trial in the boot that runs, or that GRUB is loading.
Runs(s) == \/ phase = "up" /\ boot.trial /\ boot.slot = s
           \/ phase = "load" /\ grub.chosen = s /\ ~grub.mem.com[s]

\* If it is on trial, s is what GRUB boots next, and the other slot has no
\* trial meanwhile.
NextUp(s) ==
  /\ env.order = s \/ ~env.ok[Other(s)] \/ env.com[Other(s)]
  /\ phase = "up" => ~(boot.trial /\ boot.slot # s) /\ ~(boot.last /\ boot.slot = s)
  /\ phase \in GrubPhases => grub.envok

\* A kernel that is being loaded is as good as booted.
Pending(s) == IF phase = "load" /\ grub.chosen = s /\ ~grub.mem.com[s] THEN 1 ELSE 0

\* How many more trial boots grubenv has for slot s, if nothing fails and
\* nothing is lost: its attempt, and the one that a clean shutdown gives back.
Left(s) ==
  IF ~Valid THEN IF Runs(s) THEN 1 ELSE 0
  ELSE IF env.com[s] \/ ~env.ok[s] THEN 0
  ELSE IF env.try[s] = 0 THEN IF env.retry = s /\ NextUp(s) THEN 1 ELSE 2
  ELSE IF Runs(s) /\ env.retry # s THEN 1 ELSE 0

\* The trial boots slot s has had and can still have.
Account(s) == tboots[s] + Pending(s) + Left(s)

LeftInv == \A s \in Slots : Account(s) <= TrialBound

\* GRUB goes past a slot that is usable only if it is committed or its attempt
\* is used.
Passed(s) == ~env.ok[s] \/ env.com[s] \/ env.try[s] >= 1

\* GRUB's memory is grubenv, as far as it goes, while grubenv can be saved.
PassInv ==
  phase \in GrubPhases /\ Valid =>
    /\ grub.mem.com = env.com
    /\ grub.envok =>
         /\ grub.skip = NoSlot /\ grub.failed = NoSlot /\ grub.mem.order = env.order
         /\ \A s \in Slots : grub.mem.ok[s] => env.ok[s]
         /\ phase = "pick" =>
              /\ grub.mem.try = env.try
              /\ \A i \in {1, 2} :
                   IF i < grub.i THEN Passed(SlotAt(env, i))
                   ELSE LET s == SlotAt(env, i) IN grub.mem.ok[s] = env.ok[s]
         /\ phase = "count" =>
              /\ \A s \in Slots \ {grub.chosen} : grub.mem.try[s] = env.try[s]
              /\ ~env.com[grub.chosen] => env.try[grub.chosen] = 0
         /\ phase \in {"count", "load"} =>
              /\ grub.mem.ok[grub.chosen]
              /\ grub.chosen = env.order \/ Passed(Other(grub.chosen))
         /\ phase = "none" => \A s \in Slots : Passed(s)

\* An install that was let start on a slot that is not on trial.
Installing == {"pre", "prebak", "markbad", "badbak", "write", "writing", "activate",
               "actbak", "verify", "wrongbak"}

RunInv ==
  /\ boot.last => ~boot.trial
  /\ phase = "up" /\ ~boot.trial /\ ~boot.last /\ Valid => env.com[boot.slot]
  /\ pc["gate"] = "reset" /\ Valid => env.com[boot.slot]
  /\ pc["gate"] = "commit" \/ pc["sd"] \notin {"off", "done"} => boot.trial
  /\ pc["guard"] # "done" => pc["inst"] = "idle"
  /\ pc["inst"] \in Installing /\ boot.trial => env.com[boot.slot]
  /\ pc["inst"] \in {"prebak", "markbad", "badbak", "write", "writing", "activate"}
       => tboots[Target] = 0

-----------------------------------------------------------------------------
\* The fields of grubenv.
LEMMA EnvFields ==
  ASSUME TypeOK
  PROVE  /\ env.order \in Slots /\ env.retry \in Slots \cup {NoSlot}
         /\ env.ok \in [Slots -> BOOLEAN] /\ env.com \in [Slots -> BOOLEAN]
         /\ env.try \in [Slots -> 0..2] /\ env.stay \in BOOLEAN
         /\ tboots \in [Slots -> Nat]
  BY DEF TypeOK, EspOK, HistOK, Env

\* The bound is a number, at least two, and no step takes anything off it.
LEMMA BoundTypes == TypeOK => TrialBound \in Nat /\ TrialBound >= 2
  BY BudgetAssumption DEF TypeOK, BudgetOK, TrialBound

\* What the accounts come to in a running system.
UpAccount ==
  /\ Left(boot.slot) =
       IF ~Valid THEN IF boot.trial THEN 1 ELSE 0
       ELSE IF env.com[boot.slot] \/ ~env.ok[boot.slot] THEN 0
       ELSE IF env.try[boot.slot] = 0
         THEN IF /\ env.retry = boot.slot /\ ~boot.last
                 /\ env.order = boot.slot \/ ~env.ok[Target] \/ env.com[Target]
                THEN 1 ELSE 2
       ELSE IF boot.trial /\ env.retry # boot.slot THEN 1 ELSE 0
  /\ Left(Target) =
       IF ~Valid \/ env.com[Target] \/ ~env.ok[Target] THEN 0
       ELSE IF env.try[Target] = 0
         THEN IF /\ env.retry = Target /\ ~boot.trial
                 /\ env.order = Target \/ ~env.ok[boot.slot] \/ env.com[boot.slot]
                THEN 1 ELSE 2
       ELSE 0

LEMMA LeftUp == TypeOK /\ phase = "up" => UpAccount
<1> SUFFICES ASSUME TypeOK, phase = "up" PROVE UpAccount
  OBVIOUS
<1>t. /\ boot.slot \in Slots /\ Target \in Slots /\ Target # boot.slot
      /\ Other(boot.slot) = Target /\ Other(Target) = boot.slot
  BY RunningTypes DEF Target, Other, Slots
<1>1. /\ Runs(boot.slot) <=> boot.trial
      /\ ~Runs(Target)
  BY <1>t DEF Runs
<1>2. /\ NextUp(boot.slot) <=>
           ~boot.last /\ (env.order = boot.slot \/ ~env.ok[Target] \/ env.com[Target])
      /\ NextUp(Target) <=>
           ~boot.trial /\ (env.order = Target \/ ~env.ok[boot.slot] \/ env.com[boot.slot])
  BY <1>t DEF NextUp, GrubPhases
<1> QED
  BY <1>1, <1>2 DEF Left, UpAccount

LEMMA LeftUpNext == TypeOK' /\ phase' = "up" => UpAccount'
<1>1. (TypeOK /\ phase = "up" => UpAccount)'
  BY LeftUp, PTL
<1> QED
  BY <1>1

\* Faults and losses only ever raise the bound.
LEMMA BoundRises ==
  ASSUME TypeOK, TypeOK', faults' <= faults, damage' <= damage
  PROVE  TrialBound' \in Nat /\ TrialBound' >= TrialBound
<1>1. /\ faults \in 0..MaxFaults /\ damage \in 0..MaxDamage
      /\ faults' \in 0..MaxFaults /\ damage' \in 0..MaxDamage
  BY DEF TypeOK, BudgetOK
<1>2. /\ TrialBound = 2 + (MaxFaults - faults) + (MaxDamage - damage)
      /\ TrialBound' = 2 + (MaxFaults - faults') + (MaxDamage - damage')
  BY DEF TrialBound
<1>3. \A f, d, m, n, g, e \in Nat :
        f <= m /\ d <= n /\ g <= f /\ e <= d
          => /\ 2 + (m - g) + (n - e) \in Nat
             /\ 2 + (m - g) + (n - e) >= 2 + (m - f) + (n - d)
  OBVIOUS
<1>4. faults \in Nat /\ damage \in Nat /\ faults' \in Nat /\ damage' \in Nat
      /\ faults <= MaxFaults /\ damage <= MaxDamage
  BY <1>1, BudgetAssumption
<1> HIDE DEF TrialBound
<1> QED
  BY <1>2, <1>3, <1>4, BudgetAssumption

\* A grubenv never has more than two trial boots for a slot.
LEMMA LeftTypes == \A s \in Slots : Left(s) \in 0..2
  BY DEF Left

LEMMA LeftTypesNext == \A s \in Slots : Left(s)' \in 0..2
<1>1. (\A s \in Slots : Left(s) \in 0..2)'
  BY LeftTypes, PTL
<1> QED
  BY <1>1

\* What a step of the running system must show: for each slot it leaves the
\* account as it was, lowers it, or opens a new one.
LEMMA AccountsUp ==
  ASSUME TypeOK, TypeOK', LeftInv, phase = "up", phase' = "up",
         TrialBound' \in Nat, TrialBound' >= TrialBound,
         \A s \in Slots : \/ tboots'[s] = tboots[s] /\ Left(s)' <= Left(s)
                          \/ tboots'[s] = 0
  PROVE  LeftInv'
<1> SUFFICES ASSUME NEW s \in Slots PROVE Account(s)' <= TrialBound'
  BY DEF LeftInv
<1>1. /\ Account(s) = tboots[s] + 0 + Left(s)
      /\ Account(s)' = tboots'[s] + 0 + Left(s)'
  BY DEF Account, Pending
<1>2. /\ tboots[s] \in Nat /\ tboots'[s] \in Nat
      /\ Left(s) \in 0..2 /\ Left(s)' \in 0..2
  BY LeftTypes, LeftTypesNext DEF TypeOK, HistOK
<1>3. TrialBound \in Nat /\ TrialBound >= 2 /\ Account(s) <= TrialBound
  BY BoundTypes DEF LeftInv
<1> HIDE DEF TrialBound, Account, Left
<1> QED
  BY <1>1, <1>2, <1>3

\* Nothing that an account depends on has changed.
SameTrials ==
  /\ env'.order = env.order /\ env'.ok = env.ok /\ env'.com = env.com
  /\ env'.try = env.try /\ env'.retry = env.retry
  /\ Valid' = Valid /\ UNCHANGED <<phase, grub, boot, tboots>>

LEMMA LeftStays ==
  ASSUME TypeOK, LeftInv, SameTrials, TrialBound' \in Nat, TrialBound' >= TrialBound
  PROVE  LeftInv'
<1>1. \A s \in Slots : Runs(s)' = Runs(s) /\ NextUp(s)' = NextUp(s) /\ Pending(s)' = Pending(s)
  BY DEF Runs, NextUp, Pending, SameTrials
<1>2. \A s \in Slots : Left(s)' = Left(s)
  BY <1>1 DEF Left, SameTrials
<1>3. \A s \in Slots : Account(s)' = Account(s) /\ Account(s) \in Nat
  BY <1>1, <1>2, LeftTypes, EnvFields DEF Account, Pending, SameTrials
<1>4. TrialBound \in Nat
  BY BoundTypes
<1> HIDE DEF TrialBound, Account
<1> QED
  BY <1>3, <1>4 DEF LeftInv

\* What is spent is spent.
LEMMA NoneReturned == TypeOK /\ Next => faults' <= faults /\ damage' <= damage
<1> SUFFICES ASSUME TypeOK, Next
             PROVE  faults' <= faults /\ damage' <= damage
  OBVIOUS
<1>t. faults \in Nat /\ damage \in Nat
  BY BudgetAssumption DEF TypeOK, BudgetOK
<1>f. Fault => faults' <= faults
  BY <1>t DEF Fault
<1>r. ASSUME NEW new, NEW ok, Replace(new, ok) PROVE faults' <= faults /\ damage' = damage
  BY <1>r, <1>f, <1>t DEF Replace
<1>s. ASSUME NEW ok, SyncBak(ok) PROVE faults' <= faults /\ damage' = damage
  BY <1>s, <1>f, <1>t DEF SyncBak
<1>l. ASSUME NEW p, LockTimeout(p) PROVE faults' <= faults
  BY <1>l, <1>f DEF LockTimeout
<1>w. ASSUME NEW new, NEW l, LockedWrite(new, l) PROVE faults' <= faults /\ damage' = damage
  BY <1>w, <1>r, <1>l DEF LockedWrite
<1>b. ASSUME NEW must, NEW l, LockedBak(must, l) PROVE faults' <= faults /\ damage' = damage
  BY <1>b, <1>s DEF LockedBak
<1> USE DEF budget
<1>1. CASE GuardNext
  BY <1>1, <1>t, <1>f, <1>r, <1>s
  DEF GuardNext, GuardLock, GuardDies, GuardReset, GuardResetBak, GuardHand, GuardBak,
      GuardRebuild, GuardRebuildFails, GuardRebuildBak
<1>2. CASE CommitNext
  <2>1. CASE GateStart \/ GateReset \/ GateResetBak \/ GateSettles \/ GateStayOff \/ GateStayBak
    BY <2>1, <1>t, <1>r, <1>s, <1>l
    DEF GateStart, GateReset, GateResetBak, GateSettles, GateStayOff, GateStayBak
  <2>2. CASE GatePasses \/ GateFails \/ GateCommitTimeout \/ GateFailMark
    BY <2>2, <1>t, <1>l DEF GatePasses, GateFails, GateCommitTimeout, GateFailMark
  <2>5. CASE GateCommit
    <3>1. budget' = budget \/ \E ok : Replace(Committed, ok)
      BY <2>5 DEF GateCommit
    <3>2. CASE budget' = budget
      BY <3>2, <1>t
    <3> QED BY <1>t, <1>r, <3>1, <3>2
  <2>6. CASE GateCommitBak
    <3>1. budget' = budget \/ (Fault /\ damage' = damage) \/ \E ok : SyncBak(ok)
      BY <2>6 DEF GateCommitBak
    <3>2. CASE budget' = budget \/ (Fault /\ damage' = damage)
      BY <3>2, <1>t, <1>f
    <3> QED BY <1>t, <1>s, <3>1, <3>2
  <2>3. CASE DeadlineFires \/ DeadlineDecides \/ InhibitStarts \/ ShutdownStarts
               \/ ShutdownLeaves \/ ShutdownWrites \/ ShutdownBak
    BY <2>3, <1>t, <1>r, <1>s, <1>l
    DEF DeadlineFires, DeadlineDecides, InhibitStarts, ShutdownStarts, ShutdownLeaves,
        ShutdownWrites, ShutdownBak
  <2>4. ASSUME NEW p \in {"gate", "dl"},
               FailWrite(p) \/ FailNoLock(p) \/ FailBak(p) \/ Killed(p)
        PROVE  faults' <= faults /\ damage' <= damage
    BY <2>4, <1>t, <1>r, <1>s, <1>l, <1>f DEF FailWrite, FailNoLock, FailBak, Killed
  <2> QED BY <1>2, <2>1, <2>2, <2>3, <2>4, <2>5, <2>6 DEF CommitNext
<1>3. CASE InstallNext
  <2>1. CASE PreInstall \/ RaucMarkBad \/ RaucActivates \/ StreamWrong \/ Rollback \/ DebugHold
    <3>1. \E new, l : LockedWrite(new, l)
      BY <2>1 DEF PreInstall, RaucMarkBad, RaucActivates, StreamWrong, Rollback, DebugHold
    <3> QED BY <1>t, <1>w, <3>1
  <2>2. CASE PreInstallBak \/ RaucMarkBadBak \/ RaucActivatesBak \/ StreamWrongBak
               \/ DebugHoldBak \/ RollbackBak
    <3>1. (\E must, l : LockedBak(must, l)) \/ (\E ok : SyncBak(ok))
      BY <2>2 DEF PreInstallBak, RaucMarkBadBak, RaucActivatesBak, StreamWrongBak,
                  DebugHoldBak, RollbackBak
    <3> QED BY <1>t, <1>b, <1>s, <3>1
  <2>3. CASE InstallStarts \/ RaucWrites \/ RaucWritten \/ RaucAborts \/ InstallDone
               \/ RollbackAsked \/ InstallKilled
    BY <2>3, <1>t DEF InstallStarts, RaucWrites, RaucWritten, RaucAborts, InstallDone,
                      RollbackAsked, InstallKilled
  <2> QED BY <1>3, <2>1, <2>2, <2>3 DEF InstallNext
<1>4. CASE GrubNext
  <2>n. ASSUME NEW S, NoneLoads(S) PROVE faults' <= faults
    BY <2>n, <1>t, <1>f DEF NoneLoads
  <2>s. ASSUME NEW e, Saved(e) \/ NotSaved PROVE faults' <= faults /\ damage' = damage
    BY <2>s, <1>t, <1>f DEF Saved, NotSaved
  <2>1. CASE GrubStart \/ PickPass \/ PickChoose \/ PickNone \/ GrubBoot \/ NvidiaTrips
    <3>1. UNCHANGED <<faults, damage>>
      BY <2>1 DEF GrubStart, PickPass, PickChoose, PickNone, GrubBoot, NvidiaTrips
    <3> QED BY <1>t, <3>1
  <2>2. CASE PickExhausted \/ GrubCount
    BY <2>2, <1>t, <2>s DEF PickExhausted, GrubCount
  <2>3. CASE LoadFailed \/ HandOver \/ HandOverFailed \/ LastResort \/ NothingLoads
    <3>1. damage' = damage /\ (Fault \/ faults' = faults \/ \E S : NoneLoads(S))
      BY <2>3 DEF LoadFailed, HandOver, HandOverFailed, LastResort, NothingLoads
    <3> QED BY <1>t, <1>f, <2>n, <3>1
  <2> QED BY <1>4, <2>1, <2>2, <2>3 DEF GrubNext
<1>5. CASE BoardNext
  BY <1>5, <1>t
  DEF BoardNext, PowerCut, Crash, NvVerify, UserReboot, Halt, Tear, Corrupt, Reflash
<1> QED
  BY <1>1, <1>2, <1>3, <1>4, <1>5 DEF Next

\* So the bound never falls.
LEMMA BudgetFalls == TypeOK /\ TypeOK' /\ Next => TrialBound' \in Nat /\ TrialBound' >= TrialBound
  BY NoneReturned, BoundRises

-----------------------------------------------------------------------------
\* The guard gives attempts back to a committed slot only; a grubenv it makes
\* anew has a trial's attempt as used.
LEMMA GuardLeft ==
  ASSUME TypeOK, TypeOK', RunInv, LeftInv, GuardNext,
         TrialBound' \in Nat, TrialBound' >= TrialBound
  PROVE  LeftInv'
<1>t. /\ boot.slot \in Slots /\ Target \in Slots /\ Target # boot.slot
      /\ Other(boot.slot) = Target
      /\ \A s \in Slots : s \in {boot.slot, Target}
  BY RunningTypes DEF Target, Other, Slots
<1>u. phase = "up" /\ phase' = "up" /\ boot' = boot /\ grub' = grub /\ Target' = Target
  BY UpSteps, UpStepsKeepGrub, GuardShape DEF Target
<1>1. CASE GuardLock \/ GuardDies \/ GuardResetBak \/ GuardBak \/ GuardRebuildFails
             \/ GuardRebuildBak
  <2>1. UNCHANGED <<env, boot, tboots>> /\ Valid' = Valid
    BY <1>1, SyncBakValid
    DEF GuardLock, GuardDies, GuardResetBak, GuardBak, GuardRebuildFails, GuardRebuildBak,
        esp, hist, run, Valid
  <2> QED BY <1>u, <2>1, LeftStays DEF SameTrials
<1>a. UpAccount /\ UpAccount'
  BY <1>u, LeftUp, LeftUpNext
<1>q. ASSUME tboots' = tboots, Left(boot.slot)' <= Left(boot.slot),
             Left(Target)' <= Left(Target)
      PROVE  LeftInv'
  BY <1>q, <1>t, <1>u, AccountsUp
<1>2. CASE GuardReset
  <2>1. UNCHANGED <<tboots, torn>>
    BY <1>2 DEF GuardReset
  <2>2. CASE env' = env
    BY <1>u, <2>1, <2>2, LeftStays DEF SameTrials, Valid
  <2>3. CASE env.com[boot.slot] /\ env' = [env EXCEPT !.try[boot.slot] = 0]
    <3>1. /\ env'.com = env.com /\ env'.ok = env.ok /\ env'.order = env.order
          /\ env'.retry = env.retry /\ env'.try[Target] = env.try[Target]
      BY <1>t, <2>3, EnvFields DEF TypeOK, EspOK, Env
    <3>2. Left(Target)' <= Left(Target) /\ Left(boot.slot)' <= Left(boot.slot)
      BY <1>a, <1>t, <1>u, <2>1, <2>3, <3>1 DEF UpAccount, Valid
    <3> QED BY <1>q, <2>1, <3>2
  <2> QED BY <1>2, <2>2, <2>3, ReplaceKeeps DEF GuardReset, ToReset
<1>3. CASE GuardHand
  <2>1. UNCHANGED <<tboots, torn>>
    BY <1>3 DEF GuardHand, hist
  <2>2. CASE env' = env
    BY <1>u, <2>1, <2>2, LeftStays DEF SameTrials, Valid
  <2>3. CASE env' = [env EXCEPT !.ok[Target] = FALSE]
    <3>1. /\ env'.com = env.com /\ env'.try = env.try /\ env'.order = env.order
          /\ env'.retry = env.retry /\ ~env'.ok[Target]
          /\ env'.ok[boot.slot] = env.ok[boot.slot]
      BY <1>t, <2>3, EnvFields DEF TypeOK, EspOK, Env
    <3>2. Left(Target)' <= Left(Target) /\ Left(boot.slot)' <= Left(boot.slot)
      BY <1>a, <1>t, <1>u, <2>1, <3>1 DEF UpAccount, Valid
    <3> QED BY <1>q, <2>1, <3>2
  <2> QED BY <1>3, <1>t, <2>2, <2>3, ReplaceKeeps DEF GuardHand
<1>4. CASE GuardRebuild
  <2>1. ~Valid /\ Valid' /\ env' = Rebuilt
        /\ tboots' = IF boot.last THEN [tboots EXCEPT ![boot.slot] = 0] ELSE tboots
    BY <1>4 DEF GuardRebuild, Valid
  <2>2. /\ env'.com[boot.slot] = (~boot.trial /\ ~boot.last)
        /\ env'.com[Target] = boot.trial /\ env'.ok[Target] = boot.trial
        /\ env'.try[boot.slot] = (IF boot.trial THEN 1 ELSE 0)
    <3>1. Rebuilt.com = [x \in Slots |-> IF x = boot.slot THEN ~boot.trial /\ ~boot.last
                                         ELSE boot.trial]
          /\ Rebuilt.ok = [x \in Slots |-> x = boot.slot \/ boot.trial]
          /\ Rebuilt.try = [x \in Slots |-> IF x = boot.slot /\ boot.trial THEN 1 ELSE 0]
      BY DEF Rebuilt
    <3>2. boot.trial \in BOOLEAN /\ boot.last \in BOOLEAN
      BY RunningTypes
    <3> HIDE DEF Rebuilt
    <3> QED BY <1>t, <2>1, <3>1, <3>2
  <2>3. Left(Target)' = 0
    BY <1>a, <1>t, <1>u, <2>1, <2>2 DEF UpAccount
  <2>4. ~boot.last => Left(boot.slot)' <= Left(boot.slot)
    <3>1. CASE boot.trial
      <4>1. Left(boot.slot) = 1
        BY <1>a, <2>1, <3>1 DEF UpAccount
      <4>2. Left(boot.slot)' \in {0, 1}
        BY <1>a, <1>u, <2>1, <2>2, <3>1 DEF UpAccount
      <4> QED BY <4>1, <4>2
    <3>2. CASE ~boot.trial /\ ~boot.last
      <4>1. Left(boot.slot)' = 0
        BY <1>a, <1>u, <2>1, <2>2, <3>2 DEF UpAccount
      <4> QED BY <1>t, <4>1, LeftTypes
    <3> QED BY <3>1, <3>2
  <2>5. Left(Target)' <= Left(Target)
    BY <1>t, <2>3, LeftTypes
  <2>6. tboots \in [Slots -> Nat]
    BY EnvFields
  <2> HIDE DEF Left
  <2> QED BY <1>t, <1>u, <2>1, <2>4, <2>5, <2>6, AccountsUp
<1> QED
  BY <1>1, <1>2, <1>3, <1>4 DEF GuardNext

\* boat-commit takes attempts, and gives one back to the trial that runs, once;
\* whether the other slot has been given one back does not matter to it.
LEMMA CommitLeft ==
  ASSUME TypeOK, TypeOK', RunInv, LeftInv, CommitNext,
         TrialBound' \in Nat, TrialBound' >= TrialBound
  PROVE  LeftInv'
<1>t. /\ boot.slot \in Slots /\ Target \in Slots /\ Target # boot.slot
      /\ Other(boot.slot) = Target
      /\ \A s \in Slots : s \in {boot.slot, Target}
  BY RunningTypes DEF Target, Other, Slots
<1>u. phase = "up" /\ phase' = "up" /\ boot' = boot /\ grub' = grub /\ Target' = Target
  BY UpSteps, UpStepsKeepGrub, CommitShape DEF Target
<1>a. UpAccount /\ UpAccount'
  BY <1>u, LeftUp, LeftUpNext
<1>e. /\ env \in Env /\ env.order \in Slots /\ env.ok \in [Slots -> BOOLEAN]
      /\ env.com \in [Slots -> BOOLEAN] /\ env.try \in [Slots -> 0..2]
      /\ tboots \in [Slots -> Nat]
  BY EnvFields DEF TypeOK, EspOK
<1>q. ASSUME tboots'[Target] = tboots[Target],
             tboots'[boot.slot] \in {0, tboots[boot.slot]},
             Left(boot.slot)' <= Left(boot.slot), Left(Target)' <= Left(Target)
      PROVE  LeftInv'
  BY <1>q, <1>t, <1>u, AccountsUp
<1>n. ASSUME UNCHANGED <<env, torn, tboots>> PROVE LeftInv'
  BY <1>n, <1>u, LeftStays DEF SameTrials, Valid
\* The running slot's failure, in grubenv.
<1>b. ASSUME env' = Bad(boot.slot), UNCHANGED <<torn, tboots>> PROVE LeftInv'
  <2>1. /\ env'.com = env.com /\ env'.order = env.order /\ env'.retry = env.retry
        /\ ~env'.ok[boot.slot] /\ env'.ok[Target] = env.ok[Target]
        /\ env'.try[Target] = env.try[Target]
    BY <1>b, <1>e, <1>t DEF Bad, Env
  <2>2. Left(Target)' <= Left(Target) /\ Left(boot.slot)' <= Left(boot.slot)
    BY <1>a, <1>b, <1>t, <1>u, <2>1 DEF UpAccount, Valid
  <2> QED BY <1>b, <1>q, <2>2
<1>1. CASE GateStart \/ GateResetBak \/ GateSettles \/ GateStayBak \/ GatePasses
             \/ GateFails \/ GateCommitTimeout \/ GateCommitBak \/ GateFailMark
             \/ DeadlineFires \/ DeadlineDecides \/ InhibitStarts
             \/ ShutdownStarts \/ ShutdownLeaves \/ ShutdownBak
  <2>1. env' = env /\ tboots' = tboots
    BY <1>1 DEF GateStart, GateResetBak, GateSettles, GateStayBak, GatePasses, GateFails,
                GateCommitTimeout, GateCommitBak, GateFailMark, DeadlineFires,
                DeadlineDecides, InhibitStarts, ShutdownStarts, ShutdownLeaves,
                ShutdownBak, esp, hist
  <2>2. Valid' = Valid
    BY <1>1, SyncBakValid
    DEF GateStart, GateResetBak, GateSettles, GateStayBak, GatePasses, GateFails,
        GateCommitTimeout, GateCommitBak, GateFailMark, DeadlineFires,
        DeadlineDecides, InhibitStarts, ShutdownStarts, ShutdownLeaves,
        ShutdownBak, esp, Valid
  <2> QED BY <1>u, <2>1, <2>2, LeftStays DEF SameTrials
<1>2. CASE GateReset
  <2>1. UNCHANGED <<torn, tboots>> /\ pc["gate"] = "reset"
    BY <1>2 DEF GateReset, Gate
  <2>2. env' = env \/ (Valid /\ env' = [env EXCEPT !.ok[boot.slot] = TRUE,
                                                   !.try[boot.slot] = 0])
    BY <1>2 DEF GateReset, Replace
  <2>3. CASE Valid /\ env' = [env EXCEPT !.ok[boot.slot] = TRUE, !.try[boot.slot] = 0]
    <3>1. env.com[boot.slot]
      BY <2>1, <2>3 DEF RunInv
    <3>2. /\ env'.com = env.com /\ env'.order = env.order /\ env'.retry = env.retry
          /\ env'.ok[Target] = env.ok[Target] /\ env'.try[Target] = env.try[Target]
      BY <1>e, <1>t, <2>3 DEF Env
    <3>3. Left(Target)' <= Left(Target) /\ Left(boot.slot)' <= Left(boot.slot)
      BY <1>a, <1>t, <1>u, <2>1, <3>1, <3>2 DEF UpAccount, Valid
    <3> QED BY <1>q, <2>1, <3>3
  <2> QED BY <1>n, <2>1, <2>2, <2>3
<1>3. CASE GateStayOff
  <2>1. UNCHANGED <<torn, tboots>> /\ env' \in {env, [env EXCEPT !.stay = FALSE]}
    BY <1>3, ReplaceKeeps DEF GateStayOff, hist
  <2>2. /\ env'.com = env.com /\ env'.order = env.order /\ env'.retry = env.retry
        /\ env'.ok = env.ok /\ env'.try = env.try
    BY <1>e, <2>1 DEF Env
  <2> QED BY <1>u, <2>1, <2>2, LeftStays DEF SameTrials, Valid
<1>4. CASE GateCommit
  <2>1. torn' = torn /\ boot.trial
    BY <1>4 DEF GateCommit, Gate, RunInv
  <2>2. \/ env' = env /\ tboots' = tboots
        \/ Valid /\ env' = Committed /\ tboots' = [tboots EXCEPT ![boot.slot] = 0]
    <3>1. StillUsable => env' \in {env, Committed}
      BY <1>4, ReplaceKeeps DEF GateCommit
    <3> QED BY <1>4, <3>1 DEF GateCommit, StillUsable
  <2>3. CASE Valid /\ env' = Committed /\ tboots' = [tboots EXCEPT ![boot.slot] = 0]
    <3>1. /\ env'.com[boot.slot] /\ env'.ok[boot.slot] /\ env'.order = env.order
          /\ env'.com[Target] = env.com[Target] /\ env'.ok[Target] = env.ok[Target]
          /\ env'.try[Target] = env.try[Target] /\ env'.try[boot.slot] = 0
      BY <1>e, <1>t, <2>3 DEF Committed, Env
    <3>2. Left(Target)' <= Left(Target)
      BY <1>a, <1>t, <1>u, <2>1, <3>1 DEF UpAccount, Valid
    <3>3. Left(boot.slot)' <= Left(boot.slot)
      BY <1>a, <1>t, <1>u, <2>1, <2>3, <3>1 DEF UpAccount, Valid
    <3>4. tboots'[Target] = tboots[Target] /\ tboots'[boot.slot] = 0
      BY <1>e, <1>t, <2>3
    <3> QED BY <1>q, <3>2, <3>3, <3>4
  <2> QED BY <1>n, <2>1, <2>2, <2>3
<1>5. ASSUME NEW p \in {"gate", "dl"},
             FailWrite(p) \/ FailNoLock(p) \/ FailBak(p) \/ Killed(p)
      PROVE  LeftInv'
  <2>1. CASE FailWrite(p)
    <3>1. UNCHANGED <<torn, tboots>> /\ env' \in {env, Bad(boot.slot)}
      BY <2>1, ReplaceKeeps DEF FailWrite, Condemn
    <3> QED BY <1>n, <1>b, <3>1
  <2>2. CASE FailNoLock(p) \/ FailBak(p) \/ Killed(p)
    <3>1. env' = env /\ tboots' = tboots /\ Valid' = Valid
      BY <2>2, SyncBakValid DEF FailNoLock, FailBak, Killed, esp, hist, Valid
    <3> QED BY <1>u, <3>1, LeftStays DEF SameTrials
  <2> QED BY <1>5, <2>1, <2>2
<1>6. CASE ShutdownWrites
  <2>1. UNCHANGED <<torn, tboots>> /\ Undecided /\ pc["sd"] = "lock"
    BY <1>6 DEF ShutdownWrites, Condemn, hist
  <2>2. \/ env' \in {env, Bad(boot.slot)}
        \/ /\ env' = [env EXCEPT !.try[boot.slot] = 0, !.retry = boot.slot]
           /\ ~RolledBack /\ ~Retried
    BY <1>6, ReplaceKeeps DEF ShutdownWrites
  <2>3. CASE env' = [env EXCEPT !.try[boot.slot] = 0, !.retry = boot.slot]
               /\ ~RolledBack /\ ~Retried
    <3>1. boot.trial /\ ~boot.last
      BY <2>1 DEF RunInv
    <3>2. /\ env'.com = env.com /\ env'.ok = env.ok /\ env'.order = env.order
          /\ env'.retry = boot.slot /\ env'.try[boot.slot] = 0
          /\ env'.try[Target] = env.try[Target]
      BY <1>e, <1>t, <2>3 DEF Env
    <3>3. Valid /\ env.ok[boot.slot] /\ ~env.com[boot.slot] /\ env.retry # boot.slot
          /\ (env.order = boot.slot \/ ~env.ok[Target])
      BY <1>e, <1>t, <2>1, <2>3 DEF Undecided, RolledBack, Retried
    <3>4. Left(Target)' <= Left(Target)
      BY <1>a, <1>t, <1>u, <2>1, <3>1, <3>2, <3>3 DEF UpAccount, Valid
    <3>5. Left(boot.slot)' <= Left(boot.slot)
      BY <1>a, <1>t, <1>u, <2>1, <3>1, <3>2, <3>3 DEF UpAccount, Valid
    <3> QED BY <1>q, <2>1, <3>4, <3>5
  <2> QED BY <1>n, <1>b, <2>1, <2>2, <2>3
<1> QED
  BY <1>1, <1>2, <1>3, <1>4, <1>5, <1>6 DEF CommitNext

\* An install or a rollback opens a new account; what else they write takes from
\* the target's.  The slot they run on is committed, or a last resort.
LEMMA InstallLeft ==
  ASSUME TypeOK, TypeOK', RunInv, LeftInv, InstallNext,
         TrialBound' \in Nat, TrialBound' >= TrialBound
  PROVE  LeftInv'
<1>t. /\ boot.slot \in Slots /\ Target \in Slots /\ Target # boot.slot
      /\ Other(boot.slot) = Target
      /\ \A s \in Slots : s \in {boot.slot, Target}
  BY RunningTypes DEF Target, Other, Slots
<1>u. phase = "up" /\ phase' = "up" /\ boot' = boot /\ grub' = grub /\ Target' = Target
  BY UpSteps, UpStepsKeepGrub, InstallShape DEF Target
<1>a. UpAccount /\ UpAccount'
  BY <1>u, LeftUp, LeftUpNext
<1>e. /\ env \in Env /\ env.order \in Slots /\ env.ok \in [Slots -> BOOLEAN]
      /\ env.com \in [Slots -> BOOLEAN] /\ env.try \in [Slots -> 0..2]
      /\ tboots \in [Slots -> Nat]
  BY EnvFields DEF TypeOK, EspOK
<1>w. ASSUME NEW new, NEW l, LockedWrite(new, l)
      PROVE  env' = env \/ (env' = new /\ Valid)
  BY <1>w DEF LockedWrite, Replace
<1>n. ASSUME UNCHANGED <<env, torn, tboots>> PROVE LeftInv'
  BY <1>n, <1>u, LeftStays DEF SameTrials, Valid
<1>1. CASE InstallStarts \/ RaucAborts \/ InstallDone \/ RollbackAsked \/ RaucWrites
             \/ RaucWritten \/ InstallKilled
  BY <1>1, <1>n DEF InstallStarts, RaucAborts, InstallDone, RollbackAsked, RaucWrites,
                    RaucWritten, InstallKilled, esp, hist
<1>2. CASE PreInstallBak \/ RaucMarkBadBak \/ RaucActivatesBak \/ StreamWrongBak
             \/ DebugHoldBak \/ RollbackBak
  <2>1. env' = env /\ tboots' = tboots
    BY <1>2 DEF PreInstallBak, RaucMarkBadBak, RaucActivatesBak, StreamWrongBak,
                DebugHoldBak, RollbackBak, hist
  <2>2. \E ok \in BOOLEAN : SyncBak(ok)
    BY <1>2 DEF PreInstallBak, RaucMarkBadBak, RaucActivatesBak, StreamWrongBak,
                DebugHoldBak, RollbackBak, LockedBak
  <2>3. Valid' = Valid
    BY <2>2, SyncBakValid DEF Valid
  <2> QED BY <1>u, <2>1, <2>3, LeftStays DEF SameTrials
<1>3. CASE DebugHold
  <2>1. PICK on \in BOOLEAN : env' \in {env, [env EXCEPT !.stay = on]}
    BY <1>3, <1>w DEF DebugHold
  <2>2. UNCHANGED <<torn, tboots>>
    BY <1>3 DEF DebugHold, hist
  <2>3. /\ env'.com = env.com /\ env'.order = env.order /\ env'.retry = env.retry
        /\ env'.ok = env.ok /\ env'.try = env.try
    BY <1>e, <2>1 DEF Env
  <2> QED BY <1>u, <2>2, <2>3, LeftStays DEF SameTrials, Valid
\* The target is marked bad.
<1>b. ASSUME UNCHANGED <<torn, tboots>>, env'.com = env.com, env'.retry = env.retry,
             env'.order \in {env.order, boot.slot}, ~env'.ok[Target],
             env'.ok[boot.slot] = env.ok[boot.slot],
             env'.try[boot.slot] = env.try[boot.slot]
      PROVE  LeftInv'
  <2>1. Left(Target)' <= Left(Target) /\ Left(boot.slot)' <= Left(boot.slot)
    BY <1>a, <1>b, <1>t, <1>u DEF UpAccount, Valid
  <2> QED BY <1>b, <1>t, <1>u, <2>1, AccountsUp
<1>4. CASE RaucMarkBad
  <2>1. UNCHANGED <<torn, tboots>>
    BY <1>4 DEF RaucMarkBad, hist
  <2>2. CASE env' = [env EXCEPT !.ok[Target] = FALSE, !.try[Target] = 0]
    BY <1>b, <1>e, <1>t, <2>1, <2>2 DEF Env
  <2> QED BY <1>4, <1>n, <1>w, <2>1, <2>2 DEF RaucMarkBad
<1>5. CASE StreamWrong
  <2>1. UNCHANGED <<torn, tboots>>
    BY <1>5 DEF StreamWrong, hist
  <2>2. CASE env' = [env EXCEPT !.order = boot.slot, !.ok[Target] = FALSE, !.try[Target] = 0]
    BY <1>b, <1>e, <1>t, <2>1, <2>2 DEF Env
  <2> QED BY <1>5, <1>n, <1>w, <2>1, <2>2 DEF StreamWrong
\* The running slot has no trial to come.
<1>c. ASSUME pc["inst"] \in Installing, Valid, torn' = torn,
             env'.com[boot.slot] = env.com[boot.slot],
             env'.ok[boot.slot] = env.ok[boot.slot],
             env'.try[boot.slot] = env.try[boot.slot]
      PROVE  Left(boot.slot)' <= Left(boot.slot)
  <2>1. env.com[boot.slot] \/ (boot.last /\ ~boot.trial)
    BY <1>c, <1>u DEF RunInv
  <2> QED BY <1>a, <1>c, <1>t, <1>u, <2>1 DEF UpAccount, Valid
<1>6. CASE PreInstall
  <2>1. torn' = torn /\ pc["inst"] \in Installing
    BY <1>6 DEF PreInstall, Inst, Installing
  <2>2. CASE env' = Uncommitted /\ Valid
    <3>1. tboots' = [tboots EXCEPT ![Target] = 0]
      BY <1>6, <2>2 DEF PreInstall, Renewed
    <3>2. /\ env'.com[boot.slot] = env.com[boot.slot] /\ env'.ok = env.ok
          /\ env'.try = env.try
      BY <1>e, <1>t, <2>2 DEF Uncommitted, Env
    <3>3. Left(boot.slot)' <= Left(boot.slot)
      BY <1>c, <2>1, <2>2, <3>2
    <3>4. tboots'[boot.slot] = tboots[boot.slot] /\ tboots'[Target] = 0
      BY <1>e, <1>t, <3>1
    <3> QED BY <1>t, <1>u, <3>3, <3>4, AccountsUp
  <2>3. CASE env' = env
    <3>1. tboots' \in {tboots, [tboots EXCEPT ![Target] = 0]}
      BY <1>6 DEF PreInstall, Renewed
    <3>2. Left(boot.slot)' <= Left(boot.slot) /\ Left(Target)' <= Left(Target)
      BY <1>a, <1>t, <1>u, <2>1, <2>3 DEF UpAccount, Valid
    <3>3. tboots'[boot.slot] = tboots[boot.slot] /\ tboots'[Target] \in {0, tboots[Target]}
      BY <1>e, <1>t, <3>1
    <3> QED BY <1>t, <1>u, <3>2, <3>3, AccountsUp
  <2> QED BY <1>6, <1>w, <2>2, <2>3 DEF PreInstall
<1>7. CASE RaucActivates
  <2>1. UNCHANGED <<torn, tboots>> /\ pc["inst"] = "activate"
    BY <1>7 DEF RaucActivates, Inst, hist
  <2>2. CASE Valid /\ env' = [env EXCEPT !.order = Target, !.ok[Target] = TRUE,
                                         !.try[Target] = 0]
    <3>1. /\ env'.com = env.com /\ env'.ok[boot.slot] = env.ok[boot.slot]
          /\ env'.try[boot.slot] = env.try[boot.slot]
      BY <1>e, <1>t, <2>2 DEF Env
    <3>2. Left(boot.slot)' <= Left(boot.slot)
      BY <1>c, <2>1, <2>2, <3>1 DEF Installing
    <3>3. tboots'[Target] = 0
      BY <2>1 DEF RunInv
    <3> QED BY <1>t, <1>u, <2>1, <3>2, <3>3, AccountsUp
  <2> QED BY <1>7, <1>n, <1>w, <2>1, <2>2 DEF RaucActivates
<1>8. CASE Rollback
  <2>1. torn' = torn /\ tboots' \in {tboots, [s \in Slots |-> 0]}
    BY <1>8 DEF Rollback
  <2>2. CASE tboots' = [s \in Slots |-> 0]
    BY <1>u, <2>2, AccountsUp
  <2>3. CASE tboots' = tboots /\ env' = env
    BY <1>n, <2>1, <2>3
  <2> QED BY <1>8, <1>w, <2>1, <2>2, <2>3 DEF Rollback
<1> QED
  BY <1>1, <1>2, <1>3, <1>4, <1>5, <1>6, <1>7, <1>8 DEF InstallNext

-----------------------------------------------------------------------------
\* A fault pays for one more trial boot.
LEMMA FaultPays ==
  ASSUME TypeOK, TypeOK', Fault, damage' = damage
  PROVE  TrialBound' = TrialBound + 1
<1>1. /\ TrialBound = 2 + (MaxFaults - faults) + (MaxDamage - damage)
      /\ TrialBound' = 2 + (MaxFaults - (faults - 1)) + (MaxDamage - damage)
  BY DEF TrialBound, Fault
<1>2. faults \in Nat /\ damage \in Nat
  BY BudgetAssumption DEF TypeOK, BudgetOK
<1> HIDE DEF TrialBound
<1> QED
  BY <1>1, <1>2, BudgetAssumption

\* So does a loss.
LEMMA LossPays ==
  ASSUME TypeOK, TypeOK', damage' = damage - 1, faults' = faults
  PROVE  TrialBound' = TrialBound + 1
<1>1. /\ TrialBound = 2 + (MaxFaults - faults) + (MaxDamage - damage)
      /\ TrialBound' = 2 + (MaxFaults - faults) + (MaxDamage - (damage - 1))
  BY DEF TrialBound
<1>2. faults \in Nat /\ damage \in Nat
  BY BudgetAssumption DEF TypeOK, BudgetOK
<1> HIDE DEF TrialBound
<1> QED
  BY <1>1, <1>2, BudgetAssumption

\* What a step of GRUB or of the board must show.
LEMMA AccountsFall ==
  ASSUME TypeOK, TypeOK', LeftInv, TrialBound' \in Nat, TrialBound' >= TrialBound,
         \A s \in Slots : Account(s)' <= Account(s)
                            \/ (TrialBound' = TrialBound + 1 /\ Account(s)' <= Account(s) + 1)
  PROVE  LeftInv'
<1>1. \A s \in Slots : Account(s) \in Nat /\ Account(s)' \in Nat
  <2>1. \A s \in Slots : Pending(s) \in Nat /\ Pending(s)' \in Nat
    BY DEF Pending
  <2> QED BY <2>1, LeftTypes, LeftTypesNext DEF Account, TypeOK, HistOK
<1>2. TrialBound \in Nat
  BY BoundTypes
<1> HIDE DEF TrialBound, Account
<1> QED
  BY <1>1, <1>2 DEF LeftInv

\* A step that makes no slot usable and starts no trial lowers every account ...
Lowers ==
  /\ env'.com = env.com /\ env'.retry = env.retry /\ env'.try = env.try
  /\ \A s \in Slots : env'.ok[s] => env.ok[s]
  /\ Valid' = Valid /\ tboots' = tboots
  /\ \A s \in Slots : (Runs(s)' => Runs(s)) /\ Pending(s)' <= Pending(s)

LEMMA LeftFalls ==
  ASSUME TypeOK, TypeOK', LeftInv, TrialBound' \in Nat, TrialBound' >= TrialBound, Lowers,
         \A s \in Slots : Valid /\ NextUp(s) => NextUp(s)'
  PROVE  LeftInv'
<1>1. \A s \in Slots : Left(s)' <= Left(s)
  BY EnvFields DEF Left, Lowers
<1>2. \A s \in Slots : Pending(s) \in Nat /\ Pending(s)' \in Nat
  BY DEF Pending
<1>3. \A s \in Slots : Account(s)' <= Account(s)
  BY <1>1, <1>2, LeftTypes, LeftTypesNext DEF Account, Lowers, TypeOK, HistOK
<1> QED
  BY <1>3, AccountsFall

\* ... or, when the other slot comes between, raises it by the fault it took.
LEMMA LeftPaid ==
  ASSUME TypeOK, TypeOK', LeftInv, TrialBound' \in Nat, TrialBound' = TrialBound + 1, Lowers
  PROVE  LeftInv'
<1>1. \A s \in Slots : Left(s)' <= Left(s) + 1
  BY EnvFields DEF Left, Lowers
<1>2. \A s \in Slots : Pending(s) \in Nat /\ Pending(s)' \in Nat
  BY DEF Pending
<1>3. \A s \in Slots : Account(s)' <= Account(s) + 1
  BY <1>1, <1>2, LeftTypes, LeftTypesNext DEF Account, Lowers, TypeOK, HistOK
<1>4. TrialBound \in Nat
  BY BoundTypes
<1> QED
  BY <1>3, <1>4, AccountsFall

\* The end of a boot, in GRUB or up, is the end of its trial.
LEMMA LeftOff ==
  ASSUME TypeOK, TypeOK', LeftInv, TrialBound' \in Nat, TrialBound' >= TrialBound,
         phase' = "off", UNCHANGED <<env, torn, tboots>>
  PROVE  LeftInv'
<1>1. \A s \in Slots : ~Runs(s)' /\ Pending(s)' = 0 /\ Pending(s) \in Nat
  BY DEF Runs, Pending
<1>2. \A s \in Slots : NextUp(s) => NextUp(s)'
  BY DEF NextUp, GrubPhases
<1> QED
  BY <1>1, <1>2, LeftFalls DEF Lowers, Valid

\* What happens to the board costs a trial at most a loss.
LEMMA BoardLeft ==
  ASSUME TypeOK, TypeOK', LeftInv, BoardNext, TrialBound' \in Nat, TrialBound' >= TrialBound
  PROVE  LeftInv'
<1>1. CASE PowerCut \/ Crash \/ Halt
  BY <1>1, LeftOff DEF PowerCut, Crash, Halt, Down, esp
<1>2. CASE NvVerify \/ UserReboot
  BY <1>2, LeftStays DEF NvVerify, UserReboot, esp, run, hist, SameTrials, Valid
<1>3. ASSUME NEW f \in {"env", "bak"}, Tear(f) PROVE LeftInv'
  <2>1. UNCHANGED <<phase, grub, boot, tboots>> /\ TrialBound' = TrialBound + 1
    BY <1>3, LossPays DEF Tear, run, hist
  <2>2. CASE f = "bak"
    BY <1>3, <2>1, <2>2, LeftStays DEF Tear, SameTrials, Valid
  <2>3. CASE f = "env"
    <3>1. \A s \in Slots : Pending(s) = 0 /\ Pending(s)' = 0
      BY <1>3, <2>1 DEF Tear, Pending
    <3>2. ~Valid'
      BY <1>3, <2>3 DEF Tear, Valid
    <3>3. \A s \in Slots : Left(s)' <= 1
      BY <3>2 DEF Left
    <3>4. \A s \in Slots : Account(s)' <= Account(s) + 1
      BY <2>1, <3>1, <3>3, LeftTypes, LeftTypesNext DEF Account, TypeOK, HistOK
    <3> QED BY <2>1, <3>4, AccountsFall
  <2> QED BY <2>2, <2>3
<1>4. CASE \E s \in Slots : Corrupt(s)
  BY <1>4, LeftStays DEF Corrupt, esp, run, hist, SameTrials, Valid
<1>5. CASE Reflash
  <2>1. \A s \in Slots : tboots'[s] = 0 /\ Pending(s)' = 0
    BY <1>5 DEF Reflash, Pending
  <2>2. \A s \in Slots : Account(s)' <= 2
    BY <2>1, LeftTypesNext DEF Account
  <2>3. TrialBound \in Nat /\ TrialBound >= 2
    BY BoundTypes
  <2>4. \A s \in Slots : Account(s)' \in Nat
    BY <2>1, LeftTypesNext DEF Account
  <2> HIDE DEF TrialBound, Account
  <2> QED BY <2>2, <2>3, <2>4 DEF LeftInv
<1> QED
  BY <1>1, <1>2, <1>3, <1>4, <1>5 DEF BoardNext

\* What GRUB works with.
LEMMA GrubFields ==
  ASSUME TypeOK
  PROVE  /\ grub \in GrubVars /\ grub.mem \in Env /\ grub.i \in 1..3 /\ grub.envok \in BOOLEAN
         /\ grub.mem.order \in Slots
         /\ grub.mem.ok \in [Slots -> BOOLEAN] /\ grub.mem.com \in [Slots -> BOOLEAN]
         /\ grub.mem.try \in [Slots -> 0..2]
         /\ \A e \in Env : SlotAt(e, 1) = e.order /\ SlotAt(e, 2) = Other(e.order)
         /\ \A s \in Slots : Other(s) \in Slots \ {s} /\ Other(Other(s)) = s
         /\ \A s, t \in Slots : s # t => t = Other(s)
         /\ NoSlot \notin Slots
  BY DEF TypeOK, GrubVars, Env, SlotAt, Other, Slots, NoSlot

\* GRUB's memory goes with grubenv as long as it can save it: what it passes
\* over has no trial to come.
LEMMA GrubPass == TypeOK /\ ChosenOK /\ CountInv /\ PassInv /\ GrubNext => PassInv'
<1> SUFFICES ASSUME TypeOK, ChosenOK, CountInv, PassInv, GrubNext PROVE PassInv'
  OBVIOUS
<1>e. env \in Env
  BY DEF TypeOK, EspOK
<1>1. CASE GrubStart
  <2>1. /\ UNCHANGED <<env, torn>> /\ phase' = "pick" /\ grub'.envok = Valid
        /\ grub'.skip = NoSlot /\ grub'.failed = NoSlot /\ grub'.i = 1
        /\ Valid => grub'.mem = env
    BY <1>1 DEF GrubStart, esp
  <2> QED BY <2>1 DEF PassInv, Valid, GrubPhases
<1>2. CASE PickPass
  <2> DEFINE s == SlotAt(grub.mem, grub.i)
  <2>1. /\ UNCHANGED <<env, torn>> /\ phase = "pick" /\ phase' = "pick" /\ grub.i < 3
        /\ \/ s = grub.skip
           \/ ~grub.mem.ok[s]
           \/ ~grub.envok
    BY <1>2 DEF PickPass, Scanning, esp
  <2>2. /\ grub'.mem = grub.mem /\ grub'.envok = grub.envok /\ grub'.skip = grub.skip
        /\ grub'.failed = grub.failed /\ grub'.i = grub.i + 1
    BY <1>2, GrubFields DEF PickPass, GrubVars
  <2>3. s \in Slots /\ grub.i \in {1, 2}
    BY <2>1, GrubFields, GrubVarTypes
  <2>4. CASE grub.envok /\ Valid
    <3>1. s = SlotAt(env, grub.i) /\ ~env.ok[s]
      BY <1>e, <2>1, <2>3, <2>4, GrubFields DEF PassInv, GrubPhases, SlotAt
    <3>2. Passed(SlotAt(env, grub.i))
      BY <3>1 DEF Passed
    <3>3. \A i \in {1, 2} : i < grub.i + 1 => Passed(SlotAt(env, i))
      BY <2>1, <2>3, <2>4, <3>2 DEF PassInv, GrubPhases
    <3>4. \A s1 \in Slots : Passed(s1)' = Passed(s1)
      BY <2>1 DEF Passed
    <3>5. SlotAt(env, 1) \in Slots /\ SlotAt(env, 2) \in Slots /\ \A i : SlotAt(env, i)' = SlotAt(env, i)
      BY <1>e, <2>1, GrubFields, EnvFields DEF SlotAt
    <3> HIDE DEF s
    <3> QED BY <2>1, <2>2, <2>3, <2>4, <3>3, <3>4, <3>5 DEF PassInv, GrubPhases, Valid
  <2> HIDE DEF s
  <2> QED BY <2>1, <2>2, <2>4 DEF PassInv, GrubPhases, Valid
<1>3. CASE PickExhausted
  <2>s. PICK s \in Slots : s = SlotAt(grub.mem, grub.i)
    BY GrubFields, GrubVarTypes
  <2>1. /\ torn' = torn /\ phase = "pick" /\ phase' = "pick" /\ grub.i < 3
        /\ grub.mem.try[s] >= Limit(grub.mem, s)
        /\ grub' = [grub EXCEPT !.i = grub.i + 1, !.mem.ok[s] = FALSE]
        /\ env' \in {env, [env EXCEPT !.ok[s] = FALSE]}
    BY <1>3, <2>s DEF PickExhausted, Scanning, Saved, NotSaved
  <2>2. /\ grub'.envok = grub.envok /\ grub'.skip = grub.skip
        /\ grub'.failed = grub.failed /\ grub'.i = grub.i + 1
        /\ grub'.mem.com = grub.mem.com /\ grub'.mem.order = grub.mem.order
        /\ grub'.mem.try = grub.mem.try
        /\ grub'.mem.ok = [grub.mem.ok EXCEPT ![s] = FALSE]
    <3> QED BY <2>1, GrubFields DEF GrubVars, Env
  <2>3. /\ env'.com = env.com /\ env'.order = env.order /\ env'.try = env.try
        /\ env'.ok \in {env.ok, [env.ok EXCEPT ![s] = FALSE]}
    <3> QED BY <1>e, <2>1 DEF Env
  <2>4. grub.i \in {1, 2}
    BY <2>1, GrubFields
  <2>5. CASE grub.envok /\ Valid
    <3>1. s = SlotAt(env, grub.i)
      BY <1>e, <2>s, <2>1, <2>4, <2>5, GrubFields DEF PassInv, GrubPhases, SlotAt
    <3>2. env.try[s] >= 1
      <4>1. grub.mem.try = env.try /\ Limit(grub.mem, s) >= 1
        BY <2>1, <2>5 DEF PassInv, GrubPhases, Limit
      <4>2. env.try[s] \in Nat /\ Limit(grub.mem, s) \in Nat
        BY <2>s, EnvFields DEF Limit
      <4> HIDE DEF Limit
      <4> QED BY <2>1, <4>1, <4>2
    <3>3. \A t \in Slots : Passed(t) => Passed(t)'
      <4> QED BY <2>s, <2>3, EnvFields DEF Passed
    <3>4. Passed(s)'
      BY <2>3, <3>2 DEF Passed
    <3>5. SlotAt(env, 1) \in Slots /\ SlotAt(env, 2) \in Slots /\ \A i : SlotAt(env, i)' = SlotAt(env, i)
      BY <1>e, <2>3, GrubFields, EnvFields DEF SlotAt
    <3>6. \A i \in {1, 2} : i < grub.i + 1 => Passed(SlotAt(env, i))'
      <4> TAKE i \in {1, 2}
      <4>1. CASE i = grub.i
        BY <3>1, <3>4, <3>5, <4>1
      <4>2. CASE i < grub.i
        BY <2>1, <2>5, <3>3, <3>5, <4>2 DEF PassInv, GrubPhases
      <4> QED BY <2>4, <4>1, <4>2
    <3>7. \A i \in {1, 2} : i >= grub.i + 1 => grub'.mem.ok[SlotAt(env, i)] = env'.ok[SlotAt(env, i)]
      <4> SUFFICES ASSUME grub.i = 1
                   PROVE  grub'.mem.ok[SlotAt(env, 2)] = env'.ok[SlotAt(env, 2)]
        BY <2>4
      <4>1. grub.mem.ok[SlotAt(env, 2)] = env.ok[SlotAt(env, 2)]
        BY <2>1, <2>5 DEF PassInv, GrubPhases
      <4>2. SlotAt(env, 2) # s
        BY <1>e, <3>1, GrubFields, EnvFields
      <4> QED BY <2>2, <2>3, <2>s, <3>5, <4>1, <4>2, GrubFields, EnvFields
    <3>8. \A t \in Slots : grub'.mem.ok[t] => env'.ok[t]
      <4>1. \A t \in Slots : grub.mem.ok[t] => env.ok[t]
        BY <2>1, <2>5 DEF PassInv, GrubPhases
      <4> QED BY <2>2, <2>3, <2>s, <4>1, GrubFields, EnvFields
    <3>9. /\ grub.mem.com = env.com /\ grub.skip = NoSlot /\ grub.failed = NoSlot
          /\ grub.mem.order = env.order /\ grub.mem.try = env.try
      BY <2>1, <2>5 DEF PassInv, GrubPhases
    <3>10. \A i \in {1, 2} : i < grub'.i => Passed(SlotAt(env, i))'
      BY <2>2, <3>6
    <3>11. \A i \in {1, 2} : ~(i < grub'.i)
             => grub'.mem.ok[SlotAt(env', i)] = env'.ok[SlotAt(env', i)]
      <4> TAKE i \in {1, 2}
      <4>1. ~(i < grub'.i) => i >= grub.i + 1
        BY <2>2, <2>4
      <4>2. SlotAt(env', i) = SlotAt(env, i)
        BY <2>3 DEF SlotAt
      <4> QED BY <3>7, <4>1, <4>2
    <3> QED BY <2>1, <2>2, <2>3, <3>8, <3>9, <3>10, <3>11 DEF PassInv, GrubPhases
  <2> QED BY <2>1, <2>2, <2>3, <2>5 DEF PassInv, GrubPhases, Valid
<1>4. CASE PickChoose
  <2>s. PICK s \in Slots : s = SlotAt(grub.mem, grub.i)
    BY GrubFields, GrubVarTypes
  <2> DEFINE n == IF grub.mem.try[s] = 0 THEN 1 ELSE 2
  <2>1. /\ UNCHANGED <<env, torn>> /\ phase = "pick" /\ phase' = "count" /\ grub.i < 3
        /\ grub.mem.try[s] < Limit(grub.mem, s) /\ grub.mem.ok[s]
        /\ grub' = [grub EXCEPT !.chosen = s, !.mem.try[s] = n]
    BY <1>4, <2>s DEF PickChoose, Scanning, esp
  <2>2. /\ grub'.envok = grub.envok /\ grub'.skip = grub.skip
        /\ grub'.failed = grub.failed /\ grub'.i = grub.i /\ grub'.chosen = s
        /\ grub'.mem.com = grub.mem.com /\ grub'.mem.order = grub.mem.order
        /\ grub'.mem.try = [grub.mem.try EXCEPT ![s] = n] /\ grub'.mem.ok = grub.mem.ok
    <3> HIDE DEF n
    <3> QED BY <2>1, GrubFields DEF GrubVars, Env
  <2>4. grub.i \in {1, 2}
    BY <2>1, GrubFields
  <2>5. CASE grub.envok /\ Valid
    <3>1. s = SlotAt(env, grub.i)
      BY <1>e, <2>s, <2>1, <2>4, <2>5, GrubFields DEF PassInv, GrubPhases, SlotAt
    <3>9. /\ grub.mem.com = env.com /\ grub.skip = NoSlot /\ grub.failed = NoSlot
          /\ grub.mem.order = env.order /\ grub.mem.try = env.try
          /\ \A t \in Slots : grub.mem.ok[t] => env.ok[t]
      BY <2>1, <2>5 DEF PassInv, GrubPhases
    <3>2. ~env.com[s] => env.try[s] = 0
      <4>1. ~env.com[s] => env.try[s] < 1
        BY <2>1, <3>9 DEF Limit
      <4>2. env.try[s] \in Nat
        BY <2>s, EnvFields
      <4> QED BY <4>1, <4>2
    <3>3. s = env.order \/ Passed(Other(s))
      <4>1. CASE grub.i = 1
        BY <1>e, <3>1, <4>1, GrubFields
      <4>2. CASE grub.i = 2
        <5>1. Passed(SlotAt(env, 1))
          BY <2>1, <2>5, <4>2 DEF PassInv, GrubPhases
        <5>2. Other(s) = SlotAt(env, 1)
          BY <1>e, <3>1, <4>2, GrubFields, EnvFields
        <5> QED BY <5>1, <5>2
      <4> QED BY <2>4, <4>1, <4>2
    <3>4. Passed(Other(s)) => Passed(Other(s))'
      BY <2>1 DEF Passed
    <3>5. \A t \in Slots \ {s} : grub'.mem.try[t] = env'.try[t]
      <4> HIDE DEF n
      <4> QED BY <2>1, <2>2, <3>9, GrubFields, EnvFields
    <3> HIDE DEF n
    <3> QED BY <2>1, <2>2, <3>9, <3>2, <3>3, <3>4, <3>5 DEF PassInv, GrubPhases
  <2> HIDE DEF n
  <2> QED BY <2>1, <2>2, <2>5 DEF PassInv, GrubPhases, Valid
<1>5. CASE PickNone
  <2>1. /\ UNCHANGED <<env, torn>> /\ phase = "pick" /\ phase' = "none" /\ grub.i = 3
        /\ grub' = [grub EXCEPT !.chosen = NoSlot]
    BY <1>5 DEF PickNone, esp
  <2>2. /\ grub'.mem = grub.mem /\ grub'.envok = grub.envok /\ grub'.skip = grub.skip
        /\ grub'.failed = grub.failed
    BY <2>1, GrubFields DEF GrubVars
  <2>3. grub.envok /\ Valid => \A s \in Slots : Passed(s)'
    <3> SUFFICES ASSUME grub.envok, Valid, NEW s \in Slots PROVE Passed(s)
      BY <2>1 DEF Passed
    <3>1. Passed(SlotAt(env, 1)) /\ Passed(SlotAt(env, 2))
      BY <2>1 DEF PassInv, GrubPhases
    <3>2. s = SlotAt(env, 1) \/ s = SlotAt(env, 2)
      BY <1>e, GrubFields, EnvFields
    <3> QED BY <3>1, <3>2
  <2> QED BY <2>1, <2>2, <2>3 DEF PassInv, GrubPhases, Valid
<1>6. CASE GrubCount
  <2>1. CASE grub.envok /\ Saved([env EXCEPT !.try = grub.mem.try])
               /\ phase' = "load" /\ UNCHANGED <<grub, torn>>
    <3>1. env' = [env EXCEPT !.try = grub.mem.try] /\ Valid /\ phase = "count"
      BY <1>6, <2>1 DEF Saved, GrubCount
    <3>2. /\ env'.ok = env.ok /\ env'.try = grub.mem.try /\ env'.com = env.com
          /\ env'.order = env.order
      BY <1>e, <3>1 DEF Env
    <3>3. Passed(Other(grub.chosen)) => Passed(Other(grub.chosen))'
      <4>1. Other(grub.chosen) \in Slots \ {grub.chosen}
        BY <3>1, GrubFields DEF ChosenOK
      <4>2. grub.mem.try[Other(grub.chosen)] = env.try[Other(grub.chosen)]
        BY <2>1, <3>1, <4>1 DEF PassInv, GrubPhases
      <4> QED BY <2>1, <3>2, <4>2 DEF Passed
    <3> QED BY <2>1, <3>1, <3>2, <3>3 DEF PassInv, GrubPhases
  <2>2. CASE UNCHANGED <<env, grub, torn>> /\ phase' = "load"
    <3>1. phase = "count" /\ \A s : Passed(s)' = Passed(s)
      BY <1>6, <2>2 DEF GrubCount, Passed
    <3> QED BY <2>2, <3>1 DEF PassInv, GrubPhases, Valid
  <2>3. CASE grub' = Repick(grub) /\ phase' = "pick" /\ UNCHANGED <<env, torn>>
    <3>1. ~grub'.envok /\ grub'.mem = grub.mem /\ phase = "count"
      BY <1>6, <2>3, GrubFields DEF Repick, GrubVars, GrubCount
    <3> QED BY <2>3, <3>1 DEF PassInv, GrubPhases, Valid
  <2> QED
    BY <1>6, <2>1, <2>2, <2>3 DEF GrubCount, NotSaved
<1>7. CASE HandOver
  <2>1. /\ phase = "load" /\ phase' = "pick" /\ UNCHANGED <<env, torn>>
        /\ grub' = [Repick(grub) EXCEPT !.failed = grub.chosen, !.mem.ok[grub.chosen] = FALSE]
    BY <1>7 DEF HandOver, esp
  <2>2. ~grub'.envok /\ grub'.mem.com = grub.mem.com
    BY <2>1, GrubFields DEF Repick, GrubVars, Env
  <2> QED BY <2>1, <2>2 DEF PassInv, GrubPhases, Valid
<1>8. CASE GrubBoot \/ LoadFailed \/ HandOverFailed \/ LastResort \/ NothingLoads \/ NvidiaTrips
  <2>1. phase' \in {"up", "off", "recovery"}
    BY <1>8 DEF GrubBoot, LoadFailed, HandOverFailed, LastResort, NothingLoads, NvidiaTrips,
                Started, WarmReset
  <2> QED BY <2>1 DEF PassInv, GrubPhases
<1> QED
  BY <1>1, <1>2, <1>3, <1>4, <1>5, <1>6, <1>7, <1>8 DEF GrubNext

\* GRUB takes the attempt before it boots a trial, and boots it once for that; a
\* save that fails costs a fault.
LEMMA GrubLeft ==
  ASSUME TypeOK, TypeOK', ChosenOK, CountInv, PassInv, LeftInv, GrubNext,
         TrialBound' \in Nat, TrialBound' >= TrialBound
  PROVE  LeftInv'
<1>e. /\ env \in Env /\ env.ok \in [Slots -> BOOLEAN] /\ env.try \in [Slots -> 0..2]
  BY EnvFields DEF TypeOK, EspOK
<1>c. phase \in {"count", "load"} =>
        /\ grub.chosen \in Slots
        /\ grub.envok => Valid /\ grub.mem.com = env.com /\ env.ok[grub.chosen]
  BY DEF ChosenOK, CountInv, PassInv, GrubPhases
\* No slot becomes usable and nothing is loaded that was not.
<1>l. ASSUME env'.com = env.com, env'.retry = env.retry, env'.try = env.try,
             \A s \in Slots : env'.ok[s] => env.ok[s], UNCHANGED <<torn, tboots>>,
             phase' \in {"pick", "count", "none", "off", "recovery"}
                \/ (phase' = "up" /\ ~boot'.trial)
                \/ (phase' = "load" /\ grub'.mem.com[grub'.chosen])
      PROVE  Lowers
  <2>1. \A s \in Slots : ~Runs(s)' /\ Pending(s)' = 0 /\ Pending(s) \in {0, 1}
    BY <1>l DEF Runs, Pending
  <2> QED BY <1>l, <2>1 DEF Lowers, Valid
<1>1. CASE GrubStart
  <2>1. /\ UNCHANGED <<env, torn, tboots>> /\ phase = "off" /\ phase' = "pick"
        /\ grub'.envok = Valid
    BY <1>1 DEF GrubStart, esp, hist
  <2>2. \A s \in Slots : Valid /\ NextUp(s) => NextUp(s)'
    BY <2>1 DEF NextUp, GrubPhases
  <2> QED BY <1>l, <2>1, <2>2, LeftFalls
<1>2. CASE PickPass \/ PickChoose \/ PickNone
  <2>1. /\ UNCHANGED <<env, torn, tboots>> /\ phase = "pick" /\ phase' \in {"pick", "count", "none"}
    BY <1>2 DEF PickPass, PickChoose, PickNone, Scanning, esp, hist
  <2>2. grub'.envok = grub.envok
    <3>1. CASE PickPass
      BY <3>1, GrubFields DEF PickPass, GrubVars
    <3>2. CASE PickChoose
      BY <3>2, GrubFields DEF PickChoose, GrubVars
    <3>3. CASE PickNone
      BY <3>3, GrubFields DEF PickNone, GrubVars
    <3> QED BY <1>2, <3>1, <3>2, <3>3
  <2>3. \A s \in Slots : NextUp(s) => NextUp(s)'
    BY <2>1, <2>2 DEF NextUp, GrubPhases
  <2> QED BY <1>l, <2>1, <2>3, LeftFalls
<1>3. CASE PickExhausted
  <2>s. PICK s \in Slots : s = SlotAt(grub.mem, grub.i)
    BY GrubFields, GrubVarTypes
  <2>1. /\ UNCHANGED <<torn, tboots>> /\ phase = "pick" /\ phase' = "pick"
        /\ env' \in {env, [env EXCEPT !.ok[s] = FALSE]}
    BY <1>3, <2>s DEF PickExhausted, Scanning, Saved, NotSaved, hist
  <2>2. /\ env'.com = env.com /\ env'.order = env.order /\ env'.try = env.try
        /\ env'.retry = env.retry /\ \A x \in Slots : env'.ok[x] => env.ok[x]
    BY <1>e, <2>1 DEF Env
  <2>3. grub'.envok = grub.envok
    BY <1>3, GrubFields DEF PickExhausted, GrubVars
  <2>4. \A x \in Slots : NextUp(x) => NextUp(x)'
    BY <2>1, <2>2, <2>3, GrubFields DEF NextUp, GrubPhases
  <2> QED BY <1>l, <2>1, <2>2, <2>4, LeftFalls
<1>4. CASE GrubCount
  <2>c. PICK c \in Slots : c = grub.chosen
    BY <1>4, <1>c DEF GrubCount
  <2>p. phase = "count" /\ UNCHANGED <<torn, tboots>>
    BY <1>4 DEF GrubCount, hist
  <2>1. CASE /\ grub.envok /\ Saved([env EXCEPT !.try = grub.mem.try])
             /\ phase' = "load" /\ UNCHANGED grub
    <3>1. /\ env'.com = env.com /\ env'.order = env.order /\ env'.try = grub.mem.try
          /\ env'.retry = env.retry /\ env'.ok = env.ok /\ Valid /\ Valid'
      BY <1>e, <2>1, <2>p DEF Saved, Env, Valid
    <3>2. /\ grub.mem.com = env.com /\ env.ok[c]
          /\ \A s \in Slots \ {c} : grub.mem.try[s] = env.try[s]
          /\ ~env.com[c] => env.try[c] = 0
      BY <1>c, <2>c, <2>1, <2>p, <3>1 DEF PassInv, GrubPhases
    <3>3. grub.mem.try[c] >= 1 /\ grub.mem.try[c] \in 0..2
      BY <2>c, <2>p, GrubFields DEF CountInv
    <3>4. \A s \in Slots : /\ ~Runs(s) /\ Pending(s) = 0
                           /\ Runs(s)' <=> (c = s /\ ~env.com[s])
                           /\ Pending(s)' = IF c = s /\ ~env.com[s] THEN 1 ELSE 0
      BY <2>c, <2>1, <2>p, <3>1, <3>2 DEF Runs, Pending
    <3>5. \A s \in Slots : NextUp(s)' = NextUp(s)
      BY <2>1, <2>p, <3>1 DEF NextUp, GrubPhases
    <3>6. \A s \in Slots \ {c} : Left(s)' = Left(s)
      BY <3>1, <3>2, <3>4, <3>5 DEF Left
    <3>7. env.com[c] => Left(c)' = 0
      BY <3>1 DEF Left
    <3>8. ~env.com[c] =>
            /\ Left(c)' = (IF env.retry = c THEN 0 ELSE 1)
            /\ Left(c) >= (IF env.retry = c THEN 1 ELSE 2)
      <4> SUFFICES ASSUME ~env.com[c]
                   PROVE  /\ Left(c)' = (IF env.retry = c THEN 0 ELSE 1)
                          /\ Left(c) >= (IF env.retry = c THEN 1 ELSE 2)
        OBVIOUS
      <4>1. Left(c) >= (IF env.retry = c THEN 1 ELSE 2)
        BY <3>1, <3>2 DEF Left
      <4>2. Left(c)' = (IF env.retry = c THEN 0 ELSE 1)
        <5>1. Runs(c)'
          BY <3>4
        <5>3. grub.mem.try[c] # 0
          BY <3>3
        <5>2. (Left(c)') = IF env.retry = c THEN 0 ELSE 1
          BY <2>1, <3>1, <3>2, <5>1, <5>3 DEF Left
        <5> QED BY <5>2
      <4> QED BY <4>1, <4>2
    <3>9. \A s \in Slots : Account(s)' <= Account(s)
      <4> SUFFICES ASSUME NEW s \in Slots PROVE Account(s)' <= Account(s)
        OBVIOUS
      <4>1. Account(s) = tboots[s] + 0 + Left(s) /\ tboots[s] \in Nat /\ Left(s) \in 0..2
        BY <3>4, LeftTypes, EnvFields DEF Account
      <4>2. Account(s)' = tboots[s] + Pending(s)' + Left(s)' /\ Left(s)' \in 0..2
        BY <2>p, LeftTypesNext DEF Account
      <4>3. CASE s # c
        BY <3>4, <3>6, <4>1, <4>2, <4>3
      <4>4. CASE s = c /\ env.com[s]
        <5>1. Pending(s)' = 0 /\ Left(s)' = 0
          BY <3>4, <3>7, <4>4
        <5> HIDE DEF Account, Left, Pending
        <5> QED BY <4>1, <4>2, <5>1
      <4>5. CASE s = c /\ ~env.com[s]
        <5>1. /\ Pending(s)' = 1
              /\ Left(s)' = (IF env.retry = s THEN 0 ELSE 1)
              /\ Left(s) >= (IF env.retry = s THEN 1 ELSE 2)
          BY <3>4, <3>8, <4>5
        <5> HIDE DEF Account, Left, Pending
        <5> QED BY <4>1, <4>2, <5>1
      <4> QED BY <4>3, <4>4, <4>5
    <3> QED BY <3>9, AccountsFall
  <2>2. CASE UNCHANGED <<env, grub>> /\ phase' = "load" /\ grub.mem.com[grub.chosen]
    <3>1. \A s \in Slots : NextUp(s) => NextUp(s)'
      BY <2>2, <2>p DEF NextUp, GrubPhases
    <3> QED BY <1>l, <2>2, <2>p, <3>1, LeftFalls
  <2>3. CASE grub.envok /\ NotSaved /\ phase' = "pick"
    <3>1. Fault /\ UNCHANGED <<env, damage>>
      BY <1>c, <2>3, <2>p DEF NotSaved
    <3> QED BY <1>l, <2>3, <2>p, <3>1, FaultPays, LeftPaid
  <2>4. ~grub.envok => grub.mem.com[grub.chosen]
    BY <2>p DEF CountInv
  <2> QED BY <1>4, <2>1, <2>2, <2>3, <2>4 DEF GrubCount, NotSaved, BootsUncounted
<1>5. CASE GrubBoot
  <2>c. PICK c \in Slots : c = grub.chosen
    BY <1>5, <1>c DEF GrubBoot
  <2>1. /\ phase = "load" /\ phase' = "up" /\ UNCHANGED <<env, torn>>
        /\ boot'.slot = c /\ boot'.trial = ~grub.mem.com[c] /\ ~boot'.last
        /\ tboots' = IF ~grub.mem.com[c] THEN [tboots EXCEPT ![c] = @ + 1] ELSE tboots
    BY <1>5, <2>c DEF GrubBoot, Started, esp
  <2>2. CASE grub.mem.com[c]
    <3>1. \A s \in Slots : NextUp(s) => NextUp(s)'
      BY <2>1, <2>2 DEF NextUp, GrubPhases
    <3> QED BY <1>l, <2>1, <2>2, <3>1, LeftFalls
  <2>3. CASE ~grub.mem.com[c]
    <3>1. /\ grub.envok /\ Valid /\ Valid' /\ env.try[c] >= 1
          /\ ~env.com[c] /\ env.ok[c]
          /\ c = env.order \/ Passed(Other(c))
      BY <1>c, <2>c, <2>1, <2>3 DEF CountInv, PassInv, GrubPhases, Valid
    <3>2. /\ Runs(c) /\ Pending(c) = 1
          /\ \A s \in Slots : Pending(s)' = 0 /\ (Runs(s)' <=> s = c)
          /\ \A s \in Slots \ {c} : ~Runs(s) /\ Pending(s) = 0
      BY <2>c, <2>1, <2>3 DEF Runs, Pending
    <3>3. Left(c)' = Left(c)
      <4>1. env.try[c] # 0
        BY <3>1, EnvFields
      <4>4. Runs(c)'
        BY <3>2
      <4>2. Left(c) = IF env.retry # c THEN 1 ELSE 0
        BY <3>1, <3>2, <4>1 DEF Left
      <4>3. Left(c)' = IF env.retry # c THEN 1 ELSE 0
        BY <2>1, <3>1, <4>1, <4>4 DEF Left
      <4> QED BY <4>2, <4>3
    <3>4. ASSUME NEW s \in Slots \ {c} PROVE Left(s)' = Left(s)
      <4>1. s = Other(c) /\ Other(s) = c
        BY GrubFields
      <4>2. ~NextUp(s)' /\ ~Runs(s) /\ ~Runs(s)'
        <5>1. ~NextUp(s)'
          BY <2>1, <2>3 DEF NextUp
        <5> QED BY <3>2, <5>1
      <4>3. Passed(s) \/ ~NextUp(s)
        BY <3>1, <4>1 DEF NextUp
      <4>4. CASE Passed(s)
        BY <2>1, <3>1, <4>2, <4>4 DEF Left, Passed
      <4>5. CASE ~NextUp(s)
        BY <2>1, <3>1, <4>2, <4>5 DEF Left
      <4> QED BY <4>3, <4>4, <4>5
    <3>5. ASSUME NEW s \in Slots PROVE Account(s)' <= Account(s)
      <4>1. /\ tboots[s] \in Nat /\ Left(s) \in 0..2
            /\ tboots'[s] = IF s = c THEN tboots[s] + 1 ELSE tboots[s]
        BY <2>1, <2>3, LeftTypes, EnvFields
      <4>2. Pending(s)' = 0 /\ Pending(s) = (IF s = c THEN 1 ELSE 0) /\ Left(s)' = Left(s)
        BY <3>2, <3>3, <3>4
      <4>3. /\ Account(s) = tboots[s] + Pending(s) + Left(s)
            /\ Account(s)' = tboots'[s] + Pending(s)' + Left(s)'
        BY DEF Account
      <4> HIDE DEF Account, Left, Pending
      <4> QED BY <4>1, <4>2, <4>3
    <3> QED BY <3>5, AccountsFall
  <2> QED BY <2>2, <2>3
<1>6. CASE LoadFailed
  <2>1. /\ phase = "load" /\ grub.envok /\ grub.chosen \in Slots
        /\ env' = [env EXCEPT !.ok = [grub.mem.ok EXCEPT ![grub.chosen] = FALSE]]
        /\ UNCHANGED <<torn, tboots>> /\ phase' = "off"
    BY <1>6, <1>c DEF LoadFailed, WarmReset
  <2>2. /\ env'.com = env.com /\ env'.order = env.order /\ env'.try = env.try
        /\ env'.retry = env.retry /\ \A x \in Slots : env'.ok[x] => grub.mem.ok[x]
    BY <1>e, <2>1, GrubFields DEF Env
  <2>3. \A x \in Slots : env'.ok[x] => env.ok[x]
    BY <2>1, <2>2 DEF CountInv
  <2>4. \A x \in Slots : NextUp(x) => NextUp(x)'
    BY <2>1, <2>2, <2>3, GrubFields DEF NextUp, GrubPhases
  <2> QED BY <1>l, <2>1, <2>2, <2>3, <2>4, LeftFalls
<1>7. CASE HandOver
  <2>1. /\ phase = "load" /\ phase' = "pick" /\ UNCHANGED <<env, torn, tboots, damage>>
        /\ Fault \/ ~(grub.envok /\ Valid)
    BY <1>7 DEF HandOver, esp, hist
  <2>2. CASE Fault
    BY <1>l, <2>1, <2>2, FaultPays, LeftPaid
  <2>3. CASE ~grub.envok
    BY <1>l, <2>1, <2>3, LeftFalls DEF NextUp, GrubPhases
  <2> QED BY <1>c, <2>1, <2>2, <2>3
<1>8. CASE HandOverFailed \/ NothingLoads
  BY <1>8, LeftOff DEF HandOverFailed, NothingLoads, WarmReset, esp
<1>9. CASE LastResort
  <2>1. /\ phase = "none" /\ phase' = "up" /\ UNCHANGED <<env, torn, tboots>> /\ ~boot'.trial
    BY <1>9 DEF LastResort, Started, esp
  <2>2. CASE ~(grub.envok /\ Valid)
    BY <1>l, <2>1, <2>2, LeftFalls DEF NextUp, GrubPhases
  <2>3. CASE grub.envok /\ Valid
    <3>1. ASSUME NEW s \in Slots PROVE Account(s)' = tboots[s] /\ Account(s) = tboots[s]
      <4>1. ~Runs(s) /\ ~Runs(s)' /\ Pending(s) = 0 /\ Pending(s)' = 0
        BY <2>1 DEF Runs, Pending
      <4>2. Passed(s)
        BY <2>1, <2>3 DEF PassInv, GrubPhases
      <4>3. Left(s) = 0 /\ Left(s)' = 0
        BY <2>1, <2>3, <4>1, <4>2 DEF Left, Passed, Valid
      <4>4. tboots[s] \in Nat
        BY EnvFields
      <4> QED BY <2>1, <4>1, <4>3, <4>4 DEF Account
    <3>2. \A s \in Slots : tboots[s] <= tboots[s]
      BY EnvFields
    <3> QED BY <3>1, <3>2, AccountsFall
  <2> QED BY <2>2, <2>3
<1>10. CASE NvidiaTrips
  <2>1. UNCHANGED <<env, torn, tboots>> /\ phase' = "recovery" /\ phase = "off"
    BY <1>10 DEF NvidiaTrips, esp, hist
  <2>2. \A s \in Slots : NextUp(s) => NextUp(s)'
    BY <2>1 DEF NextUp, GrubPhases
  <2> QED BY <1>l, <2>1, <2>2, LeftFalls
<1> QED
  BY <1>1, <1>2, <1>3, <1>4, <1>5, <1>6, <1>7, <1>8, <1>9, <1>10 DEF GrubNext

\* No process of a boot that has just started is at a step RunInv speaks of.
LEMMA FreshRun ==
  /\ Fresh["gate"] = "start" /\ Fresh["guard"] = "start" /\ Fresh["dl"] = "armed"
  /\ Fresh["sd"] = "off" /\ Fresh["inst"] = "idle"
  BY DEF Fresh, Procs

\* The guard runs before the others, and a grubenv it makes anew has what runs
\* as committed unless it is on trial or a last resort.
LEMMA GuardRun == TypeOK /\ VerdictInv /\ RunInv /\ GuardNext => RunInv'
<1> SUFFICES ASSUME TypeOK, VerdictInv, RunInv, GuardNext PROVE RunInv'
  OBVIOUS
<1>t. /\ env \in Env /\ env.com \in [Slots -> BOOLEAN] /\ env.ok \in [Slots -> BOOLEAN]
      /\ env.try \in [Slots -> 0..2] /\ boot.slot \in Slots /\ Other(boot.slot) \in Slots
  BY EnvFields, RunningTypes DEF TypeOK, EspOK, Target
<1>g. pc["guard"] # "done" /\ \E l : Goto("guard", l)
  BY DEF GuardNext, GuardLock, GuardDies, GuardReset, GuardResetBak, GuardHand,
         GuardBak, GuardRebuild, GuardRebuildFails, GuardRebuildBak, GuardEnds
<1>p. /\ pc["gate"] = "start" /\ pc'["gate"] = "start" /\ pc'["sd"] = pc["sd"]
      /\ pc["inst"] = "idle" /\ pc'["inst"] = "idle"
  BY <1>g, GotoOther DEF Procs, VerdictInv, RunInv
<1>u. phase = "up" /\ phase' = "up" /\ boot' = boot
  BY UpSteps, GuardShape
<1>1. Valid' => \/ Valid /\ env'.com[boot.slot] = env.com[boot.slot]
                \/ ~boot.trial /\ ~boot.last => env'.com[boot.slot]
  <2>1. CASE GuardLock \/ GuardDies \/ GuardResetBak \/ GuardBak \/ GuardRebuildFails
               \/ GuardRebuildBak
    BY <2>1, SyncBakValid
    DEF GuardLock, GuardDies, GuardResetBak, GuardBak, GuardRebuildFails,
        GuardRebuildBak, esp, Valid
  <2>2. CASE GuardReset
    <3>1. torn' = torn /\ env' \in {env, [env EXCEPT !.try[boot.slot] = 0]}
      BY <2>2, ReplaceKeeps DEF GuardReset
    <3> QED BY <1>t, <3>1 DEF Valid, Env
  <2>3. CASE GuardHand
    <3>1. torn' = torn /\ env' \in {env, [env EXCEPT !.ok[Other(boot.slot)] = FALSE]}
      BY <2>3, ReplaceKeeps DEF GuardHand
    <3> QED BY <1>t, <3>1 DEF Valid, Env
  <2>4. CASE GuardRebuild
    BY <1>t, <2>4 DEF GuardRebuild, Rebuilt
  <2> QED BY <2>1, <2>2, <2>3, <2>4 DEF GuardNext
<1> QED
  BY <1>1, <1>p, <1>u DEF RunInv, Installing

\* boat-commit takes no commit away, and resets, commits and gives back only
\* what it may.
LEMMA CommitRun == TypeOK /\ RunInv /\ CommitNext => RunInv'
<1> SUFFICES ASSUME TypeOK, RunInv, CommitNext PROVE RunInv'
  OBVIOUS
<1>t. /\ env \in Env /\ env.com \in [Slots -> BOOLEAN] /\ env.ok \in [Slots -> BOOLEAN]
      /\ env.try \in [Slots -> 0..2] /\ tboots \in [Slots -> Nat]
      /\ boot.slot \in Slots /\ Target \in Slots /\ Target # boot.slot
  BY EnvFields, RunningTypes DEF TypeOK, EspOK
<1>pc. pc \in [Procs -> Steps]
  BY DEF TypeOK, PcOK
<1>u. /\ phase = "up" /\ phase' = "up" /\ boot' = boot /\ Target' = Target
      /\ pc'["inst"] = pc["inst"]
      /\ pc'["gate"] = "commit" => boot.trial
  BY UpSteps, CommitShape DEF Target, RunInv
<1>1. (Valid' => Valid) /\ (env.com[boot.slot] => env'.com[boot.slot])
  <2>0. Bad(boot.slot).com = env.com
    BY <1>t DEF Bad, Env
  <2>1. CASE GateStart \/ GateResetBak \/ GateSettles \/ GateStayBak \/ GatePasses
               \/ GateFails \/ GateCommitTimeout \/ GateCommitBak \/ GateFailMark
               \/ DeadlineFires \/ DeadlineDecides \/ InhibitStarts
               \/ ShutdownStarts \/ ShutdownLeaves \/ ShutdownBak
    BY <2>1, SyncBakValid
    DEF GateStart, GateResetBak, GateSettles, GateStayBak, GatePasses, GateFails,
        GateCommitTimeout, GateCommitBak, GateFailMark, DeadlineFires,
        DeadlineDecides, InhibitStarts, ShutdownStarts, ShutdownLeaves,
        ShutdownBak, esp, Valid
  <2>2. CASE GateReset \/ GateStayOff \/ GateCommit
    <3>1. /\ torn' = torn
          /\ env' \in {env, [env EXCEPT !.ok[boot.slot] = TRUE, !.try[boot.slot] = 0],
                       [env EXCEPT !.stay = FALSE], Committed}
      BY <2>2, ReplaceKeeps DEF GateReset, GateStayOff, GateCommit
    <3>2. CASE env' = [env EXCEPT !.ok[boot.slot] = TRUE, !.try[boot.slot] = 0]
      BY <1>t, <3>1, <3>2 DEF Valid, Env
    <3>3. CASE env' = [env EXCEPT !.stay = FALSE]
      BY <1>t, <3>1, <3>3 DEF Valid, Env
    <3>4. CASE env' = Committed
      BY <1>t, <3>1, <3>4 DEF Valid, Env, Committed
    <3> QED BY <3>1, <3>2, <3>3, <3>4 DEF Valid
  <2>3. ASSUME NEW p \in {"gate", "dl"},
               FailWrite(p) \/ FailNoLock(p) \/ FailBak(p) \/ Killed(p)
        PROVE  (Valid' => Valid) /\ (env.com[boot.slot] => env'.com[boot.slot])
    BY <2>0, <2>3, ReplaceKeeps, SyncBakValid
    DEF FailWrite, FailNoLock, FailBak, Killed, esp, Valid
  <2>4. CASE ShutdownWrites
    <3>1. /\ torn' = torn
          /\ env' \in {env, Bad(boot.slot),
                       [env EXCEPT !.try[boot.slot] = 0, !.retry = boot.slot]}
      BY <2>4, ReplaceKeeps DEF ShutdownWrites
    <3> QED BY <1>t, <2>0, <3>1 DEF Valid, Env
  <2> QED BY <2>1, <2>2, <2>3, <2>4 DEF CommitNext
<1>2. tboots'[Target] = tboots[Target]
  <2>1. \/ tboots' = tboots
        \/ tboots' = [tboots EXCEPT ![boot.slot] = 0]
    BY DEF CommitNext, GateStart, GateReset, GateResetBak, GateSettles,
           GateStayOff, GateStayBak, GatePasses, GateFails, GateCommit,
           GateCommitTimeout, GateCommitBak, GateFailMark, DeadlineFires,
           DeadlineDecides, FailWrite, FailNoLock, FailBak, Killed, InhibitStarts,
           ShutdownStarts, ShutdownLeaves, ShutdownWrites, ShutdownBak, Condemn, hist
  <2> QED BY <1>t, <2>1
<1>3. /\ pc'["guard"] = pc["guard"]
      /\ pc'["gate"] = "reset" => pc["gate"] = "reset" \/ env.com[boot.slot]
      /\ pc'["sd"] \notin {"off", "done"} => pc["sd"] \notin {"off", "done"} \/ boot.trial
  <2>1. CASE GateStart \/ GateReset \/ GateResetBak \/ GateSettles \/ GateStayOff \/ GateStayBak
    BY <1>pc, <2>1 DEF GateStart, GateReset, GateResetBak, GateSettles, GateStayOff,
                       GateStayBak, Goto, Procs, IsCommitted
  <2>2. CASE GatePasses \/ GateFails \/ GateFailMark \/ GateCommit \/ GateCommitTimeout
               \/ GateCommitBak
    BY <1>pc, <2>2 DEF GatePasses, GateFails, GateFailMark, GateCommit, GateCommitTimeout,
                       GateCommitBak, CommitFailed, Goto, Procs
  <2>3. CASE DeadlineFires \/ DeadlineDecides
    BY <1>pc, <2>3 DEF DeadlineFires, DeadlineDecides, Goto, Procs
  <2>4. ASSUME NEW p \in {"gate", "dl"},
               FailWrite(p) \/ FailNoLock(p) \/ FailBak(p) \/ Killed(p)
        PROVE  /\ pc'["guard"] = pc["guard"] /\ pc'["sd"] = pc["sd"]
               /\ pc'["gate"] = "reset" => pc["gate"] = "reset"
    BY <1>pc, <2>4 DEF FailWrite, FailNoLock, FailBak, Killed, Goto, Procs
  <2>5. CASE InhibitStarts \/ ShutdownStarts \/ ShutdownLeaves \/ ShutdownWrites \/ ShutdownBak
    BY <1>pc, <2>5 DEF InhibitStarts, ShutdownStarts, ShutdownLeaves, ShutdownWrites,
                       ShutdownBak, Goto, Procs
  <2> QED BY <2>1, <2>2, <2>3, <2>4, <2>5 DEF CommitNext
<1> QED
  BY <1>1, <1>2, <1>3, <1>u DEF RunInv, Installing

\* An install starts when the guard is through and no trial is undecided, and
\* its target has a new account from pre-install on.
LEMMA InstallRun == TypeOK /\ VerdictInv /\ RunInv /\ InstallNext => RunInv'
<1> SUFFICES ASSUME TypeOK, VerdictInv, RunInv, InstallNext PROVE RunInv'
  OBVIOUS
<1>pc. pc \in [Procs -> Steps]
  BY DEF TypeOK, PcOK
<1>t. tboots \in [Slots -> Nat] /\ Target \in Slots
  BY EnvFields, RunningTypes
<1>u. /\ phase = "up" /\ phase' = "up" /\ boot' = boot /\ Target' = Target
      /\ pc'["gate"] = pc["gate"] /\ pc'["sd"] = pc["sd"] /\ pc'["guard"] = pc["guard"]
      /\ (Valid' <=> Valid) /\ env'.com[boot.slot] = env.com[boot.slot]
  BY UpSteps, InstallShape, InstallKeeps, GotoOther DEF Target, Procs
<1>1. pc["guard"] = "done"
  BY DEF InstallNext, Inst, Asked, InstallStarts, PreInstall, PreInstallBak,
         RaucMarkBad, RaucMarkBadBak, RaucWrites, RaucWritten, RaucAborts,
         RaucActivates, RaucActivatesBak, InstallDone, StreamWrong,
         StreamWrongBak, RollbackAsked, Rollback, RollbackBak, DebugHold,
         DebugHoldBak, InstallKilled, RunInv
<1>2. pc'["inst"] \in Installing /\ boot.trial => env.com[boot.slot]
  <2>1. pc'["inst"] \in Installing => pc["inst"] \in Installing \/ InstallStarts
    <3> USE DEF Inst, Asked, Installing
    <3>1. CASE InstallStarts \/ PreInstall \/ PreInstallBak \/ RaucMarkBad \/ RaucMarkBadBak
      BY <1>pc, <3>1 DEF InstallStarts, PreInstall, PreInstallBak, RaucMarkBad, RaucMarkBadBak
    <3>2. CASE RaucWrites \/ RaucWritten \/ RaucAborts
      BY <1>pc, <3>2 DEF RaucWrites, RaucWritten, RaucAborts, Goto, Procs
    <3>3. CASE RaucActivates \/ RaucActivatesBak \/ InstallDone \/ StreamWrong \/ StreamWrongBak
      BY <1>pc, <3>3 DEF RaucActivates, RaucActivatesBak, InstallDone, StreamWrong,
                         StreamWrongBak
    <3>4. CASE RollbackAsked \/ Rollback \/ RollbackBak
      BY <1>pc, <3>4 DEF RollbackAsked, Rollback, RollbackBak, LockedWrite, Goto, Procs
    <3>5. CASE DebugHold \/ DebugHoldBak \/ InstallKilled
      BY <1>pc, <3>5 DEF DebugHold, DebugHoldBak, InstallKilled, LockedWrite, LockedBak, Goto, Procs
    <3> QED BY <3>1, <3>2, <3>3, <3>4, <3>5 DEF InstallNext
  <2>2. InstallStarts /\ boot.trial => env.com[boot.slot]
    BY DEF InstallStarts, OnTrial, VerdictInv, Stands
  <2> QED BY <2>1, <2>2 DEF RunInv
<1>3. pc'["inst"] \in {"prebak", "markbad", "badbak", "write", "writing", "activate"}
        => tboots'[Target] = 0
  <2> DEFINE New == {"prebak", "markbad", "badbak", "write", "writing", "activate"}
  <2>r. pc["inst"] \in New => tboots[Target] = 0
    BY DEF RunInv
  <2>1. CASE PreInstall
    <3>1. pc'["inst"] \in New => env' = Uncommitted
      BY <1>pc, <2>1 DEF PreInstall, LockedWrite, Replace, Goto, Procs
    <3> QED BY <1>t, <2>1, <3>1 DEF PreInstall, Renewed
  <2>2. CASE InstallStarts \/ PreInstallBak
    BY <1>pc, <2>2, <2>r DEF InstallStarts, PreInstallBak, LockedBak, Goto, Procs, hist, Inst
  <2>3. CASE RaucMarkBad \/ RaucMarkBadBak
    BY <2>3, <2>r DEF RaucMarkBad, RaucMarkBadBak, hist, Inst
  <2>4. CASE RaucWrites \/ RaucWritten \/ RaucAborts
    BY <1>pc, <2>4, <2>r DEF RaucWrites, RaucWritten, RaucAborts, Goto, Procs, hist, Inst
  <2>5. CASE RaucActivates \/ RaucActivatesBak \/ InstallDone \/ StreamWrong \/ StreamWrongBak
    BY <1>pc, <2>5, <2>r DEF RaucActivates, RaucActivatesBak, InstallDone, StreamWrong,
                       StreamWrongBak, LockedWrite, LockedBak, Goto, Procs, hist, Inst
  <2>6. CASE RollbackAsked \/ Rollback \/ RollbackBak
    BY <1>pc, <2>6 DEF RollbackAsked, Rollback, RollbackBak, LockedWrite, Goto, Procs
  <2>7. CASE DebugHold \/ DebugHoldBak \/ InstallKilled
    BY <1>pc, <2>7 DEF DebugHold, DebugHoldBak, InstallKilled, LockedWrite, LockedBak, Goto, Procs
  <2> QED BY <2>1, <2>2, <2>3, <2>4, <2>5, <2>6, <2>7 DEF InstallNext
<1> QED
  BY <1>1, <1>2, <1>3, <1>u DEF RunInv

\* What GRUB boots as committed is committed in grubenv.
LEMMA GrubRun == TypeOK /\ ChosenOK /\ VerdictInv /\ PassInv /\ RunInv /\ GrubNext => RunInv'
<1> SUFFICES ASSUME TypeOK, ChosenOK, VerdictInv, PassInv, RunInv, GrubNext PROVE RunInv'
  OBVIOUS
<1>1. pc' = Fresh
  BY GrubShape DEF VerdictInv
<1>2. CASE GrubBoot
  <2>1. /\ phase = "load" /\ UNCHANGED <<env, torn>> /\ boot'.slot = grub.chosen
        /\ boot'.trial = ~grub.mem.com[grub.chosen] /\ boot'.last = FALSE
    BY <1>2 DEF GrubBoot, Started, esp
  <2>2. Valid => grub.mem.com = env.com
    BY <2>1 DEF PassInv, GrubPhases
  <2> QED BY <1>1, <2>1, <2>2, FreshRun DEF RunInv, Valid, Installing
<1>3. CASE LastResort
  <2>1. boot'.trial = FALSE /\ boot'.last = TRUE
    BY <1>3 DEF LastResort, Started
  <2> QED BY <1>1, <2>1, FreshRun DEF RunInv, Installing
<1>4. CASE ~GrubBoot /\ ~LastResort
  <2>1. phase' # "up" /\ boot' = boot
    BY <1>4 DEF GrubNext, GrubStart, PickPass, PickExhausted, PickChoose, PickNone, GrubCount,
                LoadFailed, HandOver, HandOverFailed, NothingLoads, NvidiaTrips, Scanning,
                WarmReset, run
  <2> QED BY <1>1, <2>1, FreshRun DEF RunInv, Installing
<1> QED
  BY <1>2, <1>3, <1>4

\* A boot that ends leaves nothing under way, and a loss is found by nobody.
LEMMA BoardRun == VerdictInv /\ RunInv /\ BoardNext => RunInv'
<1> SUFFICES ASSUME VerdictInv, RunInv, BoardNext PROVE RunInv'
  OBVIOUS
<1>1. CASE PowerCut \/ Crash \/ Halt
  <2>1. phase' = "off" /\ pc' = Fresh /\ boot' = NoBoot
    BY <1>1 DEF PowerCut, Crash, Halt, Down, RunCleared
  <2> QED BY <2>1, FreshRun DEF RunInv, Installing, NoBoot
<1>2. CASE NvVerify \/ UserReboot
  <2>1. UNCHANGED <<env, torn, phase, boot, pc, tboots>>
    BY <1>2 DEF NvVerify, UserReboot, esp, run, hist
  <2> QED BY <2>1 DEF RunInv, Valid, Target
<1>3. ASSUME NEW f \in {"env", "bak"}, Tear(f) PROVE RunInv'
  <2>1. pc' = Fresh /\ boot' = boot /\ phase' = phase /\ (Valid' => Valid /\ env' = env)
    BY <1>3 DEF Tear, run, Valid
  <2> QED BY <2>1, FreshRun DEF RunInv, Installing
<1>4. CASE (\E s \in Slots : Corrupt(s)) \/ Reflash
  <2>1. phase' = "off" /\ boot' = boot /\ pc' = Fresh
    BY <1>4 DEF Corrupt, Reflash, run, VerdictInv
  <2> QED BY <2>1, FreshRun DEF RunInv, Installing
<1> QED
  BY <1>1, <1>2, <1>3, <1>4 DEF BoardNext

-----------------------------------------------------------------------------
\* The accounts, with what they take of GRUB's memory and of the running system.
LEMMA TrialInvariant == Spec => [](LeftInv /\ PassInv /\ RunInv)
<1>1. Init => LeftInv /\ PassInv /\ RunInv
  <2> SUFFICES ASSUME Init PROVE LeftInv /\ PassInv /\ RunInv
    OBVIOUS
  <2>1. PassInv /\ RunInv
    BY FreshRun DEF Init, PassInv, RunInv, GrubPhases, NoBoot, Installing
  <2>2. ASSUME NEW s \in Slots PROVE Account(s) <= TrialBound
    <3>1. tboots[s] = 0 /\ Pending(s) = 0 /\ Left(s) \in 0..2
      BY LeftTypes DEF Init, Pending
    <3>2. TrialBound = 2
      BY BudgetAssumption DEF Init, TrialBound
    <3> HIDE DEF Left, TrialBound
    <3> QED BY <3>1, <3>2 DEF Account
  <2> QED BY <2>1, <2>2 DEF LeftInv
<1>2. /\ TypeOK /\ TypeOK' /\ ChosenOK /\ CountInv /\ VerdictInv
      /\ LeftInv /\ PassInv /\ RunInv /\ [Next]_vars
      => LeftInv' /\ PassInv' /\ RunInv'
  <2> SUFFICES ASSUME TypeOK, TypeOK', ChosenOK, CountInv, VerdictInv,
                      LeftInv, PassInv, RunInv, [Next]_vars
               PROVE  LeftInv' /\ PassInv' /\ RunInv'
    OBVIOUS
  <2>b. Next => TrialBound' \in Nat /\ TrialBound' >= TrialBound
    BY BudgetFalls
  <2>p. phase' = "up" \/ phase' = "off" => PassInv'
    BY DEF PassInv, GrubPhases
  <2>1. CASE GuardNext
    BY <2>1, <2>b, <2>p, UpSteps, GuardLeft, GuardRun DEF Next
  <2>2. CASE CommitNext
    BY <2>2, <2>b, <2>p, UpSteps, CommitLeft, CommitRun DEF Next
  <2>3. CASE InstallNext
    BY <2>3, <2>b, <2>p, UpSteps, InstallLeft, InstallRun DEF Next
  <2>4. CASE GrubNext
    BY <2>4, <2>b, GrubLeft, GrubPass, GrubRun DEF Next
  <2>5. CASE BoardNext
    BY <2>5, <2>b, <2>p, BoardSteps, BoardLeft, BoardRun DEF Next
  <2>6. CASE UNCHANGED vars
    <3>1. UNCHANGED <<env, torn, phase, grub, boot, pc, tboots, faults, damage>>
      BY <2>6 DEF vars, esp, run, budget, hist
    <3>2. PassInv' /\ RunInv'
      BY <3>1 DEF PassInv, Passed, SlotAt, RunInv, Target, Valid
    <3>3. LeftInv'
      <4>1. TrialBound' \in Nat /\ TrialBound' >= TrialBound
        BY <3>1, BoundTypes DEF TrialBound
      <4> QED BY <3>1, <4>1, LeftStays DEF SameTrials, Valid
    <3> QED BY <3>2, <3>3
  <2> QED BY <2>1, <2>2, <2>3, <2>4, <2>5, <2>6 DEF Next
<1> QED
  BY <1>1, <1>2, TypesHold, CountInvariant, VerdictInvariant, PTL DEF Spec

\* A release gets at most two trial boots - its one attempt, and the one a clean
\* shutdown gives back - and one more for each fault or loss there was, for
\* every number of faults and losses, however they fall.
THEOREM TrialsAreBounded == Spec => []TrialBounded
<1>1. TypeOK /\ LeftInv => TrialBounded
  <2> SUFFICES ASSUME TypeOK, LeftInv, NEW s \in Slots PROVE tboots[s] <= TrialBound
    BY DEF TrialBounded
  <2>1. tboots[s] \in Nat /\ Pending(s) \in 0..1 /\ Left(s) \in 0..2
    BY LeftTypes, EnvFields DEF Pending
  <2>2. TrialBound \in Nat /\ tboots[s] + Pending(s) + Left(s) <= TrialBound
    BY BoundTypes DEF LeftInv, Account
  <2> HIDE DEF Pending, Left, TrialBound
  <2> QED BY <2>1, <2>2
<1> QED
  BY <1>1, TypesHold, TrialInvariant, PTL

-----------------------------------------------------------------------------
(***************************************************************************)
(* The first loss.                                                         *)
(***************************************************************************)
\* What GRUB and the guard have to go by when a copy is torn, as long as nothing
\* else failed: some slot is committed, GRUB has given up on none that is, and
\* it boots a last resort, or a trial's neighbour, only of those.
Anchored ==
  /\ \E s \in Slots : env.com[s]
  /\ phase \in GrubPhases =>
       /\ grub.mem.com = env.com
       /\ grub.failed # NoSlot => ~env.com[grub.failed]
  /\ phase = "up" /\ boot.last => env.com[boot.slot]
  /\ phase = "up" /\ boot.trial /\ pc["guard"] # "done" => env.com[Target]

\* What is committed stays so, but for what an install clears of its target.
LEMMA ComStays ==
  ASSUME TypeOK, Valid, GuardNext \/ CommitNext \/ InstallNext
  PROVE  \A s \in Slots :
           env.com[s] => env'.com[s] \/ (s = Target /\ Inst("pre") /\ InstallNext)
<1> USE DEF esp
<1>t. /\ env \in Env /\ env.com \in [Slots -> BOOLEAN]
      /\ boot.slot \in Slots /\ Target \in Slots /\ Other(boot.slot) \in Slots
      /\ \A s \in Slots : s = Target \/ s = boot.slot
  BY RunningTypes DEF TypeOK, EspOK, Env, Target, Other, Slots
<1>1. CASE GuardNext
  <2>1. env' \in {env, [env EXCEPT !.try[boot.slot] = 0],
                  [env EXCEPT !.ok[Other(boot.slot)] = FALSE]}
    BY <1>1, ReplaceKeeps
    DEF GuardNext, GuardLock, GuardDies, GuardReset, GuardResetBak, GuardHand, GuardBak,
        GuardRebuild, GuardRebuildFails, GuardRebuildBak
  <2> QED BY <1>t, <2>1 DEF Env
<1>2. CASE CommitNext
  <2>1. CASE GateReset \/ GateStayOff
    <3>1. env' \in {env, [env EXCEPT !.ok[boot.slot] = TRUE, !.try[boot.slot] = 0],
                    [env EXCEPT !.stay = FALSE]}
      BY <2>1, ReplaceKeeps DEF GateReset, GateStayOff
    <3> QED BY <1>t, <3>1 DEF Env
  <2>2. CASE GateCommit
    <3>1. env' \in {env, Committed}
      BY <2>2, ReplaceKeeps DEF GateCommit
    <3>2. Committed.com = [env.com EXCEPT ![boot.slot] = TRUE]
      BY <1>t DEF Committed, Env
    <3> QED BY <1>t, <3>1, <3>2
  <2>3. CASE ShutdownWrites \/ (\E p \in {"gate", "dl"} : FailWrite(p))
    <3>1. env' \in {env, Bad(boot.slot),
                    [env EXCEPT !.try[boot.slot] = 0, !.retry = boot.slot]}
      BY <2>3, ReplaceKeeps DEF ShutdownWrites, FailWrite
    <3> QED BY <1>t, <3>1 DEF Bad, Env
  <2>4. CASE env' = env
    BY <2>4
  <2> QED
    BY <1>2, <2>1, <2>2, <2>3, <2>4
    DEF CommitNext, GateStart, GateResetBak, GateSettles, GateStayBak, GatePasses, GateFails,
        GateCommitTimeout, GateCommitBak, GateFailMark, DeadlineFires, DeadlineDecides,
        FailNoLock, FailBak, Killed, InhibitStarts, ShutdownStarts, ShutdownLeaves,
        ShutdownBak
<1>3. CASE InstallNext
  <2>1. env'.com[boot.slot] = env.com[boot.slot]
    BY <1>3, InstallKeeps
  <2>2. CASE PreInstall
    BY <1>3, <1>t, <2>1, <2>2 DEF PreInstall
  <2>3. CASE RaucMarkBad \/ RaucActivates \/ StreamWrong \/ Rollback
    <3>1. env' \in {env, [env EXCEPT !.ok[Target] = FALSE, !.try[Target] = 0],
                    [env EXCEPT !.order = Target, !.ok[Target] = TRUE, !.try[Target] = 0],
                    [env EXCEPT !.order = boot.slot, !.ok[Target] = FALSE, !.try[Target] = 0]}
      BY <2>3, ReplaceKeeps DEF RaucMarkBad, RaucActivates, StreamWrong, Rollback, LockedWrite
    <3> QED BY <1>t, <3>1 DEF Env
  <2>4. CASE DebugHold
    <3>1. \E on \in BOOLEAN : env' \in {env, [env EXCEPT !.stay = on]}
      BY <2>4, ReplaceKeeps DEF DebugHold, LockedWrite
    <3> QED BY <1>t, <3>1 DEF Env
  <2>5. CASE env' = env
    BY <2>5
  <2> QED
    BY <1>3, <2>2, <2>3, <2>4, <2>5
    DEF InstallNext, InstallStarts, PreInstallBak, RaucMarkBadBak, RaucWrites, RaucWritten,
        RaucAborts, RaucActivatesBak, InstallDone, StreamWrongBak, RollbackAsked, RollbackBak,
        DebugHoldBak, InstallKilled
<1> QED BY <1>1, <1>2, <1>3

\* The running system: nothing is installed before the guard is through, and
\* later only from a committed slot.
LEMMA AnchoredUp ==
  TypeOK /\ Valid /\ VerdictInv /\ RunInv /\ Anchored /\ (GuardNext \/ CommitNext \/ InstallNext)
    => Anchored'
<1> SUFFICES ASSUME TypeOK, Valid, VerdictInv, RunInv, Anchored,
                    GuardNext \/ CommitNext \/ InstallNext
             PROVE  Anchored'
  OBVIOUS
<1>t. boot.slot \in Slots /\ Target \in Slots /\ Target # boot.slot
  BY RunningTypes
<1>1. phase = "up" /\ phase' = "up" /\ boot' = boot /\ Target' = Target
  BY UpSteps, GuardShape, CommitShape, InstallShape DEF Target
<1>2. pc'["guard"] # "done" => pc["guard"] # "done"
  <2>1. CASE GuardNext
    BY <2>1 DEF GuardNext, GuardLock, GuardDies, GuardReset, GuardResetBak, GuardHand,
       GuardBak, GuardRebuild, GuardRebuildFails, GuardRebuildBak
  <2>2. CASE InstallNext
    <3>1. \E l : Goto("inst", l)
      BY <2>2, InstallKeeps
    <3> QED BY <3>1, GotoOther DEF Procs
  <2>3. CASE CommitNext
    BY <2>3, CommitShape
  <2> QED BY <2>1, <2>2, <2>3
<1>3. Inst("pre") => env.com[boot.slot] /\ pc["guard"] = "done"
  BY <1>1 DEF Inst, RunInv, Installing, Anchored
<1>4. boot.slot # Target
  BY <1>t
<1>5. env.com[boot.slot] => env'.com[boot.slot]
  BY <1>t, <1>4, ComStays
<1>6. pc["guard"] # "done" /\ env.com[Target] => env'.com[Target]
  BY <1>t, <1>3, ComStays
<1>7. \E s \in Slots : env'.com[s]
  BY <1>t, <1>3, <1>5, ComStays DEF Anchored
<1> QED BY <1>1, <1>2, <1>5, <1>6, <1>7 DEF Anchored, GrubPhases

\* GRUB, as long as it meets no fault: a slot that would not load is not a proven
\* one, and of the candidates of a last resort the committed come first, and load.
LEMMA AnchoredGrub ==
  TypeOK /\ ChosenOK /\ Intact /\ ProvenWorks /\ Anchored /\ GrubNext /\ faults' = faults
    => Anchored'
<1> SUFFICES ASSUME TypeOK, ChosenOK, Intact, ProvenWorks, Anchored, GrubNext, faults' = faults
             PROVE  Anchored'
  OBVIOUS
<1>f. ~Fault
  BY DEF Fault, TypeOK, BudgetOK
<1>c. /\ env.com \in [Slots -> BOOLEAN] /\ env'.com = env.com
      /\ \A s \in Slots : env.com[s] => good[s]
  BY EnvFields, GrubCom DEF Intact, Sound, CommittedIsProven, Valid, ProvenWorks
<1>o. \A s, t \in Slots : s # t => t = Other(s)
  BY DEF Slots, Other
<1>1. CASE phase' \in GrubPhases
  <2>1. grub'.mem.com = env.com
    <3>1. GrubStart => grub'.mem = env
      BY DEF GrubStart, Intact, Valid
    <3> QED BY <1>1, <3>1, GrubCom DEF Anchored
  <2>2. grub'.failed # NoSlot => ~env.com[grub'.failed]
    <3>1. CASE HandOver
      <4>1. grub.chosen \in Slots /\ ~good[grub.chosen] /\ grub'.failed = grub.chosen
        BY <1>f, <3>1, GrubFields DEF HandOver, ChosenOK, Repick, GrubVars
      <4> QED BY <1>c, <4>1
    <3>2. CASE GrubStart
      BY <3>2 DEF GrubStart
    <3>3. CASE ~GrubStart /\ ~HandOver
      <4>1. grub'.failed = grub.failed /\ phase \in GrubPhases
        BY <1>1, <3>3, GrubFields
        DEF GrubNext, PickPass, PickExhausted, PickChoose, PickNone, Scanning, GrubCount, Repick,
            GrubBoot, LoadFailed, HandOverFailed, LastResort, NothingLoads, NvidiaTrips,
            Started, WarmReset, GrubPhases, GrubVars
      <4> QED BY <4>1 DEF Anchored
    <3> QED BY <3>1, <3>2, <3>3
  <2> QED BY <1>1, <1>c, <2>1, <2>2 DEF Anchored, GrubPhases
<1>2. CASE phase' = "up"
  <2>1. CASE GrubBoot
    <3>1. /\ grub.chosen \in Slots /\ boot'.slot = grub.chosen /\ ~boot'.last
          /\ boot'.trial => ~env.com[grub.chosen]
      BY <2>1 DEF GrubBoot, Started, ChosenOK, Anchored, GrubPhases
    <3>2. boot'.trial => env.com[Other(grub.chosen)]
      BY <1>o, <3>1 DEF Anchored
    <3> QED BY <1>2, <1>c, <3>1, <3>2 DEF Anchored, GrubPhases, Target
  <2>2. CASE LastResort
    <3>1. PICK s \in Candidates : /\ NoneLoads({t \in Candidates : Before(t, s)})
                                  /\ Started(s, FALSE, TRUE)
      BY <2>2 DEF LastResort
    <3>2. env.com[s]
      <4> SUFFICES ASSUME ~env.com[s] PROVE FALSE
        OBVIOUS
      <4>1. PICK c \in Slots : env.com[c]
        BY DEF Anchored
      <4>2. phase = "none" /\ grub.mem.com = env.com /\ c \in Candidates
        BY <2>2, <4>1 DEF LastResort, Anchored, GrubPhases, Candidates, Slots, NoSlot
      <4>3. Before(c, s) /\ good[c]
        BY <1>c, <4>1, <4>2 DEF Before, Candidates
      <4> QED BY <1>f, <3>1, <4>2, <4>3 DEF NoneLoads
    <3>3. boot'.slot = s /\ ~boot'.trial
      BY <3>1 DEF Started
    <3> QED BY <1>2, <1>c, <3>2, <3>3 DEF Anchored, GrubPhases
  <2> QED
    BY <1>2, <2>1, <2>2
    DEF GrubNext, GrubStart, PickPass, PickExhausted, PickChoose, PickNone, GrubCount, LoadFailed,
        HandOver, HandOverFailed, NothingLoads, NvidiaTrips, WarmReset, Scanning
<1>3. CASE phase' \notin GrubPhases /\ phase' # "up"
  BY <1>3, <1>c DEF Anchored
<1> QED BY <1>1, <1>2, <1>3

LEMMA AnchoredBoard ==
  Anchored /\ BoardNext /\ ~(\E f \in {"env", "bak"} : Tear(f)) => Anchored'
<1> SUFFICES ASSUME Anchored, BoardNext, ~(\E f \in {"env", "bak"} : Tear(f)) PROVE Anchored'
  OBVIOUS
<1> USE DEF esp, run
<1>1. CASE PowerCut \/ Crash \/ Halt
  BY <1>1 DEF PowerCut, Crash, Halt, Down, Anchored, GrubPhases
<1>2. CASE NvVerify \/ UserReboot \/ \E s \in Slots : Corrupt(s)
  BY <1>2 DEF NvVerify, UserReboot, Corrupt, Anchored, Target
<1>3. CASE Reflash
  BY <1>3 DEF Reflash, Flashed, Anchored, GrubPhases, Slots
<1> QED BY <1>1, <1>2, <1>3 DEF BoardNext

\* Until the first fault and the first loss, all of this holds.
LEMMA AnchoredInvariant == Spec => [](faults = MaxFaults /\ damage = MaxDamage => Anchored)
<1> DEFINE Firm == faults = MaxFaults /\ damage = MaxDamage => Anchored
<1>1. Init => Firm
  <2>1. "A" \in Slots /\ Flashed.com["A"]
    BY DEF Flashed, Slots
  <2> QED BY <2>1 DEF Init, Anchored, GrubPhases
<1>2. TypeOK /\ ChosenOK /\ VerdictInv /\ RunInv /\ ProvenInv
        /\ (damage = MaxDamage => ProvenWorks) /\ Firm /\ [Next]_vars => Firm'
  <2> SUFFICES ASSUME TypeOK, ChosenOK, VerdictInv, RunInv, ProvenInv,
                      damage = MaxDamage => ProvenWorks, Firm, [Next]_vars,
                      faults' = MaxFaults, damage' = MaxDamage
               PROVE  Anchored'
    OBVIOUS
  <2>1. damage = MaxDamage
    BY NoneLost
  <2>2. faults = MaxFaults
    <3>1. faults \in 0..MaxFaults /\ (Next => faults' <= faults)
      BY NoneReturned DEF TypeOK, BudgetOK
    <3>2. UNCHANGED vars => faults' = faults
      BY DEF vars, budget
    <3> QED BY <3>1, <3>2, BudgetAssumption
  <2>3. Intact /\ ProvenWorks /\ Anchored /\ Valid
    BY <2>1, <2>2 DEF ProvenInv, Intact, Valid
  <2>4. CASE GuardNext \/ CommitNext \/ InstallNext
    BY <2>3, <2>4, AnchoredUp
  <2>5. CASE GrubNext
    BY <2>2, <2>3, <2>5, AnchoredGrub
  <2>6. CASE BoardNext
    BY <2>3, <2>6, NoneLost, AnchoredBoard
  <2>7. CASE UNCHANGED vars
    BY <2>3, <2>7 DEF vars, esp, run, Anchored, Target
  <2> QED BY <2>4, <2>5, <2>6, <2>7 DEF Next
<1> HIDE DEF Firm
<1>3. Spec => []Firm
  BY <1>1, <1>2, TypesHold, VerdictInvariant, TrialInvariant, ProvenInvariant,
     ProvenReleasesWork, PTL DEF Spec
<1> QED
  BY <1>3 DEF Firm

\* So the first loss, with no fault before it, is one the board recovers from.
LEMMA FirstLoss ==
  ASSUME TypeOK, ProvenInv, Anchored, damage = MaxDamage
  PROVE  RecoverableLoss
<1> SUFFICES ASSUME NEW f \in {"env", "bak"}, Tear(f), f = "env", phase = "up", boot.trial
             PROVE  proven[Target]
  BY DEF ProvenInv, Intact, RecoverableLoss
<1>1. pc["guard"] = "start"
  BY DEF Tear, Fresh, Procs
<1>2. env.com[Target] /\ Target \in Slots
  BY <1>1, RunningTypes DEF Anchored
<1> QED BY <1>2 DEF ProvenInv, Intact, Sound, CommittedIsProven, Valid

\* Nothing was lost yet, or one thing was and nothing else failed.
Borne == damage = MaxDamage \/ (faults = MaxFaults /\ damage = MaxDamage - 1)

LEMMA BorneSound == Spec => [](Borne => Sound)
<1> DEFINE Holding == Borne => Sound
<1>1. Init => Holding
  BY InitSound DEF Intact
<1>2. TypeOK /\ TypeOK' /\ ChosenOK /\ CountInv /\ ProvenInv
        /\ (faults = MaxFaults /\ damage = MaxDamage => Anchored) /\ Holding /\ [Next]_vars
      => Holding'
  <2> SUFFICES ASSUME TypeOK, TypeOK', ChosenOK, CountInv, ProvenInv,
                      faults = MaxFaults /\ damage = MaxDamage => Anchored, Holding,
                      [Next]_vars, Borne'
               PROVE  Sound'
    OBVIOUS
  <2>1. /\ faults \in 0..MaxFaults /\ damage \in 0..MaxDamage
        /\ faults' <= faults /\ damage' <= damage
    <3>1. UNCHANGED vars => faults' = faults /\ damage' = damage
      BY DEF vars, budget
    <3> QED BY <3>1, NoneReturned, BudgetAssumption DEF TypeOK, BudgetOK
  <2>2. Borne
    BY <2>1, BudgetAssumption DEF Borne
  <2>3. RecoverableLoss
    <3> SUFFICES ASSUME NEW f \in {"env", "bak"}, Tear(f) PROVE RecoverableLoss
      BY DEF RecoverableLoss
    <3>1. damage' = damage - 1 /\ faults' = faults
      BY DEF Tear
    <3>2. damage = MaxDamage /\ faults = MaxFaults
      BY <2>1, <3>1, BudgetAssumption DEF Borne
    <3> QED BY <3>2, FirstLoss
  <2> QED BY <2>2, <2>3, SoundStep
<1> HIDE DEF Holding
<1>3. Spec => []Holding
  BY <1>1, <1>2, TypesHold, CountInvariant, ProvenInvariant, AnchoredInvariant, PTL DEF Spec
<1> QED
  BY <1>3 DEF Holding

\* One loss is borne: any copy of grubenv may be torn or any slot go bad, at any
\* moment of any install, trial, rollback or hand-over, and with power cuts all
\* along; as long as nothing else failed, only a proven release is committed in
\* what can be read, and GRUB boots no other outside of a trial and the last resort.
THEOREM OneLossIsBorne == Spec => [](Borne => CommittedIsProven /\ UntriedOnTrial)
<1>1. (Borne => Sound) => (Borne => CommittedIsProven /\ UntriedOnTrial)
  BY DEF Sound
<1> QED
  BY <1>1, BorneSound, PTL

\* No loss, whatever fails - or at most one loss, and no other failure.
Few == MaxDamage = 0 \/ (MaxFaults = 0 /\ MaxDamage = 1)

LEMMA FewSound == ASSUME Few PROVE Spec => []Sound
<1>1. TypeOK => Borne
  BY DEF Few, Borne, TypeOK, BudgetOK
<1> QED
  BY <1>1, TypesHold, BorneSound, PTL

\* Within that the board keeps the contract, in which a slot may be lost.
THEOREM ContractBearsOneLoss ==
  ASSUME Few
  PROVE  Spec => KeepsContractThroughLosses
BY FewSound, SoundContract, PTL

\* Nor does any install or rollback, cut off wherever it may be, take the last
\* proven release from a board that did not boot as its last resort.
THEOREM FallbackStays ==
  ASSUME Few
  PROVE  Spec => FallbackKept
BY FewSound, SoundContract, PTL

-----------------------------------------------------------------------------
(***************************************************************************)
(* The deadline.                                                           *)
(***************************************************************************)
\* A trial that runs on, and that nobody has asked to reboot.
Unended == phase = "up" /\ boot.trial /\ ~boot.stay /\ ~stopping

\* The deadline of such a trial is off only once there is a verdict, and who
\* failed the trial is about to reboot, or was killed.  Nobody gives the
\* attempt back before the system goes down.
WatchInv ==
  /\ pc["sd"] \in {"lock", "bak"} => stopping
  /\ Unended /\ pc["dl"] = "done" =>
       Valid /\ (env.com[boot.slot] \/ ~env.ok[boot.slot])
  /\ Unended /\ Valid /\ ~env.ok[boot.slot] =>
       pc["gate"] = "failbak" \/ pc["dl"] = "failbak" \/ faults < MaxFaults

\* A step of the running system that switches no deadline off without a
\* verdict, and fails no slot without going on to the reboot.
Watched ==
  /\ phase = "up" /\ UNCHANGED boot /\ (Valid => Valid') /\ (stopping => stopping')
  /\ pc'["sd"] \in {"lock", "bak"} => pc["sd"] \in {"lock", "bak"} \/ stopping
  /\ boot.trial /\ Valid =>
       /\ env.com[boot.slot] => env'.com[boot.slot]
       /\ ~env.ok[boot.slot] => ~env'.ok[boot.slot]
  /\ Unended' /\ pc'["dl"] = "done" =>
       pc["dl"] = "done" \/ (Valid /\ (env.com[boot.slot] \/ ~env.ok[boot.slot]))
  /\ Unended' /\ Valid' /\ ~env'.ok[boot.slot] =>
       \/ pc'["gate"] = "failbak" \/ pc'["dl"] = "failbak" \/ faults' < MaxFaults
       \/ /\ Valid /\ ~env.ok[boot.slot]
          /\ pc["gate"] # "failbak" /\ pc["dl"] # "failbak"

\* Such a step keeps the watch.
LEMMA WatchedStep ==
  ASSUME TypeOK, TypeOK', WatchInv, Watched, faults' <= faults
  PROVE  WatchInv'
<1>t. faults \in Nat /\ faults' \in Nat /\ MaxFaults \in Nat
  BY BudgetAssumption DEF TypeOK, BudgetOK
<1>1. Unended' => Unended
  BY DEF Watched, Unended
<1>2. Unended' /\ pc'["dl"] = "done" =>
        Valid' /\ (env'.com[boot'.slot] \/ ~env'.ok[boot'.slot])
  BY <1>1 DEF Watched, WatchInv, Unended
<1>3. Unended' /\ Valid' /\ ~env'.ok[boot'.slot] =>
        pc'["gate"] = "failbak" \/ pc'["dl"] = "failbak" \/ faults' < MaxFaults
  BY <1>1, <1>t DEF Watched, WatchInv
<1>4. pc'["sd"] \in {"lock", "bak"} => stopping'
  BY DEF Watched, WatchInv
<1> QED BY <1>2, <1>3, <1>4 DEF WatchInv

\* The guard writes nothing about a trial that can be read, and when it rebuilds
\* grubenv the trial's deadline is still to come.
LEMMA GuardWatch == TypeOK /\ WatchInv /\ GuardNext => Watched
<1> SUFFICES ASSUME TypeOK, WatchInv, GuardNext PROVE Watched
  OBVIOUS
<1>t. /\ env \in Env /\ env.com \in [Slots -> BOOLEAN] /\ env.ok \in [Slots -> BOOLEAN]
      /\ boot.slot \in Slots /\ Other(boot.slot) \in Slots /\ Other(boot.slot) # boot.slot
  BY EnvFields, RunningTypes DEF TypeOK, EspOK, Target
<1>g. \E l : Goto("guard", l)
  BY DEF GuardNext, GuardLock, GuardDies, GuardReset, GuardResetBak, GuardHand,
         GuardBak, GuardRebuild, GuardRebuildFails, GuardRebuildBak, GuardEnds
<1>p. pc'["gate"] = pc["gate"] /\ pc'["dl"] = pc["dl"] /\ pc'["sd"] = pc["sd"]
  BY <1>g, GotoOther DEF Procs
<1>u. phase = "up" /\ phase' = "up" /\ boot' = boot /\ stopping' = stopping
  BY UpSteps
  DEF GuardNext, GuardLock, GuardDies, GuardReset, GuardResetBak, GuardHand,
      GuardBak, GuardRebuild, GuardRebuildFails, GuardRebuildBak, run
<1>1. \/ /\ Valid' <=> Valid
         /\ env'.com[boot.slot] = env.com[boot.slot] /\ env'.ok[boot.slot] = env.ok[boot.slot]
      \/ ~Valid /\ env'.ok[boot.slot]
  <2>1. CASE GuardLock \/ GuardDies \/ GuardResetBak \/ GuardBak \/ GuardRebuildFails
               \/ GuardRebuildBak
    BY <2>1, SyncBakValid
    DEF GuardLock, GuardDies, GuardResetBak, GuardBak, GuardRebuildFails,
        GuardRebuildBak, esp, Valid
  <2>2. CASE GuardReset
    <3>1. torn' = torn /\ env' \in {env, [env EXCEPT !.try[boot.slot] = 0]}
      BY <2>2, ReplaceKeeps DEF GuardReset
    <3> QED BY <1>t, <3>1 DEF Valid, Env
  <2>3. CASE GuardHand
    <3>1. torn' = torn /\ env' \in {env, [env EXCEPT !.ok[Other(boot.slot)] = FALSE]}
      BY <2>3, ReplaceKeeps DEF GuardHand
    <3> QED BY <1>t, <3>1 DEF Valid, Env
  <2>4. CASE GuardRebuild
    BY <1>t, <2>4 DEF GuardRebuild, Rebuilt
  <2> QED BY <2>1, <2>2, <2>3, <2>4 DEF GuardNext
<1>2. Unended' /\ Valid' /\ ~env'.ok[boot.slot] =>
        \/ pc'["gate"] = "failbak" \/ pc'["dl"] = "failbak"
        \/ /\ Valid /\ ~env.ok[boot.slot]
           /\ pc["gate"] # "failbak" /\ pc["dl"] # "failbak"
  BY <1>1, <1>p
<1> QED BY <1>1, <1>p, <1>u, <1>2 DEF Watched

\* An install touches nothing of the running slot.
LEMMA InstallWatch == TypeOK /\ InstallNext => Watched
<1> SUFFICES ASSUME TypeOK, InstallNext PROVE Watched
  OBVIOUS
<1>1. /\ Valid' <=> Valid
      /\ boot' = boot
      /\ env'.ok[boot.slot] = env.ok[boot.slot]
      /\ env'.com[boot.slot] = env.com[boot.slot]
      /\ pc'["gate"] = pc["gate"] /\ pc'["dl"] = pc["dl"] /\ pc'["sd"] = pc["sd"]
  BY InstallKeeps, GotoOther DEF Procs
<1>2. stopping => stopping'
  BY DEF InstallNext, InstallStarts, PreInstall, PreInstallBak, RaucMarkBad,
         RaucMarkBadBak, RaucWrites, RaucWritten, RaucAborts, RaucActivates,
         RaucActivatesBak, InstallDone, StreamWrong, StreamWrongBak, RollbackAsked,
         Rollback, RollbackBak, DebugHold, DebugHoldBak, InstallKilled, run
<1>3. phase = "up"
  BY UpSteps
<1> QED BY <1>1, <1>2, <1>3 DEF Watched

\* Of what boat-commit does on a trial, the steps that concern its deadline or
\* the slot's failure: they end in a verdict, or in the reboot.
LEMMA CommitWatch ==
  TypeOK /\ VerdictInv /\ WatchInv /\ faults' <= faults /\ CommitNext => Watched
<1> SUFFICES ASSUME TypeOK, VerdictInv, WatchInv, faults' <= faults, CommitNext PROVE Watched
  OBVIOUS
<1> USE DEF run, Gate
<1>t. /\ env \in Env /\ env.com \in [Slots -> BOOLEAN] /\ env.ok \in [Slots -> BOOLEAN]
      /\ boot.slot \in Slots /\ boot.slot # Target
  BY EnvFields, RunningTypes DEF TypeOK, EspOK
<1>pc. pc \in [Procs -> Steps]
  BY DEF TypeOK, PcOK
<1>f. /\ faults \in Nat /\ MaxFaults \in Nat /\ faults <= MaxFaults
      /\ Fault => faults' < MaxFaults
  BY BudgetAssumption DEF TypeOK, BudgetOK, Fault
<1>u. phase = "up" /\ phase' = "up" /\ boot' = boot
  BY UpSteps, CommitShape
<1>k. /\ Valid => /\ env.com[boot.slot] => env'.com[boot.slot]
                  /\ boot.trial /\ ~env.ok[boot.slot] => ~env'.ok[boot.slot]
  BY <1>t, ComStays, CommitKeepsBad
\* A step that neither ends the deadline nor fails the slot.
<1>c. ASSUME (Valid' <=> Valid), stopping => stopping',
             pc'["sd"] \in {"lock", "bak"} => pc["sd"] \in {"lock", "bak"} \/ stopping,
             pc'["dl"] = "done" =>
               pc["dl"] = "done" \/ (Valid /\ (env.com[boot.slot] \/ ~env.ok[boot.slot])),
             env.ok[boot.slot] => env'.ok[boot.slot],
             \A p \in {"gate", "dl"} :
               pc[p] = "failbak" => pc'[p] = "failbak" \/ faults' < MaxFaults
      PROVE  Watched
  BY <1>c, <1>k, <1>u DEF Watched
\* A step that ends with the reboot, which only the debug hold keeps away.
<1>r. ASSUME (Valid' <=> Valid), Reboot, pc'["sd"] = pc["sd"]
      PROVE  Watched
  <2>1. ~Unended'
    BY <1>r, <1>u DEF Reboot, Unended
  <2> QED BY <1>r, <1>k, <1>u, <2>1 DEF Watched, Reboot
\* A step of the gate.
<1>g. ASSUME NEW l, Goto("gate", l), pc["gate"] # "failbak", (Valid' <=> Valid),
             stopping' = stopping, env.ok[boot.slot] => env'.ok[boot.slot]
      PROVE  Watched
  BY <1>c, <1>g, <1>pc DEF Goto, Procs
<1>1. CASE GateStart \/ GateSettles \/ GatePasses \/ GateFails \/ GateFailMark
             \/ GateCommitTimeout
  BY <1>1, <1>g DEF GateStart, GateSettles, GatePasses, GateFails, GateFailMark,
                    GateCommitTimeout, esp, Valid
<1>2. CASE GateResetBak \/ GateStayBak
  BY <1>2, <1>g, SyncBakValid DEF GateResetBak, GateStayBak
<1>3. CASE GateReset \/ GateStayOff \/ GateCommit
  <2>1. /\ torn' = torn
        /\ env' \in {env, [env EXCEPT !.ok[boot.slot] = TRUE, !.try[boot.slot] = 0],
                     [env EXCEPT !.stay = FALSE], Committed}
    BY <1>3, ReplaceKeeps DEF GateReset, GateStayOff, GateCommit
  <2>2. env.ok[boot.slot] => env'.ok[boot.slot]
    <3>1. CASE env' = [env EXCEPT !.ok[boot.slot] = TRUE, !.try[boot.slot] = 0]
      BY <1>t, <3>1 DEF Env
    <3>2. CASE env' = [env EXCEPT !.stay = FALSE]
      BY <1>t, <3>2 DEF Env
    <3>3. CASE env' = Committed
      BY <1>t, <3>3 DEF Env, Committed
    <3> QED BY <2>1, <3>1, <3>2, <3>3
  <2>3. (\E l : Goto("gate", l)) /\ pc["gate"] # "failbak" /\ stopping' = stopping
    BY <1>3 DEF GateReset, GateStayOff, GateCommit, CommitFailed
  <2> QED BY <1>g, <2>1, <2>2, <2>3 DEF Valid
<1>4. CASE GateCommitBak
  <2>1. Stands /\ pc["gate"] = "commitbak"
    BY <1>4 DEF GateCommitBak, VerdictInv
  <2>2. /\ pc'["dl"] \in {pc["dl"], "done"} /\ pc'["sd"] \in {pc["sd"], "done"}
        /\ pc["dl"] = "failbak" => pc'["dl"] = "failbak"
    BY <1>4, <1>pc DEF GateCommitBak, CommitFailed, Goto, Procs
  <2>3. (Valid' <=> Valid) /\ env' = env /\ stopping' = stopping
    BY <1>4, SyncBakValid DEF GateCommitBak
  <2> QED BY <1>c, <2>1, <2>2, <2>3 DEF Stands
<1>5. CASE DeadlineFires
  <2>1. Goto("dl", "lock") /\ pc["dl"] = "armed" /\ UNCHANGED <<env, torn, stopping>>
    BY <1>5 DEF DeadlineFires, esp
  <2> QED BY <1>c, <1>pc, <2>1 DEF Valid, Goto, Procs
<1>6. CASE DeadlineDecides
  <2>1. /\ \E l \in {"failwrite", "failnolock", "done"} :
             /\ Goto("dl", l)
             /\ l = "done" => "committed" \in mark \/ (Valid /\ ~env.ok[boot.slot])
        /\ pc["dl"] = "lock" /\ UNCHANGED <<env, torn, stopping>>
    BY <1>6 DEF DeadlineDecides, esp
  <2>2. "committed" \in mark => Stands
    BY DEF VerdictInv
  <2> QED BY <1>c, <1>pc, <2>1, <2>2 DEF Valid, Goto, Procs, Stands
<1>7. ASSUME NEW p \in {"gate", "dl"}, FailWrite(p) PROVE Watched
  <2>1. /\ torn' = torn /\ env' \in {env, Bad(boot.slot)}
        /\ \/ Goto(p, "failbak") /\ stopping' = stopping
           \/ Goto(p, "done") /\ Reboot
    BY <1>7, ReplaceKeeps DEF FailWrite
  <2>2. CASE Goto(p, "failbak") /\ stopping' = stopping
    <3>1. pc'["sd"] = pc["sd"] /\ pc'[p] = "failbak" /\ (pc'["dl"] = "done" => pc["dl"] = "done")
      BY <1>7, <1>pc, <2>2 DEF Goto, Procs
    <3>2. pc'["gate"] = "failbak" \/ pc'["dl"] = "failbak"
      BY <3>1
    <3> QED BY <1>k, <1>u, <2>1, <2>2, <3>1, <3>2 DEF Watched, Valid
  <2>3. CASE Goto(p, "done") /\ Reboot
    <3>1. pc'["sd"] = pc["sd"]
      BY <1>pc, <2>3 DEF Goto, Procs
    <3> QED BY <1>r, <2>1, <2>3, <3>1 DEF Valid
  <2> QED BY <2>1, <2>2, <2>3
<1>8. ASSUME NEW p \in {"gate", "dl"}, FailNoLock(p) \/ FailBak(p) PROVE Watched
  <2>1. Goto(p, "done") /\ Reboot /\ (Valid' <=> Valid)
    BY <1>8, SyncBakValid DEF FailNoLock, FailBak, esp, Valid
  <2>2. pc'["sd"] = pc["sd"]
    BY <1>pc, <2>1 DEF Goto, Procs
  <2> QED BY <1>r, <2>1, <2>2
<1>9. ASSUME NEW p \in {"gate", "dl"}, Killed(p) PROVE Watched
  <2>1. Goto(p, "done") /\ UNCHANGED <<env, torn, stopping>> /\ (stopping \/ (p = "gate" /\ Fault))
    BY <1>9 DEF Killed, esp
  <2>2. pc'["sd"] = pc["sd"] /\ (p = "gate" => pc'["dl"] = pc["dl"])
    BY <1>pc, <2>1 DEF Goto, Procs
  <2>3. CASE stopping
    <3>1. ~Unended'
      BY <2>1, <2>3 DEF Unended
    <3> QED BY <1>k, <1>u, <2>1, <2>2, <3>1 DEF Watched, Valid
  <2>4. CASE p = "gate" /\ Fault
    BY <1>c, <1>f, <2>1, <2>2, <2>4 DEF Valid
  <2> QED BY <2>1, <2>3, <2>4
<1>10. CASE InhibitStarts \/ ShutdownStarts
  <2>1. /\ \E l \in {"armed", "lock", "done"} : Goto("sd", l) /\ (l = "lock" => stopping)
        /\ UNCHANGED <<env, torn, stopping>>
    BY <1>10 DEF InhibitStarts, ShutdownStarts, esp
  <2> QED BY <1>c, <1>pc, <2>1 DEF Valid, Goto, Procs
<1>11. CASE ShutdownLeaves \/ ShutdownWrites \/ ShutdownBak
  <2>1. /\ pc["sd"] \in {"lock", "bak"} /\ stopping' = stopping /\ (Valid' <=> Valid)
        /\ \E l : Goto("sd", l)
    BY <1>11, SyncBakValid DEF ShutdownLeaves, ShutdownWrites, ShutdownBak, esp, Valid
  <2>2. stopping /\ ~Unended'
    BY <2>1 DEF WatchInv, Unended
  <2> QED BY <1>k, <1>u, <2>1, <2>2 DEF Watched
<1> QED
  BY <1>1, <1>2, <1>3, <1>4, <1>5, <1>6, <1>7, <1>8, <1>9, <1>10, <1>11 DEF CommitNext

\* Every boot begins with its deadline to come and, on trial, usable in a
\* readable grubenv.
LEMMA GrubWatch == TypeOK /\ ChosenOK /\ CountInv /\ VerdictInv /\ GrubNext => WatchInv'
<1> SUFFICES ASSUME TypeOK, ChosenOK, CountInv, VerdictInv, GrubNext PROVE WatchInv'
  OBVIOUS
<1>1. pc' = Fresh
  BY GrubShape DEF VerdictInv
<1>2. phase' = "up" /\ boot'.trial => env'.ok[boot'.slot]
  <2>1. CASE GrubBoot
    <3>1. /\ phase = "load" /\ env' = env /\ boot'.slot = grub.chosen
          /\ boot'.trial = ~grub.mem.com[grub.chosen]
      BY <2>1 DEF GrubBoot, Started, esp
    <3>2. grub.chosen \in Slots
      BY <3>1 DEF ChosenOK
    <3> QED BY <3>1, <3>2 DEF CountInv
  <2>2. CASE LastResort
    BY <2>2 DEF LastResort, Started
  <2>3. CASE ~GrubBoot /\ ~LastResort
    <3>1. phase' # "up"
      BY <2>3 DEF GrubNext, GrubStart, PickPass, PickExhausted, PickChoose, PickNone, GrubCount,
                  LoadFailed, HandOver, HandOverFailed, NothingLoads, NvidiaTrips, Scanning,
                  WarmReset
    <3> QED BY <3>1
  <2> QED BY <2>1, <2>2, <2>3
<1> QED BY <1>1, <1>2, FreshRun DEF WatchInv, Unended

\* What happens to a board ends the boot, is before its deadline, or asks for a
\* reboot.
LEMMA BoardWatch == VerdictInv /\ WatchInv /\ BoardNext => WatchInv'
<1> SUFFICES ASSUME VerdictInv, WatchInv, BoardNext PROVE WatchInv'
  OBVIOUS
<1>1. CASE PowerCut \/ Crash \/ Halt
  <2>1. phase' = "off" /\ pc' = Fresh
    BY <1>1 DEF PowerCut, Crash, Halt, Down, RunCleared
  <2> QED BY <2>1, FreshRun DEF WatchInv, Unended
<1>2. CASE NvVerify
  <2>1. UNCHANGED <<env, torn, phase, boot, stopping, pc, faults>>
    BY <1>2 DEF NvVerify, esp, run, budget
  <2> QED BY <2>1 DEF WatchInv, Unended, Valid
<1>3. CASE UserReboot
  <2>1. stopping' = TRUE
    BY <1>3 DEF UserReboot
  <2> QED BY <2>1 DEF WatchInv, Unended
<1>4. ASSUME NEW f \in {"env", "bak"}, Tear(f) PROVE WatchInv'
  <2>1. pc' = Fresh /\ UNCHANGED <<phase, boot, stopping, faults>> /\ pc = Fresh
    BY <1>4 DEF Tear, run
  <2>2. Valid' => Valid /\ env' = env
    BY <1>4 DEF Tear, Valid
  <2> QED BY <2>1, <2>2, FreshRun DEF WatchInv, Unended
<1>5. CASE (\E s \in Slots : Corrupt(s)) \/ Reflash
  <2>1. phase' = "off" /\ pc' = Fresh
    BY <1>5 DEF Corrupt, Reflash, VerdictInv
  <2> QED BY <2>1, FreshRun DEF WatchInv, Unended
<1> QED
  BY <1>1, <1>2, <1>3, <1>4, <1>5 DEF BoardNext

\* A trial that runs on without a verdict has its deadline before it, through
\* every fault, loss and power cut and whatever is installed meanwhile: who
\* switches the deadline off leaves a commit, or a failure and a reboot under
\* way - but for a gate that was killed between its mark and the reboot.
THEOREM TrialsAreWatched == Spec => []TrialWatched
<1>1. Init => WatchInv
  BY FreshRun DEF Init, WatchInv, Unended
<1>2. /\ TypeOK /\ TypeOK' /\ ChosenOK /\ CountInv /\ VerdictInv /\ WatchInv /\ [Next]_vars
      => WatchInv'
  <2> SUFFICES ASSUME TypeOK, TypeOK', ChosenOK, CountInv, VerdictInv, WatchInv, [Next]_vars
               PROVE  WatchInv'
    OBVIOUS
  <2>f. Next => faults' <= faults
    BY NoneReturned
  <2>1. CASE GuardNext
    BY <2>1, <2>f, GuardWatch, WatchedStep DEF Next
  <2>2. CASE CommitNext
    BY <2>2, <2>f, CommitWatch, WatchedStep DEF Next
  <2>3. CASE InstallNext
    BY <2>3, <2>f, InstallWatch, WatchedStep DEF Next
  <2>4. CASE GrubNext
    BY <2>4, GrubWatch
  <2>5. CASE BoardNext
    BY <2>5, BoardWatch
  <2>6. CASE UNCHANGED vars
    BY <2>6 DEF vars, esp, run, budget, WatchInv, Unended, Valid
  <2> QED BY <2>1, <2>2, <2>3, <2>4, <2>5, <2>6 DEF Next
<1>3. WatchInv => TrialWatched
  BY DEF WatchInv, Unended, TrialWatched
<1> QED
  BY <1>1, <1>2, <1>3, TypesHold, CountInvariant, VerdictInvariant, PTL DEF Spec
-----------------------------------------------------------------------------
(***************************************************************************)
(* Failed trials.                                                          *)
(***************************************************************************)
\* A slot whose failure is in grubenv is not usable, or has been committed
\* since; an install into it has taken the verdict back with the commit.
FailedInv ==
  /\ \A s \in condemned : ~env.ok[s] \/ env.com[s]
  /\ pc["inst"] \in {"prebak", "markbad", "badbak", "write", "writing", "activate"}
       => Target \notin condemned

\* A step that makes no slot usable and condemns none.
LEMMA FailedStays ==
  ASSUME TypeOK, FailedInv, env'.com = env.com, condemned' = condemned,
         \A s \in Slots : env'.ok[s] => env.ok[s], boot' = boot,
         pc'["inst"] = pc["inst"] \/ pc'["inst"] = "idle"
  PROVE  FailedInv'
<1>1. condemned \subseteq Slots
  BY DEF TypeOK, HistOK
<1> QED
  BY <1>1 DEF FailedInv, Target

\* A grubenv that is not torn is not rebuilt: the guard makes no slot usable.
LEMMA GuardFailed == TypeOK /\ Valid /\ FailedInv /\ GuardNext => FailedInv'
<1> SUFFICES ASSUME TypeOK, Valid, FailedInv, GuardNext PROVE FailedInv'
  OBVIOUS
<1>t. /\ env \in Env /\ env.ok \in [Slots -> BOOLEAN] /\ env.try \in [Slots -> 0..2]
      /\ boot.slot \in Slots /\ Other(boot.slot) \in Slots
  BY EnvFields, RunningTypes DEF TypeOK, EspOK, Target
<1>1. condemned' = condemned
  BY DEF GuardNext, GuardLock, GuardDies, GuardReset, GuardResetBak, GuardHand,
         GuardBak, GuardRebuild, GuardRebuildFails, GuardRebuildBak, Reached, hist
<1>2. env' \in {env, [env EXCEPT !.try[boot.slot] = 0],
                [env EXCEPT !.ok[Other(boot.slot)] = FALSE]}
  BY ReplaceKeeps
  DEF GuardNext, GuardLock, GuardDies, GuardReset, GuardResetBak, GuardHand,
      GuardBak, GuardRebuild, GuardRebuildFails, GuardRebuildBak, esp
<1>3. env'.com = env.com /\ \A s \in Slots : env'.ok[s] => env.ok[s]
  BY <1>t, <1>2 DEF Env
<1> QED
  BY <1>1, <1>3, GuardShape, FailedStays

\* boat-commit makes usable only what is committed.
LEMMA CommitFailedInv == TypeOK /\ Valid /\ RunInv /\ FailedInv /\ CommitNext => FailedInv'
<1> SUFFICES ASSUME TypeOK, Valid, RunInv, FailedInv, CommitNext PROVE FailedInv'
  OBVIOUS
<1>t. /\ env \in Env /\ env.ok \in [Slots -> BOOLEAN] /\ env.com \in [Slots -> BOOLEAN]
      /\ env.try \in [Slots -> 0..2] /\ condemned \subseteq Slots
      /\ boot.slot \in Slots /\ Target \in Slots /\ Target # boot.slot
  BY EnvFields, RunningTypes DEF TypeOK, EspOK, HistOK
<1>u. boot' = boot /\ Target' = Target /\ pc'["inst"] = pc["inst"]
  BY CommitShape DEF Target
<1>n. ASSUME env' = env, condemned' = condemned PROVE FailedInv'
  BY <1>n, <1>u, FailedStays
\* The running slot's failure is in grubenv.
<1>b. ASSUME env' = Bad(boot.slot), condemned' = condemned \cup {boot.slot} PROVE FailedInv'
  <2>1. env'.com = env.com /\ env'.ok = [env.ok EXCEPT ![boot.slot] = FALSE]
    BY <1>b, <1>t DEF Bad, Env
  <2> QED BY <1>b, <1>t, <1>u, <2>1 DEF FailedInv
<1>1. CASE GateStart \/ GateResetBak \/ GateSettles \/ GateStayBak \/ GatePasses
             \/ GateFails \/ GateCommitTimeout \/ GateCommitBak \/ GateFailMark
             \/ DeadlineFires \/ DeadlineDecides \/ InhibitStarts
             \/ ShutdownStarts \/ ShutdownLeaves \/ ShutdownBak
  BY <1>1, <1>n
  DEF GateStart, GateResetBak, GateSettles, GateStayBak, GatePasses, GateFails,
      GateCommitTimeout, GateCommitBak, GateFailMark, DeadlineFires, DeadlineDecides,
      InhibitStarts, ShutdownStarts, ShutdownLeaves, ShutdownBak, esp, hist
<1>2. CASE GateReset
  <2>1. env' = env \/ env' = [env EXCEPT !.ok[boot.slot] = TRUE, !.try[boot.slot] = 0]
    BY <1>2, ReplaceKeeps DEF GateReset
  <2>2. condemned' = condemned /\ env.com[boot.slot]
    BY <1>2 DEF GateReset, Gate, RunInv
  <2>3. CASE env' = [env EXCEPT !.ok[boot.slot] = TRUE, !.try[boot.slot] = 0]
    <3>1. env'.com = env.com /\ env'.ok = [env.ok EXCEPT ![boot.slot] = TRUE]
      BY <1>t, <2>3 DEF Env
    <3> QED BY <1>t, <1>u, <2>2, <3>1 DEF FailedInv
  <2> QED BY <1>n, <2>1, <2>2, <2>3
<1>3. CASE GateStayOff
  <2>1. env' \in {env, [env EXCEPT !.stay = FALSE]} /\ condemned' = condemned
    BY <1>3, ReplaceKeeps DEF GateStayOff, hist
  <2>2. env'.com = env.com /\ env'.ok = env.ok
    BY <1>t, <2>1 DEF Env
  <2> QED BY <1>u, <2>1, <2>2, FailedStays
<1>4. CASE GateCommit
  <2>1. env' \in {env, Committed} /\ condemned' = condemned
    BY <1>4, ReplaceKeeps DEF GateCommit
  <2>2. CASE env' = Committed
    <3>1. /\ env'.com = [env.com EXCEPT ![boot.slot] = TRUE]
          /\ env'.ok = [env.ok EXCEPT ![boot.slot] = TRUE]
      BY <1>t, <2>2 DEF Committed, Env
    <3> QED BY <1>t, <1>u, <2>1, <3>1 DEF FailedInv
  <2> QED BY <1>n, <2>1, <2>2
<1>5. ASSUME NEW p \in {"gate", "dl"},
             FailWrite(p) \/ FailNoLock(p) \/ FailBak(p) \/ Killed(p)
      PROVE  FailedInv'
  <2>1. CASE FailWrite(p)
    <3>1. /\ env' \in {env, Bad(boot.slot)}
          /\ condemned' = IF env' = Bad(boot.slot) THEN condemned \cup {boot.slot} ELSE condemned
      BY <2>1, ReplaceKeeps DEF FailWrite, Condemn
    <3> QED BY <1>b, <1>n, <3>1
  <2>2. CASE FailNoLock(p) \/ FailBak(p) \/ Killed(p)
    BY <1>n, <2>2 DEF FailNoLock, FailBak, Killed, esp, hist
  <2> QED BY <1>5, <2>1, <2>2
<1>6. CASE ShutdownWrites
  <2>1. \/ /\ env' \in {env, Bad(boot.slot)}
           /\ condemned' = IF env' = Bad(boot.slot) THEN condemned \cup {boot.slot} ELSE condemned
        \/ /\ env' \in {env, [env EXCEPT !.try[boot.slot] = 0, !.retry = boot.slot]}
           /\ condemned' = condemned
    BY <1>6, ReplaceKeeps DEF ShutdownWrites, Condemn, hist
  <2>2. CASE env' = [env EXCEPT !.try[boot.slot] = 0, !.retry = boot.slot]
               /\ condemned' = condemned
    <3>1. env'.com = env.com /\ env'.ok = env.ok
      BY <1>t, <2>2 DEF Env
    <3> QED BY <1>u, <2>2, <3>1, FailedStays
  <2> QED BY <1>b, <1>n, <2>1, <2>2
<1> QED
  BY <1>1, <1>2, <1>3, <1>4, <1>5, <1>6 DEF CommitNext

\* An install takes its target's verdict back before it makes it usable, and
\* a rollback as it does.
LEMMA InstallFailed == TypeOK /\ FailedInv /\ InstallNext => FailedInv'
<1> SUFFICES ASSUME TypeOK, FailedInv, InstallNext PROVE FailedInv'
  OBVIOUS
<1> DEFINE New == {"prebak", "markbad", "badbak", "write", "writing", "activate"}
<1>t. /\ env \in Env /\ env.ok \in [Slots -> BOOLEAN] /\ env.com \in [Slots -> BOOLEAN]
      /\ env.try \in [Slots -> 0..2] /\ condemned \subseteq Slots
      /\ boot.slot \in Slots /\ Target \in Slots /\ Target # boot.slot
  BY EnvFields, RunningTypes DEF TypeOK, EspOK, HistOK
<1>pc. pc \in [Procs -> Steps]
  BY DEF TypeOK, PcOK
<1>u. boot' = boot /\ Target' = Target
  BY InstallShape DEF Target
<1>w. ASSUME NEW new, NEW l, LockedWrite(new, l)
      PROVE  /\ env' \in {env, new} /\ (pc'["inst"] = "idle" \/ (pc'["inst"] = l /\ env' = new))
  BY <1>pc, <1>w DEF LockedWrite, Replace, Goto, Procs
\* Nothing is made usable, and an install comes no nearer.
<1>n. ASSUME env'.com = env.com, condemned' = condemned,
             \A s \in Slots : env'.ok[s] => env.ok[s],
             pc'["inst"] \in New => pc["inst"] \in New
      PROVE  FailedInv'
  BY <1>n, <1>t, <1>u DEF FailedInv
<1>1. CASE InstallStarts \/ RaucAborts \/ InstallDone \/ RollbackAsked \/ RaucWrites
             \/ RaucWritten \/ InstallKilled
  <2>1. env' = env /\ condemned' = condemned
    BY <1>1 DEF InstallStarts, RaucAborts, InstallDone, RollbackAsked, RaucWrites,
                RaucWritten, InstallKilled, esp, hist
  <2>2. pc'["inst"] \in New => pc["inst"] \in New
    BY <1>pc, <1>1 DEF InstallStarts, RaucAborts, InstallDone, RollbackAsked, RaucWrites,
                RaucWritten, InstallKilled, Goto, Procs, Inst
  <2> QED BY <1>n, <2>1, <2>2
<1>2. CASE PreInstallBak \/ RaucMarkBadBak \/ RaucActivatesBak \/ StreamWrongBak
             \/ DebugHoldBak \/ RollbackBak
  <2>1. env' = env /\ condemned' = condemned
    BY <1>2 DEF PreInstallBak, RaucMarkBadBak, RaucActivatesBak, StreamWrongBak,
                DebugHoldBak, RollbackBak, hist
  <2>2. pc'["inst"] \in New => pc["inst"] \in New
    BY <1>pc, <1>2 DEF PreInstallBak, RaucMarkBadBak, RaucActivatesBak, StreamWrongBak,
                DebugHoldBak, RollbackBak, LockedBak, Goto, Procs, Inst
  <2> QED BY <1>n, <2>1, <2>2
<1>3. CASE DebugHold
  <2>1. PICK on \in BOOLEAN : LockedWrite([env EXCEPT !.stay = on], "holdbak")
    BY <1>3 DEF DebugHold
  <2>2. env' \in {env, [env EXCEPT !.stay = on]} /\ pc'["inst"] \notin New
    BY <1>w, <2>1
  <2>3. env'.com = env.com /\ env'.ok = env.ok
    BY <1>t, <2>2 DEF Env
  <2> QED BY <1>3, <1>n, <2>2, <2>3 DEF DebugHold, hist
<1>4. CASE PreInstall
  <2>1. CASE env' = Uncommitted
    <3>1. condemned' = condemned \ {Target}
      BY <1>4, <2>1 DEF PreInstall, Renewed
    <3>2. env'.ok = env.ok /\ env'.com = [env.com EXCEPT ![Target] = FALSE]
      BY <1>t, <2>1 DEF Uncommitted, Env
    <3> QED BY <1>t, <1>u, <3>1, <3>2 DEF FailedInv
  <2>2. CASE env' # Uncommitted
    <3>1. env' = env /\ pc'["inst"] = "idle" /\ condemned' = condemned
      BY <1>4, <1>w, <2>2 DEF PreInstall, Renewed
    <3> QED BY <1>n, <3>1
  <2> QED BY <2>1, <2>2
<1>5. CASE RaucMarkBad \/ StreamWrong
  <2>1. /\ condemned' = condemned
        /\ pc'["inst"] \in New => pc["inst"] \in New
        /\ env' \in {env, [env EXCEPT !.ok[Target] = FALSE, !.try[Target] = 0],
                     [env EXCEPT !.order = boot.slot, !.ok[Target] = FALSE,
                                 !.try[Target] = 0]}
    BY <1>5, <1>w DEF RaucMarkBad, StreamWrong, hist, Inst
  <2>2. CASE env' = [env EXCEPT !.ok[Target] = FALSE, !.try[Target] = 0]
    BY <1>n, <1>t, <2>1, <2>2 DEF Env
  <2>3. CASE env' = [env EXCEPT !.order = boot.slot, !.ok[Target] = FALSE, !.try[Target] = 0]
    BY <1>n, <1>t, <2>1, <2>3 DEF Env
  <2> QED BY <1>n, <2>1, <2>2, <2>3
<1>6. CASE RaucActivates
  <2>1. /\ condemned' = condemned /\ pc'["inst"] \notin New /\ Target \notin condemned
        /\ env' \in {env, [env EXCEPT !.order = Target, !.ok[Target] = TRUE, !.try[Target] = 0]}
    BY <1>6, <1>w DEF RaucActivates, hist, Inst, FailedInv
  <2>2. CASE env' = [env EXCEPT !.order = Target, !.ok[Target] = TRUE, !.try[Target] = 0]
    <3>1. env'.com = env.com /\ env'.ok = [env.ok EXCEPT ![Target] = TRUE]
      BY <1>t, <2>2 DEF Env
    <3> QED BY <1>t, <1>u, <2>1, <3>1 DEF FailedInv
  <2> QED BY <1>n, <2>1, <2>2
<1>7. CASE Rollback
  <2> DEFINE new == [env EXCEPT !.order = Target, !.ok[Target] = TRUE, !.try[Target] = 0]
  <2>1. /\ env' \in {env, new} /\ pc'["inst"] \notin New
        /\ condemned' = IF env' = new THEN condemned \ {Target} ELSE condemned
    BY <1>7, <1>w DEF Rollback
  <2>2. CASE env' = new
    <3>1. env'.com = env.com /\ env'.ok = [env.ok EXCEPT ![Target] = TRUE]
      BY <1>t, <2>2 DEF Env
    <3>2. condemned' = condemned \ {Target}
      BY <2>1, <2>2
    <3> QED BY <1>t, <1>u, <2>1, <3>1, <3>2 DEF FailedInv
  <2>3. CASE env' # new
    <3>1. env' = env /\ condemned' = condemned
      BY <2>1, <2>3
    <3> QED BY <1>n, <2>1, <3>1
  <2> QED BY <2>2, <2>3
<1> QED
  BY <1>1, <1>2, <1>3, <1>4, <1>5, <1>6, <1>7 DEF InstallNext

\* GRUB and the board make no slot usable and condemn none.
LEMMA GrubFailed ==
  TypeOK /\ ChosenOK /\ CountInv /\ VerdictInv /\ FailedInv /\ GrubNext => FailedInv'
<1> SUFFICES ASSUME TypeOK, ChosenOK, CountInv, VerdictInv, FailedInv, GrubNext
             PROVE  FailedInv'
  OBVIOUS
<1>e. /\ env \in Env /\ env.ok \in [Slots -> BOOLEAN] /\ condemned \subseteq Slots
  BY EnvFields DEF TypeOK, EspOK, HistOK
<1>1. pc'["inst"] = "idle" /\ condemned' = condemned
  <2>1. pc'["inst"] = "idle"
    BY GrubShape, FreshRun DEF VerdictInv
  <2>2. condemned' = condemned
    BY DEF GrubNext, GrubStart, PickPass, PickExhausted, PickChoose, PickNone, GrubCount,
           GrubBoot, LoadFailed, HandOver, HandOverFailed, LastResort, NothingLoads,
           NvidiaTrips, WarmReset, Started, hist
  <2> QED BY <2>1, <2>2
<1>2. env'.com = env.com /\ \A s \in Slots : env'.ok[s] => env.ok[s]
  <2>1. CASE PickExhausted
    <3>s. PICK s \in Slots : s = SlotAt(grub.mem, grub.i)
      BY GrubFields, GrubVarTypes
    <3>1. env' \in {env, [env EXCEPT !.ok[s] = FALSE]}
      BY <2>1, <3>s DEF PickExhausted, Saved, NotSaved
    <3> QED BY <1>e, <3>1 DEF Env
  <2>2. CASE GrubCount
    <3>1. env' \in {env, [env EXCEPT !.try = grub.mem.try]}
      BY <2>2 DEF GrubCount, Saved, NotSaved
    <3> QED BY <1>e, <3>1 DEF Env
  <2>3. CASE LoadFailed
    <3>1. /\ phase = "load" /\ grub.envok /\ grub.chosen \in Slots
          /\ env' = [env EXCEPT !.ok = [grub.mem.ok EXCEPT ![grub.chosen] = FALSE]]
      BY <2>3 DEF LoadFailed, ChosenOK
    <3>2. env'.com = env.com /\ \A s \in Slots : env'.ok[s] => grub.mem.ok[s]
      BY <1>e, <3>1, GrubFields DEF Env
    <3> QED BY <3>1, <3>2 DEF CountInv
  <2>4. CASE ~(PickExhausted \/ GrubCount \/ LoadFailed)
    BY <2>4 DEF GrubNext, GrubStart, PickPass, PickChoose, PickNone, GrubBoot, HandOver,
                HandOverFailed, LastResort, NothingLoads, NvidiaTrips, esp
  <2> QED BY <2>1, <2>2, <2>3, <2>4
<1> QED
  BY <1>1, <1>2, <1>e DEF FailedInv

LEMMA BoardFailed ==
  TypeOK /\ VerdictInv /\ MaxDamage = 0 /\ FailedInv /\ BoardNext => FailedInv'
<1> SUFFICES ASSUME TypeOK, VerdictInv, MaxDamage = 0, FailedInv, BoardNext PROVE FailedInv'
  OBVIOUS
<1>1. CASE PowerCut \/ Crash \/ Halt
  BY <1>1, FreshRun DEF PowerCut, Crash, Halt, Down, RunCleared, esp, FailedInv
<1>2. CASE NvVerify \/ UserReboot
  BY <1>2 DEF NvVerify, UserReboot, esp, run, hist, FailedInv, Target
<1>3. CASE Reflash
  <2>1. pc' = Fresh /\ condemned' = {}
    BY <1>3 DEF Reflash, VerdictInv
  <2> QED BY <2>1, FreshRun DEF FailedInv
<1>4. ~((\E f \in {"env", "bak"} : Tear(f)) \/ (\E s \in Slots : Corrupt(s)))
  BY DEF Tear, Corrupt, TypeOK, BudgetOK
<1> QED
  BY <1>1, <1>2, <1>3, <1>4 DEF BoardNext

LEMMA FailedInvariant ==
  ASSUME MaxDamage = 0
  PROVE  Spec => []FailedInv
<1>1. Init => FailedInv
  BY FreshRun DEF Init, FailedInv
<1>2. TypeOK /\ ChosenOK /\ Intact /\ CountInv /\ VerdictInv /\ RunInv /\ FailedInv
        /\ [Next]_vars => FailedInv'
  <2> SUFFICES ASSUME TypeOK, ChosenOK, Intact, CountInv, VerdictInv, RunInv, FailedInv,
                      [Next]_vars
               PROVE  FailedInv'
    OBVIOUS
  <2>1. Valid
    BY DEF Intact, Valid
  <2>2. CASE UNCHANGED vars
    BY <2>2 DEF vars, esp, run, hist, FailedInv, Target
  <2> QED
    BY <2>1, <2>2, GuardFailed, CommitFailedInv, InstallFailed, GrubFailed, BoardFailed
    DEF Next
<1> QED
  BY <1>1, <1>2, TypesHold, NothingLost, ProvenInvariant, CountInvariant, VerdictInvariant,
     TrialInvariant, PTL DEF Spec

\* As long as nothing is lost, whatever write, lock or load fails and wherever
\* the power goes: GRUB gives no other trial boot to a slot whose failed trial
\* is in grubenv.
THEOREM FailedStaysFailed ==
  ASSUME MaxDamage = 0
  PROVE  Spec => FailedNotRetried
<1>1. TypeOK /\ ChosenOK /\ CountInv /\ PassInv /\ FailedInv /\ [Next]_vars
      => [phase # "up" /\ phase' = "up" /\ boot'.trial => boot'.slot \notin condemned]_vars
  <2> SUFFICES ASSUME TypeOK, ChosenOK, CountInv, PassInv, FailedInv, Next,
                      phase # "up", phase' = "up", boot'.trial
               PROVE  boot'.slot \notin condemned
    BY DEF vars
  <2>1. GrubNext
    BY UpSteps, BoardSteps DEF Next
  <2>2. PICK c \in Slots : /\ c = boot'.slot /\ c = grub.chosen /\ ~grub.mem.com[c]
                           /\ phase = "load"
    <3>1. GrubBoot
      <4>1. LastResort => ~boot'.trial
        BY DEF LastResort, Started
      <4>2. ~(GrubStart \/ PickPass \/ PickExhausted \/ PickChoose \/ PickNone)
        BY DEF GrubStart, PickPass, PickExhausted, PickChoose, PickNone
      <4>3. ~(GrubCount \/ LoadFailed \/ HandOver \/ HandOverFailed \/ NothingLoads
                \/ NvidiaTrips)
        BY DEF GrubCount, LoadFailed, HandOver, HandOverFailed, NothingLoads, NvidiaTrips,
               WarmReset
      <4> QED BY <2>1, <4>1, <4>2, <4>3 DEF GrubNext
    <3> QED BY <3>1 DEF GrubBoot, Started, ChosenOK
  <2>3. Valid /\ env.ok[c] /\ grub.mem.com = env.com
    BY <2>2 DEF CountInv, PassInv, GrubPhases
  <2> QED BY <2>2, <2>3 DEF FailedInv
<1> QED
  BY <1>1, FailedInvariant, TypesHold, CountInvariant, TrialInvariant, PTL
  DEF Spec, FailedNotRetried

-----------------------------------------------------------------------------
(***************************************************************************)
(* Where the board belongs.                                                *)
(***************************************************************************)
\* Nothing has failed and nothing is lost.
Calm == faults = 0 /\ damage = 0 /\ torn = {}

\* GRUB may boot slot s outside of a trial.
Serves(s) == env.ok[s] /\ env.com[s]

\* The guard has seen to this boot.
Guarded == pc["guard"] \notin {"start", "run"}

\* The attempt of a boot that is under way is in grubenv, and is not lost yet.
Underway == IF phase = "load" \/ (phase = "up" /\ ~Guarded) THEN 1 ELSE 0

\* The other slot can only be booted where home comes first and has an attempt
\* for every boot that was lost, and one more.
HomeFirst ==
  Serves(Other(home)) =>
    /\ env.com[home]
    /\ lost < 2 => env.order = home /\ env.ok[home] /\ env.try[home] <= lost + Underway

\* Nothing usable comes before slot s.
Foremost(s) == env.order = s \/ ~env.ok[Other(s)]

\* GRUB goes past no slot that is usable.
ScanInv ==
  phase \in GrubPhases =>
    /\ grub.envok
    /\ phase = "pick" => \A i \in {1, 2} : i < grub.i => ~env.ok[SlotAt(env, i)]
    /\ phase \in {"count", "load"} => Foremost(grub.chosen)
    /\ phase = "count" => grub.mem.try[grub.chosen] <= env.try[grub.chosen] + 1
    /\ phase = "none" => \A s \in Slots : ~env.ok[s]

\* Nobody has rolled back: whoever does so reboots.
Stays == pc["inst"] \notin {"idle", "rollbak"} \/ (pc["inst"] = "idle" /\ ~stopping)

\* An install has begun to replace what is in its target.
Replacing == {"prebak", "markbad", "badbak", "write", "writing", "activate", "actbak",
              "verify"}

\* A trial runs until its verdict, and nothing usable comes before it but what
\* was rolled back to.
OnTrialInv ==
  /\ pc["gate"] \in {"start", "check", "commit"} => ~env.com[boot.slot]
  /\ ~env.com[boot.slot] => Foremost(boot.slot) \/ (~Stays /\ env.try[Target] = 0)

\* A last resort runs where nothing is usable, until the gate makes it so.
LastInv == ~Serves(Target) /\ (home = boot.slot \/ ~env.ok[boot.slot])

\* A committed slot runs because it is usable and nothing comes before it.
CommittedInv == env.ok[boot.slot] /\ (~Guarded => Foremost(boot.slot))

\* Once the guard is through, the board is at home, unless it rolls back or
\* runs what it could not boot outside of a trial.
AtHome == lost = 0 /\ (Stays => home = boot.slot \/ ~Serves(boot.slot))

\* What an operation was let start with: an install, that its target is on
\* trial; a rollback, that its target is usable.
OperationInv ==
  /\ pc["inst"] \in Replacing => ~env.com[Target]
  /\ pc["inst"] = "rollback" => env.ok[Target]

SystemInv ==
  /\ ~boot.hand
  /\ IF boot.trial THEN OnTrialInv
     ELSE env.com[boot.slot] /\ IF boot.last THEN LastInv ELSE CommittedInv
  /\ Guarded => AtHome
  /\ pc["gate"] \in {"fail", "failwrite", "failbak"} \/ pc["dl"] \notin {"armed", "done"}
       => boot.trial
  /\ OperationInv

HomeInv ==
  /\ Calm
  /\ HomeFirst /\ (\E s \in Slots : env.com[s])
  /\ ScanInv
  /\ phase = "up" => SystemInv

-----------------------------------------------------------------------------
\* As long as nothing fails, writes are written and copies made.
LEMMA CalmWrites ==
  ASSUME TypeOK, Calm
  PROVE  /\ ~Fault
         /\ \A new : \A ok \in BOOLEAN : Replace(new, ok) => ok /\ env' = new
         /\ \A ok \in BOOLEAN : SyncBak(ok) => ok
         /\ \A p : ~LockTimeout(p)
  BY DEF Calm, Fault, Replace, SyncBak, LockTimeout, Valid

\* It stays so.
LEMMA CalmStays == TypeOK /\ TypeOK' /\ Calm /\ MaxFaults = 0 /\ MaxDamage = 0 /\ Intact' => Calm'
  BY DEF Calm, TypeOK, BudgetOK, Intact

\* A step that lets grubenv and the boot be, and starts nothing.
LEMMA QuietHome ==
  ASSUME TypeOK, HomeInv, Calm', phase = "up", phase' = "up",
         UNCHANGED <<boot, home, lost>>,
         env'.order = env.order, env'.ok = env.ok, env'.try = env.try, env'.com = env.com,
         Guarded' = Guarded, Stays' => Stays,
         boot.trial /\ pc'["gate"] \in {"start", "check", "commit"}
           => pc["gate"] \in {"start", "check", "commit"},
         pc'["gate"] \in {"fail", "failwrite", "failbak"} \/ pc'["dl"] \notin {"armed", "done"}
           => boot.trial,
         OperationInv'
  PROVE  HomeInv'
<1>1. HomeFirst' /\ (\E s \in Slots : env'.com[s])
  BY DEF HomeInv, HomeFirst, Serves, Underway
<1>2. ScanInv'
  BY DEF ScanInv, GrubPhases
<1>3. SystemInv'
  <2>1. SystemInv
    BY DEF HomeInv
  <2>2. boot.trial /\ OnTrialInv => OnTrialInv'
    BY DEF OnTrialInv, Foremost, Target
  <2>3. LastInv => LastInv'
    BY DEF LastInv, Serves, Target
  <2>4. CommittedInv => CommittedInv'
    BY DEF CommittedInv, Foremost
  <2>5. AtHome => AtHome'
    BY DEF AtHome, Serves
  <2>6. /\ ~boot'.hand /\ (~boot'.trial => env'.com[boot'.slot])
        /\ pc'["gate"] \in {"fail", "failwrite", "failbak"} \/ pc'["dl"] \notin {"armed", "done"}
             => boot'.trial
    BY <2>1 DEF SystemInv
  <2> QED BY <2>1, <2>2, <2>3, <2>4, <2>5, <2>6 DEF SystemInv
<1> QED
  BY <1>1, <1>2, <1>3 DEF HomeInv

\* The guard puts the board where it belongs.
LEMMA GuardHome ==
  ASSUME TypeOK, Calm', HomeInv, VerdictInv, RunInv, GuardNext
  PROVE  HomeInv'
<1> USE DEF Gate
<1>t. /\ env \in Env /\ env.order \in Slots /\ env.ok \in [Slots -> BOOLEAN]
      /\ env.com \in [Slots -> BOOLEAN] /\ env.try \in [Slots -> 0..2]
      /\ boot.slot \in Slots /\ Target \in Slots /\ Target # boot.slot
      /\ home \in Slots /\ boot.trial \in BOOLEAN /\ boot.last \in BOOLEAN
  BY EnvFields, RunningTypes DEF TypeOK, EspOK, HistOK
<1>pc. pc \in [Procs -> Steps] /\ phase = "up" /\ phase' = "up"
  BY UpSteps DEF TypeOK, PcOK
<1>c. Valid /\ Calm /\ SystemInv
  BY <1>pc DEF HomeInv, Calm, Valid
<1>u. /\ boot' = boot /\ Target' = Target /\ pc'["inst"] = pc["inst"]
      /\ pc'["gate"] = pc["gate"] /\ pc'["dl"] = pc["dl"] /\ stopping' = stopping
  <2>1. \E l : Goto("guard", l)
    BY DEF GuardNext, GuardLock, GuardDies, GuardReset, GuardResetBak, GuardHand,
           GuardBak, GuardRebuild, GuardRebuildFails, GuardRebuildBak, GuardEnds
  <2>2. stopping' = stopping
    BY DEF GuardNext, GuardLock, GuardDies, GuardReset, GuardResetBak, GuardHand,
           GuardBak, GuardRebuild, GuardRebuildFails, GuardRebuildBak, run
  <2> QED BY <1>pc, <2>1, <2>2, GuardShape, GotoOther DEF Target, Procs
<1>1. CASE GuardReset
  <2>1. /\ home' = IF boot.trial \/ boot.last THEN home ELSE boot.slot
        /\ lost' = 0 /\ Guarded' /\ ~Guarded
    <3>1. pc'["guard"] \in {"resetbak", "hand"} /\ pc["guard"] = "run"
      BY <1>1, <1>pc DEF GuardReset, Goto, Procs
    <3> QED BY <1>1, <3>1 DEF GuardReset, Reached, Guarded
  <2>f. pc["gate"] = "start" /\ pc["inst"] = "idle"
    <3>1. pc["guard"] = "run"
      BY <1>1 DEF GuardReset
    <3> QED BY <3>1 DEF VerdictInv, RunInv
  <2>2. /\ env'.order = env.order /\ env'.ok = env.ok /\ env'.com = env.com
        /\ env'.try = IF ToReset THEN [env.try EXCEPT ![boot.slot] = 0] ELSE env.try
    <3>1. env' = IF ToReset THEN [env EXCEPT !.try[boot.slot] = 0] ELSE env
      BY <1>1, <1>c, CalmWrites DEF GuardReset
    <3> QED BY <1>t, <3>1 DEF Env
  <2>h. /\ ScanInv' /\ \E s \in Slots : env'.com[s]
        /\ pc'["dl"] \notin {"armed", "done"} => boot.trial
        /\ pc'["gate"] = "start" /\ pc'["inst"] = "idle"
    BY <1>c, <1>pc, <1>u, <2>2, <2>f DEF HomeInv, ScanInv, GrubPhases, SystemInv
  <2>o. Other(Target) = boot.slot /\ Target = Other(boot.slot)
    BY <1>t DEF Target, Other, Slots
  <2>s. Stays' = Stays
    BY <1>u DEF Stays
  <2>3. CASE boot.trial
    <3>1. home' = home /\ ~env.com[boot.slot] /\ OnTrialInv
      BY <1>c, <2>1, <2>3, <2>f DEF SystemInv, OnTrialInv
    <3>2. ~Serves(Other(home))
      <4>1. CASE home = boot.slot
        BY <2>o, <3>1, <4>1 DEF HomeInv, HomeFirst
      <4>2. CASE home = Target
        BY <2>o, <3>1, <4>2 DEF Serves
      <4> QED BY <1>t, <4>1, <4>2 DEF Target, Other, Slots
    <3>3. HomeFirst'
      BY <2>2, <3>1, <3>2 DEF HomeFirst, Serves
    <3>4. OnTrialInv'
      BY <1>t, <1>u, <2>2, <2>s, <3>1 DEF OnTrialInv, Foremost
    <3>5. AtHome'
      BY <1>u, <2>1, <2>2, <3>1 DEF AtHome, Serves
    <3> QED BY <1>c, <1>u, <1>pc, <2>2, <2>3, <2>f, <2>h, <3>3, <3>4, <3>5
            DEF HomeInv, SystemInv, OperationInv, Replacing
  <2>4. CASE ~boot.trial /\ boot.last
    <3>1. home' = home /\ LastInv /\ env.com[boot.slot]
      BY <1>c, <2>1, <2>4 DEF SystemInv
    <3>2. ~Serves(Other(home))
      <4>1. CASE home = boot.slot
        BY <2>o, <3>1, <4>1 DEF LastInv
      <4>2. CASE home # boot.slot
        BY <1>t, <2>o, <3>1, <4>2 DEF LastInv, Serves, Target, Other, Slots
      <4> QED BY <4>1, <4>2
    <3>3. HomeFirst'
      BY <2>2, <3>1, <3>2 DEF HomeFirst, Serves
    <3>4. LastInv'
      BY <1>u, <2>2, <3>1 DEF LastInv, Serves
    <3>5. AtHome'
      BY <1>u, <2>1, <2>2, <3>1 DEF AtHome, LastInv, Serves
    <3> QED BY <1>c, <1>u, <1>pc, <2>2, <2>4, <2>f, <2>h, <3>1, <3>3, <3>4, <3>5
            DEF HomeInv, SystemInv, OperationInv, Replacing
  <2>5. CASE ~boot.trial /\ ~boot.last
    <3>1. home' = boot.slot /\ CommittedInv /\ env.com[boot.slot]
      BY <1>c, <2>1, <2>5 DEF SystemInv
    <3>2. env'.try[boot.slot] = 0
      BY <1>t, <2>2, <2>5, <3>1 DEF ToReset
    <3>3. HomeFirst'
      BY <2>1, <2>2, <2>o, <3>1, <3>2, <1>pc
      DEF HomeFirst, Serves, CommittedInv, Foremost, Underway
    <3>4. CommittedInv' /\ AtHome'
      BY <1>u, <2>1, <2>2, <3>1 DEF CommittedInv, AtHome
    <3> QED BY <1>c, <1>u, <1>pc, <2>2, <2>5, <2>f, <2>h, <3>1, <3>3, <3>4
            DEF HomeInv, SystemInv, OperationInv, Replacing
  <2> QED BY <1>t, <2>3, <2>4, <2>5
<1>2. CASE GuardLock \/ GuardResetBak \/ GuardHand \/ GuardBak \/ GuardRebuildBak
  <2>1. env' = env /\ home' = home /\ lost' = lost
    <3>1. ~boot.hand
      BY <1>c DEF SystemInv
    <3> QED
      BY <1>2, <1>c, <3>1 DEF GuardLock, GuardResetBak, GuardHand, GuardBak,
                              GuardRebuildBak, esp, hist
  <2>2. Guarded' = Guarded
    BY <1>2, <1>pc DEF GuardLock, GuardResetBak, GuardHand, GuardBak, GuardRebuildBak,
                       GuardEnds, Goto, Guarded, Procs
  <2>3. Stays' = Stays
    BY <1>u DEF Stays
  <2> QED BY <1>c, <1>pc, <1>u, <2>1, <2>2, <2>3, QuietHome DEF SystemInv, OperationInv
<1>3. ~(GuardDies \/ GuardRebuild \/ GuardRebuildFails)
  BY <1>c, CalmWrites DEF GuardDies, GuardRebuild, GuardRebuildFails
<1> QED
  BY <1>1, <1>2, <1>3 DEF GuardNext

\* A flag that is set is set again.
LEMMA SetAgain ==
  ASSUME NEW f \in [Slots -> BOOLEAN], NEW s \in Slots, f[s]
  PROVE  [f EXCEPT ![s] = TRUE] = f
  OBVIOUS

\* What boat-commit writes concerns the slot that runs: a commit is at home,
\* unless a rollback has put the other slot first, and a failure is not.
LEMMA CommitHome ==
  ASSUME TypeOK, Calm', HomeInv, VerdictInv, RunInv, CommitNext
  PROVE  HomeInv'
<1> USE DEF Gate
<1>t. /\ env \in Env /\ env.order \in Slots /\ env.ok \in [Slots -> BOOLEAN]
      /\ env.com \in [Slots -> BOOLEAN] /\ env.try \in [Slots -> 0..2]
      /\ boot.slot \in Slots /\ Target \in Slots /\ Target # boot.slot
      /\ home \in Slots /\ boot.trial \in BOOLEAN /\ boot.last \in BOOLEAN /\ lost \in Nat
      /\ pc \in [Procs -> Steps] /\ stopping \in BOOLEAN
  BY EnvFields, RunningTypes DEF TypeOK, EspOK, HistOK, PcOK, RunOK
<1>c. phase = "up" /\ phase' = "up" /\ Valid /\ Calm /\ SystemInv
  BY UpSteps DEF HomeInv, Calm, Valid
<1>o. /\ Other(Target) = boot.slot /\ Target = Other(boot.slot)
      /\ \A s \in Slots : s = boot.slot \/ s = Target
  BY <1>t DEF Target, Other, Slots
<1>u. boot' = boot /\ Target' = Target /\ pc'["inst"] = pc["inst"]
  BY CommitShape DEF Target
<1>g. pc'["guard"] = pc["guard"] /\ Guarded' = Guarded
  <2>1. pc'["guard"] = pc["guard"]
    BY <1>t DEF CommitNext, GateStart, GateReset, GateResetBak, GateSettles, GateStayOff,
         GateStayBak, GatePasses, GateFails, GateCommit, GateCommitTimeout,
         GateCommitBak, GateFailMark, DeadlineFires, DeadlineDecides, FailWrite,
         FailNoLock, FailBak, Killed, InhibitStarts, ShutdownStarts, CommitFailed,
         ShutdownLeaves, ShutdownWrites, ShutdownBak, Goto, Procs
  <2> QED BY <2>1 DEF Guarded
<1>s. (stopping => stopping') /\ (Stays' => Stays) /\ ScanInv'
  <2>1. stopping => stopping'
    BY <1>t DEF CommitNext, GateStart, GateReset, GateResetBak, GateSettles, GateStayOff,
         GateStayBak, GatePasses, GateFails, GateCommit, GateCommitTimeout,
         GateCommitBak, GateFailMark, DeadlineFires, DeadlineDecides, FailWrite,
         FailNoLock, FailBak, Killed, InhibitStarts, ShutdownStarts, run, Reboot,
         ShutdownLeaves, ShutdownWrites, ShutdownBak
  <2> QED BY <1>c, <1>u, <2>1 DEF Stays, ScanInv, GrubPhases
\* Who fails a trial does so of a trial.
<1>f. pc'["gate"] \in {"fail", "failwrite", "failbak"} \/ pc'["dl"] \notin {"armed", "done"}
        => boot.trial
  BY <1>t, <1>c DEF CommitNext, GateStart, GateReset, GateResetBak, GateSettles, GateStayOff,
       GateStayBak, GatePasses, GateFails, GateCommit, GateCommitTimeout,
       GateCommitBak, GateFailMark, DeadlineFires, DeadlineDecides, FailWrite,
       FailNoLock, FailBak, Killed, InhibitStarts, ShutdownStarts, CommitFailed,
       ShutdownLeaves, ShutdownWrites, ShutdownBak, Goto, Procs, SystemInv
<1>q. ASSUME UNCHANGED <<home, lost>>,
             env'.order = env.order, env'.ok = env.ok, env'.try = env.try, env'.com = env.com,
             boot.trial /\ pc'["gate"] \in {"start", "check", "commit"}
               => pc["gate"] \in {"start", "check", "commit"}
      PROVE  HomeInv'
  BY <1>c, <1>u, <1>g, <1>s, <1>f, <1>q, QuietHome DEF SystemInv, OperationInv
\* The running slot has failed.
<1>b. ASSUME env' = Bad(boot.slot), home' = Other(boot.slot), lost' = lost, boot.trial,
             pc'["gate"] = pc["gate"] \/ pc'["gate"] \in {"failbak", "done"}
      PROVE  HomeInv'
  <2>1. /\ env'.order = env.order /\ env'.com = env.com
        /\ env'.ok = [env.ok EXCEPT ![boot.slot] = FALSE]
        /\ env'.try = [env.try EXCEPT ![boot.slot] = 0]
    BY <1>b, <1>t DEF Bad, Env
  <2>2. ~Serves(boot.slot)'
    BY <1>t, <1>u, <2>1 DEF Serves
  <2>3. HomeFirst'
    BY <1>b, <1>o, <1>t, <1>u, <2>1 DEF HomeFirst, Serves
  <2>4. OnTrialInv'
    <3>1. OnTrialInv
      BY <1>b, <1>c DEF SystemInv
    <3>2. Foremost(boot.slot) => Foremost(boot.slot)'
      BY <1>o, <1>t, <1>u, <2>1 DEF Foremost
    <3>3. env'.try[Target] = env.try[Target] /\ env'.com[boot.slot] = env.com[boot.slot]
      BY <1>t, <2>1
    <3> QED BY <1>b, <1>s, <1>u, <3>1, <3>2, <3>3 DEF OnTrialInv
  <2>5. Guarded => AtHome'
    BY <1>b, <1>c, <2>2, <1>u DEF SystemInv, AtHome
  <2>6. (\E s \in Slots : env'.com[s]) /\ OperationInv'
    BY <1>c, <1>t, <1>u, <2>1 DEF HomeInv, SystemInv, OperationInv
  <2> QED
    BY <1>b, <1>c, <1>f, <1>g, <1>s, <1>u, <2>3, <2>4, <2>5, <2>6 DEF HomeInv, SystemInv
<1>1. CASE GateStart \/ GateResetBak \/ GateSettles \/ GateStayBak \/ GatePasses
             \/ GateFails \/ GateCommitTimeout \/ GateCommitBak \/ GateFailMark
             \/ DeadlineFires \/ DeadlineDecides \/ InhibitStarts
             \/ ShutdownStarts \/ ShutdownLeaves \/ ShutdownBak
  <2>1. env' = env /\ home' = home /\ lost' = lost
    BY <1>1
    DEF GateStart, GateResetBak, GateSettles, GateStayBak, GatePasses, GateFails,
        GateCommitTimeout, GateCommitBak, GateFailMark, DeadlineFires, DeadlineDecides,
        InhibitStarts, ShutdownStarts, ShutdownLeaves, ShutdownBak, esp, hist
  <2>2. boot.trial /\ pc'["gate"] \in {"start", "check", "commit"}
          => pc["gate"] \in {"start", "check", "commit"}
    BY <1>1, <1>t
    DEF GateStart, GateResetBak, GateSettles, GateStayBak, GatePasses, GateFails,
        GateCommitTimeout, GateCommitBak, GateFailMark, DeadlineFires, DeadlineDecides,
        InhibitStarts, ShutdownStarts, ShutdownLeaves, ShutdownBak, CommitFailed, Goto,
        Procs, VerdictInv
  <2> QED BY <1>q, <2>1, <2>2
<1>2. CASE GateReset
  <2>1. /\ ~boot.trial /\ env.com[boot.slot] /\ Guarded /\ AtHome
        /\ IF boot.last THEN LastInv ELSE CommittedInv
    <3>1. ~boot.trial /\ Guarded
      BY <1>2 DEF GateReset, VerdictInv, Guarded
    <3> QED BY <1>c, <3>1 DEF SystemInv
  <2>2. /\ lost' = 0 /\ home' = IF boot.last THEN boot.slot ELSE home
        /\ pc'["gate"] = "resetbak" /\ pc'["dl"] = pc["dl"]
    BY <1>2, <1>t, <1>c, CalmWrites DEF GateReset, Goto, Procs
  <2>3. /\ env'.order = env.order /\ env'.com = env.com
        /\ env'.ok = [env.ok EXCEPT ![boot.slot] = TRUE]
        /\ env'.try = [env.try EXCEPT ![boot.slot] = 0]
    <3>1. env' = [env EXCEPT !.ok[boot.slot] = TRUE, !.try[boot.slot] = 0]
      BY <1>2, <1>c, CalmWrites DEF GateReset
    <3> QED BY <1>t, <3>1 DEF Env
  <2>4. env'.ok[Target] = env.ok[Target] /\ env'.try[Target] = env.try[Target]
        /\ env'.ok[boot.slot] /\ env'.try[boot.slot] = 0
    BY <1>t, <2>3
  <2>h. (\E s \in Slots : env'.com[s]) /\ OperationInv'
    BY <1>c, <1>u, <2>3, <2>4 DEF HomeInv, SystemInv, OperationInv
  <2>5. CASE boot.last
    <3>1. HomeFirst' /\ LastInv' /\ AtHome'
      BY <1>o, <1>u, <2>1, <2>2, <2>3, <2>4, <2>5 DEF HomeFirst, LastInv, AtHome, Serves
    <3> QED BY <1>c, <1>f, <1>g, <1>s, <1>u, <2>1, <2>3, <2>5, <2>h, <3>1
            DEF HomeInv, SystemInv
  <2>6. CASE ~boot.last
    <3>1. home' = home /\ lost = 0 /\ env.ok[boot.slot] /\ env'.ok = env.ok
      <4>1. home' = home /\ lost = 0 /\ env.ok[boot.slot]
        BY <2>1, <2>2, <2>6 DEF AtHome, CommittedInv
      <4> QED BY <1>t, <2>3, <4>1, SetAgain
    <3>2. HomeFirst'
      <4>1. Underway = 0 /\ Underway' = 0
        BY <1>c, <1>g, <2>1 DEF Underway
      <4>2. env'.try[home] = env.try[home] \/ env'.try[home] = 0
        BY <1>t, <2>3
      <4> QED BY <1>c, <2>2, <2>3, <3>1, <4>1, <4>2 DEF HomeInv, HomeFirst, Serves
    <3>3. CommittedInv' /\ AtHome'
      BY <1>g, <1>s, <1>u, <2>1, <2>2, <2>3, <3>1 DEF CommittedInv, AtHome, Serves
    <3> QED BY <1>c, <1>f, <1>g, <1>s, <1>u, <2>1, <2>3, <2>6, <2>h, <3>2, <3>3
            DEF HomeInv, SystemInv
  <2> QED BY <1>t, <2>5, <2>6
<1>3. CASE GateStayOff
  <2>1. env' = [env EXCEPT !.stay = FALSE] /\ home' = home /\ lost' = lost
    BY <1>3, <1>c, CalmWrites DEF GateStayOff, hist
  <2>2. env'.order = env.order /\ env'.ok = env.ok /\ env'.try = env.try /\ env'.com = env.com
    BY <1>t, <2>1 DEF Env
  <2>3. pc'["gate"] \notin {"start", "check", "commit"}
    BY <1>3, <1>t DEF GateStayOff, Goto, Procs
  <2> QED BY <1>q, <2>1, <2>2, <2>3
<1>4. CASE GateCommit /\ ~StillUsable
  <2>1. env' = env /\ home' = home /\ lost' = lost /\ pc'["gate"] = "done"
    BY <1>4, <1>t DEF GateCommit, Goto, Procs
  <2> QED BY <1>q, <2>1
<1>5. CASE GateCommit /\ StillUsable
  <2>1. /\ boot.trial /\ OnTrialInv /\ ~env.com[boot.slot] /\ env.ok[boot.slot]
        /\ Guarded /\ AtHome
    <3>1. pc["gate"] = "commit" /\ boot.trial /\ Guarded /\ env.ok[boot.slot]
      BY <1>5 DEF GateCommit, VerdictInv, RunInv, StillUsable, Guarded
    <3> QED BY <1>c, <3>1 DEF SystemInv, OnTrialInv
  <2>2. /\ env' = Committed /\ pc'["gate"] = "commitbak" /\ pc'["dl"] = pc["dl"]
        /\ home' = (IF env.ok[env.order] THEN env.order ELSE boot.slot) /\ lost' = lost
    BY <1>5, <1>c, <1>t, CalmWrites DEF GateCommit, Goto, Procs
  <2>3. /\ env'.order = env.order
        /\ env'.ok = [env.ok EXCEPT ![boot.slot] = TRUE]
        /\ env'.com = [env.com EXCEPT ![boot.slot] = TRUE]
        /\ env'.try = [env.try EXCEPT ![boot.slot] = 0]
    BY <1>t, <2>2 DEF Committed, Env
  <2>4. /\ env'.ok = env.ok /\ env'.try[Target] = env.try[Target]
        /\ env'.com[Target] = env.com[Target]
        /\ env'.com[boot.slot] /\ env'.try[boot.slot] = 0
    <3>1. env'.ok = env.ok
      BY <1>t, <2>1, <2>3, SetAgain
    <3> QED BY <1>t, <2>3, <3>1
  <2>5. OnTrialInv' /\ (\E s \in Slots : env'.com[s])
    BY <1>t, <1>u, <2>2, <2>4 DEF OnTrialInv
  <2>6. OperationInv'
    BY <1>c, <1>u, <2>4 DEF SystemInv, OperationInv
  <2>7. CASE Foremost(boot.slot)
    <3>1. home' = boot.slot
      BY <1>o, <1>t, <2>1, <2>2, <2>7 DEF Foremost
    <3>2. HomeFirst' /\ AtHome'
      BY <1>o, <1>t, <1>u, <2>1, <2>2, <2>3, <2>4, <2>7, <3>1 DEF HomeFirst, AtHome, Serves, Foremost, Underway
    <3> QED BY <1>c, <1>f, <1>g, <1>s, <1>u, <2>1, <2>5, <2>6, <3>2 DEF HomeInv, SystemInv
  <2>8. CASE ~Foremost(boot.slot)
    <3>1. home' = Target /\ env.order = Target /\ env.ok[Target]
      BY <1>o, <1>t, <2>2, <2>8 DEF Foremost
    <3>2. ~Stays /\ env.try[Target] = 0 /\ env.com[Target]
      BY <1>c, <1>o, <2>1, <2>8 DEF OnTrialInv, HomeInv
    <3>3. HomeFirst'
      BY <1>t, <2>3, <2>4, <2>1, <2>2, <3>1, <3>2 DEF HomeFirst, Underway, AtHome
    <3>4. AtHome'
      BY <1>s, <2>1, <2>2, <3>2 DEF AtHome
    <3> QED BY <1>c, <1>f, <1>g, <1>s, <1>u, <2>1, <2>5, <2>6, <3>3, <3>4 DEF HomeInv, SystemInv
  <2> QED BY <2>7, <2>8
<1>6. ASSUME NEW p \in {"gate", "dl"},
             FailWrite(p) \/ FailNoLock(p) \/ FailBak(p) \/ Killed(p)
      PROVE  HomeInv'
  <2>1. CASE FailWrite(p)
    <3>1. /\ env' = Bad(boot.slot) /\ home' = Other(boot.slot) /\ lost' = lost
          /\ pc'["gate"] = pc["gate"] \/ pc'["gate"] \in {"failbak", "done"}
      BY <1>c, <1>t, <2>1, CalmWrites DEF FailWrite, Condemn, Goto, Procs
    <3>2. boot.trial
      BY <1>c, <2>1 DEF FailWrite, SystemInv
    <3> QED BY <1>b, <3>1, <3>2
  <2>2. CASE FailNoLock(p) \/ FailBak(p) \/ Killed(p)
    <3>1. env' = env /\ home' = home /\ lost' = lost
          /\ (pc'["gate"] = pc["gate"] \/ pc'["gate"] = "done")
      BY <1>t, <2>2 DEF FailNoLock, FailBak, Killed, esp, hist, Goto, Procs
    <3> QED BY <1>q, <3>1
  <2> QED BY <1>6, <2>1, <2>2
<1>7. CASE ShutdownWrites
  <2>1. boot.trial /\ pc'["gate"] = pc["gate"] /\ pc'["dl"] = pc["dl"]
    BY <1>7, <1>t DEF ShutdownWrites, RunInv, Goto, Procs
  <2>2. \/ env' = Bad(boot.slot) /\ home' = Other(boot.slot) /\ lost' = lost
        \/ /\ env' = [env EXCEPT !.try[boot.slot] = 0, !.retry = boot.slot]
           /\ home' = home /\ lost' = lost
    BY <1>7, <1>c, CalmWrites DEF ShutdownWrites, Condemn, hist
  <2>3. CASE env' = [env EXCEPT !.try[boot.slot] = 0, !.retry = boot.slot]
               /\ home' = home /\ lost' = lost
    <3>1. /\ env'.order = env.order /\ env'.com = env.com /\ env'.ok = env.ok
          /\ env'.try = [env.try EXCEPT ![boot.slot] = 0]
      BY <1>t, <2>3 DEF Env
    <3>2. HomeFirst'
      <4>1. Underway' = Underway /\ Underway \in Nat
        BY <1>c, <1>g DEF Underway
      <4>2. env'.try[home] = env.try[home] \/ env'.try[home] = 0
        BY <1>t, <3>1
      <4> QED BY <1>c, <1>t, <2>3, <3>1, <4>1, <4>2 DEF HomeInv, HomeFirst, Serves
    <3>3. OnTrialInv' /\ (Guarded => AtHome')
      <4>1. OnTrialInv /\ (Guarded => AtHome)
        BY <1>c, <2>1 DEF SystemInv
      <4> QED BY <1>s, <1>t, <1>u, <2>1, <2>3, <3>1, <4>1
              DEF OnTrialInv, Foremost, AtHome, Serves
    <3>4. OperationInv'
      BY <1>c, <1>u, <3>1 DEF SystemInv, OperationInv
    <3> QED BY <1>c, <1>f, <1>g, <1>s, <1>u, <2>1, <3>1, <3>2, <3>3, <3>4 DEF HomeInv, SystemInv
  <2> QED BY <1>b, <2>1, <2>2, <2>3
<1> QED
  BY <1>1, <1>2, <1>3, <1>4, <1>5, <1>6, <1>7 DEF CommitNext

\* An install leaves what runs where it is, and its target on trial; a rollback
\* moves home with the order, if it goes to a committed slot.
LEMMA InstallHome ==
  ASSUME TypeOK, Calm', HomeInv, RunInv, InstallNext
  PROVE  HomeInv'
<1> USE DEF Inst
<1>t. /\ env \in Env /\ env.order \in Slots /\ env.ok \in [Slots -> BOOLEAN]
      /\ env.com \in [Slots -> BOOLEAN] /\ env.try \in [Slots -> 0..2]
      /\ boot.slot \in Slots /\ Target \in Slots /\ Target # boot.slot
      /\ home \in Slots /\ boot.trial \in BOOLEAN /\ boot.last \in BOOLEAN /\ lost \in Nat
      /\ pc \in [Procs -> Steps] /\ stopping \in BOOLEAN
  BY EnvFields, RunningTypes DEF TypeOK, EspOK, HistOK, PcOK, RunOK
<1>c. phase = "up" /\ phase' = "up" /\ Valid /\ Calm /\ SystemInv
  BY UpSteps DEF HomeInv, Calm, Valid
<1>o. /\ Other(Target) = boot.slot /\ Target = Other(boot.slot)
      /\ \A s \in Slots : s = boot.slot \/ s = Target
  BY <1>t DEF Target, Other, Slots
<1>u. boot' = boot /\ Target' = Target /\ lost' = lost
  BY InstallShape DEF Target, InstallNext, InstallStarts, PreInstall, PreInstallBak, RaucMarkBad,
     RaucMarkBadBak, RaucWrites, RaucWritten, RaucAborts, RaucActivates, RaucActivatesBak,
     InstallDone, StreamWrong, StreamWrongBak, RollbackAsked, Rollback, RollbackBak,
     DebugHold, DebugHoldBak, InstallKilled, hist
<1>g. /\ pc'["gate"] = pc["gate"] /\ pc'["dl"] = pc["dl"] /\ pc'["guard"] = pc["guard"]
      /\ Guarded /\ Guarded' /\ AtHome /\ Underway = 0 /\ Underway' = 0
  <2>1. (\E l : Goto("inst", l)) /\ pc["guard"] = "done"
    BY DEF InstallNext, InstallStarts, PreInstall, PreInstallBak, RaucMarkBad,
       RaucMarkBadBak, RaucWrites, RaucWritten, RaucAborts, RaucActivates, RaucActivatesBak,
       InstallDone, StreamWrong, StreamWrongBak, RollbackAsked, Rollback, RollbackBak,
       DebugHold, DebugHoldBak, InstallKilled, LockedWrite, LockedBak, Asked, RunInv
  <2>2. pc'["gate"] = pc["gate"] /\ pc'["dl"] = pc["dl"] /\ pc'["guard"] = pc["guard"]
    BY <2>1, GotoOther DEF Procs
  <2>3. Guarded /\ Guarded'
    BY <2>1, <2>2 DEF Guarded
  <2> QED BY <1>c, <2>2, <2>3 DEF SystemInv, Underway
<1>s. ScanInv'
  BY <1>c DEF ScanInv, GrubPhases
<1>w. ASSUME NEW new, NEW l, LockedWrite(new, l)
      PROVE  env' = new /\ pc'["inst"] = l
  BY <1>c, <1>t, <1>w, CalmWrites DEF LockedWrite, Goto, Procs
\* The install has its target on trial.
<1>i. ASSUME env'.ok[boot.slot] = env.ok[boot.slot], env'.com[boot.slot] = env.com[boot.slot],
             env'.com[Target] = FALSE, home' = home,
             pc["inst"] \in Installing, pc'["inst"] \in Installing
      PROVE  HomeInv'
  <2>1. Stays /\ env.com[boot.slot] /\ (home = boot.slot \/ ~Serves(boot.slot))
    <3>1. Stays
      BY <1>i DEF Stays, Installing
    <3>2. env.com[boot.slot]
      BY <1>c, <1>i, <1>t DEF SystemInv, RunInv
    <3> QED BY <1>g, <3>1, <3>2 DEF AtHome
  <2>2. HomeFirst'
    BY <1>i, <1>o, <1>t, <2>1 DEF HomeFirst, Serves
  <2>3. AtHome' /\ OperationInv'
    BY <1>g, <1>i, <1>u, <2>1 DEF AtHome, Serves, OperationInv, Installing
  <2>4. CASE boot.trial
    <3>1. OnTrialInv'
      BY <1>c, <1>g, <1>i, <1>u, <2>1, <2>4 DEF OnTrialInv, SystemInv
    <3> QED BY <1>c, <1>g, <1>i, <1>s, <1>t, <1>u, <2>1, <2>2, <2>3, <2>4, <3>1
            DEF HomeInv, SystemInv
  <2>5. CASE ~boot.trial
    <3>1. IF boot.last THEN LastInv' ELSE CommittedInv'
      BY <1>c, <1>g, <1>i, <1>u, <2>1, <2>5 DEF LastInv, CommittedInv, SystemInv, Serves
    <3> QED BY <1>c, <1>g, <1>i, <1>s, <1>t, <1>u, <2>1, <2>2, <2>3, <2>5, <3>1
            DEF HomeInv, SystemInv
  <2> QED BY <1>t, <2>4, <2>5
<1>1. CASE InstallStarts \/ RaucAborts \/ InstallDone \/ RollbackAsked \/ RaucWrites
             \/ RaucWritten \/ InstallKilled \/ PreInstallBak \/ RaucMarkBadBak
             \/ RaucActivatesBak \/ StreamWrongBak \/ DebugHoldBak \/ RollbackBak
  <2>1. env' = env /\ home' = home
    BY <1>1 DEF InstallStarts, RaucAborts, InstallDone, RollbackAsked, RaucWrites,
                RaucWritten, InstallKilled, PreInstallBak, RaucMarkBadBak, RaucActivatesBak,
                StreamWrongBak, DebugHoldBak, RollbackBak, esp, hist
  <2>2. Stays' => Stays
    <3>1. CASE RollbackBak
      BY <1>c, <1>t, <3>1, CalmWrites DEF RollbackBak, Goto, Procs, Stays
    <3>2. CASE ~RollbackBak
      BY <1>1, <1>t, <3>2 DEF InstallStarts, RaucAborts, InstallDone, RollbackAsked, RaucWrites,
                RaucWritten, InstallKilled, PreInstallBak, RaucMarkBadBak, RaucActivatesBak,
                StreamWrongBak, DebugHoldBak, LockedBak, Asked, Goto, Procs, Stays, run
    <3> QED BY <3>1, <3>2
  <2>3. OperationInv'
    <3>1. \/ pc'["inst"] \in Replacing /\ pc["inst"] \in Replacing
          \/ pc'["inst"] = "rollback" /\ env.ok[Target]
          \/ pc'["inst"] \notin Replacing \cup {"rollback"}
      BY <1>1, <1>t DEF InstallStarts, RaucAborts, InstallDone, RollbackAsked, RaucWrites,
                RaucWritten, InstallKilled, PreInstallBak, RaucMarkBadBak, RaucActivatesBak,
                StreamWrongBak, DebugHoldBak, RollbackBak, LockedBak, Goto, Procs, Replacing
    <3> QED BY <1>c, <1>u, <2>1, <3>1 DEF SystemInv, OperationInv, Replacing
  <2> QED BY <1>c, <1>g, <1>u, <2>1, <2>2, <2>3, QuietHome DEF SystemInv
<1>2. CASE DebugHold
  <2>1. PICK on \in BOOLEAN : LockedWrite([env EXCEPT !.stay = on], "holdbak")
    BY <1>2 DEF DebugHold
  <2>2. env' = [env EXCEPT !.stay = on] /\ pc'["inst"] = "holdbak"
    BY <1>w, <2>1
  <2>3. env'.order = env.order /\ env'.ok = env.ok /\ env'.try = env.try /\ env'.com = env.com
    BY <1>t, <2>2 DEF Env
  <2>4. home' = home /\ Stays /\ OperationInv'
    BY <1>2, <2>2 DEF DebugHold, Asked, hist, Stays, OperationInv, Replacing
  <2> QED BY <1>c, <1>g, <1>u, <2>3, <2>4, QuietHome DEF SystemInv
<1>3. CASE PreInstall
  <2>1. env' = Uncommitted /\ pc'["inst"] = "prebak" /\ home' = home
    BY <1>3, <1>w DEF PreInstall
  <2>2. env'.ok = env.ok /\ env'.com = [env.com EXCEPT ![Target] = FALSE]
    BY <1>t, <2>1 DEF Uncommitted, Env
  <2> QED BY <1>3, <1>i, <1>t, <2>1, <2>2 DEF PreInstall, Installing
<1>4. CASE RaucMarkBad \/ RaucActivates \/ StreamWrong
  <2>1. /\ home' = home /\ pc'["inst"] \in Installing
        /\ pc["inst"] \in Replacing /\ pc["inst"] \in Installing
        /\ env' \in {[env EXCEPT !.ok[Target] = FALSE, !.try[Target] = 0],
                     [env EXCEPT !.order = Target, !.ok[Target] = TRUE, !.try[Target] = 0],
                     [env EXCEPT !.order = boot.slot, !.ok[Target] = FALSE,
                                 !.try[Target] = 0]}
    BY <1>4, <1>w DEF RaucMarkBad, RaucActivates, StreamWrong, hist, Replacing, Installing
  <2>2. env'.com = env.com /\ env'.ok[boot.slot] = env.ok[boot.slot]
    <3>1. CASE env' = [env EXCEPT !.ok[Target] = FALSE, !.try[Target] = 0]
      BY <1>t, <3>1 DEF Env
    <3>2. CASE env' = [env EXCEPT !.order = Target, !.ok[Target] = TRUE, !.try[Target] = 0]
      BY <1>t, <3>2 DEF Env
    <3>3. CASE env' = [env EXCEPT !.order = boot.slot, !.ok[Target] = FALSE, !.try[Target] = 0]
      BY <1>t, <3>3 DEF Env
    <3> QED BY <2>1, <3>1, <3>2, <3>3
  <2>3. env.com[Target] = FALSE
    BY <1>c, <1>t, <2>1 DEF SystemInv, OperationInv
  <2> QED BY <1>i, <2>1, <2>2, <2>3
<1>5. CASE Rollback
  <2> DEFINE new == [env EXCEPT !.order = Target, !.ok[Target] = TRUE, !.try[Target] = 0]
  <2>1. /\ env' = new /\ pc'["inst"] = "rollbak" /\ pc["inst"] = "rollback"
        /\ home' = IF env.com[Target] THEN Target ELSE home
    BY <1>5, <1>w DEF Rollback
  <2>2. /\ env'.order = Target /\ env'.com = env.com
        /\ env'.ok = [env.ok EXCEPT ![Target] = TRUE]
        /\ env'.try = [env.try EXCEPT ![Target] = 0]
    BY <1>t, <2>1 DEF Env
  <2>3. /\ env'.ok[boot.slot] = env.ok[boot.slot] /\ env'.ok[Target] /\ env'.try[Target] = 0
        /\ env.ok[Target] /\ (home = boot.slot \/ ~Serves(boot.slot)) /\ ~Stays'
    <3>1. Stays /\ env.ok[Target]
      BY <1>c, <2>1 DEF Stays, SystemInv, OperationInv
    <3>2. ~Stays' /\ (home = boot.slot \/ ~Serves(boot.slot))
      BY <1>g, <2>1, <3>1 DEF AtHome, Stays
    <3> QED BY <1>t, <2>2, <3>1, <3>2
  <2>4. HomeFirst'
    BY <1>g, <1>o, <1>t, <1>u, <2>1, <2>2, <2>3 DEF HomeFirst, Serves
  <2>5. AtHome' /\ OperationInv' /\ (\E s \in Slots : env'.com[s])
    BY <1>c, <1>g, <1>u, <2>1, <2>2, <2>3 DEF AtHome, OperationInv, Replacing, HomeInv
  <2>6. CASE boot.trial
    <3>1. OnTrialInv'
      BY <1>c, <1>g, <1>u, <2>2, <2>3, <2>6 DEF OnTrialInv, SystemInv
    <3> QED BY <1>c, <1>g, <1>s, <1>u, <2>4, <2>5, <2>6, <3>1 DEF HomeInv, SystemInv
  <2>7. CASE ~boot.trial
    <3>1. IF boot.last THEN LastInv' ELSE CommittedInv'
      BY <1>c, <1>g, <1>u, <2>1, <2>2, <2>3, <2>7
      DEF LastInv, CommittedInv, SystemInv, Serves
    <3> QED BY <1>c, <1>g, <1>s, <1>u, <2>2, <2>4, <2>5, <2>7, <3>1 DEF HomeInv, SystemInv
  <2> QED BY <1>t, <2>6, <2>7
<1> QED
  BY <1>1, <1>2, <1>3, <1>4, <1>5 DEF InstallNext

\* GRUB boots nothing but home, a trial or a last resort, before two boots in a
\* row are lost: home comes first, and has an attempt left.
LEMMA GrubHome ==
  ASSUME TypeOK, Calm', ChosenOK, HomeInv, Intact, VerdictInv, PassInv,
         \A s \in Slots : proven[s] => good[s], GrubNext
  PROVE  /\ HomeInv'
         /\ phase' = "up" /\ lost < 2 => boot'.trial \/ boot'.last \/ boot'.slot = home
<1>t. /\ env \in Env /\ env.order \in Slots /\ env.ok \in [Slots -> BOOLEAN]
      /\ env.com \in [Slots -> BOOLEAN] /\ env.try \in [Slots -> 0..2]
      /\ home \in Slots /\ lost \in 0..4 /\ Other(home) \in Slots \ {home}
      /\ \A s \in Slots : Other(s) \in Slots /\ Other(s) # s /\ Other(Other(s)) = s
      /\ \A s, u \in Slots : u = s \/ u = Other(s)
  BY EnvFields, RunningTypes DEF TypeOK, EspOK, HistOK, Other, Slots
<1>g. /\ grub \in GrubVars /\ grub.mem \in Env /\ grub.i \in 1..3
      /\ grub.mem.order \in Slots /\ grub.mem.try \in [Slots -> 0..2]
      /\ grub.mem.ok \in [Slots -> BOOLEAN] /\ grub.mem.com \in [Slots -> BOOLEAN]
      /\ \A e \in Env : SlotAt(e, 1) = e.order /\ SlotAt(e, 2) = Other(e.order)
      /\ NoSlot \notin Slots
  BY GrubFields
<1>c. phase # "up" /\ Valid /\ Calm /\ ~Fault /\ HomeFirst /\ (\E s \in Slots : env.com[s])
  BY GrubShape, CalmWrites DEF HomeInv, Calm, Valid
<1>f. pc = Fresh /\ pc' = Fresh /\ mark = {} /\ ~Guarded /\ ~Guarded'
  BY <1>c, GrubShape DEF VerdictInv, Fresh, Guarded, Procs
\* GRUB's memory is grubenv.
<1>m. phase \in GrubPhases =>
        /\ grub.envok /\ grub.skip = NoSlot /\ grub.failed = NoSlot
        /\ grub.mem.order = env.order /\ grub.mem.com = env.com
        /\ phase = "pick" =>
             /\ grub.mem.try = env.try
             /\ grub.i < 3 => grub.mem.ok[SlotAt(env, grub.i)] = env.ok[SlotAt(env, grub.i)]
             /\ \A i \in {1, 2} : i < grub.i => ~env.ok[SlotAt(env, i)]
        /\ phase \in {"count", "load"} =>
             env.ok[grub.chosen] /\ grub.mem.ok[grub.chosen] /\ Foremost(grub.chosen)
        /\ phase = "none" => \A s \in Slots : ~env.ok[s]
  BY <1>c, <1>g DEF HomeInv, ScanInv, PassInv, ChosenOK

\* This boot does not come up.
<1>r. ASSUME phase' = "off", env' = env, home' = home, lost' = IF lost < 4 THEN lost + 1 ELSE 4
      PROVE  HomeInv'
  BY <1>c, <1>r, <1>t DEF HomeInv, HomeFirst, Serves, Underway, ScanInv, GrubPhases
\* It has not come to a boot yet.
<1>p. ASSUME phase' \in {"pick", "count", "none", "recovery"}, phase \in {"off", "pick"},
             env' = env, home' = home, lost' = lost, ScanInv'
      PROVE  HomeInv'
  BY <1>c, <1>p DEF HomeInv, HomeFirst, Serves, Underway
<1>1. CASE GrubStart \/ NvidiaTrips
  <2>1. /\ phase' \in {"pick", "recovery"} /\ phase = "off"
        /\ env' = env /\ home' = home /\ lost' = lost
    BY <1>1 DEF GrubStart, NvidiaTrips, esp, hist
  <2>2. phase' = "pick" => grub'.envok /\ grub'.i = 1
    BY <1>1, <1>c DEF GrubStart, NvidiaTrips
  <2> QED BY <1>p, <2>1, <2>2 DEF ScanInv, GrubPhases
<1>2. CASE PickPass
  <2>1. /\ phase = "pick" /\ phase' = "pick" /\ grub.i \in {1, 2} /\ grub'.i = grub.i + 1
        /\ env' = env /\ home' = home /\ lost' = lost /\ grub'.envok = grub.envok
    BY <1>2, <1>g DEF PickPass, Scanning, esp, hist, GrubVars
  <2>2. ~env.ok[SlotAt(env, grub.i)]
    <3>1. SlotAt(grub.mem, grub.i) = SlotAt(env, grub.i) /\ SlotAt(env, grub.i) \in Slots
      BY <1>m, <1>t, <2>1 DEF SlotAt, GrubPhases
    <3> QED BY <1>2, <1>m, <1>g, <2>1, <3>1 DEF PickPass, GrubPhases
  <2>3. ScanInv'
    BY <1>m, <2>1, <2>2 DEF ScanInv, GrubPhases, SlotAt
  <2> QED BY <1>p, <2>1, <2>3
<1>3. CASE PickExhausted
  <2>s. PICK s \in Slots : s = SlotAt(grub.mem, grub.i) /\ s = SlotAt(env, grub.i)
    BY <1>3, <1>m, <1>t DEF PickExhausted, Scanning, SlotAt, GrubPhases
  <2>1. /\ phase = "pick" /\ phase' = "pick" /\ grub.i \in {1, 2} /\ grub'.i = grub.i + 1
        /\ home' = home /\ lost' = lost /\ grub'.envok = grub.envok
        /\ env' = [env EXCEPT !.ok[s] = FALSE]
        /\ env.try[s] >= Limit(env, s)
    <3>1. phase = "pick" /\ grub.i \in {1, 2} /\ grub.envok /\ ~NotSaved
      BY <1>3, <1>c, <1>g, <1>m DEF PickExhausted, Scanning, NotSaved, GrubPhases
    <3>2. grub' = [grub EXCEPT !.i = grub.i + 1, !.mem.ok[s] = FALSE]
      BY <1>3, <2>s DEF PickExhausted
    <3>3. env.try[s] >= Limit(env, s)
      BY <1>3, <1>m, <2>s, <3>1 DEF PickExhausted, Limit, GrubPhases
    <3>4. env' = [env EXCEPT !.ok[s] = FALSE]
      BY <1>3, <2>s, <3>1 DEF PickExhausted, Saved
    <3> QED BY <1>3, <1>g, <3>1, <3>2, <3>3, <3>4 DEF PickExhausted, hist, GrubVars
  <2>2. /\ env'.order = env.order /\ env'.com = env.com /\ env'.try = env.try
        /\ env'.ok = [env.ok EXCEPT ![s] = FALSE]
    BY <1>t, <2>1 DEF Env
  <2>3. ~env'.ok[s] /\ \A u \in Slots : env'.ok[u] => env.ok[u]
    BY <1>t, <2>2
  <2>4. HomeFirst'
    <3>1. SUFFICES ASSUME Serves(Other(home))'
                   PROVE  env.com[home] /\ lost >= 2
      BY <1>t, <2>1, <2>2 DEF HomeFirst
    <3>2. Serves(Other(home)) /\ s = home
      BY <1>t, <2>1, <2>2, <2>3, <3>1 DEF Serves
    <3>3. Limit(env, home) = 2 /\ Underway = 0 /\ env.try[home] \in Nat
      BY <1>c, <1>t, <2>1, <3>2 DEF Limit, Underway, HomeFirst
    <3> QED BY <1>c, <1>t, <2>1, <3>2, <3>3 DEF HomeFirst
  <2>5. ScanInv'
    <3>1. \A i \in {1, 2} : i < grub'.i => ~env'.ok[SlotAt(env', i)]
      <4>1. \A i \in {1, 2} : SlotAt(env', i) = SlotAt(env, i) /\ SlotAt(env, i) \in Slots
        BY <1>t, <2>2 DEF SlotAt
      <4> QED BY <1>m, <2>1, <2>3, <2>s, <4>1 DEF GrubPhases
    <3> QED BY <1>m, <2>1, <3>1 DEF ScanInv, GrubPhases
  <2> QED BY <1>c, <2>1, <2>2, <2>4, <2>5 DEF HomeInv
<1>4. CASE PickChoose
  <2>s. PICK s \in Slots : s = SlotAt(grub.mem, grub.i) /\ s = SlotAt(env, grub.i)
    BY <1>4, <1>m, <1>t DEF PickChoose, Scanning, SlotAt, GrubPhases
  <2>1. /\ phase = "pick" /\ phase' = "count" /\ grub.i \in {1, 2}
        /\ env' = env /\ home' = home /\ lost' = lost
        /\ grub' = [grub EXCEPT !.chosen = s, !.mem.try[s] = IF @ = 0 THEN 1 ELSE 2]
    BY <1>4, <1>g, <2>s DEF PickChoose, Scanning, esp, hist
  <2>2. /\ grub'.envok = grub.envok /\ grub'.chosen = s
        /\ grub'.mem.try[s] = IF grub.mem.try[s] = 0 THEN 1 ELSE 2
    BY <1>g, <2>1 DEF GrubVars, Env
  <2>3. Foremost(s)
    BY <1>m, <1>t, <2>1, <2>s DEF Foremost, SlotAt, GrubPhases
  <2>4. grub'.mem.try[s] <= env.try[s] + 1
    <3>1. env.try[s] \in 0..2 /\ grub.mem.try[s] = env.try[s]
      BY <1>m, <1>t, <2>1 DEF GrubPhases
    <3> QED BY <2>2, <3>1
  <2>5. ScanInv'
    BY <1>m, <2>1, <2>2, <2>3, <2>4 DEF ScanInv, GrubPhases, Foremost
  <2> QED BY <1>p, <2>1, <2>5
<1>5. CASE PickNone
  <2>1. /\ phase = "pick" /\ phase' = "none" /\ grub.i = 3 /\ grub'.envok = grub.envok
        /\ env' = env /\ home' = home /\ lost' = lost
    BY <1>5, <1>g DEF PickNone, esp, hist, GrubVars
  <2>2. \A s \in Slots : ~env.ok[s]
    BY <1>m, <1>t, <2>1 DEF SlotAt, GrubPhases
  <2> QED BY <1>m, <1>p, <2>1, <2>2 DEF ScanInv, GrubPhases
<1>6. CASE GrubCount
  <2>1. /\ phase = "count" /\ phase' = "load" /\ grub' = grub
        /\ env' = [env EXCEPT !.try = grub.mem.try] /\ home' = home /\ lost' = lost
    BY <1>6, <1>c, <1>m DEF GrubCount, Saved, NotSaved, hist, GrubPhases
  <2>2. /\ env'.order = env.order /\ env'.com = env.com /\ env'.ok = env.ok
        /\ env'.try = grub.mem.try
    BY <1>t, <2>1 DEF Env
  <2>3. grub.mem.try[home] <= env.try[home] + 1
    <3>1. CASE home = grub.chosen
      BY <2>1, <3>1 DEF HomeInv, ScanInv, GrubPhases
    <3>2. CASE home # grub.chosen
      BY <1>c, <1>m, <1>t, <2>1, <3>2 DEF PassInv, GrubPhases
    <3> QED BY <3>1, <3>2
  <2>4. HomeFirst'
    <3>1. env.try[home] \in 0..2 /\ grub.mem.try[home] \in 0..2
      BY <1>g, <1>t
    <3> QED BY <1>c, <1>t, <2>1, <2>2, <2>3, <3>1 DEF HomeFirst, Serves, Underway
  <2>5. ScanInv'
    BY <1>m, <2>1, <2>2 DEF ScanInv, GrubPhases, Foremost
  <2> QED BY <1>c, <2>1, <2>2, <2>4, <2>5 DEF HomeInv
<1>7. CASE GrubBoot
  <2> DEFINE c == grub.chosen
  <2>1. /\ phase = "load" /\ phase' = "up" /\ env' = env /\ home' = home /\ lost' = lost
        /\ boot' = [slot |-> c, trial |-> ~env.com[c], last |-> FALSE,
                    hand |-> FALSE, stay |-> grub.mem.stay]
        /\ c \in Slots /\ env.ok[c] /\ Foremost(c)
    BY <1>7, <1>m DEF GrubBoot, Started, ChosenOK, GrubPhases, esp
  <2>2. /\ boot'.slot = c /\ boot'.trial = ~env.com[c] /\ boot'.last = FALSE
        /\ boot'.hand = FALSE /\ Target' = Other(c)
    BY <2>1 DEF Target
  <2>3. HomeFirst'
    BY <1>c, <1>f, <2>1 DEF HomeFirst, Serves, Underway
  <2>4. SystemInv'
    BY <1>f, <2>1, <2>2 DEF SystemInv, OnTrialInv, CommittedInv, OperationInv, Foremost, Fresh,
                            Procs, Replacing
  <2>5. lost < 2 => boot'.trial \/ boot'.slot = home
    <3>1. ASSUME env.com[c], lost < 2, c # home PROVE FALSE
      <4>1. c = Other(home) /\ Other(c) = home
        BY <1>t, <2>1, <3>1
      <4> QED BY <1>c, <1>t, <2>1, <3>1, <4>1 DEF HomeFirst, Serves, Foremost
    <3> QED BY <2>2, <3>1
  <2> QED BY <1>c, <2>1, <2>3, <2>4, <2>5 DEF HomeInv, ScanInv, GrubPhases
<1>8. CASE LoadFailed
  <2>1. /\ phase = "load" /\ phase' = "off" /\ grub.chosen \in Slots /\ ~good[grub.chosen]
        /\ env' = [env EXCEPT !.ok = [grub.mem.ok EXCEPT ![grub.chosen] = FALSE]]
        /\ home' = home /\ lost' = IF lost < 4 THEN lost + 1 ELSE 4
    BY <1>8, <1>c DEF LoadFailed, NoneLoads, ChosenOK, WarmReset
  <2>2. /\ env'.order = env.order /\ env'.com = env.com
        /\ env'.ok = [grub.mem.ok EXCEPT ![grub.chosen] = FALSE]
    BY <1>t, <2>1 DEF Env
  <2>3. ~env.com[grub.chosen]
    BY <2>1 DEF Intact, Sound, CommittedIsProven, Valid
  <2>4. \A s \in Slots : grub.mem.ok[s] => env.ok[s]
    BY <1>c, <1>m, <2>1 DEF PassInv, GrubPhases
  <2>5. ~Serves(Other(home))'
    <3>1. SUFFICES ASSUME Serves(Other(home))' PROVE FALSE
      OBVIOUS
    <3>2. home = grub.chosen /\ Serves(Other(home))
      BY <1>g, <1>t, <2>1, <2>2, <2>4, <3>1 DEF Serves
    <3> QED BY <1>c, <2>3, <3>2 DEF HomeFirst
  <2> QED BY <1>c, <2>1, <2>2, <2>5 DEF HomeInv, HomeFirst, ScanInv, GrubPhases
<1>9. ~(HandOver \/ HandOverFailed)
  BY <1>c, <1>m DEF HandOver, HandOverFailed, GrubPhases, ChosenOK
<1>10. CASE LastResort
  <2>s. PICK s \in Slots : /\ NoneLoads({u \in Candidates : Before(u, s)})
                           /\ Started(s, FALSE, TRUE)
    BY <1>10 DEF LastResort, Candidates
  <2>1. /\ phase = "none" /\ phase' = "up" /\ env' = env /\ home' = home /\ lost' = lost
        /\ boot'.slot = s /\ ~boot'.trial /\ boot'.last /\ ~boot'.hand /\ Target' = Other(s)
        /\ \A u \in Slots : ~env.ok[u]
    BY <1>10, <1>m, <2>s DEF LastResort, Started, esp, Target, GrubPhases
  <2>2. env.com[s]
    <3>1. SUFFICES ASSUME ~env.com[s] PROVE FALSE
      OBVIOUS
    <3>2. PICK u \in Slots : env.com[u]
      BY <1>c
    <3>3. good[u]
      BY <3>2 DEF Intact, Sound, CommittedIsProven, Valid
    <3>4. u \in Candidates /\ Before(u, s)
      BY <1>g, <1>m, <2>1, <3>1, <3>2 DEF Candidates, Before, GrubPhases
    <3> QED BY <1>c, <2>s, <3>3, <3>4 DEF NoneLoads
  <2>3. HomeFirst'
    BY <1>t, <2>1 DEF HomeFirst, Serves
  <2>4. SystemInv'
    BY <1>f, <1>t, <2>1, <2>2 DEF SystemInv, LastInv, OperationInv, Serves, Fresh, Procs, Replacing
  <2> QED BY <1>c, <2>1, <2>3, <2>4 DEF HomeInv, ScanInv, GrubPhases
<1>11. CASE NothingLoads
  BY <1>11, <1>r DEF NothingLoads, WarmReset, esp
<1>12. phase' = "up" => GrubBoot \/ LastResort
  BY DEF GrubNext, GrubStart, PickPass, PickExhausted, PickChoose, PickNone, GrubCount,
         LoadFailed, HandOver, HandOverFailed, NothingLoads, NvidiaTrips, Scanning, WarmReset
<1>13. CASE ~(GrubBoot \/ LastResort)
  BY <1>1, <1>2, <1>3, <1>4, <1>5, <1>6, <1>8, <1>9, <1>11, <1>12, <1>13 DEF GrubNext
<1> QED
  BY <1>7, <1>10, <1>13

\* The end of a boot costs it its attempt only if it counts it as lost.
LEMMA BoardHome ==
  ASSUME TypeOK, Calm', HomeInv, VerdictInv, BoardNext
  PROVE  HomeInv'
<1>t. lost \in 0..4 /\ home \in Slots /\ env.try \in [Slots -> 0..2]
  BY EnvFields DEF TypeOK, HistOK
<1>c. Calm /\ HomeFirst /\ (\E s \in Slots : env.com[s]) /\ (phase = "up" => SystemInv)
  BY DEF HomeInv
<1>1. CASE PowerCut \/ Crash \/ Halt
  <2>1. /\ phase' = "off" /\ env' = env /\ home' = home
        /\ lost' = IF (phase = "up" /\ Guarded) \/ lost = 4 THEN lost ELSE lost + 1
    BY <1>1 DEF PowerCut, Crash, Halt, Down, Guarded, esp
  <2>2. HomeFirst'
    <3>1. env.try[home] \in 0..2
      BY <1>t
    <3> QED BY <1>c, <1>t, <2>1, <3>1 DEF HomeFirst, Serves, Underway
  <2> QED BY <1>c, <2>1, <2>2 DEF HomeInv, ScanInv, GrubPhases
<1>2. CASE NvVerify \/ UserReboot
  <2>1. CASE phase = "up"
    <3>1. /\ phase' = "up" /\ env' = env /\ pc' = pc /\ UNCHANGED <<boot, home, lost>>
          /\ stopping => stopping'
      BY <1>2, <2>1 DEF NvVerify, UserReboot, GuardDone, esp, hist, run
    <3>2. Guarded' = Guarded /\ (Stays' => Stays) /\ (OperationInv => OperationInv')
      BY <3>1 DEF Guarded, Stays, OperationInv, Target
    <3>3. /\ pc["gate"] \in {"fail", "failwrite", "failbak"} \/ pc["dl"] \notin {"armed", "done"}
               => boot.trial
          /\ OperationInv'
      BY <1>c, <2>1, <3>2 DEF SystemInv
    <3> QED BY <2>1, <3>1, <3>2, <3>3, QuietHome
  <2> QED BY <1>2, <2>1 DEF NvVerify, UserReboot, GuardDone
<1>3. CASE Reflash
  BY <1>3 DEF Reflash, Flashed, HomeInv, HomeFirst, Serves, Other, Slots, ScanInv, GrubPhases
<1>4. ~((\E f \in {"env", "bak"} : Tear(f)) \/ (\E s \in Slots : Corrupt(s)))
  BY <1>c DEF Tear, Corrupt, Calm
<1> QED
  BY <1>1, <1>2, <1>3, <1>4 DEF BoardNext

LEMMA HomeInvariant ==
  ASSUME MaxFaults = 0, MaxDamage = 0
  PROVE  Spec => []HomeInv
<1>1. Init => HomeInv
  <2>1. Flashed.com["A"] /\ ~Flashed.ok[Other("A")] /\ "A" \in Slots
    BY DEF Flashed, Other, Slots
  <2> QED BY <2>1 DEF Init, HomeInv, Calm, HomeFirst, Serves, ScanInv, GrubPhases
<1>2. /\ TypeOK /\ TypeOK' /\ ChosenOK /\ ProvenInv /\ ProvenInv' /\ VerdictInv /\ ProvenWorks
      /\ PassInv /\ RunInv /\ HomeInv /\ [Next]_vars
      => HomeInv'
  <2> SUFFICES ASSUME TypeOK, TypeOK', ChosenOK, ProvenInv, ProvenInv', VerdictInv, ProvenWorks,
                      PassInv, RunInv, HomeInv, [Next]_vars
               PROVE  HomeInv'
    OBVIOUS
  <2>1. Intact /\ Calm'
    <3>1. Intact /\ Intact'
      BY DEF TypeOK, BudgetOK, ProvenInv
    <3> QED BY <3>1, CalmStays DEF HomeInv
  <2>2. CASE UNCHANGED vars
    <3>1. UNCHANGED <<env, phase, grub, boot, pc, home, lost, stopping>>
      BY <2>2 DEF vars, esp, run, hist
    <3> QED BY <2>1, <3>1
            DEF HomeInv, HomeFirst, Serves, Underway, Guarded, ScanInv, SlotAt, Foremost, SystemInv,
                OnTrialInv, LastInv, CommittedInv, AtHome, OperationInv, Stays, Target
  <2> QED
    BY <2>1, <2>2, GuardHome, CommitHome, InstallHome, GrubHome, BoardHome DEF Next, ProvenWorks
<1> QED
  BY <1>1, <1>2, TypesHold, ProvenInvariant, VerdictInvariant, TrialInvariant, WorksWithoutLoss,
     PTL DEF Spec

\* As long as nothing fails and nothing is lost, wherever the power goes, whatever
\* operators ask for and however bad the releases are: GRUB boots another slot than
\* the one the board belongs in, outside of a trial and the last resort, only after
\* two boots in a row that ended before the guard.
THEOREM HomeIsKept ==
  ASSUME MaxFaults = 0, MaxDamage = 0
  PROVE  Spec => StaysHome
<1>1. /\ TypeOK /\ TypeOK' /\ ChosenOK /\ ProvenInv /\ ProvenInv' /\ VerdictInv /\ ProvenWorks
      /\ PassInv /\ HomeInv /\ [Next]_vars
      => [phase # "up" /\ phase' = "up" /\ good[home] /\ lost < 2
            => boot'.trial \/ boot'.last \/ boot'.slot = home]_vars
  <2> SUFFICES ASSUME TypeOK, TypeOK', ChosenOK, ProvenInv, ProvenInv', VerdictInv, ProvenWorks,
                      PassInv, HomeInv, Next, phase # "up", phase' = "up", lost < 2
               PROVE  boot'.trial \/ boot'.last \/ boot'.slot = home
    BY DEF vars
  <2>1. Intact /\ Calm'
    <3>1. Intact /\ Intact'
      BY DEF TypeOK, BudgetOK, ProvenInv
    <3> QED BY <3>1, CalmStays DEF HomeInv
  <2>2. GrubNext
    BY UpSteps, BoardSteps DEF Next
  <2> QED BY <2>1, <2>2, GrubHome DEF ProvenWorks
<1> QED
  BY <1>1, HomeInvariant, TypesHold, ProvenInvariant, VerdictInvariant, TrialInvariant,
     WorksWithoutLoss, PTL DEF Spec, StaysHome

-----------------------------------------------------------------------------
(***************************************************************************)
(* Recovery.                                                               *)
(***************************************************************************)
\* How many boots in a row have died on the way to the guard, as far as both
\* the board and NVIDIA's count know.
Dead == IF warm < lost THEN warm ELSE lost

\* How many faults there have been.
Used == MaxFaults - faults

\* Slot s could be booted instead of the other.
Spare(s) == Valid /\ good[s] /\ env.ok[s]

\* The attempts slot s has used up: all of them, once it is marked bad.
Attempts(s) == IF env.ok[s] THEN env.try[s] ELSE 2

\* While s is spare, each of the dead boots was an attempt of the other slot, or
\* took a fault ...
Owed(s) == Dead <= Attempts(Other(s)) + Used

\* ... and so is this boot, if it dies.
Paid(s) == Dead + 1 <= Attempts(Other(s)) + Used

\* The boot that is up: it is of s itself, which does not crash; or has been
\* through its guard; or is paid for - twice over, if its guard died.
Covered(s) ==
  \/ boot.slot = s
  \/ Guarded /\ lost = 0
  \/ Dead + 1 <= Used
  \/ ~Guarded /\ Paid(s)
  \/ Dead + 2 <= Attempts(Other(s)) + Used

SpareInv ==
  \A s \in Slots : Spare(s) =>
    /\ Owed(s)
    /\ phase \in GrubPhases /\ ~grub.envok => Paid(s)
    /\ phase = "pick" =>
         Paid(s) \/ \A i \in {1, 2} : i < grub.i => ~env.ok[SlotAt(env, i)]
    /\ phase = "load" => Paid(s) \/ grub.chosen = s
    /\ phase = "none" => Paid(s)
    /\ phase = "up" => Covered(s)

\* GRUB counts one attempt at a time, and a trial has but one.
AttemptInv ==
  /\ phase = "count" /\ grub.envok /\ Valid =>
       grub.mem.try[grub.chosen] = env.try[grub.chosen] + 1
  /\ phase = "load" /\ Valid /\ ~env.com[grub.chosen] => env.try[grub.chosen] <= 1
  /\ phase = "up" /\ boot.trial /\ Valid => env.try[boot.slot] <= 1

\* A deadline that ends a boot before its guard has failed the slot in grubenv,
\* or something else has failed.
Excused == Used >= 1 \/ ~Valid \/ ~env.ok[boot.slot]

DeadlineInv ==
  /\ pc["dl"] = "failnolock" => Used >= 1
  /\ phase = "up" /\ ~Guarded /\ (stopping \/ pc["dl"] = "failbak") => Excused

\* What runs once the guard is through.
AfterGuard ==
  /\ pc["inst"] # "idle" => warm = 0
  /\ pc["sd"] # "off" => pc["guard"] = "done"
  /\ phase = "up" /\ Guarded /\ lost > 0 => Used >= 1

RecoveryInv ==
  /\ SpareInv /\ AttemptInv /\ DeadlineInv /\ AfterGuard
  /\ phase = "recovery" => warm = 4
  /\ phase # "up" => ~stopping

-----------------------------------------------------------------------------
\* What is counted.
LEMMA Counts ==
  TypeOK => /\ Dead \in 0..4 /\ warm \in 0..4 /\ lost \in 0..4 /\ Used \in Nat
            /\ Dead <= warm /\ Dead <= lost
            /\ \A s \in Slots : Attempts(s) \in 0..2 /\ Other(s) \in Slots
  BY BudgetAssumption, EnvFields, SlotTypes
  DEF TypeOK, HistOK, BudgetOK, Dead, Used, Attempts

LEMMA CountsNext ==
  TypeOK' => /\ Dead' \in 0..4 /\ warm' \in 0..4 /\ lost' \in 0..4 /\ Used' \in Nat
             /\ Dead' <= warm' /\ Dead' <= lost'
             /\ \A s \in Slots : Attempts(s)' \in 0..2 /\ Other(s) \in Slots
<1>1. (TypeOK => /\ Dead \in 0..4 /\ warm \in 0..4 /\ lost \in 0..4 /\ Used \in Nat
                 /\ Dead <= warm /\ Dead <= lost
                 /\ \A s \in Slots : Attempts(s) \in 0..2 /\ Other(s) \in Slots)'
  BY Counts, PTL
<1> QED BY <1>1

\* A fault counts, and none is taken back.
LEMMA FaultCounts ==
  ASSUME TypeOK
  PROVE  (Fault => Used' = Used + 1) /\ (faults' = faults => Used' = Used)
  BY BudgetAssumption DEF TypeOK, BudgetOK, Fault, Used

LEMMA UsedGrows == TypeOK /\ TypeOK' /\ Next => Used' >= Used
<1> SUFFICES ASSUME TypeOK, TypeOK', Next PROVE Used' >= Used
  OBVIOUS
<1>1. faults' <= faults
  BY NoneReturned
<1>2. faults \in Nat /\ faults' \in Nat /\ MaxFaults \in Nat
  BY BudgetAssumption DEF TypeOK, BudgetOK
<1>3. \A m, f, g \in Nat : g <= f => m - g >= m - f
  OBVIOUS
<1> QED BY <1>1, <1>2, <1>3 DEF Used

\* A write that fails on a readable grubenv is a fault.
LEMMA ReplaceCounts ==
  ASSUME TypeOK, NEW new, NEW ok, Replace(new, ok)
  PROVE  /\ env' \in {env, new}
         /\ ok => Valid /\ env' = new
         /\ ~ok => ~Valid \/ Used' = Used + 1
  BY FaultCounts DEF Replace

\* What a step of the running system may do to the count: begin it anew behind the
\* guard; or lower no slot's attempts, and take a fault where the guard gives up;
\* or give the running trial its one attempt back.
Settles(s) ==
  \/ ~Spare(s)'
  \/ /\ Spare(s)
     /\ \/ Guarded' = Guarded /\ Attempts(Other(s))' >= Attempts(Other(s))
        \/ Used' = Used + 1 /\ Attempts(Other(s))' >= Attempts(Other(s))
        \/ Guarded /\ Guarded' /\ s # boot.slot /\ Attempts(Other(s)) <= 1

LEMMA RecoveryUp ==
  ASSUME TypeOK, TypeOK', RecoveryInv, phase = "up", phase' = "up", boot' = boot,
         Used' >= Used, Guarded \in BOOLEAN, Guarded' \in BOOLEAN,
         AttemptInv', DeadlineInv', AfterGuard',
         \/ lost' = 0 /\ Guarded'
         \/ lost' = lost /\ warm' = warm /\ \A s \in Slots : Settles(s)
  PROVE  RecoveryInv'
<1> SUFFICES ASSUME NEW s \in Slots, Spare(s)'
             PROVE  Owed(s)' /\ Covered(s)'
  BY DEF RecoveryInv, SpareInv, GrubPhases
<1> DEFINE d == Dead     e == Dead'
           u == Used     v == Used'
           a == Attempts(Other(s))    b == Attempts(Other(s))'
<1>t. /\ d \in 0..4 /\ e \in 0..4 /\ u \in Nat /\ v \in Nat /\ a \in 0..2 /\ b \in 0..2
      /\ e <= lost' /\ lost' \in 0..4
  BY Counts, CountsNext
<1>1. CASE lost' = 0 /\ Guarded'
  <2>1. e = 0
    BY <1>t, <1>1
  <2> QED BY <1>t, <1>1, <2>1 DEF Owed, Covered
<1>2. CASE lost' = lost /\ warm' = warm /\ \A r \in Slots : Settles(r)
  <2>1. e = d
    BY <1>2 DEF Dead
  <2>2. Settles(s) /\ v >= u
    BY <1>2
  <2>3. Spare(s) /\ Owed(s) /\ Covered(s)
    BY <2>2 DEF Settles, RecoveryInv, SpareInv
  <2>4. /\ d <= a + u
        /\ \/ boot.slot = s
           \/ Guarded /\ lost = 0
           \/ d + 1 <= u
           \/ ~Guarded /\ d + 1 <= a + u
           \/ d + 2 <= a + u
    BY <2>3 DEF Owed, Covered, Paid
  <2>5. \/ Guarded' = Guarded /\ b >= a
        \/ v = u + 1 /\ b >= a
        \/ Guarded /\ Guarded' /\ s # boot.slot /\ a <= 1
    BY <2>2 DEF Settles
  <2>6. lost = 0 => d = 0
    BY <1>t, <1>2, <2>1
  <2> SUFFICES /\ e <= b + v
               /\ \/ boot.slot = s
                  \/ Guarded' /\ lost' = 0
                  \/ e + 1 <= v
                  \/ ~Guarded' /\ e + 1 <= b + v
                  \/ e + 2 <= b + v
    BY DEF Owed, Covered, Paid
  <2> HIDE DEF d, e, u, v, a, b
  <2>7. CASE Guarded' = Guarded /\ b >= a
    BY <1>t, <1>2, <2>1, <2>2, <2>4, <2>7
  <2>8. CASE v = u + 1 /\ b >= a
    <3>1. e <= b + v
      BY <1>t, <2>1, <2>4, <2>8
    <3>2. CASE Guarded /\ lost = 0
      BY <1>t, <2>1, <2>6, <2>8, <3>2
    <3>3. CASE d + 1 <= u \/ d + 1 <= a + u \/ d + 2 <= a + u
      BY <1>t, <2>1, <2>8, <3>3
    <3> QED BY <2>4, <3>1, <3>2, <3>3
  <2>9. CASE Guarded /\ Guarded' /\ s # boot.slot /\ a <= 1
    <3>1. CASE lost = 0
      BY <1>t, <1>2, <2>1, <2>6, <2>9, <3>1
    <3>2. CASE d + 1 <= u
      BY <1>t, <2>1, <2>2, <3>2
    <3>3. CASE d + 2 <= a + u
      BY <1>t, <2>1, <2>2, <2>9, <3>3
    <3> QED BY <2>4, <2>9, <3>1, <3>2, <3>3
  <2> QED BY <2>5, <2>7, <2>8, <2>9
<1> QED
  BY <1>1, <1>2

\* The guard: nothing but its own death, a fault, lets the count go on behind it.
LEMMA GuardRecovery ==
  ASSUME TypeOK, TypeOK', LockInv, VerdictInv, RunInv, RecoveryInv, GuardNext
  PROVE  RecoveryInv'
<1>t. /\ env \in Env /\ env.ok \in [Slots -> BOOLEAN] /\ env.try \in [Slots -> 0..2]
      /\ boot.slot \in Slots /\ Target \in Slots /\ pc \in [Procs -> Steps]
      /\ boot.trial \in BOOLEAN
  BY EnvFields, RunningTypes DEF TypeOK, EspOK, PcOK
<1>u. /\ phase = "up" /\ phase' = "up" /\ boot' = boot /\ good' = good
      /\ pc["guard"] # "done" /\ warm' = warm /\ stopping' = stopping
      /\ \A p \in Procs \ {"guard"} : pc'[p] = pc[p]
  <2>1. /\ pc["guard"] # "done" /\ warm' = warm /\ stopping' = stopping
        /\ \E l : Goto("guard", l)
    BY DEF GuardNext, GuardLock, GuardDies, GuardReset, GuardResetBak, GuardHand,
           GuardBak, GuardRebuild, GuardRebuildFails, GuardRebuildBak, GuardEnds,
           Reached, hist, run
  <2> QED BY <2>1, UpSteps, GuardShape, GotoOther DEF Procs
<1>i. pc["inst"] = "idle" /\ pc["sd"] = "off"
  BY <1>u DEF RunInv, RecoveryInv, AfterGuard
<1>v. Used' >= Used /\ Used \in Nat /\ Used' \in Nat
  BY UsedGrows, Counts, CountsNext DEF Next
<1>a. ASSUME Valid' /\ boot.trial => (Valid /\ env'.try[boot.slot] = env.try[boot.slot])
                                     \/ env'.try[boot.slot] <= 1
      PROVE  AttemptInv'
  BY <1>a, <1>u DEF RecoveryInv, AttemptInv
<1>k. Guarded => Guarded'
  BY <1>t DEF GuardNext, GuardLock, GuardDies, GuardReset, GuardResetBak, GuardHand,
              GuardBak, GuardRebuild, GuardRebuildFails, GuardRebuildBak, GuardEnds, Goto,
              Guarded, Procs
<1>d. ASSUME Guarded' \/ (env' = env /\ (Valid' => Valid))
      PROVE  DeadlineInv'
  <2>1. pc'["dl"] = pc["dl"]
    BY <1>u DEF Procs
  <2>2. pc'["dl"] = "failnolock" => Used' >= 1
    BY <1>v, <2>1 DEF RecoveryInv, DeadlineInv
  <2>3. ASSUME ~Guarded', stopping' \/ pc'["dl"] = "failbak"
        PROVE  Excused'
    <3>1. ~Guarded /\ env' = env /\ (Valid' => Valid)
      BY <1>d, <1>k, <2>3
    <3>2. Excused
      BY <1>u, <2>1, <2>3, <3>1 DEF RecoveryInv, DeadlineInv
    <3> QED BY <1>u, <1>v, <3>1, <3>2 DEF Excused
  <2> QED BY <2>2, <2>3 DEF DeadlineInv
<1>g. ASSUME lost' = 0 \/ Used' >= 1 \/ (lost' = lost /\ (Guarded' => Guarded))
      PROVE  AfterGuard'
  <2>1. pc'["inst"] = "idle" /\ pc'["sd"] = "off"
    BY <1>i, <1>u DEF Procs
  <2>2. lost \in 0..4
    BY Counts
  <2>3. CASE lost' = lost /\ (Guarded' => Guarded) /\ Guarded' /\ lost > 0
    <3>1. Used >= 1
      BY <1>u, <2>3 DEF RecoveryInv, AfterGuard
    <3> QED BY <1>v, <2>1, <3>1 DEF AfterGuard
  <2> QED BY <1>g, <2>1, <2>2, <2>3 DEF AfterGuard
<1>b. Guarded \in BOOLEAN /\ Guarded' \in BOOLEAN
  BY DEF Guarded
\* Nothing is written about attempts.
<1>n. ASSUME env' = env \/ (~Valid /\ ~Valid'), torn' = torn \/ (Valid' = Valid),
             lost' = lost, Guarded' = Guarded
      PROVE  RecoveryInv'
  <2>1. Valid' = Valid
    BY <1>n DEF Valid
  <2>2. \A s \in Slots : Settles(s)
    <3> SUFFICES ASSUME NEW s \in Slots, Spare(s)' PROVE Settles(s)
      BY DEF Settles
    <3>1. env' = env /\ Spare(s)
      BY <1>n, <1>u, <2>1 DEF Spare
    <3>2. Attempts(Other(s))' = Attempts(Other(s)) /\ Attempts(Other(s)) \in 0..2
      BY <3>1, Counts DEF Attempts
    <3> QED BY <1>n, <3>1, <3>2 DEF Settles
  <2>3. AttemptInv' /\ DeadlineInv' /\ AfterGuard'
    <3>1. AttemptInv'
      BY <1>a, <1>n, <2>1
    <3>2. DeadlineInv'
      BY <1>n, <1>u, <1>v, <2>1 DEF Procs, RecoveryInv, DeadlineInv, Excused
    <3> QED BY <1>g, <1>n, <3>1, <3>2
  <2> QED BY <1>b, <1>n, <1>u, <1>v, <2>2, <2>3, RecoveryUp
<1>1. CASE GuardLock \/ GuardResetBak \/ GuardBak \/ GuardRebuildBak
  <2>1. env' = env /\ lost' = lost /\ Valid' = Valid
    BY <1>1, SyncBakValid
    DEF GuardLock, GuardResetBak, GuardBak, GuardRebuildBak, esp, hist, Valid
  <2>2. Guarded' = Guarded
    BY <1>1, <1>t DEF GuardLock, GuardResetBak, GuardBak, GuardRebuildBak, GuardEnds, Goto,
                      Guarded, Procs
  <2> QED BY <1>n, <2>1, <2>2
<1>2. CASE GuardDies \/ GuardRebuildFails
  <2>1. UNCHANGED <<env, torn, lost>> /\ Used' = Used + 1 /\ Guarded'
    <3>1. pc'["guard"] = "done"
      BY <1>2, <1>t DEF GuardDies, GuardRebuildFails, GuardEnds, Goto, Procs
    <3> QED BY <1>2, <3>1, FaultCounts DEF GuardDies, GuardRebuildFails, esp, hist, Guarded
  <2>2. AttemptInv' /\ DeadlineInv' /\ AfterGuard'
    BY <1>a, <1>d, <1>g, <1>v, <2>1 DEF Valid
  <2>3. \A s \in Slots : Settles(s)
    <3> SUFFICES ASSUME NEW s \in Slots, Spare(s)' PROVE Settles(s)
      BY DEF Settles
    <3>1. Attempts(Other(s))' = Attempts(Other(s)) /\ Attempts(Other(s)) \in 0..2 /\ Spare(s)
      BY <1>u, <2>1, Counts DEF Attempts, Spare, Valid
    <3>2. Used' = Used + 1 /\ Attempts(Other(s))' >= Attempts(Other(s))
      BY <2>1, <3>1
    <3> QED BY <3>1, <3>2 DEF Settles
  <2> QED BY <1>b, <1>u, <1>v, <2>1, <2>2, <2>3, RecoveryUp
<1>3. CASE GuardReset
  <2>1. lost' = 0 /\ Guarded' /\ torn' = torn
    <3>1. pc'["guard"] \in {"resetbak", "hand"}
      BY <1>3, <1>t DEF GuardReset, Goto, Procs
    <3> QED BY <1>3, <3>1 DEF GuardReset, Reached, Guarded
  <2>2. env'.try[boot.slot] = env.try[boot.slot] \/ env'.try[boot.slot] <= 1
    <3>1. env' \in {env, [env EXCEPT !.try[boot.slot] = 0]}
      BY <1>3, ReplaceKeeps DEF GuardReset
    <3>2. env'.try \in {env.try, [env.try EXCEPT ![boot.slot] = 0]}
      BY <1>t, <3>1 DEF Env
    <3> QED BY <1>t, <3>2
  <2>3. AttemptInv' /\ DeadlineInv' /\ AfterGuard'
    BY <1>a, <1>d, <1>g, <2>1, <2>2 DEF Valid
  <2> QED BY <1>b, <1>u, <1>v, <2>1, <2>3, RecoveryUp
<1>4. CASE GuardRebuild
  <2>1. lost' = 0 /\ Guarded'
    <3>1. pc'["guard"] = "rebuildbak"
      BY <1>4, <1>t DEF GuardRebuild, Goto, Procs
    <3> QED BY <1>4, <3>1 DEF GuardRebuild, Reached, Guarded
  <2>2. env'.try[boot.slot] <= 1
    <3>1. env'.try[boot.slot] = IF boot.trial THEN 1 ELSE 0
      BY <1>4, <1>t DEF GuardRebuild, Rebuilt
    <3> QED BY <3>1
  <2>3. AttemptInv' /\ DeadlineInv' /\ AfterGuard'
    BY <1>a, <1>d, <1>g, <2>1, <2>2
  <2> QED BY <1>b, <1>u, <1>v, <2>1, <2>3, RecoveryUp
<1>5. CASE GuardHand
  <2>1. torn' = torn /\ lost' = lost /\ Guarded /\ Guarded'
    <3>1. pc'["guard"] = "bak"
      BY <1>5, <1>t DEF GuardHand, Goto, Procs
    <3> QED BY <1>5, <3>1 DEF GuardHand, Guarded, hist
  <2>2. env' \in {env, [env EXCEPT !.ok[Target] = FALSE]}
    BY <1>5, ReplaceKeeps DEF GuardHand, Target
  <2>3. env'.try = env.try /\ env'.ok \in {env.ok, [env.ok EXCEPT ![Target] = FALSE]}
    BY <1>t, <2>2 DEF Env
  <2>4. AttemptInv' /\ DeadlineInv' /\ AfterGuard'
    BY <1>a, <1>d, <1>g, <2>1, <2>3 DEF Valid
  <2>5. \A s \in Slots : Settles(s)
    <3> SUFFICES ASSUME NEW s \in Slots, Spare(s)' PROVE Settles(s)
      BY DEF Settles
    <3>1. Spare(s)
      BY <1>t, <1>u, <2>1, <2>3 DEF Spare, Valid
    <3>2. Attempts(Other(s))' = Attempts(Other(s)) \/ Attempts(Other(s))' = 2
      BY <1>t, <2>3, Counts DEF Attempts
    <3>3. Attempts(Other(s)) \in 0..2
      BY Counts
    <3> QED BY <2>1, <3>1, <3>2, <3>3 DEF Settles
  <2> QED BY <1>b, <1>u, <1>v, <2>1, <2>4, <2>5, RecoveryUp
<1> QED
  BY <1>1, <1>2, <1>3, <1>4, <1>5 DEF GuardNext

\* What an operator starts finds NVIDIA's count at zero.
LEMMA InstallRecovery ==
  ASSUME TypeOK, TypeOK', VerdictInv, RunInv, RecoveryInv, InstallNext
  PROVE  RecoveryInv'
<1>u. /\ phase = "up" /\ phase' = "up" /\ (Valid' <=> Valid) /\ boot' = boot
      /\ env'.try[boot.slot] = env.try[boot.slot]
      /\ \A p \in Procs \ {"inst"} : pc'[p] = pc[p]
  BY UpSteps, InstallKeeps, GotoOther DEF Procs
<1>w. warm = 0 /\ warm' = warm /\ lost' = lost /\ pc["guard"] = "done"
  <2>1. warm' = warm /\ lost' = lost
    BY DEF InstallNext, InstallStarts, PreInstall, PreInstallBak, RaucMarkBad, RaucMarkBadBak,
           RaucWrites, RaucWritten, RaucAborts, RaucActivates, RaucActivatesBak, InstallDone,
           StreamWrong, StreamWrongBak, RollbackAsked, Rollback, RollbackBak, DebugHold,
           DebugHoldBak, InstallKilled, hist
  <2>2. CASE pc["inst"] # "idle"
    BY <2>1, <2>2 DEF RunInv, RecoveryInv, AfterGuard
  <2>3. CASE pc["inst"] = "idle"
    <3>1. \E op : Asked(op)
      BY <2>3
      DEF InstallNext, Inst, InstallStarts, PreInstall, PreInstallBak, RaucMarkBad,
          RaucMarkBadBak, RaucWrites, RaucWritten, RaucAborts, RaucActivates,
          RaucActivatesBak, InstallDone, StreamWrong, StreamWrongBak, RollbackAsked,
          Rollback, RollbackBak, DebugHold, DebugHoldBak, InstallKilled
    <3> QED BY <2>1, <3>1 DEF Asked
  <2> QED BY <2>2, <2>3
<1>g. Guarded' /\ Guarded /\ pc'["dl"] = pc["dl"] /\ pc'["sd"] = pc["sd"]
      /\ pc'["guard"] = pc["guard"]
  BY <1>u, <1>w DEF Guarded, Procs
<1>c. /\ Used' >= Used /\ Used \in Nat /\ Used' \in Nat /\ lost \in 0..4
      /\ Dead' = 0 /\ \A s \in Slots : Attempts(Other(s))' \in 0..2
  BY <1>w, Counts, CountsNext, UsedGrows DEF Next
<1>1. lost = 0 \/ Used' >= 1
  BY <1>c, <1>g, <1>u DEF RecoveryInv, AfterGuard
<1>2. SpareInv'
  <2> SUFFICES ASSUME NEW s \in Slots PROVE Owed(s)' /\ Covered(s)'
    BY <1>u DEF SpareInv, GrubPhases
  <2>1. Owed(s)'
    BY <1>c DEF Owed
  <2>2. lost' = 0 \/ Dead' + 1 <= Used'
    BY <1>1, <1>c, <1>w
  <2> QED BY <1>g, <2>1, <2>2 DEF Covered
<1>3. AttemptInv'
  BY <1>u DEF RecoveryInv, AttemptInv
<1>4. DeadlineInv'
  BY <1>c, <1>g DEF RecoveryInv, DeadlineInv
<1>5. AfterGuard'
  BY <1>1, <1>c, <1>g, <1>w DEF AfterGuard
<1> QED
  BY <1>2, <1>3, <1>4, <1>5, <1>u DEF RecoveryInv

\* boat-commit takes no attempts back unless the guard is through: from a trial
\* that has one, or with the count begun anew.
LEMMA CommitRecovery ==
  ASSUME TypeOK, TypeOK', VerdictInv, RunInv, RecoveryInv, CommitNext
  PROVE  RecoveryInv'
<1> USE DEF Gate
<1>t. /\ env \in Env /\ env.ok \in [Slots -> BOOLEAN] /\ env.try \in [Slots -> 0..2]
      /\ boot.slot \in Slots /\ boot.trial \in BOOLEAN /\ pc \in [Procs -> Steps]
      /\ \A s \in Slots : Other(s) \in Slots /\ (s # boot.slot => Other(s) = boot.slot)
      /\ Other(boot.slot) # boot.slot
  BY EnvFields, RunningTypes DEF TypeOK, EspOK, PcOK, Other, Slots
<1>u. /\ phase = "up" /\ phase' = "up" /\ boot' = boot /\ good' = good
      /\ pc'["inst"] = pc["inst"]
  BY UpSteps, CommitShape
<1>g. pc'["guard"] = pc["guard"] /\ Guarded' = Guarded /\ Guarded \in BOOLEAN
  <2>1. pc'["guard"] = pc["guard"]
    BY <1>t DEF CommitNext, GateStart, GateReset, GateResetBak, GateSettles, GateStayOff,
         GateStayBak, GatePasses, GateFails, GateCommit, GateCommitTimeout,
         GateCommitBak, GateFailMark, DeadlineFires, DeadlineDecides, FailWrite,
         FailNoLock, FailBak, Killed, InhibitStarts, ShutdownStarts, CommitFailed,
         ShutdownLeaves, ShutdownWrites, ShutdownBak, Goto, Procs
  <2> QED BY <2>1 DEF Guarded
\* Whoever is not the deadline runs behind the guard.
<1>b. pc["gate"] # "start" \/ pc["sd"] # "off" \/ pc["guard"] = "done" => Guarded
  BY DEF VerdictInv, RecoveryInv, AfterGuard, Guarded
<1>v. /\ Used' >= Used /\ Used \in Nat /\ Used' \in Nat /\ lost \in 0..4
      /\ \A s \in Slots : Attempts(s) \in 0..2 /\ Attempts(s)' \in 0..2
  BY UsedGrows, Counts, CountsNext DEF Next
<1>w. warm' = warm
  BY DEF CommitNext, GateStart, GateReset, GateResetBak, GateSettles, GateStayOff,
       GateStayBak, GatePasses, GateFails, GateCommit, GateCommitTimeout,
       GateCommitBak, GateFailMark, DeadlineFires, DeadlineDecides, FailWrite, Condemn,
       FailNoLock, FailBak, Killed, InhibitStarts, ShutdownStarts,
       ShutdownLeaves, ShutdownWrites, ShutdownBak, hist
<1>s. pc'["sd"] # "off" => pc'["guard"] = "done"
  <2>1. pc'["sd"] # "off" => pc["sd"] # "off" \/ InhibitStarts \/ GateCommitBak
    BY <1>t DEF CommitNext, GateStart, GateReset, GateResetBak, GateSettles, GateStayOff,
         GateStayBak, GatePasses, GateFails, GateCommit, GateCommitTimeout,
         GateFailMark, DeadlineFires, DeadlineDecides, FailWrite,
         FailNoLock, FailBak, Killed, ShutdownStarts, CommitFailed,
         ShutdownLeaves, ShutdownWrites, ShutdownBak, Goto, Procs
  <2>2. pc["sd"] # "off" \/ InhibitStarts \/ GateCommitBak => pc["guard"] = "done"
    BY DEF RecoveryInv, AfterGuard, InhibitStarts, GateCommitBak, VerdictInv
  <2> QED BY <1>g, <2>1, <2>2
<1>a. ASSUME lost' = lost \/ lost' = 0
      PROVE  AfterGuard'
  <2>1. pc'["inst"] # "idle" => warm' = 0
    BY <1>u, <1>w DEF RecoveryInv, AfterGuard
  <2>2. lost = 0 \/ ~Guarded \/ Used' >= 1
    BY <1>u, <1>v DEF RecoveryInv, AfterGuard
  <2> QED BY <1>a, <1>g, <1>s, <1>v, <2>1, <2>2 DEF AfterGuard
\* A step that leaves grubenv's attempts and marks alone.
<1>q. ASSUME env'.ok = env.ok, env'.try = env.try, Valid' = Valid, lost' = lost, DeadlineInv'
      PROVE  RecoveryInv'
  <2>1. AttemptInv'
    BY <1>q, <1>u DEF RecoveryInv, AttemptInv
  <2>2. \A s \in Slots : Settles(s)
    <3> SUFFICES ASSUME NEW s \in Slots, Spare(s)' PROVE Settles(s)
      BY DEF Settles
    <3>1. Attempts(Other(s))' = Attempts(Other(s)) /\ Attempts(Other(s)) \in 0..2 /\ Spare(s)
      BY <1>q, <1>t, <1>u, <1>v DEF Attempts, Spare
    <3>2. Guarded' = Guarded /\ Attempts(Other(s))' >= Attempts(Other(s))
      BY <1>g, <3>1
    <3> QED BY <3>1, <3>2 DEF Settles
  <2>3. AfterGuard'
    BY <1>a, <1>q
  <2> QED BY <1>g, <1>q, <1>u, <1>v, <1>w, <2>1, <2>2, <2>3, RecoveryUp
\* The running slot is marked bad.
<1>f. ASSUME env' = Bad(boot.slot), Valid' = Valid, lost' = lost, DeadlineInv'
      PROVE  RecoveryInv'
  <2>1. /\ env'.ok = [env.ok EXCEPT ![boot.slot] = FALSE]
        /\ env'.try = [env.try EXCEPT ![boot.slot] = 0]
    BY <1>f, <1>t DEF Bad, Env
  <2>2. AttemptInv'
    <3>1. env'.try[boot.slot] = 0
      BY <1>t, <2>1
    <3> QED BY <1>u, <3>1 DEF AttemptInv
  <2>3. \A s \in Slots : Settles(s)
    <3> SUFFICES ASSUME NEW s \in Slots, Spare(s)' PROVE Settles(s)
      BY DEF Settles
    <3>1. Spare(s) /\ s # boot.slot
      BY <1>f, <1>t, <1>u, <2>1 DEF Spare
    <3>2. Attempts(Other(s))' = 2
      BY <1>t, <2>1, <3>1 DEF Attempts
    <3>3. Guarded' = Guarded /\ Attempts(Other(s))' >= Attempts(Other(s))
      BY <1>g, <1>t, <1>v, <3>2
    <3> QED BY <3>1, <3>3 DEF Settles
  <2>4. AfterGuard'
    BY <1>a, <1>f
  <2> QED BY <1>f, <1>g, <1>u, <1>v, <1>w, <2>2, <2>3, <2>4, RecoveryUp
\* The running trial has its attempt back.
<1>r. ASSUME env'.ok[boot.slot], env.ok[boot.slot], boot.trial, Guarded, Valid, Valid',
             env'.try = [env.try EXCEPT ![boot.slot] = 0],
             env'.ok[Other(boot.slot)] = env.ok[Other(boot.slot)], lost' = lost, DeadlineInv'
      PROVE  RecoveryInv'
  <2>1. env.try[boot.slot] <= 1
    BY <1>r, <1>u DEF RecoveryInv, AttemptInv
  <2>2. AttemptInv'
    <3>1. env'.try[boot.slot] = 0
      BY <1>r, <1>t
    <3> QED BY <1>u, <3>1 DEF AttemptInv
  <2>3. \A s \in Slots : Settles(s)
    <3> SUFFICES ASSUME NEW s \in Slots, Spare(s)' PROVE Settles(s)
      BY DEF Settles
    <3>1. Spare(s)
      <4>1. Valid /\ good[s] /\ env'.ok[s]
        BY <1>r, <1>u DEF Spare
      <4>2. s # boot.slot => s = Other(boot.slot)
        BY <1>t DEF Other, Slots
      <4>3. env.ok[s]
        BY <1>r, <4>1, <4>2
      <4> QED BY <4>1, <4>3 DEF Spare
    <3>2. CASE s = boot.slot
      <4>1. Attempts(Other(s))' = Attempts(Other(s))
        BY <1>r, <1>t, <3>2 DEF Attempts
      <4>2. Guarded' = Guarded /\ Attempts(Other(s))' >= Attempts(Other(s))
        BY <1>g, <1>t, <1>v, <4>1
      <4> QED BY <3>1, <4>2 DEF Settles
    <3>3. CASE s # boot.slot
      <4>1. Attempts(Other(s)) <= 1
        BY <1>r, <1>t, <2>1, <3>3 DEF Attempts
      <4> QED BY <1>g, <1>r, <3>1, <3>3, <4>1 DEF Settles
    <3> QED BY <3>2, <3>3
  <2>4. AfterGuard'
    BY <1>a, <1>r
  <2> QED BY <1>g, <1>r, <1>u, <1>v, <1>w, <2>2, <2>3, <2>4, RecoveryUp
\* Behind the guard the deadline's own steps are all that matters about it.
<1>d. ASSUME Guarded, pc'["dl"] = pc["dl"] \/ pc'["dl"] # "failnolock"
      PROVE  DeadlineInv'
  BY <1>d, <1>g, <1>v DEF RecoveryInv, DeadlineInv
<1>1. CASE GateStart \/ GateResetBak \/ GateSettles \/ GateStayBak \/ GatePasses
             \/ GateFails \/ GateCommitTimeout \/ GateCommitBak \/ GateFailMark
             \/ InhibitStarts \/ ShutdownStarts \/ ShutdownLeaves \/ ShutdownBak
  <2>1. env' = env /\ lost' = lost
    BY <1>1
    DEF GateStart, GateResetBak, GateSettles, GateStayBak, GatePasses, GateFails,
        GateCommitTimeout, GateCommitBak, GateFailMark,
        InhibitStarts, ShutdownStarts, ShutdownLeaves, ShutdownBak, esp, hist
  <2>2. pc["gate"] # "start" \/ pc["sd"] # "off" \/ pc["guard"] = "done"
    BY <1>1
    DEF GateStart, GateResetBak, GateSettles, GateStayBak, GatePasses, GateFails,
        GateCommitTimeout, GateCommitBak, GateFailMark,
        InhibitStarts, ShutdownStarts, ShutdownLeaves, ShutdownBak
  <2>3. pc'["dl"] = pc["dl"] \/ pc'["dl"] # "failnolock"
    BY <1>1, <1>t
    DEF GateStart, GateResetBak, GateSettles, GateStayBak, GatePasses, GateFails,
        GateCommitTimeout, GateCommitBak, GateFailMark, CommitFailed, Goto, Procs,
        InhibitStarts, ShutdownStarts, ShutdownLeaves, ShutdownBak
  <2>4. Valid' = Valid
    BY <1>1, SyncBakValid
    DEF GateStart, GateResetBak, GateSettles, GateStayBak, GatePasses, GateFails,
        GateCommitTimeout, GateCommitBak, GateFailMark, Valid, esp,
        InhibitStarts, ShutdownStarts, ShutdownLeaves, ShutdownBak
  <2> QED BY <1>b, <1>d, <1>q, <2>1, <2>2, <2>3, <2>4
<1>2. CASE GateReset
  <2>1. Guarded /\ torn' = torn /\ pc'["dl"] = pc["dl"]
    BY <1>2, <1>b, <1>t DEF GateReset, Goto, Procs
  <2>2. \/ env' = env /\ lost' = lost
        \/ env' \in {env, [env EXCEPT !.ok[boot.slot] = TRUE, !.try[boot.slot] = 0]} /\ lost' = 0
    BY <1>2, ReplaceKeeps DEF GateReset
  <2>3. CASE env' = env /\ lost' = lost
    BY <1>d, <1>q, <2>1, <2>3 DEF Valid
  <2>4. CASE /\ env' \in {env, [env EXCEPT !.ok[boot.slot] = TRUE, !.try[boot.slot] = 0]}
             /\ lost' = 0
    <3>1. env'.try \in {env.try, [env.try EXCEPT ![boot.slot] = 0]}
      BY <1>t, <2>4 DEF Env
    <3>2. AttemptInv'
      <4>1. env'.try[boot.slot] \in {env.try[boot.slot], 0}
        BY <1>t, <3>1
      <4> QED BY <1>u, <2>1, <4>1 DEF RecoveryInv, AttemptInv, Valid
    <3>3. AfterGuard' /\ DeadlineInv'
      BY <1>a, <1>d, <2>1, <2>4
    <3> QED BY <1>g, <1>u, <1>v, <2>1, <2>4, <3>2, <3>3, RecoveryUp
  <2> QED BY <2>2, <2>3, <2>4
<1>3. CASE GateStayOff
  <2>1. /\ env' \in {env, [env EXCEPT !.stay = FALSE]} /\ lost' = lost /\ torn' = torn
        /\ Guarded /\ pc'["dl"] = pc["dl"]
    BY <1>3, <1>b, <1>t, ReplaceKeeps DEF GateStayOff, Goto, Procs, hist
  <2>2. env'.ok = env.ok /\ env'.try = env.try
    BY <1>t, <2>1 DEF Env
  <2> QED BY <1>d, <1>q, <2>1, <2>2 DEF Valid
<1>4. CASE GateCommit
  <2>1. /\ env' \in {env, Committed} /\ lost' = lost /\ torn' = torn
        /\ Guarded /\ pc'["dl"] = pc["dl"] /\ boot.trial
        /\ env' # env => Valid /\ env.ok[boot.slot]
    BY <1>4, <1>b, <1>t, ReplaceKeeps
    DEF GateCommit, StillUsable, CommitFailed, Goto, Procs, RunInv
  <2>2. CASE env' = env
    BY <1>d, <1>q, <2>1, <2>2 DEF Valid
  <2>3. CASE env' = Committed /\ env' # env
    <3>1. /\ env'.ok = [env.ok EXCEPT ![boot.slot] = TRUE]
          /\ env'.try = [env.try EXCEPT ![boot.slot] = 0]
      BY <1>t, <2>3 DEF Committed, Env
    <3>2. env'.ok[boot.slot] /\ env'.ok[Other(boot.slot)] = env.ok[Other(boot.slot)]
      BY <1>t, <3>1
    <3> QED BY <1>d, <1>r, <2>1, <2>3, <3>1, <3>2 DEF Valid
  <2> QED BY <2>1, <2>2, <2>3
<1>5. CASE DeadlineFires
  <2>1. /\ env' = env /\ torn' = torn /\ lost' = lost /\ ~stopping' /\ pc'["dl"] = "lock"
    BY <1>5, <1>t DEF DeadlineFires, Goto, Procs, esp, hist, run
  <2>2. DeadlineInv'
    BY <2>1 DEF DeadlineInv
  <2> QED BY <1>q, <2>1, <2>2 DEF Valid
<1>6. CASE DeadlineDecides
  <2>1. /\ env' = env /\ torn' = torn /\ lost' = lost /\ stopping' = stopping
        /\ pc'["dl"] \in {"done", "failwrite", "failnolock"}
        /\ pc'["dl"] = "failnolock" => Used' = Used + 1
    BY <1>6, <1>t, FaultCounts DEF DeadlineDecides, LockTimeout, Goto, Procs, esp, hist
  <2>2. DeadlineInv'
    BY <1>g, <1>u, <1>v, <2>1 DEF RecoveryInv, DeadlineInv, Excused, Valid
  <2> QED BY <1>q, <2>1, <2>2 DEF Valid
<1>7. ASSUME NEW p \in {"gate", "dl"}, FailWrite(p)
      PROVE  RecoveryInv'
  <2>1. /\ torn' = torn /\ lost' = lost /\ env' \in {env, Bad(boot.slot)}
        /\ pc'["dl"] = pc["dl"] \/ pc'["dl"] \in {"failbak", "done"}
        /\ p = "gate" => pc["gate"] # "start"
    BY <1>7, <1>t, ReplaceKeeps DEF FailWrite, Condemn, Goto, Procs
  <2>2. env' = Bad(boot.slot) \/ ~Valid \/ Used' = Used + 1
    BY <1>7, ReplaceCounts DEF FailWrite
  <2>3. Excused'
    <3>1. Bad(boot.slot).ok[boot.slot] = FALSE
      BY <1>t DEF Bad, Env
    <3> QED BY <1>u, <1>v, <2>1, <2>2, <3>1 DEF Excused, Valid
  <2>4. DeadlineInv'
    BY <1>v, <2>1, <2>3 DEF RecoveryInv, DeadlineInv
  <2> QED BY <1>f, <1>q, <2>1, <2>4 DEF Valid
<1>8. ASSUME NEW p \in {"gate", "dl"}, FailNoLock(p)
      PROVE  RecoveryInv'
  <2>1. /\ env' = env /\ torn' = torn /\ lost' = lost
        /\ pc'["dl"] = pc["dl"] \/ pc'["dl"] = "done"
        /\ \/ p = "dl" /\ pc["dl"] = "failnolock"
           \/ Used' = Used + 1
           \/ p = "gate" /\ pc["gate"] # "start"
    BY <1>8, <1>t, FaultCounts DEF FailNoLock, LockTimeout, Goto, Procs, esp, hist
  <2>2. DeadlineInv'
    <3>1. CASE (p = "dl" /\ pc["dl"] = "failnolock") \/ Used' = Used + 1
      BY <1>v, <2>1, <3>1 DEF RecoveryInv, DeadlineInv, Excused
    <3>2. CASE p = "gate" /\ pc["gate"] # "start"
      BY <1>b, <1>d, <2>1, <3>2
    <3> QED BY <2>1, <3>1, <3>2
  <2> QED BY <1>q, <2>1, <2>2 DEF Valid
<1>9. ASSUME NEW p \in {"gate", "dl"}, FailBak(p) \/ Killed(p)
      PROVE  RecoveryInv'
  <2>1. /\ env' = env /\ lost' = lost
        /\ pc'["dl"] = pc["dl"] \/ pc'["dl"] = "done"
        /\ p = "gate" => pc["gate"] # "start"
        /\ p = "dl" => pc["dl"] = "failbak" \/ stopping' = stopping
    BY <1>9, <1>t DEF FailBak, Killed, Goto, Procs, esp, hist, run
  <2>2. Valid' = Valid
    BY <1>9, SyncBakValid DEF FailBak, Killed, esp, Valid
  <2>3. DeadlineInv'
    <3>1. CASE p = "gate"
      BY <1>b, <1>d, <2>1, <3>1
    <3>2. CASE p = "dl"
      <4>1. ~Guarded /\ (stopping' \/ pc'["dl"] = "failbak") => Excused
        BY <1>u, <2>1, <3>2 DEF RecoveryInv, DeadlineInv
      <4> QED BY <1>g, <1>u, <1>v, <2>1, <2>2, <4>1 DEF RecoveryInv, DeadlineInv, Excused
    <3> QED BY <3>1, <3>2
  <2> QED BY <1>q, <2>1, <2>2, <2>3
<1>10. CASE ShutdownWrites
  <2>1. /\ torn' = torn /\ lost' = lost /\ Guarded /\ pc'["dl"] = pc["dl"] /\ boot.trial
        /\ Valid /\ env.ok[boot.slot]
        /\ env' \in {env, Bad(boot.slot),
                     [env EXCEPT !.try[boot.slot] = 0, !.retry = boot.slot]}
    BY <1>10, <1>b, <1>t, ReplaceKeeps
    DEF ShutdownWrites, Condemn, Undecided, hist, Goto, Procs, RunInv
  <2>2. CASE env' = [env EXCEPT !.try[boot.slot] = 0, !.retry = boot.slot]
    <3>1. env'.ok = env.ok /\ env'.try = [env.try EXCEPT ![boot.slot] = 0]
      BY <1>t, <2>2 DEF Env
    <3> QED BY <1>d, <1>r, <2>1, <3>1 DEF Valid
  <2>3. CASE env' = env
    BY <1>d, <1>q, <2>1, <2>3 DEF Valid
  <2>4. CASE env' = Bad(boot.slot)
    BY <1>d, <1>f, <2>1, <2>4 DEF Valid
  <2> QED BY <2>1, <2>2, <2>3, <2>4
<1> QED
  BY <1>1, <1>2, <1>3, <1>4, <1>5, <1>6, <1>7, <1>8, <1>9, <1>10 DEF CommitNext

\* GRUB counts the attempt it boots, unless something fails.
LEMMA GrubRecovery ==
  ASSUME TypeOK, TypeOK', ChosenOK, CountInv, PassInv, VerdictInv, RecoveryInv, GrubNext
  PROVE  RecoveryInv'
<1>t. /\ env \in Env /\ env.order \in Slots /\ env.ok \in [Slots -> BOOLEAN]
      /\ env.com \in [Slots -> BOOLEAN] /\ env.try \in [Slots -> 0..2]
      /\ lost \in 0..4 /\ warm \in 0..4
  BY EnvFields, Counts DEF TypeOK, EspOK
<1>g. /\ grub \in GrubVars /\ grub.mem \in Env /\ grub.i \in 1..3 /\ grub.envok \in BOOLEAN
      /\ grub.mem.order \in Slots /\ grub.mem.try \in [Slots -> 0..2]
      /\ grub.mem.ok \in [Slots -> BOOLEAN] /\ grub.mem.com \in [Slots -> BOOLEAN]
      /\ \A e \in Env : SlotAt(e, 1) = e.order /\ SlotAt(e, 2) = Other(e.order)
      /\ \A s \in Slots : Other(s) \in Slots \ {s} /\ Other(Other(s)) = s
      /\ \A s, x \in Slots : s # x => x = Other(s)
      /\ NoSlot \notin Slots
      /\ phase \in {"count", "load"} => grub.chosen \in Slots
  BY GrubFields DEF ChosenOK
<1>n. /\ Dead \in 0..4 /\ Dead' \in 0..4 /\ Used \in Nat /\ Used' \in Nat /\ Used' >= Used
      /\ \A s \in Slots : Attempts(s) \in 0..2 /\ Attempts(s)' \in 0..2
  BY Counts, CountsNext, UsedGrows DEF Next
<1>f. /\ pc' = Fresh /\ good' = good /\ phase # "up" /\ torn' = torn /\ Valid' = Valid
      /\ ~Guarded' /\ ~stopping' /\ pc'["dl"] = "armed" /\ pc'["inst"] = "idle"
      /\ pc'["sd"] = "off"
  <2>1. pc' = Fresh /\ good' = good /\ phase # "up"
    BY GrubShape DEF VerdictInv
  <2>2. torn' = torn /\ stopping' = stopping
    BY DEF GrubNext, GrubStart, PickPass, PickExhausted, PickChoose, PickNone, GrubCount,
           GrubBoot, LoadFailed, HandOver, HandOverFailed, LastResort, NothingLoads,
           NvidiaTrips, Started, esp, run
  <2>3. ~stopping
    BY <2>1 DEF RecoveryInv
  <2> QED BY <2>1, <2>2, <2>3 DEF Fresh, Guarded, Procs, Valid
\* What is left to be shown of a step.
<1>z. ASSUME SpareInv', AttemptInv', phase' # "recovery" \/ warm' = 4
      PROVE  RecoveryInv'
  BY <1>f, <1>z DEF RecoveryInv, DeadlineInv, AfterGuard
\* What is owed and paid stays so, while the board comes no nearer to recovery.
<1>k. ASSUME NEW s \in Slots, lost' = lost, warm' = warm,
             Attempts(Other(s))' >= Attempts(Other(s))
      PROVE  /\ Owed(s) => Owed(s)'
             /\ Paid(s) => Paid(s)'
             /\ Owed(s) /\ Used' = Used + 1 => Paid(s)'
  <2>1. Dead' = Dead
    BY <1>k DEF Dead
  <2>2. Attempts(Other(s)) \in 0..2 /\ Attempts(Other(s))' \in 0..2
    BY <1>g, <1>n
  <2>3. \A d \in 0..4, a, b \in 0..2, u, v \in Nat :
          b >= a /\ v >= u => /\ d <= a + u => d <= b + v
                              /\ d + 1 <= a + u => d + 1 <= b + v
                              /\ d <= a + u /\ v = u + 1 => d + 1 <= b + v
    OBVIOUS
  <2> QED BY <1>k, <1>n, <2>1, <2>2, <2>3 DEF Owed, Paid
\* A dead boot takes what was paid for it.
<1>w. ASSUME NEW s \in Slots, WarmReset, Paid(s),
             Attempts(Other(s))' >= Attempts(Other(s))
      PROVE  Owed(s)'
  <2>1. Dead' <= Dead + 1
    BY <1>t, <1>w DEF WarmReset, Dead
  <2>2. Attempts(Other(s)) \in 0..2 /\ Attempts(Other(s))' \in 0..2
    BY <1>g, <1>n
  <2>3. \A d, e \in 0..4, a, b \in 0..2, u, v \in Nat :
          b >= a /\ v >= u /\ e <= d + 1 /\ d + 1 <= a + u => e <= b + v
    OBVIOUS
  <2> QED BY <1>w, <1>n, <2>1, <2>2, <2>3 DEF Owed, Paid
\* A step that writes nothing.
<1>e. ASSUME env' = env, NEW s \in Slots
      PROVE  /\ Spare(s)' <=> Spare(s)
             /\ Attempts(Other(s))' >= Attempts(Other(s))
  <2>1. Attempts(Other(s))' = Attempts(Other(s)) /\ Attempts(Other(s)) \in 0..2
    BY <1>e, <1>g, <1>n DEF Attempts
  <2> QED BY <1>e, <1>f, <2>1 DEF Spare
<1>1. CASE GrubStart \/ NvidiaTrips
  <2>1. /\ phase = "off" /\ phase' \in {"pick", "recovery"} /\ env' = env
        /\ lost' = lost /\ warm' = warm /\ (phase' = "recovery" => warm = 4)
    BY <1>1 DEF GrubStart, NvidiaTrips, esp, hist
  <2>2. phase' = "pick" => grub'.envok = Valid /\ grub'.i = 1
    BY <1>1 DEF GrubStart, NvidiaTrips
  <2>3. SpareInv'
    <3> SUFFICES ASSUME NEW s \in Slots, Spare(s)'
                 PROVE  Owed(s)' /\ (phase' = "pick" => grub'.envok /\ grub'.i = 1)
      BY <2>1 DEF SpareInv, GrubPhases
    <3>1. Owed(s)
      BY <1>e, <2>1 DEF RecoveryInv, SpareInv
    <3> QED BY <1>e, <1>k, <2>1, <2>2, <3>1 DEF Spare
  <2>4. AttemptInv'
    BY <2>1 DEF AttemptInv
  <2> QED BY <1>z, <2>1, <2>3, <2>4
<1>2. CASE PickPass
  <2>1. /\ phase = "pick" /\ phase' = "pick" /\ grub.i \in {1, 2} /\ grub'.i = grub.i + 1
        /\ env' = env /\ lost' = lost /\ warm' = warm /\ grub'.envok = grub.envok
    BY <1>2, <1>g DEF PickPass, Scanning, esp, hist, GrubVars
  <2>2. grub.envok /\ Valid => ~env.ok[SlotAt(env, grub.i)]
    <3> SUFFICES ASSUME grub.envok, Valid PROVE ~env.ok[SlotAt(env, grub.i)]
      OBVIOUS
    <3>1. /\ grub.mem.order = env.order /\ grub.skip = NoSlot
          /\ grub.mem.ok[SlotAt(env, grub.i)] = env.ok[SlotAt(env, grub.i)]
      BY <2>1 DEF PassInv, GrubPhases
    <3>2. SlotAt(grub.mem, grub.i) = SlotAt(env, grub.i) /\ SlotAt(env, grub.i) \in Slots
      BY <1>g, <1>t, <2>1, <3>1 DEF SlotAt
    <3> QED BY <1>2, <1>g, <3>1, <3>2 DEF PickPass
  <2>3. SpareInv'
    <3> SUFFICES ASSUME NEW s \in Slots, Spare(s)'
                 PROVE  /\ Owed(s)' /\ (~grub.envok => Paid(s)')
                        /\ Paid(s)' \/ \A i \in {1, 2} : i < grub.i + 1 => ~env.ok[SlotAt(env, i)]
      BY <2>1 DEF SpareInv, GrubPhases
    <3>1. /\ Spare(s) /\ Owed(s) /\ (~grub.envok => Paid(s))
          /\ Paid(s) \/ \A i \in {1, 2} : i < grub.i => ~env.ok[SlotAt(env, i)]
      BY <1>e, <2>1 DEF RecoveryInv, SpareInv, GrubPhases
    <3>2. Owed(s)' /\ (Paid(s) => Paid(s)')
      BY <1>e, <1>k, <2>1, <3>1
    <3>3. \A i \in {1, 2} : i < grub.i + 1 => i < grub.i \/ i = grub.i
      BY <2>1
    <3> QED BY <1>g, <2>2, <3>1, <3>2, <3>3 DEF Spare
  <2>4. AttemptInv'
    BY <2>1 DEF AttemptInv
  <2> QED BY <1>z, <2>1, <2>3, <2>4
<1>3. CASE PickExhausted
  <2>s. PICK x \in Slots : x = SlotAt(grub.mem, grub.i)
    BY <1>3, <1>g DEF PickExhausted, Scanning, SlotAt
  <2>1. /\ phase = "pick" /\ phase' = "pick" /\ grub.i \in {1, 2} /\ grub'.i = grub.i + 1
        /\ lost' = lost /\ warm' = warm /\ grub'.envok = grub.envok
        /\ \/ grub.envok /\ env' = [env EXCEPT !.ok[x] = FALSE]
           \/ grub.envok /\ NotSaved
           \/ ~grub.envok /\ env' = env
    <3>1. grub' = [grub EXCEPT !.i = grub.i + 1, !.mem.ok[x] = FALSE]
      BY <1>3, <2>s DEF PickExhausted
    <3>2. /\ phase = "pick" /\ phase' = "pick" /\ grub.i \in {1, 2}
          /\ lost' = lost /\ warm' = warm
      BY <1>3, <1>g DEF PickExhausted, Scanning, hist
    <3>3. \/ grub.envok /\ env' = [env EXCEPT !.ok[x] = FALSE]
          \/ grub.envok /\ NotSaved
          \/ ~grub.envok /\ env' = env
      BY <1>3, <2>s DEF PickExhausted, Saved
    <3> QED BY <1>g, <3>1, <3>2, <3>3 DEF GrubVars
  <2>a. AttemptInv'
    BY <2>1 DEF AttemptInv
  <2>2. CASE grub.envok /\ env' = [env EXCEPT !.ok[x] = FALSE]
    <3>1. /\ env'.order = env.order /\ env'.try = env.try
          /\ env'.ok = [env.ok EXCEPT ![x] = FALSE]
      BY <1>t, <2>2 DEF Env
    <3>2. x = SlotAt(env, grub.i)
      <4>1. grub.mem.order = env.order
        BY <2>1, <2>2 DEF CountInv, PassInv, GrubPhases
      <4> QED BY <1>g, <1>t, <2>1, <2>s, <4>1 DEF SlotAt
    <3>3. SpareInv'
      <4> SUFFICES ASSUME NEW s \in Slots, Spare(s)'
                   PROVE  /\ Owed(s)'
                          /\ \/ Paid(s)'
                             \/ \A i \in {1, 2} : i < grub.i + 1 => ~env'.ok[SlotAt(env', i)]
        BY <2>1, <2>2 DEF SpareInv, GrubPhases
      <4>1. Spare(s)
        BY <1>f, <1>t, <2>s, <3>1 DEF Spare
      <4>2. /\ Owed(s)
            /\ Paid(s) \/ \A i \in {1, 2} : i < grub.i => ~env.ok[SlotAt(env, i)]
        BY <2>1, <4>1 DEF RecoveryInv, SpareInv
      <4>3. Attempts(Other(s))' >= Attempts(Other(s))
        <5>1. Attempts(Other(s))' = Attempts(Other(s)) \/ Attempts(Other(s))' = 2
          BY <1>g, <1>t, <3>1 DEF Attempts
        <5>2. Attempts(Other(s)) \in 0..2
          BY <1>g, <1>n
        <5> QED BY <5>1, <5>2
      <4>4. Owed(s)' /\ (Paid(s) => Paid(s)')
        BY <1>k, <2>1, <4>2, <4>3
      <4>5. \A i \in {1, 2} : i < grub.i + 1 => i < grub.i \/ i = grub.i
        BY <2>1
      <4>6. \A i \in {1, 2} : /\ SlotAt(env', i) = SlotAt(env, i)
                              /\ SlotAt(env, i) \in Slots
        BY <1>g, <1>t, <3>1 DEF SlotAt
      <4>7. \A i \in {1, 2} : i < grub.i /\ ~env.ok[SlotAt(env, i)]
                                => ~env'.ok[SlotAt(env', i)]
        BY <1>t, <3>1, <4>6
      <4>8. ~env'.ok[SlotAt(env', grub.i)]
        BY <1>t, <2>1, <3>1, <3>2, <4>6
      <4> QED BY <4>2, <4>4, <4>5, <4>7, <4>8
    <3> QED BY <1>z, <2>1, <2>a, <3>3
  <2>3. CASE env' = env /\ (~grub.envok \/ Used' = Used + 1)
    <3> SUFFICES SpareInv'
      BY <1>z, <2>1, <2>a
    <3> SUFFICES ASSUME NEW s \in Slots, Spare(s)' PROVE Owed(s)' /\ Paid(s)'
      BY <2>1 DEF SpareInv, GrubPhases
    <3>1. Owed(s) /\ (~grub.envok => Paid(s))
      BY <1>e, <2>1, <2>3 DEF RecoveryInv, SpareInv, GrubPhases
    <3> QED BY <1>e, <1>k, <2>1, <2>3, <3>1
  <2> QED
    <3>1. grub.envok /\ NotSaved => env' = env /\ Used' = Used + 1
      BY <2>1, FaultCounts DEF NotSaved, CountInv
    <3> QED BY <2>1, <2>2, <2>3, <3>1
<1>4. CASE PickChoose
  <2>s. PICK x \in Slots : x = SlotAt(grub.mem, grub.i)
    BY <1>4, <1>g DEF PickChoose, Scanning, SlotAt
  <2>1. /\ phase = "pick" /\ phase' = "count" /\ env' = env /\ lost' = lost /\ warm' = warm
        /\ grub.mem.try[x] < Limit(grub.mem, x)
        /\ grub' = [grub EXCEPT !.chosen = x, !.mem.try[x] = IF @ = 0 THEN 1 ELSE 2]
    BY <1>4, <2>s DEF PickChoose, Scanning, esp, hist
  <2>2. /\ grub'.envok = grub.envok /\ grub'.chosen = x
        /\ grub'.mem.try[x] = IF grub.mem.try[x] = 0 THEN 1 ELSE 2
    BY <1>g, <2>1 DEF GrubVars, Env
  <2>3. SpareInv'
    <3> SUFFICES ASSUME NEW s \in Slots, Spare(s)'
                 PROVE  Owed(s)' /\ (~grub.envok => Paid(s)')
      BY <2>1, <2>2 DEF SpareInv, GrubPhases
    <3>1. Owed(s) /\ (~grub.envok => Paid(s))
      BY <1>e, <2>1 DEF RecoveryInv, SpareInv, GrubPhases
    <3> QED BY <1>e, <1>k, <2>1, <3>1
  <2>4. grub.envok /\ Valid => grub'.mem.try[x] = env.try[x] + 1
    <3>1. grub.envok /\ Valid => grub.mem.try[x] = env.try[x]
      BY <2>1 DEF PassInv, GrubPhases
    <3>2. grub.mem.try[x] \in 0..2 /\ grub.mem.try[x] < 2
      BY <1>g, <2>1 DEF Limit
    <3> QED BY <2>2, <3>1, <3>2
  <2>5. AttemptInv'
    BY <1>f, <2>1, <2>2, <2>4 DEF AttemptInv
  <2> QED BY <1>z, <2>1, <2>3, <2>5
<1>5. CASE PickNone
  <2>1. /\ phase = "pick" /\ phase' = "none" /\ grub.i = 3
        /\ env' = env /\ lost' = lost /\ warm' = warm
    BY <1>5 DEF PickNone, esp, hist
  <2>2. SpareInv'
    <3> SUFFICES ASSUME NEW s \in Slots, Spare(s)' PROVE Owed(s)' /\ Paid(s)'
      BY <2>1 DEF SpareInv, GrubPhases
    <3>1. /\ Spare(s) /\ Owed(s)
          /\ Paid(s) \/ \A i \in {1, 2} : i < grub.i => ~env.ok[SlotAt(env, i)]
      BY <1>e, <2>1 DEF RecoveryInv, SpareInv
    <3>2. s = SlotAt(env, 1) \/ s = SlotAt(env, 2)
      BY <1>g, <1>t
    <3>3. Paid(s)
      BY <2>1, <3>1, <3>2 DEF Spare
    <3> QED BY <1>e, <1>k, <2>1, <3>1, <3>3
  <2>3. AttemptInv'
    BY <2>1 DEF AttemptInv
  <2> QED BY <1>z, <2>1, <2>2, <2>3
<1>6. CASE GrubCount
  <2> DEFINE c == grub.chosen
  <2>1. /\ phase = "count" /\ c \in Slots /\ lost' = lost /\ warm' = warm
        /\ phase' \in {"load", "pick"}
        /\ phase' = "pick" => NotSaved /\ grub.envok
        /\ phase' = "load" => grub' = grub
    BY <1>6, <1>g DEF GrubCount, hist
  <2>2. CASE grub.envok /\ env' = [env EXCEPT !.try = grub.mem.try] /\ phase' = "load"
    <3>1. /\ env'.com = env.com /\ env'.ok = env.ok /\ env'.try = grub.mem.try
      BY <1>t, <2>2 DEF Env
    <3>2. /\ Valid /\ env.ok[c] /\ grub.mem.try[c] = env.try[c] + 1
          /\ ~env.com[c] => env.try[c] = 0
          /\ grub.mem.try[Other(c)] = env.try[Other(c)]
      BY <1>g, <2>1, <2>2 DEF CountInv, PassInv, RecoveryInv, AttemptInv, GrubPhases
    <3>3. SpareInv'
      <4> SUFFICES ASSUME NEW s \in Slots, Spare(s)'
                   PROVE  Owed(s)' /\ (s = c \/ Paid(s)')
        BY <2>1, <2>2 DEF SpareInv, GrubPhases
      <4>1. Owed(s)
        BY <1>f, <3>1 DEF RecoveryInv, SpareInv, Spare
      <4>2. CASE s = c
        <5>1. Attempts(Other(s))' = Attempts(Other(s)) /\ Attempts(Other(s)) \in 0..2
          BY <1>g, <1>n, <3>1, <3>2, <4>2 DEF Attempts
        <5> QED BY <1>k, <2>1, <4>1, <4>2, <5>1
      <4>3. CASE s # c
        <5>1. Other(s) = c
          BY <1>g, <2>1, <4>3
        <5>2. Attempts(Other(s))' = Attempts(Other(s)) + 1
          BY <3>1, <3>2, <5>1 DEF Attempts
        <5>3. Attempts(Other(s)) \in 0..2 /\ Dead' = Dead
          BY <1>g, <1>n, <2>1 DEF Dead
        <5>4. \A d \in 0..4, a \in 0..2, u, v \in Nat :
                v >= u /\ d <= a + u => d <= a + 1 + v /\ d + 1 <= a + 1 + v
          OBVIOUS
        <5> QED BY <1>n, <4>1, <5>2, <5>3, <5>4 DEF Owed, Paid
      <4> QED BY <4>2, <4>3
    <3>4. AttemptInv'
      <4>1. ~env'.com[c] => env'.try[c] <= 1
        BY <3>1, <3>2
      <4> QED BY <2>1, <2>2, <4>1 DEF AttemptInv
    <3> QED BY <1>z, <2>1, <3>3, <3>4
  <2>3. CASE /\ env' = env /\ (~grub.envok \/ Used' = Used + 1)
             /\ phase' = "pick" \/ grub.mem.com[c]
    <3>1. SpareInv'
      <4> SUFFICES ASSUME NEW s \in Slots, Spare(s)' PROVE Owed(s)' /\ Paid(s)'
        BY <2>1 DEF SpareInv, GrubPhases
      <4>1. Owed(s) /\ (~grub.envok => Paid(s))
        BY <1>e, <2>1, <2>3 DEF RecoveryInv, SpareInv, GrubPhases
      <4> QED BY <1>e, <1>k, <2>1, <2>3, <4>1
    <3>2. AttemptInv'
      <4>1. Valid => grub.mem.com = env.com
        BY <2>1 DEF PassInv, GrubPhases
      <4> QED BY <1>f, <2>1, <2>3, <4>1 DEF AttemptInv
    <3> QED BY <1>z, <2>1, <3>1, <3>2
  <2> QED
    <3>1. grub.envok => Valid
      BY <2>1 DEF CountInv
    <3>2. grub.envok /\ NotSaved => env' = env /\ Used' = Used + 1
      BY <3>1, FaultCounts DEF NotSaved
    <3>3. ~grub.envok => grub.mem.com[c]
      BY <2>1 DEF CountInv
    <3>4. \/ grub.envok /\ env' = [env EXCEPT !.try = grub.mem.try] /\ phase' = "load"
          \/ grub.envok /\ NotSaved /\ (grub.mem.com[c] \/ phase' = "pick")
          \/ ~grub.envok /\ env' = env
      BY <1>6 DEF GrubCount, Saved, BootsUncounted
    <3> QED BY <2>2, <2>3, <3>2, <3>3, <3>4
<1>7. CASE GrubBoot
  <2> DEFINE c == grub.chosen
  <2>1. /\ phase = "load" /\ phase' = "up" /\ c \in Slots /\ env' = env
        /\ lost' = lost /\ warm' = warm /\ boot'.slot = c /\ boot'.trial = ~grub.mem.com[c]
    BY <1>7, <1>g DEF GrubBoot, Started, esp
  <2>2. SpareInv'
    <3> SUFFICES ASSUME NEW s \in Slots, Spare(s)'
                 PROVE  Owed(s)' /\ (s = c \/ Paid(s)')
      BY <1>f, <2>1 DEF SpareInv, Covered, GrubPhases
    <3>1. Owed(s) /\ (s = c \/ Paid(s))
      BY <1>e, <2>1 DEF RecoveryInv, SpareInv
    <3> QED BY <1>e, <1>k, <2>1, <3>1
  <2>3. AttemptInv'
    <3>1. Valid => grub.mem.com = env.com
      BY <2>1 DEF PassInv, GrubPhases
    <3> QED BY <1>f, <2>1, <3>1 DEF RecoveryInv, AttemptInv
  <2> QED BY <1>z, <2>1, <2>2, <2>3
<1>8. CASE LoadFailed
  <2> DEFINE c == grub.chosen
  <2>1. /\ phase = "load" /\ phase' = "off" /\ c \in Slots /\ WarmReset /\ grub.envok
        /\ env' = [env EXCEPT !.ok = [grub.mem.ok EXCEPT ![c] = FALSE]]
    BY <1>8, <1>g DEF LoadFailed, WarmReset
  <2>2. env'.try = env.try /\ env'.ok = [grub.mem.ok EXCEPT ![c] = FALSE]
    BY <1>t, <2>1 DEF Env
  <2>3. SpareInv'
    <3> SUFFICES ASSUME NEW s \in Slots, Spare(s)' PROVE Owed(s)'
      BY <2>1 DEF SpareInv, GrubPhases
    <3>1. s # c /\ Spare(s)
      BY <1>f, <1>g, <2>1, <2>2 DEF CountInv, Spare
    <3>2. Paid(s)
      BY <2>1, <3>1 DEF RecoveryInv, SpareInv
    <3>3. Other(s) = c
      BY <1>g, <2>1, <3>1
    <3>4. Attempts(Other(s))' >= Attempts(Other(s))
      <4>1. Attempts(Other(s))' = 2
        BY <1>g, <2>1, <2>2, <3>3 DEF Attempts
      <4> QED BY <1>g, <1>n, <4>1
    <3> QED BY <1>w, <2>1, <3>2, <3>4
  <2>4. AttemptInv'
    BY <2>1 DEF AttemptInv
  <2> QED BY <1>z, <2>1, <2>3, <2>4
<1>9. CASE HandOver
  <2> DEFINE c == grub.chosen
  <2>1. /\ phase = "load" /\ phase' = "pick" /\ c \in Slots /\ env' = env
        /\ lost' = lost /\ warm' = warm /\ (good[c] => Fault)
    BY <1>9, <1>g DEF HandOver, esp, hist
  <2>2. SpareInv'
    <3> SUFFICES ASSUME NEW s \in Slots, Spare(s)' PROVE Owed(s)' /\ Paid(s)'
      BY <2>1 DEF SpareInv, GrubPhases
    <3>1. Spare(s) /\ Owed(s) /\ (s = c \/ Paid(s))
      BY <1>e, <2>1 DEF RecoveryInv, SpareInv
    <3>2. s = c => Used' = Used + 1
      BY <2>1, <3>1, FaultCounts DEF Spare
    <3> QED BY <1>e, <1>k, <2>1, <3>1, <3>2
  <2>3. AttemptInv'
    BY <2>1 DEF AttemptInv
  <2> QED BY <1>z, <2>1, <2>2, <2>3
<1>10. CASE HandOverFailed \/ NothingLoads
  <2>1. /\ phase \in {"load", "none"} /\ phase' = "off" /\ env' = env /\ WarmReset
        /\ phase = "load" => grub.failed # NoSlot
    BY <1>10 DEF HandOverFailed, NothingLoads, WarmReset, esp
  <2>2. SpareInv'
    <3> SUFFICES ASSUME NEW s \in Slots, Spare(s)' PROVE Owed(s)'
      BY <2>1 DEF SpareInv, GrubPhases
    <3>1. Spare(s)
      BY <1>e, <2>1
    <3>2. phase = "load" => ~grub.envok
      BY <2>1, <3>1 DEF PassInv, GrubPhases, Spare
    <3>3. Paid(s)
      BY <2>1, <3>1, <3>2 DEF RecoveryInv, SpareInv, GrubPhases
    <3> QED BY <1>e, <1>w, <2>1, <3>3
  <2>3. AttemptInv'
    BY <2>1 DEF AttemptInv
  <2> QED BY <1>z, <2>1, <2>2, <2>3
<1>11. CASE LastResort
  <2>1. /\ phase = "none" /\ phase' = "up" /\ env' = env /\ lost' = lost /\ warm' = warm
        /\ ~boot'.trial
    BY <1>11 DEF LastResort, Started, esp
  <2>2. SpareInv'
    <3> SUFFICES ASSUME NEW s \in Slots, Spare(s)' PROVE Owed(s)' /\ Paid(s)'
      BY <1>f, <2>1 DEF SpareInv, Covered, GrubPhases
    <3>1. Owed(s) /\ Paid(s)
      BY <1>e, <2>1 DEF RecoveryInv, SpareInv
    <3> QED BY <1>e, <1>k, <2>1, <3>1
  <2>3. AttemptInv'
    BY <2>1 DEF AttemptInv
  <2> QED BY <1>z, <2>1, <2>2, <2>3
<1> QED
  BY <1>1, <1>2, <1>3, <1>4, <1>5, <1>6, <1>7, <1>8, <1>9, <1>10, <1>11 DEF GrubNext

\* A boot ends dead only if it is counted.
LEMMA BoardRecovery ==
  ASSUME TypeOK, TypeOK', VerdictInv, RecoveryInv, BoardNext
  PROVE  RecoveryInv'
<1>t. /\ boot.slot \in Slots /\ \A s \in Slots : Other(s) \in Slots
      /\ \A s \in Slots : s # boot.slot => Other(s) # s
  BY RunningTypes DEF Other, Slots
<1>n. /\ Dead \in 0..4 /\ Dead' \in 0..4 /\ lost \in 0..4 /\ warm \in 0..4
      /\ lost' \in 0..4 /\ warm' \in 0..4 /\ Dead <= lost /\ Dead <= warm
      /\ Dead' <= lost' /\ Dead' <= warm'
      /\ Used \in Nat /\ Used' \in Nat /\ Used' >= Used
      /\ \A s \in Slots : Attempts(s) \in 0..2 /\ Attempts(s)' \in 0..2
  BY Counts, CountsNext, UsedGrows DEF Next
\* Nothing is dead as far as NVIDIA's count knows.
<1>z. ASSUME Dead' = 0, phase' = "off", pc' = Fresh, ~stopping'
      PROVE  RecoveryInv'
  <2>1. \A s \in Slots : Owed(s)'
    BY <1>n, <1>t, <1>z DEF Owed
  <2> QED
    BY <1>z, <2>1
    DEF RecoveryInv, SpareInv, AttemptInv, DeadlineInv, AfterGuard, GrubPhases, Fresh, Procs
\* The boot ends.
<1>d. ASSUME phase = "up", Down, UNCHANGED <<esp, slots, budget>>,
             warm' <= warm + 1, ~good[boot.slot] \/ (stopping /\ warm' <= 1)
      PROVE  RecoveryInv'
  <2>1. /\ phase' = "off" /\ pc' = Fresh /\ ~stopping' /\ env' = env /\ Valid' = Valid
        /\ good' = good /\ Used' = Used
        /\ lost' = IF Guarded \/ lost = 4 THEN lost ELSE lost + 1
    BY <1>d DEF Down, RunCleared, Guarded, Valid, Used, esp, slots, budget
  <2>2. Dead' <= Dead + 1
    BY <1>d, <1>n, <2>1 DEF Dead
  <2>3. Guarded /\ lost = 0 => Dead' = 0
    BY <1>n, <2>1
  <2>4. ASSUME NEW s \in Slots, Spare(s)' PROVE Owed(s)'
    <3>1. Spare(s) /\ Attempts(Other(s))' = Attempts(Other(s)) /\ Attempts(Other(s)) \in 0..2
      BY <1>n, <1>t, <2>1, <2>4 DEF Spare, Attempts
    <3>2. Covered(s)
      BY <1>d, <3>1 DEF RecoveryInv, SpareInv
    <3>3. CASE boot.slot = s
      <4>1. stopping /\ warm' <= 1 /\ Valid /\ env.ok[boot.slot]
        BY <1>d, <3>1, <3>3 DEF Spare
      <4>2. (Guarded /\ lost = 0) \/ Used >= 1
        BY <1>d, <1>n, <4>1 DEF RecoveryInv, DeadlineInv, Excused, AfterGuard
      <4> QED BY <1>n, <2>1, <2>3, <3>1, <4>1, <4>2 DEF Owed
    <3>4. CASE Guarded /\ lost = 0
      BY <1>n, <2>1, <2>3, <3>1, <3>4 DEF Owed
    <3>5. CASE \/ Dead + 1 <= Used
               \/ ~Guarded /\ Paid(s)
               \/ Dead + 2 <= Attempts(Other(s)) + Used
      <4>1. Dead + 1 <= Attempts(Other(s)) + Used
        BY <1>n, <3>1, <3>5 DEF Paid
      <4> QED BY <1>n, <2>1, <2>2, <3>1, <4>1 DEF Owed
    <3> QED BY <3>2, <3>3, <3>4, <3>5 DEF Covered
  <2> QED
    BY <2>1, <2>4
    DEF RecoveryInv, SpareInv, AttemptInv, DeadlineInv, AfterGuard, GrubPhases, Fresh, Procs
<1>1. CASE PowerCut
  <2>1. Dead' = 0
    BY <1>1, <1>n DEF PowerCut
  <2> QED BY <1>1, <1>z, <2>1 DEF PowerCut, Down, RunCleared
<1>2. CASE Crash
  BY <1>2, <1>d, <1>n DEF Crash
<1>3. CASE Halt
  <2>1. warm' <= 1 /\ warm' <= warm + 1
    BY <1>3, <1>n DEF Halt
  <2> QED BY <1>3, <1>d, <2>1 DEF Halt
<1>4. CASE Reflash
  <2>1. /\ Dead' = 0 /\ phase' = "off" /\ pc' = pc /\ stopping' = stopping
    BY <1>4, <1>n DEF Reflash, run
  <2>2. pc = Fresh /\ ~stopping
    BY <1>4 DEF Reflash, VerdictInv, RecoveryInv
  <2> QED BY <1>z, <2>1, <2>2
<1>5. CASE NvVerify
  <2>1. /\ phase = "up" /\ phase' = "up" /\ Dead' = 0 /\ env' = env /\ Valid' = Valid /\ pc' = pc
        /\ boot' = boot /\ lost' = lost /\ warm' = 0 /\ stopping' = stopping /\ Used' = Used
        /\ good' = good
    BY <1>5, <1>n DEF NvVerify, Valid, Used, esp, slots, run, budget
  <2>2. Guarded' = Guarded
    BY <2>1 DEF Guarded
  <2>3. ASSUME NEW s \in Slots, Spare(s)' PROVE Owed(s)' /\ Covered(s)'
    <3>1. Spare(s) /\ Attempts(Other(s))' = Attempts(Other(s)) /\ Attempts(Other(s)) \in 0..2
      BY <1>n, <1>t, <2>1, <2>3 DEF Spare, Attempts
    <3>2. Covered(s)
      BY <2>1, <3>1 DEF RecoveryInv, SpareInv
    <3>3. Owed(s)'
      BY <1>n, <2>1, <3>1 DEF Owed
    <3>4. Paid(s) => Paid(s)'
      BY <1>n, <2>1, <3>1 DEF Paid
    <3>5. Dead + 2 <= Attempts(Other(s)) + Used
            => Dead' + 2 <= Attempts(Other(s))' + Used'
      BY <1>n, <2>1, <3>1
    <3>6. Dead + 1 <= Used => Dead' + 1 <= Used'
      BY <1>n, <2>1
    <3> QED BY <2>1, <2>2, <3>2, <3>3, <3>4, <3>5, <3>6 DEF Covered
  <2>4. AttemptInv'
    BY <2>1 DEF RecoveryInv, AttemptInv
  <2>5. DeadlineInv' /\ AfterGuard'
    BY <2>1, <2>2 DEF RecoveryInv, DeadlineInv, AfterGuard, Excused
  <2> QED BY <2>1, <2>3, <2>4, <2>5 DEF RecoveryInv, SpareInv, GrubPhases
<1>6. CASE UserReboot
  <2>1. /\ phase = "up" /\ phase' = "up" /\ env' = env /\ Valid' = Valid /\ pc' = pc
        /\ boot' = boot /\ lost' = lost /\ warm' = warm /\ faults' = faults
        /\ good' = good /\ pc["guard"] = "done"
    BY <1>6 DEF UserReboot, GuardDone, Valid, esp, slots, budget, hist
  <2>2. Guarded /\ Guarded'
    BY <2>1 DEF Guarded
  <2>3. SpareInv'
    BY <2>1, <2>2
    DEF RecoveryInv, SpareInv, Owed, Paid, Covered, Spare, Attempts, Dead, Used, GrubPhases
  <2> QED BY <2>1, <2>2, <2>3 DEF RecoveryInv, AttemptInv, DeadlineInv, AfterGuard, Used
<1>7. ASSUME NEW f \in {"env", "bak"}, Tear(f)
      PROVE  RecoveryInv'
  <2>1. /\ phase' = phase /\ phase \in {"off", "up"} /\ pc = Fresh /\ pc' = pc /\ boot' = boot
        /\ good' = good /\ lost' = lost /\ warm' = warm /\ stopping' = stopping
        /\ faults' = faults /\ (f # "env" => env' = env /\ Valid' = Valid)
        /\ (f = "env" => ~Valid')
    BY <1>7 DEF Tear, Valid, slots, run, hist
  <2>2. SpareInv'
    BY <2>1 DEF RecoveryInv, SpareInv, Owed, Paid, Covered, Spare, Attempts, Dead, Used,
                GrubPhases, Guarded
  <2>3. AttemptInv'
    BY <2>1 DEF RecoveryInv, AttemptInv
  <2>4. DeadlineInv' /\ AfterGuard'
    BY <2>1 DEF RecoveryInv, DeadlineInv, AfterGuard, Excused, Guarded, Used
  <2> QED BY <2>1, <2>2, <2>3, <2>4 DEF RecoveryInv
<1>8. ASSUME NEW x \in Slots, Corrupt(x)
      PROVE  RecoveryInv'
  <2>1. /\ phase = "off" /\ phase' = "off" /\ pc' = pc /\ env' = env /\ torn' = torn
        /\ lost' = lost /\ warm' = warm /\ stopping' = stopping /\ faults' = faults
        /\ \A s \in Slots : good'[s] => good[s]
    BY <1>8, RunningTypes DEF Corrupt, esp, run, hist
  <2>2. SpareInv'
    BY <2>1 DEF RecoveryInv, SpareInv, Owed, Spare, Valid, Attempts, Dead, Used, GrubPhases
  <2> QED
    BY <2>1, <2>2 DEF RecoveryInv, AttemptInv, DeadlineInv, AfterGuard, Used
<1> QED
  BY <1>1, <1>2, <1>3, <1>4, <1>5, <1>6, <1>7, <1>8 DEF BoardNext

LEMMA RecoveryInvariant == Spec => []RecoveryInv
<1>1. Init => RecoveryInv
  <2>1. Init => Dead = 0 /\ Used = 0
    BY BudgetAssumption DEF Init, Dead, Used
  <2>2. Init => \A s \in Slots : Attempts(Other(s)) \in 0..2
    BY SlotTypes DEF Init, Attempts, Flashed, Slots, Other
  <2> QED
    BY <2>1, <2>2
    DEF Init, RecoveryInv, SpareInv, Owed, AttemptInv, DeadlineInv, AfterGuard, GrubPhases,
        Fresh, Procs
<1>2. /\ TypeOK /\ TypeOK' /\ ChosenOK /\ CountInv /\ LockInv /\ VerdictInv /\ PassInv /\ RunInv
      /\ RecoveryInv /\ [Next]_vars
      => RecoveryInv'
  <2> SUFFICES ASSUME TypeOK, TypeOK', ChosenOK, CountInv, LockInv, VerdictInv, PassInv, RunInv,
                      RecoveryInv, [Next]_vars
               PROVE  RecoveryInv'
    OBVIOUS
  <2>1. CASE UNCHANGED vars
    <3>1. UNCHANGED <<env, torn, good, phase, grub, boot, pc, stopping, faults, lost, warm>>
      BY <2>1 DEF vars, esp, slots, run, budget, hist
    <3> QED BY <3>1
            DEF RecoveryInv, SpareInv, Owed, Paid, Covered, Spare, Attempts, Dead, Used, Valid,
                Guarded, SlotAt, AttemptInv, DeadlineInv, Excused, AfterGuard
  <2> QED
    BY <2>1, GuardRecovery, CommitRecovery, InstallRecovery, GrubRecovery, BoardRecovery DEF Next
<1> QED
  BY <1>1, <1>2, TypesHold, CountInvariant, VerdictInvariant, TrialInvariant, PTL DEF Spec

\* As long as no more than one write, lock or read has failed, whatever is lost,
\* wherever the power goes and however bad the releases are: four warm boots in a row
\* that never got to the guard leave no good slot that is usable, so NVIDIA's count
\* takes the board to recovery only when GRUB had nothing to hand it over to.
THEOREM RecoveryComesLast == Spec => [](Used <= 1 => RecoveryIsLast)
<1>1. TypeOK /\ RecoveryInv => (Used <= 1 => RecoveryIsLast)
  <2> SUFFICES ASSUME TypeOK, RecoveryInv, Used <= 1, lost >= 4, phase = "recovery", Valid,
                      NEW s \in Slots, good[s], env.ok[s]
               PROVE  FALSE
    BY DEF RecoveryIsLast, HandedOverInTime
  <2>1. warm = 4 /\ lost = 4 /\ Dead = 4
    BY Counts DEF RecoveryInv, Dead
  <2>2. Attempts(Other(s)) \in 0..2 /\ Used \in Nat
    BY Counts
  <2> QED BY <2>1, <2>2 DEF RecoveryInv, SpareInv, Spare, Owed
<1> QED
  BY <1>1, RecoveryInvariant, TypesHold, PTL

=============================================================================
