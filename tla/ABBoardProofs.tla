--------------------------- MODULE ABBoardProofs ---------------------------
(***************************************************************************)
(* What is proved about the A/B boot chain, for every MaxFaults, MaxDamage *)
(* and Ops: its types, and the invariants of their own that the properties *)
(* the runs check on small instances take.  TypeOK alone is not inductive: *)
(* GRUB counts and loads only a slot it has chosen (ChosenOK).             *)
(*                                                                         *)
(* Counting.  While grubenv is saved, GRUB's memory claims no more than    *)
(* it does (CountInv).                                                     *)
(*                                                                         *)
(* Provenance.  What the guard, GRUB and an install that is under way go   *)
(* by is right about what was tried (Sound).  Of a loss this needs only    *)
(* that one copy of grubenv is left, and that grubenv is not torn where    *)
(* the guard's rebuilding would guess wrong (RecoverableLoss).             *)
(***************************************************************************)
EXTENDS ABBoard, TLAPS

\* Every single update a writer makes leaves grubenv a well-typed block.
LEMMA EnvTypes ==
  /\ Flashed \in Env
  /\ \A e \in Env, s \in Slots, b \in BOOLEAN :
       /\ [e EXCEPT !.ok[s] = b] \in Env
       /\ [e EXCEPT !.com[s] = b] \in Env
       /\ [e EXCEPT !.stay = b] \in Env
  /\ \A e \in Env, s \in Slots : /\ [e EXCEPT !.try[s] = 0] \in Env
                                 /\ [e EXCEPT !.order = s] \in Env
  /\ \A e \in Env, s \in Slots \cup {NoSlot} : [e EXCEPT !.retry = s] \in Env
<1>1. Flashed \in Env
  BY DEF Flashed, Env, Slots, NoSlot
<1>2. ASSUME NEW e \in Env, NEW s \in Slots, NEW b \in BOOLEAN
      PROVE  /\ [e EXCEPT !.ok[s] = b] \in Env
             /\ [e EXCEPT !.com[s] = b] \in Env
             /\ [e EXCEPT !.stay = b] \in Env
  BY <1>2 DEF Env
<1>3. ASSUME NEW e \in Env, NEW s \in Slots
      PROVE  [e EXCEPT !.try[s] = 0] \in Env
  BY <1>3 DEF Env
<1>4. ASSUME NEW e \in Env, NEW s \in Slots \cup {NoSlot}
      PROVE  [e EXCEPT !.retry = s] \in Env
  BY <1>4 DEF Env
<1>5. ASSUME NEW e \in Env, NEW s \in Slots
      PROVE  [e EXCEPT !.order = s] \in Env
  BY <1>5 DEF Env
<1> QED BY <1>1, <1>2, <1>3, <1>4, <1>5

\* Slots and the kernel command line.
LEMMA SlotTypes ==
  /\ \A s \in Slots : Other(s) \in Slots
  /\ \A b \in Cmdline : b.slot \in Slots /\ b.trial \in BOOLEAN /\ b.last \in BOOLEAN
  BY DEF Other, Slots, Cmdline

\* grubenv_replace of a well-typed block, done or failed, keeps the types.
LEMMA ReplaceType ==
  ASSUME TypeOK, NEW new \in Env, NEW ok, Replace(new, ok)
  PROVE  env' \in Env /\ BudgetOK'
  BY BudgetAssumption DEF TypeOK, EspOK, BudgetOK, Replace, Fault

\* grubenv_sync_bak keeps the types, done or failed.
LEMMA SyncBakType ==
  ASSUME TypeOK, NEW ok, SyncBak(ok)
  PROVE  bak' \in Env /\ torn' \in SUBSET {"env", "bak"} /\ BudgetOK'
<1>1. bak' \in Env /\ BudgetOK'
  BY BudgetAssumption DEF TypeOK, EspOK, BudgetOK, SyncBak, BakCopied, Fault
<1>2. torn' \in {torn, torn \ {"bak"}, torn \cup {"bak"}}
  BY DEF SyncBak, BakCopied
<1>3. torn' \in SUBSET {"env", "bak"}
  BY <1>2 DEF TypeOK, EspOK
<1> QED BY <1>1, <1>3

\* A process that goes on to one of its own steps keeps the types.
LEMMA GotoType ==
  ASSUME TypeOK, NEW p \in Procs, NEW l, Goto(p, l),
         \/ p = "guard" /\ l \in GuardSteps
         \/ p = "gate" /\ l \in GateSteps
         \/ p = "dl" /\ l \in DlSteps
         \/ p = "sd" /\ l \in SdSteps
         \/ p = "inst" /\ l \in InstSteps
  PROVE  PcOK'
<1>1. l \in Steps
  BY DEF Steps
<1>2. pc' \in [Procs -> Steps]
  BY <1>1 DEF Goto, TypeOK, PcOK
<1>3. /\ pc'["guard"] = IF p = "guard" THEN l ELSE pc["guard"]
      /\ pc'["gate"] = IF p = "gate" THEN l ELSE pc["gate"]
      /\ pc'["dl"] = IF p = "dl" THEN l ELSE pc["dl"]
      /\ pc'["sd"] = IF p = "sd" THEN l ELSE pc["sd"]
      /\ pc'["inst"] = IF p = "inst" THEN l ELSE pc["inst"]
  BY DEF Goto, TypeOK, PcOK, Procs
<1> QED BY <1>2, <1>3 DEF TypeOK, PcOK

\* A fault comes out of the budget.
LEMMA FaultType == TypeOK /\ Fault /\ UNCHANGED damage => BudgetOK'
  BY BudgetAssumption DEF TypeOK, BudgetOK, Fault

\* boat-grubenv-guard keeps the types.
LEMMA GuardTypes == TypeOK /\ GuardNext => TypeOK'
<1> SUFFICES ASSUME TypeOK, GuardNext PROVE TypeOK'
  OBVIOUS
<1> USE DEF esp, slots, run, budget, hist, Procs
<1>r. Reached /\ tboots' \in [Slots -> Nat] => HistOK'
  BY SlotTypes DEF Reached, TypeOK, HistOK, RunOK
<1>e. GuardEnds => PcOK' /\ lock' = "free"
  BY GotoType DEF GuardEnds, GuardSteps
<1>s. boot.slot \in Slots /\ Other(boot.slot) \in Slots
  BY SlotTypes DEF TypeOK, RunOK
<1>1. CASE GuardLock
  <2>1. PcOK'
    BY <1>1, GotoType DEF GuardLock, GuardSteps
  <2> QED
    BY <1>1, <2>1 DEF GuardLock, TypeOK, EspOK, SlotsOK, RunOK, BudgetOK, HistOK
<1>2. CASE GuardDies
  <2>1. PcOK'
    BY <1>2, GotoType DEF GuardDies, GuardSteps
  <2>2. BudgetOK'
    BY <1>2, FaultType DEF GuardDies
  <2> QED
    BY <1>2, <2>1, <2>2 DEF GuardDies, TypeOK, EspOK, SlotsOK, RunOK, HistOK
<1>3. CASE GuardReset
  <2>1. PcOK'
    BY <1>3, GotoType DEF GuardReset, GuardSteps
  <2>2. env' \in Env /\ BudgetOK'
    <3>1. [env EXCEPT !.try[boot.slot] = 0] \in Env
      BY <1>s, EnvTypes DEF TypeOK, EspOK
    <3> QED
      BY <1>3, <3>1, ReplaceType DEF GuardReset, TypeOK, EspOK, BudgetOK
  <2>3. HistOK'
    BY <1>3, <1>r DEF GuardReset, TypeOK, HistOK
  <2> QED
    BY <1>3, <2>1, <2>2, <2>3 DEF GuardReset, TypeOK, EspOK, SlotsOK, RunOK
<1>4. CASE GuardResetBak
  <2>1. PcOK'
    BY <1>4, GotoType DEF GuardResetBak, GuardSteps
  <2>2. EspOK' /\ BudgetOK'
    BY <1>4, SyncBakType DEF GuardResetBak, TypeOK, EspOK
  <2> QED
    BY <1>4, <2>1, <2>2 DEF GuardResetBak, TypeOK, SlotsOK, RunOK, HistOK
<1>5. CASE GuardHand
  <2>1. PcOK'
    BY <1>5, GotoType DEF GuardHand, GuardSteps
  <2>2. env' \in Env /\ BudgetOK'
    <3>1. [env EXCEPT !.ok[Other(boot.slot)] = FALSE] \in Env
      BY <1>s, EnvTypes DEF TypeOK, EspOK
    <3> QED
      BY <1>5, <3>1, ReplaceType DEF GuardHand, TypeOK, EspOK, BudgetOK
  <2> QED
    BY <1>5, <2>1, <2>2 DEF GuardHand, TypeOK, EspOK, SlotsOK, RunOK, HistOK
<1>6. CASE GuardBak
  <2>1. EspOK' /\ BudgetOK'
    BY <1>6, SyncBakType DEF GuardBak, TypeOK, EspOK
  <2> QED
    BY <1>6, <1>e, <2>1 DEF GuardBak, TypeOK, SlotsOK, RunOK, HistOK
<1>7. CASE GuardRebuild
  <2>1. Rebuilt \in Env
    <3>1. /\ Rebuilt.ok \in [Slots -> BOOLEAN]
          /\ Rebuilt.com \in [Slots -> BOOLEAN]
      BY <1>s, SlotTypes DEF Rebuilt, TypeOK, RunOK
    <3>2. Rebuilt.try \in [Slots -> 0..2]
      BY DEF Rebuilt
    <3> QED
      BY <1>s, <3>1, <3>2 DEF Rebuilt, Env
  <2>2. PcOK'
    BY <1>7, GotoType DEF GuardRebuild, GuardSteps
  <2>3. HistOK'
    BY <1>7, <1>r, <1>s DEF GuardRebuild, TypeOK, HistOK
  <2> QED
    BY <1>7, <2>1, <2>2, <2>3
    DEF GuardRebuild, TypeOK, EspOK, SlotsOK, RunOK, BudgetOK
<1>8. CASE GuardRebuildFails
  <2>1. BudgetOK'
    BY <1>8, FaultType DEF GuardRebuildFails
  <2> QED
    BY <1>8, <1>e, <2>1
    DEF GuardRebuildFails, TypeOK, EspOK, SlotsOK, RunOK, HistOK
<1>9. CASE GuardRebuildBak
  <2>1. EspOK' /\ BudgetOK'
    BY <1>9, SyncBakType DEF GuardRebuildBak, TypeOK, EspOK
  <2> QED
    BY <1>9, <1>e, <2>1 DEF GuardRebuildBak, TypeOK, SlotsOK, RunOK, HistOK
<1> QED
  BY <1>1, <1>2, <1>3, <1>4, <1>5, <1>6, <1>7, <1>8, <1>9 DEF GuardNext

\* boat-commit, its deadline and its shutdown keep the types.
LEMMA CommitTypes == TypeOK /\ CommitNext => TypeOK'
<1> SUFFICES ASSUME TypeOK, CommitNext PROVE TypeOK'
  OBVIOUS
<1> USE DEF esp, slots, run, budget, hist, Procs
<1>s. /\ boot.slot \in Slots /\ Other(boot.slot) \in Slots
      /\ boot.stay \in BOOLEAN /\ env.stay \in BOOLEAN
      /\ env.order \in Slots
  BY SlotTypes DEF TypeOK, RunOK, EspOK, Env, Cmdline
<1>r. Reboot => stopping' \in BOOLEAN
  BY DEF Reboot
<1>h. ASSUME NEW w, Condemn(w) PROVE HistOK'
  BY <1>h, <1>s DEF Condemn, TypeOK, HistOK
<1>b. Bad(boot.slot) \in Env
  BY <1>s, EnvTypes DEF Bad, TypeOK, EspOK
<1>m. mark \cup {"failed"} \in SUBSET Marks /\ mark \cup {"committed"} \in SUBSET Marks
      /\ mark \cup {"commitfailed"} \in SUBSET Marks
  BY DEF TypeOK, RunOK, Marks
<1>1. CASE GateStart
  <2>1. PcOK'
    BY <1>1, GotoType DEF GateStart, GateSteps
  <2> QED
    BY <1>1, <2>1 DEF GateStart, TypeOK, EspOK, SlotsOK, RunOK, BudgetOK, HistOK
<1>2. CASE GateReset
  <2>1. PcOK'
    BY <1>2, GotoType DEF GateReset, GateSteps
  <2>2. env' \in Env /\ BudgetOK'
    <3>1. [env EXCEPT !.ok[boot.slot] = TRUE, !.try[boot.slot] = 0] \in Env
      BY <1>s, EnvTypes DEF TypeOK, EspOK
    <3> QED
      BY <1>2, <3>1, ReplaceType, FaultType
      DEF GateReset, LockTimeout, TypeOK, EspOK, BudgetOK
  <2>3. HistOK'
    BY <1>2, <1>s DEF GateReset, TypeOK, HistOK
  <2> QED
    BY <1>2, <2>1, <2>2, <2>3 DEF GateReset, TypeOK, EspOK, SlotsOK, RunOK
<1>3. CASE GateResetBak
  <2>1. PcOK'
    BY <1>3, GotoType DEF GateResetBak, GateSteps
  <2>2. EspOK' /\ BudgetOK'
    BY <1>3, SyncBakType DEF GateResetBak, TypeOK, EspOK
  <2> QED
    BY <1>3, <2>1, <2>2 DEF GateResetBak, TypeOK, SlotsOK, RunOK, HistOK
<1>4. CASE GateSettles
  <2>1. PcOK'
    BY <1>4, GotoType DEF GateSettles, GateSteps
  <2> QED
    BY <1>4, <2>1 DEF GateSettles, TypeOK, EspOK, SlotsOK, RunOK, BudgetOK, HistOK
<1>5. CASE GateStayOff
  <2>1. PcOK'
    BY <1>5, GotoType DEF GateStayOff, GateSteps
  <2>2. env' \in Env /\ BudgetOK'
    <3>1. [env EXCEPT !.stay = FALSE] \in Env
      BY EnvTypes, <1>s DEF TypeOK, EspOK
    <3> QED
      BY <1>5, <3>1, ReplaceType, FaultType
      DEF GateStayOff, LockTimeout, TypeOK, EspOK, BudgetOK
  <2> QED
    BY <1>5, <2>1, <2>2 DEF GateStayOff, TypeOK, EspOK, SlotsOK, RunOK, HistOK
<1>6. CASE GateStayBak
  <2>1. PcOK'
    BY <1>6, GotoType DEF GateStayBak, GateSteps
  <2>2. EspOK' /\ BudgetOK'
    BY <1>6, SyncBakType DEF GateStayBak, TypeOK, EspOK
  <2> QED
    BY <1>6, <2>1, <2>2 DEF GateStayBak, TypeOK, SlotsOK, RunOK, HistOK
<1>7. CASE GatePasses \/ GateFails
  <2>1. PcOK'
    BY <1>7, GotoType DEF GatePasses, GateFails, GateSteps
  <2> QED
    BY <1>7, <2>1
    DEF GatePasses, GateFails, TypeOK, EspOK, SlotsOK, RunOK, BudgetOK, HistOK
<1>8. CASE GateCommit
  <2>1. PcOK'
    BY <1>8, GotoType DEF GateCommit, CommitFailed, GateSteps
  <2>2. env' \in Env /\ BudgetOK'
    <3>1. Committed \in Env
      <4> DEFINE e == [env EXCEPT !.ok[boot.slot] = TRUE, !.try[boot.slot] = 0,
                                  !.com[boot.slot] = TRUE, !.retry = NoSlot]
      <4>1. e \in Env
        BY <1>s, EnvTypes DEF TypeOK, EspOK
      <4>2. Committed = [e EXCEPT !.stay = env.stay /\ ~boot.stay]
        BY <1>s DEF Committed, TypeOK, EspOK, Env
      <4> HIDE DEF e
      <4>3. (env.stay /\ ~boot.stay) \in BOOLEAN
        OBVIOUS
      <4> QED
        BY <1>s, <4>1, <4>2, <4>3, EnvTypes
    <3> QED
      BY <1>8, <3>1, ReplaceType DEF GateCommit, TypeOK, EspOK, BudgetOK
  <2>3. HistOK'
    <3>1. home' \in {home, env.order, boot.slot}
      BY <1>8 DEF GateCommit
    <3>2. tboots' \in {tboots, [tboots EXCEPT ![boot.slot] = 0]}
      BY <1>8 DEF GateCommit
    <3> QED
      BY <1>8, <1>s, <3>1, <3>2 DEF GateCommit, TypeOK, HistOK
  <2>4. SlotsOK' /\ RunOK'
    BY <1>8, <1>s, <1>m DEF GateCommit, CommitFailed, TypeOK, SlotsOK, RunOK
  <2>5. lock' \in Procs \cup {"free"}
    BY <1>8 DEF GateCommit, CommitFailed, TypeOK
  <2> QED
    BY <1>8, <2>1, <2>2, <2>3, <2>4, <2>5 DEF GateCommit, TypeOK, EspOK
<1>9. CASE GateCommitTimeout
  <2>1. PcOK'
    BY <1>9, GotoType DEF GateCommitTimeout, GateSteps
  <2>2. BudgetOK'
    BY <1>9, FaultType DEF GateCommitTimeout, LockTimeout
  <2> QED
    BY <1>9, <1>m, <2>1, <2>2
    DEF GateCommitTimeout, TypeOK, EspOK, SlotsOK, RunOK, HistOK
<1>10. CASE GateCommitBak
  <2>1. PcOK'
    <3>1. CASE Goto("gate", "done")
      BY <3>1, GotoType DEF GateSteps
    <3>2. CASE pc' = [pc EXCEPT !["gate"] = "done",
                            !["dl"] = IF @ = "armed" THEN "done" ELSE @,
                            !["sd"] = IF @ \in {"off", "armed"} THEN "done" ELSE @]
      <4>1. /\ "done" \in GateSteps /\ "done" \in DlSteps /\ "done" \in SdSteps
            /\ "done" \in Steps
        BY DEF GateSteps, DlSteps, SdSteps, Steps
      <4> QED
        BY <3>2, <4>1 DEF TypeOK, PcOK
    <3> QED BY <1>10, <3>1, <3>2 DEF GateCommitBak, CommitFailed
  <2>2. BudgetOK'
    BY <1>10, SyncBakType, FaultType DEF GateCommitBak, TypeOK, BudgetOK
  <2>3. EspOK'
    <3>1. CASE BakCopied
      BY <1>10, <3>1 DEF GateCommitBak, BakCopied, TypeOK, EspOK
    <3>2. CASE SyncBak(FALSE)
      BY <1>10, <3>2, SyncBakType DEF GateCommitBak, TypeOK, EspOK
    <3> QED BY <1>10, <3>1, <3>2 DEF GateCommitBak
  <2>4. RunOK' /\ lock' = "free"
    BY <1>10, <1>m DEF GateCommitBak, CommitFailed, TypeOK, RunOK
  <2> QED
    BY <1>10, <2>1, <2>2, <2>3, <2>4 DEF GateCommitBak, TypeOK, SlotsOK, HistOK
<1>11. CASE GateFailMark
  <2>1. PcOK'
    BY <1>11, GotoType DEF GateFailMark, GateSteps
  <2> QED
    BY <1>11, <1>m, <2>1
    DEF GateFailMark, TypeOK, EspOK, SlotsOK, RunOK, BudgetOK, HistOK
<1>12. CASE DeadlineFires
  <2>1. PcOK'
    BY <1>12, GotoType DEF DeadlineFires, DlSteps
  <2> QED
    BY <1>12, <2>1 DEF DeadlineFires, TypeOK, EspOK, SlotsOK, RunOK, BudgetOK, HistOK
<1>13. CASE DeadlineDecides
  <2>1. PcOK'
    BY <1>13, GotoType DEF DeadlineDecides, DlSteps
  <2>2. BudgetOK'
    BY <1>13, FaultType DEF DeadlineDecides, LockTimeout, TypeOK, BudgetOK
  <2>3. RunOK' /\ lock' \in Procs \cup {"free"}
    BY <1>13, <1>m DEF DeadlineDecides, TypeOK, RunOK
  <2> QED
    BY <1>13, <2>1, <2>2, <2>3 DEF DeadlineDecides, TypeOK, EspOK, SlotsOK, HistOK
<1>14. ASSUME NEW p \in {"gate", "dl"},
              FailWrite(p) \/ FailNoLock(p) \/ FailBak(p) \/ Killed(p)
       PROVE  TypeOK'
  <2>d. "done" \in GateSteps /\ "done" \in DlSteps /\ "failbak" \in GateSteps
        /\ "failbak" \in DlSteps
    BY DEF GateSteps, DlSteps
  <2>1. CASE FailWrite(p)
    <3>1. PcOK'
      BY <2>1, <2>d, GotoType DEF FailWrite
    <3>2. env' \in Env /\ BudgetOK'
      BY <2>1, <1>b, ReplaceType DEF FailWrite
    <3>3. stopping' \in BOOLEAN
      BY <2>1, <1>r DEF FailWrite, TypeOK, RunOK
    <3>4. HistOK'
      BY <2>1, <1>h DEF FailWrite
    <3> QED
      BY <2>1, <3>1, <3>2, <3>3, <3>4
      DEF FailWrite, TypeOK, EspOK, SlotsOK, RunOK
  <2>2. CASE FailNoLock(p)
    <3>1. PcOK'
      BY <2>2, <2>d, GotoType DEF FailNoLock
    <3>2. BudgetOK'
      BY <2>2, FaultType DEF FailNoLock, LockTimeout, TypeOK, BudgetOK
    <3> QED
      BY <2>2, <1>r, <3>1, <3>2
      DEF FailNoLock, TypeOK, EspOK, SlotsOK, RunOK, HistOK
  <2>3. CASE FailBak(p)
    <3>1. PcOK'
      BY <2>3, <2>d, GotoType DEF FailBak
    <3>2. EspOK' /\ BudgetOK'
      BY <2>3, SyncBakType DEF FailBak, TypeOK, EspOK
    <3> QED
      BY <2>3, <1>r, <3>1, <3>2 DEF FailBak, TypeOK, SlotsOK, RunOK, HistOK
  <2>4. CASE Killed(p)
    <3>1. PcOK'
      BY <2>4, <2>d, GotoType DEF Killed
    <3>2. BudgetOK'
      BY <2>4, FaultType DEF Killed, TypeOK, BudgetOK
    <3> QED
      BY <2>4, <3>1, <3>2 DEF Killed, TypeOK, EspOK, SlotsOK, RunOK, HistOK
  <2> QED BY <1>14, <2>1, <2>2, <2>3, <2>4
<1>15. CASE InhibitStarts \/ ShutdownStarts
  <2>1. PcOK'
    BY <1>15, GotoType DEF InhibitStarts, ShutdownStarts, SdSteps
  <2> QED
    BY <1>15, <2>1
    DEF InhibitStarts, ShutdownStarts, TypeOK, EspOK, SlotsOK, RunOK, BudgetOK, HistOK
<1>16. CASE ShutdownLeaves
  <2>1. PcOK'
    BY <1>16, GotoType DEF ShutdownLeaves, SdSteps
  <2>2. BudgetOK'
    BY <1>16, FaultType DEF ShutdownLeaves, LockTimeout, TypeOK, BudgetOK
  <2> QED
    BY <1>16, <2>1, <2>2 DEF ShutdownLeaves, TypeOK, EspOK, SlotsOK, RunOK, HistOK
<1>17. CASE ShutdownWrites
  <2>1. PcOK'
    BY <1>17, GotoType DEF ShutdownWrites, SdSteps
  <2>2. env' \in Env /\ BudgetOK'
    <3>1. [env EXCEPT !.try[boot.slot] = 0, !.retry = boot.slot] \in Env
      BY <1>s, EnvTypes DEF TypeOK, EspOK
    <3> QED
      BY <1>17, <1>b, <3>1, ReplaceType DEF ShutdownWrites
  <2>3. HistOK'
    BY <1>17, <1>h DEF ShutdownWrites, TypeOK, HistOK
  <2>4. RunOK' /\ lock' \in Procs \cup {"free"}
    BY <1>17, <1>m DEF ShutdownWrites, TypeOK, RunOK
  <2> QED
    BY <1>17, <2>1, <2>2, <2>3, <2>4 DEF ShutdownWrites, TypeOK, EspOK, SlotsOK
<1>18. CASE ShutdownBak
  <2>1. PcOK'
    BY <1>18, GotoType DEF ShutdownBak, SdSteps
  <2>2. EspOK' /\ BudgetOK'
    BY <1>18, SyncBakType DEF ShutdownBak, TypeOK, EspOK
  <2> QED
    BY <1>18, <2>1, <2>2 DEF ShutdownBak, TypeOK, SlotsOK, RunOK, HistOK
<1> QED
  BY <1>1, <1>2, <1>3, <1>4, <1>5, <1>6, <1>7, <1>8, <1>9, <1>10, <1>11, <1>12,
     <1>13, <1>14, <1>15, <1>16, <1>17, <1>18 DEF CommitNext

\* boat-update, RAUC and its handlers keep the types.
LEMMA InstallTypes == TypeOK /\ InstallNext => TypeOK'
<1> SUFFICES ASSUME TypeOK, InstallNext PROVE TypeOK'
  OBVIOUS
<1> USE DEF esp, slots, run, budget, hist, Procs
<1>s. boot.slot \in Slots /\ Target \in Slots
  BY SlotTypes DEF TypeOK, RunOK, Target
<1>w. ASSUME NEW new \in Env, NEW l \in InstSteps, LockedWrite(new, l)
      PROVE  env' \in Env /\ BudgetOK' /\ PcOK' /\ lock' \in {lock, "inst", "free"}
  <2>1. PcOK'
    BY <1>w, GotoType DEF LockedWrite, InstSteps
  <2>2. env' \in Env /\ BudgetOK'
    BY <1>w, ReplaceType, FaultType DEF LockedWrite, LockTimeout, TypeOK, EspOK
  <2> QED
    BY <1>w, <2>1, <2>2 DEF LockedWrite
<1>b. ASSUME NEW must, NEW l \in InstSteps, LockedBak(must, l)
      PROVE  /\ bak' \in Env /\ torn' \in SUBSET {"env", "bak"} /\ BudgetOK'
             /\ PcOK' /\ lock' = "free"
  <2>1. PcOK'
    BY <1>b, GotoType DEF LockedBak, InstSteps
  <2> QED
    BY <1>b, <2>1, SyncBakType DEF LockedBak
<1>n. ASSUME NEW w, Renewed(w)
      PROVE  tboots' \in [Slots -> Nat] /\ condemned' \in SUBSET Slots
  BY <1>n, <1>s DEF Renewed, TypeOK, HistOK
<1>i. InstSteps = {"idle", "pre", "prebak", "markbad", "badbak", "write", "writing",
              "activate", "actbak", "verify", "wrongbak",
              "rollback", "rollbak", "holdbak"}
  BY DEF InstSteps
<1>1. CASE InstallStarts
  <2>1. PcOK'
    BY <1>1, GotoType, <1>i DEF InstallStarts
  <2> QED
    BY <1>1, <2>1 DEF InstallStarts, TypeOK, EspOK, SlotsOK, RunOK, BudgetOK, HistOK
<1>2. CASE RaucAborts
  <2>1. PcOK'
    BY <1>2, GotoType, <1>i DEF RaucAborts
  <2> QED
    BY <1>2, <2>1 DEF RaucAborts, TypeOK, EspOK, SlotsOK, RunOK, BudgetOK, HistOK
<1>3. CASE InstallDone
  <2>1. PcOK'
    BY <1>3, GotoType, <1>i DEF InstallDone
  <2> QED
    BY <1>3, <2>1 DEF InstallDone, TypeOK, EspOK, SlotsOK, RunOK, BudgetOK, HistOK
<1>4. CASE RollbackAsked
  <2>1. PcOK'
    BY <1>4, GotoType, <1>i DEF RollbackAsked
  <2> QED
    BY <1>4, <2>1 DEF RollbackAsked, TypeOK, EspOK, SlotsOK, RunOK, BudgetOK, HistOK
<1>5. CASE PreInstallBak
  BY <1>5, <1>b, <1>i DEF PreInstallBak, TypeOK, EspOK, SlotsOK, RunOK, HistOK
<1>6. CASE RaucMarkBadBak
  BY <1>6, <1>b, <1>i DEF RaucMarkBadBak, TypeOK, EspOK, SlotsOK, RunOK, HistOK
<1>7. CASE RaucActivatesBak
  BY <1>7, <1>b, <1>i DEF RaucActivatesBak, TypeOK, EspOK, SlotsOK, RunOK, HistOK
<1>8. CASE StreamWrongBak
  BY <1>8, <1>b, <1>i DEF StreamWrongBak, TypeOK, EspOK, SlotsOK, RunOK, HistOK
<1>9. CASE DebugHoldBak
  BY <1>9, <1>b, <1>i DEF DebugHoldBak, TypeOK, EspOK, SlotsOK, RunOK, HistOK
<1>10. CASE RaucMarkBad
  <2>1. [env EXCEPT !.ok[Target] = FALSE, !.try[Target] = 0] \in Env
    BY <1>s, EnvTypes DEF TypeOK, EspOK
  <2> QED
    BY <1>10, <1>w, <1>i, <2>1 DEF RaucMarkBad, TypeOK, EspOK, SlotsOK, RunOK, HistOK
<1>11. CASE RaucActivates
  <2>1. [env EXCEPT !.order = Target, !.ok[Target] = TRUE, !.try[Target] = 0] \in Env
    BY <1>s, EnvTypes DEF TypeOK, EspOK
  <2> QED
    BY <1>11, <1>w, <1>i, <2>1 DEF RaucActivates, TypeOK, EspOK, SlotsOK, RunOK, HistOK
<1>12. CASE StreamWrong
  <2>1. [env EXCEPT !.order = boot.slot, !.ok[Target] = FALSE, !.try[Target] = 0] \in Env
    BY <1>s, EnvTypes DEF TypeOK, EspOK
  <2> QED
    BY <1>12, <1>w, <1>i, <2>1 DEF StreamWrong, TypeOK, EspOK, SlotsOK, RunOK, HistOK
<1>13. CASE PreInstall
  <2>1. Uncommitted \in Env
    BY <1>s, EnvTypes DEF Uncommitted, TypeOK, EspOK
  <2>2. HistOK'
    BY <1>13, <1>n DEF PreInstall, TypeOK, HistOK
  <2> QED
    BY <1>13, <1>w, <1>i, <2>1, <2>2 DEF PreInstall, TypeOK, EspOK, SlotsOK, RunOK
<1>14. CASE RaucWrites
  <2>1. PcOK'
    BY <1>14, GotoType, <1>i DEF RaucWrites
  <2>2. SlotsOK'
    BY <1>14, <1>s DEF RaucWrites, TypeOK, SlotsOK
  <2> QED
    BY <1>14, <2>1, <2>2 DEF RaucWrites, TypeOK, EspOK, RunOK, BudgetOK, HistOK
<1>15. CASE RaucWritten
  <2>1. PcOK'
    BY <1>15, GotoType, <1>i DEF RaucWritten
  <2>2. SlotsOK'
    BY <1>15, <1>s DEF RaucWritten, TypeOK, SlotsOK
  <2> QED
    BY <1>15, <2>1, <2>2 DEF RaucWritten, TypeOK, EspOK, RunOK, BudgetOK, HistOK
<1>16. CASE Rollback
  <2>1. [env EXCEPT !.order = Target, !.ok[Target] = TRUE, !.try[Target] = 0] \in Env
    BY <1>s, EnvTypes DEF TypeOK, EspOK
  <2>2. HistOK'
    BY <1>16, <1>s DEF Rollback, TypeOK, HistOK
  <2> QED
    BY <1>16, <1>w, <1>i, <2>1, <2>2 DEF Rollback, TypeOK, EspOK, SlotsOK, RunOK
<1>17. CASE RollbackBak
  <2>1. PcOK'
    BY <1>17, GotoType, <1>i DEF RollbackBak
  <2>2. EspOK' /\ BudgetOK'
    BY <1>17, SyncBakType DEF RollbackBak, TypeOK, EspOK
  <2> QED
    BY <1>17, <2>1, <2>2 DEF RollbackBak, TypeOK, SlotsOK, RunOK, HistOK
<1>18. CASE DebugHold
  <2>1. \A on \in BOOLEAN : [env EXCEPT !.stay = on] \in Env
    BY <1>s, EnvTypes DEF TypeOK, EspOK
  <2> QED
    BY <1>18, <1>w, <1>i, <2>1 DEF DebugHold, TypeOK, EspOK, SlotsOK, RunOK, HistOK
<1>19. CASE InstallKilled
  <2>1. PcOK'
    BY <1>19, GotoType, <1>i DEF InstallKilled
  <2> QED
    BY <1>19, <2>1 DEF InstallKilled, TypeOK, EspOK, SlotsOK, RunOK, BudgetOK, HistOK
<1> QED
  BY <1>1, <1>2, <1>3, <1>4, <1>5, <1>6, <1>7, <1>8, <1>9, <1>10, <1>11,
     <1>12, <1>13, <1>14, <1>15, <1>16, <1>17, <1>18, <1>19 DEF InstallNext

\* GRUB is past pick_slot only with a slot chosen.
ChosenOK == phase \in {"count", "load"} => grub.chosen \in Slots

\* GRUB's own updates of its variables.
LEMMA GrubVarTypes ==
  ASSUME NEW g \in GrubVars
  PROVE  /\ \A s \in Slots, b \in BOOLEAN : [g EXCEPT !.mem.ok[s] = b] \in GrubVars
         /\ \A s \in Slots : [g EXCEPT !.chosen = s] \in GrubVars
         /\ g.i < 3 => [g EXCEPT !.i = g.i + 1] \in GrubVars
         /\ \A s \in Slots : SlotAt(g.mem, g.i) \in Slots
         /\ Repick(g) \in GrubVars
         /\ GrubIdle \in GrubVars
<1>1. g.mem \in Env /\ g.i \in 1..3
  BY DEF GrubVars
<1>2. ASSUME NEW s \in Slots, NEW b \in BOOLEAN
      PROVE  [g EXCEPT !.mem.ok[s] = b] \in GrubVars
  <2>1. [g.mem EXCEPT !.ok[s] = b] \in Env
    BY <1>1, <1>2, EnvTypes
  <2>2. [g EXCEPT !.mem.ok[s] = b] = [g EXCEPT !.mem = [g.mem EXCEPT !.ok[s] = b]]
    BY DEF GrubVars
  <2> QED BY <2>1, <2>2 DEF GrubVars
<1>3. ASSUME NEW s \in Slots PROVE [g EXCEPT !.chosen = s] \in GrubVars
  BY <1>3 DEF GrubVars
<1>4. g.i < 3 => [g EXCEPT !.i = g.i + 1] \in GrubVars
  BY DEF GrubVars
<1>5. SlotAt(g.mem, g.i) \in Slots
  BY <1>1, SlotTypes DEF SlotAt, Env
<1>6. Repick(g) \in GrubVars
  <2>1. [g EXCEPT !.envok = FALSE] \in GrubVars
    BY DEF GrubVars
  <2>2. ASSUME NEW h \in GrubVars, NEW s \in Slots \cup {NoSlot}
        PROVE  [h EXCEPT !.skip = s, !.chosen = NoSlot] \in GrubVars
    BY <2>2 DEF GrubVars
  <2>3. ASSUME NEW h \in GrubVars PROVE [h EXCEPT !.i = 1] \in GrubVars
    BY <2>3 DEF GrubVars
  <2>4. g.chosen \in Slots \cup {NoSlot}
    BY DEF GrubVars
  <2>5. Repick(g) = [[[g EXCEPT !.envok = FALSE]
                         EXCEPT !.skip = g.chosen, !.chosen = NoSlot]
                         EXCEPT !.i = 1]
    BY DEF GrubVars, Repick
  <2> QED BY <2>1, <2>2, <2>3, <2>4, <2>5
<1>7. GrubIdle \in GrubVars
  BY EnvTypes DEF GrubVars, GrubIdle
<1> QED BY <1>2, <1>3, <1>4, <1>5, <1>6, <1>7

\* grub.cfg keeps the types, and what it counts and loads is a slot.
LEMMA GrubTypes == TypeOK /\ ChosenOK /\ GrubNext => TypeOK' /\ ChosenOK'
<1> SUFFICES ASSUME TypeOK, ChosenOK, GrubNext PROVE TypeOK' /\ ChosenOK'
  OBVIOUS
<1> USE DEF esp, slots, run, budget, hist
<1>g. grub \in GrubVars /\ grub.mem \in Env /\ grub.chosen \in Slots \cup {NoSlot}
  BY DEF TypeOK, GrubVars
<1>m. /\ grub.mem.ok \in [Slots -> BOOLEAN] /\ grub.mem.com \in [Slots -> BOOLEAN]
      /\ grub.mem.try \in [Slots -> 0..2] /\ grub.mem.stay \in BOOLEAN
  BY <1>g DEF Env
<1>a. ASSUME NEW e \in Env, Saved(e) \/ NotSaved PROVE env' \in Env /\ BudgetOK'
  BY <1>a, FaultType DEF Saved, NotSaved, TypeOK, EspOK, BudgetOK
<1>n. ASSUME NEW S, NoneLoads(S), UNCHANGED damage PROVE BudgetOK'
  BY <1>n, FaultType DEF NoneLoads, TypeOK, BudgetOK
<1>w. WarmReset => /\ HistOK' /\ grub' \in GrubVars /\ ChosenOK'
                   /\ phase' = "off"
  <2>1. WarmReset => HistOK'
    BY DEF WarmReset, TypeOK, HistOK
  <2>2. GrubIdle \in GrubVars
    BY <1>g, GrubVarTypes
  <2> QED
    BY <2>1, <2>2 DEF WarmReset, ChosenOK
<1>t. ASSUME NEW s \in Slots, NEW b \in BOOLEAN, NEW l \in BOOLEAN, Started(s, b, l)
      PROVE  /\ RunOK' /\ HistOK' /\ PcOK' /\ lock' = lock /\ ChosenOK'
             /\ phase' = "up" /\ grub' \in GrubVars
  <2>1. boot' \in Cmdline
    BY <1>t, <1>m DEF Started, Cmdline
  <2>2. tboots' \in [Slots -> Nat]
    BY <1>t DEF Started, TypeOK, HistOK
  <2> QED
    BY <1>t, <1>g, <2>1, <2>2, GrubVarTypes
    DEF Started, TypeOK, RunOK, HistOK, PcOK, ChosenOK
<1>1. CASE GrubStart
  <2>1. grub' \in GrubVars
    BY <1>1, EnvTypes DEF GrubStart, Defaults, Valid, GrubVars, TypeOK, EspOK
  <2> QED
    BY <1>1, <2>1 DEF GrubStart, TypeOK, ChosenOK, GrubPhases, EspOK, SlotsOK,
                      RunOK, PcOK, BudgetOK, HistOK
<1>2. CASE PickPass
  BY <1>2, <1>g, GrubVarTypes
  DEF PickPass, Scanning, TypeOK, ChosenOK, EspOK, SlotsOK, RunOK, PcOK, BudgetOK,
      HistOK
<1>3. CASE PickExhausted
  <2> DEFINE s == SlotAt(grub.mem, grub.i)
  <2>1. s \in Slots
    BY <1>g, GrubVarTypes DEF Slots
  <2>2. grub' \in GrubVars
    <3>1. [grub EXCEPT !.i = grub.i + 1] \in GrubVars
      BY <1>3, <1>g, GrubVarTypes DEF PickExhausted, Scanning
    <3>2. grub' = [[grub EXCEPT !.i = grub.i + 1] EXCEPT !.mem.ok[s] = FALSE]
      BY <1>3, <1>g DEF PickExhausted, GrubVars
    <3> QED
      BY <2>1, <3>1, <3>2, GrubVarTypes
  <2>3. [env EXCEPT !.ok[s] = FALSE] \in Env
    BY <2>1, EnvTypes DEF TypeOK, EspOK
  <2>4. env' \in Env /\ BudgetOK'
    BY <1>3, <1>a, <2>3 DEF PickExhausted, TypeOK, EspOK, BudgetOK
  <2> QED
    BY <1>3, <2>2, <2>4
    DEF PickExhausted, Scanning, TypeOK, ChosenOK, EspOK, SlotsOK, RunOK, PcOK, HistOK
<1>4. CASE PickChoose
  <2> DEFINE s == SlotAt(grub.mem, grub.i)
             n == IF grub.mem.try[s] = 0 THEN 1 ELSE 2
  <2>1. s \in Slots
    BY <1>g, GrubVarTypes DEF Slots
  <2>2. grub' = [grub EXCEPT !.chosen = s, !.mem = [grub.mem EXCEPT !.try[s] = n]]
    BY <1>4, <1>g DEF PickChoose, GrubVars
  <2>3. [grub.mem EXCEPT !.try[s] = n] \in Env
    BY <1>g, <2>1 DEF Env
  <2>4. grub' \in GrubVars /\ grub'.chosen \in Slots
    <3> HIDE DEF s, n
    <3> QED BY <1>g, <2>1, <2>2, <2>3 DEF GrubVars
  <2> QED
    BY <1>4, <2>4
    DEF PickChoose, TypeOK, ChosenOK, GrubPhases, EspOK, SlotsOK, RunOK, PcOK,
        BudgetOK, HistOK
<1>5. CASE PickNone
  <2>1. grub' \in GrubVars
    BY <1>5, <1>g DEF PickNone, GrubVars
  <2> QED
    BY <1>5, <2>1
    DEF PickNone, TypeOK, ChosenOK, GrubPhases, EspOK, SlotsOK, RunOK, PcOK, BudgetOK,
        HistOK
<1>6. CASE GrubCount
  <2>1. [env EXCEPT !.try = grub.mem.try] \in Env
    BY <1>m DEF TypeOK, EspOK, Env
  <2>2. env' \in Env /\ BudgetOK'
    BY <1>6, <1>a, <2>1 DEF GrubCount, TypeOK, EspOK, BudgetOK
  <2>3. grub' \in GrubVars /\ ChosenOK' /\ phase' \in GrubPhases
    BY <1>6, <1>g, GrubVarTypes DEF GrubCount, ChosenOK, GrubPhases
  <2> QED
    BY <1>6, <2>2, <2>3 DEF GrubCount, TypeOK, EspOK, SlotsOK, RunOK, PcOK, HistOK
<1>7. CASE GrubBoot
  <2>1. grub.chosen \in Slots /\ (~grub.mem.com[grub.chosen]) \in BOOLEAN
    BY <1>7 DEF GrubBoot, ChosenOK
  <2> QED
    BY <1>7, <1>t, <2>1 DEF GrubBoot, TypeOK, EspOK, SlotsOK, BudgetOK
<1>8. CASE LoadFailed
  <2>1. grub.chosen \in Slots
    BY <1>8 DEF LoadFailed, ChosenOK
  <2>2. env' \in Env
    <3>1. [grub.mem.ok EXCEPT ![grub.chosen] = FALSE] \in [Slots -> BOOLEAN]
      BY <1>m, <2>1
    <3> QED
      BY <1>8, <3>1 DEF LoadFailed, TypeOK, EspOK, Env
  <2>3. BudgetOK'
    BY <1>8, <1>n DEF LoadFailed
  <2> QED
    BY <1>8, <1>w, <2>2, <2>3 DEF LoadFailed, TypeOK, EspOK, SlotsOK, RunOK, PcOK
<1>9. CASE HandOver
  <2>1. grub.chosen \in Slots
    BY <1>9 DEF HandOver, ChosenOK
  <2>2. grub' \in GrubVars
    <3> DEFINE g == Repick(grub)
    <3>1. g \in GrubVars
      BY <1>g, GrubVarTypes
    <3>2. grub' = [g EXCEPT !.failed = grub.chosen, !.mem.ok[grub.chosen] = FALSE]
      BY <1>9 DEF HandOver
    <3> HIDE DEF g
    <3>3. [g EXCEPT !.failed = grub.chosen] \in GrubVars
      BY <2>1, <3>1 DEF GrubVars
    <3>4. grub' = [[g EXCEPT !.failed = grub.chosen] EXCEPT !.mem.ok[grub.chosen] = FALSE]
      BY <3>1, <3>2 DEF GrubVars
    <3> QED
      BY <2>1, <3>3, <3>4, GrubVarTypes
  <2>3. BudgetOK'
    BY <1>9, FaultType DEF HandOver, TypeOK, BudgetOK
  <2> QED
    BY <1>9, <2>2, <2>3
    DEF HandOver, TypeOK, ChosenOK, GrubPhases, EspOK, SlotsOK, RunOK, PcOK, HistOK
<1>10. CASE HandOverFailed \/ NothingLoads
  <2>1. BudgetOK'
    BY <1>10, <1>n DEF HandOverFailed, NothingLoads
  <2> QED
    BY <1>10, <1>w, <2>1
    DEF HandOverFailed, NothingLoads, TypeOK, EspOK, SlotsOK, RunOK, PcOK
<1>11. CASE LastResort
  <2>1. PICK s \in Candidates : /\ NoneLoads({t \in Candidates : Before(t, s)})
                                /\ Started(s, FALSE, TRUE)
    BY <1>11 DEF LastResort
  <2>2. s \in Slots
    BY DEF Candidates
  <2>3. BudgetOK'
    BY <1>11, <1>n, <2>1 DEF LastResort
  <2> QED
    BY <1>11, <1>t, <2>1, <2>2, <2>3 DEF LastResort, TypeOK, EspOK, SlotsOK
<1>12. CASE NvidiaTrips
  BY <1>12 DEF NvidiaTrips, TypeOK, ChosenOK, EspOK, SlotsOK, RunOK, PcOK, BudgetOK,
               HistOK
<1> QED
  BY <1>1, <1>2, <1>3, <1>4, <1>5, <1>6, <1>7, <1>8, <1>9, <1>10, <1>11, <1>12
  DEF GrubNext

\* Power cuts, crashes, shutdowns, losses and a reflash keep the types.
LEMMA BoardTypes == TypeOK /\ BoardNext => TypeOK' /\ (ChosenOK => ChosenOK')
<1> SUFFICES ASSUME TypeOK, BoardNext PROVE TypeOK' /\ (ChosenOK => ChosenOK')
  OBVIOUS
<1> USE DEF esp, slots, run, budget, hist
<1>f. PcOK /\ pc' = Fresh => PcOK'
  BY DEF PcOK, Fresh, Procs, Steps, GuardSteps, GateSteps, DlSteps, SdSteps, InstSteps
<1>g. GrubIdle \in GrubVars
  BY GrubVarTypes DEF TypeOK
<1>d. Down => /\ phase' = "off" /\ grub' \in GrubVars /\ RunOK' /\ PcOK'
              /\ lock' = "free" /\ ChosenOK'
              /\ UNCHANGED <<tboots, condemned, home>> /\ lost' \in 0..4
  <2>1. NoBoot \in Cmdline
    BY DEF NoBoot, Cmdline, Slots
  <2>2. Down => lost' \in 0..4
    BY DEF Down, TypeOK, HistOK
  <2> QED
    BY <1>f, <1>g, <2>1, <2>2 DEF Down, RunCleared, TypeOK, RunOK, ChosenOK
<1>1. CASE PowerCut
  BY <1>1, <1>d DEF PowerCut, TypeOK, EspOK, SlotsOK, BudgetOK, HistOK
<1>2. CASE Crash
  BY <1>2, <1>d DEF Crash, TypeOK, EspOK, SlotsOK, BudgetOK, HistOK
<1>3. CASE NvVerify \/ UserReboot
  <2>1. HistOK'
    BY <1>3 DEF NvVerify, UserReboot, TypeOK, HistOK
  <2>2. RunOK'
    BY <1>3 DEF NvVerify, UserReboot, TypeOK, RunOK
  <2> QED
    BY <1>3, <2>1, <2>2
    DEF NvVerify, UserReboot, TypeOK, ChosenOK, EspOK, SlotsOK, PcOK, BudgetOK
<1>4. CASE Halt
  BY <1>4, <1>d DEF Halt, TypeOK, EspOK, SlotsOK, BudgetOK, HistOK
<1>5. ASSUME NEW f \in {"env", "bak"}, Tear(f)
      PROVE  TypeOK' /\ (ChosenOK => ChosenOK')
  <2>1. EspOK' /\ BudgetOK'
    BY <1>5, EnvTypes, BudgetAssumption DEF Tear, TypeOK, EspOK, BudgetOK
  <2> QED
    BY <1>5, <2>1 DEF Tear, TypeOK, ChosenOK, SlotsOK, RunOK, PcOK, HistOK
<1>6. ASSUME NEW s \in Slots, Corrupt(s)
      PROVE  TypeOK' /\ (ChosenOK => ChosenOK')
  <2>1. SlotsOK' /\ BudgetOK'
    BY <1>6, BudgetAssumption DEF Corrupt, TypeOK, SlotsOK, BudgetOK
  <2> QED
    BY <1>6, <2>1 DEF Corrupt, TypeOK, ChosenOK, EspOK, RunOK, PcOK, HistOK
<1>7. CASE Reflash
  <2>1. HistOK'
    BY <1>7 DEF Reflash, HistOK, Slots
  <2> QED
    BY <1>7, <2>1, EnvTypes
    DEF Reflash, TypeOK, ChosenOK, EspOK, SlotsOK, RunOK, PcOK, BudgetOK
<1> QED
  BY <1>1, <1>2, <1>3, <1>4, <1>5, <1>6, <1>7 DEF BoardNext

\* No process of the running system is a step of GRUB.
LEMMA UpStepsKeepGrub ==
  GuardNext \/ CommitNext \/ InstallNext => UNCHANGED <<phase, grub>>
<1>1. GuardNext => UNCHANGED <<phase, grub>>
  BY DEF GuardNext, GuardLock, GuardDies, GuardReset, GuardResetBak, GuardHand,
         GuardBak, GuardRebuild, GuardRebuildFails, GuardRebuildBak
<1>2. CommitNext => UNCHANGED <<phase, grub>>
  BY DEF CommitNext, GateStart, GateReset, GateResetBak, GateSettles, GateStayOff,
         GateStayBak, GatePasses, GateFails, GateCommit, GateCommitTimeout,
         GateCommitBak, GateFailMark, DeadlineFires, DeadlineDecides, FailWrite,
         FailNoLock, FailBak, Killed, InhibitStarts, ShutdownStarts,
         ShutdownLeaves, ShutdownWrites, ShutdownBak
<1>3. InstallNext => UNCHANGED <<phase, grub>>
  BY DEF InstallNext, InstallStarts, PreInstall, PreInstallBak, RaucMarkBad,
         RaucMarkBadBak, RaucWrites, RaucWritten, RaucAborts, RaucActivates,
         RaucActivatesBak, InstallDone, StreamWrong, StreamWrongBak,
         RollbackAsked, Rollback, RollbackBak, DebugHold, DebugHoldBak,
         InstallKilled
<1> QED BY <1>1, <1>2, <1>3

\* The inductive invariant.
THEOREM TypesHold == Spec => [](TypeOK /\ ChosenOK)
<1>1. Init => TypeOK /\ ChosenOK
  <2> SUFFICES ASSUME Init PROVE TypeOK /\ ChosenOK
    OBVIOUS
  <2>1. EspOK /\ GrubIdle \in GrubVars
    BY EnvTypes DEF Init, EspOK, GrubIdle, GrubVars
  <2>2. PcOK
    BY DEF Init, PcOK, Fresh, Procs, Steps, GuardSteps, GateSteps, DlSteps, SdSteps,
           InstSteps
  <2>3. RunOK
    BY DEF Init, RunOK, NoBoot, Cmdline, Slots
  <2>4. BudgetOK /\ HistOK /\ SlotsOK
    BY BudgetAssumption DEF Init, BudgetOK, HistOK, SlotsOK, Slots
  <2> QED
    BY <2>1, <2>2, <2>3, <2>4 DEF Init, TypeOK, ChosenOK
<1>2. TypeOK /\ ChosenOK /\ [Next]_vars => (TypeOK /\ ChosenOK)'
  <2> SUFFICES ASSUME TypeOK, ChosenOK, [Next]_vars PROVE TypeOK' /\ ChosenOK'
    OBVIOUS
  <2>1. CASE GuardNext \/ CommitNext \/ InstallNext
    BY <2>1, UpStepsKeepGrub, GuardTypes, CommitTypes, InstallTypes DEF ChosenOK
  <2>2. CASE GrubNext
    BY <2>2, GrubTypes
  <2>3. CASE BoardNext
    BY <2>3, BoardTypes
  <2>4. CASE UNCHANGED vars
    BY <2>4 DEF vars, esp, slots, run, budget, hist, TypeOK, ChosenOK, EspOK, SlotsOK,
                RunOK, PcOK, BudgetOK, HistOK
  <2> QED
    BY <2>1, <2>2, <2>3, <2>4 DEF Next
<1> QED
  BY <1>1, <1>2, PTL DEF Spec

\* TypeOK is an invariant: grubenv, grubenv.bak, GRUB's variables, the kernel
\* command line and the steps of the five processes stay within their types,
\* through every fault, loss and power cut.
THEOREM TypeCorrect == Spec => []TypeOK
  BY TypesHold, PTL
-----------------------------------------------------------------------------
(***************************************************************************)
(* Counting.                                                               *)
(***************************************************************************)
\* While grubenv is saved, GRUB's memory claims no slot usable that is not so
\* in grubenv, and a trial that is being loaded has its attempt there.
CountInv ==
  /\ phase \in {"pick", "count", "load"} /\ grub.envok =>
       Valid /\ \A s \in Slots : grub.mem.ok[s] => env.ok[s]
  /\ phase \in {"count", "load"} => grub.mem.ok[grub.chosen]
  /\ phase = "count" =>
       /\ grub.mem.try[grub.chosen] >= 1
       /\ ~grub.mem.com[grub.chosen] => grub.envok
  /\ phase = "load" /\ ~grub.mem.com[grub.chosen] =>
       grub.envok /\ env.try[grub.chosen] >= 1

\* The processes of the running system run while it is up, and leave it up.
LEMMA UpSteps ==
  GuardNext \/ CommitNext \/ InstallNext => phase = "up" /\ phase' = "up"
<1>1. GuardNext => phase = "up"
  BY DEF GuardNext, GuardLock, GuardDies, GuardReset, GuardResetBak, GuardHand,
         GuardBak, GuardRebuild, GuardRebuildFails, GuardRebuildBak
<1>2. CommitNext => phase = "up"
  BY DEF CommitNext, Gate, GateStart, GateReset, GateResetBak, GateSettles,
         GateStayOff, GateStayBak, GatePasses, GateFails, GateCommit,
         GateCommitTimeout, GateCommitBak, GateFailMark, DeadlineFires,
         DeadlineDecides, FailWrite, FailNoLock, FailBak, Killed, InhibitStarts,
         ShutdownStarts, ShutdownLeaves, ShutdownWrites, ShutdownBak
<1>3. InstallNext => phase = "up"
  BY DEF InstallNext, Inst, Asked, InstallStarts, PreInstall, PreInstallBak,
         RaucMarkBad, RaucMarkBadBak, RaucWrites, RaucWritten, RaucAborts,
         RaucActivates, RaucActivatesBak, InstallDone, StreamWrong,
         StreamWrongBak, RollbackAsked, Rollback, RollbackBak, DebugHold,
         DebugHoldBak, InstallKilled
<1> QED BY <1>1, <1>2, <1>3, UpStepsKeepGrub

\* What happens to the board ends the boot or leaves its phase alone, and is
\* no step of GRUB.
LEMMA BoardSteps ==
  BoardNext => phase' = "off" \/ (phase \in {"off", "up"} /\ phase' = phase)
  BY DEF BoardNext, PowerCut, Crash, NvVerify, UserReboot, Halt, Tear, Corrupt,
         Reflash, Down, GuardDone

\* GRUB keeps the account straight through picking, saving and handing over.
LEMMA GrubCounts == TypeOK /\ ChosenOK /\ CountInv /\ GrubNext => CountInv'
<1> SUFFICES ASSUME TypeOK, ChosenOK, CountInv, GrubNext PROVE CountInv'
  OBVIOUS
<1> USE DEF esp
<1>t. /\ env \in Env /\ grub \in GrubVars /\ grub.mem \in Env
      /\ env.ok \in [Slots -> BOOLEAN] /\ grub.mem.ok \in [Slots -> BOOLEAN]
      /\ grub.mem.try \in [Slots -> 0..2]
  BY DEF TypeOK, EspOK, GrubVars, Env
<1>c. phase \in {"count", "load"} => grub.chosen \in Slots
  BY DEF ChosenOK
<1>1. CASE GrubStart
  <2>1. /\ grub'.envok = Valid /\ (Valid => grub'.mem = env)
        /\ phase' = "pick" /\ UNCHANGED <<env, torn>>
    BY <1>1 DEF GrubStart
  <2> QED BY <2>1 DEF CountInv, Valid
<1>2. CASE PickPass
  <2>1. /\ grub'.mem = grub.mem /\ grub'.envok = grub.envok
        /\ phase = "pick" /\ phase' = "pick" /\ UNCHANGED <<env, torn>>
    BY <1>2, <1>t DEF PickPass, Scanning, GrubVars
  <2> QED BY <2>1 DEF CountInv, Valid
<1>3. CASE PickExhausted
  <2> DEFINE s == SlotAt(grub.mem, grub.i)
  <2>1. s \in Slots
    BY <1>t, GrubVarTypes DEF Slots
  <2>2. /\ grub'.mem.ok = [grub.mem.ok EXCEPT ![s] = FALSE]
        /\ grub'.envok = grub.envok
        /\ phase = "pick" /\ phase' = "pick" /\ torn' = torn
    BY <1>3, <1>t, <2>1 DEF PickExhausted, Scanning, GrubVars, Env
  <2>3. env'.ok \in {env.ok, [env.ok EXCEPT ![s] = FALSE]}
    <3>1. env' \in {env, [env EXCEPT !.ok[s] = FALSE]}
      BY <1>3 DEF PickExhausted, Saved, NotSaved
    <3> QED BY <1>t, <2>1, <3>1 DEF Env
  <2>4. \A x \in Slots : (grub.mem.ok[x] => env.ok[x]) => (grub'.mem.ok[x] => env'.ok[x])
    <3> HIDE DEF s
    <3> QED BY <1>t, <2>1, <2>2, <2>3
  <2> QED BY <2>2, <2>4 DEF CountInv, Valid
<1>4. CASE PickChoose
  <2> DEFINE s == SlotAt(grub.mem, grub.i)
             n == IF grub.mem.try[s] = 0 THEN 1 ELSE 2
  <2>1. s \in Slots
    BY <1>t, GrubVarTypes DEF Slots
  <2>2. grub' = [grub EXCEPT !.chosen = s, !.mem = [grub.mem EXCEPT !.try[s] = n]]
    BY <1>4, <1>t DEF PickChoose, GrubVars
  <2>3. LET m == [grub.mem EXCEPT !.try[s] = n]
        IN  m.ok = grub.mem.ok /\ m.com = grub.mem.com /\ m.try[s] >= 1
    BY <1>t, <2>1 DEF Env
  <2>4. /\ grub.mem.ok[s] /\ (grub.mem.com[s] \/ grub.envok)
        /\ phase = "pick" /\ phase' = "count" /\ UNCHANGED <<env, torn>>
    BY <1>4 DEF PickChoose, Scanning
  <2>5. /\ grub'.chosen = s /\ grub'.envok = grub.envok
        /\ grub'.mem = [grub.mem EXCEPT !.try[s] = n]
    <3> HIDE DEF s, n
    <3> QED BY <1>t, <2>2 DEF GrubVars
  <2> HIDE DEF s, n
  <2> QED BY <2>3, <2>4, <2>5 DEF CountInv, Valid
<1>5. CASE PickNone \/ LoadFailed \/ HandOverFailed \/ NothingLoads \/ NvidiaTrips
             \/ GrubBoot \/ LastResort
  BY <1>5 DEF PickNone, LoadFailed, HandOverFailed, NothingLoads, NvidiaTrips,
              GrubBoot, LastResort, WarmReset, Started, CountInv
<1>6. CASE GrubCount
  <2>1. CASE grub.envok /\ Saved([env EXCEPT !.try = grub.mem.try])
               /\ phase' = "load" /\ UNCHANGED <<grub, torn>>
    <3>1. env' = [env EXCEPT !.try = grub.mem.try]
      BY <2>1 DEF Saved
    <3>2. env'.ok = env.ok /\ env'.try = grub.mem.try
      BY <1>t, <3>1 DEF Env
    <3> QED BY <1>6, <2>1, <3>2 DEF GrubCount, CountInv, Valid
  <2>2. CASE UNCHANGED <<env, grub, torn>> /\ grub.mem.com[grub.chosen] /\ phase' = "load"
    BY <1>6, <2>2 DEF GrubCount, CountInv, Valid
  <2>3. CASE grub' = Repick(grub) /\ phase' = "pick"
    <3>1. ~grub'.envok
      BY <1>t, <2>3 DEF Repick, GrubVars
    <3> QED BY <2>3, <3>1 DEF CountInv
  <2>4. CASE ~grub.envok /\ phase' = "load" /\ UNCHANGED <<env, grub, torn>>
    BY <1>6, <2>4 DEF GrubCount, CountInv, Valid
  <2> QED
    BY <1>6, <2>1, <2>2, <2>3, <2>4 DEF GrubCount, NotSaved, BootsUncounted
<1>7. CASE HandOver
  <2>1. phase' = "pick" /\ ~grub'.envok
    BY <1>7, <1>t DEF HandOver, Repick, GrubVars
  <2> QED BY <2>1 DEF CountInv
<1> QED
  BY <1>1, <1>2, <1>3, <1>4, <1>5, <1>6, <1>7 DEF GrubNext

\* So it is in every state.
LEMMA CountInvariant == Spec => []CountInv
<1>1. Init => CountInv
  BY DEF Init, CountInv
<1>2. TypeOK /\ ChosenOK /\ CountInv /\ [Next]_vars => CountInv'
  <2> SUFFICES ASSUME TypeOK, ChosenOK, CountInv, [Next]_vars PROVE CountInv'
    OBVIOUS
  <2>1. CASE GuardNext \/ CommitNext \/ InstallNext
    BY <2>1, UpSteps DEF CountInv
  <2>2. CASE GrubNext
    BY <2>2, GrubCounts
  <2>3. CASE BoardNext
    BY <2>3, BoardSteps DEF CountInv
  <2>4. CASE UNCHANGED vars
    BY <2>4 DEF vars, esp, CountInv, Valid
  <2> QED BY <2>1, <2>2, <2>3, <2>4 DEF Next
<1> QED
  BY <1>1, <1>2, TypesHold, PTL DEF Spec

\* GRUB boots no slot on trial whose attempt is not in grubenv, through every
\* failed save, hand-over, loss and power cut.
THEOREM TrialsAreCounted == Spec => TrialCounted
<1>1. /\ TypeOK /\ ChosenOK /\ CountInv /\ [Next]_vars
      => [phase # "up" /\ phase' = "up" /\ boot'.trial
            => Valid /\ env.ok[boot'.slot] /\ env.try[boot'.slot] >= 1]_vars
  <2> SUFFICES ASSUME ChosenOK, CountInv, Next, phase # "up", phase' = "up", boot'.trial
               PROVE  Valid /\ env.ok[boot'.slot] /\ env.try[boot'.slot] >= 1
    BY DEF vars
  <2>1. GrubNext
    BY UpSteps, BoardSteps DEF Next
  <2>2. GrubBoot
    <3>1. LastResort => ~boot'.trial
      BY DEF LastResort, Started
    <3>2. ~(GrubStart \/ PickPass \/ PickExhausted \/ PickChoose \/ PickNone)
      BY DEF GrubStart, PickPass, PickExhausted, PickChoose, PickNone
    <3>3. ~(GrubCount \/ LoadFailed \/ HandOver \/ HandOverFailed \/ NothingLoads
              \/ NvidiaTrips)
      BY DEF GrubCount, LoadFailed, HandOver, HandOverFailed, NothingLoads,
             NvidiaTrips, WarmReset
    <3> QED BY <2>1, <3>1, <3>2, <3>3 DEF GrubNext
  <2>3. /\ boot'.slot = grub.chosen /\ ~grub.mem.com[grub.chosen]
        /\ phase = "load" /\ grub.chosen \in Slots
    BY <2>2 DEF GrubBoot, Started, ChosenOK
  <2> QED BY <2>3 DEF CountInv
<1> QED
  BY <1>1, TypesHold, CountInvariant, PTL DEF Spec, TrialCounted

-----------------------------------------------------------------------------
(***************************************************************************)
(* Provenance: nothing is committed that was not flashed or tried.         *)
(***************************************************************************)
\* A board whose grubenv is torn and not yet rebuilt: nobody is on the way to
\* copy it, nothing is installed, and beside a trial there is a proven release.
Quiet ==
  /\ pc["guard"] \in {"start", "run", "done"}
  /\ pc["gate"] \in {"start", "check", "fail", "failwrite", "done"}
  /\ pc["dl"] # "failbak" /\ pc["sd"] # "bak" /\ pc["inst"] = "idle"
  /\ boot.trial => proven[Target]

\* One copy can be read; what is committed in one that can, or in GRUB's memory,
\* is proven; and neither has the target committed once RAUC is let near it.
Sound ==
  /\ Valid \/ "bak" \notin torn
  /\ CommittedIsProven /\ UntriedOnTrial
  /\ phase \in GrubPhases => \A s \in Slots : grub.mem.com[s] => proven[s]
  /\ phase # "up" => pc = Fresh
  /\ phase = "up" /\ ~Valid => Quiet
  /\ pc["inst"] \in {"prebak", "markbad", "badbak", "write"} => ~env.com[Target]
  /\ pc["inst"] \in {"markbad", "badbak", "write"} => "bak" \notin torn /\ ~bak.com[Target]

\* The same while nothing was lost, when both copies can be read.
Intact == torn = {} /\ Sound

ProvenInv == damage = MaxDamage => Intact

\* A loss that leaves what the guard and GRUB go by: of the two copies one, and
\* grubenv only where the guard, which takes the other slot of a trial for a
\* committed one when it rebuilds, is right about it.
RecoverableLoss ==
  \A f \in {"env", "bak"} : Tear(f) =>
    /\ torn = {}
    /\ f = "env" /\ phase = "up" /\ boot.trial => proven[Target]

\* grubenv_replace: grubenv stays as it was or becomes what was asked for.
LEMMA ReplaceKeeps ==
  ASSUME NEW new, NEW ok, Replace(new, ok)
  PROVE  env' \in {env, new} /\ damage' = damage /\ (~Valid => ~ok /\ env' = env)
  BY DEF Replace

\* The copy is what it was, or was brought up to date with a readable grubenv.
CopyMoves == UNCHANGED <<bak, torn>> \/ (bak' = env /\ torn' = torn \ {"bak"})

\* grubenv_sync_bak of a grubenv that can be read.
LEMMA SyncBakKeeps ==
  ASSUME NEW ok, SyncBak(ok), Valid
  PROVE  CopyMoves /\ damage' = damage
  BY DEF SyncBak, BakCopied, CopyMoves

\* A process moves itself and no other.
LEMMA GotoOther ==
  ASSUME TypeOK, NEW p \in Procs, NEW q \in Procs, p # q, NEW l, Goto(p, l)
  PROVE  pc'[q] = pc[q]
  BY DEF TypeOK, PcOK, Goto

\* Nothing happened that concerns a commit: at most the copy was brought up to
\* date, and an install went on or gave up.
Neutral ==
  /\ Valid /\ env'.com = env.com /\ CopyMoves
  /\ UNCHANGED <<proven, phase, grub, boot>> /\ phase = "up"

\* How an install moves while it keeps off the commits.
InstMoves ==
  \/ pc'["inst"] = pc["inst"]
  \/ pc'["inst"] = "idle"
  \/ pc'["inst"] \notin {"prebak", "markbad", "badbak", "write"}
  \/ pc["inst"] = "markbad" /\ pc'["inst"] = "badbak"
  \/ pc["inst"] = "badbak" /\ pc'["inst"] = "write"

\* Such a step keeps what is committed proven.
LEMMA NeutralStep == Sound /\ Neutral /\ InstMoves => Sound'
<1> SUFFICES ASSUME Sound, Neutral, InstMoves PROVE Sound'
  OBVIOUS
<1> USE DEF InstMoves, CopyMoves
<1>1. Target' = Target /\ Valid'
  BY DEF Neutral, Target, Valid
<1>2. CommittedIsProven' /\ UntriedOnTrial'
  BY <1>1 DEF Sound, Neutral, CommittedIsProven, UntriedOnTrial
<1>3. phase' = "up"
  BY DEF Neutral
<1>4. /\ pc'["inst"] \in {"prebak", "markbad", "badbak", "write"} => ~env'.com[Target]
      /\ pc'["inst"] \in {"markbad", "badbak", "write"} =>
           "bak" \notin torn' /\ ~bak'.com[Target]
  BY DEF Sound, Neutral
<1> QED BY <1>1, <1>2, <1>3, <1>4 DEF Sound, GrubPhases

\* A step with a torn grubenv that leaves it torn and the slots alone.
LEMMA QuietStep ==
  ASSUME Sound, ~Valid, phase = "up", UNCHANGED <<esp, proven, phase, boot>>, Quiet'
  PROVE  Sound'
<1>1. Target' = Target /\ pc'["inst"] = "idle" /\ Valid' = Valid
  BY DEF Target, Quiet, esp, Valid
<1>2. CommittedIsProven' /\ UntriedOnTrial'
  BY <1>1 DEF Sound, CommittedIsProven, UntriedOnTrial, esp
<1> QED BY <1>1, <1>2 DEF Sound, GrubPhases, esp

\* boat-grubenv-guard commits, in what it rebuilds, only the slot it was booted
\* from outside of a trial, or the one beside a trial.
LEMMA GuardProven == TypeOK /\ Sound /\ GuardNext => Sound'
<1> SUFFICES ASSUME TypeOK, Sound, GuardNext PROVE Sound'
  OBVIOUS
<1> USE DEF esp, slots, run, budget, hist, Procs
<1>t. env \in Env
  BY DEF TypeOK, EspOK
<1>s. boot.slot \in Slots /\ Other(boot.slot) \in Slots
  BY SlotTypes DEF TypeOK, RunOK
<1>p. ASSUME NEW l, Goto("guard", l)
      PROVE  /\ pc'["inst"] = pc["inst"] /\ pc'["gate"] = pc["gate"]
             /\ pc'["dl"] = pc["dl"] /\ pc'["sd"] = pc["sd"] /\ pc'["guard"] = l
  BY <1>p, GotoOther DEF Goto, TypeOK, PcOK
<1>n. ASSUME Neutral, pc'["inst"] = pc["inst"] PROVE Sound'
  BY <1>n, NeutralStep DEF InstMoves
<1>q. ASSUME ~Valid, phase = "up", UNCHANGED <<esp, proven, phase, boot>>,
             NEW l \in {"start", "run", "done"}, Goto("guard", l)
      PROVE  Sound'
  <2>1. Quiet
    BY <1>q DEF Sound
  <2>2. Quiet'
    BY <1>q, <1>p, <2>1 DEF Quiet, Target
  <2> QED BY <1>q, <2>2, QuietStep
<1>v. phase = "up" /\ pc["guard"] \in {"resetbak", "hand", "bak", "rebuildbak"} => Valid
  BY DEF Sound, Quiet
<1>1. CASE GuardLock \/ GuardDies
  <2>1. CASE Valid
    BY <1>1, <1>p, <1>n, <2>1 DEF GuardLock, GuardDies, Neutral, CopyMoves
  <2>2. CASE ~Valid
    BY <1>1, <1>q, <2>2 DEF GuardLock, GuardDies
  <2> QED BY <2>1, <2>2
<1>2. CASE GuardReset
  <2>1. env' \in {env, [env EXCEPT !.try[boot.slot] = 0]}
    BY <1>2, ReplaceKeeps DEF GuardReset
  <2>2. env'.com = env.com
    BY <1>t, <1>s, <2>1 DEF Env
  <2> QED
    BY <1>2, <1>p, <1>n, <2>2 DEF GuardReset, Neutral, CopyMoves
<1>3. CASE GuardResetBak \/ GuardBak \/ GuardRebuildBak
  BY <1>3, <1>v, <1>p, <1>n, SyncBakKeeps
  DEF GuardResetBak, GuardBak, GuardRebuildBak, GuardEnds, Neutral
<1>4. CASE GuardHand
  <2>1. env' \in {env, [env EXCEPT !.ok[Other(boot.slot)] = FALSE]}
    BY <1>4, ReplaceKeeps DEF GuardHand
  <2>2. env'.com = env.com
    BY <1>t, <1>s, <2>1 DEF Env
  <2> QED
    BY <1>4, <1>v, <1>p, <1>n, <2>2 DEF GuardHand, Neutral, CopyMoves
<1>5. CASE GuardRebuild
  <2>1. /\ phase = "up" /\ phase' = "up" /\ ~Valid /\ env' = Rebuilt /\ torn' = torn \ {"env"}
        /\ UNCHANGED <<bak, proven, boot>> /\ pc'["inst"] = pc["inst"]
    BY <1>5, <1>p DEF GuardRebuild
  <2>2. /\ Quiet /\ "bak" \notin torn'
    BY <2>1 DEF Sound
  <2>3. ~boot.trial /\ ~boot.last => proven[boot.slot]
    BY <2>1 DEF Sound, UntriedOnTrial
  <2>4. \A s \in Slots : env'.com[s] => proven'[s]
    <3>1. \A s \in Slots : env'.com[s] <=> IF s = boot.slot THEN ~boot.trial /\ ~boot.last
                                           ELSE boot.trial
      BY <2>1 DEF Rebuilt
    <3>2. \A s \in Slots : s = boot.slot \/ s = Target
      BY <1>s DEF Target, Other, Slots
    <3> QED BY <2>1, <2>2, <2>3, <3>1, <3>2 DEF Quiet
  <2>5. CommittedIsProven' /\ UntriedOnTrial' /\ Valid'
    BY <2>1, <2>2, <2>4 DEF Sound, CommittedIsProven, UntriedOnTrial, Valid
  <2> QED BY <2>1, <2>2, <2>5 DEF Sound, Quiet, GrubPhases
<1>6. CASE GuardRebuildFails
  BY <1>6, <1>q DEF GuardRebuildFails, GuardEnds
<1> QED BY <1>1, <1>2, <1>3, <1>4, <1>5, <1>6 DEF GuardNext

\* boat-commit commits only what it has just seen pass.
LEMMA CommitProven == TypeOK /\ Sound /\ CommitNext => Sound'
<1> SUFFICES ASSUME TypeOK, Sound, CommitNext PROVE Sound'
  OBVIOUS
<1> USE DEF esp, slots, run, budget, hist, Procs
<1>t. env \in Env /\ boot.slot \in Slots
  BY SlotTypes DEF TypeOK, EspOK, RunOK
<1>u. phase = "up" /\ phase' = "up"
  BY UpSteps
<1>p. ASSUME NEW p \in {"gate", "dl", "sd"}, NEW l, Goto(p, l)
      PROVE  /\ pc'[p] = l /\ pc'["inst"] = pc["inst"]
             /\ \A q \in Procs : q # p => pc'[q] = pc[q]
  BY <1>p, GotoOther DEF Goto, TypeOK, PcOK
<1>n. ASSUME Neutral, pc'["inst"] = pc["inst"] PROVE Sound'
  BY <1>n, NeutralStep DEF InstMoves
<1>q. ASSUME ~Valid, UNCHANGED <<esp, proven, phase, boot>>,
             NEW p \in {"gate", "dl", "sd"}, NEW l, Goto(p, l),
             p = "gate" => l \in {"check", "fail", "failwrite", "done"},
             p = "dl" => l # "failbak", p = "sd" => l # "bak"
      PROVE  Sound'
  <2>1. Quiet
    BY <1>q, <1>u DEF Sound
  <2>2. Quiet'
    BY <1>q, <1>p, <2>1 DEF Quiet, Target
  <2> QED BY <1>q, <1>u, <2>2, QuietStep
\* Only what reads grubenv gets as far as a write of it and the copy.
<1>v. /\ pc["gate"] \in {"reset", "resetbak", "stayoff", "staybak", "commit", "commitbak",
                         "failbak"} => Valid
      /\ pc["dl"] = "failbak" => Valid
      /\ pc["sd"] = "bak" => Valid
  BY <1>u DEF Sound, Quiet
<1>b. Bad(boot.slot).com = env.com
  BY <1>t DEF Bad, Env
<1>1. CASE GateStart \/ GateSettles \/ GatePasses \/ GateFails \/ GateFailMark
             \/ DeadlineFires \/ InhibitStarts \/ ShutdownStarts
  <2>1. CASE Valid
    BY <1>1, <1>p, <1>n, <2>1
    DEF GateStart, GateSettles, GatePasses, GateFails, GateFailMark, DeadlineFires,
        InhibitStarts, ShutdownStarts, Neutral, CopyMoves, Gate
  <2>2. CASE ~Valid
    <3>1. CASE GateStart \/ GateSettles \/ GateFails \/ GateFailMark
      BY <1>q, <2>2, <3>1 DEF GateStart, IsCommitted, GateSettles, GateFails, GateFailMark
    <3>2. CASE DeadlineFires \/ InhibitStarts \/ ShutdownStarts
      BY <1>q, <2>2, <3>2 DEF DeadlineFires, InhibitStarts, ShutdownStarts
    <3> QED BY <1>1, <2>2, <3>1, <3>2 DEF GatePasses
  <2> QED BY <2>1, <2>2
<1>2. CASE GateReset
  <2>1. env' \in {env, [env EXCEPT !.ok[boot.slot] = TRUE, !.try[boot.slot] = 0]}
    BY <1>2, ReplaceKeeps DEF GateReset
  <2>2. env'.com = env.com
    BY <1>t, <2>1 DEF Env
  <2> QED
    BY <1>2, <1>v, <1>p, <1>n, <2>2 DEF GateReset, Gate, Neutral, CopyMoves
<1>3. CASE GateStayOff
  <2>1. env' \in {env, [env EXCEPT !.stay = FALSE]}
    BY <1>3, ReplaceKeeps DEF GateStayOff
  <2>2. env'.com = env.com
    BY <1>t, <2>1 DEF Env
  <2> QED
    BY <1>3, <1>v, <1>p, <1>n, <2>2 DEF GateStayOff, Gate, Neutral, CopyMoves
<1>4. CASE GateResetBak \/ GateStayBak \/ ShutdownBak
  BY <1>4, <1>v, <1>p, <1>n, SyncBakKeeps
  DEF GateResetBak, GateStayBak, ShutdownBak, Gate, Neutral
<1>5. CASE GateCommit
  <2>0. Valid
    BY <1>5, <1>v DEF GateCommit, Gate
  <2>1. pc'["inst"] = pc["inst"]
    BY <1>5, <1>p DEF GateCommit, CommitFailed
  <2>2. env' \in {env, Committed}
    BY <1>5, ReplaceKeeps DEF GateCommit
  <2>3. CASE env' = env /\ proven' = proven
    BY <1>5, <1>u, <1>n, <2>0, <2>1, <2>3 DEF GateCommit, Neutral, CopyMoves
  <2>4. CASE proven' = [proven EXCEPT ![boot.slot] = TRUE]
    <3>1. /\ \A s \in Slots : env'.com[s] => s = boot.slot \/ env.com[s]
          /\ Target # boot.slot /\ Target \in Slots
      <4>1. Committed.com = [env.com EXCEPT ![boot.slot] = TRUE]
        BY <1>t DEF Committed, Env
      <4>2. env.com \in [Slots -> BOOLEAN]
        BY <1>t DEF Env
      <4> QED
        BY <1>t, <2>2, <4>1, <4>2 DEF Target, Other, Slots
    <3>2. \A s \in Slots : proven'[s] <=> s = boot.slot \/ proven[s]
      BY <1>t, <2>4 DEF TypeOK, SlotsOK
    <3>3. Target' = Target /\ Valid' /\ UNCHANGED <<bak, torn, phase, grub, boot>>
      BY <1>5, <2>0 DEF GateCommit, Target, Valid
    <3>4. CommittedIsProven' /\ UntriedOnTrial'
      BY <1>t, <2>0, <3>1, <3>2, <3>3 DEF Sound, CommittedIsProven, UntriedOnTrial
    <3>5. /\ pc'["inst"] \in {"prebak", "markbad", "badbak", "write"} => ~env'.com[Target]
          /\ pc'["inst"] \in {"markbad", "badbak", "write"} =>
               "bak" \notin torn' /\ ~bak'.com[Target]
      BY <1>u, <2>1, <3>1, <3>3 DEF Sound
    <3> QED BY <1>u, <3>3, <3>4, <3>5 DEF Sound, GrubPhases
  <2> QED
    BY <1>5, <2>3, <2>4 DEF GateCommit
<1>6. CASE GateCommitTimeout
  BY <1>6, <1>v, <1>p, <1>n DEF GateCommitTimeout, Gate, Neutral, CopyMoves
<1>7. CASE GateCommitBak
  <2>0. Valid
    BY <1>7, <1>v DEF GateCommitBak, Gate
  <2>1. pc'["inst"] = pc["inst"]
    BY <1>7, <1>p DEF GateCommitBak, CommitFailed, TypeOK, PcOK
  <2>2. CopyMoves
    BY <1>7, <2>0, SyncBakKeeps DEF GateCommitBak, BakCopied, CopyMoves
  <2> QED
    BY <1>7, <1>u, <1>n, <2>0, <2>1, <2>2 DEF GateCommitBak, Neutral
<1>8. CASE DeadlineDecides
  <2>1. UNCHANGED <<esp, proven, phase, boot, grub>>
    BY <1>8 DEF DeadlineDecides
  <2>2. \E l \in {"done", "failwrite", "failnolock"} : Goto("dl", l)
    BY <1>8 DEF DeadlineDecides
  <2>3. CASE Valid
    BY <1>u, <1>p, <1>n, <2>1, <2>2, <2>3 DEF Neutral, CopyMoves
  <2>4. CASE ~Valid
    BY <1>q, <2>1, <2>2, <2>4
  <2> QED BY <2>3, <2>4
<1>9. ASSUME NEW p \in {"gate", "dl"},
             FailWrite(p) \/ FailNoLock(p) \/ FailBak(p) \/ Killed(p)
      PROVE  Sound'
  <2>1. CASE FailWrite(p)
    <3>1. PICK ok \in BOOLEAN :
            Replace(Bad(boot.slot), ok) /\ Goto(p, IF ok THEN "failbak" ELSE "done")
      BY <2>1 DEF FailWrite
    <3>2. UNCHANGED <<bak, torn, proven, phase, grub, boot>>
      BY <2>1 DEF FailWrite
    <3>3. CASE Valid
      BY <1>u, <1>b, <1>p, <1>n, <3>1, <3>2, <3>3, ReplaceKeeps DEF Neutral, CopyMoves
    <3>4. CASE ~Valid
      BY <1>q, <3>1, <3>2, <3>4, ReplaceKeeps
    <3> QED BY <3>3, <3>4
  <2>2. CASE FailNoLock(p) \/ Killed(p)
    <3>1. Goto(p, "done") /\ UNCHANGED <<esp, proven, phase, grub, boot>>
      BY <2>2 DEF FailNoLock, Killed
    <3>2. CASE Valid
      BY <1>u, <1>p, <1>n, <3>1, <3>2 DEF Neutral, CopyMoves
    <3>3. CASE ~Valid
      BY <1>q, <3>1, <3>3
    <3> QED BY <3>2, <3>3
  <2>3. CASE FailBak(p)
    BY <2>3, <1>v, <1>p, <1>n, SyncBakKeeps DEF FailBak, Neutral
  <2> QED BY <1>9, <2>1, <2>2, <2>3
<1>10. CASE ShutdownLeaves
  <2>1. Goto("sd", "done") /\ UNCHANGED <<esp, proven, phase, grub, boot>>
    BY <1>10 DEF ShutdownLeaves
  <2>2. CASE Valid
    BY <1>u, <1>p, <1>n, <2>1, <2>2 DEF Neutral, CopyMoves
  <2>3. CASE ~Valid
    BY <1>q, <2>1, <2>3
  <2> QED BY <2>2, <2>3
<1>11. CASE ShutdownWrites
  <2>1. env' \in {env, Bad(boot.slot),
                  [env EXCEPT !.try[boot.slot] = 0, !.retry = boot.slot]}
    BY <1>11, ReplaceKeeps DEF ShutdownWrites
  <2>2. env'.com = env.com
    <3>1. [env EXCEPT !.try[boot.slot] = 0, !.retry = boot.slot].com = env.com
      BY <1>t DEF Env
    <3> QED BY <1>b, <2>1, <3>1
  <2>3. Valid
    BY <1>11 DEF ShutdownWrites, Undecided
  <2> QED
    BY <1>11, <1>p, <1>n, <2>2, <2>3 DEF ShutdownWrites, Neutral, CopyMoves
<1> QED
  BY <1>1, <1>2, <1>3, <1>4, <1>5, <1>6, <1>7, <1>8, <1>9, <1>10, <1>11
  DEF CommitNext

\* An install clears the target's commit in both copies before RAUC writes it.
LEMMA InstallProven == TypeOK /\ Sound /\ InstallNext => Sound'
<1> SUFFICES ASSUME TypeOK, Sound, InstallNext PROVE Sound'
  OBVIOUS
<1> USE DEF esp, slots, run, budget, hist, Procs
<1>t. /\ env \in Env /\ boot.slot \in Slots
      /\ Target \in Slots /\ Target # boot.slot
  BY SlotTypes DEF TypeOK, EspOK, RunOK, Target, Other, Slots
<1>u. phase = "up" /\ phase' = "up"
  BY UpSteps
<1>p. ASSUME NEW l, Goto("inst", l)
      PROVE  pc'["inst"] = l /\ \A q \in Procs : q # "inst" => pc'[q] = pc[q]
  BY <1>p, GotoOther DEF Goto, TypeOK, PcOK
<1>w. ASSUME NEW new, NEW l, l # "idle", LockedWrite(new, l)
      PROVE  /\ env' \in {env, new} /\ pc'["inst"] \in {l, "idle"}
             /\ pc'["inst"] = l => env' = new
  BY <1>w, <1>p, ReplaceKeeps DEF LockedWrite, Replace
<1>b. ASSUME NEW must, NEW l, LockedBak(must, l), Valid
      PROVE  /\ CopyMoves /\ pc'["inst"] \in {l, "idle"}
             /\ must /\ pc'["inst"] # "idle" => bak' = env /\ "bak" \notin torn'
  <2>1. PICK ok \in BOOLEAN :
          SyncBak(ok) /\ Goto("inst", IF ok \/ ~must THEN l ELSE "idle")
    BY <1>b DEF LockedBak
  <2>2. must /\ pc'["inst"] # "idle" => ok
    BY <1>p, <2>1
  <2>3. ok => bak' = env /\ "bak" \notin torn'
    BY <1>b, <2>1 DEF SyncBak, BakCopied
  <2> QED
    BY <1>b, <1>p, <2>1, <2>2, <2>3, SyncBakKeeps
<1>n. ASSUME Neutral, InstMoves PROVE Sound'
  BY <1>n, NeutralStep
\* With a torn grubenv nothing but a debug hold is asked for, and refused.
<1>1. CASE ~Valid
  <2>1. Quiet
    BY <1>1, <1>u DEF Sound
  <2>2. DebugHold
    BY <1>1, <2>1
    DEF Quiet, InstallNext, Inst, InstallStarts, PreInstall, PreInstallBak,
        RaucMarkBad, RaucMarkBadBak, RaucWrites, RaucWritten, RaucAborts,
        RaucActivates, RaucActivatesBak, InstallDone, StreamWrong, StreamWrongBak,
        RollbackAsked, Rollback, RollbackBak, DebugHoldBak, InstallKilled
  <2>3. PICK on \in BOOLEAN : LockedWrite([env EXCEPT !.stay = on], "holdbak")
    BY <2>2 DEF DebugHold
  <2>4. env' = env /\ Goto("inst", "idle")
    BY <1>1, <2>3, ReplaceKeeps DEF LockedWrite
  <2>5. Quiet' /\ UNCHANGED <<esp, proven, phase, boot>>
    BY <1>p, <2>1, <2>2, <2>4 DEF Quiet, DebugHold, Target
  <2> QED BY <1>1, <1>u, <2>5, QuietStep
<1>2. CASE Valid
  <2> USE <1>2
  <2>1. CASE InstallStarts \/ RaucAborts \/ InstallDone \/ RollbackAsked \/ InstallKilled
    BY <1>p, <1>n, <2>1
    DEF InstallStarts, RaucAborts, InstallDone, RollbackAsked, InstallKilled,
        Asked, Inst, Neutral, CopyMoves, InstMoves
  <2>2. CASE RaucWritten
    BY <1>p, <1>n, <2>2 DEF RaucWritten, Inst, Neutral, CopyMoves, InstMoves
  <2>3. CASE PreInstall
    <3>1. /\ env' \in {env, Uncommitted} /\ pc'["inst"] \in {"prebak", "idle"}
          /\ pc'["inst"] = "prebak" => env' = Uncommitted
      BY <1>w, <2>3 DEF PreInstall
    <3>2. \A s \in Slots : env'.com[s] => env.com[s]
      <4>1. Uncommitted.com = [env.com EXCEPT ![Target] = FALSE]
        BY <1>t DEF Uncommitted, Env
      <4>2. env.com \in [Slots -> BOOLEAN]
        BY <1>t DEF Env
      <4> QED BY <1>t, <3>1, <4>1, <4>2
    <3>3. pc'["inst"] = "prebak" => ~env'.com[Target]
      BY <1>t, <3>1 DEF Uncommitted, Env
    <3>4. Target' = Target /\ Valid' /\ UNCHANGED <<bak, torn, proven, phase, grub, boot>>
      BY <2>3 DEF PreInstall, Target, Valid
    <3>5. CommittedIsProven' /\ UntriedOnTrial'
      BY <3>2, <3>4 DEF Sound, CommittedIsProven, UntriedOnTrial
    <3> QED BY <1>u, <3>1, <3>3, <3>4, <3>5 DEF Sound, GrubPhases
  <2>4. CASE PreInstallBak
    <3>1. /\ CopyMoves /\ pc'["inst"] \in {"markbad", "idle"}
          /\ pc'["inst"] = "markbad" => bak' = env /\ "bak" \notin torn'
      BY <1>b, <2>4 DEF PreInstallBak
    <3>2. Target' = Target /\ UNCHANGED <<env, proven, phase, grub, boot>>
          /\ pc["inst"] = "prebak"
      BY <2>4 DEF PreInstallBak, Target, Inst
    <3>3. Valid' /\ CommittedIsProven' /\ UntriedOnTrial'
      BY <3>1, <3>2 DEF CopyMoves, Valid, Sound, CommittedIsProven, UntriedOnTrial
    <3> QED BY <1>u, <3>1, <3>2, <3>3 DEF Sound, GrubPhases
  <2>5. CASE RaucMarkBad
    <3>1. /\ env' \in {env, [env EXCEPT !.ok[Target] = FALSE, !.try[Target] = 0]}
          /\ pc'["inst"] \in {"badbak", "idle"}
      BY <1>w, <2>5 DEF RaucMarkBad
    <3>2. env'.com = env.com
      BY <1>t, <3>1 DEF Env
    <3> QED
      BY <1>n, <2>5, <3>1, <3>2 DEF RaucMarkBad, Inst, Neutral, CopyMoves, InstMoves
  <2>6. CASE RaucMarkBadBak
    BY <1>b, <1>n, <2>6 DEF RaucMarkBadBak, Inst, Neutral, InstMoves
  <2>7. CASE RaucWrites
    <3>1. pc'["inst"] = "writing"
      BY <1>p, <2>7 DEF RaucWrites
    <3>2. /\ Target' = Target /\ Valid' /\ UNCHANGED <<env, bak, torn, phase, grub, boot>>
          /\ pc["inst"] = "write"
      BY <2>7 DEF RaucWrites, Target, Inst, Valid
    <3>3. \A s \in Slots : proven[s] /\ s # Target => proven'[s]
      BY <1>t, <2>7 DEF RaucWrites, TypeOK, SlotsOK
    <3>4. ~env.com[Target] /\ ~bak.com[Target]
      BY <3>2 DEF Sound
    <3>5. CommittedIsProven' /\ UntriedOnTrial'
      BY <1>t, <3>2, <3>3, <3>4 DEF Sound, CommittedIsProven, UntriedOnTrial
    <3> QED BY <1>u, <3>1, <3>2, <3>5 DEF Sound, GrubPhases
  <2>8. CASE RaucActivates \/ StreamWrong \/ Rollback \/ DebugHold
    <3>1. /\ env'.com = env.com
          /\ pc'["inst"] \in {"actbak", "wrongbak", "rollbak", "holdbak", "idle"}
      <4>1. CASE RaucActivates \/ Rollback
        <5>1. /\ env' \in {env, [env EXCEPT !.order = Target, !.ok[Target] = TRUE,
                                            !.try[Target] = 0]}
              /\ pc'["inst"] \in {"actbak", "rollbak", "idle"}
          BY <1>w, <4>1 DEF RaucActivates, Rollback
        <5> QED BY <1>t, <5>1 DEF Env
      <4>2. CASE StreamWrong
        <5>1. /\ env' \in {env, [env EXCEPT !.order = boot.slot, !.ok[Target] = FALSE,
                                            !.try[Target] = 0]}
              /\ pc'["inst"] \in {"wrongbak", "idle"}
          BY <1>w, <4>2 DEF StreamWrong
        <5> QED BY <1>t, <5>1 DEF Env
      <4>3. CASE DebugHold
        <5>1. PICK on \in BOOLEAN : LockedWrite([env EXCEPT !.stay = on], "holdbak")
          BY <4>3 DEF DebugHold
        <5>2. /\ env' \in {env, [env EXCEPT !.stay = on]}
              /\ pc'["inst"] \in {"holdbak", "idle"}
          BY <1>w, <5>1
        <5> QED BY <1>t, <5>2 DEF Env
      <4> QED BY <2>8, <4>1, <4>2, <4>3
    <3> QED
      BY <1>n, <2>8, <3>1
      DEF RaucActivates, StreamWrong, Rollback, DebugHold, Asked, Inst, Neutral,
          CopyMoves, InstMoves
  <2>9. CASE RaucActivatesBak \/ StreamWrongBak \/ DebugHoldBak
    <3>1. CopyMoves /\ pc'["inst"] \in {"verify", "idle"}
      BY <1>b, <2>9 DEF RaucActivatesBak, StreamWrongBak, DebugHoldBak
    <3> QED
      BY <1>n, <2>9, <3>1
      DEF RaucActivatesBak, StreamWrongBak, DebugHoldBak, Inst, Neutral, InstMoves
  <2>10. CASE RollbackBak
    BY <1>p, <1>n, <2>10, SyncBakKeeps DEF RollbackBak, Inst, Neutral, InstMoves
  <2> QED
    BY <2>1, <2>2, <2>3, <2>4, <2>5, <2>6, <2>7, <2>8, <2>9, <2>10 DEF InstallNext
<1> QED BY <1>1, <1>2

\* GRUB saves no commit, and holds what it read for committed.
LEMMA GrubCom ==
  TypeOK /\ GrubNext =>
    /\ env'.com = env.com
    /\ phase' \in GrubPhases =>
         GrubStart \/ (phase \in GrubPhases /\ grub'.mem.com = grub.mem.com)
<1> SUFFICES ASSUME TypeOK, GrubNext
             PROVE  /\ env'.com = env.com
                    /\ phase' \in GrubPhases =>
                         GrubStart \/ (phase \in GrubPhases /\ grub'.mem.com = grub.mem.com)
  OBVIOUS
<1> USE DEF esp, budget
<1>t. /\ env \in Env /\ grub \in GrubVars /\ grub.mem \in Env
  BY DEF TypeOK, EspOK, GrubVars
<1>a. ASSUME NEW e, Saved(e) \/ NotSaved PROVE env' \in {env, e}
  BY <1>a DEF Saved, NotSaved
<1>w. WarmReset => phase' = "off"
  BY DEF WarmReset
<1>1. CASE GrubStart \/ GrubBoot \/ LastResort
  BY <1>1 DEF GrubStart, GrubBoot, LastResort, Started, GrubPhases
<1>2. CASE PickPass
  BY <1>2, <1>t DEF PickPass, Scanning, GrubVars, GrubPhases
<1>3. CASE PickChoose
  <2> DEFINE s == SlotAt(grub.mem, grub.i)
             n == IF grub.mem.try[s] = 0 THEN 1 ELSE 2
  <2>1. grub' = [grub EXCEPT !.chosen = s, !.mem = [grub.mem EXCEPT !.try[s] = n]]
    BY <1>3, <1>t DEF PickChoose, GrubVars
  <2>2. [grub.mem EXCEPT !.try[s] = n].com = grub.mem.com
    BY <1>t DEF Env
  <2> HIDE DEF s, n
  <2>3. grub'.mem.com = grub.mem.com
    BY <1>t, <2>1, <2>2 DEF GrubVars
  <2> QED BY <1>3, <2>3 DEF PickChoose, Scanning, GrubPhases
<1>4. CASE PickNone
  BY <1>4, <1>t DEF PickNone, GrubVars, GrubPhases
<1>5. CASE PickExhausted
  <2> DEFINE s == SlotAt(grub.mem, grub.i)
  <2>1. s \in Slots
    BY <1>t, GrubVarTypes DEF Slots
  <2>2. env' \in {env, [env EXCEPT !.ok[s] = FALSE]}
    BY <1>5, <1>a DEF PickExhausted
  <2>3. env'.com = env.com
    BY <1>t, <2>2 DEF Env
  <2>4. grub'.mem.com = grub.mem.com
    BY <1>5, <1>t DEF PickExhausted, GrubVars, Env
  <2> QED BY <1>5, <2>3, <2>4 DEF PickExhausted, Scanning, GrubPhases
<1>6. CASE GrubCount
  <2>1. env' \in {env, [env EXCEPT !.try = grub.mem.try]}
    BY <1>6, <1>a DEF GrubCount
  <2>2. env'.com = env.com
    BY <1>t, <2>1 DEF Env
  <2>3. grub'.mem.com = grub.mem.com
    BY <1>6, <1>t DEF GrubCount, Repick, GrubVars
  <2> QED BY <1>6, <2>2, <2>3 DEF GrubCount, GrubPhases
<1>7. CASE LoadFailed
  <2>1. env'.com = env.com
    BY <1>7, <1>t DEF LoadFailed, Env
  <2> QED BY <1>7, <1>w, <2>1 DEF LoadFailed, GrubPhases
<1>8. CASE HandOver
  <2>1. grub'.mem.com = grub.mem.com
    BY <1>8, <1>t DEF HandOver, Repick, GrubVars, Env
  <2> QED BY <1>8, <2>1 DEF HandOver, GrubPhases
<1>9. CASE HandOverFailed \/ NothingLoads \/ NvidiaTrips
  BY <1>9, <1>w DEF HandOverFailed, NothingLoads, NvidiaTrips, GrubPhases
<1> QED
  BY <1>1, <1>2, <1>3, <1>4, <1>5, <1>6, <1>7, <1>8, <1>9 DEF GrubNext

\* GRUB boots outside of a trial only what it holds as committed.
LEMMA GrubProven ==
  TypeOK /\ ChosenOK /\ CountInv /\ Sound /\ GrubNext => Sound'
<1> SUFFICES ASSUME TypeOK, ChosenOK, CountInv, Sound, GrubNext PROVE Sound'
  OBVIOUS
<1> USE DEF esp, slots, run, budget, hist
<1>f. phase # "up" => pc = Fresh /\ pc["inst"] = "idle"
  BY DEF Sound, Fresh, Procs
<1>q. ASSUME env'.com = env.com, UNCHANGED <<bak, torn, proven, boot, pc>>,
             phase # "up", phase' # "up",
             phase' \in GrubPhases => \A s \in Slots : grub'.mem.com[s] => proven[s]
      PROVE  Sound'
  BY <1>q, <1>f DEF Sound, CommittedIsProven, UntriedOnTrial, Valid
<1>u. ASSUME NEW s, NEW trial, NEW last, Started(s, trial, last), phase # "up",
             UNCHANGED <<esp, proven>>, proven[s] \/ trial \/ last, ~Valid => ~trial
      PROVE  Sound'
  <2>1. /\ phase' = "up" /\ pc' = pc /\ pc = Fresh
        /\ boot'.slot = s /\ boot'.trial = trial /\ boot'.last = last
    BY <1>u, <1>f DEF Started
  <2>2. Valid' = Valid /\ CommittedIsProven' /\ UntriedOnTrial'
    BY <1>u, <2>1 DEF Valid, Sound, CommittedIsProven, UntriedOnTrial
  <2>3. ~Valid => Quiet'
    BY <1>u, <2>1 DEF Quiet, Fresh, Procs
  <2>4. pc'["inst"] = "idle"
    BY <1>f, <1>u, <2>1
  <2> QED BY <1>u, <2>1, <2>2, <2>3, <2>4 DEF Sound, GrubPhases
<1>1. CASE GrubStart
  <2>1. \A s \in Slots : grub'.mem.com[s] => proven[s]
    <3>1. grub'.mem = IF Valid THEN env ELSE bak
      BY <1>1 DEF GrubStart, Sound
    <3> QED BY <3>1 DEF Sound, CommittedIsProven, Valid
  <2> QED BY <1>1, <1>q, <2>1 DEF GrubStart, GrubPhases
<1>2. CASE GrubBoot
  <2>1. proven[grub.chosen] \/ ~grub.mem.com[grub.chosen]
    BY <1>2 DEF GrubBoot, ChosenOK, GrubPhases, Sound
  <2>2. ~Valid => grub.mem.com[grub.chosen]
    BY <1>2 DEF GrubBoot, CountInv
  <2> QED BY <1>2, <1>u, <2>1, <2>2 DEF GrubBoot
<1>3. CASE LastResort
  BY <1>3, <1>u DEF LastResort
<1>4. CASE ~(GrubStart \/ GrubBoot \/ LastResort)
  <2>1. /\ UNCHANGED <<bak, torn, proven, boot, pc>> /\ phase # "up" /\ phase' # "up"
    BY <1>4 DEF GrubNext, PickPass, PickExhausted, PickChoose, PickNone, Scanning,
       GrubCount, LoadFailed, HandOver, HandOverFailed, NothingLoads, NvidiaTrips, WarmReset
  <2>2. phase' \in GrubPhases => \A s \in Slots : grub'.mem.com[s] => proven[s]
    BY <1>4, GrubCom DEF Sound
  <2> QED BY <1>q, <2>1, <2>2, GrubCom
<1> QED
  BY <1>1, <1>2, <1>3, <1>4


\* Only a loss is taken from MaxDamage.
LEMMA DamageKept ==
  GuardNext \/ CommitNext \/ InstallNext \/ GrubNext => damage' = damage
<1> USE DEF budget, Replace, SyncBak, LockTimeout
<1>1. GuardNext => damage' = damage
  BY DEF GuardNext, GuardLock, GuardDies, GuardReset, GuardResetBak, GuardHand,
         GuardBak, GuardRebuild, GuardRebuildFails, GuardRebuildBak
<1>2. CommitNext => damage' = damage
  BY DEF CommitNext, GateStart, GateReset, GateResetBak, GateSettles, GateStayOff,
         GateStayBak, GatePasses, GateFails, GateCommit, GateCommitTimeout,
         GateCommitBak, GateFailMark, DeadlineFires, DeadlineDecides, FailWrite,
         FailNoLock, FailBak, Killed, InhibitStarts, ShutdownStarts,
         ShutdownLeaves, ShutdownWrites, ShutdownBak
<1>3. InstallNext => damage' = damage
  BY DEF InstallNext, InstallStarts, PreInstall, PreInstallBak, RaucMarkBad,
         RaucMarkBadBak, RaucWrites, RaucWritten, RaucAborts, RaucActivates,
         RaucActivatesBak, InstallDone, StreamWrong, StreamWrongBak,
         RollbackAsked, Rollback, RollbackBak, DebugHold, DebugHoldBak,
         InstallKilled, LockedWrite, LockedBak
<1>4. GrubNext => damage' = damage
  BY DEF GrubNext, GrubStart, PickPass, PickExhausted, PickChoose, PickNone,
         GrubCount, GrubBoot, LoadFailed, HandOver, HandOverFailed, LastResort,
         NothingLoads, NvidiaTrips, Saved, NotSaved
<1> QED BY <1>1, <1>2, <1>3, <1>4

\* Of these steps only the guard's and those that copy grubenv over its copy
\* touch torn, and with nothing torn they find nothing to change.
LEMMA TornKept ==
  GuardNext \/ CommitNext \/ InstallNext \/ GrubNext => (torn = {} => torn' = {})
<1> USE DEF esp, SyncBak, BakCopied, Valid
<1>1. GuardNext => (torn = {} => torn' = {})
  BY DEF GuardNext, GuardLock, GuardDies, GuardReset, GuardResetBak, GuardHand,
         GuardBak, GuardRebuild, GuardRebuildFails, GuardRebuildBak
<1>2. CommitNext => (torn = {} => torn' = {})
  BY DEF CommitNext, GateStart, GateReset, GateResetBak, GateSettles, GateStayOff,
         GateStayBak, GatePasses, GateFails, GateCommit, GateCommitTimeout,
         GateCommitBak, GateFailMark, DeadlineFires, DeadlineDecides, FailWrite,
         FailNoLock, FailBak, Killed, InhibitStarts, ShutdownStarts,
         ShutdownLeaves, ShutdownWrites, ShutdownBak
<1>3. InstallNext => (torn = {} => torn' = {})
  BY DEF InstallNext, InstallStarts, PreInstall, PreInstallBak, RaucMarkBad,
         RaucMarkBadBak, RaucWrites, RaucWritten, RaucAborts, RaucActivates,
         RaucActivatesBak, InstallDone, StreamWrong, StreamWrongBak,
         RollbackAsked, Rollback, RollbackBak, DebugHold, DebugHoldBak,
         InstallKilled, LockedBak
<1>4. GrubNext => (torn = {} => torn' = {})
  BY DEF GrubNext, GrubStart, PickPass, PickExhausted, PickChoose, PickNone,
         GrubCount, GrubBoot, LoadFailed, HandOver, HandOverFailed, LastResort,
         NothingLoads, NvidiaTrips
<1> QED BY <1>1, <1>2, <1>3, <1>4

\* The end of a boot commits nothing, a reflash only what it wrote, and a loss
\* that is recoverable leaves a copy to go by.
LEMMA BoardProven == TypeOK /\ Sound /\ BoardNext /\ RecoverableLoss => Sound'
<1> SUFFICES ASSUME TypeOK, Sound, BoardNext, RecoverableLoss PROVE Sound'
  OBVIOUS
<1> USE DEF esp, slots, run, budget, hist
<1>1. CASE PowerCut \/ Crash \/ Halt
  <2>1. /\ phase' = "off" /\ pc' = Fresh /\ pc'["inst"] = "idle"
        /\ UNCHANGED <<env, bak, torn, proven>>
    BY <1>1 DEF PowerCut, Crash, Halt, Down, RunCleared, Fresh, Procs
  <2>2. Valid' = Valid /\ CommittedIsProven' /\ UntriedOnTrial'
    BY <2>1 DEF Valid, Sound, CommittedIsProven, UntriedOnTrial
  <2> QED BY <2>1, <2>2 DEF Sound, GrubPhases
<1>2. CASE NvVerify \/ UserReboot \/ \E s \in Slots : Corrupt(s)
  <2>1. UNCHANGED <<env, bak, torn, proven, phase, grub, boot, pc>>
    BY <1>2 DEF NvVerify, UserReboot, Corrupt
  <2>2. /\ Valid' = Valid /\ Target' = Target /\ Quiet' = Quiet
        /\ CommittedIsProven' /\ UntriedOnTrial'
    BY <2>1 DEF Valid, Target, Quiet, Sound, CommittedIsProven, UntriedOnTrial
  <2> QED BY <2>1, <2>2 DEF Sound
<1>3. ASSUME NEW f \in {"env", "bak"}, Tear(f) PROVE Sound'
  <2>1. /\ torn = {} /\ torn' = {f} /\ pc = Fresh /\ pc["inst"] = "idle"
        /\ f = "env" /\ phase = "up" /\ boot.trial => proven[Target]
    BY <1>3 DEF RecoverableLoss, Tear, Fresh, Procs
  <2>2. /\ UNCHANGED <<proven, phase, grub, boot, pc>> /\ phase \in {"off", "up"}
        /\ f = "env" => bak' = bak
        /\ f = "bak" => env' = env
    BY <1>3 DEF Tear
  <2>3. /\ Valid' <=> f = "bak"
        /\ "bak" \notin torn' <=> f = "env"
        /\ Valid /\ "bak" \notin torn
    BY <2>1 DEF Valid
  <2>4. CommittedIsProven' /\ UntriedOnTrial'
    BY <2>2, <2>3 DEF Sound, CommittedIsProven, UntriedOnTrial
  <2>5. f = "env" /\ phase = "up" => Quiet'
    BY <2>1, <2>2 DEF Quiet, Fresh, Procs, Target
  <2> QED BY <2>1, <2>2, <2>3, <2>4, <2>5 DEF Sound, GrubPhases
<1>4. CASE Reflash
  <2>1. /\ phase' = "off" /\ pc' = pc /\ phase # "up"
        /\ torn' = {} /\ env' = Flashed /\ bak' = Flashed
        /\ proven' = [s \in Slots |-> s = "A"]
    BY <1>4 DEF Reflash
  <2>2. CommittedIsProven' /\ UntriedOnTrial'
    BY <2>1 DEF CommittedIsProven, UntriedOnTrial, Flashed
  <2>3. pc' = Fresh /\ pc'["inst"] = "idle"
    BY <2>1 DEF Sound, Fresh, Procs
  <2> QED BY <2>1, <2>2, <2>3 DEF Sound, GrubPhases, Valid
<1> QED BY <1>1, <1>2, <1>3, <1>4 DEF BoardNext

\* Every step keeps what is committed proven, a loss where it is recoverable.
LEMMA SoundStep ==
  TypeOK /\ ChosenOK /\ CountInv /\ Sound /\ [Next /\ RecoverableLoss]_vars => Sound'
<1> SUFFICES ASSUME TypeOK, ChosenOK, CountInv, Sound, [Next /\ RecoverableLoss]_vars
             PROVE  Sound'
  OBVIOUS
<1>1. CASE UNCHANGED vars
  <2>1. /\ UNCHANGED <<env, bak, torn, proven, phase, grub, boot, pc>>
    BY <1>1 DEF vars, esp, slots, run
  <2>2. /\ Valid' = Valid /\ Target' = Target /\ Quiet' = Quiet
        /\ CommittedIsProven' /\ UntriedOnTrial'
    BY <2>1 DEF Valid, Target, Quiet, Sound, CommittedIsProven, UntriedOnTrial
  <2> QED BY <2>1, <2>2 DEF Sound
<1>2. CASE Next /\ RecoverableLoss
  BY <1>2, GuardProven, CommitProven, InstallProven, GrubProven, BoardProven DEF Next
<1> QED BY <1>1, <1>2

\* What is lost stays lost.
LEMMA NoneLost ==
  ASSUME TypeOK, [Next]_vars, damage' = MaxDamage
  PROVE  /\ damage = MaxDamage /\ RecoverableLoss
         /\ ~(\E f \in {"env", "bak"} : Tear(f)) /\ ~(\E s \in Slots : Corrupt(s))
<1>t. damage \in 0..MaxDamage /\ MaxDamage \in Nat
  BY BudgetAssumption DEF TypeOK, BudgetOK
<1>1. \A f \in {"env", "bak"} : ~Tear(f)
  BY <1>t DEF Tear
<1>2. \A s \in Slots : ~Corrupt(s)
  BY <1>t DEF Corrupt
<1>3. CASE UNCHANGED vars
  BY <1>1, <1>2, <1>3 DEF vars, budget, RecoverableLoss
<1>4. CASE Next
  <2>1. BoardNext => damage' = damage
    BY <1>1, <1>2
    DEF BoardNext, PowerCut, Crash, Halt, NvVerify, UserReboot, Reflash, budget
  <2> QED BY <1>1, <1>2, <1>4, <2>1, DamageKept DEF Next, RecoverableLoss
<1> QED BY <1>3, <1>4

LEMMA InitSound == Init => Intact
  BY DEF Init, Intact, Sound, CommittedIsProven, UntriedOnTrial, Flashed, GrubPhases,
         Fresh, Procs, Slots, Valid

\* Losses apart, every step keeps the two copies readable as well.
LEMMA ProvenInvariant == Spec => []ProvenInv
<1>1. Init => ProvenInv
  BY InitSound DEF ProvenInv
<1>2. TypeOK /\ ChosenOK /\ CountInv /\ ProvenInv /\ [Next]_vars => ProvenInv'
  <2> SUFFICES ASSUME TypeOK, ChosenOK, CountInv, ProvenInv, [Next]_vars,
                      damage' = MaxDamage
               PROVE  Intact'
    BY DEF ProvenInv
  <2>1. Intact /\ [Next /\ RecoverableLoss]_vars
    BY NoneLost DEF ProvenInv
  <2>2. Sound'
    BY <2>1, SoundStep DEF Intact
  <2>3. torn' = {}
    <3>1. BoardNext => torn' \in {torn, {}}
      BY NoneLost
      DEF BoardNext, PowerCut, Crash, Halt, NvVerify, UserReboot, Reflash, esp
    <3>2. UNCHANGED vars => torn' = torn
      BY DEF vars, esp
    <3> QED BY <2>1, <3>1, <3>2, TornKept DEF Next, Intact
  <2> QED BY <2>2, <2>3 DEF Intact
<1> QED
  BY <1>1, <1>2, TypesHold, CountInvariant, PTL DEF Spec

\* As long as no copy of grubenv and no slot was lost, whatever write, lock or
\* load fails and wherever the power goes: only a flashed or tried release is
\* committed in grubenv or its copy (pre-install clears the target's commit in
\* both before RAUC writes a block), and GRUB boots no other outside of a
\* trial and the last resort.
THEOREM Provenance ==
  Spec => [](damage = MaxDamage => CommittedIsProven /\ UntriedOnTrial)
<1>1. ProvenInv => (damage = MaxDamage => CommittedIsProven /\ UntriedOnTrial)
  BY DEF ProvenInv, Intact, Sound
<1> QED
  BY <1>1, ProvenInvariant, PTL

\* While every loss so far was recoverable, through every step since.
LEMMA SoundInvariant == Spec /\ [][RecoverableLoss]_vars => []Sound
<1>1. Init => Sound
  BY InitSound DEF Intact
<1>2. [Next]_vars /\ [RecoverableLoss]_vars => [Next /\ RecoverableLoss]_vars
  OBVIOUS
<1> QED
  BY <1>1, <1>2, SoundStep, TypesHold, CountInvariant, PTL DEF Spec

\* The same through losses: slots may go bad and copies be torn any number of
\* times, with any faults, as long as each tear is recoverable - the guard
\* has repaired the one before it, and grubenv is not torn in a trial beside an
\* untried slot.  (boat-grubenv-guard takes that slot for a committed one.)
THEOREM ProvenanceAfterLosses ==
  Spec /\ [][RecoverableLoss]_vars => [](CommittedIsProven /\ UntriedOnTrial)
<1>1. Sound => CommittedIsProven /\ UntriedOnTrial
  BY DEF Sound
<1> QED
  BY <1>1, SoundInvariant, PTL
=============================================================================
