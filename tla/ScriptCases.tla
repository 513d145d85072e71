---------------------------- MODULE ScriptCases ----------------------------
(***************************************************************************)
(* The cases scripts/test-ab-scripts.py runs the real scripts through, put *)
(* to the model of them: one run of boat-grubenv-guard, boat-commit (the   *)
(* gate, --deadline, --shutdown), RAUC's grub-editenv or one of RAUC's     *)
(* handlers, on the same grubenv and kernel command line, with the same    *)
(* writer holding the lock and the same ESP that refuses.  The model's own *)
(* actions must leave the grubenv, the copy, the marks and the reboot the  *)
(* test wants of the scripts.  What the health checks and the pre-install  *)
(* handler's own checks decide is a choice here; GateCases has the former. *)
(***************************************************************************)
EXTENDS GrubenvGuard, BoatCommit, SlotInstall

VARIABLE case

(***************************************************************************)
(* The board of a case.                                                    *)
(***************************************************************************)
\* GOOD_ENV.
Good == [order |-> "A", ok |-> [s \in Slots |-> TRUE],
         try |-> [s \in Slots |-> IF s = "A" THEN 1 ELSE 0],
         com |-> [s \in Slots |-> TRUE], retry |-> NoSlot, stay |-> FALSE]
OnB(e)            == [e EXCEPT !.order = "B"]
Keys(e, s, o, t, c) == [e EXCEPT !.ok[s] = o = 1, !.try[s] = t, !.com[s] = c = 1]
Stay(e)           == [e EXCEPT !.stay = TRUE]

\* A trial of slot B, and what its two verdicts make of it.
Trial  == Keys(OnB(Good), "B", 1, 1, 0)
Passed == Keys(OnB(Good), "B", 1, 0, 1)
Failed == Keys(OnB(Good), "B", 0, 0, 0)

Cmd(s, flags) == [slot |-> s, trial |-> "trial" \in flags, last |-> "last" \in flags,
                  hand |-> "hand" \in flags, stay |-> "stay" \in flags]
TrialB == Cmd("B", {"trial"})

\* A case of a script: no grubenv.bak, a healthy board, nobody else about.
\* want is grubenv afterwards, bak whether grubenv.bak is then a copy of it.
Case(script, cmd, e, want, wantbak) ==
  [script |-> script, cmd |-> cmd, env |-> e, bak |-> Flashed, torn |-> {"bak"},
   marks |-> {}, healthy |-> TRUE, stopping |-> FALSE, fault |-> "none",
   meanwhile |-> e, held |-> FALSE,
   want |-> want, wantbak |-> wantbak, wantmarks |-> {}, reboots |-> FALSE]
Same(script, cmd, e)   == Case(script, cmd, e, e, "same")
\* grubenv cannot be read.
IsTorn(c)              == [c EXCEPT !.torn = @ \cup {"env"}]
WithBak(c, b)          == [c EXCEPT !.bak = b, !.torn = @ \ {"bak"}]
Sick(c)                == [c EXCEPT !.healthy = FALSE]
\* The ESP refuses grubenv, or grubenv.bak; the lock is never let go; the
\* script dies before it has read anything.
Hit(c, fault)          == [c EXCEPT !.fault = fault, !.held = fault = "lock"]
\* Another writer holds the lock at first, and writes e.
Meanwhile(c, e)        == [c EXCEPT !.meanwhile = e, !.held = TRUE]
Marked(c, m)           == [c EXCEPT !.marks = m, !.wantmarks = m]
Stopped(c)             == [c EXCEPT !.stopping = TRUE]
\* The marks it leaves; whether it reboots.
Leaves(c, m)           == [c EXCEPT !.wantmarks = m]
Reboots(c)             == [c EXCEPT !.wantmarks = {"failed"}, !.reboots = TRUE]

-----------------------------------------------------------------------------
Rebuild(s, ts, cs, oo, co) ==
  LET o == Other(s) IN Keys(Keys([Good EXCEPT !.order = s], s, 1, ts, cs), o, oo, 0, co)

\* boat-grubenv-guard.
GuardCases ==
  LET reset == Keys(Good, "A", 1, 0, 1)
      last  == Keys(Keys(Good, "A", 0, 2, 1), "B", 0, 0, 1)
  IN  { Case("guard", Cmd("A", {}), Good, reset, "equal"),
        Case("guard", Cmd("A", {}), reset, reset, "equal"),
        Case("guard", TrialB, Trial, Trial, "equal"),
        Case("guard", Cmd("A", {"last"}), last, last, "equal"),
        Hit(Case("guard", Cmd("A", {}), Good, Good, "any"), "write"),
        WithBak(IsTorn(Case("guard", Cmd("B", {}), Good, Rebuild("B", 0, 1, 0, 0), "equal")),
                OnB(Good)),
        IsTorn(Case("guard", TrialB, Good, Rebuild("B", 1, 0, 1, 1), "equal")),
        Hit(IsTorn(Same("guard", Cmd("A", {}), Good)), "dies") }

\* boat-commit: a trial's verdict, and a committed boot.  Every healthy, or
\* unhealthy, board of the test's is the same board here.
CommitCases ==
  LET reset == Keys(Good, "A", 1, 0, 1)
  IN  { Leaves(Case("gate", TrialB, Trial, Passed, "equal"), {"committed"}),
        Leaves(Hit(Same("gate", TrialB, Trial), "write"), {"commitfailed"}),
        Reboots(Sick(Case("gate", TrialB, Trial, Failed, "any"))),
        Leaves(Sick(Case("gate", Cmd("B", {"trial", "stay"}), Trial, Failed, "any")), {"failed"}),
        Case("gate", Cmd("A", {}), Good, reset, "any"),
        Sick(Case("gate", Cmd("A", {}), Good, reset, "any")) }

\* boat-commit and the lock, the debug hold, the last resort.
HoldCases ==
  LET reset == Keys(Good, "A", 1, 0, 1)
      used(o, t) == Keys(Keys(OnB(Good), "A", 0, 1, 0), "B", o, t, 1)
  IN  { Meanwhile(Case("gate", TrialB, Trial, Keys(Trial, "B", 0, 1, 0), "any"),
                  Keys(Trial, "B", 0, 1, 0)),
        Leaves(Hit(Same("gate", TrialB, Trial), "lock"), {"commitfailed"}),
        Reboots(Hit(Same("dl", TrialB, Trial), "lock")),
        Hit(Same("guard", Cmd("A", {}), Good), "lock"),
        Leaves(Case("gate", Cmd("B", {"trial", "stay"}), [Stay(Trial) EXCEPT !.retry = "B"],
                    Passed, "any"), {"committed"}),
        Case("gate", Cmd("A", {"stay"}), Stay(Good), reset, "any"),
        Case("gate", Cmd("A", {}), Stay(Good), Stay(reset), "any"),
        Sick(Case("gate", Cmd("A", {"stay"}), Stay(Good), Stay(reset), "any")),
        Hit(Same("gate", Cmd("A", {}), Good), "write"),
        Case("gate", Cmd("B", {"last"}), used(0, 2), used(1, 0), "any"),
        Same("gate", Cmd("A", {"last"}), used(0, 2)) }

\* boat-commit --deadline.
DeadlineCases ==
  { Reboots(Case("dl", TrialB, Trial, Failed, "any")),
    Marked(Same("dl", TrialB, Passed), {"committed"}),
    Reboots(Case("dl", TrialB, Passed, Keys(Passed, "B", 0, 0, 1), "any")),
    Same("dl", Cmd("B", {"trial", "stay"}), Failed) }

\* boat-commit --shutdown.
ShutdownCases ==
  LET again == [Trial EXCEPT !.retry = "B"]
  IN  { Stopped(Case("sd", TrialB, Trial, [again EXCEPT !.try["B"] = 0], "equal")),
        Stopped(Same("sd", TrialB, again)),
        Stopped(Marked(Same("sd", TrialB, Trial), {"committed"})),
        Stopped(Marked(Same("sd", TrialB, Trial), {"failed"})),
        Stopped(Same("sd", TrialB, Failed)) }

\* RAUC's set on grubenv, through the wrapper: bad marks B unusable before it
\* is written, set makes it the one to boot.
WrapperCases ==
  LET bad == Keys(Good, "B", 0, 0, 1)
  IN  { WithBak(Case("set", Cmd("A", {}), Good, OnB(Good), "equal"), Good),
        Meanwhile(Case("bad", Cmd("A", {}), Good, Keys(bad, "A", 1, 0, 1), "any"),
                  Keys(Good, "A", 1, 0, 1)),
        Hit(Same("bad", Cmd("A", {}), Good), "lock"),
        Hit(Same("bad", Cmd("A", {}), Good), "write") }

\* The pre-install handler: the target not committed, and only that - or
\* nothing, on a trial.
PreInstallCases ==
  LET next(e) == [Keys(e, "B", 1, 0, 0) EXCEPT !.retry = NoSlot]
      none == Keys(Keys(Good, "A", 0, 1, 0), "B", 0, 0, 1)
  IN  { Case("pre", Cmd("A", {}), Good, next(Good), "equal"),
        Same("pre", Cmd("A", {"trial"}), Good),
        Marked(Case("pre", Cmd("A", {"trial"}), Good, next(Good), "any"), {"committed"}),
        Case("pre", Cmd("A", {"last"}), none, Keys(none, "B", 0, 0, 0), "any"),
        Case("pre", Cmd("A", {}), [Good EXCEPT !.retry = "B"], next(Good), "any"),
        Same("pre", Cmd("A", {"trial"}), Keys(Good, "A", 1, 1, 0)) }

\* The post-install handler: the copy follows RAUC's activation.
PostInstallCases ==
  LET new == Keys(OnB(Good), "B", 1, 0, 0)
  IN  { WithBak(Case("post", Cmd("A", {}), new, new, "equal"), Keys(Good, "B", 0, 0, 0)) }

\* What GRUB could not write down, and the ESP's own faults.
EspCases ==
  LET hand == Keys(Good, "B", 1, 1, 1)
      idle == Keys(Good, "B", 1, 0, 1)
  IN  { WithBak(IsTorn(Case("guard", Cmd("B", {"last"}), Good, Rebuild("B", 0, 0, 0, 0), "equal")),
                Keys(Keys(Good, "A", 0, 2, 1), "B", 0, 0, 0)),
        Case("guard", Cmd("B", {"hand"}), hand, Keys(idle, "A", 0, 1, 1), "equal"),
        WithBak(IsTorn(Case("guard", Cmd("A", {"hand"}), Good, Rebuild("A", 0, 1, 0, 0), "equal")),
                OnB(Good)),
        Hit(Case("guard", Cmd("B", {"hand"}), idle, idle, "any"), "write"),
        WithBak(Hit(Case("bad", Cmd("A", {}), Good, Keys(Good, "B", 0, 0, 1), "same"), "bak"), Good) }

\* Commits that are not, and rollbacks that are verdicts.
VerdictCases ==
  LET left == Keys(Good, "B", 1, 1, 0)
      dead == Keys(left, "A", 0, 1, 1)
  IN  { Leaves(WithBak(Hit(Case("gate", TrialB, Trial, Passed, "same"), "bak"), Trial),
               {"commitfailed"}),
        [Reboots(Case("dl", TrialB, Trial, Failed, "any")) EXCEPT
           !.marks = {"commitfailed"}, !.wantmarks = {"commitfailed", "failed"}],
        Leaves(Stopped(Case("sd", TrialB, left, Keys(left, "B", 0, 0, 0), "equal")), {"failed"}),
        Stopped(Case("sd", TrialB, dead,
                     [Keys(dead, "B", 1, 0, 0) EXCEPT !.retry = "B"], "any")) }

\* RAUC's handlers installing into slot A.
OtherSlotCases ==
  LET act == Keys(Good, "A", 1, 0, 0)
  IN  { Case("pre", Cmd("B", {}), OnB(Good), Keys(OnB(Good), "A", 1, 1, 0), "equal"),
        WithBak(Case("post", Cmd("B", {}), act, act, "equal"), Keys(OnB(Good), "A", 1, 1, 0)) }

Cases ==
  UNION {GuardCases, CommitCases, HoldCases, DeadlineCases, ShutdownCases, WrapperCases,
         PreInstallCases, PostInstallCases, EspCases, VerdictCases, OtherSlotCases}

-----------------------------------------------------------------------------
(***************************************************************************)
(* One run of the script.                                                  *)
(***************************************************************************)
Proc == IF case.script \in Procs THEN case.script ELSE "inst"

From == [guard |-> "start", gate |-> "start", dl |-> "armed", sd |-> "armed",
         bad |-> "markbad", set |-> "activate", pre |-> "idle", post |-> "actbak"]

Until == CASE Proc # "inst"          -> {"done"}
           [] case.script = "bad"    -> {"idle", "write"}
           [] case.script = "pre"    -> {"markbad"}
           [] OTHER                  -> {"idle", "verify"}

Init ==
  /\ case \in Cases
  /\ env = case.env /\ bak = case.bak /\ torn = case.torn
  /\ good = [s \in Slots |-> case.healthy] /\ proven = [s \in Slots |-> TRUE]
  /\ phase = "up" /\ grub = "none"
  /\ boot = case.cmd /\ mark = case.marks /\ stopping = case.stopping
  /\ pc = [p \in Procs |-> CASE p = Proc -> From[case.script]
                             [] p = "inst" -> "idle"
                             [] OTHER -> "done"]
  /\ lock = IF ~case.held THEN "free" ELSE IF Proc = "dl" THEN "gate" ELSE "dl"
  /\ faults = (IF case.fault = "none" THEN 0 ELSE 1) /\ damage = 0
  /\ tboots = [s \in Slots |-> 0] /\ condemned = {} /\ home = "A" /\ lost = 0 /\ warm = 0

Ended == pc[Proc] \in Until \/ (case.script = "pre" /\ OnTrial)

\* The other writer's change, and it lets the lock go.
OtherWrites ==
  /\ case.held /\ case.fault # "lock" /\ lock \notin {"free", Proc} /\ ~Ended
  /\ env' = case.meanwhile /\ lock' = "free"
  /\ UNCHANGED <<bak, torn, slots, phase, grub, run, pc, budget, hist>>

GateStep ==
  \/ GateStart \/ GateReset \/ GateResetBak \/ GateStayOff \/ GateStayBak
  \/ GateSettles \/ GatePasses \/ GateFails
  \/ GateCommit \/ GateCommitTimeout \/ GateCommitBak \/ GateFailMark

VerdictStep ==
  \/ DeadlineFires \/ DeadlineDecides
  \/ \E p \in {"gate", "dl"} : FailWrite(p) \/ FailNoLock(p) \/ FailBak(p)
  \/ ShutdownStarts \/ ShutdownLeaves \/ ShutdownWrites \/ ShutdownBak

InstallStep ==
  \/ case.script = "pre" /\ InstallStarts
  \/ PreInstall \/ PreInstallBak
  \/ RaucMarkBad \/ RaucMarkBadBak \/ RaucActivates \/ RaucActivatesBak

Step ==
  \/ Proc = "guard" /\ GuardNext
  \/ GateStep \/ VerdictStep
  \/ InstallStep

\* Which of a step's outcomes the board of the case gives: its health, its
\* hold, and the one thing that fails.
Simulated ==
  /\ Proc = "gate" /\ pc["gate"] = "check" =>
       pc'["gate"] = CASE boot.trial -> IF case.healthy THEN "commit" ELSE "fail"
                       [] ~boot.trial /\ case.healthy /\ boot.stay /\ env.stay -> "stayoff"
                       [] OTHER -> "done"
  /\ case.fault \in {"write", "lock", "dies"} => env' = env
  /\ case.fault \in {"lock", "dies"} => bak' = bak
  /\ case.fault = "bak" => bak' = bak /\ (pc'[Proc] \in Until => faults' = 0
                                           /\ pc[Proc] \in {"badbak", "commitbak"})
  /\ pc["guard"] = "start" =>
       (pc'["guard"] = "done") = (case.fault \in {"lock", "dies"})

Run  == ~Ended /\ Step /\ Simulated
Stop == Ended /\ UNCHANGED vars

Next == (Run \/ OtherWrites \/ Stop) /\ UNCHANGED case

CasesSpec == Init /\ [][Next]_<<vars, case>>

-----------------------------------------------------------------------------
\* What the test looks at after a run.
Checked ==
  /\ env = case.want
  /\ case.wantbak = "equal" => bak = env /\ torn = {}
  /\ case.wantbak = "same" => bak = case.bak /\ torn = case.torn
  /\ mark = case.wantmarks
  /\ stopping = (case.stopping \/ case.reboots)

\* Every case of the test ends as the test wants it: grubenv and its copy (a
\* copy of grubenv, or untouched), the marks in /run and whether the board
\* is rebooted.
AsTested == Ended => Checked

=============================================================================
