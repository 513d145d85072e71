--------------------------- MODULE SleepInterlock ---------------------------
(***************************************************************************)
(* Sleep against updates: everyone who can ask the board to sleep, logind  *)
(* and its suspend job, the trial that must not sleep before its verdict   *)
(* and the install that must not while it writes the other slot.  Each     *)
(* reads the others' state without a lock, and acts on it later.           *)
(***************************************************************************)
EXTENDS Naturals

VARIABLES
  trial,     \* boat.trial=1 on the kernel command line
  committed, \* /run/boat-ab/committed
  inhibit,   \* boat-trial-inhibit.service, which holds a lock
  install,   \* boat-update-install.service
  asker,     \* where each asker is
  logind     \* its suspend job

vars == <<trial, committed, inhibit, install, asker, logind>>

\* boat-sleep as the listener or SSH runs it, boat-sleep --force, root's own
\* systemctl suspend, and the helm display's menu.
BoatSleep == {"plain", "force"}
Askers == BoatSleep \cup {"root", "helm"}

\* The unit is down; up, before it holds its lock; up, writing the slot.
InstallStates == {"inactive", "active", "writing"}

\* Nothing to do; asked for but not checked by ExecStartPre; checked; asleep.
LogindStates == {"idle", "starting", "checked", "asleep"}

Awake == logind # "asleep"

Init ==
  /\ trial \in BOOLEAN /\ committed = FALSE /\ inhibit = "off"
  /\ install = "inactive" /\ asker = [a \in Askers |-> "idle"] /\ logind = "idle"

OnTrial == trial /\ ~committed

-----------------------------------------------------------------------------
(***************************************************************************)
(* The trial.                                                              *)
(***************************************************************************)
\* boat-trial-inhibit starts some time after the boot; before that only the
\* command line tells.
InhibitStarts ==
  /\ Awake /\ OnTrial /\ inhibit = "off"
  /\ inhibit' = "held"
  /\ UNCHANGED <<trial, committed, install, asker, logind>>

\* boat-commit's verdict: the mark, then the inhibitor is stopped - also when
\* the mark could not be written, which is only a warning.
Commits ==
  /\ Awake /\ OnTrial /\ inhibit # "stopped"
  /\ committed' = TRUE
  /\ UNCHANGED <<trial, inhibit, install, asker, logind>>

InhibitStops ==
  /\ Awake /\ trial /\ inhibit # "stopped"
  /\ inhibit' = "stopped"
  /\ UNCHANGED <<trial, committed, install, asker, logind>>

-----------------------------------------------------------------------------
(***************************************************************************)
(* The install.                                                            *)
(***************************************************************************)
\* do_install starts the unit, unless the running slot is on trial.
InstallStarts ==
  /\ Awake /\ ~OnTrial /\ install = "inactive"
  /\ install' = "active"
  /\ UNCHANGED <<trial, committed, inhibit, asker, logind>>

\* logind grants no lock against a sleep that it is carrying out (external).
InhibitGranted == logind = "idle"

\* systemd-inhibit around the write: without its lock nothing is run.
InstallWrites ==
  /\ Awake /\ install = "active"
  /\ install' = IF InhibitGranted THEN "writing" ELSE "inactive"
  /\ UNCHANGED <<trial, committed, inhibit, asker, logind>>

\* The unit ends, with or without having written anything.
InstallEnds ==
  /\ Awake /\ install # "inactive"
  /\ install' = "inactive"
  /\ UNCHANGED <<trial, committed, inhibit, asker, logind>>

-----------------------------------------------------------------------------
(***************************************************************************)
(* Asking for sleep.                                                       *)
(***************************************************************************)
\* boat-sleep begins its delay; the others ask logind at once.
Ask(a) ==
  /\ Awake /\ asker[a] = "idle"
  /\ asker' = [asker EXCEPT ![a] = IF a \in BoatSleep THEN "delay" ELSE "request"]
  /\ UNCHANGED <<trial, committed, inhibit, install, logind>>

\* ab_refusals.
AbRefusals == OnTrial \/ inhibit = "held" \/ install # "inactive"

\* The block locks there are: the trial's and the install's, both root's.
BlockLocks == inhibit = "held" \/ install = "writing"

\* check_may_sleep, after the delay: --force goes past locks, not past an
\* update.  What it saw may have changed when logind is asked.
CheckMaySleep(a) ==
  /\ Awake /\ asker[a] = "delay"
  /\ asker' = [asker EXCEPT ![a] =
                 IF AbRefusals \/ (a # "force" /\ BlockLocks) THEN "idle" ELSE "request"]
  /\ UNCHANGED <<trial, committed, inhibit, install, logind>>

\* logind holds back the helm user, and never root with root's own locks; it
\* takes no second request while it carries one out (external).
Request(a) ==
  /\ Awake /\ asker[a] = "request"
  /\ asker' = [asker EXCEPT ![a] = "idle"]
  /\ logind' = IF logind = "idle" /\ (a = "helm" => ~BlockLocks) THEN "starting"
               ELSE logind
  /\ UNCHANGED <<trial, committed, inhibit, install>>

\* A check that asks about the install alone.
MaySleep_InstallOnly == install = "inactive"

\* boat-commit --may-sleep.
MaySleep == ~OnTrial /\ install = "inactive"

\* ExecStartPre of the suspend job, whoever asked: it fails the job, also when
\* it cannot tell.
ExecStartPre ==
  /\ logind = "starting"
  /\ \/ MaySleep /\ logind' = "checked"
     \/ logind' = "idle"
  /\ UNCHANGED <<trial, committed, inhibit, install, asker>>

Suspend ==
  /\ logind = "checked"
  /\ logind' = "asleep"
  /\ UNCHANGED <<trial, committed, inhibit, install, asker>>

Resume ==
  /\ logind = "asleep"
  /\ logind' = "idle"
  /\ UNCHANGED <<trial, committed, inhibit, install, asker>>

Next ==
  \/ InhibitStarts \/ Commits \/ InhibitStops
  \/ InstallStarts \/ InstallWrites \/ InstallEnds
  \/ \E a \in Askers : Ask(a) \/ CheckMaySleep(a) \/ Request(a)
  \/ ExecStartPre \/ Suspend \/ Resume

Spec == Init /\ [][Next]_vars

-----------------------------------------------------------------------------
TypeOK ==
  /\ trial \in BOOLEAN /\ committed \in BOOLEAN /\ inhibit \in {"off", "held", "stopped"}
  /\ install \in InstallStates
  /\ asker \in [Askers -> {"idle", "delay", "request"}] /\ logind \in LogindStates

\* The board never sleeps with a trial undecided or a slot half written, however
\* the checks, the locks and the requests interleave: the trial deadline counts
\* real time, and a stream cut off by a suspend loses its connection.
NoSleepMidUpdate ==
  ~Awake => ~OnTrial /\ install # "writing"

\* What makes it inductive: once the suspend job has passed its check, neither
\* a trial nor a write can begin any more.
CheckHolds ==
  /\ TypeOK
  /\ logind \in {"checked", "asleep"} => ~OnTrial /\ install # "writing"
  /\ committed => trial

=============================================================================
