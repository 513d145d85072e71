----------------------------- MODULE GateCases -----------------------------
(***************************************************************************)
(* The cases scripts/test-ab-scripts.py has about the health checks, put   *)
(* to HealthGate: the same units, DATA and sleep must end in the verdict   *)
(* the test wants of boat-commit.  The clock counts 5 s.                   *)
(***************************************************************************)
EXTENDS HealthGate

VARIABLES case, round

-----------------------------------------------------------------------------
\* Every check passes, /data is mounted, and a check that fails fails at once.
Healthy == [trial |-> TRUE, up |-> Checks, data |-> "mounted", deadline |-> 0,
            late |-> "", after |-> 0, mounts |-> FALSE, sleeps |-> 0, takes |-> 0]

Without(c, S) == [c EXCEPT !.up = @ \ S]
NoData(c)     == [c EXCEPT !.data = "none"]
\* Retried for 6 s.
Patient(c)    == [c EXCEPT !.deadline = 2]
\* hook, late: a check that passes only once it has been made n times.
Late(c, x, n) == [Without(Patient(c), {x}) EXCEPT !.late = x, !.after = n]
\* asleep_once: the first pause lasts 1000 s.
Asleep(c)     == [c EXCEPT !.sleeps = 200]
\* health_d: a check that takes so long.
Lasts(c, t)   == [c EXCEPT !.takes = t]

\* A case, the verdict it ends in and whether RAUC was asked for it.
Ends(c, verdictOf, rauc) == [board |-> c, verdict |-> verdictOf, rauc |-> rauc]

\* The first table: late units, no /data, and what fails a trial.
GateTable ==
  { Ends(Healthy, "pass", TRUE),
    Ends(Late(Healthy, "units", 1), "pass", TRUE),
    Ends(NoData(Without(Healthy, {"rauc", "docker"})), "pass", FALSE),
    Ends(Without(Healthy, {"units"}), "fail", TRUE),
    Ends(Without(Healthy, {"docker"}), "fail", TRUE),
    Ends(NoData(Without(Healthy, {"docker"})), "pass", FALSE),
    Ends(Without(Healthy, {"os"}), "fail", FALSE) }

\* A committed boot: tier 1 alone.
CommittedTable ==
  LET committed == [Without(Healthy, Checks \ {"os", "rauc"}) EXCEPT !.trial = FALSE]
  IN  { Ends(committed, "pass", TRUE),
        Ends(Without(committed, {"rauc"}), "fail", FALSE) }

\* health.d, and the units that need /data.
HealthDTable ==
  { Ends(Lasts(Healthy, 0), "pass", TRUE),
    Ends(Without(Healthy, {"healthd"}), "fail", TRUE),
    Ends(Lasts(Without(Healthy, {"healthd"}), 12 + Kill), "fail", TRUE),
    Ends(NoData(Without(Healthy, {"docker", "healthd"})), "pass", FALSE) }

\* DATA on its way, and a board that slept.
WaitingTable ==
  LET pending == [Healthy EXCEPT !.data = "pending"]
  IN  { Ends([Patient(pending) EXCEPT !.mounts = TRUE], "pass", TRUE),
        Ends(Without(pending, {"rauc"}), "pass", FALSE),
        Ends(Asleep(Late(Healthy, "units", 2)), "pass", TRUE) }

Cases == GateTable \cup CommittedTable \cup HealthDTable \cup WaitingTable

-----------------------------------------------------------------------------
CaseInit ==
  /\ case \in Cases /\ round = 0
  /\ trial = case.board.trial /\ up = case.board.up /\ data = case.board.data
  /\ dead = Checks \ (up \cup {case.board.late})
  /\ now = 0 /\ awake = 0 /\ missed = 0
  /\ deadline = case.board.deadline /\ hardStop = Limit - Margin /\ before = 0
  /\ step = "tier1" /\ reason = FALSE /\ verdict = "none"
  /\ asked = {} /\ early = FALSE

\* What the case's stubs do, before the gate goes on.
Due == /\ verdict = "none"
       /\ \/ case.board.late \in Checks \ up /\ round >= case.board.after
          \/ case.board.mounts /\ data = "pending" /\ step = "loop"
          \/ case.board.sleeps > 0 /\ missed = 0 /\ round = 0 /\ step = "pause"

Stub ==
  /\ Due
  /\ \/ Changes /\ up' = up \cup {case.board.late} /\ round >= case.board.after
     \/ DataSettles /\ data' = "mounted" /\ step = "loop"
     \/ Suspend /\ step = "pause"
  /\ UNCHANGED round

Run ==
  /\ ~Due /\ GateNext
  /\ step = "healthd" /\ Mounted => now' = now + case.board.takes
  /\ round' = IF step = "pause" THEN round + 1 ELSE round

Stop == verdict # "none" /\ UNCHANGED <<vars, round>>

CaseNext == (Stub \/ Run \/ Stop) /\ UNCHANGED case

CaseSpec == CaseInit /\ [][CaseNext]_<<vars, case, round>>

-----------------------------------------------------------------------------
\* Every case ends in the verdict the test wants, RAUC asked or not.
AsTested ==
  verdict # "none" =>
    verdict = case.verdict /\ ("rauc" \in asked) = case.rauc

=============================================================================
