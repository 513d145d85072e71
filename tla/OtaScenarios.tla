---------------------------- MODULE OtaScenarios ----------------------------
(***************************************************************************)
(* What scripts/test-boat-update.py puts boat-update through, put to       *)
(* OtaClient: the same indexes served, the same answers of the channel and *)
(* states of the board, one verb after the other; after each of them the   *)
(* model must be where the test expects the program to be.  The versions   *)
(* are the test's (1.2.0 is 12), a bundle is Size windows long.  Left out  *)
(* is what OtaClient has no place for: keys and certificates, the relay,   *)
(* how a link is found metered, a bundle file named by a person, messages. *)
(***************************************************************************)
EXTENDS OtaClient, Sequences

VARIABLES
  sc,    \* the scenario's steps still to do
  step,  \* the one under way
  left   \* the windows it may still use

svars == <<vars, sc, step, left>>

-----------------------------------------------------------------------------
(***************************************************************************)
(* What is published.                                                      *)
(***************************************************************************)
Bundle(v)  == [id |-> "built", ver |-> v, sound |-> TRUE]
Rebuilt(v) == [id |-> "rebuilt", ver |-> v, sound |-> TRUE]
Bad(v)     == [id |-> "bad", ver |-> v, sound |-> FALSE]

Versions == {9, 10, 11, 12, 13, 14, 15, 20, 21}
ScContents == UNION {{Bundle(v), Rebuilt(v), Bad(v)} : v \in Versions}
ScOffers == [ver : Versions, name : {"n", "m"}, sha : ScContents, fit : {"ok", "bsp", "otherboard"}]

On(c, serial, name, b) ==
  [chan |-> c, serial |-> serial, ver |-> b.ver, name |-> name, sha |-> b, fit |-> "ok"]
Index(serial, v) == On("stable", serial, "n", Bundle(v))

\* The steps.  A bundle is published with its index, where that is read from,
\* and what becomes of the board between two runs.
Serve(i)      == [do |-> "serve", at |-> i.chan, idx |-> i]
ServeAt(c, i) == [do |-> "serve", at |-> c, idx |-> i]
Missing(c)    == [do |-> "missing", at |-> c]
Set(f, v)     == [do |-> "set", f |-> f, v |-> v]

\* A verb, the answers it gets, and what is seen of the board afterwards.
Run(v, how, see) == [do |-> "run", verb |-> v, how |-> how, see |-> see]
Checks(see)      == Run("check", "ok", see)
Download(how, see) == Run("download", how, see)

\* The slot B that RAUC and GRUB report.
Slot(v) == [OlderSlot EXCEPT !.ver = v]

\* The partial files the test writes itself.
Half(b)   == [n \in Names |-> IF n = "n" THEN [of |-> b, have |-> 1] ELSE NoPart]
Zeros     == [n \in Names |-> IF n = "n" THEN [of |-> Mixed, have |-> Size] ELSE NoPart]
NoParts   == [n \in Names |-> NoPart]
NoFiles   == [n \in Names |-> None]

-----------------------------------------------------------------------------
(***************************************************************************)
(* The scenarios, each on a board that runs 1.0.0 and has 1.0.0 in slot B. *)
(***************************************************************************)
\* Refusals before any download; accept, then replay; offline.
Accepting == <<
  Missing("stable"), Checks([offer |-> 0, error |-> "check"]),
  ServeAt("stable", On("testing", 7, "n", Bundle(11))), Checks([offer |-> 0, error |-> "check"]),
  Serve(Index(7, 11)), Checks([offer |-> 11, error |-> "none"]), Checks([offer |-> 11]),
  Serve(Index(6, 11)), Checks([offer |-> 11, error |-> "check", serial |-> 7]),
  Serve(On("stable", 7, "n", Rebuilt(11))), Checks([error |-> "check", serial |-> 7]),
  Serve(Index(8, 11)), Checks([offer |-> 11, error |-> "none"]),
  Run("check", "offline", [offer |-> 11, error |-> "none"]) >>

\* Metered, interrupted, resumed, verified; then damaged on the disk.
Downloading == <<
  Serve(Index(8, 11)), Checks([offer |-> 11]),
  Download("metered", [ready |-> 0, part |-> 0, waiting |-> TRUE]),
  Download("cut", [ready |-> 0, part |-> 1, waiting |-> FALSE]),
  Download("ok", [ready |-> 11, part |-> 0, whole |-> TRUE]),
  Set("unready", TRUE), Set("final", NoFiles), Set("part", Zeros),
  Download("ok", [ready |-> 11, refetch |-> 1]) >>

\* A hostile or broken channel: too long, no Range, no resume.
Hostile == <<
  Serve(Index(8, 11)), Checks([offer |-> 11]),
  Download("wasted", [ready |-> 0, part |-> 0, refetch |-> 1, failed |-> {}]),
  Set("part", Half(Bundle(11))),
  Download("wasted", [ready |-> 0, part |-> 0, refetch |-> 2]),
  Download("ok", [ready |-> 11, refetch |-> 2]) >>

\* Not the bundle at all: redirected, missing, no room; one run that was stopped
\* before it was recorded; a bundle RAUC rejects.
NotTheBundle == <<
  Serve(Index(8, 11)), Checks([offer |-> 11]), Set("part", Half(Bundle(11))),
  Download("refused", [part |-> 1, error |-> "download"]),
  Missing("stable"), Checks([error |-> "check", offer |-> 11]),
  Serve(Index(8, 11)), Download("ok", [ready |-> 11, whole |-> TRUE, error |-> "check"]),
  Set("unready", TRUE), Download("nothing", [ready |-> 11]),
  Set("unready", TRUE), Set("final", NoFiles), Set("part", NoParts),
  Download("refused", [ready |-> 0, error |-> "download"]),
  Checks([offer |-> 11, error |-> "download"]),
  Download("ok", [ready |-> 11, error |-> "none"]),
  Serve(On("stable", 9, "n", Bad(12))), Checks([offer |-> 12, ready |-> 0]),
  Download("ok", [ready |-> 0, offer |-> 0, whole |-> FALSE, given |-> {Bad(12)}]) >>

\* Once the update runs and is committed; a version that failed; a fault that
\* gives a bundle up, until the next index.
Housekept == <<
  Serve(Index(8, 11)), Checks([offer |-> 11]), Download("ok", [ready |-> 11]),
  Set("rel", 11), Run("install", "ok", [ready |-> 0, whole |-> FALSE, unit |-> FALSE]),
  Checks([offer |-> 0, error |-> "none"]),
  Set("rel", 10), Set("failed", {11}), Serve(Index(9, 11)), Checks([offer |-> 0]),
  Serve(Index(10, 12)), Checks([offer |-> 12]),
  Download("wasting", [offer |-> 0, given |-> {Bundle(12)}, failed |-> {11}]),
  Checks([offer |-> 0, error |-> "none"]),
  Serve(Index(11, 12)), Checks([offer |-> 12, given |-> {}]) >>

\* Serials are per channel, there and back.
PerChannel == <<
  Serve(Index(11, 12)), Checks([offer |-> 12]),
  Serve(On("testing", 3, "m", Bundle(13))), Set("chan", "testing"),
  Checks([offer |-> 13, error |-> "none"]),
  Set("chan", "stable"), Checks([offer |-> 12, error |-> "none"]) >>

\* A downloaded bundle older than the release that runs by now.
StaleReady == <<
  Serve(Index(8, 11)), Checks([offer |-> 11]), Download("ok", [ready |-> 11]),
  Set("rel", 12), Run("install", "ok", [ready |-> 0, whole |-> FALSE, unit |-> FALSE]) >>

\* Trials nobody gave a verdict on: out of attempts, marked bad - or not booted.
Silent(other_, failed_, kept) == <<
  Set("other", other_), Set("installed", [ver |-> 14]),
  Run("status", "ok", [failed |-> failed_, installed |-> kept]) >>
Trials == {
  Silent([Slot(14) EXCEPT !.com = FALSE, !.tried = TRUE], {14}, 0),
  Silent([Slot(14) EXCEPT !.com = FALSE, !.ok = FALSE], {14}, 0),
  Silent([Slot(14) EXCEPT !.com = FALSE], {}, 14),
  Silent(Slot(14), {}, 0) }

\* Streaming, and its failures.
Streaming == <<
  Serve(Index(13, 12)), Checks([offer |-> 12]),
  Run("stream", "ok", [installed |-> 12, slot |-> 12]),
  Run("stream", "rauc-fails", [installed |-> 0, failed |-> {}]),
  Run("stream", "refused", [installed |-> 0]),
  Set("failed", {12}), Run("stream", "ok", [installed |-> 0, offer |-> 0]),
  Set("failed", {}), Checks([offer |-> 12]), Set("rel", 12),
  Run("stream", "ok", [installed |-> 0, offer |-> 0]),
  Set("rel", 10), Checks([offer |-> 12]), Set("chan", "testing"),
  Run("stream", "ok", [installed |-> 0, offer |-> 12]) >>

\* The other slot's release counts only if a rollback would boot it.
OtherSlots == <<
  Serve(Index(14, 12)),
  Set("other", [Slot(12) EXCEPT !.whole = FALSE, !.ok = FALSE]), Checks([offer |-> 12]),
  Set("other", [Slot(12) EXCEPT !.ok = FALSE]), Checks([offer |-> 12]),
  Set("other", Slot(12)), Checks([offer |-> 0, error |-> "none"]) >>

\* Withdrawn half way.
Withdrawn == <<
  Serve(Index(15, 12)), Checks([offer |-> 12]), Download("cut", [part |-> 1]),
  Serve(Index(16, 10)), Checks([offer |-> 0, part |-> 0, ready |-> 0]) >>

\* A fleet's channel, seen from a board with a bundle ready: withdrawn, gone,
\* replayed, rebuilt under another name and under the same one, missed.
Fleet ==
  LET ready(serial, name, b, was) == <<
        Serve(On("fleet", serial, name, b)), Checks([offer |-> b.ver, ready |-> was]),
        Download("ok", [ready |-> b.ver, content |-> {b}]) >>
      older(serial) == Serve(On("fleet", serial, "m", Bundle(9)))
  IN  << Set("chan", "fleet") >> \o ready(1, "n", Bundle(20), 0)
      \o << older(2), Checks([offer |-> 0, ready |-> 0, whole |-> FALSE]) >>
      \o ready(3, "n", Bundle(20), 0)
      \o << Missing("fleet"), Checks([ready |-> 20, error |-> "check"]),
            Serve(On("fleet", 3, "n", Bundle(20))), Checks([ready |-> 20, error |-> "none"]),
            older(2), Checks([ready |-> 20, error |-> "check"]),
            Run("install", "ok", [ready |-> 20, unit |-> TRUE]), Set("unit", FALSE) >>
      \o ready(4, "m", Rebuilt(20), 0) \o ready(5, "m", Bundle(20), 0)
      \o << older(6), Serve(On("fleet", 7, "n", Bundle(21))),
            Checks([offer |-> 21, ready |-> 0, whole |-> FALSE]) >>

\* What the timer does: nothing new; within the rate limit; a download that the
\* policy stops; one that is no longer wanted.
Auto == <<
  Serve(Index(18, 10)), Run("auto", "ok", [offer |-> 0, serial |-> 18]),
  Serve(Index(19, 13)), Run("auto", "limited", [serial |-> 18]),
  Checks([offer |-> 13]), Run("auto", "limited-check", [ready |-> 0, part |-> 0]),
  Run("auto", "limited", [ready |-> 13]),
  Set("unready", TRUE), Set("final", NoFiles), Run("auto", "cut", [ready |-> 0, part |-> 1]),
  Set("rel", 13), Run("auto", "limited", [offer |-> 0, part |-> 0]),
  Set("rel", 10), Checks([offer |-> 13]), Download("metered", [ready |-> 0, waiting |-> TRUE]) >>

\* Another L4T is a reflash, another board's index a mistake.
Guards == <<
  Serve([Index(20, 15) EXCEPT !.fit = "bsp"]), Checks([offer |-> 0, error |-> "none", serial |-> 20]),
  Serve([Index(22, 9) EXCEPT !.fit = "bsp"]), Checks([offer |-> 0, error |-> "none"]),
  Serve([Index(23, 15) EXCEPT !.fit = "otherboard"]),
  Checks([offer |-> 0, error |-> "check", serial |-> 22]) >>

\* Another kernel device tree is a reflash too; the board's own, or none named, is not.
DeviceTrees == <<
  Serve([Index(26, 15) EXCEPT !.fit = "bsp"]), Checks([offer |-> 0, error |-> "none"]),
  Serve(Index(27, 15)), Checks([offer |-> 15, error |-> "none"]) >>

Scenarios ==
  {Accepting, Downloading, Hostile, NotTheBundle, Housekept, PerChannel, StaleReady,
   Streaming, OtherSlots, Withdrawn, Fleet, Auto, Guards,
   DeviceTrees} \cup Trials

-----------------------------------------------------------------------------
(***************************************************************************)
(* The test's board and channel.                                           *)
(***************************************************************************)
\* The board as OtaClient has it, with 1.0.0 in both slots.
ScInit ==
  /\ sc \in Scenarios /\ step = None /\ left = 0
  /\ published = {} /\ served = [c \in Channels |-> None] /\ files = [n \in Names |-> None]
  /\ chan = "stable"
  /\ st = EmptyState /\ failed = {} /\ final = NoFiles /\ part = NoParts
  /\ mem = EmptyState /\ pc = "idle" /\ goal = "none" /\ want = None
  /\ rel = 10 /\ other = Slot(10) /\ trials = 0 /\ faults = MaxFaults /\ wrote = None

Turn(d) == step = None /\ sc # <<>> /\ Head(sc).do = d /\ sc' = Tail(sc)

\* publish(), and the index taken away.
Serves ==
  /\ Turn("serve")
  /\ served' = [served EXCEPT ![Head(sc).at] = Head(sc).idx]
  /\ files' = [files EXCEPT ![Head(sc).idx.name] = Head(sc).idx.sha]
  /\ UNCHANGED <<published, chan, disk, proc, board, faults, wrote, step, left>>

Misses ==
  /\ Turn("missing")
  /\ served' = [served EXCEPT ![Head(sc).at] = None]
  /\ UNCHANGED <<published, files, chan, disk, proc, board, faults, wrote, step, left>>

\* What the test writes on the board's disk itself.
Sets ==
  /\ Turn("set")
  /\ LET to(f, v) == IF Head(sc).f = f THEN Head(sc).v ELSE v
     IN  /\ rel' = to("rel", rel) /\ other' = to("other", other) /\ chan' = to("chan", chan)
         /\ failed' = to("failed", failed) /\ final' = to("final", final) /\ part' = to("part", part)
         /\ st' = [st EXCEPT !.installed = to("installed", @),
                             !.ready = IF to("unready", FALSE) THEN None ELSE @]
         /\ want' = IF to("unit", TRUE) THEN want ELSE None
  /\ UNCHANGED <<channel, mem, pc, goal, trials, faults, wrote, step, left>>

\* The windows a run gets.
Windows(how) ==
  CASE how \in {"metered", "offline", "nothing"} -> 0
    [] how = "wasting" -> MaxRefetch + 1
    [] OTHER -> 1

Starts ==
  /\ Turn("run") /\ Start(Head(sc).verb)
  /\ step' = Head(sc) /\ left' = Windows(Head(sc).how)

\* One window, as the channel answers it; without one the run stops.
WindowStep ==
  LET n == mem.offer.name
      brings(h) == Window /\ part'[n].have = h
  IN  IF part[n].have = Size THEN DownloadComplete /\ UNCHANGED left
      ELSE IF left = 0
        THEN /\ DownloadStops /\ UNCHANGED left
             /\ st'.waiting = (step.how = "metered")
      ELSE /\ left' = left - 1
           /\ CASE step.how = "cut" -> brings(part[n].have + 1)
                [] step.how \in {"wasted", "wasting"} -> WindowWasted
                [] step.how = "refused" -> WindowRefused
                [] OTHER -> brings(Size)

\* Where the timer's run goes: to the channel, or within the rate limit.
AutoGoes ==
  CASE step.how = "limited-check" -> "ended"
    [] step.how \in {"limited", "cut"} -> IF "dlstart" \in Second THEN "dlstart" ELSE "ended"
    [] OTHER -> "check"

\* Which way the channel, the link and RAUC make the other steps go.
Answered ==
  /\ pc = "check" => IF step.how = "offline" THEN pc' = "idle" /\ st' = st
                     ELSE IF \E i \in {served[chan]} \ {None} : ~Refused(i) THEN pc' = "checksave"
                     ELSE st'.error = "check"
  /\ pc = "checksave" /\ goal = "auto" /\ mem.offer # None => pc' = "dlstart"
  /\ pc \in {"house", "housesave"} /\ goal = "auto" => pc' \in {"housesave", AutoGoes}
  /\ pc = "stream" => (pc' = "idle") = (step.how = "refused" \/ mem.offer = None \/ mem.offer.chan # chan)
  /\ pc = "rauc" => pc' = "writing"
  /\ pc = "writing" => (pc' = "idle") = (step.how = "rauc-fails")

Goes ==
  /\ step # None /\ pc # "idle"
  /\ IF pc = "dlwindow" THEN WindowStep
     ELSE /\ \/ CheckNext \/ HouseNext \/ DownloadStart \/ Refetch \/ DownloadVerify \/ DownloadGiveUp
             \/ Resolve \/ StreamStarts \/ RaucWrites \/ RaucEnds \/ Remember
          /\ Answered /\ UNCHANGED left
  /\ UNCHANGED <<sc, step>>

\* The verb is done.
Returns ==
  /\ step # None /\ pc = "idle"
  /\ step' = None
  /\ UNCHANGED <<vars, sc, left>>

Over == sc = <<>> /\ step = None /\ UNCHANGED svars

ScNext == Serves \/ Misses \/ Sets \/ Starts \/ Goes \/ Returns \/ Over

ScSpec == ScInit /\ [][ScNext]_svars

-----------------------------------------------------------------------------
Ver(o) == IF o = None THEN 0 ELSE o.ver

Observed ==
  [offer |-> Ver(st.offer), ready |-> IF Ready(st) THEN st.ready.ver ELSE 0,
   part |-> part["n"].have + part["m"].have, content |-> {final[n] : n \in Names} \ {None},
   whole |-> \E n \in Names : final[n] # None, error |-> st.error, waiting |-> st.waiting,
   serial |-> IF st.seen[chan] = None THEN 0 ELSE st.seen[chan].serial,
   refetch |-> IF st.offer = None THEN 0 ELSE st.refetch[st.offer.sha],
   given |-> st.given, failed |-> failed, installed |-> Ver(st.installed), slot |-> other.ver,
   unit |-> want # None]

\* boat-update as modelled ends every verb of every scenario of the test where the
\* test finds the program: what is on offer, what is downloaded and ready, what is
\* remembered as failed, given up or installed, and which alert stands.  It gets to
\* the end of each: no step is stuck on an answer the model does not have.
AsTested ==
  step # None /\ pc = "idle" => \A f \in DOMAIN step.see : Observed[f] = step.see[f]

=============================================================================
