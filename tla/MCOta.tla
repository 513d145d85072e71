------------------------------- MODULE MCOta -------------------------------
(***************************************************************************)
(* Small channels for OtaClient: a release, its rebuild under the same     *)
(* name, and a later one RAUC does not accept; and besides them a channel  *)
(* with nothing on it.  Everything at once is more than TLC can do, so a   *)
(* behaviour is about one of three: what the answers of the one channel    *)
(* do to a download, a board that changes channels, and trials.            *)
(***************************************************************************)
EXTENDS OtaClient

Content(id, ver, sound) == [id |-> id, ver |-> ver, sound |-> sound]
Offer(name, c)          == [ver |-> c.ver, name |-> name, sha |-> c, fit |-> "ok"]

r2    == Content("r2", 2, TRUE)
again == Content("again", 2, TRUE)
bad   == Content("bad", 3, FALSE)

MCContents == {r2, again, bad}
MCOffers   == {Offer("n2", r2), Offer("n2", again), Offer("n3", bad)}

\* All on the board's own channel; another it may follow has nothing.
Serials    == [c \in Channels |-> IF c = "stable" THEN 2 ELSE 0]

VARIABLE about    \* which of the three

MCInit ==
  /\ about \in {"answers", "channels", "trials"} /\ Init
  /\ about # "channels" => chan = "stable"

\* The bad release is never put up.
OnlyGood == \A i \in published' : i.ver = 2

\* One channel, on which an answer misbehaves; no trial.
AboutAnswers == trials' = trials /\ chan' = chan

\* Both channels; what misbehaves is the index, and the board is looked after by
\* its timer and by a person's installs.
AboutChannels ==
  /\ trials' = trials /\ OnlyGood
  /\ faults' = faults \/ served' # served
  /\ goal' \notin Verbs \ {"auto", "install", "stream"}

\* One channel that answers as it should, and one trial or rollback.
AboutTrials == faults' = faults /\ chan' = chan /\ OnlyGood

MCNext ==
  /\ Next /\ UNCHANGED about
  /\ about = "answers"  => AboutAnswers
  /\ about = "channels" => AboutChannels
  /\ about = "trials"   => AboutTrials

MCSpec == MCInit /\ [][MCNext]_<<vars, about>> /\ Fairness

\* What the last install wrote decides nothing but InstallsTheOffer.
Seen == <<about, channel, chan, disk, proc, board, faults, InstallsTheOffer>>

=============================================================================
