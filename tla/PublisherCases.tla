--------------------------- MODULE PublisherCases ---------------------------
(***************************************************************************)
(* The publishes of test-publish-update.py, one after another, through the *)
(* module Publisher: what the script says and what the channel holds       *)
(* afterwards.  Left out: umasks and modes, an old OpenSSL, the keyring    *)
(* checks, and what a board makes of an index, which is OtaScenarios'.     *)
(***************************************************************************)
EXTENDS Publisher

VARIABLES
  script,  \* what the test still does
  began,   \* the publish of the script's first step has been started
  before   \* the channels' indexes when it was

(***************************************************************************)
(* Bundles (make_bundle).                                                  *)
(***************************************************************************)
Good == [version |-> "1.2.0", build |-> 1, firmware |-> "f", ca |-> "fleet",
         by |-> "rauc-signing", fmt |-> "verity", bench |-> FALSE]
Newer == [Good EXCEPT !.version = "1.3.0"]
Rebuilt == [Good EXCEPT !.build = 2]
OtherTree == [Newer EXCEPT !.firmware = "e"]
BenchBuild == [Good EXCEPT !.ca = "bench", !.bench = TRUE]
Bad == {[Good EXCEPT !.fmt = "detached"], [Good EXCEPT !.ca = "bench"],
        [Good EXCEPT !.by = "index-signing"], [Good EXCEPT !.fmt = "plain"],
        [Good EXCEPT !.fmt = "none"]}
CaseBundles == {Good, Newer, Rebuilt, OtherTree, BenchBuild} \cup Bad

(***************************************************************************)
(* Steps.  The clock is 20 unless the step says otherwise.                 *)
(***************************************************************************)
Publish(chan, bundle, says) ==
  [do |-> "publish", machine |-> "here", chan |-> chan, bundle |-> bundle,
   reflash |-> FALSE, remote |-> FALSE, now |-> 20, fault |-> "none", says |-> says]
Remote(step) == [step EXCEPT !.remote = TRUE]
Either(steps) == {steps, [i \in DOMAIN steps |->
                            IF steps[i].do = "publish" THEN Remote(steps[i]) ELSE steps[i]]}
Count(machine, n) == [do |-> "count", machine |-> machine, n |-> n]
Put(chan, ca) == [do |-> "put", chan |-> chan, ca |-> ca]
Hold == [do |-> "hold"]

Twice == Either(<<Publish("stable", Good, "published"), Publish("stable", Good, "published")>>)

\* For testing, then for stable; rebuilt; withdrawn.
Fleet ==
  {<<Publish("testing", Good, "published"), Publish("stable", Good, "published")>>,
   <<Publish("stable", Good, "published"), Publish("stable", Rebuilt, "published")>>,
   <<Publish("stable", Newer, "published"), Publish("stable", Good, "published")>>}

\* Bundles a board's RAUC would refuse, and a bench build on a fleet channel.
Bundled ==
  {<<Publish("stable", [Good EXCEPT !.fmt = "detached"], "does not verify")>>,
   <<Publish("stable", [Good EXCEPT !.ca = "bench"], "does not verify")>>,
   <<Publish("stable", [Good EXCEPT !.by = "index-signing"], "codeSigning")>>,
   <<Publish("stable", [Good EXCEPT !.fmt = "plain"], "verity format")>>,
   <<Publish("stable", BenchBuild, "does not verify")>>,
   <<Publish("stable", [Good EXCEPT !.fmt = "none"], "not a signed bundle")>>,
   <<Publish("bench", BenchBuild, "published")>>}

\* A second publishing machine, its counter and its clock behind.
Second ==
  Either(<<Publish("stable", Good, "published"), Count("there", 5),
           [Publish("stable", Newer, "published") EXCEPT !.machine = "there", !.now = 12]>>)

\* The channel's index cannot be read back, or not under these keys.
ReadBack ==
  {<<Remote(Publish("stable", Good, "published")),
     [Remote(Publish("stable", Newer, "could not read back")) EXCEPT !.fault = "unreachable"]>>}
  \cup UNION {Either(<<Put("stable", ca),
                       Publish("stable", Newer, "current index does not verify")>>)
              : ca \in {"bench", "damaged"}}

Waiting == {<<Hold, Publish("stable", Good, "published")>>}

Trees ==
  {<<Publish("stable", Good, "published"),
     Publish("stable", OtherTree, "another kernel device tree"),
     [Publish("stable", OtherTree, "published") EXCEPT !.reflash = TRUE]>>}

Copies ==
  {<<[Publish("stable", Good, "nothing published") EXCEPT !.fault = fault]>>
     : fault \in {"fails", "short"}}

Cases == Twice \cup Fleet \cup Bundled \cup Second \cup ReadBack \cup Waiting \cup Trees \cup Copies

-----------------------------------------------------------------------------
CaseInit == Init /\ script \in Cases /\ began = FALSE /\ before = index

Step == Head(script)
Done == /\ script' = Tail(script) /\ began' = FALSE
Doing1 == script # <<>> /\ Step.do = "publish"

\* What the test writes by hand: a counter, an index, the lock.
ByHand ==
  /\ script # <<>> /\ Done /\ UNCHANGED before
  /\ \/ /\ Step.do = "count"
        /\ counter' = [counter EXCEPT ![<<Step.machine, "fleet">>] = Step.n]
        /\ UNCHANGED <<lock, index, files, tmp, run, starts, lost, signed>>
     \/ /\ Step.do = "put"
        /\ index' = [index EXCEPT ![Step.chan] =
                       [serial |-> 1, bundle |-> BenchBuild, reflash |-> FALSE, ca |-> Step.ca,
                        by |-> <<>>]]
        /\ UNCHANGED <<counter, lock, files, tmp, run, starts, lost, signed>>
     \/ /\ Step.do = "hold"
        /\ lock' = [lock EXCEPT ![<<"here", "fleet">>] = "other"]
        /\ UNCHANGED <<counter, index, files, tmp, run, starts, lost, signed>>

Begin ==
  /\ Doing1 /\ ~began
  /\ Start("pub", Step.machine, Step.chan, Step.bundle, Step.reflash, Step.remote)
  /\ began' = TRUE /\ before' = index /\ UNCHANGED script

\* The holder of the lock lets go once the publish waits.
LetGo ==
  /\ began /\ lock[<<"here", "fleet">>] = "other"
  /\ lock' = [lock EXCEPT ![<<"here", "fleet">>] = Nobody]
  /\ UNCHANGED <<counter, index, files, tmp, run, starts, lost, signed, script, began, before>>

\* The script runs, with the stubs the step has put before its commands.
Runs ==
  /\ Doing1 /\ began /\ UNCHANGED <<script, began, before>>
  /\ \/ Lock("pub")
     \/ /\ Step.fault # "unreachable" /\ (Prepare("pub", Step.now) \/ Refuse("pub"))
     \/ /\ Step.fault = "unreachable" /\ Unreachable("pub")
     \/ Record("pub") \/ Upload("pub") \/ CopyStarts("pub")
     \/ /\ Step.fault = "fails" /\ CopyFails("pub")
     \/ /\ Step.fault # "fails"
        /\ CopyEnds("pub", IF Step.fault = "short" THEN "short" ELSE "whole")
     \/ CheckCopy("pub") \/ MoveBundle("pub") \/ MoveIndex("pub")

Returned == began /\ Doing("pub", "off")

Return ==
  /\ Returned /\ Done
  /\ UNCHANGED <<counter, lock, index, files, tmp, run, starts, lost, signed, before>>

caseVars == <<vars, script, began, before>>

\* The case has been run to its end.
Stop == script = <<>> /\ UNCHANGED caseVars

CaseNext == ByHand \/ Begin \/ LetGo \/ Runs \/ Return \/ Stop

CaseSpec == CaseInit /\ [][CaseNext]_caseVars

-----------------------------------------------------------------------------
\* Each publish says what the test expects of it, and leaves either a higher
\* index naming the whole bundle - over everything this machine signed before,
\* and with the files published earlier as they were - or the channel as it
\* was.
AsTested ==
  Returned =>
    LET c == Step.chan
        old == before[c]
        new == index[c]
    IN  /\ run["pub"].why = Step.says
        /\ IF Step.says = "published"
             THEN /\ new.bundle = Step.bundle /\ new.reflash = Step.reflash /\ new.ca = CA(c)
                  /\ new.serial > old.serial
                  /\ \A i \in 1..Len(signed) - 1 : signed[i].serial < new.serial
                  /\ files[c][Step.bundle] = "whole" /\ tmp[c][Step.bundle] = "none"
                  /\ old.ca = new.ca => files[c][old.bundle] = "whole"
             ELSE new = old

=============================================================================
