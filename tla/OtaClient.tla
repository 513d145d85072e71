----------------------------- MODULE OtaClient -----------------------------
(***************************************************************************)
(* boat-update against its channel: check, download, install (from the     *)
(* downloaded file or streamed), what the timer runs, and the housekeeping *)
(* in front of each.  What it remembers is state.json, failed-versions and *)
(* the downloads directory, written one after the other: the power may go, *)
(* or a person's command stop a background run, between any two writes.    *)
(* The A/B slots and the trial are reduced to what boat-update sees of     *)
(* them; ABBoard has their detail.                                         *)
(***************************************************************************)
EXTENDS Naturals, FiniteSets

CONSTANTS
  Channels,    \* the channels a board can follow
  Contents,    \* bundle files, as [id, ver: the release inside, sound: RAUC accepts it]
  Offers,      \* what is published: [ver, name, sha: a content, fit]
  MaxSerial,   \* channel -> its publications
  MaxRefetch,  \* MAX_REFETCH
  Size,        \* the windows a bundle takes
  MaxFaults,   \* answers of a channel that misbehaves
  MaxTrials    \* installs that get booted

ASSUME OtaAssumption ==
  /\ Channels # {} /\ Size \in Nat \ {0}
  /\ MaxSerial \in [Channels -> Nat] /\ MaxRefetch \in Nat /\ MaxFaults \in Nat /\ MaxTrials \in Nat
  /\ \A c \in Contents : c.ver \in Nat /\ c.sound \in BOOLEAN
  /\ \A o \in Offers : o.ver \in Nat /\ o.sha \in Contents

VARIABLES
  published, \* every index ever signed
  served,    \* channel -> the index it serves now; nothing: missing, or not signed by us
  files,     \* bundle name -> the file the channel has under it
  chan,      \* the channel channel.conf names
  st,        \* state.json
  mem,       \* the running boat-update's copy of it
  failed,    \* failed-versions
  final,     \* the downloads directory: name -> whole file
  part,      \* name -> partial file: whose bytes, and how many
  pc,        \* where the boat-update that holds the lock is
  goal,      \* what it was started for
  want,      \* the file an install unit was started with
  rel,       \* the running release
  other,     \* the other slot
  faults,    \* what is left of MaxFaults
  trials,    \* what is left of MaxTrials
  wrote      \* history: what the last install wrote, and why

channel == <<published, served, files>>
disk    == <<st, failed, final, part>>
proc    == <<mem, pc, goal, want>>
board   == <<rel, other, trials>>
vars    == <<channel, chan, disk, proc, board, faults, wrote>>

None == [none |-> TRUE]

Names == {o.name : o \in Offers}

\* A partial file: a prefix of one content, or a mixture.
NoPart == [of |-> None, have |-> 0]
Mixed  == [none |-> FALSE]

\* The other slot: its release, whether GRUB has it usable, first in ORDER, an
\* attempt used, committed, and whether RAUC's last write there ended well.
OlderSlot == [ver |-> 0, ok |-> TRUE, first |-> FALSE, tried |-> FALSE, com |-> TRUE, whole |-> TRUE]

EmptyState == [seen |-> [c \in Channels |-> None], offer |-> None, ready |-> None,
               given |-> {}, refetch |-> [c \in Contents |-> 0], installed |-> None,
               error |-> "none", waiting |-> FALSE]

Init ==
  /\ published = {} /\ served = [c \in Channels |-> None] /\ files = [n \in Names |-> None]
  /\ chan \in Channels
  /\ st = EmptyState /\ failed = {} /\ final = [n \in Names |-> None] /\ part = [n \in Names |-> NoPart]
  /\ mem = EmptyState /\ pc = "idle" /\ goal = "none" /\ want = None
  /\ rel = 1 /\ other = OlderSlot /\ trials = MaxTrials
  /\ faults = MaxFaults /\ wrote = None

-----------------------------------------------------------------------------
(***************************************************************************)
(* The channel, and the board's owner (external).                          *)
(***************************************************************************)
\* The publisher puts the bundle, then its index; serials only go up.
Publish(c, o) ==
  LET serial == Cardinality({i \in published : i.chan = c}) + 1
      idx == [chan |-> c, serial |-> serial, ver |-> o.ver, name |-> o.name,
              sha |-> o.sha, fit |-> o.fit]
  IN  /\ serial <= MaxSerial[c]
      /\ published' = published \cup {idx}
      /\ served' = [served EXCEPT ![c] = idx]
      /\ files' = [files EXCEPT ![o.name] = o.sha]
      /\ UNCHANGED <<chan, disk, proc, board, faults, wrote>>

\* A cache serves an older index or another channel's, or the index is gone or
\* unsigned.
Misserve(c) ==
  /\ faults > 0 /\ faults' = faults - 1
  /\ \E i \in published \cup {None} : served' = [served EXCEPT ![c] = i]
  /\ UNCHANGED <<published, files, chan, disk, proc, board, wrote>>

\* channel.conf is edited.
SwitchChannel ==
  /\ \E c \in Channels \ {chan} : chan' = c
  /\ UNCHANGED <<channel, disk, proc, board, faults, wrote>>

-----------------------------------------------------------------------------
(***************************************************************************)
(* A run of boat-update: under its lock, from its own copy of state.json.  *)
(***************************************************************************)
Verbs == {"check", "auto", "download", "install", "stream", "status"}

\* Every verb but check and download tidies up first.
First(v) == CASE v = "check" -> "check" [] v = "download" -> "dlstart" [] OTHER -> "trial"

Start(v) ==
  /\ pc = "idle"
  /\ pc' = First(v) /\ goal' = v /\ mem' = st
  /\ UNCHANGED <<channel, chan, disk, want, board, faults, wrote>>

Idle == pc' = "idle" /\ goal' = "none" /\ mem' = EmptyState

\* save_state: atomic.
Save(s) == st' = s

\* noted: a check or download that failed is kept in state.json as it is on the
\* disk; what the run had not saved is lost.
Noted(stage) == Save([st EXCEPT !.error = stage]) /\ Idle

\* The power goes, or the run is stopped; what was in memory is gone.
Killed ==
  /\ pc \notin {"idle", "off"}
  /\ pc' = "off" /\ goal' = "none" /\ mem' = EmptyState
  /\ UNCHANGED <<channel, chan, disk, want, board, faults, wrote>>

Recovers ==
  /\ pc = "off" /\ Idle
  /\ UNCHANGED <<channel, chan, disk, want, board, faults, wrote>>

NoLongerWanted(v) == v <= rel \/ v \in failed

-----------------------------------------------------------------------------
(***************************************************************************)
(* housekeeping.                                                           *)
(***************************************************************************)
\* trial_outcome: the installed release's trial ended, and nobody said how.
EndedSilently ==
  mem.installed # None /\ ~other.com /\ (~other.ok \/ other.tried)

\* The failed version is on the disk first.
TrialOutcome ==
  /\ pc = "trial"
  /\ IF EndedSilently
       THEN failed' = failed \cup {mem.installed.ver} /\ pc' = "trialsave"
       ELSE failed' = failed /\ pc' = IF mem.installed # None /\ other.com THEN "trialsave" ELSE "house"
  /\ UNCHANGED <<channel, chan, st, final, part, mem, goal, want, board, faults, wrote>>

TrialSave ==
  /\ pc = "trialsave"
  /\ mem' = [mem EXCEPT !.installed = None]
  /\ Save(mem')
  /\ pc' = "house"
  /\ UNCHANGED <<channel, chan, failed, final, part, goal, want, board, faults, wrote>>

\* ready: recorded, and the file is there.
Ready(s) == s.ready # None /\ final[s.ready.name] # None

\* Where the verb goes on after housekeeping.  auto only checks now and then; in
\* between it goes on with a download that is not finished, if that is the policy.
Second == CASE goal = "auto" -> {"check", "ended"} \cup
                                (IF mem.offer # None /\ ~Ready(mem) THEN {"dlstart"} ELSE {})
            [] goal = "install" -> {"resolve"}
            [] goal = "stream" -> {"stream"}
            [] OTHER -> {"check"}

\* The files of a bundle, and of an offer, that is no longer wanted.
Housekeeping ==
  /\ pc = "house" /\ goal # "status"
  /\ LET r == mem.ready # None /\ NoLongerWanted(mem.ready.ver)
         o == mem.offer # None /\ NoLongerWanted(mem.offer.ver)
     IN  /\ final' = IF r THEN [final EXCEPT ![mem.ready.name] = None] ELSE final
         /\ part' = IF o THEN [part EXCEPT ![mem.offer.name] = NoPart] ELSE part
         /\ mem' = [mem EXCEPT !.ready = IF r THEN None ELSE @, !.offer = IF o THEN None ELSE @]
         /\ IF r \/ o THEN pc' = "housesave" ELSE pc' \in Second
  /\ UNCHANGED <<channel, chan, st, failed, goal, want, board, faults, wrote>>

HousekeepingSave ==
  /\ pc = "housesave"
  /\ Save(mem)
  /\ pc' \in Second
  /\ UNCHANGED <<channel, chan, failed, final, part, mem, goal, want, board, faults, wrote>>

\* status and history only look at the trial; auto may have nothing more to do.
Ends ==
  /\ pc = "ended" \/ (pc = "house" /\ goal = "status")
  /\ Idle
  /\ UNCHANGED <<channel, chan, disk, want, board, faults, wrote>>

-----------------------------------------------------------------------------
(***************************************************************************)
(* check.                                                                  *)
(***************************************************************************)
Same(i) == mem.seen[i.chan] = i

\* A check that takes any serial.
Refused_Never(i) == i.chan # chan \/ i.fit = "otherboard"

\* decide, where it raises: an index for another channel, a replay, one for
\* another board.
Refused(i) ==
  \/ i.chan # chan
  \/ mem.seen[i.chan] # None /\ i.serial <= mem.seen[i.chan].serial /\ ~Same(i)
  \/ i.fit = "otherboard"

\* usable_version of the other slot.
OtherVersion(v) == other.ok /\ other.whole /\ other.ver = v

\* decide, where it offers.  Another L4T or device tree is a reflash.
Offered(i) ==
  /\ ~NoLongerWanted(i.ver) /\ ~OtherVersion(i.ver)
  /\ ~(i.sha \in mem.given /\ Same(i))
  /\ i.fit = "ok"

\* What a new index does to the copy in memory.
Accepted(i) ==
  LET fresh == [mem EXCEPT !.given = IF Same(i) THEN @ ELSE {},
                           !.refetch = IF Same(i) THEN @ ELSE [c \in Contents |-> 0],
                           !.seen[i.chan] = i]
  IN  IF Offered(i)
        THEN [fresh EXCEPT !.offer = i,
                           !.ready = IF @ # None /\ @.sha = i.sha THEN @ ELSE None]
        ELSE [fresh EXCEPT !.offer = None, !.ready = None]

\* Downloads are only discarded when the name changes.
Discards_ByName(i) == ~Offered(i) \/ mem.offer = None \/ mem.offer.name # i.name

\* discard_downloads(keep=None): nothing offered, or not the file offered before.
Discards(i) ==
  ~Offered(i) \/ mem.offer = None \/ mem.offer.name # i.name \/ mem.offer.sha # i.sha

\* The index is fetched, verified and decided on; files go before state.json.
Check ==
  /\ pc = "check" /\ served[chan] # None /\ ~Refused(served[chan])
  /\ LET i == served[chan]
     IN  /\ mem' = Accepted(i)
         /\ final' = IF Discards(i) THEN [n \in Names |-> None] ELSE final
         /\ part' = IF Discards(i) THEN [n \in Names |-> NoPart] ELSE part
  /\ pc' = "checksave"
  /\ UNCHANGED <<channel, chan, st, failed, goal, want, board, faults, wrote>>

\* No answer is the board's state; a bad one is an alert.
CheckFails ==
  /\ pc = "check"
  /\ \/ UNCHANGED st /\ Idle
     \/ (\A i \in {served[chan]} \ {None} : Refused(i)) /\ Noted("check")
  /\ UNCHANGED <<channel, chan, failed, final, part, want, board, faults, wrote>>

\* Saved, and the alerts it settles forgotten.
CheckSave ==
  /\ pc = "checksave"
  /\ mem' = [mem EXCEPT !.error = IF @ = "check" \/ mem.offer = None THEN "none" ELSE @]
  /\ Save(mem')
  /\ \/ goal = "auto" /\ mem.offer # None /\ pc' = "dlstart" /\ UNCHANGED goal
     \/ pc' = "ended" /\ UNCHANGED goal
  /\ UNCHANGED <<channel, chan, failed, final, part, want, board, faults, wrote>>

-----------------------------------------------------------------------------
(***************************************************************************)
(* download.                                                               *)
(***************************************************************************)
\* Nothing to do; whole already, but a run was stopped before it was recorded; or
\* on from the partial file.
DownloadStart ==
  /\ pc = "dlstart"
  /\ LET o == mem.offer
         whole == o # None /\ final[o.name] # None /\ final[o.name] = o.sha
     IN  IF o = None \/ Ready(mem)
           THEN /\ IF o # None /\ mem.error = "download"
                     THEN Save([mem EXCEPT !.error = "none"]) ELSE UNCHANGED st
                /\ Idle /\ UNCHANGED <<final, part>>
           ELSE /\ final' = [n \in Names |-> IF n = o.name /\ whole THEN final[n] ELSE None]
                /\ part' = [n \in Names |-> IF n = o.name THEN part[n] ELSE NoPart]
                /\ pc' = IF whole THEN "dlverify" ELSE "dlwindow"
                /\ UNCHANGED <<st, mem, goal>>
  /\ UNCHANGED <<channel, chan, failed, want, board, faults, wrote>>

\* Between windows it may stop: no link, the policy or the channel changed, no
\* progress - or wait, on a metered link.
DownloadStops ==
  /\ pc = "dlwindow"
  /\ \E w \in {st.waiting, TRUE} : Save([mem EXCEPT !.waiting = w])
  /\ Idle
  /\ UNCHANGED <<channel, chan, failed, final, part, want, board, faults, wrote>>

\* A window that brings bytes, from whatever file has that name now.
Window ==
  /\ pc = "dlwindow" /\ part[mem.offer.name].have < Size
  /\ LET n == mem.offer.name
         p == part[n]
     IN  /\ files[n] # None
         /\ \E h \in p.have + 1 .. Size :
              part' = [part EXCEPT ![n] =
                         [have |-> h, of |-> IF p.have = 0 \/ p.of = files[n] THEN files[n] ELSE Mixed]]
  /\ mem' = [mem EXCEPT !.waiting = FALSE]
  /\ Save(IF mem.waiting THEN mem' ELSE st)
  /\ UNCHANGED <<channel, chan, failed, final, pc, goal, want, board, faults, wrote>>

\* The channel redirects or does not have it: an alert, and not a byte kept.
WindowRefused ==
  /\ pc = "dlwindow" /\ (files[mem.offer.name] = None \/ faults > 0)
  /\ faults' = IF faults > 0 THEN faults - 1 ELSE 0
  /\ Noted("download")
  /\ UNCHANGED <<channel, chan, failed, final, part, want, board, wrote>>

\* It sends too much, will not resume, or sends the whole file instead: start
\* over, counted.
WindowWasted ==
  /\ pc = "dlwindow" /\ faults > 0 /\ faults' = faults - 1
  /\ part' = [part EXCEPT ![mem.offer.name] = NoPart]
  /\ pc' = "dlrefetch"
  /\ UNCHANGED <<channel, chan, st, failed, final, mem, goal, want, board, wrote>>

\* The SHA-256 is not looked at.
Complete_Unchecked(p, o) == p.have = Size

\* The bytes are the file the index promised.
Complete(p, o) == p.have = Size /\ p.of = o.sha

DownloadComplete ==
  /\ pc = "dlwindow" /\ part[mem.offer.name].have = Size
  /\ LET n == mem.offer.name
     IN  /\ part' = [part EXCEPT ![n] = NoPart]
         /\ IF Complete(part[n], mem.offer)
              THEN final' = [final EXCEPT ![n] = part[n].of] /\ pc' = "dlverify"
              ELSE final' = final /\ pc' = "dlrefetch"
  /\ UNCHANGED <<channel, chan, st, failed, mem, goal, want, board, faults, wrote>>

\* give_up: this file, until the channel publishes another index.
GivenUp(s) == [s EXCEPT !.given = @ \cup {s.offer.sha}, !.offer = None, !.error = "download"]

\* A fault that is not counted.
Refetch_Uncounted ==
  /\ pc = "dlrefetch"
  /\ pc' = "dlwindow"
  /\ UNCHANGED <<channel, chan, disk, mem, goal, want, board, faults, wrote>>

\* refetch: counted, and given up after MAX_REFETCH.
Refetch ==
  /\ pc = "dlrefetch"
  /\ LET c == mem.offer.sha
     IN  IF mem.refetch[c] >= MaxRefetch
           THEN Save(GivenUp([mem EXCEPT !.refetch[c] = MaxRefetch + 1])) /\ Idle
           ELSE /\ mem' = [mem EXCEPT !.refetch[c] = @ + 1]
                /\ Save(mem')
                /\ pc' = "dlwindow" /\ UNCHANGED goal
  /\ UNCHANGED <<channel, chan, failed, final, part, want, board, faults, wrote>>

\* RAUC takes it, and it is the release the index named.
Sound(o) == final[o.name].sound /\ final[o.name].ver = o.ver

\* finish_download.
DownloadVerify ==
  /\ pc = "dlverify"
  /\ IF Sound(mem.offer)
       THEN /\ Save([mem EXCEPT !.ready = mem.offer,
                                !.error = IF @ = "download" THEN "none" ELSE @])
            /\ Idle /\ UNCHANGED final
       ELSE /\ final' = [final EXCEPT ![mem.offer.name] = None]
            /\ pc' = "dlgiveup" /\ UNCHANGED <<st, mem, goal>>
  /\ UNCHANGED <<channel, chan, failed, part, want, board, faults, wrote>>

DownloadGiveUp ==
  /\ pc = "dlgiveup"
  /\ Save(GivenUp(mem)) /\ Idle
  /\ UNCHANGED <<channel, chan, failed, final, part, want, board, faults, wrote>>

-----------------------------------------------------------------------------
(***************************************************************************)
(* install.                                                                *)
(***************************************************************************)
\* ready_to_install, after housekeeping: still the current offer.
ToInstall(s) == Ready(s) /\ s.offer # None /\ s.ready.sha = s.offer.sha

\* The wrapper names the file to the unit it starts, and lets the lock go.
Resolve ==
  /\ pc = "resolve"
  /\ want' = IF want = None /\ ToInstall(mem) THEN [name |-> mem.ready.name] ELSE want
  /\ Idle
  /\ UNCHANGED <<channel, chan, disk, board, faults, wrote>>

\* The unit's run, some time later: it is given the file's name, and what is
\* under it now is installed.  What was in the slot is no longer waiting for
\* its trial.
UnitStarts ==
  /\ pc = "idle" /\ want # None
  /\ want' = None
  /\ IF final[want.name] = None \/ ~final[want.name].sound
       THEN UNCHANGED <<st, mem, pc, goal>>
       ELSE /\ mem' = [st EXCEPT !.installed = None]
            /\ Save(mem')
            /\ pc' = "rauc" /\ goal' = want.name
  /\ UNCHANGED <<channel, chan, failed, final, part, board, faults, wrote>>

\* stream_install: the offer, from the channel it was checked on, if that answers
\* the preflight.
StreamStarts ==
  /\ pc = "stream"
  /\ \/ Idle /\ UNCHANGED st
     \/ /\ mem.offer # None
        /\ mem.offer.chan = chan /\ files[mem.offer.name] # None
        /\ mem' = [mem EXCEPT !.installed = None]
        /\ Save(mem')
        /\ pc' = "rauc" /\ UNCHANGED goal
  /\ UNCHANGED <<channel, chan, failed, final, part, want, board, faults, wrote>>

\* What RAUC reads: the file, or what the channel sends under the offer's name -
\* refused by the pre-install handler unless it is the release expected.
Source == IF goal = "stream" THEN files[mem.offer.name] ELSE final[goal]
Expected == IF goal = "stream" THEN mem.offer.ver ELSE final[goal].ver

\* RAUC refuses before it writes anything.
RaucRefuses ==
  /\ pc = "rauc" /\ Idle
  /\ UNCHANGED <<channel, chan, disk, want, board, faults, wrote>>

\* RAUC marks the slot bad and writes it.
RaucWrites ==
  /\ pc = "rauc" /\ Source # None /\ Source.sound /\ Source.ver = Expected
  /\ other' = [ver |-> Source.ver, ok |-> FALSE, first |-> FALSE, tried |-> FALSE,
               com |-> FALSE, whole |-> FALSE]
  /\ wrote' = [content |-> Source, streamed |-> goal = "stream", offer |-> st.offer,
               seen |-> st.seen, rel |-> rel, failed |-> failed]
  /\ pc' = "writing"
  /\ UNCHANGED <<channel, chan, disk, mem, goal, want, rel, trials, faults>>

\* The write ends well and the slot is activated, or it ends badly.
RaucEnds ==
  /\ pc = "writing"
  /\ \/ /\ other' = [other EXCEPT !.ok = TRUE, !.first = TRUE, !.whole = TRUE]
        /\ pc' = "remember" /\ UNCHANGED <<mem, goal>>
     \/ Idle /\ UNCHANGED other
  /\ UNCHANGED <<channel, chan, disk, want, rel, trials, faults, wrote>>

\* state["installed"], so that a trial that ends without a verdict is noticed.
Remember ==
  /\ pc = "remember"
  /\ Save([mem EXCEPT !.installed = [ver |-> other.ver]])
  /\ Idle
  /\ UNCHANGED <<channel, chan, failed, final, part, want, board, faults, wrote>>

-----------------------------------------------------------------------------
(***************************************************************************)
(* The trial, as boat-update finds it afterwards (external: GRUB and       *)
(* boat-commit, see ABBoard).                                              *)
(***************************************************************************)
\* The board reboots into the slot, which commits; or the trial fails and
\* boat-commit says so; or it just ends.  A boot is also the end of a run.
Trial ==
  /\ other.first /\ other.ok /\ ~other.tried /\ trials > 0
  /\ trials' = trials - 1
  /\ \/ /\ rel' = other.ver
        /\ other' = [OlderSlot EXCEPT !.ver = rel]
        /\ UNCHANGED failed
     \/ /\ failed' = failed \cup {other.ver}
        /\ other' = [other EXCEPT !.ok = FALSE] /\ UNCHANGED rel
     \/ /\ other' = [other EXCEPT !.tried = TRUE] /\ UNCHANGED <<rel, failed>>
  /\ want' = None /\ Idle
  /\ UNCHANGED <<channel, chan, st, final, part, faults, wrote>>

\* do_rollback to a committed release.
Rollback ==
  /\ pc = "idle" /\ other.ok /\ other.com /\ trials > 0
  /\ trials' = trials - 1
  /\ rel' = other.ver /\ other' = [OlderSlot EXCEPT !.ver = rel]
  /\ want' = None
  /\ UNCHANGED <<channel, chan, disk, mem, pc, goal, faults, wrote>>

CheckNext == Check \/ CheckFails \/ CheckSave
HouseNext == TrialOutcome \/ TrialSave \/ Housekeeping \/ HousekeepingSave \/ Ends
DownloadNext ==
  \/ DownloadStart \/ DownloadStops \/ Window \/ WindowRefused \/ WindowWasted
  \/ DownloadComplete \/ Refetch \/ DownloadVerify \/ DownloadGiveUp
InstallNext ==
  \/ Resolve \/ UnitStarts \/ StreamStarts \/ RaucRefuses \/ RaucWrites \/ RaucEnds \/ Remember

Next ==
  \/ \E c \in Channels : Misserve(c) \/ \E o \in Offers : Publish(c, o)
  \/ SwitchChannel
  \/ \E v \in Verbs : Start(v)
  \/ Killed \/ Recovers
  \/ CheckNext \/ HouseNext \/ DownloadNext \/ InstallNext
  \/ Trial \/ Rollback

Spec == Init /\ [][Next]_vars

\* A run of boat-update never hangs: every request has a time limit.  The timer's
\* run goes on to its download (BOAT_UPDATE_AUTO=download), and now and then a
\* window brings bytes, however often the link or the policy stops it.
Fairness ==
  /\ WF_vars(Recovers \/ CheckNext \/ HouseNext \/ DownloadNext \/ InstallNext)
  /\ SF_vars(CheckSave /\ pc' = "dlstart")
  /\ SF_vars(Window \/ DownloadComplete)

FairSpec == Spec /\ Fairness

-----------------------------------------------------------------------------
\* What is recorded ready, and is still there, is whole and is the very file its
\* index named - whatever write a power cut or a stop came after.
ReadyIsWhole ==
  Ready(st) => final[st.ready.name] = st.ready.sha /\ Sound(st.ready)

\* What was written into the other slot is what the channel's newest accepted
\* index offered when it was written: never a file of an offer withdrawn or
\* replaced since, not even when the check came between the install's wrapper
\* and its unit; never a release that had failed a trial here or is no newer
\* than the one running.  (A stream is held to the release, not to the bytes.)
InstallsTheOffer ==
  wrote # None =>
    /\ wrote.offer # None
    /\ wrote.seen[wrote.offer.chan] = wrote.offer
    /\ wrote.content.ver = wrote.offer.ver
    /\ ~wrote.streamed => wrote.content = wrote.offer.sha
    /\ wrote.offer.ver > wrote.rel /\ wrote.offer.ver \notin wrote.failed

\* A channel's index never takes the board back: each one accepted is the same
\* or of a higher serial, through refusals, stops and power cuts.
NoReplay ==
  [][\A c \in Channels : st.seen[c] # None =>
       st'.seen[c] = st.seen[c] \/ (st'.seen[c] # None /\ st'.seen[c].serial > st.seen[c].serial)]_vars

\* An offer does not stay undone.  If the timer's checks go through time and again
\* and runs are not killed for ever, it is ready in the end, given up or withdrawn:
\* over a link that drops in the middle of every run, from a channel that serves
\* another file under the name, or will not resume.
ComesIn ==
  <>[](pc # "off") /\ []<><<Check /\ goal = "auto">>_vars => []<>(st.offer = None \/ Ready(st))

=============================================================================
