----------------------------- MODULE Publisher -----------------------------
(***************************************************************************)
(* publish-update.sh: what every boat following a channel is offered.  A   *)
(* run checks the bundle, reads the channel's index back, takes a serial   *)
(* above everything boards have seen, and uploads the bundle before the    *)
(* index.  Runs on one machine share its key directory, with its counter   *)
(* and lock; machines share nothing but the channel they publish to.       *)
(***************************************************************************)
EXTENDS Integers, Sequences

CONSTANTS
  Pubs,      \* runs of the script that may be under way at once
  Machines,  \* publishing machines, each with its key directories
  Near,      \* those with the channels on their own disk; for the others they are host:path
  Channels,  \* names of channels; "bench" has keys of its own
  Bundles,   \* the bundles there are, see below
  Clocks,    \* what a machine's clock may say
  MaxRuns,   \* how often the script is run
  MaxLost    \* how often a machine's counter is lost, restored or damaged

Nobody == "nobody"

ASSUME PublisherAssumption ==
  /\ Nobody \notin Pubs /\ Near \subseteq Machines
  /\ Clocks \subseteq Nat /\ MaxRuns \in Nat /\ MaxLost \in Nat

(***************************************************************************)
(* A bundle: its version, which build of it, its firmware ("" when the     *)
(* manifest has none), the CA and the key it is signed with, its format    *)
(* ("detached" for a plain bundle's signature, "none" for a file that is   *)
(* no bundle) and whether it is a BOAT_BENCH build.  Names are content-    *)
(* addressed, so a bundle is its own name.                                 *)
(*                                                                         *)
(* An index, as signed: [serial, bundle, reflash, ca]; by is history, the  *)
(* key directory of the run that made it.                                  *)
(***************************************************************************)
VARIABLES
  counter,  \* key directory -> index-serial, 0 when there is none
  lock,     \* key directory -> the run that holds index-serial.lock
  index,    \* channel -> index.p7
  files,    \* channel -> bundle -> "none", "short" or "whole"
  tmp,      \* channel -> bundle -> the copy under its temporary name
  run,      \* what each run is doing
  starts,   \* runs there may still be
  lost,     \* counters that may still be lost
  signed    \* history: the serials recorded, [dir, chan, serial], in order

vars == <<counter, lock, index, files, tmp, run, starts, lost, signed>>

NoIndex == [serial |-> 0, ca |-> "missing", by |-> <<>>]
Off == [pc |-> "off"]
Unreadable == -1

CA(c) == IF c = "bench" THEN "bench" ELSE "fleet"
Dirs == Machines \X {"fleet", "bench"}
Dir(p) == <<run[p].machine, CA(run[p].chan)>>
Doing(p, pc) == run[p].pc = pc

Init ==
  /\ counter = [d \in Dirs |-> 0] /\ lock = [d \in Dirs |-> Nobody]
  /\ index = [c \in Channels |-> NoIndex]
  /\ files = [c \in Channels |-> [b \in Bundles |-> "none"]] /\ tmp = files
  /\ run = [p \in Pubs |-> Off] /\ starts = MaxRuns /\ lost = MaxLost
  /\ signed = <<>>

-----------------------------------------------------------------------------
Goes(p, pc) == run' = [run EXCEPT ![p].pc = pc]

\* The script exits, however: what it held, it lets go of.
Ends(p, why) ==
  /\ run' = [run EXCEPT ![p] = [pc |-> "off", why |-> why]]
  /\ lock' = [d \in Dirs |-> IF lock[d] = p THEN Nobody ELSE lock[d]]

Start(p, m, c, b, reflash, remote) ==
  /\ Doing(p, "off") /\ starts > 0 /\ (remote \/ m \in Near)
  /\ run' = [run EXCEPT ![p] = [pc |-> "wait", machine |-> m, chan |-> c, bundle |-> b,
                                reflash |-> reflash, remote |-> remote,
                                found |-> NoIndex, new |-> NoIndex]]
  /\ starts' = starts - 1
  /\ UNCHANGED <<counter, lock, index, files, tmp, lost, signed>>

Free(p) == lock[Dir(p)] = Nobody

\* flock -w 600.
Lock(p) ==
  /\ Doing(p, "wait") /\ Free(p)
  /\ lock' = [lock EXCEPT ![Dir(p)] = p]
  /\ Goes(p, "prepare")
  /\ UNCHANGED <<counter, index, files, tmp, starts, lost, signed>>

LockTimeout(p) ==
  /\ Doing(p, "wait") /\ ~Free(p)
  /\ Ends(p, "another publish holds the lock")
  /\ UNCHANGED <<counter, index, files, tmp, starts, lost, signed>>

-----------------------------------------------------------------------------
(***************************************************************************)
(* The checks, none of which changes anything.                             *)
(***************************************************************************)
\* The CAs a board on this channel trusts.
Trusted(c) == {CA(c)} \cup (IF c = "bench" THEN {"fleet"} ELSE {})

\* Why a run is refused, in the order the script looks.
Refusals(p) ==
  LET r == run[p]
      b == r.bundle
      old == index[r.chan]
  IN  << [why |-> "not a signed bundle", holds |-> b.fmt = "none"],
         [why |-> "does not verify", holds |-> b.fmt = "detached" \/ b.ca \notin Trusted(r.chan)],
         [why |-> "codeSigning", holds |-> b.by # "rauc-signing"],
         [why |-> "current index does not verify", holds |-> old.ca \notin {"missing", CA(r.chan)}],
         [why |-> "counter is not a number", holds |-> counter[Dir(p)] = Unreadable],
         [why |-> "verity format", holds |-> b.fmt # "verity"],
         [why |-> "a bench build", holds |-> b.bench # (r.chan = "bench")],
         [why |-> "another kernel device tree",
          holds |-> /\ old # NoIndex /\ ~r.reflash
                    /\ b.firmware # "" /\ old.bundle.firmware \notin {"", b.firmware}] >>

\* The device trees are not compared.
Refused_NoTree(p) == {i \in 1..7 : Refusals(p)[i].holds}

Refused(p) == {i \in 1..8 : Refusals(p)[i].holds}

\* The serial without the channel's own, as if the counter told all.
Serial_CounterOnly(p, now) ==
  IF counter[Dir(p)] + 1 > now THEN counter[Dir(p)] + 1 ELSE now

\* Above the counter and above the channel's index, and not below the clock.
Serial(p, now) ==
  LET last == IF index[run[p].chan].serial <= counter[Dir(p)] THEN counter[Dir(p)]
              ELSE index[run[p].chan].serial
  IN  IF last + 1 > now THEN last + 1 ELSE now

\* The bundle, the channel's index and the counter are read, the new index is
\* made and signed.
Prepare(p, now) ==
  /\ Doing(p, "prepare") /\ Refused(p) = {}
  /\ run' = [run EXCEPT ![p].pc = "record", ![p].found = index[run[p].chan],
                        ![p].new = [serial |-> Serial(p, now), bundle |-> run[p].bundle,
                                    reflash |-> run[p].reflash, ca |-> CA(run[p].chan),
                                    by |-> Dir(p)]]
  /\ UNCHANGED <<counter, lock, index, files, tmp, starts, lost, signed>>

Refuse(p) ==
  /\ Doing(p, "prepare") /\ Refused(p) # {}
  /\ Ends(p, Refusals(p)[CHOOSE i \in Refused(p) : \A j \in Refused(p) : i <= j].why)
  /\ UNCHANGED <<counter, index, files, tmp, starts, lost, signed>>

\* A far host's index that cannot be read back, for any reason but that there
\* is none, stops the run.
Unreachable(p) ==
  /\ Doing(p, "prepare") /\ run[p].remote
  /\ Ends(p, "could not read back")
  /\ UNCHANGED <<counter, index, files, tmp, starts, lost, signed>>

\* A counter that is not written.
Recorded_Not(p) == counter

Recorded(p) == [counter EXCEPT ![Dir(p)] = run[p].new.serial]

\* The serial is recorded before anything is uploaded.
Record(p) ==
  /\ Doing(p, "record")
  /\ counter' = Recorded(p)
  /\ signed' = Append(signed, [dir |-> Dir(p), chan |-> run[p].chan, serial |-> run[p].new.serial])
  /\ Goes(p, IF run[p].remote THEN "upload" ELSE "copy")
  /\ UNCHANGED <<lock, index, files, tmp, starts, lost>>

-----------------------------------------------------------------------------
(***************************************************************************)
(* A host:path destination: rsync writes under a name of its own and       *)
(* renames what arrived whole.                                             *)
(***************************************************************************)
Upload(p) ==
  /\ Doing(p, "upload")
  /\ files' = [files EXCEPT ![run[p].chan][run[p].bundle] = "whole"]
  /\ Goes(p, "index")
  /\ UNCHANGED <<counter, lock, index, tmp, starts, lost, signed>>

(***************************************************************************)
(* A local destination: cp to the temporary name, which is the bundle's,   *)
(* check, mv.                                                              *)
(***************************************************************************)
CopyStarts(p) ==
  /\ Doing(p, "copy")
  /\ tmp' = [tmp EXCEPT ![run[p].chan][run[p].bundle] = "short"]
  /\ Goes(p, "copying")
  /\ UNCHANGED <<counter, lock, index, files, starts, lost, signed>>

\* The copy ends whole, or short with nobody told.  It goes on into the file
\* it opened, also when another run has moved that into place.
CopyEnds(p, left) ==
  LET c == run[p].chan
      b == run[p].bundle
  IN  /\ Doing(p, "copying")
      /\ IF tmp[c][b] = "none"
           THEN files' = [files EXCEPT ![c][b] = left] /\ UNCHANGED tmp
           ELSE tmp' = [tmp EXCEPT ![c][b] = left] /\ UNCHANGED files
      /\ Goes(p, "check")
      /\ UNCHANGED <<counter, lock, index, starts, lost, signed>>

CopyFails(p) ==
  /\ Doing(p, "copying")
  /\ Ends(p, "nothing published")
  /\ UNCHANGED <<counter, index, files, tmp, starts, lost, signed>>

\* A copy taken for whole.
CopyIsWhole_Unchecked(p) == TRUE

CopyIsWhole(p) == tmp[run[p].chan][run[p].bundle] = "whole"

CheckCopy(p) ==
  /\ Doing(p, "check")
  /\ IF CopyIsWhole(p) THEN Goes(p, "move") /\ UNCHANGED lock
     ELSE Ends(p, "nothing published")
  /\ UNCHANGED <<counter, index, files, tmp, starts, lost, signed>>

MoveBundle(p) ==
  LET c == run[p].chan
      b == run[p].bundle
  IN  /\ Doing(p, "move")
      /\ IF tmp[c][b] = "none"
           THEN Ends(p, "nothing published") /\ UNCHANGED <<files, tmp>>
           ELSE /\ files' = [files EXCEPT ![c][b] = tmp[c][b]]
                /\ tmp' = [tmp EXCEPT ![c][b] = "none"]
                /\ Goes(p, "index") /\ UNCHANGED lock
      /\ UNCHANGED <<counter, index, starts, lost, signed>>

\* The index appears in one step, over either path.
MoveIndex(p) ==
  /\ Doing(p, "index")
  /\ index' = [index EXCEPT ![run[p].chan] = run[p].new]
  /\ Ends(p, "published")
  /\ UNCHANGED <<counter, files, tmp, starts, lost, signed>>

-----------------------------------------------------------------------------
\* Any command fails, or the script is stopped: set -e ends it there.
Dies(p) ==
  /\ ~Doing(p, "off")
  /\ Ends(p, "died")
  /\ UNCHANGED <<counter, index, files, tmp, starts, lost, signed>>

\* The counter is lost, restored from a backup, or damaged.
LoseCounter(d) ==
  /\ lost > 0 /\ counter[d] # 0
  /\ \E old \in (0..counter[d] - 1) \cup {Unreadable} :
       counter' = [counter EXCEPT ![d] = old]
  /\ lost' = lost - 1
  /\ UNCHANGED <<lock, index, files, tmp, run, starts, signed>>

RunNext(p) ==
  \/ Lock(p) \/ LockTimeout(p) \/ (\E now \in Clocks : Prepare(p, now)) \/ Refuse(p)
  \/ Unreachable(p) \/ Record(p) \/ Upload(p)
  \/ CopyStarts(p) \/ (\E left \in {"short", "whole"} : CopyEnds(p, left)) \/ CopyFails(p)
  \/ CheckCopy(p) \/ MoveBundle(p) \/ MoveIndex(p) \/ Dies(p)

Next ==
  \/ \E p \in Pubs :
       \/ \E m \in Machines, c \in Channels, b \in Bundles, reflash, remote \in BOOLEAN :
            Start(p, m, c, b, reflash, remote)
       \/ RunNext(p)
  \/ \E d \in Dirs : LoseCounter(d)

Spec == Init /\ [][Next]_vars

-----------------------------------------------------------------------------
\* "a board never sees an index naming a file that is not there, or not
\* whole", wherever a run fails, is cut off or follows another.
NamedIsWhole ==
  \A c \in Channels : index[c] # NoIndex => files[c][index[c].bundle] = "whole"

\* Run p moves its index into place on channel c, where a run of another machine
\* has published since p read the index there.
Overtaken(p, c) ==
  MoveIndex(p) /\ run[p].chan = c /\ index[c] # run[p].found /\ index[c].by # Dir(p)

\* The comment above the serial claims: "a lost or restored counter, or a second
\* publishing machine (even one whose clock is behind), can still never go back
\* below what boards have seen".
SerialsNeverGoBack ==
  [][\A c \in Channels : index'[c].serial >= index[c].serial]_vars

\* An index is only ever replaced by one with a higher serial - boards refuse any
\* other as a replay - also after a counter was lost or restored, from a second
\* machine, with a clock that is behind, and past the runs that wait for a lock;
\* unless two machines publish to the channel at once.
SerialsGrowInTurn ==
  [][\A c \in Channels : index'[c] # index[c] =>
       \/ index'[c].serial > index[c].serial
       \/ \E p \in Pubs : Overtaken(p, c)]_vars

\* A publish that failed half way is not followed by one that reuses its
\* serial, and a serial grows from channel to channel, as long as the key
\* directory keeps its counter.
SerialsDiffer ==
  lost = MaxLost =>
    \A i, j \in 1..Len(signed) :
      i < j /\ signed[i].dir = signed[j].dir => signed[i].serial < signed[j].serial

\* A release for another device tree replaces the channel's only as a
\* reflash, else each board would download it and refuse it; unless, again, two
\* machines publish at once.
TreeChangeIsReflash ==
  [][\A c \in Channels :
       LET old == index[c]
           new == index'[c]
       IN  (new # old /\ old # NoIndex /\ ~new.reflash) =>
             \/ new.bundle.firmware = old.bundle.firmware
             \/ "" \in {new.bundle.firmware, old.bundle.firmware}
             \/ \E p \in Pubs : Overtaken(p, c)]_vars

=============================================================================
