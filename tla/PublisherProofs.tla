-------------------------- MODULE PublisherProofs --------------------------
(***************************************************************************)
(* What a channel's index promises the boards, for any number of runs,     *)
(* machines, channels, bundles, clocks and lost counters.  The lock of a   *)
(* key directory keeps its runs apart (LockInv), so its counter stays      *)
(* above every serial it has signed (CountInv), and what a run found in    *)
(* the channel stays there until the run replaces it, or a run of another  *)
(* key directory has (FoundInv).  Runs that copy to one disk exclude each  *)
(* other in the same way (CopyInv).                                        *)
(***************************************************************************)
EXTENDS Publisher, SequenceTheorems, TLAPS

-----------------------------------------------------------------------------
(***************************************************************************)
(* Types.                                                                  *)
(***************************************************************************)
Indexes == [serial : Nat, bundle : Bundles, reflash : BOOLEAN, ca : {"fleet", "bench"},
            by : Dirs]
Copies  == [Channels -> [Bundles -> {"none", "short", "whole"}]]
Signed  == [dir : Dirs, chan : Channels, serial : Nat]

Busy     == {"prepare", "record", "copy", "copying", "check", "move", "upload", "index"}
Prepared == Busy \ {"prepare"}

\* A run that is under way.
Runs == [pc : Busy \cup {"wait"}, machine : Machines, chan : Channels, bundle : Bundles,
         reflash : BOOLEAN, remote : BOOLEAN, found : Indexes \cup {NoIndex},
         new : Indexes \cup {NoIndex}]

TypeInv ==
  /\ counter \in [Dirs -> Nat \cup {Unreadable}]
  /\ lock \in [Dirs -> Pubs \cup {Nobody}]
  /\ index \in [Channels -> Indexes \cup {NoIndex}]
  /\ files \in Copies /\ tmp \in Copies
  /\ DOMAIN run = Pubs /\ \A p \in Pubs : run[p].pc = "off" \/ run[p] \in Runs
  /\ lost \in 0..MaxLost
  /\ signed \in Seq(Signed)

\* What the check of the device trees leaves: new may follow old on a channel.
MayFollow(old, new) ==
  old # NoIndex /\ ~new.reflash =>
    \/ new.bundle.firmware = old.bundle.firmware
    \/ "" \in {new.bundle.firmware, old.bundle.firmware}

\* A run that got past its checks has its index made out for its own bundle, above
\* the index it found and such that it may follow it.
NewInv ==
  \A p \in Pubs : run[p].pc \in Prepared =>
    /\ run[p].new \in Indexes /\ run[p].new.bundle = run[p].bundle
    /\ run[p].new.by = Dir(p)
    /\ run[p].new.serial > run[p].found.serial
    /\ MayFollow(run[p].found, run[p].new)

LEMMA DirType == ASSUME NEW p \in Pubs, run[p] \in Runs PROVE Dir(p) \in Dirs
BY DEF Dir, Dirs, Runs, CA

\* A step of p leaves the other runs where they are.
Alone(p) == DOMAIN run' = Pubs /\ \A q \in Pubs \ {p} : run'[q] = run[q]

LEMMA GoesOn ==
  ASSUME TypeInv, NEW p \in Pubs, run[p] \in Runs, NEW l \in Busy \cup {"wait"}, Goes(p, l)
  PROVE  /\ run'[p] = [run[p] EXCEPT !.pc = l] /\ run'[p] \in Runs /\ Alone(p)
         /\ run'[p].pc = l /\ run'[p].machine = run[p].machine /\ run'[p].chan = run[p].chan
         /\ run'[p].bundle = run[p].bundle /\ run'[p].new = run[p].new
         /\ run'[p].remote = run[p].remote /\ run'[p].reflash = run[p].reflash
         /\ run'[p].found = run[p].found
BY DEF TypeInv, Goes, Runs, Alone

LEMMA ItEnds ==
  ASSUME TypeInv, NEW p \in Pubs, NEW why, Ends(p, why)
  PROVE  /\ run'[p].pc = "off" /\ Alone(p)
         /\ lock' \in [Dirs -> Pubs \cup {Nobody}]
         /\ \A d \in Dirs : lock[d] # p => lock'[d] = lock[d]
BY DEF TypeInv, Ends, Alone

LEMMA NotRefused ==
  ASSUME NEW p \in Pubs, Refused(p) = {}
  PROVE  /\ counter[Dir(p)] # Unreadable
         /\ LET r == run[p]
                old == index[r.chan]
            IN  ~(/\ old # NoIndex /\ ~r.reflash
                  /\ r.bundle.firmware # ""
                  /\ old.bundle.firmware \notin {"", r.bundle.firmware})
<1>1. ~Refusals(p)[5].holds /\ ~Refusals(p)[8].holds
  BY DEF Refused
<1> QED
  BY <1>1 DEF Refusals

\* A new serial is above the channel's and the counter's.
LEMMA SerialAbove ==
  ASSUME TypeInv, NEW p \in Pubs, run[p] \in Runs, NEW now \in Clocks,
         counter[Dir(p)] # Unreadable
  PROVE  /\ Serial(p, now) \in Nat
         /\ Serial(p, now) > index[run[p].chan].serial
         /\ Serial(p, now) > counter[Dir(p)]
<1>1. counter[Dir(p)] \in Nat
  BY DirType DEF TypeInv
<1>2. index[run[p].chan].serial \in Nat
  BY DEF TypeInv, Runs, Indexes, NoIndex
<1>3. now \in Nat
  BY PublisherAssumption
<1> QED
  BY <1>1, <1>2, <1>3 DEF Serial

\* What a run prepares.
LEMMA PrepareMakes ==
  ASSUME TypeInv, NEW p \in Pubs, NEW now \in Clocks, Prepare(p, now)
  PROVE  /\ run[p] \in Runs /\ run'[p] \in Runs /\ Alone(p) /\ run'[p].pc = "record"
         /\ run'[p].machine = run[p].machine /\ run'[p].chan = run[p].chan
         /\ run'[p].bundle = run[p].bundle /\ run'[p].reflash = run[p].reflash
         /\ run'[p].remote = run[p].remote /\ run'[p].found = index[run[p].chan]
         /\ run'[p].new \in Indexes /\ run'[p].new.bundle = run[p].bundle
         /\ run'[p].new.by = Dir(p)
         /\ run'[p].new.serial = Serial(p, now)
         /\ run'[p].new.serial > index[run[p].chan].serial
         /\ run'[p].new.serial > counter[Dir(p)] /\ counter[Dir(p)] \in Nat
         /\ MayFollow(index[run[p].chan], run'[p].new)
<1>1. run[p] \in Runs /\ run[p].pc = "prepare"
  BY DEF TypeInv, Prepare, Doing
<1>2. counter[Dir(p)] # Unreadable /\ counter[Dir(p)] \in Nat
  BY <1>1, NotRefused, DirType DEF Prepare, TypeInv
<1> DEFINE new == [serial |-> Serial(p, now), bundle |-> run[p].bundle,
                   reflash |-> run[p].reflash, ca |-> CA(run[p].chan), by |-> Dir(p)]
<1>3. Serial(p, now) \in Nat
  BY <1>1, <1>2, SerialAbove
<1>4. new \in Indexes /\ new.serial = Serial(p, now) /\ new.bundle = run[p].bundle
      /\ new.reflash = run[p].reflash /\ new.by = Dir(p)
  BY <1>1, <1>3, DirType DEF Indexes, Runs, CA
<1>5. MayFollow(index[run[p].chan], new)
  BY <1>4, NotRefused DEF MayFollow, Prepare
<1> HIDE DEF new
<1>6. run' = [run EXCEPT ![p].pc = "record", ![p].found = index[run[p].chan], ![p].new = new]
  BY DEF Prepare, new
<1>7. /\ run'[p] = [run[p] EXCEPT !.pc = "record", !.found = index[run[p].chan], !.new = new]
      /\ Alone(p)
  BY <1>6 DEF TypeInv, Alone
<1>8. run'[p] \in Runs /\ run'[p].new = new /\ run'[p].pc = "record"
      /\ run'[p].machine = run[p].machine /\ run'[p].chan = run[p].chan
      /\ run'[p].bundle = run[p].bundle /\ run'[p].reflash = run[p].reflash
      /\ run'[p].remote = run[p].remote /\ run'[p].found = index[run[p].chan]
  <2>1. index[run[p].chan] \in Indexes \cup {NoIndex}
    BY <1>1 DEF TypeInv, Runs
  <2> QED
    BY <1>1, <1>4, <1>7, <2>1 DEF Runs, Busy
<1> QED
  BY <1>1, <1>2, <1>4, <1>5, <1>7, <1>8, SerialAbove

Put(f, c, b, v) == [f EXCEPT ![c][b] = v]

LEMMA PutType ==
  ASSUME NEW f \in Copies, NEW c \in Channels, NEW b \in Bundles,
         NEW v \in {"none", "short", "whole"}
  PROVE  Put(f, c, b, v) \in Copies
BY DEF Copies, Put

LEMMA PutAt ==
  ASSUME NEW f \in Copies, NEW c \in Channels, NEW b \in Bundles, NEW v,
         NEW x \in Channels, NEW y \in Bundles
  PROVE  Put(f, c, b, v)[x][y] = IF x = c /\ y = b THEN v ELSE f[x][y]
BY DEF Copies, Put

LEMMA TypeStep == TypeInv /\ NewInv /\ [Next]_vars => TypeInv'
<1> SUFFICES ASSUME TypeInv, NewInv, [Next]_vars PROVE TypeInv'
  OBVIOUS
<1> USE PublisherAssumption
<1>1. ASSUME NEW p \in Pubs, NEW m \in Machines, NEW c \in Channels, NEW b \in Bundles,
             NEW reflash \in BOOLEAN, NEW remote \in BOOLEAN,
             Start(p, m, c, b, reflash, remote)
      PROVE  TypeInv'
  <2>1. run'[p] \in Runs /\ Alone(p)
    BY <1>1 DEF Start, TypeInv, Alone, Runs
  <2> QED
    BY <1>1, <2>1 DEF Start, TypeInv, Alone
<1>2. ASSUME NEW p \in Pubs, RunNext(p)
      PROVE  TypeInv'
  <2> DEFINE RunsOK == DOMAIN run' = Pubs /\ \A q \in Pubs : run'[q].pc = "off" \/ run'[q] \in Runs
  <2>0. ASSUME run[p].pc # "off", NEW l \in Busy, Goes(p, l)
        PROVE  RunsOK
    BY <2>0, GoesOn DEF TypeInv, Alone
  <2>e. ASSUME NEW why, Ends(p, why)
        PROVE  RunsOK /\ lock' \in [Dirs -> Pubs \cup {Nobody}]
    BY <2>e, ItEnds DEF TypeInv, Alone
  <2>r. run[p].pc # "off" => /\ run[p] \in Runs /\ Dir(p) \in Dirs
                             /\ run[p].chan \in Channels /\ run[p].bundle \in Bundles
    BY DirType DEF TypeInv, Runs
  <2> HIDE DEF RunsOK
  <2>1. CASE Lock(p)
    <3>1. RunsOK
      BY <2>1, <2>0 DEF Lock, Doing, Busy
    <3> QED
      BY <2>1, <3>1, <2>r DEF Lock, Doing, TypeInv, RunsOK
  <2>2. CASE \E now \in Clocks : Prepare(p, now)
    <3> PICK now \in Clocks : Prepare(p, now)
      BY <2>2
    <3>1. RunsOK
      BY PrepareMakes DEF Alone, TypeInv, RunsOK
    <3> QED
      BY <3>1 DEF Prepare, TypeInv, RunsOK
  <2>3. CASE LockTimeout(p) \/ Refuse(p) \/ Unreachable(p) \/ CopyFails(p) \/ Dies(p) \/ MoveIndex(p)
    <3>1. \E why : Ends(p, why)
      BY <2>3 DEF LockTimeout, Refuse, Unreachable, CopyFails, Dies, MoveIndex
    <3>2. RunsOK /\ lock' \in [Dirs -> Pubs \cup {Nobody}]
      BY <2>e, <3>1
    <3>3. index' \in [Channels -> Indexes \cup {NoIndex}]
      <4>1. CASE MoveIndex(p)
        <5>1. run[p].new \in Indexes
          BY <4>1 DEF MoveIndex, Doing, NewInv, Prepared, Busy
        <5> QED
          BY <4>1, <5>1 DEF MoveIndex, TypeInv
      <4> QED
        BY <2>3, <4>1 DEF LockTimeout, Refuse, Unreachable, CopyFails, Dies, TypeInv
    <3> QED
      BY <2>3, <3>2, <3>3 DEF LockTimeout, Refuse, Unreachable, CopyFails, Dies, MoveIndex, TypeInv, RunsOK
  <2>4. CASE Record(p)
    <3>1. RunsOK
      BY <2>4, <2>0 DEF Record, Doing, Busy
    <3>2. run[p].new.serial \in Nat
      BY <2>4 DEF Record, Doing, NewInv, Prepared, Busy, Indexes
    <3>3. counter' \in [Dirs -> Nat \cup {Unreadable}]
      BY <2>4, <3>2, <2>r DEF Record, Recorded, Doing, TypeInv
    <3>4. signed' \in Seq(Signed)
      <4>1. [dir |-> Dir(p), chan |-> run[p].chan, serial |-> run[p].new.serial] \in Signed
        BY <2>4, <3>2, <2>r DEF Record, Doing, Signed
      <4> QED
        BY <2>4, <4>1, AppendProperties DEF Record, TypeInv
    <3> QED
      BY <2>4, <3>1, <3>3, <3>4 DEF Record, TypeInv, RunsOK
  <2>5. CASE Upload(p) \/ CopyStarts(p) \/ \E left \in {"short", "whole"} : CopyEnds(p, left)
    <3>1. RunsOK
      BY <2>5, <2>0 DEF Upload, CopyStarts, CopyEnds, Doing, Busy
    <3>2. files' \in Copies /\ tmp' \in Copies
      <4> DEFINE c == run[p].chan
      <4> DEFINE b == run[p].bundle
      <4>1. c \in Channels /\ b \in Bundles
        BY <2>5, <2>r DEF Upload, CopyStarts, CopyEnds, Doing
      <4>2. \E v \in {"none", "short", "whole"} :
               \/ files' = Put(files, c, b, v) /\ tmp' = tmp
               \/ tmp' = Put(tmp, c, b, v) /\ files' = files
        BY <2>5 DEF Upload, CopyStarts, CopyEnds, Put
      <4> HIDE DEF c, b
      <4> QED
        BY <4>1, <4>2, PutType DEF TypeInv
    <3> QED
      BY <2>5, <3>1, <3>2 DEF Upload, CopyStarts, CopyEnds, TypeInv, RunsOK
  <2>6. CASE CheckCopy(p) \/ MoveBundle(p)
    <3>1. RunsOK /\ lock' \in [Dirs -> Pubs \cup {Nobody}]
      <4>1. run[p].pc # "off"
        BY <2>6 DEF CheckCopy, MoveBundle, Doing
      <4>2. \/ Goes(p, "move") /\ UNCHANGED lock
            \/ Goes(p, "index") /\ UNCHANGED lock
            \/ Ends(p, "nothing published")
        BY <2>6 DEF CheckCopy, MoveBundle
      <4> QED
        BY <4>1, <4>2, <2>0, <2>e DEF TypeInv, Busy
    <3>2. files' \in Copies /\ tmp' \in Copies
      <4>1. CASE CheckCopy(p)
        BY <4>1 DEF CheckCopy, TypeInv
      <4>2. CASE MoveBundle(p)
        <5> DEFINE c == run[p].chan
        <5> DEFINE b == run[p].bundle
        <5>1. c \in Channels /\ b \in Bundles
          BY <4>2, <2>r DEF MoveBundle, Doing
        <5>2. tmp[c][b] \in {"none", "short", "whole"}
          BY <5>1 DEF TypeInv, Copies
        <5>3. \/ files' = files /\ tmp' = tmp
              \/ /\ files' = Put(files, c, b, tmp[c][b])
                 /\ tmp' = Put(tmp, c, b, "none")
          BY <4>2 DEF MoveBundle, Put
        <5> HIDE DEF c, b
        <5> QED
          BY <5>1, <5>2, <5>3, PutType DEF TypeInv
      <4> QED
        BY <2>6, <4>1, <4>2
    <3> QED
      BY <2>6, <3>1, <3>2 DEF CheckCopy, MoveBundle, TypeInv, RunsOK
  <2> QED
    BY <1>2, <2>1, <2>2, <2>3, <2>4, <2>5, <2>6 DEF RunNext
<1>3. ASSUME NEW d \in Dirs, LoseCounter(d)
      PROVE  TypeInv'
  BY <1>3 DEF LoseCounter, TypeInv, Unreadable
<1>4. CASE UNCHANGED vars
  BY <1>4 DEF vars, TypeInv
<1> QED
  BY <1>1, <1>2, <1>3, <1>4 DEF Next

-----------------------------------------------------------------------------
(***************************************************************************)
(* The lock.                                                               *)
(***************************************************************************)
\* A run past its wait has the lock of its key directory.
LockInv == \A p \in Pubs : run[p].pc \in Busy => lock[Dir(p)] = p

\* What a step of the script does to its run: it ends; or it gets the lock; or
\* it makes out its index; or it goes on with what it has.
SameRun(p) ==
  /\ run'[p].machine = run[p].machine /\ run'[p].chan = run[p].chan
  /\ run'[p].bundle = run[p].bundle /\ run'[p].reflash = run[p].reflash
  /\ run'[p].remote = run[p].remote

\* Writing to a disk of its own.
Copying == {"copy", "copying", "check", "move"}

Ended(p) == run'[p].pc = "off" /\ \A d \in Dirs : lock[d] # p => lock'[d] = lock[d]
Locked(p) ==
  /\ run[p].pc = "wait" /\ run'[p].pc = "prepare" /\ SameRun(p)
  /\ lock[Dir(p)] = Nobody /\ lock' = [lock EXCEPT ![Dir(p)] = p]
MadeOut(p) ==
  /\ run[p].pc = "prepare" /\ run'[p].pc = "record" /\ SameRun(p)
  /\ run'[p].found = index[run[p].chan] /\ index' = index
  /\ run'[p].new \in Indexes /\ run'[p].new.bundle = run[p].bundle
  /\ run'[p].new.by = Dir(p) /\ run'[p].new.serial > run'[p].found.serial
  /\ MayFollow(run'[p].found, run'[p].new)
  /\ lock' = lock
WentOn(p) ==
  /\ run[p].pc \in Prepared /\ run'[p].pc \in Prepared \ {"record"} /\ SameRun(p)
  /\ run'[p].new = run[p].new /\ run'[p].found = run[p].found
  /\ run'[p].pc \in Copying => run[p].pc \in Copying \/ ~run[p].remote
  /\ lock' = lock

LEMMA RunShape ==
  ASSUME TypeInv, NEW p \in Pubs, RunNext(p)
  PROVE  /\ run[p] \in Runs /\ Alone(p)
         /\ Ended(p) \/ Locked(p) \/ MadeOut(p) \/ WentOn(p)
<1>0. run[p].pc # "off" /\ run[p] \in Runs
  BY DEF RunNext, Lock, LockTimeout, Prepare, Refuse, Unreachable, Record, Upload, CopyStarts,
         CopyEnds, CopyFails, CheckCopy, MoveBundle, MoveIndex, Dies, Doing, TypeInv
<1>e. ASSUME NEW why, Ends(p, why)
      PROVE  Alone(p) /\ Ended(p)
  BY <1>e, ItEnds DEF Ended
<1>g. ASSUME NEW l \in Prepared \ {"record"}, Goes(p, l), run[p].pc \in Prepared, lock' = lock,
             l \in Copying => run[p].pc \in Copying \/ ~run[p].remote
      PROVE  Alone(p) /\ WentOn(p)
  BY <1>0, <1>g, GoesOn DEF WentOn, SameRun, Prepared
<1>1. CASE Lock(p)
  BY <1>0, <1>1, GoesOn DEF Lock, Free, Doing, Locked, SameRun, Busy
<1>2. CASE \E now \in Clocks : Prepare(p, now)
  <2> PICK now \in Clocks : Prepare(p, now)
    BY <1>2
  <2>1. Doing(p, "prepare") /\ lock' = lock /\ index' = index
    BY DEF Prepare
  <2> QED
    BY <1>0, <2>1, PrepareMakes DEF MadeOut, SameRun, Doing
<1>3. CASE LockTimeout(p) \/ Refuse(p) \/ Unreachable(p) \/ CopyFails(p) \/ MoveIndex(p) \/ Dies(p)
  <2>1. \E why : Ends(p, why)
    BY <1>3 DEF LockTimeout, Refuse, Unreachable, CopyFails, MoveIndex, Dies
  <2> QED
    BY <1>0, <1>e, <2>1
<1>4. CASE Record(p) \/ Upload(p) \/ CopyStarts(p) \/ \E left \in {"short", "whole"} : CopyEnds(p, left)
  <2>1. \E l \in Prepared \ {"record"} :
          /\ Goes(p, l) /\ run[p].pc \in Prepared /\ lock' = lock
          /\ l \in Copying => run[p].pc \in Copying \/ ~run[p].remote
    BY <1>4 DEF Record, Upload, CopyStarts, CopyEnds, Doing, Prepared, Busy, Copying
  <2> QED
    BY <1>0, <1>g, <2>1
<1>5. CASE CheckCopy(p) \/ MoveBundle(p)
  <2>1. \/ \E why : Ends(p, why)
        \/ \E l \in Prepared \ {"record"} :
             /\ Goes(p, l) /\ run[p].pc \in Prepared /\ lock' = lock
             /\ l \in Copying => run[p].pc \in Copying \/ ~run[p].remote
    BY <1>5 DEF CheckCopy, MoveBundle, Doing, Prepared, Busy, Copying
  <2> QED
    BY <1>0, <1>e, <1>g, <2>1
<1> QED
  BY <1>1, <1>2, <1>3, <1>4, <1>5 DEF RunNext

LEMMA StartShape ==
  ASSUME TypeInv, NEW p \in Pubs, NEW m \in Machines, NEW c \in Channels, NEW b \in Bundles,
         NEW reflash \in BOOLEAN, NEW remote \in BOOLEAN, Start(p, m, c, b, reflash, remote)
  PROVE  Alone(p) /\ run'[p].pc = "wait" /\ lock' = lock
BY DEF Start, TypeInv, Alone

LEMMA LockStep == TypeInv /\ NewInv /\ LockInv /\ [Next]_vars => NewInv' /\ LockInv'
<1> SUFFICES ASSUME TypeInv, NewInv, LockInv, [Next]_vars PROVE NewInv' /\ LockInv'
  OBVIOUS
<1> USE DEF NewInv, LockInv
<1>1. ASSUME NEW p \in Pubs, NEW m \in Machines, NEW c \in Channels, NEW b \in Bundles,
             NEW reflash \in BOOLEAN, NEW remote \in BOOLEAN,
             Start(p, m, c, b, reflash, remote)
      PROVE  NewInv' /\ LockInv'
  BY <1>1, StartShape DEF Alone, Prepared, Busy, Dir
<1>2. ASSUME NEW p \in Pubs, RunNext(p)
      PROVE  NewInv' /\ LockInv'
  <2>1. /\ run[p] \in Runs /\ Alone(p)
        /\ Ended(p) \/ Locked(p) \/ MadeOut(p) \/ WentOn(p)
    BY <1>2, RunShape
  <2>2. NewInv'
    <3> SUFFICES ASSUME NEW q \in Pubs, run'[q].pc \in Prepared
                 PROVE  /\ run'[q].new \in Indexes /\ run'[q].new.bundle = run'[q].bundle
                        /\ run'[q].new.by = Dir(q)'
                        /\ run'[q].new.serial > run'[q].found.serial
                        /\ MayFollow(run'[q].found, run'[q].new)
      BY DEF MayFollow
    <3>1. CASE q # p
      BY <2>1, <3>1 DEF Alone, Dir, MayFollow
    <3>2. CASE q = p /\ MadeOut(p)
      BY <3>2 DEF MadeOut, SameRun, Dir, MayFollow
    <3>3. CASE q = p /\ WentOn(p)
      BY <3>3 DEF WentOn, SameRun, Dir, MayFollow
    <3> QED
      BY <2>1, <3>1, <3>2, <3>3 DEF Ended, Locked, Prepared, Busy
  <2>3. ASSUME NEW q \in Pubs, run'[q].pc \in Busy
        PROVE  lock'[Dir(q)'] = q
    <3>1. CASE q = p
      <4>1. Dir(p)' = Dir(p) /\ Dir(p) \in Dirs
        BY <2>1, <2>3, <3>1, DirType DEF Ended, Locked, MadeOut, WentOn, SameRun, Dir, Busy
      <4> QED
        BY <2>1, <2>3, <3>1, <4>1 DEF Ended, Locked, MadeOut, WentOn, Prepared, Busy, TypeInv
    <3>2. CASE q # p
      <4>1. run'[q] = run[q] /\ Dir(q)' = Dir(q) /\ lock[Dir(q)] = q
        BY <2>1, <2>3, <3>2 DEF Alone, Dir
      <4>2. Dir(q) \in Dirs
        BY <2>3, <4>1, DirType DEF TypeInv, Busy
      <4> QED
        BY <2>1, <3>2, <4>1, <4>2, PublisherAssumption, DirType
           DEF Ended, Locked, MadeOut, WentOn, TypeInv
    <3> QED
      BY <3>1, <3>2
  <2> QED
    BY <2>2, <2>3
<1>3. ASSUME NEW d \in Dirs, LoseCounter(d)
      PROVE  NewInv' /\ LockInv'
  BY <1>3 DEF LoseCounter, Dir
<1>4. CASE UNCHANGED vars
  BY <1>4 DEF vars, Dir
<1> QED
  BY <1>1, <1>2, <1>3, <1>4 DEF Next

-----------------------------------------------------------------------------
(***************************************************************************)
(* A key directory's serials.                                              *)
(***************************************************************************)
\* While no counter was lost: none is below a serial it has signed, and a run
\* that is about to record one has one above it.
Counted ==
  /\ \A d \in Dirs : counter[d] # Unreadable
  /\ \A i \in 1..Len(signed) : signed[i].serial <= counter[signed[i].dir]
  /\ \A p \in Pubs : run[p].pc = "record" => counter[Dir(p)] < run[p].new.serial
  /\ \A i, j \in 1..Len(signed) :
       i < j /\ signed[i].dir = signed[j].dir => signed[i].serial < signed[j].serial

CountInv == lost = MaxLost => Counted

LEMMA CountStep ==
  TypeInv /\ NewInv /\ LockInv /\ CountInv /\ [Next]_vars => CountInv'
<1> SUFFICES ASSUME TypeInv, NewInv, LockInv, CountInv, [Next]_vars, (lost = MaxLost)'
             PROVE  Counted'
  BY DEF CountInv
<1> USE DEF Counted
<1>1. ASSUME NEW p \in Pubs, NEW m \in Machines, NEW c \in Channels, NEW b \in Bundles,
             NEW reflash \in BOOLEAN, NEW remote \in BOOLEAN,
             Start(p, m, c, b, reflash, remote)
      PROVE  Counted'
  <2>1. lost' = lost /\ counter' = counter /\ signed' = signed
    BY <1>1 DEF Start
  <2>2. \A q \in Pubs : run'[q].pc = "record" => run'[q] = run[q]
    BY <1>1, StartShape DEF Alone
  <2> QED
    BY <2>1, <2>2 DEF CountInv, Dir
<1>2. ASSUME NEW p \in Pubs, RunNext(p)
      PROVE  Counted'
  <2>0. lost' = lost /\ Counted
    BY <1>2 DEF RunNext, Lock, LockTimeout, Prepare, Refuse, Unreachable, Record, Upload, CopyStarts,
         CopyEnds, CopyFails, CheckCopy, MoveBundle, MoveIndex, Dies, CountInv
  <2>s. /\ run[p] \in Runs /\ Alone(p)
        /\ Ended(p) \/ Locked(p) \/ MadeOut(p) \/ WentOn(p)
    BY <1>2, RunShape
  <2>1. CASE Record(p)
    <3> DEFINE d == Dir(p)
    <3> DEFINE n == run[p].new.serial
    <3> DEFINE e == [dir |-> d, chan |-> run[p].chan, serial |-> n]
    <3>1. run[p].pc = "record" /\ d \in Dirs /\ n \in Nat /\ counter[d] < n
      BY <2>0, <2>1, <2>s, DirType DEF Record, Doing, NewInv, Prepared, Busy, Indexes
    <3>2. counter' = [counter EXCEPT ![d] = n] /\ signed' = Append(signed, e)
      BY <2>1 DEF Record, Recorded
    <3>3. /\ Len(signed') = Len(signed) + 1 /\ Len(signed) \in Nat
          /\ \A i \in 1..Len(signed) : signed'[i] = signed[i] /\ signed[i] \in Signed
          /\ signed'[Len(signed) + 1] = e
      BY <3>2 DEF TypeInv
    <3>4. \A x \in Dirs : counter[x] \in Nat /\ counter'[x] \in Nat /\ counter[x] <= counter'[x]
      BY <2>0, <3>1, <3>2 DEF TypeInv
    <3>5. counter'[d] = n /\ e.dir = d /\ e.serial = n
      BY <3>1, <3>2 DEF TypeInv
    <3> HIDE DEF d, n, e
    <3>6. \A i \in 1..Len(signed) : /\ signed[i].dir \in Dirs /\ signed[i].serial \in Nat
                                    /\ signed[i].serial <= counter[signed[i].dir]
      BY <2>0, <3>3 DEF Signed
    <3>7. \A i \in 1..Len(signed') : signed'[i].serial <= counter'[signed'[i].dir]
      <4> TAKE i \in 1..Len(signed')
      <4>1. CASE i = Len(signed) + 1
        BY <3>1, <3>3, <3>5, <4>1
      <4>2. CASE i \in 1..Len(signed)
        BY <3>3, <3>4, <3>6, <4>2
      <4> QED
        BY <3>3, <4>1, <4>2
    <3>8. \A q \in Pubs : run'[q].pc = "record" => counter'[Dir(q)'] < run'[q].new.serial
      <4> TAKE q \in Pubs
      <4> HAVE run'[q].pc = "record"
      <4>1. q # p
        BY <2>1, <2>s, <3>1 DEF Record, Ended, Locked, MadeOut, WentOn
      <4>2. run'[q] = run[q] /\ Dir(q)' = Dir(q) /\ run[q].pc = "record"
        BY <2>s, <4>1 DEF Alone, Dir
      <4>3. Dir(q) # d
        BY <3>1, <4>1, <4>2 DEF LockInv, Busy, d
      <4>4. Dir(q) \in Dirs
        BY <4>2, DirType DEF TypeInv
      <4> QED
        BY <2>0, <3>2, <4>2, <4>3, <4>4 DEF TypeInv
    <3>9. ASSUME NEW i \in 1..Len(signed'), NEW j \in 1..Len(signed'),
                 i < j, signed'[i].dir = signed'[j].dir
          PROVE  signed'[i].serial < signed'[j].serial
      <4>1. i \in 1..Len(signed) /\ signed'[i] = signed[i]
        BY <3>3, <3>9
      <4>2. CASE j = Len(signed) + 1
        BY <3>1, <3>3, <3>4, <3>5, <3>6, <3>9, <4>1, <4>2
      <4>3. CASE j \in 1..Len(signed)
        BY <2>0, <3>3, <3>9, <4>1, <4>3
      <4> QED
        BY <3>3, <4>2, <4>3
    <3>10. \A x \in Dirs : counter'[x] # Unreadable
      BY <3>4 DEF Unreadable
    <3> QED
      BY <3>7, <3>8, <3>9, <3>10
  <2>2. CASE ~Record(p)
    <3>1. counter' = counter /\ signed' = signed
      BY <1>2, <2>2 DEF RunNext, Lock, LockTimeout, Prepare, Refuse, Unreachable, Upload, CopyStarts,
         CopyEnds, CopyFails, CheckCopy, MoveBundle, MoveIndex, Dies
    <3>2. ASSUME NEW q \in Pubs, run'[q].pc = "record"
          PROVE  counter'[Dir(q)'] < run'[q].new.serial
      <4>1. CASE q # p
        BY <2>0, <2>s, <3>1, <3>2, <4>1 DEF Alone, Dir
      <4>2. CASE q = p
        <5>1. run[p].pc = "prepare"
          BY <2>s, <3>2, <4>2 DEF Ended, Locked, MadeOut, WentOn
        <5>2. PICK now \in Clocks : Prepare(p, now)
          BY <1>2, <3>2, <4>2, <5>1, ItEnds DEF RunNext, Lock, LockTimeout, Refuse, Unreachable, Record, Upload, CopyStarts,
             CopyEnds, CopyFails, CheckCopy, MoveBundle, MoveIndex, Dies, Doing
        <5>3. Dir(p)' = Dir(p)
          BY <5>2, PrepareMakes DEF Dir
        <5> QED
          BY <3>1, <4>2, <5>2, <5>3, PrepareMakes
      <4> QED
        BY <4>1, <4>2
    <3> QED
      BY <2>0, <3>1, <3>2
  <2> QED
    BY <2>1, <2>2
<1>3. ASSUME NEW d \in Dirs, LoseCounter(d)
      PROVE  FALSE
  BY <1>3, PublisherAssumption DEF LoseCounter, TypeInv
<1>4. CASE UNCHANGED vars
  BY <1>4 DEF vars, Dir, CountInv
<1> QED
  BY <1>1, <1>2, <1>3, <1>4 DEF Next

LEMMA Initially == Init => TypeInv /\ NewInv /\ LockInv /\ CountInv
BY PublisherAssumption DEF Init, TypeInv, NewInv, LockInv, CountInv, Counted, Off, Copies, Prepared, Busy,
   Unreadable

\* As long as it keeps its counter, a key directory signs no serial twice, and
\* what it signs later is higher - whatever runs, channels and clocks there are.
THEOREM SerialsRise == Spec => []SerialsDiffer
<1>1. TypeInv /\ CountInv => SerialsDiffer
  BY DEF CountInv, Counted, SerialsDiffer
<1> QED
  BY <1>1, Initially, TypeStep, LockStep, CountStep, PTL DEF Spec

-----------------------------------------------------------------------------
(***************************************************************************)
(* A channel.                                                              *)
(***************************************************************************)
\* What a run found in the channel is there, or what a run of another key
\* directory has put up since.
FoundInv ==
  \A p \in Pubs : run[p].pc \in Prepared =>
    index[run[p].chan] = run[p].found \/ index[run[p].chan].by # Dir(p)

\* The index changes only when a run moves its own into place.
LEMMA IndexShape ==
  ASSUME TypeInv, NEW p \in Pubs, RunNext(p)
  PROVE  \/ index' = index
         \/ /\ MoveIndex(p) /\ run[p].pc = "index"
            /\ index' = [index EXCEPT ![run[p].chan] = run[p].new]
            /\ files' = files /\ tmp' = tmp /\ run'[p].pc = "off"
<1>1. CASE MoveIndex(p)
  BY <1>1, ItEnds DEF MoveIndex, Doing
<1>2. CASE ~MoveIndex(p)
  BY <1>2 DEF RunNext, Lock, LockTimeout, Prepare, Refuse, Unreachable, Record, Upload, CopyStarts,
     CopyEnds, CopyFails, CheckCopy, MoveBundle, Dies
<1> QED
  BY <1>1, <1>2

LEMMA FoundStep == TypeInv /\ NewInv /\ LockInv /\ FoundInv /\ [Next]_vars => FoundInv'
<1> SUFFICES ASSUME TypeInv, NewInv, LockInv, FoundInv, [Next]_vars,
                    NEW q \in Pubs, run'[q].pc \in Prepared
             PROVE  index'[run'[q].chan] = run'[q].found \/ index'[run'[q].chan].by # Dir(q)'
  BY DEF FoundInv
<1>1. ASSUME NEW p \in Pubs, NEW m \in Machines, NEW c \in Channels, NEW b \in Bundles,
             NEW reflash \in BOOLEAN, NEW remote \in BOOLEAN,
             Start(p, m, c, b, reflash, remote)
      PROVE  index'[run'[q].chan] = run'[q].found \/ index'[run'[q].chan].by # Dir(q)'
  <2>1. index' = index /\ run'[q] = run[q]
    BY <1>1, StartShape DEF Start, Alone, Prepared, Busy
  <2> QED
    BY <2>1 DEF FoundInv, Dir
<1>2. ASSUME NEW p \in Pubs, RunNext(p)
      PROVE  index'[run'[q].chan] = run'[q].found \/ index'[run'[q].chan].by # Dir(q)'
  <2>1. /\ run[p] \in Runs /\ Alone(p)
        /\ Ended(p) \/ Locked(p) \/ MadeOut(p) \/ WentOn(p)
    BY <1>2, RunShape
  <2>2. \/ index' = index
        \/ /\ run[p].pc = "index" /\ run'[p].pc = "off"
           /\ index' = [index EXCEPT ![run[p].chan] = run[p].new]
    BY <1>2, IndexShape
  <2>3. CASE q = p
    <3>1. index' = index
      BY <2>2, <2>3 DEF Prepared, Busy
    <3>2. CASE MadeOut(p)
      BY <2>3, <3>1, <3>2 DEF MadeOut, SameRun
    <3>3. CASE WentOn(p)
      BY <2>3, <3>1, <3>3 DEF WentOn, SameRun, FoundInv, Dir
    <3> QED
      BY <2>1, <2>3, <3>2, <3>3 DEF Ended, Locked, Prepared, Busy
  <2>4. CASE q # p
    <3>1. run'[q] = run[q] /\ Dir(q)' = Dir(q) /\ run[q].pc \in Prepared
      BY <2>1, <2>4 DEF Alone, Dir
    <3>2. CASE index'[run[q].chan] = index[run[q].chan]
      BY <3>1, <3>2 DEF FoundInv
    <3>3. CASE index'[run[q].chan] # index[run[q].chan]
      <4>1. run[p].pc = "index" /\ index'[run[q].chan] = run[p].new
        <5>1. run[q].chan \in Channels
          BY <3>1 DEF TypeInv, Runs, Prepared, Busy
        <5> QED
          BY <2>2, <3>3, <5>1 DEF TypeInv
      <4>2. run[p].new.by = Dir(p) /\ lock[Dir(p)] = p /\ lock[Dir(q)] = q
        BY <3>1, <4>1 DEF NewInv, LockInv, Prepared, Busy
      <4> QED
        BY <2>4, <3>1, <4>1, <4>2
    <3> QED
      BY <3>2, <3>3
  <2> QED
    BY <2>3, <2>4
<1>3. ASSUME NEW d \in Dirs, LoseCounter(d)
      PROVE  index'[run'[q].chan] = run'[q].found \/ index'[run'[q].chan].by # Dir(q)'
  BY <1>3 DEF LoseCounter, FoundInv, Dir
<1>4. CASE UNCHANGED vars
  BY <1>4 DEF vars, FoundInv, Dir
<1> QED
  BY <1>1, <1>2, <1>3, <1>4 DEF Next

FInv == TypeInv /\ NewInv /\ LockInv /\ FoundInv

LEMMA FoundAlways == Spec => []FInv
<1>1. Init => FInv
  BY Initially DEF Init, FInv, FoundInv, Off, Prepared, Busy
<1>2. FInv /\ [Next]_vars => FInv'
  BY TypeStep, LockStep, FoundStep DEF FInv
<1> QED
  BY <1>1, <1>2, PTL DEF Spec

\* An index that replaces another was made out above it and for boards that may
\* follow it, unless a run of another machine has published in between.
LEMMA Replaces ==
  ASSUME FInv, [Next]_vars, NEW c \in Channels, index'[c] # index[c]
  PROVE  \/ index'[c].serial > index[c].serial /\ MayFollow(index[c], index'[c])
         \/ \E p \in Pubs : Overtaken(p, c)
<1> USE DEF FInv
<1>1. PICK p \in Pubs : RunNext(p)
  BY DEF Next, Start, LoseCounter, vars
<1>2. /\ MoveIndex(p) /\ run[p].pc = "index"
      /\ index' = [index EXCEPT ![run[p].chan] = run[p].new]
  BY <1>1, IndexShape
<1>3. c = run[p].chan /\ index'[c] = run[p].new
  BY <1>2 DEF TypeInv
<1>4. /\ run[p].new.serial > run[p].found.serial /\ MayFollow(run[p].found, run[p].new)
      /\ index[c] = run[p].found \/ index[c].by # Dir(p)
  BY <1>2, <1>3 DEF NewInv, FoundInv, Prepared, Busy
<1>5. CASE index[c] = run[p].found
  BY <1>3, <1>4, <1>5
<1>6. CASE index[c] # run[p].found
  BY <1>2, <1>3, <1>4, <1>6 DEF Overtaken
<1> QED
  BY <1>5, <1>6

\* Boards see only higher serials, from any number of machines, also after a counter
\* was lost, restored or damaged and with a clock behind; but for a run that finds
\* another machine's newer index only when it replaces it (publish-update.sh reads
\* the channel's index once).
THEOREM SerialsOnlyGrow == Spec => SerialsGrowInTurn
<1>1. FInv /\ [Next]_vars
        => [\A c \in Channels : index'[c] # index[c] =>
              \/ index'[c].serial > index[c].serial
              \/ \E p \in Pubs : Overtaken(p, c)]_vars
  BY Replaces
<1> QED
  BY <1>1, FoundAlways, PTL DEF Spec, SerialsGrowInTurn

\* The device tree a run compared with is the one of the index it replaces, with the
\* same exception.
THEOREM TreesOnlyByReflash == Spec => TreeChangeIsReflash
<1>1. FInv /\ [Next]_vars
        => [\A c \in Channels :
              LET old == index[c]
                  new == index'[c]
              IN  (new # old /\ old # NoIndex /\ ~new.reflash) =>
                    \/ new.bundle.firmware = old.bundle.firmware
                    \/ "" \in {new.bundle.firmware, old.bundle.firmware}
                    \/ \E p \in Pubs : Overtaken(p, c)]_vars
  BY Replaces DEF MayFollow
<1> QED
  BY <1>1, FoundAlways, PTL DEF Spec, TreeChangeIsReflash

-----------------------------------------------------------------------------
(***************************************************************************)
(* The copies on a disk, which is one machine's.                           *)
(***************************************************************************)
\* No two machines have the channels on their own disk.
OneNear == \A m, n \in Near : m = n

\* Who copies has the channels on its own disk.
NearInv ==
  \A p \in Pubs :
    /\ run[p].pc # "off" /\ ~run[p].remote => run[p].machine \in Near
    /\ run[p].pc \in Copying => ~run[p].remote

LEMMA NearStep == TypeInv /\ NearInv /\ [Next]_vars => NearInv'
<1> SUFFICES ASSUME TypeInv, NearInv, [Next]_vars, NEW q \in Pubs
             PROVE  /\ run'[q].pc # "off" /\ ~run'[q].remote => run'[q].machine \in Near
                    /\ run'[q].pc \in Copying => ~run'[q].remote
  BY DEF NearInv
<1>1. ASSUME NEW p \in Pubs, NEW m \in Machines, NEW c \in Channels, NEW b \in Bundles,
             NEW reflash \in BOOLEAN, NEW remote \in BOOLEAN,
             Start(p, m, c, b, reflash, remote)
      PROVE  /\ run'[q].pc # "off" /\ ~run'[q].remote => run'[q].machine \in Near
             /\ run'[q].pc \in Copying => ~run'[q].remote
  <2>1. CASE q = p
    BY <1>1, <2>1 DEF Start, TypeInv, Copying
  <2>2. CASE q # p
    BY <1>1, <2>2, StartShape DEF Alone, NearInv
  <2> QED
    BY <2>1, <2>2
<1>2. ASSUME NEW p \in Pubs, RunNext(p)
      PROVE  /\ run'[q].pc # "off" /\ ~run'[q].remote => run'[q].machine \in Near
             /\ run'[q].pc \in Copying => ~run'[q].remote
  <2>1. /\ run[p] \in Runs /\ Alone(p)
        /\ Ended(p) \/ Locked(p) \/ MadeOut(p) \/ WentOn(p)
    BY <1>2, RunShape
  <2>2. run[p].pc # "off"
    BY <2>1 DEF Runs, Busy
  <2> QED
    BY <2>1, <2>2 DEF Alone, Ended, Locked, MadeOut, WentOn, SameRun, NearInv, Copying
<1>3. ASSUME NEW d \in Dirs, LoseCounter(d)
      PROVE  run' = run
  BY <1>3 DEF LoseCounter
<1>4. CASE UNCHANGED vars
  BY <1>4 DEF vars, NearInv
<1> QED
  BY <1>1, <1>2, <1>3, <1>4 DEF Next, NearInv

\* A copy under way is under its own name, checked it is whole, and moved into
\* place it stays so.
CopyInv ==
  /\ \A p \in Pubs :
       LET c == run[p].chan
           b == run[p].bundle
       IN  /\ run[p].pc \in {"copying", "check"} => tmp[c][b] # "none"
           /\ run[p].pc = "move" => tmp[c][b] = "whole"
           /\ run[p].pc = "index" => files[c][b] = "whole"
  /\ NamedIsWhole

\* The lock keeps the runs apart that copy to one channel.
LEMMA OneRun ==
  ASSUME OneNear, TypeInv, LockInv, NearInv, NEW p \in Pubs, NEW q \in Pubs,
         run[p].pc \in Copying, run[q].pc \in Copying, run[p].chan = run[q].chan
  PROVE  p = q
<1>1. run[p].machine = run[q].machine
  BY DEF NearInv, OneNear, Copying
<1>2. lock[Dir(p)] = p /\ lock[Dir(q)] = q
  BY DEF LockInv, Copying, Busy
<1> QED
  BY <1>1, <1>2 DEF Dir

\* What each step does to the files of its channel.
LEMMA FilesShape ==
  ASSUME TypeInv, CopyInv, NEW p \in Pubs, RunNext(p), NEW c, NEW b,
         c = run[p].chan, b = run[p].bundle
  PROVE  \/ files' = files /\ tmp' = tmp /\ run'[p].pc \notin {"copying", "check", "index"}
            /\ (run'[p].pc = "move" => tmp[c][b] = "whole")
         \/ files' = Put(files, c, b, "whole") /\ tmp' = tmp /\ run'[p].pc = "index"
         \/ files' = files /\ tmp' = Put(tmp, c, b, "short") /\ run'[p].pc = "copying"
         \/ files' = files /\ run'[p].pc = "check"
            /\ \E left \in {"short", "whole"} : tmp' = Put(tmp, c, b, left)
         \/ files' = Put(files, c, b, "whole") /\ tmp' = Put(tmp, c, b, "none")
            /\ run'[p].pc = "index"
<1> USE DEF Put, CopyInv, Doing, Busy
<1>0. run[p].pc # "off" => run[p] \in Runs
  BY DEF TypeInv
<1>g. ASSUME NEW l \in Busy, Goes(p, l), run[p].pc # "off"
      PROVE  run'[p].pc = l
  BY <1>0, <1>g, GoesOn
<1>e. ASSUME NEW why, Ends(p, why)
      PROVE  run'[p].pc = "off"
  BY <1>e, ItEnds
<1>1. CASE Upload(p)
  <2>1. run'[p].pc = "index"
    BY <1>1, <1>g DEF Upload
  <2> QED
    BY <1>1, <2>1 DEF Upload
<1>2. CASE CopyStarts(p)
  <2>1. run'[p].pc = "copying"
    BY <1>2, <1>g DEF CopyStarts
  <2> QED
    BY <1>2, <2>1 DEF CopyStarts
<1>3. CASE \E left \in {"short", "whole"} : CopyEnds(p, left)
  <2>1. run'[p].pc = "check"
    BY <1>3, <1>g DEF CopyEnds
  <2>2. tmp[c][b] # "none"
    BY <1>3 DEF CopyEnds
  <2> QED
    BY <1>3, <2>1, <2>2 DEF CopyEnds
<1>4. CASE CheckCopy(p)
  <2>1. files' = files /\ tmp' = tmp
    BY <1>4 DEF CheckCopy
  <2>2. run'[p].pc = "off" \/ (run'[p].pc = "move" /\ tmp[c][b] = "whole")
    BY <1>4, <1>g, <1>e DEF CheckCopy, CopyIsWhole
  <2> QED
    BY <2>1, <2>2
<1>5. CASE MoveBundle(p)
  <2>1. tmp[c][b] = "whole"
    BY <1>5 DEF MoveBundle
  <2>2. run'[p].pc = "index"
    BY <1>5, <1>g, <2>1 DEF MoveBundle
  <2> QED
    BY <1>5, <2>1, <2>2 DEF MoveBundle
<1>6. CASE LockTimeout(p) \/ Refuse(p) \/ Unreachable(p) \/ CopyFails(p) \/ MoveIndex(p) \/ Dies(p)
  <2>1. \E why : Ends(p, why)
    BY <1>6 DEF LockTimeout, Refuse, Unreachable, CopyFails, MoveIndex, Dies
  <2>2. run'[p].pc = "off"
    BY <2>1, ItEnds
  <2> QED
    BY <1>6, <2>2 DEF LockTimeout, Refuse, Unreachable, CopyFails, MoveIndex, Dies
<1>7. CASE Lock(p)
  <2>1. run'[p].pc \in Busy \ {"copying", "check", "index", "move"}
    BY <1>7, <1>g DEF Lock
  <2> QED
    BY <1>7, <2>1 DEF Lock
<1>8. CASE \E now \in Clocks : Prepare(p, now)
  BY <1>8, PrepareMakes DEF Prepare
<1>9. CASE Record(p)
  <2>1. run'[p].pc \in Busy \ {"copying", "check", "index", "move"}
    BY <1>9, <1>g DEF Record
  <2> QED
    BY <1>9, <2>1 DEF Record
<1> QED
  BY <1>1, <1>2, <1>3, <1>4, <1>5, <1>6, <1>7, <1>8, <1>9 DEF RunNext

\* Only who copies touches a copy, and nothing that is whole is ever less.
LEMMA CopiesShape ==
  ASSUME TypeInv, CopyInv, NEW p \in Pubs, RunNext(p)
  PROVE  /\ tmp' = tmp \/ run[p].pc \in Copying
         /\ \A x \in Channels \ {run[p].chan} : tmp'[x] = tmp[x]
         /\ \A x \in Channels, y \in Bundles : files[x][y] = "whole" => files'[x][y] = "whole"
<1> DEFINE c == run[p].chan
<1> DEFINE b == run[p].bundle
<1>1. c \in Channels /\ b \in Bundles
  BY RunShape DEF Runs
<1>2. \/ files' = files \/ files' = Put(files, c, b, "whole")
  BY FilesShape
<1>3. tmp' = tmp \/ \E v : tmp' = Put(tmp, c, b, v)
  BY FilesShape
<1>4. tmp' = tmp \/ run[p].pc \in Copying
  BY DEF RunNext, Lock, LockTimeout, Prepare, Refuse, Unreachable, Record, Upload, CopyStarts,
     CopyEnds, CopyFails, CheckCopy, MoveBundle, MoveIndex, Dies, Doing, Copying
<1>5. \A x \in Channels \ {c} : tmp'[x] = tmp[x]
  BY <1>1, <1>3 DEF TypeInv, Copies, Put
<1>6. \A x \in Channels, y \in Bundles : files[x][y] = "whole" => files'[x][y] = "whole"
  BY <1>1, <1>2, PutAt DEF TypeInv
<1> QED
  BY <1>4, <1>5, <1>6

LEMMA CopyStep ==
  OneNear /\ TypeInv /\ NewInv /\ LockInv /\ NearInv /\ CopyInv /\ [Next]_vars => CopyInv'
<1> SUFFICES ASSUME OneNear, TypeInv, NewInv, LockInv, NearInv, CopyInv, [Next]_vars
             PROVE  CopyInv'
  OBVIOUS
<1>1. ASSUME NEW p \in Pubs, NEW m \in Machines, NEW c \in Channels, NEW b \in Bundles,
             NEW reflash \in BOOLEAN, NEW remote \in BOOLEAN,
             Start(p, m, c, b, reflash, remote)
      PROVE  CopyInv'
  <2>1. index' = index /\ files' = files /\ tmp' = tmp
    BY <1>1 DEF Start
  <2>2. \A q \in Pubs : run'[q].pc \in Busy => run'[q] = run[q]
    BY <1>1, StartShape DEF Alone, Busy
  <2> QED
    BY <2>1, <2>2 DEF CopyInv, NamedIsWhole, Busy
<1>2. ASSUME NEW p \in Pubs, RunNext(p)
      PROVE  CopyInv'
  <2> DEFINE c == run[p].chan
  <2> DEFINE b == run[p].bundle
  <2>1. /\ run[p] \in Runs /\ Alone(p)
        /\ Ended(p) \/ Locked(p) \/ MadeOut(p) \/ WentOn(p)
    BY <1>2, RunShape
  <2>2. c \in Channels /\ b \in Bundles
    BY <2>1 DEF Runs
  <2>3. /\ tmp' = tmp \/ run[p].pc \in Copying
        /\ \A x \in Channels \ {c} : tmp'[x] = tmp[x]
        /\ \A x \in Channels, y \in Bundles : files[x][y] = "whole" => files'[x][y] = "whole"
    BY <1>2, CopiesShape
  <2>4. ASSUME NEW q \in Pubs
        PROVE  /\ run'[q].pc \in {"copying", "check"} => tmp'[run'[q].chan][run'[q].bundle] # "none"
               /\ run'[q].pc = "move" => tmp'[run'[q].chan][run'[q].bundle] = "whole"
               /\ run'[q].pc = "index" => files'[run'[q].chan][run'[q].bundle] = "whole"
    <3>1. CASE q # p /\ run'[q].pc \in {"copying", "check", "move", "index"}
      <4>1. run'[q] = run[q] /\ run[q].chan \in Channels /\ run[q].bundle \in Bundles
        BY <2>1, <3>1 DEF Alone, TypeInv, Runs
      <4>2. run[q].pc \in Copying => tmp'[run[q].chan] = tmp[run[q].chan]
        BY <2>3, <3>1, <4>1, OneRun
      <4> QED
        BY <2>3, <4>1, <4>2 DEF CopyInv, Copying
    <3>2. CASE q = p /\ run'[p].pc \in {"copying", "check", "move", "index"}
      <4>1. run'[p].chan = c /\ run'[p].bundle = b
        BY <2>1, <3>2 DEF Ended, Locked, MadeOut, WentOn, SameRun
      <4>2. \/ files' = files /\ tmp' = tmp /\ run'[p].pc \notin {"copying", "check", "index"}
               /\ (run'[p].pc = "move" => tmp[c][b] = "whole")
            \/ files' = Put(files, c, b, "whole") /\ tmp' = tmp /\ run'[p].pc = "index"
            \/ files' = files /\ tmp' = Put(tmp, c, b, "short") /\ run'[p].pc = "copying"
            \/ files' = files /\ run'[p].pc = "check"
               /\ \E left \in {"short", "whole"} : tmp' = Put(tmp, c, b, left)
            \/ files' = Put(files, c, b, "whole") /\ tmp' = Put(tmp, c, b, "none")
               /\ run'[p].pc = "index"
        BY <1>2, FilesShape
      <4> QED
        BY <2>2, <3>2, <4>1, <4>2 DEF TypeInv, Copies, Put
    <3> QED
      BY <3>1, <3>2
  <2>5. ASSUME NEW x \in Channels, index'[x] # NoIndex
        PROVE  files'[x][index'[x].bundle] = "whole"
    <3>1. CASE index' = index
      <4>1. index[x].bundle \in Bundles /\ files[x][index[x].bundle] = "whole"
        BY <2>5, <3>1 DEF TypeInv, Indexes, CopyInv, NamedIsWhole
      <4> QED
        BY <2>3, <3>1, <4>1
    <3>2. CASE index' # index
      <4>1. /\ run[p].pc = "index" /\ index' = [index EXCEPT ![c] = run[p].new]
            /\ files' = files
        BY <1>2, <3>2, IndexShape
      <4>2. run[p].new.bundle = b /\ files[c][b] = "whole"
        BY <4>1 DEF NewInv, Prepared, Busy, CopyInv
      <4> QED
        BY <2>2, <2>5, <4>1, <4>2 DEF TypeInv, CopyInv, NamedIsWhole
    <3> QED
      BY <3>1, <3>2
  <2> QED
    BY <2>4, <2>5 DEF CopyInv, NamedIsWhole
<1>3. ASSUME NEW d \in Dirs, LoseCounter(d)
      PROVE  CopyInv'
  BY <1>3 DEF LoseCounter, CopyInv, NamedIsWhole
<1>4. CASE UNCHANGED vars
  BY <1>4 DEF vars, CopyInv, NamedIsWhole
<1> QED
  BY <1>1, <1>2, <1>3, <1>4 DEF Next

LEMMA CopyInitially == Init => NearInv /\ CopyInv
BY DEF Init, NearInv, CopyInv, NamedIsWhole, Off, Copying

\* Where the channels are on one machine's disk, or on none, the index of a channel
\* names, at every moment, a bundle that is there and whole - wherever a run was
\* stopped, whatever copy came out short, and from however many machines.
THEOREM NamedStaysWhole == ASSUME OneNear PROVE Spec => []NamedIsWhole
<1>1. TypeInv /\ NearInv /\ [Next]_vars => NearInv'
  BY NearStep
<1>2. TypeInv /\ NewInv /\ LockInv /\ NearInv /\ CopyInv /\ [Next]_vars => CopyInv'
  BY CopyStep
<1>3. CopyInv => NamedIsWhole
  BY DEF CopyInv
<1> QED
  BY <1>1, <1>2, <1>3, Initially, CopyInitially, TypeStep, LockStep, PTL DEF Spec

=============================================================================
