------------------------------ MODULE Storage ------------------------------
(***************************************************************************)
(* boat-storage and the units that run it: SWAP and DATA on a disk that    *)
(* may be another layout's, the check, mount and layout of DATA, the homes *)
(* seeded onto it once, and the power going at any moment.  systemd is     *)
(* what its documentation says of Requires=, After= and conditions.        *)
(***************************************************************************)
EXTENDS Naturals

CONSTANTS
  Users,      \* HOME_USERS
  Disks,      \* the disks and boots to begin with: [swap, data, board]
  MaxCuts,    \* power cuts
  MaxFormats  \* times a person runs format-data, or starts data.mount again

ASSUME StorageAssumption == MaxCuts \in Nat /\ MaxFormats \in Nat

VARIABLES
  swap,    \* SWAP: [named, holds, on]
  data,    \* DATA: [named, holds]
  unit,    \* the units of this boot
  home,    \* user -> the home kept on DATA, as the running system sees it
  disk,    \* user -> the name it has on the disk
  board,   \* [slot |-> rauc.slot=, root |-> the slot / comes from, named |-> its GPT name is right]
  image,   \* the users whose home the booted image has
  grown,   \* the filesystems that fill their partition
  cuts, formats

vars == <<swap, data, unit, home, disk, board, image, grown, cuts, formats>>

(***************************************************************************)
(* named: the partition's GPT name is the layout's own.  What it holds:    *)
(* our filesystem is clean, to be repaired unattended ("dirty"), or by a   *)
(* person ("damaged").                                                     *)
(***************************************************************************)
SwapHolds == {"none", "swap", "swsuspend", "other"}
DataHolds == {"none", "other", "clean", "dirty", "damaged"}

ASSUME DisksAssumption ==
  Disks \subseteq [swap : [named : BOOLEAN, holds : SwapHolds, on : {FALSE}],
                   data : [named : BOOLEAN, holds : DataHolds],
                   board : [slot : {"none", "A", "B"}, root : {"none", "A", "B"},
                            named : BOOLEAN]]

\* A home on DATA: the name it has, how far its copy is, whether that is on
\* disk, and whether the user has put anything of theirs there.
NoHome == [name |-> "none", whole |-> FALSE, flushed |-> TRUE, mine |-> FALSE]
Homed == [name |-> "final", whole |-> TRUE, flushed |-> TRUE, mine |-> FALSE]

-----------------------------------------------------------------------------
(***************************************************************************)
(* The units and their order.                                              *)
(***************************************************************************)
Check == <<"boat-data-check">>
Mount == <<"data.mount">>
Prepare == <<"boat-data-prepare">>
Home(u) == <<"home", u>>
Homes == {Home(u) : u \in Users}
Journal == <<"journal.mount">>
Flush == <<"boat-journal-flush">>
Sessions == <<"systemd-user-sessions">>
Grow == <<"boat-storage-grow">>
Rauc == <<"rauc">>
Swap == <<"boat-swap">>

Units == {Check, Mount, Prepare, Journal, Flush, Sessions, Grow, Rauc, Swap} \cup Homes

\* Requires=, and RAUC's Requisite=.
Requires(x) ==
  CASE x = Mount -> {Check}
    [] x = Prepare -> {Mount}
    [] x \in Homes \cup {Journal} -> {Prepare}
    [] x = Flush -> {Journal}
    [] x = Rauc -> {Mount}
    [] OTHER -> {}

\* Logins that wait for no home, and a check that waits for the logins.
After_NoHomes(x) == Requires(x) \cup IF x = Grow THEN {Mount} ELSE {}
After_Cycle(x) ==
  Requires(x) \cup CASE x = Sessions -> Homes [] x = Check -> {Sessions} [] OTHER -> {}

\* After= here, or Before= there.
After(x) ==
  Requires(x) \cup CASE x = Sessions -> Homes [] x = Grow -> {Mount} [] OTHER -> {}

Settled(x) == unit[x] \in {"done", "failed", "skipped"}
Mounted == unit[Mount] = "done"
Becomes(x, s) == unit' = [unit EXCEPT ![x] = s]

AllIdle == [x \in Units |-> "idle"]

Init ==
  /\ \E d \in Disks : swap = d.swap /\ data = d.data /\ board = d.board
  /\ unit = AllIdle
  /\ home = [u \in Users |-> NoHome] /\ disk = [u \in Users |-> "none"]
  /\ image = Users /\ grown = {} /\ cuts = MaxCuts /\ formats = MaxFormats

\* A job whose turn has come.  A requirement that failed fails it too.
Due(x) == unit[x] = "idle" /\ \A y \in After(x) : Settled(y)
Held(x) == \E y \in Requires(x) : unit[y] # "done"

DependencyFails(x) ==
  /\ Due(x) /\ Held(x)
  /\ Becomes(x, "failed")
  /\ UNCHANGED <<swap, data, home, disk, board, image, grown, cuts, formats>>

\* Units that keep nothing the model has.
Starts(x) ==
  /\ Due(x) /\ ~Held(x)
  /\ Becomes(x, IF x \in {Check, Prepare} THEN "running" ELSE "done")
  /\ UNCHANGED <<swap, data, home, disk, board, image, grown, cuts, formats>>

-----------------------------------------------------------------------------
(***************************************************************************)
(* cmd_swap.                                                               *)
(***************************************************************************)
SwapOn ==
  /\ Due(Swap)
  /\ IF ~swap.named \/ (~swap.on /\ swap.holds = "swsuspend")
       THEN Becomes(Swap, "failed") /\ UNCHANGED swap
       ELSE /\ swap' = [swap EXCEPT !.holds = "swap", !.on = TRUE]
            /\ Becomes(Swap, "done")
  /\ UNCHANGED <<data, home, disk, board, image, grown, cuts, formats>>

(***************************************************************************)
(* cmd_check_data and data.mount.                                          *)
(***************************************************************************)
\* A check that mounts what a person should look at first.
Sound_Anything == data.named /\ data.holds \in {"clean", "dirty", "damaged"}

Sound == data.named /\ data.holds \in {"clean", "dirty"}

CheckData ==
  /\ unit[Check] = "running"
  /\ IF Sound THEN data' = [data EXCEPT !.holds = "clean"] /\ Becomes(Check, "done")
     ELSE UNCHANGED data /\ Becomes(Check, "failed")
  /\ UNCHANGED <<swap, home, disk, board, image, grown, cuts, formats>>

MountData ==
  /\ Due(Mount) /\ ~Held(Mount)
  /\ Becomes(Mount, IF data.holds \in {"clean", "dirty", "damaged"} THEN "done" ELSE "failed")
  /\ UNCHANGED <<swap, data, home, disk, board, image, grown, cuts, formats>>

-----------------------------------------------------------------------------
(***************************************************************************)
(* cmd_prepare_data: a home is copied under another name, made sure of on  *)
(* the disk, and renamed.  Any command may fail, which ends the run.       *)
(***************************************************************************)
\* A home that differs from the image's is copied afresh.
ToSeed_Differing(u) == u \in image /\ (home[u].name # "final" \/ home[u].mine)

ToSeed(u) == u \in image /\ home[u].name # "final"

Underway(u) == home[u].name \in {"copying", "seeding", "synced", "renamed"}

SeedStarts(u) ==
  /\ unit[Prepare] = "running" /\ ToSeed(u) /\ \A v \in Users : ~Underway(v)
  /\ home' = [home EXCEPT ![u] = [NoHome EXCEPT !.name = "copying", !.flushed = FALSE]]
  /\ UNCHANGED <<swap, data, unit, disk, board, image, grown, cuts, formats>>

SeedCopied(u) ==
  /\ unit[Prepare] = "running" /\ home[u].name = "copying"
  /\ home' = [home EXCEPT ![u].name = "seeding", ![u].whole = TRUE]
  /\ UNCHANGED <<swap, data, unit, disk, board, image, grown, cuts, formats>>

\* A rename without the sync before it.
Synced_Not(u) == FALSE

\* sync -f: from here the copy survives a power cut, whatever it is named.
Synced(u) == TRUE

SeedSynced(u) ==
  /\ unit[Prepare] = "running" /\ home[u].name = "seeding"
  /\ home' = [home EXCEPT ![u].name = "synced", ![u].flushed = Synced(u)]
  /\ disk' = [disk EXCEPT ![u] = "seeding"]
  /\ UNCHANGED <<swap, data, unit, board, image, grown, cuts, formats>>

SeedRenamed(u) ==
  /\ unit[Prepare] = "running" /\ home[u].name = "synced"
  /\ home' = [home EXCEPT ![u].name = "renamed"]
  /\ UNCHANGED <<swap, data, unit, disk, board, image, grown, cuts, formats>>

SeedDone(u) ==
  /\ unit[Prepare] = "running" /\ home[u].name = "renamed"
  /\ home' = [home EXCEPT ![u].name = "final"]
  /\ disk' = [disk EXCEPT ![u] = "final"]
  /\ UNCHANGED <<swap, data, unit, board, image, grown, cuts, formats>>

PrepareEnds ==
  /\ unit[Prepare] = "running" /\ \A u \in Users : ~Underway(u) /\ ~ToSeed(u)
  /\ Becomes(Prepare, "done")
  /\ UNCHANGED <<swap, data, home, disk, board, image, grown, cuts, formats>>

\* set -e: a full DATA, a mount point where the image's home should be.
PrepareFails ==
  /\ unit[Prepare] = "running"
  /\ Becomes(Prepare, "failed")
  /\ home' = [u \in Users |->
                CASE home[u].name = "renamed" -> [home[u] EXCEPT !.name = "final"]
                  [] home[u].name \in {"copying", "seeding", "synced"} ->
                       [home[u] EXCEPT !.name = "left"]
                  [] OTHER -> home[u]]
  /\ UNCHANGED <<swap, data, disk, board, image, grown, cuts, formats>>

\* ConditionPathIsDirectory: a home that was not seeded is not mounted.
HomeMounts(u) ==
  /\ Due(Home(u)) /\ ~Held(Home(u))
  /\ Becomes(Home(u), IF home[u].name = "final" THEN "done" ELSE "skipped")
  /\ UNCHANGED <<swap, data, home, disk, board, image, grown, cuts, formats>>

\* A user logs in and works, in the home that is there.
Works(u) ==
  /\ unit[Sessions] = "done" /\ unit[Home(u)] = "done"
  /\ home' = [home EXCEPT ![u].mine = TRUE]
  /\ UNCHANGED <<swap, data, unit, disk, board, image, grown, cuts, formats>>

-----------------------------------------------------------------------------
(***************************************************************************)
(* cmd_grow: what is mounted from where it should be, under its own name.  *)
(***************************************************************************)
ToGrow ==
  (IF Mounted /\ data.named THEN {"DATA"} ELSE {})
  \cup (IF board.slot # "none" /\ board.slot = board.root /\ board.named
          THEN {board.slot} ELSE {})

\* Each is tried; one whose resize2fs fails fails the unit.
GrowFs(failing) ==
  /\ Due(Grow)
  /\ grown' = grown \cup (ToGrow \ failing)
  /\ Becomes(Grow, IF ToGrow \cap failing = {} THEN "done" ELSE "failed")
  /\ UNCHANGED <<swap, data, home, disk, board, image, cuts, formats>>

(***************************************************************************)
(* What a person does: format-data, typed and confirmed, and a check of    *)
(* DATA by hand, each of which needs it unmounted and unused.              *)
(***************************************************************************)
Formattable == data.named /\ ~Mounted /\ unit[Check] # "running"

FormatData ==
  /\ formats > 0 /\ Formattable
  /\ formats' = formats - 1
  /\ data' = [data EXCEPT !.holds = "clean"]
  /\ home' = [u \in Users |-> NoHome] /\ disk' = [u \in Users |-> "none"]
  /\ grown' = grown \ {"DATA"}
  /\ UNCHANGED <<swap, unit, board, image, cuts>>

\* systemctl start data.mount: the check runs again, what hangs on it does not.
StartAgain ==
  /\ formats > 0 /\ unit[Check] = "failed" /\ Settled(Mount)
  /\ formats' = formats - 1
  /\ unit' = [unit EXCEPT ![Check] = "idle", ![Mount] = "idle"]
  /\ UNCHANGED <<swap, data, home, disk, board, image, grown, cuts>>

-----------------------------------------------------------------------------
\* What a power cut leaves of a home: the name it had on the disk or the one
\* it had got since, and of what was not flushed anything between nothing
\* and all.
NameOf(u) == CASE home[u].name \in {"copying", "seeding", "synced", "left"} -> "left"
               [] home[u].name = "renamed" -> "final"
               [] OTHER -> home[u].name
OnDisk(u) == IF disk[u] = "seeding" THEN "left" ELSE disk[u]
Leaves(u) ==
  {h \in [name : {NameOf(u), OnDisk(u)}, whole : BOOLEAN, flushed : {TRUE},
          mine : {home[u].mine}] :
     IF h.name = "none" THEN h = NoHome
     ELSE home[u].flushed => h.whole = home[u].whole}

PowerCut ==
  /\ cuts > 0
  /\ cuts' = cuts - 1
  /\ unit' = AllIdle
  /\ \E h \in [Users -> UNION {Leaves(u) : u \in Users}] :
       /\ \A u \in Users : h[u] \in Leaves(u)
       /\ home' = h
       /\ disk' = [u \in Users |-> IF h[u].name = "left" THEN "seeding" ELSE h[u].name]
  /\ \E d \in IF Mounted THEN {"clean", "dirty", "damaged"} ELSE {data.holds} :
       data' = [data EXCEPT !.holds = d]
  /\ swap' = [swap EXCEPT !.on = FALSE]
  /\ image' \in SUBSET Users
  /\ \E s \in {"A", "B"} : board' = [board EXCEPT !.slot = s, !.root = s]
  /\ UNCHANGED <<grown, formats>>

UnitNext ==
  \/ \E x \in Units : DependencyFails(x)
  \/ \E x \in {Check, Prepare, Journal, Flush, Rauc, Sessions} : Starts(x)
  \/ SwapOn \/ CheckData \/ MountData
  \/ (\E u \in Users : SeedStarts(u) \/ SeedCopied(u) \/ SeedSynced(u) \/ SeedRenamed(u)
                         \/ SeedDone(u) \/ HomeMounts(u))
  \/ PrepareEnds \/ PrepareFails
  \/ \E failing \in SUBSET ToGrow : GrowFs(failing)

Next == UnitNext \/ (\E u \in Users : Works(u)) \/ FormatData \/ StartAgain \/ PowerCut

Spec == Init /\ [][Next]_vars

\* systemd runs the jobs there are, and what they run ends.
FairSpec == Spec /\ WF_vars(UnitNext)

-----------------------------------------------------------------------------
\* A home under its final name is never seeded again, so it is whole: no power
\* cut leaves "a complete-looking home of empty files".
HomesWhole ==
  \A u \in Users : home[u].name = "final" => home[u].whole

\* What a user keeps at home goes only with a format a person confirmed: no
\* boot, of either slot, after any failure or power cut, seeds over it.
MineStays ==
  [][\A u \in Users : home[u].mine /\ ~home'[u].mine => formats' < formats]_vars

\* Nothing of another layout is written, nor a hibernation image, nor a DATA
\* that a person should see to first.
ForeignUntouched ==
  [][/\ swap'.holds # swap.holds => swap.named /\ swap.holds # "swsuspend"
     /\ data'.holds # data.holds =>
          data.named /\ (data.holds \in {"clean", "dirty"} \/ formats' < formats \/ cuts' < cuts)]_vars

\* "nobody logs into the slot's stale copy of the home": no home is mounted
\* over one that a login may already be using.
NotUnderALogin ==
  [][\A u \in Users : unit[Home(u)] # "done" /\ unit'[Home(u)] = "done"
                        => unit[Sessions] = "idle"]_vars

\* However DATA fares, people can log in: "the slot still boots, just without
\* /data".
LoginsCome == []<>(unit[Sessions] = "done")

=============================================================================
