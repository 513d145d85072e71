--------------------------- MODULE StorageProofs ---------------------------
(***************************************************************************)
(* What DATA and SWAP keep, for any users, disks, power cuts and formats.  *)
(* A copy is on the disk before it has its final name (CopyInv), what a    *)
(* user works in has that name on the disk too (WorkInv), and the order    *)
(* systemd gives the units holds back each until what it needs (OrderInv). *)
(***************************************************************************)
EXTENDS Storage, TLAPS

HomeNames == {"none", "copying", "seeding", "synced", "renamed", "final", "left"}
KeptHomes == [name : HomeNames, whole : BOOLEAN, flushed : BOOLEAN, mine : BOOLEAN]

TypeInv ==
  /\ swap \in [named : BOOLEAN, holds : SwapHolds, on : BOOLEAN]
  /\ data \in [named : BOOLEAN, holds : DataHolds]
  /\ unit \in [Units -> {"idle", "running", "done", "failed", "skipped"}]
  /\ home \in [Users -> KeptHomes]
  /\ disk \in [Users -> {"none", "seeding", "final"}]
  /\ cuts \in Nat /\ formats \in Nat

\* DATA is mounted only under its own name, homes only once it was prepared,
\* and a login begins only when every home's unit is through.
OrderInv ==
  /\ unit[Check] = "done" => data.named
  /\ Mounted => unit[Check] = "done"
  /\ unit[Prepare] \in {"running", "done"} => Mounted
  /\ \A u \in Users : unit[Home(u)] = "done" => unit[Prepare] = "done"
  /\ unit[Sessions] # "idle" => \A u \in Users : Settled(Home(u))

\* A copy is whole once it was made, and on the disk before it is renamed.
CopyInv ==
  /\ \A u \in Users : home[u].name \in {"seeding", "synced", "renamed", "final"} => home[u].whole
  /\ \A u \in Users : home[u].name \in {"synced", "renamed", "final"} => home[u].flushed
  /\ \A u \in Users : disk[u] = "final" => home[u].name = "final"

\* What a user has at home, or may come to have, is final on the disk as well.
WorkInv ==
  /\ unit[Prepare] # "failed" => \A u \in Users : home[u].name = "final" => disk[u] = "final"
  /\ \A u \in Users : unit[Home(u)] = "done" => disk[u] = "final"
  /\ \A u \in Users : home[u].mine => disk[u] = "final"

\* Swap is on only where there is swap space.
SwapInv == swap.on => swap.holds = "swap"

IInv == TypeInv /\ OrderInv /\ CopyInv /\ WorkInv /\ SwapInv

-----------------------------------------------------------------------------
(***************************************************************************)
(* Units.                                                                  *)
(***************************************************************************)
Others == {Journal, Flush, Sessions, Grow, Rauc, Swap}

\* No two units have one name.
LEMMA UnitNames ==
  /\ \A u \in Users : Home(u) \notin {Check, Mount, Prepare} \cup Others
  /\ \A u, v \in Users : Home(u) = Home(v) => u = v
  /\ Check # Mount /\ Check # Prepare /\ Mount # Prepare
  /\ Check \notin Others /\ Mount \notin Others /\ Prepare \notin Others
  /\ Sessions \notin {Journal, Flush, Grow, Rauc, Swap}
BY DEF Home, Check, Mount, Prepare, Others, Journal, Flush, Sessions, Grow, Rauc, Swap

LEMMA UnitIs ==
  /\ Check \in Units /\ Mount \in Units /\ Prepare \in Units /\ Others \subseteq Units
  /\ \A u \in Users : Home(u) \in Units
BY DEF Units, Homes, Others

\* What has to be done before a unit may start, and be settled before it is due.
LEMMA UnitNeeds ==
  /\ Requires(Mount) = {Check} /\ Requires(Prepare) = {Mount}
  /\ \A u \in Users : Requires(Home(u)) = {Prepare} /\ Home(u) \in After(Sessions)
<1>1. Requires(Mount) = {Check}
  BY UnitNames DEF Requires, Homes, Others
<1>2. Requires(Prepare) = {Mount}
  BY UnitNames DEF Requires, Homes, Others
<1>3. ASSUME NEW u \in Users
      PROVE  Requires(Home(u)) = {Prepare} /\ Home(u) \in After(Sessions)
  <2>1. Home(u) \in Homes /\ Home(u) \notin {Check, Mount, Prepare} \cup Others
    BY UnitNames DEF Homes
  <2>2. Homes \subseteq After(Sessions)
    BY UnitNames DEF After, Others
  <2> QED
    BY <2>1, <2>2 DEF Requires, Others
<1> QED
  BY <1>1, <1>2, <1>3

\* A unit's step is its own.
LEMMA OneUnit ==
  ASSUME TypeInv, NEW x \in Units, NEW s, Becomes(x, s)
  PROVE  unit'[x] = s /\ \A y \in Units \ {x} : unit'[y] = unit[y]
BY DEF TypeInv, Becomes

\* The step of a unit that was not through keeps the order, if what it came
\* after holds, and brings no home that is not on the disk to its user.
LEMMA UnitKeeps ==
  ASSUME TypeInv, OrderInv, WorkInv, NEW x \in Units, NEW s, Becomes(x, s),
         unit[x] \in {"idle", "running"}, data'.named = data.named, UNCHANGED <<home, disk>>,
         x = Check /\ s = "done" => data.named,
         x = Mount /\ s = "done" => unit[Check] = "done",
         x = Prepare /\ s \in {"running", "done"} => Mounted,
         x = Sessions => \A u \in Users : Settled(Home(u)),
         \A u \in Users : x = Home(u) /\ s = "done" =>
                            unit[Prepare] = "done" /\ home[u].name = "final"
  PROVE  OrderInv' /\ WorkInv'
<1>1. unit'[x] = s /\ \A y \in Units \ {x} : unit'[y] = unit[y]
  BY OneUnit
<1>2. unit'[Check] = "done" => data'.named
  BY <1>1, UnitIs DEF OrderInv
<1>3. Mounted' => unit'[Check] = "done"
  BY <1>1, UnitIs, UnitNames DEF OrderInv, Mounted
<1>4. unit'[Prepare] \in {"running", "done"} => Mounted'
  BY <1>1, UnitIs, UnitNames DEF OrderInv, Mounted
<1>5. ASSUME NEW u \in Users, unit'[Home(u)] = "done"
      PROVE  unit'[Prepare] = "done" /\ disk'[u] = "final"
  <2>1. unit[Prepare] = "done" /\ disk[u] = "final"
    BY <1>1, <1>5, UnitIs DEF OrderInv, WorkInv
  <2> QED
    BY <1>1, <2>1, UnitIs
<1>6. ASSUME unit'[Sessions] # "idle", NEW u \in Users
      PROVE  Settled(Home(u))'
  <2>1. Settled(Home(u))
    BY <1>1, <1>6, UnitIs DEF OrderInv, Others
  <2> QED
    BY <1>1, <2>1, UnitIs DEF Settled
<1>7. OrderInv'
  BY <1>2, <1>3, <1>4, <1>5, <1>6 DEF OrderInv
<1>8. unit'[Prepare] # "failed" => unit[Prepare] # "failed"
  BY <1>1, UnitIs
<1>9. WorkInv'
  BY <1>5, <1>8 DEF WorkInv
<1> QED
  BY <1>7, <1>9

LEMMA UnitType ==
  ASSUME TypeInv, NEW x \in Units, NEW s \in {"idle", "running", "done", "failed", "skipped"},
         Becomes(x, s)
  PROVE  unit' \in [Units -> {"idle", "running", "done", "failed", "skipped"}]
BY DEF TypeInv, Becomes

-----------------------------------------------------------------------------
(***************************************************************************)
(* Steps of the units.                                                     *)
(***************************************************************************)
LEMMA DependencyKeeps ==
  ASSUME IInv, NEW x \in Units, DependencyFails(x)
  PROVE  IInv'
<1>1. Becomes(x, "failed") /\ unit[x] = "idle" /\ UNCHANGED <<swap, data, home, disk, cuts, formats>>
  BY DEF DependencyFails, Due
<1>2. x = Sessions => \A u \in Users : Settled(Home(u))
  BY UnitNeeds DEF DependencyFails, Due
<1>3. OrderInv' /\ WorkInv'
  BY <1>1, <1>2, UnitKeeps DEF IInv
<1>4. TypeInv'
  BY <1>1, UnitType DEF IInv, TypeInv
<1>5. CopyInv' /\ SwapInv'
  BY <1>1 DEF IInv, CopyInv, SwapInv
<1> QED
  BY <1>3, <1>4, <1>5 DEF IInv

LEMMA StartKeeps ==
  ASSUME IInv, NEW x \in {Check, Prepare, Journal, Flush, Rauc, Sessions}, Starts(x)
  PROVE  IInv'
<1> DEFINE s == IF x \in {Check, Prepare} THEN "running" ELSE "done"
<1>1. Becomes(x, s) /\ unit[x] = "idle" /\ UNCHANGED <<swap, data, home, disk, cuts, formats>>
  BY DEF Starts, Due
<1>2. x \in Units /\ x # Mount /\ (x = Check => s # "done") /\ \A u \in Users : x # Home(u)
  BY UnitIs, UnitNames DEF Others
<1>3. x = Prepare => Mounted
  BY UnitNeeds DEF Starts, Held, Mounted
<1>4. x = Sessions => \A u \in Users : Settled(Home(u))
  BY UnitNeeds DEF Starts, Due
<1>5. OrderInv' /\ WorkInv'
  BY <1>1, <1>2, <1>3, <1>4, UnitKeeps DEF IInv
<1>6. TypeInv'
  BY <1>1, <1>2, UnitType DEF IInv, TypeInv
<1>7. CopyInv' /\ SwapInv'
  BY <1>1 DEF IInv, CopyInv, SwapInv
<1> QED
  BY <1>5, <1>6, <1>7 DEF IInv

LEMMA SwapKeeps ==
  ASSUME IInv, SwapOn
  PROVE  IInv'
<1>1. PICK s \in {"failed", "done"} : Becomes(Swap, s)
  BY DEF SwapOn
<1>2. unit[Swap] = "idle" /\ UNCHANGED <<data, home, disk, cuts, formats>>
  BY DEF SwapOn, Due
<1>3. Swap \in Units /\ Swap \notin {Check, Mount, Prepare, Sessions} /\ \A u \in Users : Swap # Home(u)
  BY UnitIs, UnitNames DEF Others
<1>4. OrderInv' /\ WorkInv'
  BY <1>1, <1>2, <1>3, UnitKeeps DEF IInv
<1>5. swap' \in [named : BOOLEAN, holds : SwapHolds, on : BOOLEAN] /\ SwapInv'
  BY DEF SwapOn, IInv, TypeInv, SwapInv, SwapHolds
<1>6. TypeInv'
  BY <1>1, <1>2, <1>3, <1>5, UnitType DEF IInv, TypeInv
<1>7. CopyInv'
  BY <1>2 DEF IInv, CopyInv
<1> QED
  BY <1>4, <1>5, <1>6, <1>7 DEF IInv

LEMMA CheckKeeps ==
  ASSUME IInv, CheckData
  PROVE  IInv'
<1>1. PICK s \in {"failed", "done"} : Becomes(Check, s) /\ (s = "done" => data.named)
  BY DEF CheckData, Sound
<1>2. unit[Check] = "running" /\ UNCHANGED <<swap, home, disk, cuts, formats>>
  BY DEF CheckData
<1>3. data' \in [named : BOOLEAN, holds : DataHolds] /\ data'.named = data.named
  BY DEF CheckData, IInv, TypeInv, DataHolds
<1>4. Check \in Units /\ Check \notin {Mount, Prepare, Sessions} /\ \A u \in Users : Check # Home(u)
  BY UnitIs, UnitNames DEF Others
<1>5. OrderInv' /\ WorkInv'
  BY <1>1, <1>2, <1>3, <1>4, UnitKeeps DEF IInv
<1>6. TypeInv'
  BY <1>1, <1>2, <1>3, <1>4, UnitType DEF IInv, TypeInv
<1>7. CopyInv' /\ SwapInv'
  BY <1>2 DEF IInv, CopyInv, SwapInv
<1> QED
  BY <1>5, <1>6, <1>7 DEF IInv

LEMMA MountKeeps ==
  ASSUME IInv, MountData
  PROVE  IInv'
<1>1. PICK s \in {"failed", "done"} : Becomes(Mount, s)
  BY DEF MountData
<1>2. unit[Mount] = "idle" /\ UNCHANGED <<swap, data, home, disk, cuts, formats>>
  BY DEF MountData, Due
<1>3. unit[Check] = "done"
  BY UnitNeeds DEF MountData, Held
<1>4. Mount \in Units /\ Mount \notin {Check, Prepare, Sessions} /\ \A u \in Users : Mount # Home(u)
  BY UnitIs, UnitNames DEF Others
<1>5. OrderInv' /\ WorkInv'
  BY <1>1, <1>2, <1>3, <1>4, UnitKeeps DEF IInv
<1>6. TypeInv'
  BY <1>1, <1>2, <1>4, UnitType DEF IInv, TypeInv
<1>7. CopyInv' /\ SwapInv'
  BY <1>2 DEF IInv, CopyInv, SwapInv
<1> QED
  BY <1>5, <1>6, <1>7 DEF IInv

LEMMA HomeKeeps ==
  ASSUME IInv, NEW u \in Users, HomeMounts(u)
  PROVE  IInv'
<1>1. PICK s \in {"done", "skipped"} : Becomes(Home(u), s) /\ (s = "done" => home[u].name = "final")
  BY DEF HomeMounts
<1>2. unit[Home(u)] = "idle" /\ UNCHANGED <<swap, data, home, disk, cuts, formats>>
  BY DEF HomeMounts, Due
<1>3. unit[Prepare] = "done"
  BY UnitNeeds DEF HomeMounts, Held
<1>4. /\ Home(u) \in Units /\ Home(u) \notin {Check, Mount, Prepare, Sessions}
      /\ \A v \in Users : Home(u) = Home(v) => u = v
  BY UnitIs, UnitNames DEF Others
<1>5. OrderInv' /\ WorkInv'
  BY <1>1, <1>2, <1>3, <1>4, UnitKeeps DEF IInv
<1>6. TypeInv'
  BY <1>1, <1>2, <1>4, UnitType DEF IInv, TypeInv
<1>7. CopyInv' /\ SwapInv'
  BY <1>2 DEF IInv, CopyInv, SwapInv
<1> QED
  BY <1>5, <1>6, <1>7 DEF IInv

LEMMA GrowKeeps ==
  ASSUME IInv, NEW failing, GrowFs(failing)
  PROVE  IInv'
<1>1. PICK s \in {"failed", "done"} : Becomes(Grow, s)
  BY DEF GrowFs
<1>2. unit[Grow] = "idle" /\ UNCHANGED <<swap, data, home, disk, cuts, formats>>
  BY DEF GrowFs, Due
<1>3. Grow \in Units /\ Grow \notin {Check, Mount, Prepare, Sessions} /\ \A u \in Users : Grow # Home(u)
  BY UnitIs, UnitNames DEF Others
<1>4. OrderInv' /\ WorkInv'
  BY <1>1, <1>2, <1>3, UnitKeeps DEF IInv
<1>5. TypeInv'
  BY <1>1, <1>2, <1>3, UnitType DEF IInv, TypeInv
<1>6. CopyInv' /\ SwapInv'
  BY <1>2 DEF IInv, CopyInv, SwapInv
<1> QED
  BY <1>4, <1>5, <1>6 DEF IInv

-----------------------------------------------------------------------------
(***************************************************************************)
(* Steps of a seeding.                                                     *)
(***************************************************************************)
\* While DATA is prepared no user has a home to work in yet: a copy may come
\* as far as it likes if it is whole, flushed and final in that order.
LEMMA SeedKeeps ==
  ASSUME IInv, unit[Prepare] = "running", NEW u \in Users, home[u].name # "final",
         NEW h \in KeptHomes, NEW d \in {"none", "seeding", "final"},
         home' = [home EXCEPT ![u] = h], disk' = [disk EXCEPT ![u] = d],
         h.mine => home[u].mine, (h.name = "final") <=> (d = "final"),
         h.name \in {"seeding", "synced", "renamed", "final"} => h.whole,
         h.name \in {"synced", "renamed", "final"} => h.flushed,
         UNCHANGED <<swap, data, unit, cuts, formats>>
  PROVE  IInv' /\ ~home[u].mine
<1>1. /\ home'[u] = h /\ disk'[u] = d
      /\ \A v \in Users \ {u} : home'[v] = home[v] /\ disk'[v] = disk[v]
  BY DEF IInv, TypeInv
<1>2. disk[u] # "final" /\ ~home[u].mine /\ unit[Home(u)] # "done"
  BY DEF IInv, CopyInv, WorkInv, OrderInv
<1>3. TypeInv'
  BY DEF IInv, TypeInv
<1>4. OrderInv' /\ SwapInv'
  BY DEF IInv, OrderInv, SwapInv, Mounted, Settled
<1>5. CopyInv'
  BY <1>1 DEF IInv, CopyInv
<1>6. WorkInv'
  <2>1. \A v \in Users : home'[v].name = "final" => disk'[v] = "final"
    BY <1>1 DEF IInv, WorkInv
  <2>2. \A v \in Users : unit'[Home(v)] = "done" => disk'[v] = "final"
    BY <1>1, <1>2 DEF IInv, WorkInv
  <2>3. \A v \in Users : home'[v].mine => disk'[v] = "final"
    BY <1>1, <1>2 DEF IInv, WorkInv
  <2> QED
    BY <2>1, <2>2, <2>3 DEF WorkInv
<1> QED
  BY <1>2, <1>3, <1>4, <1>5, <1>6 DEF IInv

\* Every step of a seeding is such a step.
LEMMA SeedingKeeps ==
  ASSUME IInv, NEW u \in Users,
         SeedStarts(u) \/ SeedCopied(u) \/ SeedSynced(u) \/ SeedRenamed(u) \/ SeedDone(u)
  PROVE  /\ IInv' /\ formats' = formats
         /\ \A v \in Users : home'[v].mine = home[v].mine
<1>1. /\ home \in [Users -> KeptHomes] /\ disk \in [Users -> {"none", "seeding", "final"}]
      /\ home[u].name \in {"seeding", "synced", "renamed", "final"} => home[u].whole
      /\ home[u].name \in {"synced", "renamed", "final"} => home[u].flushed
      /\ disk[u] = "final" => home[u].name = "final"
  BY DEF IInv, TypeInv, CopyInv
<1>2. PICK h \in KeptHomes, d \in {"none", "seeding", "final"} :
        /\ home' = [home EXCEPT ![u] = h] /\ disk' = [disk EXCEPT ![u] = d]
        /\ h.mine => home[u].mine
        /\ (h.name = "final") <=> (d = "final")
        /\ h.name \in {"seeding", "synced", "renamed", "final"} => h.whole
        /\ h.name \in {"synced", "renamed", "final"} => h.flushed
        /\ home[u].name # "final"
  <2>1. CASE SeedStarts(u)
    <3> DEFINE h == [NoHome EXCEPT !.name = "copying", !.flushed = FALSE]
    <3>1. h \in KeptHomes /\ h.name = "copying" /\ ~h.mine
      BY DEF NoHome, KeptHomes, HomeNames
    <3> HIDE DEF h
    <3>2. home' = [home EXCEPT ![u] = h] /\ disk' = [disk EXCEPT ![u] = disk[u]]
      BY <1>1, <2>1 DEF SeedStarts, h
    <3>3. disk[u] # "final" /\ home[u].name # "final"
      BY <1>1, <2>1 DEF SeedStarts, ToSeed
    <3> QED
      BY <1>1, <3>1, <3>2, <3>3
  <2>2. CASE SeedCopied(u)
    <3> DEFINE h == [home[u] EXCEPT !.name = "seeding", !.whole = TRUE]
    <3>1. home' = [home EXCEPT ![u] = h] /\ disk' = [disk EXCEPT ![u] = disk[u]]
      BY <1>1, <2>2 DEF SeedCopied, KeptHomes
    <3>2. h \in KeptHomes /\ disk[u] # "final" /\ home[u].name # "final"
      BY <1>1, <2>2 DEF SeedCopied, KeptHomes, HomeNames
    <3> QED
      BY <1>1, <3>1, <3>2 DEF KeptHomes
  <2>3. CASE SeedSynced(u)
    <3> DEFINE h == [home[u] EXCEPT !.name = "synced", !.flushed = TRUE]
    <3>1. home' = [home EXCEPT ![u] = h] /\ disk' = [disk EXCEPT ![u] = "seeding"]
      BY <1>1, <2>3 DEF SeedSynced, Synced, KeptHomes
    <3>2. h \in KeptHomes /\ home[u].name = "seeding" /\ h.whole
      BY <1>1, <2>3 DEF SeedSynced, KeptHomes, HomeNames
    <3> QED
      BY <1>1, <3>1, <3>2 DEF KeptHomes
  <2>4. CASE SeedRenamed(u)
    <3> DEFINE h == [home[u] EXCEPT !.name = "renamed"]
    <3>1. home' = [home EXCEPT ![u] = h] /\ disk' = [disk EXCEPT ![u] = disk[u]]
      BY <1>1, <2>4 DEF SeedRenamed, KeptHomes
    <3>2. h \in KeptHomes /\ disk[u] # "final" /\ home[u].name = "synced" /\ h.whole /\ h.flushed
      BY <1>1, <2>4 DEF SeedRenamed, KeptHomes, HomeNames
    <3> QED
      BY <1>1, <3>1, <3>2 DEF KeptHomes
  <2>5. CASE SeedDone(u)
    <3> DEFINE h == [home[u] EXCEPT !.name = "final"]
    <3>1. home' = [home EXCEPT ![u] = h] /\ disk' = [disk EXCEPT ![u] = "final"]
      BY <1>1, <2>5 DEF SeedDone, KeptHomes
    <3>2. h \in KeptHomes /\ home[u].name = "renamed" /\ h.whole /\ h.flushed
      BY <1>1, <2>5 DEF SeedDone, KeptHomes, HomeNames
    <3> QED
      BY <1>1, <3>1, <3>2 DEF KeptHomes
  <2> QED
    BY <2>1, <2>2, <2>3, <2>4, <2>5
<1>3. unit[Prepare] = "running" /\ UNCHANGED <<swap, data, unit, cuts, formats>>
  BY DEF SeedStarts, SeedCopied, SeedSynced, SeedRenamed, SeedDone
<1>4. IInv' /\ ~home[u].mine
  BY <1>2, <1>3, SeedKeeps
<1>5. \A v \in Users : home'[v].mine = home[v].mine
  BY <1>1, <1>2, <1>4 DEF KeptHomes
<1> QED
  BY <1>3, <1>4, <1>5

LEMMA PrepareEndsKeeps ==
  ASSUME IInv, PrepareEnds
  PROVE  IInv'
<1>1. Becomes(Prepare, "done") /\ unit[Prepare] = "running" /\ UNCHANGED <<swap, data, home, disk, cuts, formats>>
  BY DEF PrepareEnds
<1>2. Prepare \in Units /\ Prepare \notin {Check, Mount, Sessions} /\ \A u \in Users : Prepare # Home(u)
  BY UnitIs, UnitNames DEF Others
<1>3. Mounted
  BY <1>1 DEF IInv, OrderInv
<1>4. OrderInv' /\ WorkInv'
  BY <1>1, <1>2, <1>3, UnitKeeps DEF IInv
<1>5. TypeInv'
  BY <1>1, <1>2, UnitType DEF IInv, TypeInv
<1>6. CopyInv' /\ SwapInv'
  BY <1>1 DEF IInv, CopyInv, SwapInv
<1> QED
  BY <1>4, <1>5, <1>6 DEF IInv

\* Cut off at any command, a run leaves a copy under its seeding's name, or
\* the finished one under its own.
LEMMA PrepareFailsKeeps ==
  ASSUME IInv, PrepareFails
  PROVE  /\ IInv' /\ formats' = formats
         /\ \A v \in Users : home'[v].mine = home[v].mine
<1> DEFINE Left(u) == CASE home[u].name = "renamed" -> [home[u] EXCEPT !.name = "final"]
                        [] home[u].name \in {"copying", "seeding", "synced"} ->
                             [home[u] EXCEPT !.name = "left"]
                        [] OTHER -> home[u]
<1>1. /\ Becomes(Prepare, "failed") /\ unit[Prepare] = "running"
      /\ home' = [u \in Users |-> Left(u)] /\ UNCHANGED <<swap, data, disk, cuts, formats>>
  BY DEF PrepareFails
<1>2. ASSUME NEW u \in Users
      PROVE  /\ home'[u] \in KeptHomes
             /\ home'[u].mine = home[u].mine
             /\ home'[u].whole = home[u].whole /\ home'[u].flushed = home[u].flushed
             /\ home[u].name = "final" => home'[u].name = "final"
             /\ home'[u].name = "final" => home[u].name \in {"renamed", "final"}
             /\ home'[u].name \notin {"seeding", "synced", "renamed"}
  <2>1. home[u] \in KeptHomes /\ home'[u] = Left(u)
    BY <1>1 DEF IInv, TypeInv
  <2>2. CASE home[u].name = "renamed"
    BY <2>1, <2>2 DEF KeptHomes, HomeNames
  <2>3. CASE home[u].name \in {"copying", "seeding", "synced"}
    BY <2>1, <2>3 DEF KeptHomes, HomeNames
  <2>4. CASE home[u].name \notin {"renamed", "copying", "seeding", "synced"}
    <3>1. home'[u] = home[u]
      BY <2>1, <2>4
    <3> QED
      BY <2>1, <2>4, <3>1
  <2> QED
    BY <2>2, <2>3, <2>4
<1>3. /\ unit'[Prepare] = "failed" /\ \A y \in Units \ {Prepare} : unit'[y] = unit[y]
  BY <1>1, OneUnit, UnitIs DEF IInv
<1>4. /\ unit'[Check] = unit[Check] /\ unit'[Mount] = unit[Mount] /\ unit'[Sessions] = unit[Sessions]
      /\ \A u \in Users : unit'[Home(u)] = unit[Home(u)]
  BY <1>3, UnitIs, UnitNames DEF Others
<1>5. TypeInv'
  <2>1. home' \in [Users -> KeptHomes]
    BY <1>1, <1>2
  <2> QED
    BY <1>1, <2>1, UnitType, UnitIs DEF IInv, TypeInv
<1>6. OrderInv'
  BY <1>1, <1>3, <1>4 DEF IInv, OrderInv, Mounted, Settled
<1>7. CopyInv'
  BY <1>1, <1>2 DEF IInv, CopyInv
<1>8. WorkInv' /\ SwapInv'
  BY <1>1, <1>2, <1>3, <1>4 DEF IInv, WorkInv, SwapInv
<1> QED
  BY <1>1, <1>2, <1>5, <1>6, <1>7, <1>8 DEF IInv

-----------------------------------------------------------------------------
(***************************************************************************)
(* Steps of people, and the power.                                         *)
(***************************************************************************)
LEMMA WorkKeeps ==
  ASSUME IInv, NEW u \in Users, Works(u)
  PROVE  IInv' /\ \A v \in Users : home[v].mine => home'[v].mine
<1>1. home' = [home EXCEPT ![u].mine = TRUE] /\ UNCHANGED <<swap, data, unit, disk, cuts, formats>>
  BY DEF Works
<1>2. unit[Home(u)] = "done" /\ disk[u] = "final"
  BY DEF Works, IInv, WorkInv
<1>3. home \in [Users -> KeptHomes]
  BY DEF IInv, TypeInv
<1>4. ASSUME NEW v \in Users
      PROVE  /\ home'[v] \in KeptHomes
             /\ home'[v].name = home[v].name /\ home'[v].whole = home[v].whole
             /\ home'[v].flushed = home[v].flushed
             /\ home'[v].mine = (v = u \/ home[v].mine)
  <2>1. CASE v = u
    <3>1. home'[v] = [home[v] EXCEPT !.mine = TRUE]
      BY <1>1, <1>3, <2>1
    <3> QED
      BY <1>3, <2>1, <3>1 DEF KeptHomes
  <2>2. CASE v # u
    BY <1>1, <1>3, <2>2 DEF KeptHomes
  <2> QED
    BY <2>1, <2>2
<1>5. TypeInv'
  BY <1>1, <1>3, <1>4 DEF IInv, TypeInv
<1>6. OrderInv' /\ SwapInv'
  BY <1>1 DEF IInv, OrderInv, SwapInv, Mounted, Settled
<1>7. CopyInv'
  BY <1>1, <1>4 DEF IInv, CopyInv
<1>8. WorkInv'
  BY <1>1, <1>2, <1>4 DEF IInv, WorkInv
<1> QED
  BY <1>4, <1>5, <1>6, <1>7, <1>8 DEF IInv

\* DATA is formatted only unmounted, so under nobody's home.
LEMMA FormatKeeps ==
  ASSUME IInv, FormatData
  PROVE  IInv' /\ formats' < formats
<1>1. /\ data' = [data EXCEPT !.holds = "clean"] /\ formats > 0 /\ formats' = formats - 1
      /\ home' = [u \in Users |-> NoHome] /\ disk' = [u \in Users |-> "none"]
      /\ UNCHANGED <<swap, unit, cuts>> /\ ~Mounted
  BY DEF FormatData, Formattable
<1>2. NoHome \in KeptHomes /\ NoHome.name = "none" /\ ~NoHome.mine
  BY DEF NoHome, KeptHomes, HomeNames
<1>3. \A u \in Users : unit[Home(u)] # "done"
  BY <1>1 DEF IInv, OrderInv
<1>4. TypeInv' /\ formats' < formats
  BY <1>1, <1>2 DEF IInv, TypeInv, DataHolds
<1>5. OrderInv' /\ SwapInv'
  BY <1>1 DEF IInv, TypeInv, OrderInv, SwapInv, Mounted, Settled
<1>6. CopyInv' /\ WorkInv'
  BY <1>1, <1>2, <1>3 DEF CopyInv, WorkInv
<1> QED
  BY <1>4, <1>5, <1>6 DEF IInv

LEMMA AgainKeeps ==
  ASSUME IInv, StartAgain
  PROVE  IInv'
<1>1. /\ unit' = [unit EXCEPT ![Check] = "idle", ![Mount] = "idle"] /\ unit[Check] = "failed"
      /\ formats > 0 /\ formats' = formats - 1 /\ UNCHANGED <<swap, data, home, disk, cuts>>
  BY DEF StartAgain
<1>2. /\ unit'[Check] = "idle" /\ unit'[Mount] = "idle"
      /\ unit'[Prepare] = unit[Prepare] /\ unit'[Sessions] = unit[Sessions]
      /\ \A u \in Users : unit'[Home(u)] = unit[Home(u)]
  BY <1>1, UnitIs, UnitNames DEF IInv, TypeInv, Others
<1>3. unit[Prepare] \notin {"running", "done"} /\ \A u \in Users : unit[Home(u)] # "done"
  BY <1>1 DEF IInv, OrderInv
<1>4. TypeInv'
  <2>1. unit' \in [Units -> {"idle", "running", "done", "failed", "skipped"}]
    BY <1>1 DEF IInv, TypeInv
  <2>2. formats' \in Nat
    BY <1>1 DEF IInv, TypeInv
  <2> QED
    BY <1>1, <2>1, <2>2 DEF IInv, TypeInv
<1>5. OrderInv'
  BY <1>2, <1>3 DEF IInv, OrderInv, Mounted, Settled
<1>6. CopyInv' /\ SwapInv' /\ WorkInv'
  BY <1>1, <1>2 DEF IInv, CopyInv, SwapInv, WorkInv
<1> QED
  BY <1>4, <1>5, <1>6 DEF IInv

\* What the power leaves of a home: one whose final name the disk has, or
\* that was about to get it, is whole, and a user's own stays where it is.
LEMMA LeftByTheCut ==
  ASSUME IInv, NEW u \in Users, NEW k \in Leaves(u)
  PROVE  /\ k \in KeptHomes /\ k.flushed
         /\ k.name \in {"none", "left", "final"}
         /\ k.name = "final" => k.whole
         /\ home[u].mine => k.name = "final" /\ k.mine
         /\ k.mine => home[u].mine
<1>1. home[u] \in KeptHomes /\ disk[u] \in {"none", "seeding", "final"}
  BY DEF IInv, TypeInv
<1>2. /\ k \in [name : {NameOf(u), OnDisk(u)}, whole : BOOLEAN, flushed : {TRUE},
                mine : {home[u].mine}]
      /\ k.name # "none" /\ home[u].flushed => k.whole = home[u].whole
  BY DEF Leaves
<1>3. k.name \in {NameOf(u), OnDisk(u)} /\ k.flushed /\ k.mine = home[u].mine
  BY <1>2
<1>4. /\ NameOf(u) \in {"none", "left", "final"}
      /\ NameOf(u) = "final" => home[u].name \in {"renamed", "final"}
      /\ home[u].name = "final" => NameOf(u) = "final"
  BY <1>1 DEF NameOf, KeptHomes, HomeNames
<1>5. OnDisk(u) \in {"none", "left", "final"} /\ (OnDisk(u) = "final" <=> disk[u] = "final")
  BY <1>1 DEF OnDisk
<1>6. k \in KeptHomes
  BY <1>1, <1>2, <1>4, <1>5 DEF KeptHomes, HomeNames
<1>7. k.name = "final" => k.whole
  <2>1. SUFFICES ASSUME k.name = "final" PROVE k.whole
    OBVIOUS
  <2>2. home[u].name \in {"renamed", "final"}
    BY <1>3, <1>4, <1>5, <2>1 DEF IInv, CopyInv
  <2>3. home[u].flushed /\ home[u].whole
    BY <2>2 DEF IInv, CopyInv
  <2> QED
    BY <1>2, <2>1, <2>3
<1>8. home[u].mine => k.name = "final"
  BY <1>3, <1>4, <1>5 DEF IInv, CopyInv, WorkInv
<1> QED
  BY <1>3, <1>4, <1>5, <1>6, <1>7, <1>8

LEMMA CutKeeps ==
  ASSUME IInv, PowerCut
  PROVE  /\ IInv' /\ cuts' < cuts
         /\ \A v \in Users : home[v].mine => home'[v].mine
<1>1. /\ cuts > 0 /\ cuts' = cuts - 1 /\ unit' = AllIdle
      /\ swap' = [swap EXCEPT !.on = FALSE] /\ formats' = formats
      /\ \E d \in DataHolds : data' = [data EXCEPT !.holds = d]
  BY DEF PowerCut, IInv, TypeInv, DataHolds
<1>2. PICK h \in [Users -> UNION {Leaves(u) : u \in Users}] :
        /\ \A u \in Users : h[u] \in Leaves(u)
        /\ home' = h
        /\ disk' = [u \in Users |-> IF h[u].name = "left" THEN "seeding" ELSE h[u].name]
  BY DEF PowerCut
<1>3. ASSUME NEW u \in Users
      PROVE  /\ h[u] \in KeptHomes /\ h[u].name \in {"none", "left", "final"}
             /\ h[u].name = "final" => h[u].whole
             /\ home[u].mine => h[u].mine
             /\ h[u].mine => h[u].name = "final"
  BY <1>2, LeftByTheCut
<1>4. \A u \in Users : /\ disk'[u] \in {"none", "seeding", "final"}
                       /\ disk'[u] = "final" <=> h[u].name = "final"
  BY <1>2, <1>3
<1>5. \A x \in Units : unit'[x] = "idle"
  BY <1>1 DEF AllIdle
<1>6. TypeInv'
  <2>1. home' \in [Users -> KeptHomes] /\ disk' \in [Users -> {"none", "seeding", "final"}]
    BY <1>2, <1>3, <1>4
  <2>2. unit' \in [Units -> {"idle", "running", "done", "failed", "skipped"}]
    BY <1>1 DEF AllIdle
  <2>3. data' \in [named : BOOLEAN, holds : DataHolds]
    BY <1>1 DEF IInv, TypeInv
  <2>4. swap' \in [named : BOOLEAN, holds : SwapHolds, on : BOOLEAN]
    BY <1>1 DEF IInv, TypeInv
  <2>5. cuts' \in Nat /\ formats' \in Nat
    BY <1>1 DEF IInv, TypeInv
  <2> QED
    BY <2>1, <2>2, <2>3, <2>4, <2>5 DEF TypeInv
<1>7. OrderInv'
  BY <1>5, UnitIs DEF OrderInv, Mounted, Others
<1>8. CopyInv'
  BY <1>2, <1>3, <1>4, LeftByTheCut DEF CopyInv
<1>9. WorkInv'
  BY <1>2, <1>3, <1>4, <1>5, UnitIs DEF WorkInv
<1>10. SwapInv' /\ cuts' < cuts
  BY <1>1 DEF IInv, TypeInv, SwapInv
<1> QED
  BY <1>2, <1>3, <1>6, <1>7, <1>8, <1>9, <1>10 DEF IInv

-----------------------------------------------------------------------------
(***************************************************************************)
(* Theorems.                                                               *)
(***************************************************************************)
LEMMA InitHolds == Init => IInv
<1> SUFFICES ASSUME Init PROVE IInv
  OBVIOUS
<1>1. PICK d \in Disks : swap = d.swap /\ data = d.data
  BY DEF Init
<1>2. d \in [swap : [named : BOOLEAN, holds : SwapHolds, on : {FALSE}],
           data : [named : BOOLEAN, holds : DataHolds],
           board : [slot : {"none", "A", "B"}, root : {"none", "A", "B"}, named : BOOLEAN]]
  BY DisksAssumption
<1>3. /\ swap \in [named : BOOLEAN, holds : SwapHolds, on : {FALSE}]
      /\ data \in [named : BOOLEAN, holds : DataHolds]
  BY <1>1, <1>2
<1>4. /\ unit = AllIdle /\ cuts = MaxCuts /\ formats = MaxFormats
      /\ home = [u \in Users |-> NoHome] /\ disk = [u \in Users |-> "none"]
  BY DEF Init
<1>5. NoHome \in KeptHomes /\ NoHome.name = "none" /\ ~NoHome.mine
  BY DEF NoHome, KeptHomes, HomeNames
<1>6. \A x \in Units : unit[x] = "idle"
  BY <1>4 DEF AllIdle
<1>7. TypeInv
  <2>1. swap \in [named : BOOLEAN, holds : SwapHolds, on : BOOLEAN]
    BY <1>3
  <2>2. unit \in [Units -> {"idle", "running", "done", "failed", "skipped"}]
    BY <1>4 DEF AllIdle
  <2>3. cuts \in Nat /\ formats \in Nat
    BY <1>4, StorageAssumption
  <2> QED
    BY <1>3, <1>4, <1>5, <2>1, <2>2, <2>3 DEF TypeInv
<1>8. OrderInv
  BY <1>6, UnitIs DEF OrderInv, Mounted, Others
<1>9. CopyInv /\ WorkInv
  BY <1>4, <1>5, <1>6, UnitIs DEF CopyInv, WorkInv
<1>10. SwapInv
  BY <1>3 DEF SwapInv
<1> QED
  BY <1>7, <1>8, <1>9, <1>10 DEF IInv

\* The steps of Next, sorted by what they do to the homes.
LEMMA Steps ==
  ASSUME Next
  PROVE  \/ \E x \in Units : DependencyFails(x)
         \/ \E x \in {Check, Prepare, Journal, Flush, Rauc, Sessions} : Starts(x)
         \/ SwapOn \/ CheckData \/ MountData \/ PrepareEnds
         \/ \E failing : GrowFs(failing)
         \/ \E u \in Users : HomeMounts(u)
         \/ \E u \in Users : \/ SeedStarts(u) \/ SeedCopied(u) \/ SeedSynced(u)
                             \/ SeedRenamed(u) \/ SeedDone(u)
         \/ PrepareFails \/ (\E u \in Users : Works(u))
         \/ FormatData \/ StartAgain \/ PowerCut
BY DEF Next, UnitNext

\* Each step keeps the invariant and, unless DATA is formatted, what users have.
LEMMA StepKeeps ==
  ASSUME IInv, [Next]_vars
  PROVE  /\ IInv'
         /\ \A u \in Users : home[u].mine /\ ~home'[u].mine => formats' < formats
<1>1. CASE \E x \in Units : DependencyFails(x)
  BY <1>1, DependencyKeeps DEF DependencyFails
<1>2. CASE \E x \in {Check, Prepare, Journal, Flush, Rauc, Sessions} : Starts(x)
  BY <1>2, StartKeeps DEF Starts
<1>3. CASE SwapOn
  BY <1>3, SwapKeeps DEF SwapOn
<1>4. CASE CheckData
  BY <1>4, CheckKeeps DEF CheckData
<1>5. CASE MountData
  BY <1>5, MountKeeps DEF MountData
<1>6. CASE PrepareEnds
  BY <1>6, PrepareEndsKeeps DEF PrepareEnds
<1>7. CASE \E failing : GrowFs(failing)
  BY <1>7, GrowKeeps DEF GrowFs
<1>8. CASE \E u \in Users : HomeMounts(u)
  BY <1>8, HomeKeeps DEF HomeMounts
<1>9. CASE \E u \in Users : \/ SeedStarts(u) \/ SeedCopied(u) \/ SeedSynced(u)
                            \/ SeedRenamed(u) \/ SeedDone(u)
  BY <1>9, SeedingKeeps
<1>10. CASE PrepareFails
  BY <1>10, PrepareFailsKeeps
<1>11. CASE \E u \in Users : Works(u)
  BY <1>11, WorkKeeps
<1>12. CASE FormatData
  BY <1>12, FormatKeeps
<1>13. CASE StartAgain
  BY <1>13, AgainKeeps DEF StartAgain
<1>14. CASE PowerCut
  BY <1>14, CutKeeps
<1>15. CASE UNCHANGED vars
  BY <1>15 DEF vars, IInv, TypeInv, OrderInv, CopyInv, WorkInv, SwapInv, Mounted, Settled
<1> QED
  BY <1>1, <1>2, <1>3, <1>4, <1>5, <1>6, <1>7, <1>8, <1>9, <1>10, <1>11, <1>12, <1>13,
     <1>14, <1>15, Steps

LEMMA Invariant == Spec => []IInv
<1>1. IInv /\ [Next]_vars => IInv'
  BY StepKeeps
<1> QED
  BY InitHolds, <1>1, PTL DEF Spec

\* HomesWhole: whatever a run of prepare-data, a power cut or a format comes
\* in between, a home under its final name is whole, for every set of users.
THEOREM HomesAreWhole == Spec => []HomesWhole
<1>1. IInv => HomesWhole
  BY DEF IInv, CopyInv, HomesWhole
<1> QED
  BY <1>1, Invariant, PTL

\* MineStays: only FormatData takes what a user has at home.
THEOREM MineIsKept == Spec => MineStays
<1>1. IInv /\ [Next]_vars =>
        [\A u \in Users : home[u].mine /\ ~home'[u].mine => formats' < formats]_vars
  BY StepKeeps
<1> QED
  BY <1>1, Invariant, PTL DEF Spec, MineStays

\* ForeignUntouched: boat-storage writes SWAP and DATA only under their own
\* names, and neither a hibernation image nor a DATA it should not.
THEOREM ForeignIsUntouched == Spec => ForeignUntouched
<1> DEFINE SwapOurs == swap'.holds # swap.holds => swap.named /\ swap.holds # "swsuspend"
           DataOurs == data'.holds # data.holds =>
                         /\ data.named
                         /\ data.holds \in {"clean", "dirty"} \/ formats' < formats \/ cuts' < cuts
<1>1. ASSUME IInv, [Next]_vars
      PROVE  SwapOurs
  <2>1. CASE SwapOn
    BY <1>1, <2>1 DEF SwapOn, IInv, SwapInv
  <2>2. CASE PowerCut
    BY <1>1, <2>2 DEF PowerCut, IInv, TypeInv
  <2>3. CASE swap' = swap
    BY <2>3
  <2>4. SwapOn \/ PowerCut \/ swap' = swap
    BY <1>1, Steps DEF DependencyFails, Starts, CheckData, MountData, PrepareEnds, GrowFs,
       HomeMounts, SeedStarts, SeedCopied, SeedSynced, SeedRenamed, SeedDone, PrepareFails,
       Works, FormatData, StartAgain, vars
  <2> QED
    BY <2>1, <2>2, <2>3, <2>4
<1>2. ASSUME IInv, [Next]_vars
      PROVE  DataOurs
  <2>1. CASE CheckData
    BY <1>2, <2>1 DEF CheckData, Sound, IInv, TypeInv
  <2>2. CASE FormatData
    <3>1. data.named /\ formats' < formats
      BY <1>2, <2>2, FormatKeeps DEF FormatData, Formattable
    <3> QED
      BY <3>1
  <2>3. CASE PowerCut
    <3>1. cuts' < cuts
      BY <1>2, <2>3, CutKeeps
    <3>2. ~Mounted => data'.holds = data.holds
      BY <1>2, <2>3 DEF PowerCut, IInv, TypeInv
    <3>3. Mounted => data.named
      BY <1>2 DEF IInv, OrderInv
    <3> QED
      BY <3>1, <3>2, <3>3
  <2>4. CASE data' = data
    BY <2>4
  <2>5. CheckData \/ FormatData \/ PowerCut \/ data' = data
    BY <1>2, Steps DEF DependencyFails, Starts, SwapOn, MountData, PrepareEnds, GrowFs,
       HomeMounts, SeedStarts, SeedCopied, SeedSynced, SeedRenamed, SeedDone, PrepareFails,
       Works, StartAgain, vars
  <2> QED
    BY <2>1, <2>2, <2>3, <2>4, <2>5
<1>3. IInv /\ [Next]_vars => [SwapOurs /\ DataOurs]_vars
  BY <1>1, <1>2
<1> QED
  BY <1>3, Invariant, PTL DEF Spec, ForeignUntouched

\* NotUnderALogin: systemd's order lets no home be mounted once logins began,
\* in this boot or in one where DATA was seen to by hand.
THEOREM NoneUnderALogin == Spec => NotUnderALogin
<1> DEFINE Early == \A u \in Users : unit[Home(u)] # "done" /\ unit'[Home(u)] = "done"
                                        => unit[Sessions] = "idle"
<1>1. ASSUME IInv, [Next]_vars
      PROVE  Early
  <2> SUFFICES ASSUME NEW u \in Users, unit[Home(u)] # "done", unit'[Home(u)] = "done"
               PROVE  unit[Sessions] = "idle"
    OBVIOUS
  <2>1. CASE HomeMounts(u)
    <3>1. ~Settled(Home(u))
      BY <2>1 DEF HomeMounts, Due, Settled
    <3> QED
      BY <1>1, <3>1 DEF IInv, OrderInv
  <2>2. HomeMounts(u)
    <3>1. Home(u) \in Units /\ Home(u) \notin {Check, Mount, Prepare} \cup Others
      BY UnitIs, UnitNames
    <3>2. \A x, s : Becomes(x, s) => x = Home(u) /\ s = "done"
      BY <1>1, <3>1 DEF Becomes, IInv, TypeInv
    <3>3. unit' # unit /\ unit' # AllIdle
      BY <3>1 DEF AllIdle
    <3>4. CASE \E x \in Units : DependencyFails(x)
      BY <3>2, <3>4 DEF DependencyFails
    <3>5. CASE \E x \in {Check, Prepare, Journal, Flush, Rauc, Sessions} : Starts(x)
      BY <3>1, <3>2, <3>5 DEF Starts, Others
    <3>6. CASE SwapOn
      BY <3>1, <3>2, <3>6 DEF SwapOn, Others
    <3>7. CASE CheckData
      BY <3>1, <3>2, <3>7 DEF CheckData
    <3>8. CASE MountData
      BY <3>1, <3>2, <3>8 DEF MountData
    <3>9. CASE PrepareEnds \/ PrepareFails
      BY <3>1, <3>2, <3>9 DEF PrepareEnds, PrepareFails
    <3>10. CASE \E failing : GrowFs(failing)
      BY <3>1, <3>2, <3>10 DEF GrowFs, Others
    <3>11. CASE \E v \in Users : HomeMounts(v)
      <4>1. PICK v \in Users : HomeMounts(v)
        BY <3>11
      <4>2. Home(v) = Home(u)
        BY <3>2, <4>1 DEF HomeMounts
      <4>3. v = u
        BY <4>2, UnitNames
      <4> QED
        BY <4>1, <4>3
    <3>12. CASE \E v \in Users : \/ SeedStarts(v) \/ SeedCopied(v) \/ SeedSynced(v)
                                 \/ SeedRenamed(v) \/ SeedDone(v) \/ Works(v)
      BY <3>3, <3>12 DEF SeedStarts, SeedCopied, SeedSynced, SeedRenamed, SeedDone, Works
    <3>13. CASE FormatData \/ UNCHANGED vars
      BY <3>3, <3>13 DEF FormatData, vars
    <3>14. CASE StartAgain
      BY <1>1, <3>1, <3>14 DEF StartAgain, IInv, TypeInv
    <3>15. CASE PowerCut
      BY <3>3, <3>15 DEF PowerCut
    <3> QED
      BY <1>1, <3>4, <3>5, <3>6, <3>7, <3>8, <3>9, <3>10, <3>11, <3>12, <3>13, <3>14, <3>15,
         Steps
  <2> QED
    BY <2>1, <2>2
<1>2. IInv /\ [Next]_vars => [Early]_vars
  BY <1>1
<1> QED
  BY <1>2, Invariant, PTL DEF Spec, NotUnderALogin

=============================================================================
