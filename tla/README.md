# The boat computer in TLA+

This directory specifies the programs of the repository that decide what the boat
computer runs and that it comes up: GRUB's slot selection, the guard of its
environment block, the health gate, updates from the channel to the other slot, the
publisher of that channel, the sleep listener and its interlock with updates, the
storage units, and the layout of the disk. The modules are checked with TLC on small
instances; the properties that matter most, of every one of these but the layout,
are proved with TLAPS for every value of their constants.

The board has two root file systems (slots A and B) on one NVMe disk and one ESP
with `grubenv`, the only thing GRUB can write. An update is written into the slot
that is not running, booted as a *trial*, and then *committed* by the health gate
or failed, after which the old slot comes back. Releases come from a *channel*: a
signed index that names a bundle, on a server the board does not trust.

## 1. Inventory

| component | state it keeps | operations | talks to | modules |
|---|---|---|---|---|
| `grub.cfg.in` | its variables; `grubenv` | read env/bak/defaults, pick, count, load, mark bad, hand over, last resort | the kernel command line | `Grub` |
| `boat-ab-lib.sh` | `/run/boat-ab/commit.lock` | `ab_lock`, `grubenv_replace`, `grubenv_set`, `grubenv_sync_bak` | every shell writer of grubenv | `BoardState` |
| `boat-grubenv-guard` | – | reset attempts, write the hand-over's mark, refresh or rebuild grubenv | grubenv, grubenv.bak | `GrubenvGuard` |
| `boat-commit` | marks in `/run/boat-ab`; history and failed-versions on /data | check, reset, commit, fail (gate, `--deadline`), give the attempt back (`--shutdown`), refuse a sleep (`--may-sleep`) | grubenv, systemd, DATA, logind | `BoatCommit`, `HealthGate`, `SleepInterlock` |
| RAUC, its handlers, the `grub-editenv` wrapper | slot status on /data | refuse, un-commit the target, mark bad, write, activate | grubenv, the other slot | `SlotInstall` |
| `boat-update` | `state.json`, failed-versions, downloads, its lock | check, download, install (file or stream), rollback, debug-hold, auto, housekeeping | the channel, RAUC, grubenv, boat-commit's records | `OtaClient`, `SlotInstall` |
| `publish-update.sh` | the channel's index, serial counter and its lock | publish, with every check in front | the channel | `Publisher` |
| `boat-sleepd` | replay cache, socket buffer | verify, honour | boat-sleep, its clients | `SleepProtocol`, `SleepListener` |
| `boat-sleep`, logind, its drop-ins | – | check, delay, request, suspend | boat-commit `--may-sleep`, the install unit | `SleepInterlock` |
| `boat-storage` and its units | SWAP, DATA, homes | swap, check, mount, prepare (seed), grow, format | systemd's order of units, logins | `Storage` |
| `boat-ab-layout.py` | – | derive the flash layout, or refuse the template | GRUB, the initramfs and RAUC, by partition number | `PartitionLayout` |
| L4TLauncher, `nv_update_verifier` (NVIDIA) | a 2-bit warm boot count | count, reset, give up | GRUB | `Grub`, `ABBoard` (external) |
| initramfs, emergency, watchdog | – | make every failure a reset | firmware | `ABBoard` (`Crash`) |
| relay, bundle hook, Bluetooth, bootmode-guard, clients, push-update, compose, Firefox, helm display, host scripts | see section 6 | | | – |

**What is hard.** (1) *Cuts*: between a save in GRUB and the kernel, between
`grubenv` and `grubenv.bak`, between a commit and its mark, in the middle of RAUC's
write; between the rename of a download and `state.json`; between the copy of a home
and its rename; between the upload of a bundle and its index. (2) *Interleaving*: on
a trial the gate, the deadline timer and a shutdown decide about one slot at once;
DATA settles while the gate asks about it; a check comes between an install's
wrapper and its unit; a sleep is asked for in the middle of all that; two publishers
share a counter. (3) *Partial failure*: every write can be refused, before or after
its rename, and each caller goes on differently. (4) *Counters that race*: GRUB's
attempts (2 for a committed slot, 1 for a trial) and NVIDIA's three warm boots; the
gate's deadline, its hard stop and systemd's limit, with sleeps in between.
(5) *Stale copies*: `grubenv.bak`; the bundle that was verified for an offer since
withdrawn; a cached index. (6) *Unreliable delivery*: resumed downloads, repeated
and late datagrams. (7) *Something must happen*: a failed trial resets, an offer
comes in, the gate decides, logins come up.

**What makes it correct**, by part:

* boot chain: nothing but a flashed or tried release is committed or booted as if it
  were; trials are counted and bounded; a verdict stands; a failed release is not
  tried again; one lost boot never moves the board; a proven release is always left
  to go back to; the board comes back on a release that works;
* health gate: the verdict comes, in time, not too early, and only for a release
  that passed;
* update client: what is ready is whole, what is installed is what is on offer now,
  no index takes the board back, an offer comes in;
* publisher: no index names a file that is not whole, a channel's serial never goes
  back, no serial is used twice, and boards are not offered another device tree;
* sleep: a command is honoured once and in time, the listener keeps reading, and the
  board never sleeps in the middle of an update;
* storage: no half-copied home becomes final, nobody's data is seeded or formatted
  over, and logins come up whatever DATA is like;
* layout: each partition has the number the boot chain addresses it by.

## 2. Modules

```
BoardState   shared variables, lib.sh's lock and writes, faults
  |-- Grub  GrubenvGuard  BoatCommit  SlotInstall
        \-- ABBoard        composition, environment, fairness, properties
              |-- MCTwoReleases -> MCBoardLive        other boards to start from
              |-- ABRefinement                        ABBoard implements SlotContract
              \-- ABBoardProofs -> ContractProofs           types and commits; verdicts,
                                                            contract, losses, trials,
                                                            deadline, home, recovery
SlotContract     what the boot chain promises, without files, locks or processes,
                 and what is left of it when things are lost
HealthGate       the gate's loop of checks        -> HealthGateProofs
OtaClient        boat-update against its channel  -> MCOta, OtaClientProofs
Publisher        publish-update.sh                -> MCPublisher, PublisherProofs
SleepProtocol    one datagram's verdict
  \-- SleepListener   boat-sleepd                 -> MCSleep, SleepListenerProofs
SleepInterlock   sleep against trial and install  -> SleepInterlockProofs
Storage          boat-storage and its units       -> MCStorage, StorageProofs
PartitionLayout  boat-ab-layout.py                -> MCLayout
```

A second family of modules puts the cases of the repository's own test programs to
the models: `GrubScenarios` (test-grub-ab.py), `ScriptCases` and `GateCases`
(test-ab-scripts.py), `OtaScenarios` (test-boat-update.py), `PublisherCases`
(test-publish-update.py), `StorageCases` (test-boat-storage.py), `MCLayout`
(test-ab-layout.py) and `SleepVectors` (the conformance vectors of the TypeScript
client). Each drives the model's own actions with the test's inputs and compares the
outcome with what the test wants of the program, so they tie the models to what
the programs are known to do. `MCParts` puts these suites, the layout and
the interlock into one run.

**Boot chain: state and code.** `env` and `bak` are the two files as their readers
see them; `torn` says which does not parse. `ORDER` is kept as the slot that comes
first; `x_OK`, `x_TRY`, `x_COMMITTED`, `BOAT_RETRY` and `BOAT_STAY` are fields.
`grub` holds GRUB's variables while `phase` is one of GRUB's; `boot` is the kernel
command line; `mark` the marks of this boot; `pc` the step each of the five
processes is at; `lock` the owner of `commit.lock`. Of a slot's content the model
keeps `good` (it loads, comes up and is healthy). `proven`, `tboots`, `condemned`,
`home` and `lost` are history, read by properties only; `tboots` counts a slot's trial
boots since an install into it began, its commit or a rollback, or since a last resort
boot rebuilt a grubenv that knew of none. `warm` is NVIDIA's count.

One action is one step of a program between two points where something else can
happen: GRUB handles one slot, saves, or loads; a script takes the lock and writes
`grubenv` (a rename) in one step and copies it to `grubenv.bak` in the next. A
program that exits, or is killed, gives the lock back. `Replace` and `SyncBak` have
three outcomes: done, refused, or failed after the rename (the write is there, the
caller is told it is not). `PowerCut` may come at any time, in GRUB or Linux; `Crash`
is any end of a release that is not good; `Tear` and `Corrupt` are losses, found when
a boot begins. `MaxFaults` (refused writes, lock time-outs, a gate its unit stops, a
guard that dies, read errors) and `MaxDamage` (losses) bound what goes wrong; power
cuts, crashes, bad releases and reboots are not bounded. Assumed: operators act on a
system that is up (the guard and `nv_update_verifier` are through); only a good
release can pass its checks, though it may fail them.

**Health gate.** The loop of boat-commit.sh with its clock: units and DATA change
under it (`Changes`, `DataSettles`), an operator's check takes up to its time limit,
a `Suspend` in the pause is given back when it is noticed. `up` and `dead` stand for
what the checks look at; what they look at in detail is not in the model.

**Update client.** `st` is `state.json`, `mem` the running copy of it, `final` and
`part` the downloads directory; every write is a step, so that a kill comes between
any two. The channel publishes, misserves (an older index, another channel's, none)
and drops or wastes windows of a download. `want` is the file an install's wrapper
has named to the unit it started. The other slot and its trial are reduced to what
boat-update reads of them; `ABBoard` has their detail.

**Publisher.** `run[p]` is where each run of the script is and what it has read;
counter and lock belong to a key directory, shared by the runs of one machine;
machines share nothing but the channel. `found` is the index a run read back before it
took its serial; `by` in an index is history, the key directory it came from. The
machines in `Near` have the channels on a disk of their own and copy to it, the others
send to a server (`host:path`). A run may be stopped at every step; a counter may be
lost or restored, and a clock behind.

**Sleep.** Datagrams are sets of fields on a network that keeps, repeats, delays and
reorders them; the socket's buffer outlives a suspend, the cache does not outlive
the process. In `SleepInterlock` every asker reads the trial's and the install's
state without a lock and acts later; logind's suspend job checks a last time.

**Storage.** A disk to begin with (`Disks`), the units of systemd with `Requires=`,
`After=` and conditions from the unit files, one state per unit, and homes with the
name they have on disk and how far their copy is. `MaxCuts` and `MaxFormats` bound
the power cuts and what a person does.

## 3. Runs

| run | specification and instance | checks |
|---|---|---|
| `board_faults` | `ABRefinement`; one fault; install, rollback, hold | `TypeOK`, `TrialWatched`, `TrialBounded`, `ProvenWorks`, `TrialCounted`, `VerdictStands`, `FailedNotRetried`, `FallbackKept`, `KeepsContract` |
| `two_releases` | a flashed board that installs, with one loss; two committed releases, one fault and one loss, no operations | `CommittedIsProven`, `TrialBounded`, `RecoveryIsLast` |
| `health_gate` | `HealthGate`; short times, sleeps noticed and not; fair | `InTime`, `NotFailedEarly`, `PassedIsSound`, `Decides` |
| `board_live` | `MCBoardLive`, no faults, fair: flashed, with installs and rollbacks; or two releases and a loss | `TrialEnds`, `ComesBack`, `StaysHome` |
| `ota` | a release, its rebuild under one name and one RAUC refuses; one misbehaving answer, two channels, or one trial; fair | `ReadyIsWhole`, `InstallsTheOffer`, `NoReplay`, `ComesIn` |
| `publisher` | two runs at once, three in all, two device trees, one lost counter; one machine and two channels, or two machines and one | `NamedIsWhole`, `SerialsDiffer`, `SerialsGrowInTurn`, `TreeChangeIsReflash` |
| `sleep_listener` | two commands, window 2, one crash; fair | `TypeOK`, `AgainOnlyIfAhead`, `HonouredInTime`, `ReadsOn` |
| `storage` | every kind of DATA and of SWAP, one power cut, one step by a person; fair | `HomesWhole`, `MineStays`, `ForeignUntouched`, `NotUnderALogin`, `LoginsCome` |
| `parts` | the test suites; all small layouts; the interlock | `AsTested`, `LayoutAddressable`, `LayoutNotRefusedNeedlessly`, `NoSleepMidUpdate` |
| `health_gate_data` | `HealthGate`, short times | `DecidedWithData`: **violated** |
| `sleep_once` | one command, window 2, no crash; fair | `UsableOnce`: **violated** |
| `publisher_two` | two machines, one run each, one channel, no lost counter | `SerialsNeverGoBack`: **violated** |

**What they show.**

* `KeepsContract`: the whole boot chain implements `SlotContract`, in which a boot is
  of a proven release, a trial or the last resort; only a trial of a release that
  works proves it; and an install writes only the slot that does not run, while a
  proven release runs. `ABRefinement` maps the contract's `works` to `good` and
  `running` to the kernel command line. The run claims it while nothing is lost: a torn
  grubenv with a stale copy may boot by flags that are no longer true. What holds of a
  board that loses things (`KeepsContractThroughLosses`, the contract with `Lose`) is
  proved instead, and section 4 says up to which losses.
* `StaysHome`: GRUB boots another slot than the one the board belongs in (outside of
  trials and the last resort) only after two boots in a row that ended before the
  guard. `FailedNotRetried`: a slot whose failure is in grubenv gets no other trial
  until an install into it or a rollback to it. Both are about a board whose files
  are intact; a torn grubenv forgets verdicts and attempts by design.
* `TrialCounted`, `TrialBounded`: a trial's attempt is in a readable grubenv before
  the kernel starts, and an installed release has at most two trial boots, one more
  for every fault or loss.
* `TrialWatched`: the safety half of `TrialEnds`. Whoever switches the deadline off, a
  commit, a failure or the deadline itself, leaves a commit or a failure in grubenv, and
  of a failure the gate is still to reboot. The one state that escapes is a gate
  killed between `x_OK=0` and its reboot (below), and the property says that it takes a
  fault.
* `RecoveryIsLast`: four warm boots in a row that all died before the guard do not
  end in NVIDIA's recovery while a good usable slot is left, with one fault and one
  loss. (With two faults, and a loss, it no longer holds.)
* `TrialEnds`, `ComesBack`: every trial ends in a commit or a reset, unless the debug
  hold keeps it up; and once the power stays on the board is again and again up on a
  release that works. For a board that has lost a slot or a file, `ComesBack` is
  claimed of single cuts, of releases that die before the guard, and without
  installs: after two cuts the last resort may take the lost slot first.
* `InstallsTheOffer` is the one property that joins all of the client: an install's
  unit runs some time after the wrapper resolved the file's name, and checks,
  downloads, withdrawals and failed trials may come in between.
* `ComesIn`: an offer does not stay undone for ever; it is ready, given up or
  withdrawn in the end, however often a run is killed or a window lost.
* `SerialsGrowInTurn`: a newer index has a higher serial, after a lost counter, with a
  clock behind, past the runs that wait for a lock and from one machine after another.
  The exception, `Overtaken`, is exact: the index a run replaces is not the one it
  read back, and another key directory's run has put it there.
* `TreeChangeIsReflash`: a release for another device tree than the channel's current
  one is published only as a reflash, with the same exception. Only the current index
  is compared: a release in between that names no device tree hides the change, as it
  does in the script, and the property does not look at it.
* `AgainOnlyIfAhead`: a listener that lives on honours a command a second time only a
  window or more after the first, and only if the command's timestamp was not behind
  the board's clock then.
* `NotUnderALogin`: no home is mounted once logins may have begun; `LoginsCome`: they
  do begin, at every boot, however DATA fares.
* `AsTested` is the conjunction of eight suites: GRUB's scenarios, the scripts, the
  health checks, the update client, the publisher, the storage commands, the layouts
  and the sleep vectors.

**The disagreements.** Three runs put what the repository says of a program to its
model, and TLC finds it violated.

* `health_gate_data`: boat-commit.sh:34 says that a trial is not decided while DATA is
  still being checked or mounted. `tier1` and `tier2` ask whether `/data` is mounted and
  skip its checks when it is not; `data_pending` is asked afterwards. When DATA settles
  between the two, the loop ends with the checks of `/data` skipped, and the trial is
  committed without them. `PassedIsSound` is what does hold.
* `sleep_once`: boat-sleepd.py:131-137 says that a captured packet is "usable once",
  because "an entry older than the window is already rejected by the timestamp check";
  wol/README.md:94, the TypeScript client and docs/05 say "exactly once". An entry's age
  counts from the moment it came in, the timestamp check from the sender's clock. A
  command from a clock that is not behind the board's is in time for up to two windows,
  and its nonce is dropped after one. What holds is `AgainOnlyIfAhead`. (A restart of the
  listener empties the cache as well; the run has none.)
* `publisher_two`: publish-update.sh:199-202 says that a second publishing machine "can
  still never go back below what boards have seen - as long as the channel's index can
  be read back". A run reads the index, takes its serial, and uploads later; the lock
  is a flock in the machine's own key directory. When another machine puts up a higher
  serial in between, the lower one replaces it, and boards refuse it as a replay. What
  holds is `SerialsGrowInTurn`.

**Met on the way**, and in no run, because no line of the repository is plainly
contradicted or because it takes what the design rules out:

* a deadline whose write was refused and a gate that gets the lock afterwards leave
  both marks, `trial-failed` and `committed`; the slot stays committed;
* a commit that was cut off after its first write and then failed by the deadline
  keeps `x_COMMITTED=1`, and the last resort goes by that alone;
* a gate that is stopped by systemd between `x_OK=0` and its `systemctl reboot` leaves
  the failed trial up until somebody reboots: the deadline takes `x_OK=0` for a verdict
  that is being carried out (`TrialWatched` proves it the only way to that);
* what a *second* loss, or one that comes with a fault, can do: the guard rebuilds a
  torn grubenv in a trial with the other slot as committed, which it is unless something
  failed before. TLC finds an untried slot committed, and then an install over the last
  proven release, with two losses or with one loss and one fault;
* a slot that dies again and again after the guard and before `nv_update_verifier`
  has its attempts back each time, so that GRUB boots it again, until NVIDIA's count
  runs out. No property bounds this, because nothing in the program does;
* an install that is killed between RAUC's activation and `state["installed"]` is not
  remembered, so that a trial which ends without a verdict is not recorded as failed;
* a key directory whose counter was restored relies on the index read back from each
  channel: serials go on growing there, but one may be used again on another.

**Bounds and why they suffice.** Two slots are the whole system; `x_TRY` is 0..2 in
grubenv itself, `warm` and `lost` saturate at 4, where NVIDIA's counter trips;
`tboots` is kept finite by `TrialBounded` itself. One fault reaches every error path
of every program, and the proofs cover any number of them; losses interact with
faults only through the files, and the two come together in `two_releases`. A
bundle of two windows has a beginning, a middle and an end to lose; two contents
under one name are what a resumed download can mix up; one trial is what can fail
while a run is under way. Two runs of the publisher are all that can meet at one
lock, or on one channel; the third follows a run that was cut off. Two machines on one
channel, one of them with the channels on its own disk, are what can overtake each
other. A window of two seconds has an inside, both edges and an outside; the shipped 30
is among the windows of `SleepVectors`. One user's home is seeded by itself, so one user is enough; SWAP and
DATA are handled by units that do not look at each other, so `MCDisks` varies one at
a time. The gate's loop is checked with a deadline of two pauses, sleeps it notices
and sleeps it does not, and with the shipped times in `GateCases`. Symmetry is used
only among the publisher's runs, which are alike, together with a view that drops
why a run ended; no liveness is checked there.

`CHECK_DEADLOCK FALSE` is set where the system may stop: the client when nothing is
left to publish, fail or try; the publisher after its last run; the storage units
once a boot is settled and the budgets are spent; the gate after its verdict.

**Views.** Variables that only record what happened, and that no other variable's
next value depends on, are left out of the comparison of states where the properties
of a run do not read them (`Seen` in `ABRefinement`, `MCTwoReleases`, `MCOta` and
`MCPublisher`, `SeenAlive` in `MCBoardLive`): what is left is the same program with the
same steps. Liveness is checked under a view in two runs: in `ota` the view leaves out
only what the last install wrote, which no step reads; for `board_live` the module says
why each state that is merged has the same successors, up to the view, and enables the
same steps, and `lost` is counted up to the two that `StaysHome` asks for.

**Parts of a run.** Where everything at once is more than TLC can do, a run holds
several instances side by side, and a variable that never changes, or an action
constraint, says which steps each has.

* `board_faults` (`HoldsCleanly`): nothing fails on a board that is held; everything
  else comes with everything.
* `two_releases` (`Either`): the flashed board keeps the whole of `MaxFaults` and leaves
  its faults out, the other starts with one less and leaves its installs out.
* `board_live` (`start`): the flashed board loses nothing, the one with two releases
  installs nothing.
* `ota` (`about`): "answers" has one channel with every release and one answer that
  misbehaves; "channels" has two, of which only the index misbehaves, the timer and a
  person's installs; "trials" has one channel that answers well, and one trial or
  rollback. The proofs of `NoReplay`, `ReadyIsWhole` and `InstallsTheOffer` have all
  three together.
* `publisher` (`about`): one machine on two channels, or two machines on one. The
  proofs have any number of either.

**Fairness.** GRUB and the systemd-run scripts are sequential programs that go on
when they can: weak fairness. Steps that wait for the flock have strong fairness,
because the lock is free again and again and flock wakes its waiters (within
`BOAT_AB_LOCK_WAIT`, else the fault). The timer fires, a shutdown ends, an install
that holds the lock finishes its write. A run of boat-update never hangs, as every
request it makes has a time limit; the timer's run goes on to its download now and
then (the policy is `download`), and now and then a window brings bytes: both are
strongly fair, because a link that never carries anything is no channel. The
listener reads while it can, systemd restarts it, `boat-sleep` ends; nobody need wake
the board, which is why `ReadsOn` supposes that it is up again and again. systemd
runs the jobs there are, and what they run ends. The gate's loop goes on. Nothing is
assumed of operators, of RAUC, of releases or of the power, except in `ComesBack`,
whose premise is that the cuts stop, and `ComesIn`, whose premise is that runs are
not killed for ever and that checks go through.

## 4. Proofs

| theorem | establishes | for every |
|---|---|---|
| `ABBoardProofs!TypeCorrect` | `[]TypeOK` | number of faults and losses, set of operations |
| `ABBoardProofs!Provenance` | `CommittedIsProven` and `UntriedOnTrial` until the first loss | faults, operations |
| `ABBoardProofs!ProvenanceAfterLosses` | the same through every recoverable loss | faults, losses, operations |
| `ContractProofs!OneLossIsBorne` | the same after a first loss that comes with no fault | faults, losses, operations |
| `ABBoardProofs!TrialsAreCounted` | `TrialCounted` | faults, losses |
| `ContractProofs!VerdictsStand` | `VerdictStands` | faults, losses |
| `ContractProofs!BoardKeepsContract` | `KeepsContract`, while nothing is lost | faults, operations |
| `ContractProofs!ProvenReleasesWork` | `ProvenWorks`, until the first loss | faults, losses, operations |
| `ContractProofs!ContractAfterLosses` | `KeepsContractThroughLosses`, `FallbackKept`, through every recoverable loss | faults, losses, operations |
| `ContractProofs!ContractBearsOneLoss`, `!FallbackStays` | the same two, with no loss or with one loss and no fault | faults, operations |
| `ContractProofs!TrialsAreWatched` | `TrialWatched` | faults, losses, operations |
| `ContractProofs!TrialsAreBounded` | `TrialBounded` | faults, losses, operations |
| `ContractProofs!FailedStaysFailed` | `FailedNotRetried`, while nothing is lost | faults, operations |
| `ContractProofs!HomeIsKept` | `StaysHome`, while nothing fails or is lost | operations |
| `ContractProofs!RecoveryComesLast` | `RecoveryIsLast`, until a second fault | losses, operations |
| `HealthGateProofs!VerdictInTime`, `!NeverFailedEarly` | `InTime`, `NotFailedEarly` | times that fit as the shipped ones do |
| `HealthGateProofs!PassesAreSound` | `PassedIsSound` | times |
| `OtaClientProofs!NeverBack`, `!ReadyStaysWhole` | `NoReplay`, `ReadyIsWhole` | channels, bundles, offers, bad answers, kills |
| `OtaClientProofs!OnlyTheOffer` | `InstallsTheOffer` | the same, with truthful offers |
| `PublisherProofs!SerialsRise` | `SerialsDiffer` | runs, machines, channels, bundles, clocks, lost counters |
| `PublisherProofs!SerialsOnlyGrow`, `!TreesOnlyByReflash` | `SerialsGrowInTurn`, `TreeChangeIsReflash` | the same |
| `PublisherProofs!NamedStaysWhole` | `NamedIsWhole` | the same, with the channels on at most one machine's own disk |
| `StorageProofs!HomesAreWhole`, `!MineIsKept` | `HomesWhole`, `MineStays` | users, disks, power cuts, formats |
| `StorageProofs!ForeignIsUntouched`, `!NoneUnderALogin` | `ForeignUntouched`, `NotUnderALogin` | the same |
| `SleepInterlockProofs!InterlockHolds` | `NoSleepMidUpdate` | (no constants) |
| `SleepListenerProofs!ListenerTypes`, `!ReplayOnlyAhead`, `!InTimeOnly` | `TypeOK`, `AgainOnlyIfAhead`, `HonouredInTime` | window, delay, skew, commands, crashes |

The assumptions are those the modules state of their constants (budgets are natural
numbers, `Ops` names operations, a window is not 0, an offer names a content, no swap
is on before the first boot), and those a theorem names itself:

* `RecoverableLoss` and `Few`: which losses there are, and with which faults (below). Where
  the table says "until", the statement has the condition on the budgets left;
* `TimesFit`: the capped deadline and one pause leave the unit its margin, as 540 s and
  5 s do of 600 s;
* `Truthful`: an index says the version of the bundle it names, which
  publish-update.sh reads from the bundle;
* `OneNear`, of `NamedStaysWhole` alone: the channels are on the disk of one machine, or
  of none. Runs that copy to one disk share a temporary name, and only the key
  directory's lock (publish-update.sh:111) keeps them apart; the others send by rsync,
  which has a temporary name for each.

Each argument has its own inductive invariant:

* `Provenance`: `Sound` says that a copy of grubenv is left, that the copies which can be
  read *and GRUB's memory* have only proven slots committed, and that from pre-install on
  grubenv, and from RAUC's mark on grubenv.bak too, no longer have the target
  committed. This is why the copy in pre-install must succeed before RAUC may write.
  While grubenv is torn nothing may be on the way to copy it, and beside a trial there
  must be a proven release, for the guard will call it committed (`Quiet`). `Intact` adds
  that both copies can be read, which is so until the first loss.
* Losses: of a loss `Sound` needs only that one copy is left to be read, and that
  grubenv is not torn in a trial beside an untried slot; that is `RecoverableLoss`, a
  condition on the step and not on what happened before, so there may be any
  number of them. `Anchored` shows that the first loss is one, as long as nothing else has
  failed: some slot is committed in grubenv, GRUB has given up on none that is, and it
  starts a trial only beside a committed slot. This is as far as it goes: with a
  second loss, or a loss and a fault, TLC finds `CommittedIsProven` and `FallbackKept`
  violated (section 3), so `Borne` and `Few` ask for no more than they must.
* `TrialsAreCounted`: `CountInv`, while GRUB can save, what its memory calls usable
  grubenv does too, and a trial that is being loaded has its attempt in grubenv.
* `VerdictsStand`: `LockInv` (whoever is in its critical section holds the lock) and
  `VerdictInv` (a commit stands from its write to its mark and after; then the gate is
  through and the deadline not about to write).
* The refinement: `ContractInv` adds to `Sound` that an install is under way only from
  a proven release or a last resort, that the target is not proven while it is
  written, and that the gate commits only a trial of a release that works. Every step
  is then shown to be a step of `SlotContract` or to leave its variables alone; a torn
  file leaves them alone and a lost slot is the contract's `Lose`.
* `TrialsAreWatched`: `WatchInv`, a deadline that is off while the trial runs on has a
  commit or a failure beside it, and a failure a gate or deadline about to reboot, or
  a fault that was taken. It rests on `VerdictInv` (the mark means that the commit stands)
  and on nobody making a failed slot usable while its trial runs.
* `TrialsAreBounded`: `LeftInv` keeps accounts of a release: the trial boots it has had
  (`tboots`), the one under way that is counted already, and those grubenv still has for
  it (`Left`: its attempt, and the one a clean shutdown gives back) never come to more
  than 2, and one more for each fault and loss there was. `PassInv` says that what GRUB
  passes over while it can save has no attempt left, so that an attempt is used by who
  it belongs to; `RunInv` that no install runs beside a trial that is not committed, and
  that the one which runs has begun the target's account anew.
* `FailedStaysFailed`: `FailedInv`, a slot whose failure is in grubenv is not usable there
  or was committed since, and an install took the verdict back when it took the commit.
  It uses the two before: GRUB's memory is grubenv (`PassInv`), and only a slot that is
  usable there gets a trial. After a loss it does not hold: a guard that rebuilds a
  torn grubenv makes the other slot of a trial usable, whatever was known of it.
* `HomeIsKept`: `HomeFirst`, wherever the other slot could be booted outside of a trial,
  home is committed too and, before two boots in a row are lost, comes first in
  grubenv, is usable and has at most as many attempts counted as boots were lost, and the
  one under way. That it survives a boot takes `ScanInv` (GRUB goes past no slot that
  is usable), and what the running system is: a trial runs until its verdict, a last
  resort where nothing is usable, a committed slot because nothing comes before it, and
  behind the guard the board is at home unless it rolls back (`SystemInv`). It is stated
  of a board on which nothing fails because a fault costs an attempt without a boot being
  lost: a guard that dies leaves its boot's attempt counted, a read error takes all of
  them.
* `RecoveryComesLast`: `SpareInv`, while a slot is good and usable in a readable grubenv,
  the boots in a row that died before the guard are no more than the attempts the *other*
  slot has used up (all, once it is marked bad) and the faults there were (`Owed`); and
  from GRUB's choice on, a boot of the other slot is paid for before it can die (`Paid`,
  `Covered`). The limit is two attempts, so four dead boots take two faults. What the
  processes of a boot may write before the guard, or with the count still up behind a
  guard that died, is in `DeadlineInv`, `AttemptInv` and `AfterGuard`. One fault is as
  many as it stands: with two refused saves a lost slot that comes first is booted twice
  uncounted and twice counted, and the board ends in recovery beside a good slot.
* The health gate: `TimeInv` relates the clock, the deadline and the hard stop, both
  moved by the sleeps that were given back, to the time awake; `SoundInv` says what
  the checks already made in a round prove of the release at each step.
* The client's `Inv`: the copy in memory differs from the state on disk only between
  a decision and its save, it has seen all that the disk has or something newer, and
  what either calls ready is the file its index named, if it is there.
* `OnlyTheOffer` needs more: `OfferInv` says that *under the name an install has been
  started with there is, at any moment, the current offer's file or none*: checks
  discard what they replace, a download starts from an empty directory
  (`AloneOK`), and no trial has ended that housekeeping has yet to find (`WantOK`),
  so that the offer cannot become unwanted in between.
* The publisher: `LockInv` says that a run past its wait holds its key directory's
  lock, so that no two work on one counter; `CountInv`, that until a counter is lost none
  is below a serial that was signed with it, and a run about to record one has one above
  it (`Counted`): the counter is written before the index is. `NewInv` relates a run's
  new index to the one it found: its serial is higher, and it may follow it. `FoundInv`
  says that the index of the channel still is the one that was found, unless a run of
  another key directory put it there: this is where the lock comes in, and where it
  ends. `NearInv` and `CopyInv`, under `OneNear`, say that the runs that copy exclude
  each other on a channel, so that the copy which was checked is there and whole.
* Storage: `CopyInv`, a copy is whole once it was made, flushed before it is renamed, and
  final on the disk only when it is final for the running system; `WorkInv`, a home in
  which somebody works or worked is final *on the disk*, because a run that fails between
  the two mounts nothing; `OrderInv`, what systemd's ordering leaves of the units' 5^n
  states. With these a power cut can take nothing back (`LeftByTheCut`).
* The listener's `IInv`: every datagram in the buffer is one some sender sent, and a
  command honoured within the last window is in the cache (`Remembered`). So a second
  time comes a window or more later, when only a timestamp that was not behind the
  clock the first time is still in time.
* `CheckHolds`: once the suspend job has passed its check, neither a trial nor a write
  can begin.

**Only model-checked.** The layout and the test suites, which are recursive over data or
mere cases; and everything that must happen in the end (`TrialEnds`, `ComesBack`,
`ComesIn`, `Decides`, `ReadsOn`, `LoginsCome`), since the prover does not do liveness.
What a board does after a loss that is not recoverable is not claimed at all, but for
what holds through any loss: `TrialCounted`, `TrialBounded`, `VerdictStands`,
`TrialWatched`, `RecoveryIsLast`.

## 5. Cases of the tests that are left out

The suites leave out what the models have no place for: keys, certificates and file
modes; the relay; how a link is found to be metered; a bundle file named by a person;
the wording of messages, alerts and history; an `ORDER` that names no slot, a `$root`
without a partition and a missing or truncated grub.cfg; the hosts' scripts and
`sshd` settings that test-ab-scripts.py also covers; lock files' modes; OpenSSL
versions, umask and keyring checks and push-update in test-publish-update.py; and
`status`, journald's and the seeds' texts and format-data's question in
test-boat-storage.py. test-bundle-hook.py tests the bundle hook (section 6).

## 6. Not modelled

* The *stream relay* of boat-update: ranges, limits and redirects of one HTTP
  session, gone with the install. A stream is one step of `OtaClient`.
* The *bundle hook* and the board settings the RAUC handlers carry over: merges of
  account and key files inside RAUC's write, on content no slot property looks at.
* *history* and messages on /data: written, never read by a decision. Of
  failed-versions the client's part is in `OtaClient`; in the boot chain it changes
  nothing.
* *boat-bootmode-guard* and boots outside GRUB (L4TLauncher's own fallback): one UEFI
  variable, written when it differs.
* *boat-grow-rootfs.sh*: for a board without the A/B layout; one sequential run of
  partitioning tools.
* *Wake-on-LAN arming, Bluetooth, sleep hooks*: driver settings saved before a
  suspend and restored after it by hooks that run one after another.
* The *clients* of the listener: they send one datagram; what they send is
  `BuildPacket`, how they wait for a pong is not in the model.
* *push-update*: `scp` and `boat-update install` over SSH.
* *compose, Firefox, helm display, host build, flash and bench scripts*: sequential
  wrappers around external programs, with no shared state.
* Of boat-ab-layout.py: `check_token_lines`, which reads the layout back once it is
  written, for lines that sed would mangle; and two partitions of one name, which the
  model does not have.
* Of boat-storage: a failing `mkswap` and a failing `swapon` are one outcome of `SwapOn`.
* Of the boot chain: what tiers 1 and 2 look at in detail; refusals of an install that
  depend on the bundle's metadata (a choice not to install); the debug hold's stop
  inside the initramfs (a power cut).
