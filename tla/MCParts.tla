------------------------------ MODULE MCParts ------------------------------
(***************************************************************************)
(* What the repository's own tests put the real programs through, put to   *)
(* the models of them, and two parts small enough to be checked whole: the *)
(* partition layout and the interlock of sleep and updates.  They have     *)
(* nothing to do with each other.  A behaviour is one of one of them,      *)
(* chosen at the start (about); the variables of the others stay Off.      *)
(***************************************************************************)
EXTENDS SleepInterlock, Sequences

VARIABLES
  about,
  env, bak, torn, good, proven, phase, grub, boot, mark, pc, lock, stopping, faults,
  damage, tboots, condemned, home, lost, warm,
  sc, tried,
  scriptCase,
  hTrial, up, dead, hData, now, deadline, hardStop, hBefore, hStep, reason, hVerdict,
  asked, early, awake, missed, gateCase, round,
  published, served, oFiles, chan, st, mem, failed, final, part, oPc, goal, want, rel,
  other, oFaults, trials, wrote, oSc, step, left,
  counter, pLock, index, files, tmp, run, starts, pLost, signed, script, began, before,
  swap, data, unit, sHome, disk, board, image, grown, cuts, formats, storeCase,
  window, k, seen, verdict,
  job, dst, said

boardVars == <<env, bak, torn, good, proven, phase, grub, boot, mark, pc, lock,
               stopping, faults, damage, tboots, condemned, home, lost, warm>>
grubVars == <<sc, tried>>
scriptVars == <<scriptCase>>
gateVars == <<hTrial, up, dead, hData, now, deadline, hardStop, hBefore, hStep, reason,
              hVerdict, asked, early, awake, missed, gateCase, round>>
otaVars == <<published, served, oFiles, chan, st, mem, failed, final, part, oPc, goal,
             want, rel, other, oFaults, trials, wrote, oSc, step, left>>
channelVars == <<counter, pLock, index, files, tmp, run, starts, pLost, signed, script,
                 began, before>>
storageVars == <<swap, data, unit, sHome, disk, board, image, grown, cuts, formats,
                 storeCase>>
vectorVars == <<window, k, seen, verdict>>
layoutVars == <<job, dst, said>>

interlockVars == vars

-----------------------------------------------------------------------------
G == INSTANCE GrubScenarios WITH MaxFaults <- 4, MaxDamage <- 0

S == INSTANCE ScriptCases WITH
       MaxFaults <- 1, MaxDamage <- 0, Ops <- {"install"}, case <- scriptCase

H == INSTANCE GateCases WITH
       Deadline <- 108, Limit <- 120, Margin <- 2, CheckTimeout <- 12, Kill <- 1,
       Noticed <- 12, Sleeps <- {200}, MaxSleeps <- 200,
       trial <- hTrial, data <- hData, before <- hBefore, step <- hStep,
       verdict <- hVerdict, case <- gateCase

\* The modules of the cases define the constants of what they test: they are taken
\* from an instance that has none (O0, P0, L0) for the one that is run.
OtaChannels == {"stable", "testing", "fleet"}
O0 == INSTANCE OtaScenarios WITH
       Channels <- OtaChannels, Contents <- {}, Offers <- {},
       MaxSerial <- [c \in OtaChannels |-> 0], MaxRefetch <- 3,
       Size <- 2, MaxFaults <- 9, MaxTrials <- 0,
       files <- oFiles, pc <- oPc, faults <- oFaults, sc <- oSc
CaseContents == O0!ScContents
CaseOffers == O0!ScOffers
O == INSTANCE OtaScenarios WITH
       Channels <- OtaChannels, Contents <- CaseContents, Offers <- CaseOffers,
       MaxSerial <- [c \in OtaChannels |-> 0], MaxRefetch <- 3,
       Size <- 2, MaxFaults <- 9, MaxTrials <- 0,
       files <- oFiles, pc <- oPc, faults <- oFaults, sc <- oSc

P0 == INSTANCE PublisherCases WITH
       Pubs <- {"pub"}, Machines <- {"here", "there"}, Near <- {"here", "there"},
       Bundles <- {},
       Channels <- {"testing", "stable", "bench"}, Clocks <- {20}, MaxRuns <- 9,
       MaxLost <- 0, lock <- pLock, lost <- pLost
CaseBundles == P0!CaseBundles
P == INSTANCE PublisherCases WITH
       Pubs <- {"pub"}, Machines <- {"here", "there"}, Near <- {"here", "there"},
       Bundles <- CaseBundles,
       Channels <- {"testing", "stable", "bench"}, Clocks <- {20}, MaxRuns <- 9,
       MaxLost <- 0, lock <- pLock, lost <- pLost

T == INSTANCE StorageCases WITH
       Users <- {"boat1"}, Disks <- {}, MaxCuts <- 0, MaxFormats <- 1,
       home <- sHome, case <- storeCase

\* The shipped window is 30.
V == INSTANCE SleepVectors WITH Windows <- {1, 2, 10, 29, 30, 31, 60, 300}

L0 == INSTANCE MCLayout WITH Jobs <- {}
LayoutJobs == L0!MCJobs
L == INSTANCE MCLayout WITH Jobs <- LayoutJobs

-----------------------------------------------------------------------------
Off == "off"
BoardOff ==
  /\ env = Off /\ bak = Off /\ torn = Off /\ good = Off /\ proven = Off /\ phase = Off
  /\ grub = Off /\ boot = Off /\ mark = Off /\ pc = Off /\ lock = Off
  /\ stopping = Off /\ faults = Off /\ damage = Off /\ tboots = Off /\ condemned = Off
  /\ home = Off /\ lost = Off /\ warm = Off
GrubOff ==
  /\ sc = Off /\ tried = Off
ScriptOff ==
  /\ scriptCase = Off
GateOff ==
  /\ hTrial = Off /\ up = Off /\ dead = Off /\ hData = Off /\ now = Off
  /\ deadline = Off /\ hardStop = Off /\ hBefore = Off /\ hStep = Off /\ reason = Off
  /\ hVerdict = Off /\ asked = Off /\ early = Off /\ awake = Off /\ missed = Off
  /\ gateCase = Off /\ round = Off
OtaOff ==
  /\ published = Off /\ served = Off /\ oFiles = Off /\ chan = Off /\ st = Off
  /\ mem = Off /\ failed = Off /\ final = Off /\ part = Off /\ oPc = Off /\ goal = Off
  /\ want = Off /\ rel = Off /\ other = Off /\ oFaults = Off /\ trials = Off
  /\ wrote = Off /\ oSc = Off /\ step = Off /\ left = Off
ChannelOff ==
  /\ counter = Off /\ pLock = Off /\ index = Off /\ files = Off /\ tmp = Off
  /\ run = Off /\ starts = Off /\ pLost = Off /\ signed = Off /\ script = Off
  /\ began = Off /\ before = Off
StorageOff ==
  /\ swap = Off /\ data = Off /\ unit = Off /\ sHome = Off /\ disk = Off
  /\ board = Off /\ image = Off /\ grown = Off /\ cuts = Off /\ formats = Off
  /\ storeCase = Off
VectorOff ==
  /\ window = Off /\ k = Off /\ seen = Off /\ verdict = Off
LayoutOff ==
  /\ job = Off /\ dst = Off /\ said = Off
InterlockOff ==
  /\ trial = Off /\ committed = Off /\ inhibit = Off /\ install = Off /\ asker = Off
  /\ logind = Off
PartsInit ==
  \/ /\ about = "grub" /\ G!Init
     /\ ScriptOff /\ GateOff /\ OtaOff /\ ChannelOff /\ StorageOff /\ VectorOff
     /\ LayoutOff /\ InterlockOff
  \/ /\ about = "scripts" /\ S!Init
     /\ GrubOff /\ GateOff /\ OtaOff /\ ChannelOff /\ StorageOff /\ VectorOff
     /\ LayoutOff /\ InterlockOff
  \/ /\ about = "health" /\ H!CaseInit
     /\ BoardOff /\ GrubOff /\ ScriptOff /\ OtaOff /\ ChannelOff /\ StorageOff
     /\ VectorOff /\ LayoutOff /\ InterlockOff
  \/ /\ about = "update" /\ O!ScInit
     /\ BoardOff /\ GrubOff /\ ScriptOff /\ GateOff /\ ChannelOff /\ StorageOff
     /\ VectorOff /\ LayoutOff /\ InterlockOff
  \/ /\ about = "publish" /\ P!CaseInit
     /\ BoardOff /\ GrubOff /\ ScriptOff /\ GateOff /\ OtaOff /\ StorageOff
     /\ VectorOff /\ LayoutOff /\ InterlockOff
  \/ /\ about = "storage" /\ T!CaseInit
     /\ BoardOff /\ GrubOff /\ ScriptOff /\ GateOff /\ OtaOff /\ ChannelOff
     /\ VectorOff /\ LayoutOff /\ InterlockOff
  \/ /\ about = "vectors" /\ V!Init
     /\ BoardOff /\ GrubOff /\ ScriptOff /\ GateOff /\ OtaOff /\ ChannelOff
     /\ StorageOff /\ LayoutOff /\ InterlockOff
  \/ /\ about = "layout" /\ L!Init
     /\ BoardOff /\ GrubOff /\ ScriptOff /\ GateOff /\ OtaOff /\ ChannelOff
     /\ StorageOff /\ VectorOff /\ InterlockOff
  \/ /\ about = "interlock" /\ Init
     /\ BoardOff /\ GrubOff /\ ScriptOff /\ GateOff /\ OtaOff /\ ChannelOff
     /\ StorageOff /\ VectorOff /\ LayoutOff

\* After the last vector, and once a layout is made or refused.
VectorsDone == k = Len(V!Cases(window)) /\ UNCHANGED vectorVars
LayoutDone  == said # "nothing" /\ UNCHANGED layoutVars

PartsNext ==
  \/ /\ about = "grub" /\ G!Next
     /\ UNCHANGED <<about, scriptVars, gateVars, otaVars, channelVars, storageVars,
                  vectorVars, layoutVars, interlockVars>>
  \/ /\ about = "scripts" /\ S!Next
     /\ UNCHANGED <<about, grubVars, gateVars, otaVars, channelVars, storageVars,
                  vectorVars, layoutVars, interlockVars>>
  \/ /\ about = "health" /\ H!CaseNext
     /\ UNCHANGED <<about, boardVars, grubVars, scriptVars, otaVars, channelVars,
                  storageVars, vectorVars, layoutVars, interlockVars>>
  \/ /\ about = "update" /\ O!ScNext
     /\ UNCHANGED <<about, boardVars, grubVars, scriptVars, gateVars, channelVars,
                  storageVars, vectorVars, layoutVars, interlockVars>>
  \/ /\ about = "publish" /\ P!CaseNext
     /\ UNCHANGED <<about, boardVars, grubVars, scriptVars, gateVars, otaVars,
                  storageVars, vectorVars, layoutVars, interlockVars>>
  \/ /\ about = "storage" /\ T!CaseNext
     /\ UNCHANGED <<about, boardVars, grubVars, scriptVars, gateVars, otaVars,
                  channelVars, vectorVars, layoutVars, interlockVars>>
  \/ /\ about = "vectors" /\ (V!Next \/ VectorsDone)
     /\ UNCHANGED <<about, boardVars, grubVars, scriptVars, gateVars, otaVars,
                  channelVars, storageVars, layoutVars, interlockVars>>
  \/ /\ about = "layout" /\ (L!Next \/ LayoutDone)
     /\ UNCHANGED <<about, boardVars, grubVars, scriptVars, gateVars, otaVars,
                  channelVars, storageVars, vectorVars, interlockVars>>
  \/ /\ about = "interlock" /\ Next
     /\ UNCHANGED <<about, boardVars, grubVars, scriptVars, gateVars, otaVars,
                  channelVars, storageVars, vectorVars, layoutVars>>

PartsSpec ==
  /\ PartsInit
  /\ [][PartsNext]_<<about, boardVars, grubVars, scriptVars, gateVars, otaVars,
                     channelVars, storageVars, vectorVars, layoutVars, interlockVars>>

-----------------------------------------------------------------------------

\* The models end every case of the repository's test programs as the test wants the
\* real programs to: grub.cfg in the slot, the flags and the grubenv of each scenario;
\* the scripts in each grubenv, mark and reboot; the health checks in each verdict;
\* every verb of boat-update in the offer, downloads, memory and alert the test finds;
\* each publish in a higher index that names the whole bundle, or the channel as it
\* was; each command of boat-storage and the order of its units; each conformance
\* vector in the verdict boat-sleepd and the TypeScript client agreed on; and each
\* template of test-ab-layout.py in the boat's layout or its refusal.
AsTested ==
  /\ about = "grub"    => G!AsTested
  /\ about = "scripts" => S!AsTested
  /\ about = "health"  => H!AsTested
  /\ about = "update"  => O!AsTested
  /\ about = "publish" => P!AsTested
  /\ about = "storage" => T!AsTested
  /\ about = "vectors" => V!AsVectors
  /\ about = "layout"  => L!AsTested

\* Every number the boot and update path uses leads, in a layout that was
\* written, to exactly the partition it means; APP_b stays unwritten; DATA
\* alone grows, and is last; and SWAP and DATA have moved no entry of the
\* template ("Every partition named in NUMBERS ends up at exactly that GPT
\* entry number ... or the build fails here").
LayoutAddressable == about = "layout" => L!Addressable

\* A template the flash would number as wanted, with room for SWAP and DATA
\* and nothing else growing, is not refused.
LayoutNotRefusedNeedlessly == about = "layout" => L!NotRefusedNeedlessly

=============================================================================
