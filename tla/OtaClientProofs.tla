-------------------------- MODULE OtaClientProofs --------------------------
(***************************************************************************)
(* For every set of channels, bundles and offers, every number of answers  *)
(* that misbehave and every kill: no index takes the board back, what is   *)
(* recorded ready is whole, and what is installed is what was on offer.    *)
(***************************************************************************)
EXTENDS OtaClient, FiniteSetTheorems, TLAPS

-----------------------------------------------------------------------------
(***************************************************************************)
(* What the proofs need of the variables' values.                          *)
(***************************************************************************)
IsIndex(i) == i.chan \in Channels /\ i.serial \in Nat /\ i.name \in Names /\ i.sha \in Contents
Indices == published \cup {None}

ChannelOK ==
  /\ IsFiniteSet(published) /\ \A i \in published : IsIndex(i)
  /\ served \in [Channels -> Indices] /\ chan \in Channels

FinalOK == final \in [Names -> Contents \cup {None}]

\* s has the fields of state.json, and indices of I in them.
IsState(s, I) ==
  /\ s = [seen |-> s.seen, offer |-> s.offer, ready |-> s.ready, given |-> s.given,
          refetch |-> s.refetch, installed |-> s.installed, error |-> s.error,
          waiting |-> s.waiting]
  /\ s.seen \in [Channels -> I] /\ s.offer \in I /\ s.ready \in I
  /\ s.waiting \in BOOLEAN

\* What s has ready was verified, is what s has on offer, and is whole if it is
\* there at all, in the files f.
Kept(s, f) ==
  s.ready # None =>
    /\ s.ready.sha.sound /\ s.ready.sha.ver = s.ready.ver
    /\ s.offer # None => s.ready.sha = s.offer.sha
    /\ f[s.ready.name] # None => f[s.ready.name] = s.ready.sha

\* t has seen all that s has, or something newer.
NotBack(s, t) ==
  \A c \in Channels : s.seen[c] # None =>
    t.seen[c] = s.seen[c] \/ (t.seen[c] # None /\ t.seen[c].serial > s.seen[c].serial)

AtRest == {"idle", "off"}
Unsaved == {"checksave", "housesave"}
Downloading == {"dlwindow", "dlrefetch", "dlverify", "dlgiveup"}

Inv ==
  /\ ChannelOK /\ FinalOK
  /\ IsState(st, Indices) /\ Kept(st, final)
  /\ pc \notin AtRest => IsState(mem, Indices) /\ Kept(mem, final) /\ NotBack(st, mem)
  /\ pc \notin AtRest \cup Unsaved => mem = st
  /\ pc \in Downloading => mem.offer # None
  /\ pc = "dlverify" => final[mem.offer.name] = mem.offer.sha

-----------------------------------------------------------------------------
LEMMA Types == ChannelOK => \A i \in Indices : i # None => IsIndex(i)
  BY DEF ChannelOK, Indices

LEMMA BackNever == \A s : NotBack(s, s)
  BY DEF NotBack

\* t is s but for fields the properties do not tell apart.
Alike(t, s) == t.seen = s.seen /\ t.offer = s.offer /\ t.ready = s.ready

\* An assignment to fields of state.json changes those alone.
LEMMA Fields ==
  ASSUME NEW s, NEW I, IsState(s, I), NEW x
  PROVE  /\ IsState([s EXCEPT !.installed = x], I) /\ Alike([s EXCEPT !.installed = x], s)
         /\ IsState([s EXCEPT !.error = x], I) /\ Alike([s EXCEPT !.error = x], s)
         /\ x \in BOOLEAN =>
              IsState([s EXCEPT !.waiting = x], I) /\ Alike([s EXCEPT !.waiting = x], s)
<1>1. IsState([s EXCEPT !.installed = x], I) /\ Alike([s EXCEPT !.installed = x], s)
  BY DEF IsState, Alike
<1>2. IsState([s EXCEPT !.error = x], I) /\ Alike([s EXCEPT !.error = x], s)
  BY DEF IsState, Alike
<1>3. x \in BOOLEAN =>
        IsState([s EXCEPT !.waiting = x], I) /\ Alike([s EXCEPT !.waiting = x], s)
  BY DEF IsState, Alike
<1> QED BY <1>1, <1>2, <1>3

LEMMA GiveUpIs ==
  ASSUME NEW s, NEW I, IsState(s, I), None \in I
  PROVE  IsState(GivenUp(s), I) /\ GivenUp(s).seen = s.seen /\ GivenUp(s).ready = s.ready
         /\ GivenUp(s).offer = None
<1> DEFINE given == s.given \cup {s.offer.sha}
           a == [s EXCEPT !.given = given]
           b == [a EXCEPT !.offer = None]
<1>1. GivenUp(s) = [b EXCEPT !.error = "download"]
  BY DEF GivenUp, IsState
<1>2. IsState(a, I) /\ Alike(a, s)
  BY DEF IsState, Alike
<1> HIDE DEF given, a
<1>3. IsState(b, I) /\ b.seen = a.seen /\ b.ready = a.ready /\ b.offer = None
  BY <1>2 DEF IsState
<1> HIDE DEF b
<1>4. IsState([b EXCEPT !.error = "download"], I) /\ Alike([b EXCEPT !.error = "download"], b)
  BY <1>3 DEF IsState, Alike
<1> QED BY <1>1, <1>2, <1>3, <1>4 DEF Alike

\* What is ready stays as good, when files or what s has are dropped.
LEMMA StillKept ==
  ASSUME NEW s, NEW t, NEW f, NEW g, Kept(s, f), ChannelOK, s.ready \in Indices,
         t.ready \in {s.ready, None}, t.offer \in {s.offer, None},
         \A n \in Names : g[n] \in {f[n], None}
  PROVE  Kept(t, g)
  BY Types DEF Kept, IsIndex

\* A step that neither runs boat-update nor touches its files.
LEMMA Apart ==
  ASSUME Inv, UNCHANGED <<published, served, chan, st, final>>,
         pc' \in AtRest \/ UNCHANGED <<pc, mem>>
  PROVE  Inv' /\ NotBack(st, st')
  BY BackNever
  DEF Inv, ChannelOK, FinalOK, IsState, Indices, Kept, NotBack, AtRest, Unsaved, Downloading

\* A run that goes on, or ends, from what it has just saved.
LEMMA Goes ==
  ASSUME Inv, UNCHANGED <<published, served, chan>>,
         FinalOK', IsState(st, Indices)', Kept(st, final)', NotBack(st, st'),
         pc' \in AtRest \/ (mem' = st' /\ pc' \notin Unsaved),
         pc' \in Downloading => mem'.offer # None,
         pc' = "dlverify" => final'[mem'.offer.name] = mem'.offer.sha
  PROVE  Inv' /\ NotBack(st, st')
<1>1. ChannelOK'
  BY DEF Inv, ChannelOK, Indices
<1>2. pc' \notin AtRest => IsState(mem, Indices)' /\ Kept(mem, final)' /\ NotBack(st, mem)'
  BY BackNever DEF IsState, Kept, Indices, NotBack
<1> QED
  BY <1>1, <1>2 DEF Inv, AtRest, Downloading

-----------------------------------------------------------------------------
(***************************************************************************)
(* The channel, and runs that begin and end.                               *)
(***************************************************************************)
\* A step of the channel, or of its owner: more may have been published.
LEMMA ChannelMoves ==
  ASSUME Inv, ChannelOK', published \subseteq published',
         UNCHANGED <<st, mem, pc, final>>
  PROVE  Inv' /\ NotBack(st, st')
<1>1. IsState(st, Indices)'
  BY DEF Inv, IsState, Indices
<1>2. pc \notin AtRest => IsState(mem, Indices)'
  BY DEF Inv, IsState, Indices
<1> QED BY <1>1, <1>2, BackNever DEF Inv, FinalOK, Kept, NotBack, AtRest, Unsaved, Downloading

LEMMA PublishSafe ==
  ASSUME Inv, NEW c \in Channels, NEW o \in Offers, Publish(c, o), OtaAssumption
  PROVE  Inv' /\ NotBack(st, st')
<1> DEFINE mine == {i \in published : i.chan = c}
           serial == Cardinality(mine) + 1
           idx == [chan |-> c, serial |-> serial, ver |-> o.ver, name |-> o.name,
                   sha |-> o.sha, fit |-> o.fit]
<1>1. serial \in Nat
  <2>1. IsFiniteSet(mine)
    BY FS_Subset DEF Inv, ChannelOK
  <2> QED BY <2>1, FS_CardinalityType
<1>2. published' = published \cup {idx} /\ served' = [served EXCEPT ![c] = idx]
  BY DEF Publish
<1>3. IsIndex(idx)
  BY <1>1, OtaAssumption DEF IsIndex, Names
<1>4. IsFiniteSet(published')
  BY <1>2, FS_AddElement DEF Inv, ChannelOK
<1>5. UNCHANGED <<st, mem, pc, final, chan>>
  BY DEF Publish, disk, proc
<1> HIDE DEF idx
<1>6. (\A i \in published : IsIndex(i)) /\ served \in [Channels -> Indices] /\ chan \in Channels
  BY DEF Inv, ChannelOK
<1>7. \A i \in published' : IsIndex(i)
  BY <1>2, <1>3, <1>6
<1>8. served' \in [Channels -> published' \cup {None}]
  BY <1>2, <1>6 DEF Indices
<1>9. ChannelOK'
  BY <1>4, <1>5, <1>6, <1>7, <1>8 DEF ChannelOK, Indices, IsIndex
<1> QED BY <1>2, <1>5, <1>9, ChannelMoves

LEMMA OutsideSafe ==
  ASSUME Inv, (\E c \in Channels : Misserve(c)) \/ SwitchChannel
  PROVE  Inv' /\ NotBack(st, st')
<1>1. ChannelOK'
  BY DEF Inv, ChannelOK, Indices, IsIndex, Misserve, SwitchChannel, channel
<1> QED BY <1>1, ChannelMoves DEF Misserve, SwitchChannel, channel, disk, proc

LEMMA RunSafe ==
  ASSUME Inv, (\E v \in Verbs : Start(v)) \/ Killed \/ Recovers \/ Trial \/ Rollback
  PROVE  Inv' /\ NotBack(st, st')
<1>1. CASE \E v \in Verbs : Start(v)
  <2>1. pc' \in {"check", "dlstart", "trial"}
    BY <1>1 DEF Start, First
  <2> QED
    BY <1>1, <2>1, Goes, BackNever
    DEF Start, channel, disk, Inv, FinalOK, IsState, Kept, Indices, AtRest, Unsaved,
        Downloading
<1>2. CASE Killed \/ Recovers \/ Trial \/ Rollback
  BY <1>2, Apart DEF Killed, Recovers, Trial, Rollback, Idle, AtRest, channel, disk
<1> QED BY <1>1, <1>2

-----------------------------------------------------------------------------
(***************************************************************************)
(* Housekeeping and check, the two that remember before they save.         *)
(***************************************************************************)
LEMMA SecondIs ==
  /\ Second \subseteq {"check", "ended", "dlstart", "resolve", "stream"}
  /\ "stream" \in Second => goal = "stream"
  BY DEF Second

LEMMA HouseSafe == ASSUME Inv, HouseNext PROVE Inv' /\ NotBack(st, st')
<1>1. CASE TrialOutcome \/ Ends
  BY <1>1, Apart, Goes, BackNever
  DEF TrialOutcome, Ends, Idle, channel, disk, Inv, FinalOK, IsState, Kept, Indices,
      AtRest, Unsaved, Downloading
<1>2. CASE TrialSave
  <2>1. mem = st /\ IsState(st, Indices) /\ Kept(st, final)
    BY <1>2 DEF TrialSave, Inv, AtRest, Unsaved
  <2>2. IsState(st, Indices)' /\ Kept(st, final)' /\ NotBack(st, st')
    <3>1. st' = [st EXCEPT !.installed = None] /\ UNCHANGED <<published, final>>
      BY <1>2, <2>1 DEF TrialSave, Save, channel
    <3> QED BY <2>1, <3>1, Fields, StillKept DEF Inv, Indices, IsState, NotBack, Alike
  <2> QED
    BY <1>2, <2>2, Goes
    DEF TrialSave, Save, channel, Inv, FinalOK, IsState, Indices, Kept, AtRest, Unsaved, Downloading
<1>3. CASE Housekeeping
  <2> DEFINE r == mem.ready # None /\ NoLongerWanted(mem.ready.ver)
             o == mem.offer # None /\ NoLongerWanted(mem.offer.ver)
             ready == IF r THEN None ELSE mem.ready
             offer == IF o THEN None ELSE mem.offer
  <2>1. mem = st /\ IsState(st, Indices) /\ Kept(st, final) /\ ChannelOK /\ FinalOK
        /\ UNCHANGED <<published, served, chan, st>>
    BY <1>3 DEF Housekeeping, Inv, AtRest, Unsaved, channel
  <2>2. /\ final' = IF r THEN [final EXCEPT ![mem.ready.name] = None] ELSE final
        /\ mem' = [mem EXCEPT !.ready = ready, !.offer = offer]
        /\ IF r \/ o THEN pc' = "housesave" ELSE pc' \in Second
    BY <1>3 DEF Housekeeping
  <2> HIDE DEF r, o
  <2>3. FinalOK' /\ \A n \in Names : final'[n] \in {final[n], None}
    BY <2>1, <2>2 DEF FinalOK
  <2>4. mem.ready \in Indices /\ mem.offer \in Indices /\ ready \in Indices /\ offer \in Indices
    BY <2>1 DEF IsState, Indices
  <2>5. /\ IsState(mem', Indices) /\ mem'.seen = mem.seen
        /\ mem'.ready = ready /\ mem'.offer = offer
    BY <2>1, <2>2, <2>4 DEF IsState
  <2>6. Kept(st', final') /\ Kept(mem', final')
    BY <2>1, <2>3, <2>4, <2>5, StillKept
  <2>7. Indices' = Indices /\ ChannelOK'
    BY <2>1 DEF ChannelOK, Indices
  <2>8. CASE r \/ o
    <3>1. pc' = "housesave"
      BY <2>2, <2>8
    <3>2. NotBack(st, st') /\ NotBack(st', mem')
      BY <2>1, <2>5, BackNever DEF NotBack
    <3> QED
      BY <2>1, <2>3, <2>5, <2>6, <2>7, <3>1, <3>2 DEF Inv, AtRest, Unsaved, Downloading
  <2>9. CASE ~r /\ ~o
    <3>1. mem' = mem
      BY <2>1, <2>2, <2>9 DEF IsState
    <3> QED
      BY <2>1, <2>2, <2>3, <2>6, <2>7, <2>9, <3>1, Goes, SecondIs, BackNever
      DEF AtRest, Unsaved, Downloading
  <2> QED BY <2>8, <2>9
<1>4. CASE HousekeepingSave
  BY <1>4, Goes, SecondIs
  DEF HousekeepingSave, Save, channel, Inv, FinalOK, IsState, Indices, Kept, AtRest, Unsaved,
      Downloading
<1> QED BY <1>1, <1>2, <1>3, <1>4 DEF HouseNext

LEMMA CheckSafe == ASSUME Inv, CheckNext PROVE Inv' /\ NotBack(st, st')
<1>1. CASE Check
  <2> DEFINE i == served[chan]
  <2>1. /\ mem = st /\ IsState(st, Indices) /\ Kept(st, final) /\ ChannelOK /\ FinalOK
        /\ UNCHANGED <<published, served, chan, st>> /\ pc' = "checksave"
        /\ i # None /\ ~Refused(i) /\ mem' = Accepted(i)
        /\ final' = IF Discards(i) THEN [n \in Names |-> None] ELSE final
    BY <1>1 DEF Check, Inv, AtRest, Unsaved, channel
  <2> HIDE DEF i
  <2>2. i \in Indices /\ IsIndex(i)
    BY <2>1, Types DEF ChannelOK, i
  <2>3. FinalOK' /\ (\A n \in Names : final'[n] \in {final[n], None}) /\ Indices' = Indices
        /\ ChannelOK'
    BY <2>1 DEF FinalOK, Indices, ChannelOK
  <2>4. /\ mem'.seen = [mem.seen EXCEPT ![i.chan] = i]
        /\ mem'.offer = IF Offered(i) THEN i ELSE None
        /\ mem'.ready = IF Offered(i) /\ mem.ready # None /\ mem.ready.sha = i.sha
                         THEN mem.ready ELSE None
    BY <2>1 DEF Accepted, IsState
  <2>5. IsState(mem', Indices)
    <3>1. mem' = [seen |-> mem'.seen, offer |-> mem'.offer, ready |-> mem'.ready,
                  given |-> mem'.given, refetch |-> mem'.refetch,
                  installed |-> mem'.installed, error |-> mem'.error,
                  waiting |-> mem'.waiting] /\ mem'.waiting = mem.waiting
      BY <2>1 DEF Accepted, IsState
    <3> QED BY <2>1, <2>2, <2>4, <3>1 DEF IsState, Indices
  <2>6. Kept(st', final')
    BY <2>1, <2>3, StillKept DEF IsState
  <2>7. Kept(mem', final')
    BY <2>1, <2>4, <2>6 DEF Kept
  <2>8. NotBack(st', mem')
    <3>1. SUFFICES ASSUME NEW c \in Channels, st.seen[c] # None
                   PROVE  mem'.seen[c] = st.seen[c]
                          \/ (mem'.seen[c] # None /\ mem'.seen[c].serial > st.seen[c].serial)
      BY <2>1 DEF NotBack
    <3>2. st.seen[c] \in Indices /\ IsIndex(st.seen[c])
      BY <2>1, <3>1, Types DEF IsState
    <3>3. CASE c = i.chan
      BY <2>1, <2>2, <2>4, <3>1, <3>2, <3>3 DEF IsState, Refused, Same, IsIndex
    <3>4. CASE c # i.chan
      BY <2>1, <2>2, <2>4, <3>4 DEF IsState
    <3> QED BY <3>3, <3>4
  <2> QED
    BY <2>1, <2>3, <2>5, <2>6, <2>7, <2>8, BackNever DEF Inv, AtRest, Unsaved, Downloading
<1>2. CASE CheckFails
  <2>1. /\ UNCHANGED <<published, served, chan, final>> /\ pc' = "idle"
        /\ st' = st \/ st' = [st EXCEPT !.error = "check"]
    BY <1>2 DEF CheckFails, Noted, Save, Idle, channel
  <2>2. IsState([st EXCEPT !.error = "check"], Indices) /\ Alike([st EXCEPT !.error = "check"], st)
    BY Fields DEF Inv
  <2>3. IsState(st', Indices) /\ Alike(st', st)
    BY <2>1, <2>2 DEF Inv, Alike
  <2> QED
    BY <2>1, <2>3, Goes
    DEF Inv, FinalOK, IsState, Indices, Kept, Alike, NotBack, AtRest, Downloading
<1>3. CASE CheckSave
  <2>1. IsState(mem', Indices) /\ Alike(mem', mem) /\ st' = mem'
        /\ UNCHANGED <<published, served, chan, final>>
        /\ pc' \in {"dlstart", "ended"} /\ Kept(mem, final) /\ NotBack(st, mem)
    BY <1>3, Fields DEF CheckSave, Save, Inv, channel, AtRest
  <2> QED
    BY <2>1, Goes
    DEF Inv, FinalOK, IsState, Indices, Kept, Alike, NotBack, AtRest, Unsaved, Downloading
<1> QED BY <1>1, <1>2, <1>3 DEF CheckNext

-----------------------------------------------------------------------------
(***************************************************************************)
(* Downloads and installs, which remember nothing that is not saved.       *)
(***************************************************************************)
\* A step that drops files, saves a state that differs in nothing that
\* matters or drops the offer, and goes on from it, outside Unsaved.
LEMMA Carries ==
  ASSUME Inv, UNCHANGED <<published, served, chan>>, FinalOK',
         \A n \in Names : final'[n] \in {final[n], None},
         IsState(st', Indices), st'.seen = st.seen, st'.ready = st.ready,
         st'.offer \in {st.offer, None},
         pc' \in AtRest \/ (mem' = st' /\ pc' \notin Unsaved),
         pc' \in Downloading => mem'.offer # None,
         pc' = "dlverify" => final'[mem'.offer.name] = mem'.offer.sha
  PROVE  Inv' /\ NotBack(st, st')
<1>1. Kept(st', final')
  BY StillKept DEF Inv, IsState
<1>2. Indices' = Indices
  BY DEF Indices
<1> QED BY <1>1, <1>2, Goes DEF NotBack

LEMMA StartSafe == ASSUME Inv, DownloadStart PROVE Inv' /\ NotBack(st, st')
<1> DEFINE o == mem.offer
           whole == o # None /\ final[o.name] # None /\ final[o.name] = o.sha
<1>1. /\ mem = st /\ IsState(st, Indices) /\ ChannelOK /\ FinalOK
      /\ UNCHANGED <<published, served, chan>>
  BY DEF DownloadStart, Inv, AtRest, Unsaved, channel
<1>2. CASE o = None \/ Ready(mem)
  <2>1. /\ UNCHANGED final /\ pc' = "idle"
        /\ st' = st \/ st' = [st EXCEPT !.error = "none"]
    BY <1>1, <1>2 DEF DownloadStart, Save, Idle
  <2>2. IsState([st EXCEPT !.error = "none"], Indices) /\ Alike([st EXCEPT !.error = "none"], st)
    BY <1>1, Fields
  <2> QED BY <1>1, <2>1, <2>2, Carries DEF FinalOK, Alike, AtRest, Downloading
<1>3. CASE ~(o = None \/ Ready(mem))
  <2>1. /\ final' = [n \in Names |-> IF n = o.name /\ whole THEN final[n] ELSE None]
        /\ pc' = IF whole THEN "dlverify" ELSE "dlwindow"
        /\ UNCHANGED <<st, mem>>
    BY <1>3 DEF DownloadStart
  <2>2. o.name \in Names /\ o.sha \in Contents
    BY <1>1, <1>3, Types DEF IsState, IsIndex
  <2>3. FinalOK' /\ \A n \in Names : final'[n] \in {final[n], None}
    BY <1>1, <2>1 DEF FinalOK
  <2>4. pc' = "dlverify" => final'[mem'.offer.name] = mem'.offer.sha
    BY <2>1, <2>2
  <2> QED BY <1>1, <1>3, <2>1, <2>3, <2>4, Carries DEF AtRest, Unsaved, Downloading
<1> QED BY <1>2, <1>3

LEMMA WindowSafe ==
  ASSUME Inv, DownloadStops \/ Window \/ WindowRefused \/ WindowWasted \/ Refetch
  PROVE  Inv' /\ NotBack(st, st')
<1>1. /\ mem = st /\ IsState(st, Indices) /\ ChannelOK /\ FinalOK /\ mem.offer # None
      /\ UNCHANGED <<published, served, chan, final>> /\ st.waiting \in BOOLEAN
  BY DEF DownloadStops, Window, WindowRefused, WindowWasted, Refetch, Inv, AtRest, Unsaved,
         Downloading, IsState, channel
<1>2. FinalOK' /\ \A n \in Names : final'[n] \in {final[n], None}
  BY <1>1 DEF FinalOK
<1>3. CASE DownloadStops
  <2>1. PICK w \in {st.waiting, TRUE} : st' = [mem EXCEPT !.waiting = w]
    BY <1>3 DEF DownloadStops, Save
  <2>2. IsState(st', Indices) /\ Alike(st', st)
    BY <1>1, <2>1, Fields
  <2>3. pc' = "idle"
    BY <1>3 DEF DownloadStops, Idle
  <2> QED BY <1>1, <1>2, <2>2, <2>3, Carries DEF AtRest, Downloading, Alike
<1>4. CASE Window
  <2>1. mem' = [mem EXCEPT !.waiting = FALSE] /\ pc' = "dlwindow"
        /\ st' = IF mem.waiting THEN mem' ELSE st
    BY <1>4 DEF Window, Save
  <2>2. IsState(mem', Indices) /\ Alike(mem', st)
    BY <1>1, <2>1, Fields
  <2>3. ~mem.waiting => mem' = mem
    BY <1>1, <2>1 DEF IsState
  <2>4. st' = mem'
    BY <1>1, <2>1, <2>3
  <2> QED
    BY <1>1, <1>2, <2>1, <2>2, <2>4, Carries DEF AtRest, Unsaved, Downloading, Alike
<1>5. CASE WindowRefused
  <2>1. st' = [st EXCEPT !.error = "download"] /\ pc' = "idle"
    BY <1>5 DEF WindowRefused, Noted, Save, Idle
  <2>2. IsState(st', Indices) /\ Alike(st', st)
    BY <1>1, <2>1, Fields
  <2> QED BY <1>1, <1>2, <2>1, <2>2, Carries DEF AtRest, Downloading, Alike
<1>6. CASE WindowWasted
  BY <1>1, <1>2, <1>6, Carries DEF WindowWasted, AtRest, Unsaved, Downloading
<1>7. CASE Refetch
  <2> DEFINE c == mem.offer.sha
             more == [mem EXCEPT !.refetch[c] = @ + 1]
             over == GivenUp([mem EXCEPT !.refetch[c] = MaxRefetch + 1])
  <2>1. \/ st' = over /\ pc' = "idle"
        \/ mem' = more /\ st' = more /\ pc' = "dlwindow"
    BY <1>7 DEF Refetch, Save, Idle
  <2>2. IsState(more, Indices) /\ Alike(more, st)
    BY <1>1 DEF IsState, Alike
  <2>3. IsState(over, Indices) /\ over.seen = st.seen /\ over.ready = st.ready
        /\ over.offer = None
    <3> DEFINE s == [mem EXCEPT !.refetch[c] = MaxRefetch + 1]
    <3>1. IsState(s, Indices) /\ Alike(s, st)
      BY <1>1 DEF IsState, Alike
    <3>2. over = GivenUp(s) /\ None \in Indices
      BY DEF Indices
    <3> HIDE DEF s, over
    <3> QED BY <3>1, <3>2, GiveUpIs DEF Alike
  <2> HIDE DEF more, over
  <2>4. CASE st' = over /\ pc' = "idle"
    BY <1>1, <1>2, <2>3, <2>4, Carries DEF AtRest, Downloading
  <2>5. CASE mem' = more /\ st' = more /\ pc' = "dlwindow"
    BY <1>1, <1>2, <2>2, <2>5, Carries DEF AtRest, Unsaved, Downloading, Alike
  <2> QED BY <2>1, <2>4, <2>5
<1> QED BY <1>3, <1>4, <1>5, <1>6, <1>7

LEMMA FinishSafe ==
  ASSUME Inv, OtaAssumption, DownloadComplete \/ DownloadVerify \/ DownloadGiveUp
  PROVE  Inv' /\ NotBack(st, st')
<1> DEFINE o == mem.offer
<1>1. /\ mem = st /\ IsState(st, Indices) /\ ChannelOK /\ FinalOK /\ Kept(st, final)
      /\ o # None /\ UNCHANGED <<published, served, chan>>
  BY DEF DownloadComplete, DownloadVerify, DownloadGiveUp, Inv, AtRest, Unsaved,
         Downloading, channel
<1>2. o \in Indices /\ o.name \in Names /\ o.sha \in Contents
  BY <1>1, Types DEF IsState, IsIndex
<1>3. CASE DownloadComplete
  <2>1. CASE Complete(part[o.name], o)
    <3>1. final' = [final EXCEPT ![o.name] = o.sha] /\ pc' = "dlverify" /\ UNCHANGED <<st, mem>>
      BY <1>3, <2>1 DEF DownloadComplete, Complete
    <3>2. FinalOK' /\ final'[o.name] = o.sha
      BY <1>1, <1>2, <3>1 DEF FinalOK
    <3>3. Kept(st', final')
      <4>1. SUFFICES ASSUME st.ready # None, final'[st.ready.name] # None
                     PROVE  final'[st.ready.name] = st.ready.sha
        BY <1>1, <3>1 DEF Kept
      <4>2. st.ready.name \in Names
        BY <1>1, <4>1, Types DEF IsState, IsIndex
      <4> QED BY <1>1, <1>2, <3>1, <4>1, <4>2 DEF Kept, FinalOK
    <3> QED
      BY <1>1, <3>1, <3>2, <3>3, Goes, BackNever DEF Indices, AtRest, Unsaved, Downloading
  <2>2. CASE ~Complete(part[o.name], o)
    BY <1>1, <1>3, <2>2, Carries
    DEF DownloadComplete, FinalOK, AtRest, Unsaved, Downloading
  <2> QED BY <2>1, <2>2
<1>4. CASE DownloadVerify
  <2>1. final[o.name] = o.sha
    BY <1>4 DEF Inv, DownloadVerify
  <2>2. CASE Sound(o)
    <3> DEFINE e == IF mem.error = "download" THEN "none" ELSE mem.error
    <3>1. st' = [mem EXCEPT !.ready = o, !.error = e] /\ pc' = "idle" /\ UNCHANGED final
      BY <1>4, <2>2 DEF DownloadVerify, Save, Idle
    <3> HIDE DEF e
    <3>2. IsState(st', Indices) /\ st'.seen = st.seen /\ st'.offer = o /\ st'.ready = o
      BY <1>1, <1>2, <3>1 DEF IsState
    <3>3. Kept(st', final')
      BY <2>1, <2>2, <3>1, <3>2 DEF Kept, Sound
    <3> QED
      BY <1>1, <3>1, <3>2, <3>3, Goes DEF FinalOK, Indices, NotBack, AtRest, Downloading
  <2>3. CASE ~Sound(o)
    <3>1. final' = [final EXCEPT ![o.name] = None] /\ pc' = "dlgiveup" /\ UNCHANGED <<st, mem>>
      BY <1>4, <2>3 DEF DownloadVerify
    <3>2. FinalOK' /\ \A n \in Names : final'[n] \in {final[n], None}
      BY <1>1, <3>1 DEF FinalOK
    <3> QED BY <1>1, <3>1, <3>2, Carries DEF AtRest, Unsaved, Downloading
  <2> QED BY <2>2, <2>3
<1>5. CASE DownloadGiveUp
  <2>1. st' = GivenUp(mem) /\ pc' = "idle" /\ UNCHANGED final
    BY <1>5 DEF DownloadGiveUp, Save, Idle
  <2>2. IsState(st', Indices) /\ st'.seen = st.seen /\ st'.ready = st.ready /\ st'.offer = None
    BY <1>1, <2>1, GiveUpIs DEF Indices
  <2> QED BY <1>1, <2>1, <2>2, Carries DEF FinalOK, AtRest, Downloading
<1> QED BY <1>3, <1>4, <1>5

LEMMA InstallSafe == ASSUME Inv, InstallNext PROVE Inv' /\ NotBack(st, st')
<1>1. CASE Resolve \/ RaucRefuses
  BY <1>1, Apart DEF Resolve, RaucRefuses, Idle, AtRest, channel, disk
<1>2. CASE UNCHANGED <<st, mem, pc>> /\ (UnitStarts \/ StreamStarts)
  BY <1>2, Apart DEF UnitStarts, StreamStarts, channel
<1>3. CASE StreamStarts /\ Idle /\ UNCHANGED st
  BY <1>3, Apart DEF StreamStarts, Idle, AtRest, channel
<1>4. ASSUME NEW s, s = st, mem' = [s EXCEPT !.installed = None], st' = mem',
             pc' = "rauc", UNCHANGED <<published, served, chan, final>>
      PROVE  Inv' /\ NotBack(st, st')
  <2>1. IsState(st', Indices) /\ Alike(st', st)
    BY <1>4, Fields DEF Inv
  <2> QED BY <1>4, <2>1, Carries DEF Inv, FinalOK, AtRest, Unsaved, Downloading, Alike
<1>5. CASE (UnitStarts \/ StreamStarts) /\ pc' = "rauc" /\ st' = mem'
  <2>1. mem' = [st EXCEPT !.installed = None]
    BY <1>5 DEF UnitStarts, StreamStarts, Inv, AtRest, Unsaved, Idle
  <2> QED BY <1>4, <1>5, <2>1 DEF UnitStarts, StreamStarts, channel
<1>6. CASE RaucWrites \/ RaucEnds
  <2>1. /\ mem = st /\ UNCHANGED <<st, final, published, served, chan>>
        /\ pc' = "idle" \/ (pc' \in {"writing", "remember"} /\ mem' = mem)
    BY <1>6 DEF RaucWrites, RaucEnds, Idle, Inv, AtRest, Unsaved, channel, disk
  <2> QED BY <2>1, Carries DEF Inv, FinalOK, AtRest, Unsaved, Downloading
<1>7. CASE Remember
  <2>1. mem = st /\ UNCHANGED <<final, published, served, chan>> /\ pc' = "idle"
        /\ st' = [mem EXCEPT !.installed = [ver |-> other.ver]]
    BY <1>7 DEF Remember, Save, Idle, Inv, AtRest, Unsaved, channel
  <2>2. IsState(st', Indices) /\ Alike(st', st)
    BY <2>1, Fields DEF Inv
  <2> QED BY <2>1, <2>2, Carries DEF Inv, FinalOK, AtRest, Downloading, Alike
<1>8. CASE UnitStarts \/ StreamStarts
  BY <1>2, <1>3, <1>5, <1>8 DEF UnitStarts, StreamStarts, Save
<1> QED BY <1>1, <1>6, <1>7, <1>8 DEF InstallNext

-----------------------------------------------------------------------------
LEMMA InvInit == OtaAssumption /\ Init => Inv
<1> SUFFICES ASSUME Init PROVE Inv
  OBVIOUS
<1>1. ChannelOK /\ FinalOK
  BY FS_EmptySet DEF Init, ChannelOK, FinalOK, Indices
<1>2. IsState(st, Indices) /\ Kept(st, final)
  BY DEF Init, EmptyState, IsState, Kept, Indices
<1> QED BY <1>1, <1>2 DEF Init, Inv, AtRest, Unsaved, Downloading

LEMMA InvNext == OtaAssumption /\ Inv /\ [Next]_vars => Inv' /\ NotBack(st, st')
<1> SUFFICES ASSUME OtaAssumption, Inv, [Next]_vars PROVE Inv' /\ NotBack(st, st')
  OBVIOUS
<1>1. CASE UNCHANGED vars
  BY <1>1, Apart DEF vars, channel, disk, proc
<1>2. CASE \E c \in Channels : \E o \in Offers : Publish(c, o)
  BY <1>2, PublishSafe
<1>3. CASE DownloadNext
  BY <1>3, StartSafe, WindowSafe, FinishSafe DEF DownloadNext
<1> QED BY <1>1, <1>2, <1>3, OutsideSafe, RunSafe, CheckSafe, HouseSafe, InstallSafe DEF Next

\* However often boat-update is killed and whatever the channel serves, each
\* index accepted of a channel is the same as the one before or newer.
THEOREM NeverBack == Spec => NoReplay
<1>1. OtaAssumption /\ Init => Inv
  BY InvInit
<1>2. OtaAssumption /\ Inv /\ [Next]_vars => Inv'
  BY InvNext
<1>3. OtaAssumption /\ Inv /\ [Next]_vars =>
        [\A c \in Channels : st.seen[c] # None =>
           st'.seen[c] = st.seen[c]
           \/ (st'.seen[c] # None /\ st'.seen[c].serial > st.seen[c].serial)]_vars
  BY InvNext DEF NotBack
<1> QED BY <1>1, <1>2, <1>3, OtaAssumption, PTL DEF Spec, NoReplay

\* Whatever write a kill came after, what is recorded ready and is there is
\* whole, sound, and the file its index named.
THEOREM ReadyStaysWhole == Spec => []ReadyIsWhole
<1>1. OtaAssumption /\ Init => Inv
  BY InvInit
<1>2. OtaAssumption /\ Inv /\ [Next]_vars => Inv'
  BY InvNext
<1>3. Inv => ReadyIsWhole
  BY DEF Inv, Kept, ReadyIsWhole, Ready, Sound
<1> QED BY <1>1, <1>2, <1>3, OtaAssumption, PTL DEF Spec

-----------------------------------------------------------------------------
(***************************************************************************)
(* What is installed.  The publisher reads a release's version from its    *)
(* bundle, so an index never says another.  Between the wrapper's answer   *)
(* and the unit's run, checks and downloads may come and go: they leave    *)
(* under the file's name what is on offer then, or nothing.                *)
(***************************************************************************)
Truthful == \A o \in Offers : o.sha.ver = o.ver

OtherSlots == [ver : Nat, ok : BOOLEAN, first : BOOLEAN, tried : BOOLEAN, com : BOOLEAN,
               whole : BOOLEAN]

Current(s) == s.offer # None => s.seen[s.offer.chan] = s.offer
Wanted(s)  == s.offer # None => ~NoLongerWanted(s.offer.ver)

\* No trial has ended that trial_outcome has yet to find.
Settled == st.installed # None => other.com \/ (other.ok /\ ~other.tried)

\* An install of the file n, if it is there, is an install of what s offers.
Fits(s, n) ==
  /\ Wanted(s)
  /\ final[n] # None => s.offer # None /\ final[n] = s.offer.sha

KnownOK ==
  /\ rel \in Nat /\ other \in OtherSlots
  /\ \A i \in published : i.ver \in Nat /\ i.sha.ver = i.ver
  /\ Current(st)
  /\ pc \notin AtRest => Current(mem) /\ mem.installed = st.installed

AloneOK ==
  /\ pc \in {"dlwindow", "dlrefetch", "dlgiveup"} => \A n \in Names : final[n] = None
  /\ pc = "dlverify" => \A n \in Names \ {mem.offer.name} : final[n] = None

WantOK ==
  want # None =>
    /\ want.name \in Names /\ Settled /\ Fits(st, want.name)
    /\ pc \notin AtRest => Fits(mem, want.name)

StepOK ==
  /\ pc = "stream" => goal = "stream"
  /\ pc \in {"house", "housesave", "resolve"} => Settled
  /\ pc \in {"housesave", "resolve", "stream"} => Wanted(mem)
  /\ pc \in {"rauc", "writing"} => st.installed = None
  /\ pc = "rauc" => /\ st.offer # None /\ Wanted(st)
                    /\ goal # "stream" => final[goal] = st.offer.sha
  /\ pc \in {"writing", "remember"} => ~other.tried
  /\ pc = "remember" => other.ok

OfferInv == KnownOK /\ AloneOK /\ WantOK /\ StepOK /\ InstallsTheOffer

\* A step outside the board.
LEMMA OfferOutside ==
  ASSUME OfferInv, UNCHANGED <<st, mem, pc, goal, want, final, rel, other, failed, wrote>>,
         \A i \in published' : i.ver \in Nat /\ i.sha.ver = i.ver
  PROVE  OfferInv'
<1>1. KnownOK'
  BY DEF OfferInv, KnownOK, Current, AtRest
<1>2. AloneOK' /\ WantOK'
  BY DEF OfferInv, AloneOK, WantOK, Settled, Fits, Wanted, NoLongerWanted, AtRest
<1>3. StepOK' /\ InstallsTheOffer'
  BY DEF OfferInv, StepOK, Settled, Wanted, NoLongerWanted, InstallsTheOffer
<1> QED BY <1>1, <1>2, <1>3 DEF OfferInv

\* A step of a run that goes on, or ends, from what it has just saved.
LEMMA OfferGoes ==
  ASSUME OfferInv, UNCHANGED <<published, rel, other, failed, wrote>>,
         want' \in {want, None}, Current(st)', st'.installed \in {st.installed, None},
         want' # None => Fits(st, want.name)',
         pc' \in AtRest \/ mem' = st', AloneOK', StepOK'
  PROVE  OfferInv'
<1>1. KnownOK'
  BY DEF OfferInv, KnownOK, Current
<1>2. ASSUME want' # None PROVE Settled' /\ want'.name \in Names
  BY <1>2 DEF OfferInv, WantOK, Settled
<1>3. ASSUME want' # None, pc' \notin AtRest PROVE Fits(mem, want.name)'
  BY <1>3 DEF Fits, Wanted
<1>4. WantOK'
  BY <1>2, <1>3 DEF WantOK
<1> QED BY <1>1, <1>4 DEF OfferInv, InstallsTheOffer

\* One that leaves the offer alone.
LEMMA OfferStays ==
  ASSUME OfferInv, UNCHANGED <<published, rel, other, failed, wrote>>,
         want' \in {want, None}, st'.seen = st.seen, st'.offer = st.offer,
         st'.installed \in {st.installed, None},
         \A n \in Names : final'[n] \in {final[n], None},
         pc' \in AtRest \/ mem' = st', AloneOK', StepOK'
  PROVE  OfferInv'
<1>1. Current(st)'
  BY DEF OfferInv, KnownOK, Current
<1>2. want' # None => Fits(st, want.name)'
  BY DEF OfferInv, WantOK, Fits, Wanted, NoLongerWanted
<1> QED BY <1>1, <1>2, OfferGoes

\* Where a run that has just begun or is over may be.
LEMMA Nowhere ==
  ASSUME pc' \in AtRest \cup {"check", "dlstart", "trial", "trialsave", "ended"}
  PROVE  AloneOK' /\ StepOK'
  BY DEF AloneOK, StepOK, AtRest

LEMMA OfferOfRun ==
  ASSUME Inv, OfferInv,
         (\E v \in Verbs : Start(v)) \/ Killed \/ Recovers \/ Trial \/ Rollback
  PROVE  OfferInv'
<1>1. CASE (\E v \in Verbs : Start(v)) \/ Killed \/ Recovers
  <2>1. /\ pc' \in AtRest \/ (mem' = st' /\ pc' \in {"check", "dlstart", "trial"})
        /\ UNCHANGED <<published, rel, other, failed, wrote, want, st, final>>
    BY <1>1 DEF Start, First, Killed, Recovers, Idle, AtRest, channel, disk, board
  <2>2. AloneOK' /\ StepOK'
    BY <2>1, Nowhere
  <2> QED BY <2>1, <2>2, OfferStays
<1>2. CASE Trial \/ Rollback
  <2>1. /\ want' = None /\ pc' \in AtRest
        /\ UNCHANGED <<published, st, wrote>>
    BY <1>2 DEF Trial, Rollback, Idle, AtRest, channel, disk
  <2>2. rel' \in Nat /\ other' \in OtherSlots
    <3>1. /\ rel' \in {rel, other.ver}
          /\ other' \in {[OlderSlot EXCEPT !.ver = rel], [other EXCEPT !.ok = FALSE],
                         [other EXCEPT !.tried = TRUE]}
      BY <1>2 DEF Trial, Rollback
    <3> QED BY <3>1 DEF OfferInv, KnownOK, OtherSlots, OlderSlot
  <2>3. AloneOK' /\ StepOK'
    BY <2>1, Nowhere
  <2> QED
    BY <2>1, <2>2, <2>3 DEF OfferInv, KnownOK, WantOK, Current, InstallsTheOffer
<1> QED BY <1>1, <1>2

-----------------------------------------------------------------------------
LEMMA OfferOfHouse == ASSUME Inv, OfferInv, HouseNext PROVE OfferInv'
<1>1. CASE TrialOutcome
  <2>1. /\ mem = st /\ mem' = mem
        /\ UNCHANGED <<published, st, final, want, rel, other, wrote>>
        /\ IF EndedSilently
             THEN pc' = "trialsave"
             ELSE failed' = failed
                  /\ pc' = IF mem.installed # None /\ other.com THEN "trialsave" ELSE "house"
    BY <1>1 DEF TrialOutcome, Inv, AtRest, Unsaved, channel, board
  <2>2. AloneOK' /\ StepOK'
    BY <2>1 DEF AloneOK, StepOK, EndedSilently, Settled
  <2>3. CASE ~EndedSilently
    BY <2>1, <2>2, <2>3, OfferStays
  <2>4. CASE EndedSilently
    <3>1. want = None
      BY <2>1, <2>4 DEF OfferInv, WantOK, EndedSilently, Settled
    <3> QED
      BY <2>1, <2>2, <3>1 DEF OfferInv, KnownOK, WantOK, Current, InstallsTheOffer
  <2> QED BY <2>3, <2>4
<1>2. CASE TrialSave
  <2>1. /\ st' = [st EXCEPT !.installed = None] /\ mem' = st' /\ pc' = "house"
        /\ UNCHANGED <<published, rel, other, failed, wrote, want, final>>
    BY <1>2 DEF TrialSave, Save, Inv, AtRest, Unsaved, channel, board
  <2>2. st'.seen = st.seen /\ st'.offer = st.offer /\ st'.installed = None
    BY <2>1 DEF Inv, IsState
  <2>3. AloneOK' /\ StepOK'
    BY <2>1, <2>2 DEF AloneOK, StepOK, Settled
  <2> QED BY <2>1, <2>2, <2>3, OfferStays
<1>3. CASE Ends
  <2>1. pc' \in AtRest /\ UNCHANGED <<published, rel, other, failed, wrote, want, st, final>>
    BY <1>3 DEF Ends, Idle, AtRest, channel, disk, board
  <2> QED BY <2>1, Nowhere, OfferStays
<1>4. CASE Housekeeping
  <2> DEFINE r == mem.ready # None /\ NoLongerWanted(mem.ready.ver)
             o == mem.offer # None /\ NoLongerWanted(mem.offer.ver)
             ready == IF r THEN None ELSE mem.ready
             offer == IF o THEN None ELSE mem.offer
  <2>1. /\ mem = st /\ IsState(st, Indices)
        /\ UNCHANGED <<published, st, failed, want, rel, other, wrote>>
        /\ Settled
    BY <1>4
    DEF Housekeeping, Inv, OfferInv, StepOK, AtRest, Unsaved, channel, board
  <2>2. /\ final' = IF r THEN [final EXCEPT ![mem.ready.name] = None] ELSE final
        /\ mem' = [mem EXCEPT !.ready = ready, !.offer = offer]
        /\ IF r \/ o THEN pc' = "housesave" ELSE pc' \in Second
    BY <1>4 DEF Housekeeping
  <2>3. o => want = None
    BY <2>1 DEF OfferInv, WantOK, Fits, Wanted
  <2>4. mem'.offer = offer /\ mem'.seen = mem.seen /\ mem'.installed = mem.installed
    BY <2>1, <2>2 DEF IsState
  <2>5. mem'.offer # None => ~NoLongerWanted(mem'.offer.ver)
    BY <2>4
  <2> HIDE DEF r, o
  <2>6. \A n \in Names : final'[n] \in {final[n], None}
    BY <2>2 DEF Inv, FinalOK
  <2>7. /\ pc' \in {"housesave", "check", "ended", "dlstart", "resolve", "stream"}
        /\ pc' = "stream" => goal' = "stream"
    BY <1>4, <2>2, SecondIs DEF Housekeeping
  <2>8. Wanted(mem)'
    BY <2>1, <2>5 DEF Wanted, NoLongerWanted
  <2>9. AloneOK' /\ StepOK'
    BY <2>1, <2>7, <2>8 DEF AloneOK, StepOK, Settled
  <2>10. Current(mem)' /\ Current(st)'
    BY <2>1, <2>4 DEF OfferInv, KnownOK, Current
  <2>11. KnownOK'
    BY <2>1, <2>4, <2>10 DEF OfferInv, KnownOK
  <2>12. ASSUME want' # None PROVE Fits(st, want.name)' /\ Fits(mem, want.name)'
    BY <2>1, <2>3, <2>4, <2>6, <2>12 DEF OfferInv, WantOK, Fits, Wanted, NoLongerWanted
  <2>13. WantOK'
    BY <2>1, <2>12 DEF OfferInv, WantOK, Settled
  <2> QED BY <2>1, <2>9, <2>11, <2>13 DEF OfferInv, InstallsTheOffer
<1>5. CASE HousekeepingSave
  <2>1. /\ st' = mem /\ mem' = mem
        /\ UNCHANGED <<published, rel, other, failed, wrote, want, final>>
        /\ pc' \in {"check", "ended", "dlstart", "resolve", "stream"}
        /\ pc' = "stream" => goal' = "stream"
        /\ Current(mem) /\ Wanted(mem) /\ Settled /\ mem.installed = st.installed
        /\ want # None => Fits(mem, want.name)
    BY <1>5, SecondIs
    DEF HousekeepingSave, Save, channel, board, OfferInv, KnownOK, WantOK, StepOK, AtRest
  <2>2. Current(st)'
    BY <2>1 DEF Current
  <2>3. AloneOK' /\ StepOK'
    BY <2>1 DEF AloneOK, StepOK, Settled, Wanted, NoLongerWanted
  <2>4. want' # None => Fits(st, want.name)'
    BY <2>1 DEF Fits, Wanted, NoLongerWanted
  <2> QED BY <2>1, <2>2, <2>3, <2>4, OfferGoes
<1> QED BY <1>1, <1>2, <1>3, <1>4, <1>5 DEF HouseNext

LEMMA OfferOfCheck == ASSUME Inv, OfferInv, CheckNext PROVE OfferInv'
<1>1. CASE Check
  <2> DEFINE i == served[chan]
  <2>1. /\ mem = st /\ IsState(st, Indices) /\ ChannelOK /\ pc \notin AtRest
        /\ UNCHANGED <<published, st, failed, want, rel, other, wrote>> /\ pc' = "checksave"
        /\ i # None /\ mem' = Accepted(i)
        /\ final' = IF Discards(i) THEN [n \in Names |-> None] ELSE final
    BY <1>1 DEF Check, Inv, AtRest, Unsaved, channel, board
  <2> HIDE DEF i
  <2>2. IsIndex(i)
    BY <2>1, Types DEF ChannelOK, i
  <2>3. /\ mem'.seen = [mem.seen EXCEPT ![i.chan] = i]
        /\ mem'.offer = IF Offered(i) THEN i ELSE None
        /\ mem'.installed = mem.installed
    BY <2>1 DEF Accepted, IsState
  <2>4. AloneOK' /\ StepOK'
    BY <2>1 DEF AloneOK, StepOK
  <2>5. Current(mem)' /\ Current(st)'
    BY <2>1, <2>2, <2>3 DEF Current, IsState, IsIndex, OfferInv, KnownOK
  <2>6. KnownOK'
    BY <2>1, <2>3, <2>5 DEF OfferInv, KnownOK
  <2>7. ASSUME want' # None PROVE Fits(st, want.name)' /\ Fits(mem, want.name)'
    <3>1. want.name \in Names /\ Fits(st, want.name)
      BY <2>1, <2>7 DEF OfferInv, WantOK
    <3>2. Wanted(st)' /\ Wanted(mem)'
      BY <2>1, <2>3, <3>1 DEF Fits, Wanted, Offered, NoLongerWanted
    <3>3. CASE Discards(i)
      BY <2>1, <3>1, <3>2, <3>3 DEF Fits
    <3>4. CASE ~Discards(i)
      <4>1. final' = final /\ st'.offer = st.offer /\ mem'.offer = i /\ i.sha = st.offer.sha
        BY <2>1, <2>3, <3>4 DEF Discards
      <4> QED BY <2>1, <3>1, <3>2, <4>1 DEF Fits
    <3> QED BY <3>3, <3>4
  <2>8. WantOK'
    BY <2>1, <2>7 DEF OfferInv, WantOK, Settled
  <2> QED BY <2>1, <2>4, <2>6, <2>8 DEF OfferInv, InstallsTheOffer
<1>2. CASE CheckFails
  <2>1. /\ UNCHANGED <<published, final, failed, want, rel, other, wrote>> /\ pc' = "idle"
        /\ st' = st \/ st' = [st EXCEPT !.error = "check"]
    BY <1>2 DEF CheckFails, Noted, Save, Idle, channel, board
  <2>2. st'.seen = st.seen /\ st'.offer = st.offer /\ st'.installed = st.installed
    BY <2>1 DEF Inv, IsState
  <2> QED BY <2>1, <2>2, Nowhere, OfferStays DEF AtRest
<1>3. CASE CheckSave
  <2>1. /\ st' = mem' /\ pc' \in {"dlstart", "ended"}
        /\ UNCHANGED <<published, final, failed, want, rel, other, wrote>>
        /\ Current(mem) /\ mem.installed = st.installed
        /\ want # None => Fits(mem, want.name)
    BY <1>3
    DEF CheckSave, Save, channel, board, OfferInv, KnownOK, WantOK, AtRest
  <2>2. st'.seen = mem.seen /\ st'.offer = mem.offer /\ st'.installed = mem.installed
    <3>1. IsState(mem, Indices)
      BY <1>3 DEF Inv, CheckSave, AtRest
    <3> QED BY <1>3, <2>1, <3>1 DEF CheckSave, IsState
  <2>3. Current(st)'
    BY <2>1, <2>2 DEF Current
  <2>4. want' # None => Fits(st, want.name)'
    BY <2>1, <2>2 DEF Fits, Wanted, NoLongerWanted
  <2>5. AloneOK' /\ StepOK'
    BY <2>1, Nowhere
  <2> QED BY <2>1, <2>2, <2>3, <2>4, <2>5, OfferGoes
<1> QED BY <1>1, <1>2, <1>3 DEF CheckNext

-----------------------------------------------------------------------------
LEMMA OfferOfStart == ASSUME Inv, OfferInv, DownloadStart PROVE OfferInv'
<1> DEFINE o == mem.offer
           whole == o # None /\ final[o.name] # None /\ final[o.name] = o.sha
<1>1. /\ mem = st /\ IsState(st, Indices) /\ ChannelOK /\ FinalOK
      /\ UNCHANGED <<published, failed, want, rel, other, wrote>>
  BY DEF DownloadStart, Inv, AtRest, Unsaved, channel, board
<1>2. CASE o = None \/ Ready(mem)
  <2>1. /\ UNCHANGED final /\ pc' = "idle"
        /\ st' = st \/ st' = [st EXCEPT !.error = "none"]
    BY <1>1, <1>2 DEF DownloadStart, Save, Idle
  <2>2. st'.seen = st.seen /\ st'.offer = st.offer /\ st'.installed = st.installed
    BY <1>1, <2>1 DEF IsState
  <2> QED BY <1>1, <2>1, <2>2, Nowhere, OfferStays DEF AtRest
<1>3. CASE ~(o = None \/ Ready(mem))
  <2>1. /\ final' = [n \in Names |-> IF n = o.name /\ whole THEN final[n] ELSE None]
        /\ pc' = IF whole THEN "dlverify" ELSE "dlwindow"
        /\ UNCHANGED <<st, mem>>
    BY <1>3 DEF DownloadStart
  <2> HIDE DEF whole
  <2>2. \A n \in Names : final'[n] \in {final[n], None}
    BY <2>1
  <2>3. AloneOK' /\ StepOK'
    BY <2>1 DEF AloneOK, StepOK
  <2> QED BY <1>1, <2>1, <2>2, <2>3, OfferStays
<1> QED BY <1>2, <1>3

LEMMA OfferOfWindow ==
  ASSUME Inv, OfferInv, DownloadStops \/ Window \/ WindowRefused \/ WindowWasted
  PROVE  OfferInv'
<1>1. /\ mem = st /\ IsState(st, Indices) /\ pc = "dlwindow"
      /\ UNCHANGED <<published, final, failed, want, rel, other, wrote>>
  BY DEF DownloadStops, Window, WindowRefused, WindowWasted, Inv, AtRest, Unsaved, channel,
         board
<1>2. /\ st'.seen = st.seen /\ st'.offer = st.offer /\ st'.installed = st.installed
      /\ pc' = "idle" \/ (mem' = st' /\ pc' \in {"dlwindow", "dlrefetch"})
  <2>1. CASE DownloadStops \/ WindowRefused \/ WindowWasted
    BY <1>1, <2>1 DEF DownloadStops, WindowRefused, WindowWasted, Noted, Save, Idle, IsState
  <2>2. CASE Window
    <3>1. mem' = [mem EXCEPT !.waiting = FALSE] /\ pc' = "dlwindow"
          /\ st' = IF mem.waiting THEN mem' ELSE st
      BY <2>2 DEF Window, Save
    <3>2. ~mem.waiting => mem' = mem
      BY <1>1, <3>1 DEF IsState
    <3> QED BY <1>1, <3>1, <3>2 DEF IsState
  <2> QED BY <2>1, <2>2
<1>3. AloneOK' /\ StepOK'
  BY <1>1, <1>2 DEF OfferInv, AloneOK, StepOK
<1> QED BY <1>1, <1>2, <1>3, OfferStays DEF AtRest

\* A run that ends by giving up: there is nothing left to install.
LEMMA OfferOver ==
  ASSUME Inv, OfferInv, UNCHANGED <<published, final, failed, want, rel, other, wrote>>,
         pc \in {"dlrefetch", "dlgiveup"}, pc' = "idle",
         st'.offer = None, st'.installed = st.installed
  PROVE  OfferInv'
<1>1. Current(st)'
  BY DEF Current
<1>2. want' # None => Fits(st, want.name)'
  BY DEF OfferInv, WantOK, AloneOK, Fits, Wanted
<1> QED BY <1>1, <1>2, Nowhere, OfferGoes DEF AtRest

LEMMA OfferOfRefetch ==
  ASSUME Inv, OfferInv, Refetch \/ DownloadGiveUp
  PROVE  OfferInv'
<1>1. /\ mem = st /\ IsState(st, Indices) /\ pc \in {"dlrefetch", "dlgiveup"}
      /\ UNCHANGED <<published, final, failed, want, rel, other, wrote>>
  BY DEF Refetch, DownloadGiveUp, Inv, AtRest, Unsaved, channel, board
<1>2. CASE DownloadGiveUp
  <2>1. st' = GivenUp(mem) /\ pc' = "idle"
    BY <1>2 DEF DownloadGiveUp, Save, Idle
  <2>2. st'.offer = None /\ st'.installed = st.installed
    BY <1>1, <2>1 DEF GivenUp, IsState
  <2> QED BY <1>1, <2>1, <2>2, OfferOver
<1>3. CASE Refetch
  <2> DEFINE c == mem.offer.sha
             more == [mem EXCEPT !.refetch[c] = @ + 1]
             over == GivenUp([mem EXCEPT !.refetch[c] = MaxRefetch + 1])
  <2>1. \/ st' = over /\ pc' = "idle"
        \/ mem' = more /\ st' = more /\ pc' = "dlwindow"
    BY <1>3 DEF Refetch, Save, Idle
  <2>2. more.seen = st.seen /\ more.offer = st.offer /\ more.installed = st.installed
    BY <1>1 DEF IsState
  <2>3. over.offer = None /\ over.installed = st.installed
    BY <1>1 DEF GivenUp, IsState
  <2> HIDE DEF more, over
  <2>4. CASE st' = over /\ pc' = "idle"
    BY <1>1, <2>3, <2>4, OfferOver
  <2>5. CASE mem' = more /\ st' = more /\ pc' = "dlwindow"
    <3>1. AloneOK' /\ StepOK'
      BY <1>1, <2>5 DEF OfferInv, AloneOK, StepOK
    <3> QED BY <1>1, <2>2, <2>5, <3>1, OfferStays
  <2> QED BY <2>1, <2>4, <2>5
<1> QED BY <1>2, <1>3

LEMMA OfferOfFinish ==
  ASSUME Inv, OfferInv, DownloadComplete \/ DownloadVerify
  PROVE  OfferInv'
<1> DEFINE o == mem.offer
<1>1. /\ mem = st /\ IsState(st, Indices) /\ ChannelOK /\ FinalOK /\ o # None
      /\ UNCHANGED <<published, failed, want, rel, other, wrote>>
  BY DEF DownloadComplete, DownloadVerify, Inv, AtRest, Unsaved, Downloading, channel, board
<1>2. o.name \in Names
  BY <1>1, Types DEF IsState, IsIndex
<1>3. CASE DownloadComplete /\ Complete(part[o.name], o)
  <2>1. /\ final' = [final EXCEPT ![o.name] = o.sha] /\ pc' = "dlverify"
        /\ UNCHANGED <<st, mem>> /\ \A n \in Names : final[n] = None
    BY <1>3 DEF DownloadComplete, Complete, OfferInv, AloneOK
  <2>2. AloneOK' /\ StepOK'
    BY <1>1, <2>1 DEF AloneOK, StepOK, FinalOK
  <2>3. want' # None => Fits(st, want.name)'
    BY <1>1, <1>2, <2>1 DEF FinalOK, OfferInv, WantOK, Fits, Wanted, NoLongerWanted
  <2>4. Current(st)'
    BY <2>1 DEF OfferInv, KnownOK, Current
  <2> QED BY <1>1, <2>1, <2>2, <2>3, <2>4, OfferGoes
<1>4. CASE DownloadComplete /\ ~Complete(part[o.name], o)
  <2>1. pc = "dlwindow" /\ pc' = "dlrefetch" /\ UNCHANGED <<st, mem, final>>
    BY <1>4 DEF DownloadComplete
  <2>2. AloneOK' /\ StepOK'
    BY <2>1 DEF OfferInv, AloneOK, StepOK
  <2> QED BY <1>1, <2>1, <2>2, OfferStays
<1>5. CASE DownloadVerify /\ Sound(o)
  <2> DEFINE e == IF mem.error = "download" THEN "none" ELSE mem.error
  <2>1. st' = [mem EXCEPT !.ready = o, !.error = e] /\ pc' = "idle" /\ UNCHANGED final
    BY <1>5 DEF DownloadVerify, Save, Idle
  <2> HIDE DEF e
  <2>2. st'.seen = st.seen /\ st'.offer = st.offer /\ st'.installed = st.installed
    BY <1>1, <2>1 DEF IsState
  <2> QED BY <1>1, <2>1, <2>2, Nowhere, OfferStays DEF AtRest
<1>6. CASE DownloadVerify /\ ~Sound(o)
  <2>1. /\ final' = [final EXCEPT ![o.name] = None] /\ pc' = "dlgiveup"
        /\ UNCHANGED <<st, mem>> /\ \A n \in Names \ {o.name} : final[n] = None
    BY <1>6 DEF DownloadVerify, OfferInv, AloneOK
  <2>2. \A n \in Names : final'[n] = None
    BY <1>1, <2>1 DEF FinalOK
  <2>3. AloneOK' /\ StepOK'
    BY <2>1, <2>2 DEF AloneOK, StepOK
  <2> QED BY <1>1, <2>1, <2>2, <2>3, OfferStays
<1> QED BY <1>3, <1>4, <1>5, <1>6

-----------------------------------------------------------------------------
LEMMA OfferOfInstall == ASSUME Inv, OfferInv, InstallNext PROVE OfferInv'
<1>1. CASE Resolve
  <2>1. /\ mem = st /\ pc = "resolve" /\ pc' = "idle"
        /\ UNCHANGED <<published, st, final, failed, rel, other, wrote>>
        /\ want' = IF want = None /\ ToInstall(mem) THEN [name |-> mem.ready.name] ELSE want
    BY <1>1 DEF Resolve, Idle, Inv, AtRest, Unsaved, channel, disk, board
  <2>2. CASE want' = want
    BY <2>1, <2>2, Nowhere, OfferStays DEF AtRest
  <2>3. CASE want' = [name |-> st.ready.name] /\ ToInstall(st)
    <3>1. st.ready.name \in Names /\ st.offer # None /\ final[st.ready.name] = st.offer.sha
      BY <2>3, Types DEF ToInstall, Ready, Inv, IsState, IsIndex, Kept
    <3>2. Wanted(st) /\ Settled
      BY <2>1 DEF OfferInv, StepOK
    <3>3. Fits(st, want.name)' /\ Settled' /\ want'.name \in Names
      BY <2>1, <2>3, <3>1, <3>2 DEF Fits, Wanted, NoLongerWanted, Settled
    <3>4. WantOK' /\ KnownOK'
      BY <2>1, <3>3 DEF WantOK, OfferInv, KnownOK, Current, AtRest
    <3> QED BY <2>1, <3>4, Nowhere DEF AtRest, OfferInv, InstallsTheOffer
  <2> QED BY <2>1, <2>2, <2>3
<1>2. CASE UnitStarts
  <2>1. CASE final[want.name] = None \/ ~final[want.name].sound
    <3>1. /\ want' = None /\ pc' = "idle"
          /\ UNCHANGED <<st, published, final, failed, rel, other, wrote>>
      BY <1>2, <2>1 DEF UnitStarts, channel, board
    <3> QED BY <3>1, Nowhere, OfferStays DEF AtRest
  <2>2. CASE ~(final[want.name] = None \/ ~final[want.name].sound)
    <3>1. /\ want # None /\ want' = None /\ pc' = "rauc" /\ goal' = want.name
          /\ mem' = [st EXCEPT !.installed = None] /\ st' = mem'
          /\ UNCHANGED <<published, final, failed, rel, other, wrote>>
      BY <1>2, <2>2 DEF UnitStarts, Save, channel, board
    <3>2. st'.seen = st.seen /\ st'.offer = st.offer /\ st'.installed = None
      BY <3>1 DEF Inv, IsState
    <3>3. st.offer # None /\ final[want.name] = st.offer.sha /\ Wanted(st)
      BY <2>2, <3>1 DEF OfferInv, WantOK, Fits
    <3>4. AloneOK' /\ StepOK'
      BY <3>1, <3>2, <3>3 DEF AloneOK, StepOK, Wanted, NoLongerWanted
    <3> QED BY <3>1, <3>2, <3>4, OfferStays
  <2> QED BY <2>1, <2>2
<1>3. CASE StreamStarts
  <2>1. CASE Idle /\ UNCHANGED st
    <3>1. /\ pc' = "idle" /\ UNCHANGED <<published, final, failed, want, rel, other, wrote>>
      BY <1>3, <2>1 DEF StreamStarts, Idle, channel, board
    <3> QED BY <2>1, <3>1, Nowhere, OfferStays DEF AtRest
  <2>2. CASE mem.offer # None /\ pc' = "rauc" /\ mem' = [mem EXCEPT !.installed = None]
             /\ st' = mem' /\ UNCHANGED goal
    <3>1. /\ mem = st /\ UNCHANGED <<published, final, failed, want, rel, other, wrote>>
          /\ Wanted(st) /\ goal = "stream"
      BY <1>3 DEF StreamStarts, Inv, AtRest, Unsaved, channel, board, OfferInv, StepOK
    <3>2. st'.seen = st.seen /\ st'.offer = st.offer /\ st'.installed = None
      BY <2>2, <3>1 DEF Inv, IsState
    <3>4. AloneOK' /\ StepOK'
      BY <2>2, <3>1, <3>2 DEF AloneOK, StepOK, Wanted, NoLongerWanted
    <3> QED BY <2>2, <3>1, <3>2, <3>4, OfferStays
  <2> QED BY <1>3, <2>1, <2>2 DEF StreamStarts, Save
<1>4. CASE RaucRefuses
  <2>1. /\ pc' = "idle"
        /\ UNCHANGED <<published, st, final, failed, want, rel, other, wrote>>
    BY <1>4 DEF RaucRefuses, Idle, channel, disk, board
  <2> QED BY <2>1, Nowhere, OfferStays DEF AtRest
<1>5. CASE RaucWrites
  <2>1. /\ mem = st /\ IsState(st, Indices) /\ ChannelOK /\ pc' = "writing"
        /\ UNCHANGED <<published, st, mem, final, failed, want, rel>>
        /\ st.offer # None /\ Wanted(st) /\ st.installed = None
        /\ goal # "stream" => final[goal] = st.offer.sha
        /\ Current(st) /\ rel \in Nat
    BY <1>5
    DEF RaucWrites, Inv, AtRest, Unsaved, channel, disk, OfferInv, StepOK, KnownOK
  <2>2. st.offer.ver \in Nat /\ st.offer.sha.ver = st.offer.ver
    BY <2>1 DEF IsState, Indices, OfferInv, KnownOK
  <2>3. Source.ver = st.offer.ver /\ (goal # "stream" => Source = st.offer.sha)
    BY <1>5, <2>1, <2>2 DEF RaucWrites, Source, Expected
  <2>4. /\ other' = [ver |-> Source.ver, ok |-> FALSE, first |-> FALSE, tried |-> FALSE,
                     com |-> FALSE, whole |-> FALSE]
        /\ wrote' = [content |-> Source, streamed |-> goal = "stream", offer |-> st.offer,
                     seen |-> st.seen, rel |-> rel, failed |-> failed]
    BY <1>5 DEF RaucWrites
  <2>5. KnownOK'
    BY <2>1, <2>2, <2>3, <2>4 DEF OfferInv, KnownOK, OtherSlots, Current
  <2>6. WantOK'
    BY <1>5, <2>1
    DEF RaucWrites, OfferInv, WantOK, Settled, Fits, Wanted, NoLongerWanted, AtRest
  <2>7. AloneOK' /\ StepOK'
    BY <2>1, <2>4 DEF AloneOK, StepOK
  <2>8. InstallsTheOffer'
    <3>1. /\ wrote'.offer = st.offer /\ wrote'.seen = st.seen /\ wrote'.content = Source
          /\ wrote'.rel = rel /\ wrote'.failed = failed
      BY <2>4
    <3>2. ~wrote'.streamed => goal # "stream"
      BY <2>4
    <3>3. st.seen[st.offer.chan] = st.offer /\ ~(st.offer.ver <= rel) /\ st.offer.ver \notin failed
      BY <2>1 DEF Current, Wanted, NoLongerWanted
    <3>4. st.offer.ver > rel
      BY <2>1, <2>2, <3>3
    <3> QED BY <2>1, <2>3, <3>1, <3>2, <3>3, <3>4 DEF InstallsTheOffer
  <2> QED BY <2>5, <2>6, <2>7, <2>8 DEF OfferInv
<1>6. CASE RaucEnds
  <2>1. /\ mem = st /\ pc = "writing" /\ pc' \in {"idle", "remember"}
        /\ UNCHANGED <<published, st, final, failed, want, rel, wrote>>
        /\ st.installed = None /\ other \in OtherSlots /\ ~other.tried
        /\ pc' = "remember" => mem' = mem
    BY <1>6
    DEF RaucEnds, Idle, Inv, AtRest, Unsaved, channel, disk, OfferInv, StepOK, KnownOK
  <2>2. other' \in OtherSlots /\ ~other'.tried /\ (pc' = "remember" => other'.ok)
    BY <1>6, <2>1 DEF RaucEnds, Idle, OtherSlots
  <2>3. KnownOK' /\ AloneOK' /\ StepOK'
    BY <2>1, <2>2 DEF OfferInv, KnownOK, AloneOK, StepOK, Current, AtRest
  <2>4. WantOK'
    BY <2>1 DEF OfferInv, WantOK, Settled, Fits, Wanted, NoLongerWanted, AtRest
  <2> QED BY <2>1, <2>3, <2>4 DEF OfferInv, InstallsTheOffer
<1>7. CASE Remember
  <2>1. /\ mem = st /\ pc' = "idle" /\ other.ok /\ ~other.tried
        /\ st' = [st EXCEPT !.installed = [ver |-> other.ver]]
        /\ UNCHANGED <<published, final, failed, want, rel, other, wrote>>
    BY <1>7
    DEF Remember, Save, Idle, Inv, AtRest, Unsaved, channel, board, OfferInv, StepOK
  <2>2. st'.seen = st.seen /\ st'.offer = st.offer
    BY <2>1 DEF Inv, IsState
  <2>3. KnownOK' /\ WantOK'
    BY <2>1, <2>2
    DEF OfferInv, KnownOK, WantOK, Settled, Fits, Wanted, NoLongerWanted, Current, AtRest
  <2> QED BY <2>1, <2>3, Nowhere DEF AtRest, OfferInv, InstallsTheOffer
<1> QED BY <1>1, <1>2, <1>3, <1>4, <1>5, <1>6, <1>7 DEF InstallNext

-----------------------------------------------------------------------------
LEMMA OfferOfChannel ==
  ASSUME Inv, OfferInv, Truthful,
         (\E c \in Channels : Misserve(c) \/ \E o \in Offers : Publish(c, o)) \/ SwitchChannel
  PROVE  OfferInv'
<1>1. UNCHANGED <<st, mem, pc, goal, want, final, rel, other, failed, wrote>>
  BY DEF Misserve, Publish, SwitchChannel, channel, disk, proc, board
<1>2. \A i \in published' : i.ver \in Nat /\ i.sha.ver = i.ver
  <2>1. CASE (\E c \in Channels : Misserve(c)) \/ SwitchChannel
    BY <2>1 DEF Misserve, SwitchChannel, channel, OfferInv, KnownOK
  <2>2. ASSUME NEW c \in Channels, NEW o \in Offers, Publish(c, o)
        PROVE  \A i \in published' : i.ver \in Nat /\ i.sha.ver = i.ver
    <3>1. \E n : published' = published \cup {[chan |-> c, serial |-> n, ver |-> o.ver,
                   name |-> o.name, sha |-> o.sha, fit |-> o.fit]}
      BY <2>2 DEF Publish
    <3> QED BY <3>1, OtaAssumption DEF OfferInv, KnownOK, Truthful
  <2> QED BY <2>1, <2>2
<1> QED BY <1>1, <1>2, OfferOutside

LEMMA OfferInit == Init => OfferInv
  BY DEF Init, OfferInv, KnownOK, AloneOK, WantOK, StepOK, Current, OtherSlots, OlderSlot,
         EmptyState, AtRest, InstallsTheOffer

LEMMA OfferNext == Truthful /\ Inv /\ OfferInv /\ [Next]_vars => OfferInv'
<1> SUFFICES ASSUME Truthful, Inv, OfferInv, [Next]_vars PROVE OfferInv'
  OBVIOUS
<1>1. CASE UNCHANGED vars
  BY <1>1, OfferOutside DEF vars, channel, disk, proc, board, OfferInv, KnownOK
<1>2. CASE DownloadNext
  BY <1>2, OfferOfStart, OfferOfWindow, OfferOfRefetch, OfferOfFinish DEF DownloadNext
<1> QED
  BY <1>1, <1>2, OfferOfChannel, OfferOfRun, OfferOfCheck, OfferOfHouse, OfferOfInstall DEF Next

\* What was written into the other slot is the newest accepted offer as it was
\* then, newer than the running release and without a failed trial, whatever
\* came between the wrapper's answer and the unit's run.
THEOREM OnlyTheOffer == ASSUME Truthful PROVE Spec => []InstallsTheOffer
<1>1. Init => Inv /\ OfferInv
  BY InvInit, OfferInit, OtaAssumption
<1>2. Inv /\ OfferInv /\ [Next]_vars => (Inv /\ OfferInv)'
  BY InvNext, OfferNext, OtaAssumption
<1>3. OfferInv => InstallsTheOffer
  BY DEF OfferInv
<1> QED BY <1>1, <1>2, <1>3, PTL DEF Spec

=============================================================================
