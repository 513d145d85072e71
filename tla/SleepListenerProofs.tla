------------------------ MODULE SleepListenerProofs ------------------------
(***************************************************************************)
(* What boat-sleepd does give against repeated and late datagrams, for any *)
(* window, skew, delay, buffer and number of commands.                     *)
(***************************************************************************)
EXTENDS SleepListener, SequenceTheorems, TLAPS

(***************************************************************************)
(* The datagrams.                                                          *)
(***************************************************************************)
LEMMA BuiltType ==
  ASSUME TypeOK, NEW c \in Cmds, NEW t \in (now - MaxSkew)..(now + MaxSkew),
         NEW op \in {OP_SLEEP, 99}
  PROVE  BuildPacket(op, t, c) \in Packets
BY SleepAssumption DEF BuildPacket, Packets, TypeOK

\* Damage on the way changes the signature and nothing else that is used.
LEMMA DamagedType ==
  ASSUME NEW p \in Packets, NEW intact \in BOOLEAN
  PROVE  /\ [p EXCEPT !.signed = intact] \in Packets
         /\ [p EXCEPT !.signed = intact].nonce = p.nonce
         /\ [p EXCEPT !.signed = intact].opcode = p.opcode
         /\ [p EXCEPT !.signed = intact].timestamp = p.timestamp
BY DEF Packets

\* What verify accepts is a timely sleep command whose nonce the pruned cache
\* does not hold, and the cache then has it with the time it was accepted.
LEMMA Accepted ==
  ASSUME NEW p \in Packets, NEW seen0, NEW now0,
         Verify(p, Window, seen0, now0) = "accept"
  PROVE  /\ p.opcode = OP_SLEEP /\ Timely(p, Window, now0)
         /\ p.nonce \notin DOMAIN Pruned(seen0, Window, now0)
         /\ CacheAfter(p, Window, seen0, now0) = Added(Pruned(seen0, Window, now0), p.nonce, now0)
BY DEF Verify, CacheAfter, Admitted

\* The cache: entries in it stay as they are or are dropped for their age, and
\* the nonce of an admitted datagram joins.
LEMMA CacheStep ==
  ASSUME NEW p \in Packets, TypeOK,
         NEW after, after = CacheAfter(p, Window, seen, now)
  PROVE  /\ DOMAIN after \subseteq Cmds
         /\ \A c \in DOMAIN after : after[c] \in 0..MaxTime
         /\ \A c \in DOMAIN seen : \/ c \in DOMAIN after /\ after[c] = seen[c]
                                   \/ seen[c] + Window <= now
<1> USE SleepAssumption DEF TypeOK
<1> DEFINE kept == Pruned(seen, Window, now)
<1>1. /\ DOMAIN kept = {m \in DOMAIN seen : seen[m] > now - Window}
      /\ \A c \in DOMAIN kept : kept[c] = seen[c]
  BY DEF Pruned
<1>2. CASE Admitted(p, Window, now)
  <2>1. after = Added(kept, p.nonce, now)
    BY <1>2 DEF CacheAfter
  <2>2. /\ DOMAIN after = DOMAIN kept \cup {p.nonce}
        /\ \A c \in DOMAIN after : after[c] = IF c \in DOMAIN kept THEN kept[c] ELSE now
    BY <2>1 DEF Added
  <2>3. p.nonce \in Cmds
    BY DEF Packets
  <2> HIDE DEF kept
  <2>4. ASSUME NEW c \in DOMAIN seen
        PROVE  \/ c \in DOMAIN after /\ after[c] = seen[c]
               \/ seen[c] + Window <= now
    <3>1. CASE seen[c] > now - Window
      BY <1>1, <2>2, <3>1
    <3>2. CASE ~(seen[c] > now - Window)
      BY <3>2
    <3> QED
      BY <3>1, <3>2
  <2> QED
    BY <1>1, <2>2, <2>3, <2>4
<1>3. CASE ~Admitted(p, Window, now)
  BY <1>3 DEF CacheAfter
<1> QED
  BY <1>2, <1>3

-----------------------------------------------------------------------------
(***************************************************************************)
(* The invariant.                                                          *)
(***************************************************************************)
\* What waits in the socket is what someone sent, the signature apart.
Sourced ==
  \A i \in 1..Len(buffer) :
    \E p \in sent : /\ p.nonce = buffer[i].nonce /\ p.opcode = buffer[i].opcode
                    /\ p.timestamp = buffer[i].timestamp

\* A command honoured less than a window ago is in the cache, since then.
Remembered ==
  \A c \in Cmds : last[c] # Never =>
    \/ c \in DOMAIN seen /\ seen[c] = last[c]
    \/ last[c] + Window <= now

IInv == TypeOK /\ Sourced /\ Remembered

LEMMA InitIInv == Init => IInv
<1> SUFFICES ASSUME Init PROVE IInv
  OBVIOUS
<1> USE SleepAssumption DEF Init
<1>1. TypeOK
  <2>1. buffer \in Seq(Packets) /\ seen = NoneSeen
    BY EmptySeq DEF Init
  <2>2. DOMAIN seen = {}
    BY <2>1 DEF NoneSeen
  <2> QED
    BY <2>1, <2>2 DEF TypeOK
<1>2. Sourced
  <2>1. Len(buffer) = 0
    BY EmptySeq
  <2> QED
    BY <2>1 DEF Sourced
<1>3. Remembered
  BY DEF Remembered
<1> QED
  BY <1>1, <1>2, <1>3 DEF IInv

-----------------------------------------------------------------------------
\* recvfrom takes the first datagram and leaves the rest.
LEMMA HeadAndTail ==
  ASSUME TypeOK, buffer # <<>>
  PROVE  /\ Head(buffer) \in Packets /\ Tail(buffer) \in Seq(Packets)
         /\ Len(buffer) >= 1 /\ Head(buffer) = buffer[1]
         /\ Len(Tail(buffer)) = Len(buffer) - 1
         /\ \A i \in 1..Len(Tail(buffer)) : i + 1 \in 1..Len(buffer) /\ Tail(buffer)[i] = buffer[i + 1]
BY HeadTailProperties DEF TypeOK

\* The one step that honours anything.
LEMMA ReceiveStep == IInv /\ Receive => IInv'
<1> SUFFICES ASSUME IInv, Receive PROVE IInv'
  OBVIOUS
<1> USE SleepAssumption DEF IInv
<1> DEFINE p == Head(buffer)
<1>0. /\ Reading /\ buffer' = Tail(buffer)
      /\ seen' = CacheAfter(p, Window, seen, now)
      /\ UNCHANGED <<now, sent, board, alive, crashes>>
      /\ \/ /\ Verify(p, Window, seen, now) = "accept"
            /\ job' = {[cmd |-> p.nonce, left |-> Delay]}
            /\ last' = [last EXCEPT ![p.nonce] = now]
         \/ UNCHANGED <<job, last>>
  BY DEF Receive
<1>1. /\ p \in Packets /\ Tail(buffer) \in Seq(Packets) /\ Len(buffer) >= 1
      /\ Len(Tail(buffer)) = Len(buffer) - 1
      /\ \A i \in 1..Len(Tail(buffer)) : i + 1 \in 1..Len(buffer) /\ Tail(buffer)[i] = buffer[i + 1]
  BY <1>0, HeadAndTail DEF Reading
<1>2. p.nonce \in Cmds
  BY <1>1 DEF Packets
<1> HIDE DEF p
<1>3. /\ DOMAIN seen' \subseteq Cmds /\ \A c \in DOMAIN seen' : seen'[c] \in 0..MaxTime
      /\ \A c \in DOMAIN seen : \/ c \in DOMAIN seen' /\ seen'[c] = seen[c]
                                \/ seen[c] + Window <= now
  BY <1>0, <1>1, CacheStep
<1>4. TypeOK'
  <2>1. job' \subseteq Jobs
    BY <1>0, <1>2 DEF TypeOK, Jobs
  <2>2. last' \in [Cmds -> {Never} \cup 0..MaxTime]
    BY <1>0, <1>2 DEF TypeOK
  <2> QED
    BY <1>0, <1>1, <1>3, <2>1, <2>2 DEF TypeOK
<1>5. Sourced'
  BY <1>0, <1>1 DEF Sourced
<1>6. Remembered'
  <2> SUFFICES ASSUME NEW c \in Cmds, last'[c] # Never
               PROVE  \/ c \in DOMAIN seen' /\ seen'[c] = last'[c]
                      \/ last'[c] + Window <= now
    BY <1>0 DEF Remembered
  <2>1. CASE last'[c] = last[c]
    BY <1>3, <2>1 DEF Remembered, TypeOK
  <2>2. CASE last'[c] # last[c]
    <3>1. Verify(p, Window, seen, now) = "accept" /\ c = p.nonce /\ last'[c] = now
      BY <1>0, <1>2, <2>2 DEF TypeOK
    <3>2. /\ p.nonce \notin DOMAIN Pruned(seen, Window, now)
          /\ seen' = Added(Pruned(seen, Window, now), p.nonce, now)
      BY <1>0, <1>1, <3>1, Accepted
    <3> QED
      BY <3>1, <3>2 DEF Added
  <2> QED
    BY <2>1, <2>2
<1> QED
  BY <1>4, <1>5, <1>6

LEMMA OtherStep == IInv /\ [Next]_vars /\ ~Receive => IInv'
<1> SUFFICES ASSUME IInv, [Next]_vars, ~Receive PROVE IInv'
  OBVIOUS
<1> USE SleepAssumption DEF IInv
<1>1. CASE Tick
  <2>1. ASSUME NEW j \in Jobs
        PROVE  [j EXCEPT !.left = IF @ > 0 THEN @ - 1 ELSE 0] \in Jobs
    BY DEF Jobs
  <2>2. job' \subseteq Jobs
    BY <1>1, <2>1 DEF Tick, TypeOK
  <2> QED
    BY <1>1, <2>2 DEF Tick, TypeOK, Sourced, Remembered
<1>2. ASSUME NEW c \in Cmds, Send(c) PROVE IInv'
  <2>1. PICK t \in (now - MaxSkew)..(now + MaxSkew), op \in {OP_SLEEP, 99} :
          sent' = sent \cup {BuildPacket(op, t, c)}
    BY <1>2 DEF Send
  <2>2. BuildPacket(op, t, c) \in Packets
    BY BuiltType
  <2> QED
    BY <1>2, <2>1, <2>2 DEF Send, TypeOK, Sourced, Remembered
<1>3. CASE Arrive
  <2>1. PICK p \in sent, intact \in BOOLEAN :
          buffer' = Append(buffer, [p EXCEPT !.signed = intact])
    BY <1>3 DEF Arrive
  <2> DEFINE q == [p EXCEPT !.signed = intact]
  <2>2. /\ q \in Packets /\ q.nonce = p.nonce /\ q.opcode = p.opcode
        /\ q.timestamp = p.timestamp
    BY DamagedType DEF TypeOK
  <2> HIDE DEF q
  <2>3. /\ buffer' \in Seq(Packets) /\ Len(buffer') = Len(buffer) + 1
        /\ \A i \in 1..Len(buffer') : buffer'[i] = IF i <= Len(buffer) THEN buffer[i] ELSE q
    BY <2>1, <2>2, AppendProperties DEF TypeOK, q
  <2>4. TypeOK'
    BY <1>3, <2>3 DEF Arrive, TypeOK
  <2>5. Sourced'
    <3>1. Len(buffer) \in Nat
      BY DEF TypeOK
    <3> QED
      BY <1>3, <2>2, <2>3, <3>1 DEF Arrive, Sourced
  <2> QED
    BY <1>3, <2>4, <2>5 DEF Arrive, Remembered
<1>4. CASE Refused
  BY <1>4 DEF Refused, TypeOK, Sourced, Remembered
<1>5. CASE Asks
  BY <1>5 DEF Asks, TypeOK, Sourced, Remembered
<1>6. CASE Sleeps
  BY <1>6 DEF Sleeps, TypeOK, Sourced, Remembered
<1>7. CASE Wakes
  BY <1>7 DEF Wakes, TypeOK, Sourced, Remembered
<1>8. CASE Dies
  <2>1. DOMAIN seen' = {}
    BY <1>8 DEF Dies, NoneSeen
  <2>2. TypeOK'
    <3>1. /\ last' = [c \in Cmds |-> Never]
          /\ job' = {} /\ crashes' = crashes - 1 /\ crashes > 0 /\ alive' = FALSE
          /\ UNCHANGED <<now, sent, buffer, board>>
      BY <1>8 DEF Dies
    <3>2. last' \in [Cmds -> {Never} \cup 0..MaxTime]
      BY <3>1
    <3>3. crashes' \in 0..MaxCrashes
      BY <3>1 DEF TypeOK
    <3> QED
      BY <2>1, <3>1, <3>2, <3>3 DEF TypeOK
  <2>3. Sourced' /\ Remembered'
    BY <1>8 DEF Dies, Sourced, Remembered
  <2> QED
    BY <2>2, <2>3
<1>9. CASE Restarts
  BY <1>9 DEF Restarts, TypeOK, Sourced, Remembered
<1>10. CASE UNCHANGED vars
  BY <1>10 DEF vars, TypeOK, Sourced, Remembered
<1> QED
  BY <1>1, <1>2, <1>3, <1>4, <1>5, <1>6, <1>7, <1>8, <1>9, <1>10 DEF Next

LEMMA Invariance == Spec => []IInv
<1>1. IInv /\ [Next]_vars => IInv'
  BY ReceiveStep, OtherStep
<1> QED
  BY <1>1, InitIInv, PTL DEF Spec

\* The state keeps its type, the replay cache's bounds included.
THEOREM ListenerTypes == Spec => []TypeOK
BY Invariance, PTL DEF IInv

-----------------------------------------------------------------------------
\* Only recvfrom starts a boat-sleep, and only for what verify accepts.
LEMMA HonoursReceives ==
  ASSUME IInv, [Next]_vars, NEW c \in Cmds, Honours(c)
  PROVE  /\ Receive /\ Verify(Head(buffer), Window, seen, now) = "accept"
         /\ Head(buffer).nonce = c
<1> job = {} /\ \E j \in job' : j.cmd = c
  BY DEF Honours
<1>1. Receive
  <2>1. job' # {}
    OBVIOUS
  <2> QED
    BY <2>1 DEF Next, vars, Tick, Send, Arrive, Refused, Asks, Sleeps, Wakes, Dies, Restarts
<1>2. /\ Verify(Head(buffer), Window, seen, now) = "accept"
      /\ job' = {[cmd |-> Head(buffer).nonce, left |-> Delay]}
  BY <1>1 DEF Receive
<1> QED
  BY <1>1, <1>2

\* What the listener honours, somebody sent, with the timestamp it looked at.
LEMMA HonouredWasSent ==
  ASSUME IInv, [Next]_vars, NEW c \in Cmds, Honours(c)
  PROVE  \E p \in sent : /\ p.nonce = c /\ p.opcode = OP_SLEEP
                         /\ p.timestamp \in Int /\ Timely(p, Window, now)
<1>1. /\ Receive /\ Verify(Head(buffer), Window, seen, now) = "accept"
      /\ Head(buffer).nonce = c
  BY HonoursReceives
<1>2. Head(buffer) \in Packets /\ Len(buffer) >= 1 /\ Head(buffer) = buffer[1] /\ Len(buffer) \in Nat
  BY <1>1, HeadAndTail DEF IInv, Receive, Reading, TypeOK
<1>3. buffer[1].opcode = OP_SLEEP /\ Timely(buffer[1], Window, now)
  BY <1>1, <1>2, Accepted
<1>4. PICK p \in sent : /\ p.nonce = buffer[1].nonce /\ p.opcode = buffer[1].opcode
                        /\ p.timestamp = buffer[1].timestamp
  BY <1>2 DEF IInv, Sourced
<1>5. p \in Packets
  BY DEF IInv, TypeOK
<1>6. p.timestamp \in Int
  BY <1>5, SleepAssumption DEF Packets, IInv, TypeOK
<1> QED
  BY <1>1, <1>2, <1>3, <1>4, <1>6 DEF Timely

\* A command the network delivers again is honoured again by the same listener
\* only a whole window after it last was, and only if its sender's clock was not
\* behind the board's then (verify and ReplayCache).
THEOREM ReplayOnlyAhead == Spec => AgainOnlyIfAhead
<1>1. ASSUME IInv, [Next]_vars
      PROVE  \A c \in Cmds : Honours(c) /\ last[c] # Never =>
               /\ now - last[c] >= Window
               /\ \E p \in sent : p.nonce = c /\ p.timestamp >= last[c]
  <2> SUFFICES ASSUME NEW c \in Cmds, Honours(c), last[c] # Never
               PROVE  /\ now - last[c] >= Window
                      /\ \E p \in sent : p.nonce = c /\ p.timestamp >= last[c]
    OBVIOUS
  <2>1. /\ Receive /\ Verify(Head(buffer), Window, seen, now) = "accept"
        /\ Head(buffer).nonce = c
    BY <1>1, HonoursReceives
  <2>2. Head(buffer) \in Packets
    BY <1>1, <2>1, HeadAndTail DEF IInv, Receive, Reading
  <2>3. c \notin DOMAIN Pruned(seen, Window, now)
    BY <2>1, <2>2, Accepted
  <2>4. ~(c \in DOMAIN seen /\ seen[c] > now - Window)
    BY <2>3 DEF Pruned
  <2>5. last[c] \in Int /\ now \in Int /\ Window \in Int /\ last[c] + Window <= now
    BY <1>1, <2>4, SleepAssumption DEF IInv, Remembered, TypeOK, Never
  <2>6. PICK p \in sent : p.nonce = c /\ p.timestamp \in Int /\ Timely(p, Window, now)
    BY <1>1, HonouredWasSent
  <2> QED
    BY <2>5, <2>6 DEF Timely
<1> QED
  BY <1>1, Invariance, PTL DEF Spec, AgainOnlyIfAhead

\* Whatever a buffer, a suspend or a dead listener held back is honoured only as
\* a command someone sent, in time by that sender's clock.
THEOREM InTimeOnly == Spec => HonouredInTime
<1>1. ASSUME IInv, [Next]_vars
      PROVE  \A c \in Cmds : Honours(c) =>
               \E p \in sent : /\ p.nonce = c /\ p.opcode = OP_SLEEP
                               /\ p.timestamp - now <= Window
                               /\ now - p.timestamp <= Window
  <2> SUFFICES ASSUME NEW c \in Cmds, Honours(c)
               PROVE  \E p \in sent : /\ p.nonce = c /\ p.opcode = OP_SLEEP
                                      /\ p.timestamp - now <= Window
                                      /\ now - p.timestamp <= Window
    OBVIOUS
  <2>1. PICK p \in sent : /\ p.nonce = c /\ p.opcode = OP_SLEEP
                          /\ p.timestamp \in Int /\ Timely(p, Window, now)
    BY <1>1, HonouredWasSent
  <2>2. now \in Int /\ Window \in Int
    BY <1>1, SleepAssumption DEF IInv, TypeOK
  <2> QED
    BY <2>1, <2>2 DEF Timely
<1> QED
  BY <1>1, Invariance, PTL DEF Spec, HonouredInTime

=============================================================================
