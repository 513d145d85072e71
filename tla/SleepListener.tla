--------------------------- MODULE SleepListener ---------------------------
(***************************************************************************)
(* boat-sleepd on the board: senders with clocks of their own, a network   *)
(* that loses, delays, repeats and reorders, the socket's buffer (which    *)
(* outlives a suspend), the replay cache (which outlives neither the       *)
(* process nor the power), one run of boat-sleep at a time, and the board  *)
(* falling asleep and waking.                                              *)
(***************************************************************************)
EXTENDS SleepProtocol, Sequences, FiniteSets

CONSTANTS
  Cmds,       \* the commands senders issue, one nonce each
  Window,     \* BOAT_SLEEP_WINDOW
  Delay,      \* BOAT_SLEEP_DELAY
  MaxSkew,    \* how far a sender's clock is from the board's
  MaxTime,    \* the clock's last second
  MaxBuffer,  \* datagrams the socket holds
  MaxCrashes  \* times the listener dies

\* --window is refused below 1.
ASSUME SleepAssumption ==
  /\ Window \in Nat \ {0} /\ Delay \in Nat /\ MaxSkew \in Nat
  /\ MaxTime \in Nat /\ MaxBuffer \in Nat /\ MaxCrashes \in Nat

VARIABLES
  now,      \* the board's clock, in seconds
  sent,     \* the datagrams on their way: any of them arrives any number of times
  buffer,   \* the socket's
  seen,     \* the replay cache
  job,      \* the boat-sleep the listener waits for, as a set of at most one
  board,    \* "up", "suspending" (logind took the request) or "asleep"
  alive,    \* the listener runs
  crashes,  \* times it may still die
  last      \* history: command -> when it was last honoured by this listener

vars == <<now, sent, buffer, seen, job, board, alive, crashes, last>>

Never == -1

Jobs == [cmd : Cmds, left : 0..Delay]

Packets == [len : {PACKET_LEN}, magic : {TRUE}, version : {1}, signed : BOOLEAN,
            opcode : {OP_SLEEP, 99}, timestamp : (-MaxSkew)..(MaxTime + MaxSkew), nonce : Cmds]

Init ==
  /\ now = 0 /\ sent = {} /\ buffer = <<>> /\ seen = NoneSeen /\ job = {}
  /\ board = "up" /\ alive = TRUE /\ crashes = MaxCrashes
  /\ last = [c \in Cmds |-> Never]

\* A delay that runs past its end.
Tick_PastZero ==
  /\ now < MaxTime
  /\ now' = now + 1
  /\ job' = {[j EXCEPT !.left = @ - 1] : j \in job}
  /\ UNCHANGED <<sent, buffer, seen, board, alive, crashes, last>>

\* A second passes.  boat-sleep's delay does not run while the board sleeps.
Tick ==
  /\ now < MaxTime
  /\ now' = now + 1
  /\ job' = IF board = "asleep" THEN job
            ELSE {[j EXCEPT !.left = IF @ > 0 THEN @ - 1 ELSE 0] : j \in job}
  /\ UNCHANGED <<sent, buffer, seen, board, alive, crashes, last>>

\* A client issues a command, by its own clock.
Send(c) ==
  /\ \A p \in sent : p.nonce # c
  /\ \E t \in (now - MaxSkew)..(now + MaxSkew), op \in {OP_SLEEP, 99} :
       sent' = sent \cup {BuildPacket(op, t, c)}
  /\ UNCHANGED <<now, buffer, seen, job, board, alive, crashes, last>>

\* The network hands a datagram over, perhaps again, perhaps damaged.
Arrive ==
  /\ Len(buffer) < MaxBuffer
  /\ \E p \in sent, intact \in BOOLEAN :
       buffer' = Append(buffer, [p EXCEPT !.signed = intact])
  /\ UNCHANGED <<now, sent, seen, job, board, alive, crashes, last>>

-----------------------------------------------------------------------------
Reading == alive /\ board # "asleep" /\ job = {} /\ buffer # <<>>

\* recvfrom and verify: a refused datagram is dropped, an accepted one starts
\* boat-sleep and is waited for.
Receive ==
  /\ Reading
  /\ LET p == Head(buffer)
     IN  /\ seen' = CacheAfter(p, Window, seen, now)
         /\ IF Verify(p, Window, seen, now) = "accept"
              THEN /\ job' = {[cmd |-> p.nonce, left |-> Delay]}
                   /\ last' = [last EXCEPT ![p.nonce] = now]
              ELSE UNCHANGED <<job, last>>
  /\ buffer' = Tail(buffer)
  /\ UNCHANGED <<now, sent, board, alive, crashes>>

\* boat-sleep ends in a refusal, its own or logind's - which takes no second
\* request while it carries out one.
Refused ==
  /\ board # "asleep" /\ job # {}
  /\ job' = {}
  /\ UNCHANGED <<now, sent, buffer, seen, board, alive, crashes, last>>

\* After its delay boat-sleep asks logind, which accepts; the listener reads on.
Asks ==
  /\ board = "up" /\ \E j \in job : j.left = 0
  /\ board' = "suspending"
  /\ job' = {}
  /\ UNCHANGED <<now, sent, buffer, seen, alive, crashes, last>>

\* Userspace is frozen where it is.
Sleeps ==
  /\ board = "suspending"
  /\ board' = "asleep"
  /\ UNCHANGED <<now, sent, buffer, seen, job, alive, crashes, last>>

\* A magic packet, the button.
Wakes ==
  /\ board = "asleep"
  /\ board' = "up"
  /\ UNCHANGED <<now, sent, buffer, seen, job, alive, crashes, last>>

\* The listener dies; with it its boat-sleep (one control group) and its cache.
Dies ==
  /\ alive /\ board # "asleep" /\ crashes > 0
  /\ alive' = FALSE /\ crashes' = crashes - 1
  /\ job' = {} /\ seen' = NoneSeen
  /\ last' = [c \in Cmds |-> Never]
  /\ UNCHANGED <<now, sent, buffer, board>>

\* A unit without Restart=.
Restarts_Never == ~alive /\ UNCHANGED vars

\* Restart=on-failure: with an empty cache, the socket as it was.
Restarts ==
  /\ ~alive /\ board # "asleep"
  /\ alive' = TRUE
  /\ UNCHANGED <<now, sent, buffer, seen, job, board, crashes, last>>

Next ==
  \/ Tick \/ (\E c \in Cmds : Send(c)) \/ Arrive
  \/ Receive \/ Refused \/ Asks \/ Sleeps \/ Wakes \/ Dies \/ Restarts

Spec == Init /\ [][Next]_vars

\* The listener reads what there is, boat-sleep ends, systemd restarts the
\* listener and a suspend under way happens.  Nobody need wake the board.
Fairness ==
  /\ WF_vars(Receive) /\ WF_vars(Restarts) /\ WF_vars(Sleeps)
  /\ WF_vars(Refused \/ Asks)

FairSpec == Spec /\ Fairness

-----------------------------------------------------------------------------
TypeOK ==
  /\ now \in 0..MaxTime
  /\ sent \subseteq Packets /\ buffer \in Seq(Packets)
  /\ job \subseteq Jobs
  /\ board \in {"up", "suspending", "asleep"} /\ alive \in BOOLEAN
  /\ crashes \in 0..MaxCrashes
  /\ last \in [Cmds -> {Never} \cup 0..MaxTime]
  /\ DOMAIN seen \subseteq Cmds /\ \A c \in DOMAIN seen : seen[c] \in 0..MaxTime

\* The listener honours command c: it starts boat-sleep for it.
Honours(c) == job = {} /\ \E j \in job' : j.cmd = c

\* What the comment at ReplayCache claims: "Nonces seen inside the acceptance window,
\* so a captured packet is usable once", as "an entry older than the window is
\* already rejected by the timestamp check".
UsableOnce ==
  [][\A c \in Cmds : Honours(c) => last[c] = Never]_vars

\* What the cache and the clock do give, as long as the listener lives: a command
\* delivered again is honoured again only if its timestamp was not behind the
\* board's clock when it was last honoured, and only a whole window after that.
AgainOnlyIfAhead ==
  [][\A c \in Cmds : Honours(c) /\ last[c] # Never =>
       /\ now - last[c] >= Window
       /\ \E p \in sent : p.nonce = c /\ p.timestamp >= last[c]]_vars

\* Whatever the buffer held back - across a suspend, a dead listener, a run of
\* boat-sleep - is honoured only as a sleep command some sender signed, within
\* the window of that sender's clock at the moment it is honoured.
HonouredInTime ==
  [][\A c \in Cmds : Honours(c) =>
       \E p \in sent : /\ p.nonce = c /\ p.opcode = OP_SLEEP
                       /\ p.timestamp - now <= Window
                       /\ now - p.timestamp <= Window]_vars

\* A board that is not left asleep for good goes on reading its socket:
\* neither a refusal, nor a suspend, nor a dead listener wedges the loop.
ReadsOn ==
  []<>(board = "up") => ([]<>(buffer = <<>>) \/ []<><<Receive>>_vars)

=============================================================================
