--------------------------- MODULE SleepProtocol ---------------------------
(***************************************************************************)
(* boat-sleepd's verdict on one datagram: build_packet, ReplayCache and    *)
(* verify.  A datagram is its fields; how they are laid out and how HMAC   *)
(* works are left out, signed says that the MAC was made with our key over *)
(* exactly these fields.                                                   *)
(***************************************************************************)
EXTENDS Integers

PACKET_LEN == 60
OP_SLEEP == 1

\* A sender's datagram, from whoever holds the key.
BuildPacket(opcode, timestamp, nonce) ==
  [len |-> PACKET_LEN, magic |-> TRUE, version |-> 1, signed |-> TRUE,
   opcode |-> opcode, timestamp |-> timestamp, nonce |-> nonce]

-----------------------------------------------------------------------------
(***************************************************************************)
(* ReplayCache: nonce -> when it was seen.                                 *)
(***************************************************************************)
NoneSeen == [n \in {} |-> 0]

\* A cache that drops a nonce a second too early.
Pruned_Early(seen, window, now) ==
  [n \in {m \in DOMAIN seen : seen[m] > now - window + 1} |-> seen[n]]

\* check_and_add's pruning.
Pruned(seen, window, now) ==
  [n \in {m \in DOMAIN seen : seen[m] > now - window} |-> seen[n]]

\* self._seen[nonce] = now, for a nonce that is not there.
Added(seen, nonce, now) ==
  [n \in DOMAIN seen \cup {nonce} |-> IF n \in DOMAIN seen THEN seen[n] ELSE now]

-----------------------------------------------------------------------------
(***************************************************************************)
(* verify, whose order is deliberate: nothing unsigned reaches the clock   *)
(* comparison, nothing untimely the cache.                                 *)
(***************************************************************************)
\* A check that only looks ahead.
Timely_AnyPast(p, window, now) == p.timestamp <= now + window

\* Within the window of clock skew, either way, both edges included.
Timely(p, window, now) ==
  p.timestamp >= now - window /\ p.timestamp <= now + window

Admitted(p, window, now) ==
  /\ p.len = PACKET_LEN /\ p.magic /\ p.version = 1 /\ p.signed
  /\ Timely(p, window, now)

\* The refusal, or "accept".
Verify(p, window, seen, now) ==
  IF p.len # PACKET_LEN THEN "wrong-length"
  ELSE IF ~p.magic THEN "bad-magic"
  ELSE IF p.version # 1 THEN "bad-version"
  ELSE IF ~p.signed THEN "bad-signature"
  ELSE IF ~Timely(p, window, now) THEN "stale-timestamp"
  ELSE IF p.nonce \in DOMAIN Pruned(seen, window, now) THEN "replayed-nonce"
  ELSE IF p.opcode # OP_SLEEP THEN "unknown-opcode"
  ELSE "accept"

\* The cache afterwards: pruned and added to by what gets as far as it.
CacheAfter(p, window, seen, now) ==
  IF Admitted(p, window, now) THEN Added(Pruned(seen, window, now), p.nonce, now)
  ELSE seen

=============================================================================
