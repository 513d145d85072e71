---------------------------- MODULE SleepVectors ----------------------------
(***************************************************************************)
(* scripts/gen-sleep-vectors.py: the conformance vectors that tie          *)
(* boat-sleepd to the TypeScript client, put to SleepProtocol in order and *)
(* against one replay cache, with the verdicts of                          *)
(* clients/typescript/src/vectors.json - for other windows than its 30 too.*)
(***************************************************************************)
EXTENDS SleepProtocol, Sequences

CONSTANT Windows    \* the acceptance windows to try

VARIABLES window, k, seen, verdict

vars == <<window, k, seen, verdict>>

NOW == 1000

Good == BuildPacket(OP_SLEEP, NOW, "n0")
Unsigned == [Good EXCEPT !.signed = FALSE]

\* One vector: what is sent and what is expected.  A flipped bit leaves the MAC
\* of other bytes; a datagram of another length has no fields to speak of.
Vector(p, expect) == [packet |-> p, expect |-> expect]

At(t, n) == BuildPacket(OP_SLEEP, t, n)

Cases(w) ==
  << Vector(Good, "accept"),
     Vector(Good, "replayed-nonce"),
     Vector([Unsigned EXCEPT !.nonce = "nA"], "bad-signature"),
     Vector([Unsigned EXCEPT !.magic = FALSE], "bad-magic"),
     Vector([Unsigned EXCEPT !.version = 0], "bad-version"),
     Vector([Unsigned EXCEPT !.timestamp = NOW + 1], "bad-signature"),
     Vector([Unsigned EXCEPT !.nonce = "n1"], "bad-signature"),
     Vector(Unsigned, "bad-signature"),
     Vector([Good EXCEPT !.len = PACKET_LEN - 1], "wrong-length"),
     Vector([Good EXCEPT !.len = PACKET_LEN + 1], "wrong-length"),
     Vector([Unsigned EXCEPT !.len = 0], "wrong-length"),
     Vector([Unsigned EXCEPT !.len = 102, !.magic = FALSE], "wrong-length"),
     Vector(At(NOW - w, "nB0"), "accept"),
     Vector(At(NOW + w, "nB1"), "accept"),
     Vector(At(NOW - w - 1, "nB2"), "stale-timestamp"),
     Vector(At(NOW + w + 1, "nB3"), "stale-timestamp"),
     Vector(BuildPacket(99, NOW, "nC0"), "unknown-opcode"),
     Vector([Good EXCEPT !.version = 2, !.nonce = "nD0"], "bad-version") >>

Init == window \in Windows /\ k = 0 /\ seen = NoneSeen /\ verdict = "accept"

\* The next vector, judged at NOW.
Judge ==
  /\ k < Len(Cases(window))
  /\ LET p == Cases(window)[k + 1].packet
     IN  /\ verdict' = Verify(p, window, seen, NOW)
         /\ seen' = CacheAfter(p, window, seen, NOW)
  /\ k' = k + 1
  /\ UNCHANGED window

Next == Judge

Spec == Init /\ [][Next]_vars

-----------------------------------------------------------------------------
\* Every vector gets the verdict the two implementations agreed on, at every
\* window, and only what is signed and timely is ever remembered.
AsVectors ==
  k > 0 => /\ verdict = Cases(window)[k].expect
           /\ DOMAIN seen \subseteq {"n0", "nB0", "nB1", "nC0"}

=============================================================================
