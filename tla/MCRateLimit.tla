---------------------------- MODULE MCRateLimit ----------------------------
(* Small instances of RateLimit for TLC. *)
EXTENDS RateLimit, TLC

CONSTANTS r1, r2, r3, r4, r5, s1, here, there

\* Two clients.
TwoAddresses == [r \in Requests |-> IF r = s1 THEN there ELSE here]

Alike == Permutations(Requests \ {s1})
=============================================================================
