--------------------------- MODULE MCReviewAuthority ---------------------------
\* A small instance of ReviewAuthority for TLC: a policy, its revocation, and the next policy.
EXTENDS ReviewAuthority, TLC

CONSTANTS first, other, revocation

\* Two certificates of one revision are a host's mistake that the floor has to stop.
RevisionOf == [c \in Certs |-> IF c = revocation THEN 2 ELSE 1]
ExpiryOf == [c \in Certs |-> IF c = other THEN 1 ELSE 2]

Symmetry == Permutations(Procs) \cup Permutations(Reviews)
=============================================================================
