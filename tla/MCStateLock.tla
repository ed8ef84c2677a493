----------------------------- MODULE MCStateLock -----------------------------
\* Small instances of StateLock for TLC.  Where every call has a process of its own, the
\* process is named after the call, so that permuting the calls is a symmetry.
EXTENDS StateLock, TLC

CONSTANTS a, b, c, p

OneCallPerProcess == [o \in Ops |-> o]
SharedProcess     == [o \in Ops |-> IF o = c THEN c ELSE p]
Symmetry          == Permutations(Ops)
=============================================================================
