---------------------------- MODULE MCReviewControl ----------------------------
\* A small instance of ReviewControl for TLC: two workers, whose calls run in either of two
\* worktrees, so that they meet in one and in different ones.
EXTENDS ReviewControl, TLC

CONSTANTS k1, k2, k3, s1, s2, w1, w2, t1, t2

Symmetry == Permutations(Keys) \cup Permutations(Sessions) \cup Permutations(Workers)
              \cup Permutations(Trees)
=============================================================================
