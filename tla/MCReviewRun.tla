----------------------------- MODULE MCReviewRun -----------------------------
\* A small instance of ReviewRun for TLC.
EXTENDS ReviewRun, TLC

Symmetry == Permutations(Workers) \cup Permutations(Requests) \cup Permutations(Configs)
              \cup Permutations(Marks)
=============================================================================
