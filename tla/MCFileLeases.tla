----------------------------- MODULE MCFileLeases -----------------------------
\* A small instance of FileLeases for TLC: two paths with one folded key, and a third one.
EXTENDS FileLeases, TLC

CONSTANTS p1, p2, p3

Folded   == [p \in Paths |-> IF p = p2 THEN p1 ELSE p]
Distinct == [p \in Paths |-> p]

\* Names that fold together, hard links, and no inode numbers.
AllWorlds == {[key |-> Folded, links |-> FALSE, inodes |-> TRUE],
              [key |-> Distinct, links |-> TRUE, inodes |-> TRUE],
              [key |-> Folded, links |-> FALSE, inodes |-> FALSE]}
FoldingWorld == {[key |-> Folded, links |-> FALSE, inodes |-> TRUE]}
PlainWorld   == {[key |-> Distinct, links |-> FALSE, inodes |-> TRUE]}

Symmetry == Permutations(Sessions) \cup Permutations(Ids) \cup Permutations(Inodes)
=============================================================================
