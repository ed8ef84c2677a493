-------------------------- MODULE MCCheckedReplace --------------------------
\* Small instances of CheckedReplace for TLC.
EXTENDS CheckedReplace, TLC

CONSTANTS memory, roles, old, mine, theirs

\* The second call's value is a text that an editor may also have saved.
Values == [c \in Calls |-> IF c = memory THEN mine ELSE theirs]
Kinds  == [c \in Calls |-> IF c = memory THEN "memory" ELSE "roles"]
Symmetry == Permutations(Inodes)
=============================================================================
