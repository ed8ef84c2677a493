------------------------- MODULE MCWorkspaceMigration -------------------------
\* Small instances of WorkspaceMigration for TLC: a marker, a store's file and a plain file.
EXTENDS WorkspaceMigration, TLC

CONSTANTS marker, store, plain, old, new

\* References in `old` are rewritten, and give `new`.
OldToNew == [t \in Texts \cup {Torn} |-> IF t = old THEN new ELSE t]
With(m, s, p) == [f \in Files |-> CASE f = marker -> m [] f = store -> s [] OTHER -> p]
Start(l, c, g) == [legacy |-> l, canonical |-> c, gitignore |-> g]

Migrate(force) == [kind |-> "migrate", force |-> force]
WriteOf(f, t)  == [kind |-> "write", file |-> f, text |-> t]
StoreOf(f, t)  == [kind |-> "store", file |-> f, text |-> t]

\* No `.leerness`; a store that differs from the old one; one that agrees, and no usable .gitignore.
Workspaces ==
  {Start(With(old, Missing, old), NoFolder, "none"),
   Start(With(old, old, Missing), With(Missing, new, Missing), "plain"),
   Start(With(new, old, Missing), With(Missing, old, Missing), "invalid")}
CommandLines == {Migrate(FALSE), Migrate(TRUE), WriteOf(marker, new), WriteOf(plain, old), StoreOf(store, new)}

Symmetry == Permutations(Procs)
=============================================================================
