----------------------------- MODULE ReviewLease -----------------------------
(***************************************************************************)
(* What the review control of a batch promises: one record that changes by *)
(* one admissible operation at a time, each operation id at most once.     *)
(***************************************************************************)
EXTENDS ReviewControlContract

VARIABLE rec

LeaseInit == rec = EmptyRecord

Apply(e) ==
  /\ e \in Entry
  /\ ~KeyKnown(rec, e.req.key)
  /\ Admissible(rec, e)
  /\ rec' = After(rec, e)

\* The operation applied is one the next record holds.
LeaseNext == \E i \in DOMAIN rec'.operations : Apply(rec'.operations[i])

LeaseSpec == LeaseInit /\ [][LeaseNext]_rec

-----------------------------------------------------------------------------
(* Properties *)

RecordOK == rec \in Record

\* An operation id changes the batch at most once, however often its request is sent.
OneOperationPerKey(h) ==
  \A i, j \in DOMAIN h : h[i].req.key = h[j].req.key => i = j

\* i is the operation that made the owner of operation j the owner: nobody claimed, reclaimed
\* or released the batch in between, and j states the generation that i produced.
Grants(h, i, j) ==
  /\ Claims(h[i].req) /\ OwnerOf(h[i]) = OwnerOf(h[j])
  /\ h[j].req.generation = h[i].req.generation + 1
  /\ \A k \in (i + 1)..(j - 1) : h[k].req.op = "publish"

\* Fencing: every snapshot was published, and every release made, by the session and worktree
\* that held the batch right then, in the generation it held: an owner that was reclaimed
\* from, and did not notice, changes nothing any more.
FencedHistory(h) ==
  \A j \in DOMAIN h : h[j].req.op \in {"publish", "release"} =>
    \E i \in 1..(j - 1) : Grants(h, i, j)

\* No two ownerships share a generation, and later ones have higher ones.
GenerationsIncrease(h) ==
  \A i, j \in DOMAIN h : i < j /\ Claims(h[i].req) /\ Claims(h[j].req) =>
    h[i].req.generation < h[j].req.generation

\* A snapshot is never replaced by one of the same or an older batch revision, across owners.
SnapshotsIncrease(h) ==
  \A i, j \in DOMAIN h : i < j /\ h[i].req.op = "publish" /\ h[j].req.op = "publish" =>
    h[i].req.batch < h[j].req.batch

HistorySound ==
  LET h == rec.operations
  IN  OneOperationPerKey(h) /\ FencedHistory(h) /\ GenerationsIncrease(h) /\ SnapshotsIncrease(h)

\* The strengthening: what a record's owner, generation and batch say of its history.
OwnerCurrent(h, owner, generation) ==
  owner # NoOwner => \E i \in DOMAIN h :
    /\ Claims(h[i].req) /\ OwnerOf(h[i]) = owner
    /\ generation = h[i].req.generation + 1
    /\ \A k \in (i + 1)..Len(h) : h[k].req.op = "publish"
GenerationCurrent(h, generation) ==
  \A i \in DOMAIN h : Claims(h[i].req) => h[i].req.generation < generation
BatchCurrent(h, batch) ==
  \A i \in DOMAIN h : h[i].req.op = "publish" => h[i].req.batch <= batch

Current == /\ OwnerCurrent(rec.operations, rec.owner, rec.generation)
           /\ GenerationCurrent(rec.operations, rec.generation)
           /\ BatchCurrent(rec.operations, rec.batch)

LeaseInv == RecordOK /\ HistorySound /\ Current
=============================================================================
