------------------------ MODULE ReviewControlContract ------------------------
(***************************************************************************)
(* The record of one review batch and the pure transition of               *)
(* lib/review-control-contract.js: who owns the batch, in which            *)
(* generation, which snapshot is published, and every operation so far.    *)
(* Digests stand for what they digest: an operation's key for the caller's *)
(* operation id, its payload for the whole request and the worktree.       *)
(***************************************************************************)
EXTENDS Naturals, Sequences

CONSTANTS
  Keys,            \* operation ids
  Sessions,        \* caller identities: session id and private token
  Trees,           \* worktrees of the repository
  MaxOperations,   \* the record's history limit (128 in the code)
  MaxBatch,        \* the highest batch revision a snapshot states
  NoOwner

ASSUME ContractAssumption ==
  /\ MaxOperations \in Nat /\ MaxBatch \in Nat
  /\ NoOwner \notin Sessions \X Trees

Owners == Sessions \X Trees

\* A validated request; expected names the head it was made against by that head's revision
\* (heads are commits holding their whole history, so a visible head has one revision).
Operations == {"claim", "reclaim", "publish", "release"}
Request == [key : Keys, op : Operations, session : Sessions,
            expected : Nat, generation : Nat, batch : 0..MaxBatch]
Entry == [req : Request, tree : Trees]

Record == [generation : Nat, owner : Owners \cup {NoOwner}, batch : 0..MaxBatch,
           operations : Seq(Entry)]
EmptyRecord == [generation |-> 0, owner |-> NoOwner, batch |-> 0, operations |-> <<>>]

Revision(rec) == Len(rec.operations)
Claims(req) == req.op \in {"claim", "reclaim"}
OwnerOf(e) == <<e.req.session, e.tree>>

\* The operation with this key, whatever its payload, is in the record.
KeyKnown(rec, key) == \E i \in DOMAIN rec.operations : rec.operations[i].req.key = key

CurrentGeneration(rec, req) == req.generation = rec.generation

\* A free batch is claimed, an owned one reclaimed, and only its owner works on it.
OwnerAllows(rec, e) ==
  \/ e.req.op = "claim" /\ rec.owner = NoOwner
  \/ e.req.op = "reclaim" /\ rec.owner # NoOwner
  \/ e.req.op \in {"publish", "release"} /\ rec.owner = OwnerOf(e)

SnapshotAdvances(rec, req) == req.op = "publish" => req.batch > rec.batch

\* transition() admits a new operation.
Admissible(rec, e) ==
  /\ Revision(rec) < MaxOperations
  /\ CurrentGeneration(rec, e.req)
  /\ OwnerAllows(rec, e)
  /\ SnapshotAdvances(rec, e.req)

\* transition()'s next record.
After(rec, e) ==
  [generation |-> IF Claims(e.req) THEN rec.generation + 1 ELSE rec.generation,
   owner      |-> IF Claims(e.req) THEN OwnerOf(e)
                  ELSE IF e.req.op = "release" THEN NoOwner ELSE rec.owner,
   batch      |-> IF e.req.op = "publish" THEN e.req.batch ELSE rec.batch,
   operations |-> Append(rec.operations, e)]
=============================================================================
