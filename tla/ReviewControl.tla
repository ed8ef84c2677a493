---------------------------- MODULE ReviewControl ----------------------------
(***************************************************************************)
(* readReviewControl and writeReviewControl of lib/review-control.js over  *)
(* the Git ref of lib/review-control-git.js.  Callers form requests from   *)
(* the head they read; processes (workers) run them, any number of times   *)
(* and concurrently: a caller that got no answer, or an uncertain one,     *)
(* sends the same request again, and a killed process leaves its git child *)
(* running.  The compare-and-swap of `git update-ref` is the one point of  *)
(* publication.                                                            *)
(***************************************************************************)
EXTENDS ReviewLease, FiniteSets

CONSTANTS
  Workers,       \* processes that run requests, each call in the worktree it is given
  MaxRequests,   \* bound on the requests callers make
  MaxAnswers,    \* bound on the answers kept: the first ones
  NoTask

ASSUME RequestsAssumption == {MaxRequests, MaxAnswers} \subseteq Nat

\* rec is the record of the commit that the batch's ref points to.
VARIABLES
  issued,    \* the requests callers have made
  phase,     \* idle, publish (about to run update-ref), reread
  task,      \* the request and worktree each worker works on
  seen,      \* the record it read, which its commit's parent is
  answers    \* what callers were told for certain; publication_uncertain tells nothing

vars == <<rec, issued, phase, task, seen, answers>>

\* Definite answers: applied at a revision (now or by an earlier run), or refused (0) with an
\* error code; the codes that do not depend on who asks are one ("rejected").
Codes == {"applied", "idempotency_conflict", "owner_mismatch", "rejected"}
Answer == [entry : Entry, revision : Nat, code : Codes]
Tell(e, revision, code) ==
  answers' = IF Cardinality(answers) < MaxAnswers
             THEN answers \cup {[entry |-> e, revision |-> revision, code |-> code]}
             ELSE answers

\* What a call with this request in this worktree applies.
EntryFor(tree, req) == [req |-> req, tree |-> tree]
\* The call of this worker ends, and its local state with it.
Idle(w) ==
  /\ phase' = [phase EXCEPT ![w] = "idle"]
  /\ task' = [task EXCEPT ![w] = NoTask]
  /\ seen' = [seen EXCEPT ![w] = EmptyRecord]

Init ==
  /\ LeaseInit
  /\ issued = {}
  /\ phase = [w \in Workers |-> "idle"]
  /\ task = [w \in Workers |-> NoTask]
  /\ seen = [w \in Workers |-> EmptyRecord]
  /\ answers = {}

\* ACTION: a caller reads the control record and makes a request against what it read; the
\* request may wait any time before a worker runs it, so it may be stale by then.
Issue(key, op, session, batch) ==
  /\ Cardinality(issued) < MaxRequests
  /\ (op = "publish") = (batch > 0)
  /\ issued' = issued \cup
       {[key |-> key, op |-> op, session |-> session, expected |-> Revision(rec),
         generation |-> rec.generation, batch |-> batch]}
  /\ UNCHANGED <<rec, phase, task, seen, answers>>

\* Mutant: an operation id is not looked up in the history.
Known_never(key) == FALSE
Known(key) == KeyKnown(rec, key)

\* ACTION: the record read already holds this operation: nothing is written.
Replay(w, tree, req) ==
  /\ phase[w] = "idle" /\ req \in issued
  /\ \E i \in DOMAIN rec.operations :
       /\ rec.operations[i] = EntryFor(tree, req)
       /\ Tell(EntryFor(tree, req), i, "applied")
  /\ UNCHANGED <<rec, issued, phase, task, seen>>

\* Mutant: the head the caller saw is not compared.
HeadExpected_any(req) == TRUE
HeadExpected(req) == req.expected = Revision(rec)

\* transition() gets as far as comparing the owner, and it is another session or worktree.
OwnerMismatch(e) ==
  /\ Revision(rec) < MaxOperations
  /\ CurrentGeneration(rec, e.req)
  /\ ~Claims(e.req) /\ ~OwnerAllows(rec, e)

\* The code a refusal states: transition()'s checks come before the head's.
Code(e) == IF Known(e.req.key) THEN "idempotency_conflict"
           ELSE IF OwnerMismatch(e) THEN "owner_mismatch" ELSE "rejected"

\* ACTION: the operation id is taken by another payload (idempotency_conflict), transition()
\* rejects the request, or the head is not the caller's (revision_conflict).
Refuse(w, tree, req) ==
  /\ phase[w] = "idle" /\ req \in issued
  /\ IF Known(req.key)
     THEN \A i \in DOMAIN rec.operations : rec.operations[i] # EntryFor(tree, req)
     ELSE ~Admissible(rec, EntryFor(tree, req)) \/ ~HeadExpected(req)
  /\ Tell(EntryFor(tree, req), 0, Code(EntryFor(tree, req)))
  /\ UNCHANGED <<rec, issued, phase, task, seen>>

\* ACTION: the request is admitted against the record read, and its commit written.
Prepare(w, tree, req) ==
  /\ phase[w] = "idle" /\ req \in issued
  /\ ~Known(req.key)
  /\ Admissible(rec, EntryFor(tree, req))
  /\ HeadExpected(req)
  /\ phase' = [phase EXCEPT ![w] = "publish"]
  /\ task' = [task EXCEPT ![w] = EntryFor(tree, req)]
  /\ seen' = [seen EXCEPT ![w] = rec]
  /\ UNCHANGED <<rec, issued, answers>>

\* Mutant: update-ref without the old value.
RefUnmoved_unchecked(w) == TRUE
\* The old value given to update-ref is still the ref's.
RefUnmoved(w) == rec = seen[w]

\* ACTION: update-ref moves the ref; it reports that, or fails after doing it (a timeout, a
\* hook, a full stderr), which the worker calls publication_uncertain.
Publish(w) ==
  /\ phase[w] = "publish"
  /\ RefUnmoved(w)
  /\ rec' = After(seen[w], task[w])
  /\ \/ phase' = [phase EXCEPT ![w] = "reread"] /\ UNCHANGED <<task, seen, answers>>
     \/ Idle(w) /\ UNCHANGED answers
  /\ UNCHANGED issued

\* ACTION: update-ref fails, because the ref has moved or for any other reason, or the worker
\* never gets to it (git_failed, topology_changed, its death).
PublishFails(w) ==
  /\ phase[w] = "publish"
  /\ Idle(w)
  /\ UNCHANGED <<rec, issued, answers>>

\* ACTION: success is reported when the ref read again is the worker's commit; when another
\* worker has moved on from it by then, the answer is uncertain though it was applied.
Reread(w) ==
  /\ phase[w] = "reread"
  /\ IF rec = After(seen[w], task[w])
     THEN Tell(task[w], Revision(seen[w]) + 1, "applied")
     ELSE UNCHANGED answers
  /\ Idle(w)
  /\ UNCHANGED <<rec, issued>>

\* ACTION: the worker dies after update-ref, or cannot read the ref again: the caller learns
\* nothing, or publication_uncertain.  Dying or failing before it is PublishFails.
Stop(w) ==
  /\ phase[w] = "reread"
  /\ Idle(w)
  /\ UNCHANGED <<rec, issued, answers>>

Write(w) ==
  \/ \E tree \in Trees, req \in issued :
       Replay(w, tree, req) \/ Refuse(w, tree, req) \/ Prepare(w, tree, req)
  \/ Publish(w) \/ PublishFails(w) \/ Reread(w) \/ Stop(w)

Next ==
  \/ \E key \in Keys, op \in Operations, session \in Sessions, batch \in 0..MaxBatch :
       Issue(key, op, session, batch)
  \/ \E w \in Workers : Write(w)

Spec == Init /\ [][Next]_vars

-----------------------------------------------------------------------------
(* Properties *)

TypeOK ==
  /\ rec \in Record
  /\ issued \subseteq Request
  /\ phase \in [Workers -> {"idle", "publish", "reread"}]
  /\ task \in [Workers -> Entry \cup {NoTask}]
  /\ seen \in [Workers -> Record]
  /\ answers \subseteq Answer

\* Whatever the workers do at once, are killed in or repeat, the batch changes as if one
\* admissible operation at a time was applied to the current record: no update is lost and
\* no stale request is applied.
ImplementsLease == LeaseSpec

\* A caller that was told "applied", or "replayed", finds that operation at that revision for
\* ever, even if others publish at the same moment.
AcknowledgedStays ==
  \A a \in answers : a.revision > 0 =>
    a.revision \in DOMAIN rec.operations /\ rec.operations[a.revision] = a.entry

\* A request refused in a worktree never takes effect from that worktree, not even by another
\* worker that runs it there at the same time or later.  From another worktree it takes effect
\* only if that one is the owner's (owner_mismatch), or had run it before (idempotency_conflict):
\* after any other refusal the caller may drop the request and make a new one.
RefusalIsFinal ==
  \A a \in answers : a.revision = 0 =>
    \A i \in DOMAIN rec.operations :
      /\ rec.operations[i] # a.entry
      /\ a.code = "rejected" => rec.operations[i].req # a.entry.req
=============================================================================
