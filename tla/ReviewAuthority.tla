---------------------------- MODULE ReviewAuthority ----------------------------
(***************************************************************************)
(* The authority of a UI review: the durable revision floor of policy      *)
(* certificates (lib/ui-review-authority-floor.js), the host that only     *)
(* accepts certificates that follow it (lib/ui-review-authority-host.js),  *)
(* and the use of a signed challenge, once, in one Git transaction         *)
(* (lib/ui-review-authorization.js, lib/ui-review-proof-use.js).           *)
(*                                                                         *)
(* A process is a host with its floor handle.  A call reads the policy     *)
(* once or twice; each reading passes the floor: certificates of a higher  *)
(* revision are published to a Git ref before they count.  Other processes *)
(* do the same at the same time, time passes, the reviewed branch and the  *)
(* batch's control move, processes die, git's answers get lost, and an     *)
(* operator restores the floor's ref from a backup.                        *)
(***************************************************************************)
EXTENDS Naturals, Sequences

CONSTANTS
  Procs,       \* processes that host the authority
  Certs,       \* signed policy certificates
  Revision,    \* of each certificate
  Expires,     \* the time at which each of them expires
  Revoked,     \* certificates whose policy is null
  Ids,         \* challenge ids
  Reviews,     \* what a review is bound to: commits of the branch, run, result, attempt and control
  MaxTime,     \* bound of the clock
  NoCert, NoPayload

ASSUME CertsAssumption ==
  /\ Revision \in [Certs -> Nat \ {0}] /\ Expires \in [Certs -> Nat]
  /\ Revoked \subseteq Certs /\ NoCert \notin Certs
  /\ MaxTime \in Nat

\* What is signed: the certificate, the challenge and the review it is bound to.
Payload == [cert : Certs, id : Ids, expires : 1..MaxTime, review : Reviews]
ASSUME NoPayloadAssumption == NoPayload \notin Payload

VARIABLES
  now,             \* Date.now()
  review,          \* the commits that the refs of the review point to
  floor,           \* the floor ref: the chain of commits, one certificate each
  uses,            \* the proof-use refs
  pc, at,          \* each process's place, and where it goes when it has the policy
  cert,            \* the certificate it read
  base,            \* the floor it read
  seen,            \* `latest` of its floor handle
  accepted,        \* `latest` of its host
  payload,         \* what it prepared
  told,            \* processes whose last call reported that the challenge is consumed
  due              \* history: the floor's revision when it last read the policy

vars == <<now, review, floor, uses, pc, at, cert, base, seen, accepted, payload, told, due>>
refs == <<review, floor, uses>>
local == <<cert, base, seen, accepted, payload, told, due>>

Last(chain) == chain[Len(chain)]
FloorRevision == IF floor = <<>> THEN 0 ELSE Revision[Last(floor)]

\* Mutant: a certificate that has expired need not be followed.
Follows_live(next, previous) ==
  \/ now >= Expires[previous]
  \/ Revision[next] >= Revision[previous] /\ (Revision[next] = Revision[previous] => next = previous)
\* follows: neither older, nor another certificate of the same revision.
Follows(next, previous) ==
  /\ Revision[next] >= Revision[previous]
  /\ Revision[next] = Revision[previous] => next = previous

Live(c) == now < Expires[c]

Init ==
  /\ now = 0 /\ review \in Reviews
  /\ floor = <<>> /\ uses = [id \in Ids |-> NoPayload]
  /\ pc = [p \in Procs |-> "closed"] /\ at = [p \in Procs |-> "none"]
  /\ cert = [p \in Procs |-> NoCert] /\ base = [p \in Procs |-> <<>>]
  /\ seen = [p \in Procs |-> NoCert] /\ accepted = [p \in Procs |-> NoCert]
  /\ payload = [p \in Procs |-> NoPayload]
  /\ told = {}
  /\ due = [p \in Procs |-> 0]

Goto(p, place) == pc' = [pc EXCEPT ![p] = place]

\* What a call read is not used any more, except for the certificate it goes on with.
Forget(p, kept) ==
  /\ cert' = [cert EXCEPT ![p] = kept]
  /\ base' = [base EXCEPT ![p] = <<>>] /\ due' = [due EXCEPT ![p] = 0]

\* The call ends.  A failed preparation leaves no handle; a handle outlives any other call.
Return(p, result) ==
  /\ Goto(p, IF at[p] = "init" THEN "closed" ELSE "idle")
  /\ told' = IF result \in {"applied", "replayed"} THEN told \cup {p} ELSE told
  /\ payload' = [payload EXCEPT ![p] = IF at[p] = "prepared" /\ result # "prepared" THEN NoPayload ELSE @]
  /\ at' = [at EXCEPT ![p] = "none"]
  /\ Forget(p, NoCert)

-----------------------------------------------------------------------------
(* The floor, and the host's reading of the policy *)

\* ACTION: initializeUiReviewAuthorityFloor finds no floor.
Initialize(p, c) ==
  /\ pc[p] = "closed" /\ floor = <<>> /\ Live(c)
  /\ cert' = [cert EXCEPT ![p] = c]
  /\ at' = [at EXCEPT ![p] = "init"]
  /\ Goto(p, "publish")
  /\ UNCHANGED <<now, refs, base, seen, accepted, payload, told, due>>

\* ACTION: openUiReviewAuthorityFloor and createUiReviewAuthorityHost.
Open(p) ==
  /\ pc[p] = "closed" /\ floor # <<>>
  /\ seen' = [seen EXCEPT ![p] = Last(floor)]
  /\ Goto(p, "idle")
  /\ UNCHANGED <<now, refs, at, cert, base, accepted, payload, told, due>>

\* A call of the host begins, and is going to read the policy.
Begin(p, goal) ==
  /\ pc[p] = "idle"
  /\ at' = [at EXCEPT ![p] = goal]
  /\ told' = told \ {p}
  /\ Goto(p, "read")

\* ACTION: prepare.
Prepare(p) ==
  /\ Begin(p, "bind")
  /\ payload' = [payload EXCEPT ![p] = NoPayload]
  /\ UNCHANGED <<now, refs, cert, base, seen, accepted, due>>

\* ACTION: verify, or consume, of the handle that was prepared.
Check(p) ==
  /\ Begin(p, "verify") /\ payload[p] # NoPayload
  /\ UNCHANGED <<now, refs, cert, base, seen, accepted, payload, due>>

\* ACTION: readPolicy returns a certificate, current or not.
ReadPolicy(p, c) ==
  /\ pc[p] = "read" /\ Live(c)
  /\ accepted[p] # NoCert => Follows(c, accepted[p])
  /\ cert' = [cert EXCEPT ![p] = c]
  /\ due' = [due EXCEPT ![p] = FloorRevision]
  /\ Goto(p, "observe")
  /\ UNCHANGED <<now, refs, at, base, seen, accepted, payload, told>>

\* ACTION: observe reads the floor, which follows all that this handle saw.
Observe(p) ==
  /\ pc[p] = "observe" /\ Live(cert[p]) /\ floor # <<>>
  /\ Follows(Last(floor), seen[p]) /\ Follows(cert[p], Last(floor))
  /\ IF cert[p] = Last(floor)
       THEN /\ seen' = [seen EXCEPT ![p] = cert[p]]
            /\ Goto(p, "observed") /\ UNCHANGED base
       ELSE /\ base' = [base EXCEPT ![p] = floor]
            /\ Goto(p, "publish") /\ UNCHANGED seen
  /\ UNCHANGED <<now, refs, at, cert, accepted, payload, told, due>>

\* Mutant: update-ref without the old value.
Unmoved_ignored(p) == TRUE
Unmoved(p) == floor = base[p]
Published(p) == Append(base[p], cert[p])

\* ACTION: update-ref succeeds.
Publish(p) ==
  /\ pc[p] = "publish" /\ Unmoved(p)
  /\ floor' = Published(p)
  /\ Goto(p, "confirm")
  /\ UNCHANGED <<now, review, uses, at, local>>

\* ACTION: update-ref fails or is not answered; publication_uncertain.
PublishUncertain(p) ==
  /\ pc[p] = "publish"
  /\ \/ UNCHANGED floor
     \/ Unmoved(p) /\ floor' = Published(p)
  /\ Return(p, "uncertain")
  /\ UNCHANGED <<now, review, uses, seen, accepted>>

\* ACTION: the floor is read again and is what was published.
Confirm(p) ==
  /\ pc[p] = "confirm" /\ floor = Published(p) /\ at[p] # "init"
  /\ seen' = [seen EXCEPT ![p] = cert[p]]
  /\ Goto(p, "observed")
  /\ UNCHANGED <<now, refs, at, cert, base, accepted, payload, told, due>>
Initialized(p) ==
  /\ pc[p] = "confirm" /\ floor = Published(p) /\ at[p] = "init"
  /\ Return(p, "initialized")
  /\ UNCHANGED <<now, refs, seen, accepted>>

\* What the policy that was read has to be for the call to go on.
Usable(p) == cert[p] \notin Revoked /\ (at[p] # "bind" => cert[p] = payload[p].cert)

\* ACTION: the certificate is still live: the host accepts it, and the call goes on if it can.
Accept(p) ==
  /\ pc[p] = "observed" /\ Live(cert[p])
  /\ accepted' = [accepted EXCEPT ![p] = cert[p]]
  /\ IF Usable(p)
       THEN /\ Goto(p, at[p])
            /\ Forget(p, IF at[p] = "bind" THEN cert[p] ELSE NoCert)
            /\ UNCHANGED <<at, payload, told>>
       ELSE Return(p, "failed")
  /\ UNCHANGED <<now, refs, seen>>

-----------------------------------------------------------------------------
(* Challenges and their use *)

Signed(p, id, expires) == [cert |-> cert[p], id |-> id, expires |-> expires, review |-> review]

\* ACTION: prepareUiReviewAuthorization: a challenge that does not outlive the policy is bound
\* to the refs as they are, and the policy is read again.
Bind(p, id, expires) ==
  /\ pc[p] = "bind" /\ now < expires /\ expires <= Expires[cert[p]]
  /\ payload' = [payload EXCEPT ![p] = Signed(p, id, expires)]
  /\ at' = [at EXCEPT ![p] = "prepared"]
  /\ Forget(p, NoCert) /\ Goto(p, "read")
  /\ UNCHANGED <<now, refs, seen, accepted, told>>

Timely(p) == now < payload[p].expires
Bound(p) == review = payload[p].review

\* ACTION: the handle is returned.
Prepared(p) ==
  /\ pc[p] = "prepared" /\ Timely(p)
  /\ Return(p, "prepared")
  /\ UNCHANGED <<now, refs, seen, accepted>>

\* ACTION: verifyUiReviewAuthorization of a proof that the key of the policy signed.
Verify(p) ==
  /\ pc[p] = "verify" /\ Timely(p) /\ Bound(p)
  /\ at' = [at EXCEPT ![p] = "checked"]
  /\ Goto(p, "read")
  /\ UNCHANGED <<now, refs, local>>

\* ACTION: verify returns what it found.
Verified(p) ==
  /\ pc[p] = "checked" /\ Timely(p)
  /\ Return(p, "verified")
  /\ UNCHANGED <<now, refs, seen, accepted>>

\* ACTION: consume: the floor still holds the certificate that was signed.
Snapshot(p) ==
  /\ pc[p] = "checked" /\ Timely(p) /\ floor # <<>>
  /\ Last(floor) = payload[p].cert /\ Live(payload[p].cert)
  /\ base' = [base EXCEPT ![p] = floor]
  /\ Goto(p, "consume")
  /\ UNCHANGED <<now, refs, at, cert, seen, accepted, payload, told, due>>

Use(p) == uses[payload[p].id]
\* Mutant: any earlier use is an answer.
SameUse_any(p) == Use(p) # NoPayload
\* prior.bytes === bytes
SameUse(p) == Use(p) = payload[p]

\* ACTION: the same proof was used before, and its binding still holds.
Replay(p) ==
  /\ pc[p] = "consume" /\ Timely(p) /\ SameUse(p)
  /\ Bound(p) /\ Unmoved(p)
  /\ Return(p, "replayed")
  /\ UNCHANGED <<now, refs, seen, accepted>>

\* ACTION: the challenge is unused; the transaction is prepared.
Commit(p) ==
  /\ pc[p] = "consume" /\ Timely(p) /\ Use(p) = NoPayload
  /\ Bound(p) /\ Unmoved(p) /\ Live(payload[p].cert)
  /\ Goto(p, "transact")
  /\ UNCHANGED <<now, refs, at, local>>

\* Mutant: the transaction does not verify the floor.
Unchanged_bound(p) == Bound(p) /\ Use(p) = NoPayload
\* The transaction verifies every ref of the binding and the floor, and creates the use.
Unchanged(p) == Bound(p) /\ Unmoved(p) /\ Use(p) = NoPayload

\* ACTION: update-ref --stdin succeeds.
Transact(p) ==
  /\ pc[p] = "transact" /\ Unchanged(p)
  /\ uses' = [uses EXCEPT ![payload[p].id] = payload[p]]
  /\ Goto(p, "reread")
  /\ UNCHANGED <<now, review, floor, at, local>>

\* ACTION: it fails or is not answered; publication_uncertain.
TransactUncertain(p) ==
  /\ pc[p] = "transact"
  /\ \/ UNCHANGED uses
     \/ Unchanged(p) /\ uses' = [uses EXCEPT ![payload[p].id] = payload[p]]
  /\ Return(p, "uncertain")
  /\ UNCHANGED <<now, review, floor, seen, accepted>>

\* ACTION: the use is read again, and everything is still in time.
Applied(p) ==
  /\ pc[p] = "reread" /\ SameUse(p) /\ Timely(p) /\ Live(payload[p].cert)
  /\ Return(p, "applied")
  /\ UNCHANGED <<now, refs, seen, accepted>>

Calling == {"read", "observe", "publish", "confirm", "observed", "bind", "prepared", "verify", "checked",
            "consume", "transact", "reread"}

\* ACTION: a guard of the next step does not hold, a ref changed while it was read, or git, the
\* topology or a signature is refused: the call fails, or is uncertain once it published.
Refuse(p) ==
  /\ pc[p] \in Calling
  /\ Return(p, IF pc[p] \in {"confirm", "reread"} THEN "uncertain" ELSE "failed")
  /\ UNCHANGED <<now, refs, seen, accepted>>

-----------------------------------------------------------------------------
(* The environment *)

Tick == now < MaxTime /\ now' = now + 1 /\ UNCHANGED <<refs, pc, at, local>>

\* ACTION: the reviewed branch moves or is reset, or the batch's control changes.
Move ==
  /\ review' \in Reviews
  /\ UNCHANGED <<now, floor, uses, pc, at, local>>

\* ACTION: the process ends, at any place; its git child may end after it.
Crash(p) ==
  /\ pc[p] # "closed"
  /\ Goto(p, "closed")
  /\ at' = [at EXCEPT ![p] = "none"]
  /\ Forget(p, NoCert)
  /\ seen' = [seen EXCEPT ![p] = NoCert] /\ accepted' = [accepted EXCEPT ![p] = NoCert]
  /\ payload' = [payload EXCEPT ![p] = NoPayload] /\ told' = told \ {p}
  /\ UNCHANGED <<now, refs>>

\* ACTION: the floor's ref is restored from a backup, or lost.
Restore(n) ==
  /\ n < Len(floor)
  /\ floor' = SubSeq(floor, 1, n)
  /\ due' = [p \in Procs |-> 0]
  /\ UNCHANGED <<now, review, uses, pc, at, cert, base, seen, accepted, payload, told>>

Policy(p) ==
  \/ \E c \in Certs : Initialize(p, c) \/ ReadPolicy(p, c)
  \/ Open(p) \/ Prepare(p) \/ Check(p) \/ Observe(p)
  \/ Publish(p) \/ PublishUncertain(p) \/ Confirm(p) \/ Initialized(p) \/ Accept(p)
Proof(p) ==
  \/ \E id \in Ids, expires \in 1..MaxTime : Bind(p, id, expires)
  \/ Prepared(p) \/ Verify(p) \/ Verified(p) \/ Snapshot(p) \/ Replay(p) \/ Commit(p)
  \/ Transact(p) \/ TransactUncertain(p) \/ Applied(p)

Next ==
  \/ \E p \in Procs : Policy(p) \/ Proof(p) \/ Refuse(p) \/ Crash(p)
  \/ Tick \/ Move
  \/ \E n \in 0..Len(floor) : Restore(n)

Spec == Init /\ [][Next]_vars

-----------------------------------------------------------------------------
(* Properties *)

TypeOK ==
  /\ now \in 0..MaxTime /\ review \in Reviews
  /\ floor \in Seq(Certs)
  /\ uses \in [Ids -> Payload \cup {NoPayload}]
  /\ pc \in [Procs -> {"closed", "idle"} \cup Calling]
  /\ at \in [Procs -> {"none", "init", "bind", "prepared", "verify", "checked"}]
  /\ cert \in [Procs -> Certs \cup {NoCert}] /\ base \in [Procs -> Seq(Certs)]
  /\ seen \in [Procs -> Certs \cup {NoCert}] /\ accepted \in [Procs -> Certs \cup {NoCert}]
  /\ payload \in [Procs -> Payload \cup {NoPayload}]
  /\ told \subseteq Procs /\ due \in [Procs -> Nat]

\* Every publication extends the floor that is there by one certificate of a higher revision,
\* also when two hosts publish at once; only a restored backup takes any of it back, and a
\* handle that had seen more than the backup holds does not publish on it.
FloorAdvances ==
  [][\/ floor' = floor
     \/ \E n \in 0..(Len(floor) - 1) : floor' = SubSeq(floor, 1, n)
     \/ \E p \in Procs :
          /\ pc[p] = "publish" /\ floor' = Append(floor, cert[p])
          /\ FloorRevision < Revision[cert[p]]
          /\ seen[p] # NoCert => Revision[seen[p]] <= FloorRevision]_vars

\* A host that accepts another certificate accepts one of a higher revision than before, and
\* never one below what any host had made durable when it read its policy, unless the floor
\* was restored in between: expiry does not erase a floor, nor does a restart.
AcceptedNeverOlder ==
  [][\A p \in Procs : accepted'[p] \notin {accepted[p], NoCert} =>
       /\ Revision[accepted'[p]] >= due[p]
       /\ accepted[p] # NoCert => Revision[accepted'[p]] > Revision[accepted[p]]]_vars

\* A challenge is used at most once, and at that moment the floor ends in the certificate it was
\* signed under, which is not a revocation, and all its refs are what it was bound to: no
\* revocation, reset branch or reclaimed batch slips in between the checks and the use.
ConsumedAsSigned ==
  [][\A id \in Ids : uses'[id] # uses[id] =>
       /\ uses[id] = NoPayload
       /\ LET used == uses'[id] IN
            /\ used.id = id /\ used.cert \notin Revoked
            /\ floor # <<>> /\ Last(floor) = used.cert
            /\ review = used.review]_vars

\* What a caller is told was consumed is its own proof, whoever stored it, and it stays.
ReportsHold ==
  \A p \in told : payload[p] # NoPayload /\ Use(p) = payload[p]
=============================================================================
