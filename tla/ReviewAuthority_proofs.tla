------------------------- MODULE ReviewAuthority_proofs -------------------------
(***************************************************************************)
(* Proofs about ReviewAuthority, for any number of hosts, certificates,    *)
(* challenges and reviews.                                                 *)
(*                                                                         *)
(* The invariant says what a call may rely on at each of its places: what  *)
(* it read follows all that its handle and host know, although the floor   *)
(* itself may have moved on or been restored meanwhile.                    *)
(***************************************************************************)
EXTENDS ReviewAuthority, TLAPS

\* The certificate was read, and is being taken to the floor.
Raising == {"observe", "publish", "confirm", "observed"}

Places(p) ==
  /\ pc[p] \in Raising \cup {"bind"} => cert[p] \in Certs
  /\ pc[p] \in {"read", "observe", "observed"} => at[p] \in {"bind", "prepared", "verify", "checked"}
  /\ pc[p] \in {"publish", "confirm"} => at[p] # "none"
  /\ pc[p] \in {"bind", "prepared", "verify", "checked"} => at[p] = pc[p]
  /\ pc[p] \in {"consume", "transact", "reread"} => at[p] = "checked"
  /\ pc[p] \in {"closed", "idle"} => at[p] = "none"
\* A call that has read the policy once has a payload, and not of a revocation.
Holding(p) ==
  /\ pc[p] = "bind" => cert[p] \notin Revoked
  /\ at[p] \in {"prepared", "verify", "checked"} => payload[p] # NoPayload
  /\ payload[p] # NoPayload => payload[p].cert \notin Revoked
  /\ pc[p] = "closed" \/ at[p] = "init" => seen[p] = NoCert /\ accepted[p] = NoCert
  /\ p \in told => pc[p] = "idle"
\* What was read follows what the host accepted, and what the floor held before.
Following(p) ==
  /\ (pc[p] \in Raising /\ accepted[p] # NoCert) => Follows(cert[p], accepted[p])
  /\ pc[p] \in {"publish", "confirm", "observed"} => due[p] <= Revision[cert[p]]
  /\ pc[p] = "observe" => due[p] <= FloorRevision
  /\ pc[p] \notin Raising => due[p] = 0
\* The floor that a publication builds on is below it, and not below what its handle saw.
Building(p) ==
  pc[p] = "publish" =>
    IF at[p] = "init" THEN base[p] = <<>>
    ELSE /\ base[p] # <<>> /\ Revision[Last(base[p])] < Revision[cert[p]]
         /\ seen[p] # NoCert => Revision[seen[p]] <= Revision[Last(base[p])]
\* The floor that a use is recorded under ends in the certificate that was signed.
Signing(p) ==
  pc[p] \in {"consume", "transact"} => base[p] # <<>> /\ Last(base[p]) = payload[p].cert
\* A use is what it is stored under, and what was told of it is there.
UsesMatch == \A id \in Ids : uses[id] # NoPayload => uses[id] \in Payload /\ uses[id].id = id

Resting(p) == pc[p] \in {"closed", "idle"} => base[p] = <<>>

Call(p) ==
  Places(p) /\ Holding(p) /\ Following(p) /\ Building(p) /\ Signing(p) /\ Resting(p)

Inv == TypeOK /\ UsesMatch /\ ReportsHold /\ \A p \in Procs : Call(p)

-----------------------------------------------------------------------------
(* Types *)

LEMMA PayloadFields ==
  ASSUME NEW x \in Payload
  PROVE  x.cert \in Certs /\ x.id \in Ids /\ x.expires \in Nat /\ x.review \in Reviews
BY DEF Payload

LEMMA LastIsCert ==
  ASSUME NEW chain \in Seq(Certs), chain # <<>>
  PROVE  Last(chain) \in Certs /\ Len(chain) \in Nat \ {0}
BY DEF Last

LEMMA LastOfAppend ==
  ASSUME NEW chain \in Seq(Certs), NEW c \in Certs
  PROVE  /\ Append(chain, c) \in Seq(Certs) /\ Append(chain, c) # <<>>
         /\ Last(Append(chain, c)) = c
BY DEF Last

LEMMA ForgetTypes ==
  ASSUME TypeOK, NEW p \in Procs, NEW c \in Certs \cup {NoCert}, Forget(p, c)
  PROVE  /\ cert' \in [Procs -> Certs \cup {NoCert}] /\ base' \in [Procs -> Seq(Certs)]
         /\ due' \in [Procs -> Nat]
         /\ cert'[p] = c /\ base'[p] = <<>> /\ due'[p] = 0
         /\ \A q \in Procs : q # p => cert'[q] = cert[q] /\ base'[q] = base[q] /\ due'[q] = due[q]
BY DEF TypeOK, Forget

\* A call that ends leaves its own variables well typed, and knows nothing of what it read.
LEMMA ReturnTypes ==
  ASSUME TypeOK, NEW p \in Procs, NEW result, Return(p, result)
  PROVE  /\ pc' \in [Procs -> {"closed", "idle"} \cup Calling]
         /\ at' \in [Procs -> {"none", "init", "bind", "prepared", "verify", "checked"}]
         /\ cert' \in [Procs -> Certs \cup {NoCert}] /\ base' \in [Procs -> Seq(Certs)]
         /\ payload' \in [Procs -> Payload \cup {NoPayload}]
         /\ told' \subseteq Procs /\ due' \in [Procs -> Nat]
         /\ pc'[p] \in {"closed", "idle"} /\ at'[p] = "none" /\ due'[p] = 0 /\ base'[p] = <<>>
         /\ payload'[p] \in {payload[p], NoPayload}
<1>1. /\ cert' \in [Procs -> Certs \cup {NoCert}] /\ base' \in [Procs -> Seq(Certs)]
      /\ due' \in [Procs -> Nat] /\ due'[p] = 0 /\ base'[p] = <<>>
  BY ForgetTypes DEF Return
<1>2. /\ pc' \in [Procs -> {"closed", "idle"} \cup Calling] /\ pc'[p] \in {"closed", "idle"}
      /\ at' \in [Procs -> {"none", "init", "bind", "prepared", "verify", "checked"}] /\ at'[p] = "none"
  BY DEF Return, Goto, TypeOK
<1>3. told' \subseteq Procs
  BY DEF Return, TypeOK
<1>4. payload' \in [Procs -> Payload \cup {NoPayload}] /\ payload'[p] \in {payload[p], NoPayload}
  BY DEF Return, TypeOK
<1> QED
  BY <1>1, <1>2, <1>3, <1>4

LEMMA InitInv == Init => Inv
<1> SUFFICES ASSUME Init PROVE Inv
  OBVIOUS
<1>1. TypeOK
  <2>1. 0 \in 0..MaxTime /\ <<>> \in Seq(Certs)
    BY CertsAssumption
  <2> QED
    BY <2>1 DEF Init, TypeOK
<1>2. UsesMatch /\ ReportsHold
  BY DEF Init, UsesMatch, ReportsHold
<1>3. \A p \in Procs : Call(p)
  BY DEF Init, Call, Places, Holding, Following, Building, Signing, Resting, Raising
<1> QED
  BY <1>1, <1>2, <1>3 DEF Inv

\* Steps of a call that do not end it.
LEMMA PolicyTypes ==
  ASSUME Inv, NEW p \in Procs, Policy(p)
  PROVE  TypeOK'
<1> USE DEF Inv
<1>1. ASSUME NEW c \in Certs, Initialize(p, c) PROVE TypeOK'
  BY <1>1 DEF Initialize, TypeOK, Goto, refs, Calling
<1>2. ASSUME NEW c \in Certs, ReadPolicy(p, c) PROVE TypeOK'
  <2>1. FloorRevision \in Nat
    BY LastIsCert, CertsAssumption DEF FloorRevision, TypeOK
  <2> QED
    BY <1>2, <2>1 DEF ReadPolicy, TypeOK, Goto, refs, Calling
<1>3. CASE Open(p)
  <2>1. Last(floor) \in Certs
    BY <1>3, LastIsCert DEF Open, TypeOK
  <2> QED
    BY <1>3, <2>1 DEF Open, TypeOK, Goto, refs, Calling
<1>4. CASE Prepare(p) \/ Check(p)
  BY <1>4 DEF Prepare, Check, Begin, TypeOK, Goto, refs, Calling
<1>5. CASE Observe(p)
  BY <1>5 DEF Observe, TypeOK, Goto, refs, Calling
<1>6. CASE Publish(p)
  <2>1. Published(p) \in Seq(Certs)
    BY <1>6, LastOfAppend DEF Publish, Published, Call, Places, Raising, TypeOK
  <2> QED
    BY <1>6, <2>1 DEF Publish, TypeOK, Goto, local, Calling
<1>7. CASE PublishUncertain(p)
  <2>1. Published(p) \in Seq(Certs)
    BY <1>7, LastOfAppend DEF PublishUncertain, Published, Call, Places, Raising, TypeOK
  <2>2. floor' \in Seq(Certs)
    BY <1>7, <2>1 DEF PublishUncertain, TypeOK
  <2> QED
    BY <1>7, <2>2, ReturnTypes DEF PublishUncertain, TypeOK
<1>8. CASE Confirm(p)
  BY <1>8 DEF Confirm, TypeOK, Goto, refs, Calling
<1>9. CASE Initialized(p)
  BY <1>9, ReturnTypes DEF Initialized, TypeOK, refs
<1>10. CASE Accept(p)
  <2>1. accepted' \in [Procs -> Certs \cup {NoCert}]
    BY <1>10 DEF Accept, TypeOK
  <2>2. CASE Usable(p)
    <3>1. Forget(p, IF at[p] = "bind" THEN cert[p] ELSE NoCert)
      BY <1>10, <2>2 DEF Accept
    <3>2. /\ cert' \in [Procs -> Certs \cup {NoCert}] /\ base' \in [Procs -> Seq(Certs)]
          /\ due' \in [Procs -> Nat]
      BY <3>1, ForgetTypes DEF TypeOK
    <3>3. at[p] \in {"bind", "prepared", "verify", "checked"}
      BY <1>10 DEF Accept, Call, Places
    <3> QED
      BY <1>10, <2>1, <2>2, <3>2, <3>3 DEF Accept, TypeOK, Goto, refs, Calling
  <2>3. CASE ~Usable(p)
    <3>1. Return(p, "failed")
      BY <1>10, <2>3 DEF Accept
    <3> QED
      BY <1>10, <2>1, <3>1, ReturnTypes DEF Accept, TypeOK, refs
  <2> QED
    BY <2>2, <2>3
<1> QED
  BY <1>1, <1>2, <1>3, <1>4, <1>5, <1>6, <1>7, <1>8, <1>9, <1>10 DEF Policy

LEMMA ProofTypes ==
  ASSUME Inv, NEW p \in Procs, Proof(p)
  PROVE  TypeOK'
<1> USE DEF Inv
<1>1. ASSUME NEW id \in Ids, NEW expires \in 1..MaxTime, Bind(p, id, expires) PROVE TypeOK'
  <2>1. cert[p] \in Certs
    BY <1>1 DEF Bind, Call, Places
  <2>2. Signed(p, id, expires) \in Payload
    BY <2>1 DEF Signed, Payload, TypeOK
  <2>3. /\ cert' \in [Procs -> Certs \cup {NoCert}] /\ base' \in [Procs -> Seq(Certs)]
        /\ due' \in [Procs -> Nat]
    BY <1>1, ForgetTypes DEF Bind
  <2> QED
    BY <1>1, <2>2, <2>3 DEF Bind, TypeOK, Goto, refs, Calling
<1>2. CASE Prepared(p) \/ Verified(p) \/ Replay(p) \/ Applied(p)
  <2>1. PICK result : Return(p, result)
    BY <1>2 DEF Prepared, Verified, Replay, Applied
  <2>2. UNCHANGED <<now, refs, seen, accepted>>
    BY <1>2 DEF Prepared, Verified, Replay, Applied
  <2> QED
    BY <2>1, <2>2, ReturnTypes DEF TypeOK, refs
<1>3. CASE Verify(p)
  BY <1>3 DEF Verify, TypeOK, Goto, refs, local, Calling
<1>4. CASE Snapshot(p)
  BY <1>4 DEF Snapshot, TypeOK, Goto, refs, Calling
<1>5. CASE Commit(p)
  BY <1>5 DEF Commit, TypeOK, Goto, refs, local, Calling
<1>6. CASE Transact(p)
  <2>1. payload[p] \in Payload
    BY <1>6 DEF Transact, Call, Places, Holding, TypeOK
  <2> QED
    BY <1>6, <2>1 DEF Transact, TypeOK, Goto, local, Calling
<1>7. CASE TransactUncertain(p)
  <2>1. payload[p] \in Payload
    BY <1>7 DEF TransactUncertain, Call, Places, Holding, TypeOK
  <2>2. uses' \in [Ids -> Payload \cup {NoPayload}]
    BY <1>7, <2>1 DEF TransactUncertain, TypeOK
  <2> QED
    BY <1>7, <2>2, ReturnTypes DEF TransactUncertain, TypeOK
<1> QED
  BY <1>1, <1>2, <1>3, <1>4, <1>5, <1>6, <1>7 DEF Proof

LEMMA NextTypes == Inv /\ [Next]_vars => TypeOK'
<1> SUFFICES ASSUME Inv, [Next]_vars PROVE TypeOK'
  OBVIOUS
<1> USE DEF Inv
<1>1. CASE UNCHANGED vars
  BY <1>1 DEF vars, TypeOK
<1>2. CASE Tick \/ Move
  BY <1>2, CertsAssumption DEF Tick, Move, TypeOK, refs, local
<1>3. ASSUME NEW n \in 0..Len(floor), Restore(n) PROVE TypeOK'
  <2>1. SubSeq(floor, 1, n) \in Seq(Certs)
    BY <1>3 DEF Restore, TypeOK
  <2> QED
    BY <1>3, <2>1 DEF Restore, TypeOK
<1>4. ASSUME NEW p \in Procs, Refuse(p) PROVE TypeOK'
  BY <1>4, ReturnTypes DEF Refuse, TypeOK, refs
<1>5. ASSUME NEW p \in Procs, Crash(p) PROVE TypeOK'
  <2>1. /\ cert' \in [Procs -> Certs \cup {NoCert}] /\ base' \in [Procs -> Seq(Certs)]
        /\ due' \in [Procs -> Nat]
    BY <1>5, ForgetTypes DEF Crash
  <2> QED
    BY <1>5, <2>1 DEF Crash, TypeOK, Goto, refs
<1> QED
  BY <1>1, <1>2, <1>3, <1>4, <1>5, PolicyTypes, ProofTypes DEF Next

-----------------------------------------------------------------------------
(* Who is not concerned by a step *)

Same(q) ==
  /\ pc'[q] = pc[q] /\ at'[q] = at[q] /\ cert'[q] = cert[q] /\ base'[q] = base[q]
  /\ seen'[q] = seen[q] /\ accepted'[q] = accepted[q] /\ payload'[q] = payload[q]
  /\ (q \in told') = (q \in told) /\ due'[q] = due[q]

\* A process that does nothing keeps what it may rely on, if the floor only grows.
LEMMA Bystander ==
  ASSUME Inv, NEW q \in Procs, Same(q), FloorRevision \in Nat, FloorRevision' \in Nat,
         FloorRevision <= FloorRevision'
  PROVE  Call(q)'
<1>1. Call(q) /\ due[q] \in Nat
  BY DEF Inv, TypeOK
<1>2. Places(q)' /\ Holding(q)'
  BY <1>1 DEF Call, Places, Holding, Same
<1>3. Building(q)' /\ Signing(q)' /\ Resting(q)'
  BY <1>1 DEF Call, Building, Signing, Resting, Same
<1>4. Following(q)'
  BY <1>1 DEF Call, Following, Same
<1> QED
  BY <1>2, <1>3, <1>4 DEF Call

LEMMA FloorNat == TypeOK => FloorRevision \in Nat
BY LastIsCert, CertsAssumption DEF FloorRevision, TypeOK

LEMMA SameReturn ==
  ASSUME TypeOK, NEW p \in Procs, NEW q \in Procs \ {p}, NEW result, Return(p, result), UNCHANGED <<seen, accepted>>
  PROVE  Same(q)
<1>1. cert'[q] = cert[q] /\ base'[q] = base[q] /\ due'[q] = due[q]
  BY ForgetTypes DEF Return
<1> QED
  BY <1>1 DEF Return, TypeOK, Same, Goto

LEMMA SamePolicy ==
  ASSUME TypeOK, NEW p \in Procs, NEW q \in Procs \ {p}, Policy(p)
  PROVE  Same(q)
<1>1. ASSUME NEW c \in Certs, Initialize(p, c) \/ ReadPolicy(p, c) PROVE Same(q)
  BY <1>1 DEF Initialize, ReadPolicy, TypeOK, Same, Goto
<1>2. Open(p) \/ Prepare(p) \/ Check(p) => Same(q)
  BY DEF Open, Prepare, Check, Begin, TypeOK, Same, Goto
<1>3. Observe(p) \/ Publish(p) \/ Confirm(p) => Same(q)
  BY DEF Observe, Publish, Confirm, TypeOK, Same, Goto, local
<1>4. PublishUncertain(p) \/ Initialized(p) => Same(q)
  BY SameReturn DEF PublishUncertain, Initialized
<1>5. CASE Accept(p)
  <2>1. accepted'[q] = accepted[q] /\ seen' = seen
    BY <1>5 DEF Accept, TypeOK
  <2>2. CASE Usable(p)
    <3>1. cert'[q] = cert[q] /\ base'[q] = base[q] /\ due'[q] = due[q]
      <4>1. PICK c : Forget(p, c)
        BY <1>5, <2>2 DEF Accept
      <4> QED
        BY <4>1 DEF Forget, TypeOK
    <3> QED
      BY <1>5, <2>1, <2>2, <3>1 DEF Accept, TypeOK, Same, Goto
  <2>3. CASE ~Usable(p)
    <3>1. Return(p, "failed")
      BY <1>5, <2>3 DEF Accept
    <3>2. cert'[q] = cert[q] /\ base'[q] = base[q] /\ due'[q] = due[q]
      BY <3>1, ForgetTypes DEF Return
    <3> QED
      BY <2>1, <3>1, <3>2 DEF Return, TypeOK, Same, Goto
  <2> QED
    BY <2>2, <2>3
<1> QED
  BY <1>1, <1>2, <1>3, <1>4, <1>5 DEF Policy

LEMMA SameProof ==
  ASSUME TypeOK, NEW p \in Procs, NEW q \in Procs \ {p}, Proof(p) \/ Refuse(p) \/ Crash(p)
  PROVE  Same(q)
<1>1. ASSUME NEW id \in Ids, NEW expires \in 1..MaxTime, Bind(p, id, expires) PROVE Same(q)
  <2>1. cert'[q] = cert[q] /\ base'[q] = base[q] /\ due'[q] = due[q]
    BY <1>1, ForgetTypes DEF Bind
  <2> QED
    BY <1>1, <2>1 DEF Bind, TypeOK, Same, Goto
<1>2. Prepared(p) \/ Verified(p) \/ Replay(p) \/ Applied(p) \/ TransactUncertain(p) \/ Refuse(p) => Same(q)
  BY SameReturn DEF Prepared, Verified, Replay, Applied, TransactUncertain, Refuse
<1>3. Verify(p) \/ Snapshot(p) \/ Commit(p) \/ Transact(p) => Same(q)
  BY DEF Verify, Snapshot, Commit, Transact, TypeOK, Same, Goto, local
<1>4. CASE Crash(p)
  <2>1. cert'[q] = cert[q] /\ base'[q] = base[q] /\ due'[q] = due[q]
    BY <1>4, ForgetTypes DEF Crash
  <2> QED
    BY <1>4, <2>1 DEF Crash, TypeOK, Same, Goto
<1> QED
  BY <1>1, <1>2, <1>3, <1>4 DEF Proof

-----------------------------------------------------------------------------
(* What a call may rely on *)

\* A process outside any call relies on nothing that was read.
LEMMA ReturnCall ==
  ASSUME Inv, NEW p \in Procs, NEW result, Return(p, result), UNCHANGED seen,
         at[p] = "init" => accepted' = accepted /\ result \notin {"applied", "replayed"}
  PROVE  Call(p)'
<1>1. Call(p) /\ TypeOK
  BY DEF Inv
<1>2. /\ pc'[p] \in {"closed", "idle"} /\ at'[p] = "none" /\ due'[p] = 0 /\ base'[p] = <<>>
      /\ payload'[p] \in {payload[p], NoPayload}
  BY <1>1, ReturnTypes
<1>3. pc'[p] = "closed" => at[p] = "init"
  BY <1>1 DEF Return, Goto, TypeOK
<1>4. pc'[p] \notin Raising
  BY <1>2 DEF Raising
<1>5. Places(p)' /\ Following(p)' /\ Building(p)' /\ Signing(p)' /\ Resting(p)'
  BY <1>2, <1>4 DEF Places, Following, Building, Signing, Resting
<1>6. p \in told' => pc'[p] = "idle"
  <2>1. CASE at[p] = "init"
    <3>1. p \notin told
      BY <1>1, <2>1 DEF Call, Holding, Places
    <3>2. told' = told
      BY <2>1 DEF Return
    <3> QED
      BY <3>1, <3>2
  <2>2. CASE at[p] # "init"
    BY <1>2, <1>3, <2>2
  <2> QED
    BY <2>1, <2>2
<1> QED
  BY <1>1, <1>2, <1>3, <1>5, <1>6 DEF Call, Holding

LEMMA PolicyCall ==
  ASSUME Inv, NEW p \in Procs, Policy(p)
  PROVE  Call(p)'
<1>0. Call(p) /\ TypeOK /\ due[p] \in Nat
  BY DEF Inv, TypeOK
<1>1. ASSUME NEW c \in Certs, Initialize(p, c) PROVE Call(p)'
  <2>1. pc[p] = "closed" /\ pc'[p] = "publish" /\ at'[p] = "init" /\ cert'[p] = c
        /\ UNCHANGED <<base, seen, accepted, payload, told, due, floor>>
    BY <1>0, <1>1 DEF Initialize, Goto, TypeOK, refs
  <2>2. base[p] = <<>> /\ due[p] = 0 /\ p \notin told /\ seen[p] = NoCert /\ accepted[p] = NoCert
    BY <1>0, <2>1 DEF Call, Places, Holding, Following, Resting, Raising
  <2>3. Revision[c] \in Nat
    BY CertsAssumption
  <2>4. Places(p)' /\ Holding(p)'
    BY <1>0, <2>1, <2>2 DEF Call, Places, Holding, Raising
  <2>5. Following(p)' /\ Building(p)' /\ Signing(p)' /\ Resting(p)'
    BY <2>1, <2>2, <2>3 DEF Following, Building, Signing, Resting, Raising
  <2> QED
    BY <2>4, <2>5 DEF Call
<1>2. ASSUME NEW c \in Certs, ReadPolicy(p, c) PROVE Call(p)'
  <2>1. pc[p] = "read" /\ pc'[p] = "observe" /\ cert'[p] = c /\ due'[p] = FloorRevision
        /\ (accepted[p] # NoCert => Follows(c, accepted[p]))
        /\ UNCHANGED <<at, base, seen, accepted, payload, told, floor>>
    BY <1>0, <1>2 DEF ReadPolicy, Goto, TypeOK, refs
  <2>2. Places(p)' /\ Holding(p)'
    BY <1>0, <2>1 DEF Call, Places, Holding, Raising
  <2>3. FloorRevision' = FloorRevision /\ FloorRevision \in Nat
    BY <1>0, <2>1, FloorNat DEF FloorRevision
  <2>4. Following(p)' /\ Building(p)' /\ Signing(p)' /\ Resting(p)'
    BY <2>1, <2>3 DEF Following, Building, Signing, Resting, Raising
  <2> QED
    BY <2>2, <2>4 DEF Call
<1>3. CASE Open(p)
  <2>1. pc[p] = "closed" /\ pc'[p] = "idle"
        /\ UNCHANGED <<at, cert, base, accepted, payload, told, due, floor>>
    BY <1>0, <1>3 DEF Open, Goto, TypeOK, refs
  <2>2. at[p] = "none" /\ accepted[p] = NoCert
    BY <1>0, <2>1 DEF Call, Places, Holding
  <2> QED
    BY <1>0, <2>1, <2>2 DEF Call, Places, Holding, Following, Building, Signing, Resting, Raising
<1>4. CASE Prepare(p) \/ Check(p)
  <2>1. /\ pc[p] = "idle" /\ pc'[p] = "read" /\ p \notin told'
        /\ UNCHANGED <<cert, base, seen, accepted, due, floor>>
        /\ \/ at'[p] = "bind" /\ payload'[p] = NoPayload
           \/ at'[p] = "verify" /\ payload' = payload /\ payload[p] # NoPayload
    BY <1>0, <1>4 DEF Prepare, Check, Begin, Goto, TypeOK, refs
  <2> QED
    BY <1>0, <2>1 DEF Call, Places, Holding, Following, Building, Signing, Resting, Raising
<1>5. CASE Observe(p)
  <2>1. /\ pc[p] = "observe" /\ pc'[p] \in {"publish", "observed"} /\ floor # <<>>
        /\ UNCHANGED <<at, cert, accepted, payload, told, due, floor>>
        /\ Follows(Last(floor), seen[p]) /\ Follows(cert[p], Last(floor))
        /\ pc'[p] = "publish" => base'[p] = floor /\ cert[p] # Last(floor) /\ seen' = seen
    BY <1>0, <1>5 DEF Observe, Goto, TypeOK, refs
  <2>2. Last(floor) \in Certs /\ cert[p] \in Certs /\ at[p] # "init" /\ FloorRevision = Revision[Last(floor)]
    BY <1>0, <2>1, LastIsCert DEF Call, Places, Raising, TypeOK, FloorRevision
  <2>3. due[p] <= Revision[cert[p]]
    <3>1. due[p] <= FloorRevision /\ Revision[Last(floor)] <= Revision[cert[p]]
      BY <1>0, <2>1, <2>2, CertsAssumption DEF Call, Following, Follows
    <3> QED
      BY <1>0, <2>2, <3>1, CertsAssumption
  <2>4. Places(p)' /\ Holding(p)'
    BY <1>0, <2>1, <2>2 DEF Call, Places, Holding, Raising
  <2>5. Following(p)' /\ Signing(p)' /\ Resting(p)'
    BY <1>0, <2>1, <2>3 DEF Call, Following, Signing, Resting, Raising
  <2>6. Building(p)'
    <3> SUFFICES ASSUME pc'[p] = "publish" PROVE Building(p)'
      BY DEF Building
    <3>1. base'[p] = floor /\ cert'[p] = cert[p] /\ seen'[p] = seen[p] /\ at'[p] = at[p]
      BY <2>1
    <3>2. Revision[Last(floor)] < Revision[cert[p]]
      BY <2>1, <2>2, CertsAssumption DEF Follows
    <3>3. seen[p] # NoCert => Revision[seen[p]] <= Revision[Last(floor)]
      <4>1. seen[p] # NoCert => Revision[seen[p]] \in Nat
        BY <1>0, CertsAssumption DEF TypeOK
      <4> QED
        BY <2>1, <2>2, <4>1, CertsAssumption DEF Follows
    <3> QED
      BY <2>1, <2>2, <3>1, <3>2, <3>3 DEF Building
  <2> QED
    BY <2>4, <2>5, <2>6 DEF Call
<1>6. CASE Publish(p)
  <2>1. pc[p] = "publish" /\ pc'[p] = "confirm" /\ UNCHANGED <<at, local>>
    BY <1>0, <1>6 DEF Publish, Goto, TypeOK
  <2> QED
    BY <1>0, <2>1 DEF Call, Places, Holding, Following, Building, Signing, Resting, Raising, local
<1>7. CASE PublishUncertain(p) \/ Initialized(p)
  <2>1. PICK result : Return(p, result) /\ UNCHANGED <<seen, accepted>> /\ result \in {"uncertain", "initialized"}
    BY <1>7 DEF PublishUncertain, Initialized
  <2> QED
    BY <2>1, ReturnCall
<1>8. CASE Confirm(p)
  <2>1. /\ pc[p] = "confirm" /\ pc'[p] = "observed" /\ at[p] # "init"
        /\ UNCHANGED <<at, cert, base, accepted, payload, told, due>>
    BY <1>0, <1>8 DEF Confirm, Goto, TypeOK
  <2>2. at[p] \in {"bind", "prepared", "verify", "checked"}
    BY <1>0, <2>1 DEF Call, Places, TypeOK
  <2> QED
    BY <1>0, <2>1, <2>2 DEF Call, Places, Holding, Following, Building, Signing, Resting, Raising
<1>9. CASE Accept(p)
  <2>1. pc[p] = "observed" /\ UNCHANGED seen /\ at[p] \in {"bind", "prepared", "verify", "checked"}
    BY <1>0, <1>9 DEF Accept, Call, Places
  <2>2. CASE Usable(p)
    <3>1. pc'[p] = at[p] /\ UNCHANGED <<at, payload, told>> /\ due'[p] = 0
          /\ base'[p] = <<>> /\ cert'[p] = IF at[p] = "bind" THEN cert[p] ELSE NoCert
      BY <1>0, <1>9, <2>2 DEF Accept, Goto, Forget, TypeOK
    <3>2. Places(p)' /\ Holding(p)'
      BY <1>0, <2>1, <2>2, <3>1 DEF Call, Places, Holding, Usable, Raising
    <3>3. Following(p)' /\ Building(p)' /\ Signing(p)' /\ Resting(p)'
      BY <2>1, <3>1 DEF Following, Building, Signing, Resting, Raising
    <3> QED
      BY <3>2, <3>3 DEF Call
  <2>3. CASE ~Usable(p)
    <3>1. Return(p, "failed")
      BY <1>9, <2>3 DEF Accept
    <3> QED
      BY <2>1, <3>1, ReturnCall
  <2> QED
    BY <2>2, <2>3
<1> QED
  BY <1>1, <1>2, <1>3, <1>4, <1>5, <1>6, <1>7, <1>8, <1>9 DEF Policy

LEMMA ProofCall ==
  ASSUME Inv, NEW p \in Procs, Proof(p)
  PROVE  Call(p)'
<1>0. Call(p) /\ TypeOK /\ due[p] \in Nat
  BY DEF Inv, TypeOK
<1>1. ASSUME NEW id \in Ids, NEW expires \in 1..MaxTime, Bind(p, id, expires) PROVE Call(p)'
  <2>1. /\ pc[p] = "bind" /\ pc'[p] = "read" /\ at'[p] = "prepared" /\ payload'[p] = Signed(p, id, expires)
        /\ due'[p] = 0 /\ UNCHANGED <<seen, accepted, told>>
    BY <1>0, <1>1 DEF Bind, Goto, Forget, TypeOK
  <2>2. cert[p] \in Certs /\ cert[p] \notin Revoked /\ at[p] = "bind" /\ p \notin told
    BY <1>0, <2>1 DEF Call, Places, Holding
  <2>3. Signed(p, id, expires) \in Payload /\ Signed(p, id, expires).cert = cert[p]
    BY <1>0, <2>2 DEF Signed, Payload, TypeOK
  <2>4. payload'[p] # NoPayload
    BY <2>1, <2>3, NoPayloadAssumption
  <2>5. Places(p)' /\ Holding(p)'
    BY <1>0, <2>1, <2>2, <2>3, <2>4 DEF Places, Holding, Raising
  <2>6. Following(p)' /\ Building(p)' /\ Signing(p)' /\ Resting(p)'
    BY <2>1 DEF Following, Building, Signing, Resting, Raising
  <2> QED
    BY <2>5, <2>6 DEF Call
<1>2. CASE Prepared(p) \/ Verified(p) \/ Replay(p) \/ Applied(p) \/ TransactUncertain(p)
  <2>1. PICK result : Return(p, result) /\ UNCHANGED <<seen, accepted>>
    BY <1>2 DEF Prepared, Verified, Replay, Applied, TransactUncertain
  <2>2. at[p] # "init"
    BY <1>0, <1>2 DEF Prepared, Verified, Replay, Applied, TransactUncertain, Call, Places
  <2> QED
    BY <2>1, <2>2, ReturnCall
<1>3. CASE Verify(p)
  <2>1. pc[p] = "verify" /\ pc'[p] = "read" /\ at'[p] = "checked" /\ UNCHANGED local
    BY <1>0, <1>3 DEF Verify, Goto, TypeOK
  <2> QED
    BY <1>0, <2>1 DEF Call, Places, Holding, Following, Building, Signing, Resting, Raising, local
<1>4. CASE Snapshot(p)
  <2>1. /\ pc[p] = "checked" /\ pc'[p] = "consume" /\ base'[p] = floor
        /\ floor # <<>> /\ Last(floor) = payload[p].cert
        /\ UNCHANGED <<at, cert, seen, accepted, payload, told, due>>
    BY <1>0, <1>4 DEF Snapshot, Goto, TypeOK
  <2> QED
    BY <1>0, <2>1 DEF Call, Places, Holding, Following, Building, Signing, Resting, Raising
<1>5. CASE Commit(p)
  <2>1. pc[p] = "consume" /\ pc'[p] = "transact" /\ UNCHANGED <<at, local>>
    BY <1>0, <1>5 DEF Commit, Goto, TypeOK
  <2> QED
    BY <1>0, <2>1 DEF Call, Places, Holding, Following, Building, Signing, Resting, Raising, local
<1>6. CASE Transact(p)
  <2>1. pc[p] = "transact" /\ pc'[p] = "reread" /\ UNCHANGED <<at, local>>
    BY <1>0, <1>6 DEF Transact, Goto, TypeOK
  <2> QED
    BY <1>0, <2>1 DEF Call, Places, Holding, Following, Building, Signing, Resting, Raising, local
<1> QED
  BY <1>1, <1>2, <1>3, <1>4, <1>5, <1>6 DEF Proof

-----------------------------------------------------------------------------
(* The invariant *)

\* A crash leaves a process that relies on nothing.
LEMMA CrashCall ==
  ASSUME Inv, NEW p \in Procs, Crash(p)
  PROVE  Call(p)'
<1>0. TypeOK
  BY DEF Inv
<1>1. /\ pc'[p] = "closed" /\ at'[p] = "none" /\ due'[p] = 0 /\ base'[p] = <<>>
      /\ seen'[p] = NoCert /\ accepted'[p] = NoCert /\ payload'[p] = NoPayload /\ p \notin told'
  <2>1. due'[p] = 0 /\ base'[p] = <<>>
    BY <1>0, ForgetTypes DEF Crash
  <2> QED
    BY <1>0, <2>1 DEF Crash, Goto, TypeOK
<1> QED
  BY <1>1 DEF Call, Places, Holding, Following, Building, Signing, Resting, Raising

\* No step of a host lowers the floor: what it publishes is above what it read.
LEMMA FloorGrows ==
  ASSUME Inv, NEW p \in Procs, floor' = floor \/ (pc[p] = "publish" /\ Unmoved(p) /\ floor' = Published(p))
  PROVE  /\ FloorRevision \in Nat /\ FloorRevision' \in Nat /\ FloorRevision <= FloorRevision'
         /\ floor' # floor => FloorRevision < Revision[cert[p]]
<1>0. Call(p) /\ TypeOK /\ FloorRevision \in Nat
  BY FloorNat DEF Inv
<1>1. CASE floor' = floor
  <2>1. FloorRevision' = FloorRevision
    BY <1>1 DEF FloorRevision
  <2> QED
    BY <1>0, <1>1, <2>1
<1>2. CASE pc[p] = "publish" /\ Unmoved(p) /\ floor' = Published(p)
  <2>1. cert[p] \in Certs /\ base[p] = floor /\ floor' = Append(floor, cert[p])
    BY <1>0, <1>2 DEF Call, Places, Raising, Unmoved, Published
  <2>2. floor' # <<>> /\ Last(floor') = cert[p]
    BY <1>0, <2>1, LastOfAppend DEF TypeOK
  <2>3. FloorRevision' = Revision[cert[p]]
    BY <2>2 DEF FloorRevision
  <2>4. Revision[cert[p]] \in Nat \ {0}
    BY <2>1, CertsAssumption
  <2>5. FloorRevision < Revision[cert[p]]
    <3>1. CASE floor = <<>>
      BY <2>4, <3>1 DEF FloorRevision
    <3>2. CASE floor # <<>>
      BY <1>0, <1>2, <2>1, <3>2 DEF Call, Building, FloorRevision
    <3> QED
      BY <3>1, <3>2
  <2> QED
    BY <1>0, <2>3, <2>4, <2>5
<1> QED
  BY <1>1, <1>2

LEMMA HostFloor ==
  ASSUME Inv, NEW p \in Procs, Policy(p) \/ Proof(p) \/ Refuse(p) \/ Crash(p)
  PROVE  floor' = floor \/ (pc[p] = "publish" /\ Unmoved(p) /\ floor' = Published(p))
<1>1. Policy(p) => floor' = floor \/ (pc[p] = "publish" /\ Unmoved(p) /\ floor' = Published(p))
  BY DEF Policy, Initialize, ReadPolicy, Open, Prepare, Check, Begin, Observe, Publish, PublishUncertain,
         Confirm, Initialized, Accept, refs
<1>2. Proof(p) => floor' = floor
  BY DEF Proof, Bind, Prepared, Verify, Verified, Snapshot, Replay, Commit, Transact, TransactUncertain,
         Applied, refs
<1>3. Refuse(p) \/ Crash(p) => floor' = floor
  BY DEF Refuse, Crash, refs
<1> QED
  BY <1>1, <1>2, <1>3

LEMMA NextCalls ==
  ASSUME Inv, [Next]_vars, NEW q \in Procs
  PROVE  Call(q)'
<1>0. Call(q) /\ TypeOK /\ FloorRevision \in Nat
  BY FloorNat DEF Inv
<1>1. CASE UNCHANGED vars \/ Tick \/ Move
  <2>1. Same(q) /\ floor' = floor
    BY <1>1 DEF vars, Tick, Move, Same, refs, local
  <2>2. FloorRevision' = FloorRevision
    BY <2>1 DEF FloorRevision
  <2> QED
    BY <1>0, <2>1, <2>2, Bystander
<1>2. ASSUME NEW n \in 0..Len(floor), Restore(n) PROVE Call(q)'
  <2>1. /\ UNCHANGED <<pc, at, cert, base, seen, accepted, payload, told>> /\ due'[q] = 0
    BY <1>2 DEF Restore
  <2>2. FloorRevision' \in Nat
    <3>1. floor' \in Seq(Certs)
      BY NextTypes, <1>2 DEF Next, TypeOK
    <3> QED
      BY <3>1, LastIsCert, CertsAssumption DEF FloorRevision
  <2>3. pc[q] \in Raising => Revision[cert[q]] \in Nat
    BY <1>0, CertsAssumption DEF Call, Places
  <2>4. Places(q)' /\ Holding(q)' /\ Building(q)' /\ Signing(q)' /\ Resting(q)'
    BY <1>0, <2>1 DEF Call, Places, Holding, Building, Signing, Resting
  <2>5. Following(q)'
    BY <1>0, <2>1, <2>2, <2>3 DEF Call, Following, Raising
  <2> QED
    BY <2>4, <2>5 DEF Call
<1>3. ASSUME NEW p \in Procs, Policy(p) \/ Proof(p) \/ Refuse(p) \/ Crash(p) PROVE Call(q)'
  <2>1. CASE p = q
    <3>1. CASE Refuse(p)
      <4>1. PICK result : Return(p, result) /\ UNCHANGED <<seen, accepted>> /\ result \in {"uncertain", "failed"}
        BY <3>1 DEF Refuse
      <4> QED
        BY <2>1, <4>1, ReturnCall
    <3> QED
      BY <1>3, <2>1, <3>1, PolicyCall, ProofCall, CrashCall
  <2>2. CASE p # q
    <3>1. Same(q)
      BY <1>0, <1>3, <2>2, SamePolicy, SameProof
    <3>2. FloorRevision' \in Nat /\ FloorRevision <= FloorRevision'
      BY <1>3, HostFloor, FloorGrows
    <3> QED
      BY <1>0, <3>1, <3>2, Bystander
  <2> QED
    BY <2>1, <2>2
<1> QED
  BY <1>1, <1>2, <1>3 DEF Next

\* A use is only ever recorded by a transaction, and only where there was none.
LEMMA UsesStep ==
  ASSUME Inv, [Next]_vars
  PROVE  \/ uses' = uses
         \/ \E p \in Procs : /\ pc[p] = "transact" /\ Unchanged(p)
                             /\ uses' = [uses EXCEPT ![payload[p].id] = payload[p]]
<1>1. CASE UNCHANGED vars \/ Tick \/ Move
  BY <1>1 DEF vars, Tick, Move, refs
<1>2. ASSUME NEW n \in 0..Len(floor), Restore(n) PROVE uses' = uses
  BY <1>2 DEF Restore
<1>3. ASSUME NEW p \in Procs, Policy(p) \/ Refuse(p) \/ Crash(p) PROVE uses' = uses
  BY <1>3 DEF Policy, Initialize, ReadPolicy, Open, Prepare, Check, Begin, Observe, Publish, PublishUncertain,
              Confirm, Initialized, Accept, Refuse, Crash, refs
<1>4. ASSUME NEW p \in Procs, Proof(p)
      PROVE  \/ uses' = uses
             \/ /\ pc[p] = "transact" /\ Unchanged(p)
                /\ uses' = [uses EXCEPT ![payload[p].id] = payload[p]]
  BY <1>4 DEF Proof, Bind, Prepared, Verify, Verified, Snapshot, Replay, Commit, Transact, TransactUncertain,
              Applied, refs
<1> QED
  BY <1>1, <1>2, <1>3, <1>4 DEF Next

LEMMA UsesKept ==
  ASSUME Inv, [Next]_vars
  PROVE  UsesMatch' /\ \A id \in Ids : uses[id] # NoPayload => uses'[id] = uses[id]
<1>0. UsesMatch /\ TypeOK
  BY DEF Inv
<1>1. CASE uses' = uses
  BY <1>0, <1>1 DEF UsesMatch
<1>2. ASSUME NEW p \in Procs, pc[p] = "transact", Unchanged(p),
             uses' = [uses EXCEPT ![payload[p].id] = payload[p]]
      PROVE  UsesMatch' /\ \A id \in Ids : uses[id] # NoPayload => uses'[id] = uses[id]
  <2>1. payload[p] \in Payload /\ payload[p].id \in Ids
    BY <1>0, <1>2, PayloadFields DEF Inv, Call, Places, Holding, TypeOK
  <2>2. uses[payload[p].id] = NoPayload
    BY <1>2 DEF Unchanged, Use
  <2>3. \A id \in Ids : uses'[id] = IF id = payload[p].id THEN payload[p] ELSE uses[id]
    BY <1>0, <1>2 DEF TypeOK
  <2> QED
    BY <1>0, <2>1, <2>2, <2>3 DEF UsesMatch
<1> QED
  BY <1>1, <1>2, UsesStep

\* Only a call that found its own payload among the uses reports it.
LEMMA ToldStep ==
  ASSUME Inv, NEW p \in Procs, Policy(p) \/ Proof(p) \/ Refuse(p) \/ Crash(p), p \in told'
  PROVE  /\ payload'[p] = payload[p] /\ payload[p] # NoPayload
         /\ Use(p) = payload[p] /\ uses' = uses
<1>0. Call(p) /\ TypeOK
  BY DEF Inv
<1>1. p \in told => pc[p] = "idle"
  BY <1>0 DEF Call, Holding
<1>2. ~Policy(p)
  BY <1>0, <1>1 DEF Policy, Initialize, ReadPolicy, Open, Prepare, Check, Begin, Observe, Publish,
                    PublishUncertain, Confirm, Initialized, Accept, Return, local
<1>3. ~Refuse(p)
  BY <1>1 DEF Refuse, Return, Calling
<1>4. ~Crash(p)
  BY DEF Crash
<1>5. Replay(p) \/ Applied(p)
  BY <1>1, <1>2, <1>3, <1>4 DEF Proof, Bind, Prepared, Verify, Verified, Snapshot, Commit, Transact,
                                TransactUncertain, Return, local
<1>6. at[p] = "checked" /\ payload[p] # NoPayload
  BY <1>0, <1>5 DEF Replay, Applied, Call, Places, Holding
<1>7. payload'[p] = payload[p]
  BY <1>0, <1>5, <1>6 DEF Replay, Applied, Return, TypeOK
<1> QED
  BY <1>5, <1>6, <1>7 DEF Replay, Applied, SameUse, refs

LEMMA NextReports ==
  ASSUME Inv, [Next]_vars
  PROVE  ReportsHold'
<1> SUFFICES ASSUME NEW q \in told' PROVE payload'[q] # NoPayload /\ uses'[payload'[q].id] = payload'[q]
  BY DEF ReportsHold, Use
<1>0. TypeOK /\ TypeOK' /\ ReportsHold
  BY NextTypes DEF Inv
<1>1. q \in Procs
  BY <1>0 DEF TypeOK
<1>2. ASSUME payload'[q] = payload[q], q \in told
      PROVE  payload'[q] # NoPayload /\ uses'[payload'[q].id] = payload'[q]
  <2>1. payload[q] # NoPayload /\ uses[payload[q].id] = payload[q]
    BY <1>0, <1>2 DEF ReportsHold, Use
  <2>2. payload[q].id \in Ids
    BY <1>0, <1>1, <2>1, PayloadFields DEF TypeOK
  <2> QED
    BY <1>2, <2>1, <2>2, UsesKept
<1>3. CASE UNCHANGED vars \/ Tick \/ Move
  BY <1>2, <1>3 DEF vars, Tick, Move, local
<1>4. ASSUME NEW n \in 0..Len(floor), Restore(n)
      PROVE  payload'[q] # NoPayload /\ uses'[payload'[q].id] = payload'[q]
  BY <1>2, <1>4 DEF Restore
<1>5. ASSUME NEW p \in Procs, Policy(p) \/ Proof(p) \/ Refuse(p) \/ Crash(p)
      PROVE  payload'[q] # NoPayload /\ uses'[payload'[q].id] = payload'[q]
  <2>1. CASE p = q
    BY <1>5, <2>1, ToldStep DEF Use
  <2>2. CASE p # q
    <3>1. Same(q)
      BY <1>0, <1>1, <1>5, <2>2, SamePolicy, SameProof
    <3> QED
      BY <1>2, <3>1 DEF Same
  <2> QED
    BY <2>1, <2>2
<1> QED
  BY <1>3, <1>4, <1>5 DEF Next

LEMMA NextInv == Inv /\ [Next]_vars => Inv'
BY NextTypes, NextCalls, UsesKept, NextReports DEF Inv

\* The properties that the theorems below are about, as consequences of the invariant.

LEMMA StepFloor ==
  ASSUME Inv, [Next]_vars
  PROVE  \/ floor' = floor
         \/ \E n \in 0..(Len(floor) - 1) : floor' = SubSeq(floor, 1, n)
         \/ \E p \in Procs :
              /\ pc[p] = "publish" /\ floor' = Append(floor, cert[p])
              /\ FloorRevision < Revision[cert[p]]
              /\ seen[p] # NoCert => Revision[seen[p]] <= FloorRevision
<1>1. CASE UNCHANGED vars \/ Tick \/ Move
  BY <1>1 DEF vars, Tick, Move, refs
<1>2. ASSUME NEW n \in 0..Len(floor), Restore(n)
      PROVE  \E m \in 0..(Len(floor) - 1) : floor' = SubSeq(floor, 1, m)
  <2>1. Len(floor) \in Nat
    BY DEF Inv, TypeOK
  <2>2. n \in 0..(Len(floor) - 1)
    BY <1>2, <2>1 DEF Restore
  <2> QED
    BY <1>2, <2>2 DEF Restore
<1>3. ASSUME NEW p \in Procs, Policy(p) \/ Proof(p) \/ Refuse(p) \/ Crash(p), floor' # floor
      PROVE  /\ pc[p] = "publish" /\ floor' = Append(floor, cert[p])
             /\ FloorRevision < Revision[cert[p]]
             /\ seen[p] # NoCert => Revision[seen[p]] <= FloorRevision
  <2>1. pc[p] = "publish" /\ Unmoved(p) /\ floor' = Published(p)
    BY <1>3, HostFloor
  <2>2. floor' = Append(floor, cert[p]) /\ base[p] = floor
    BY <2>1 DEF Unmoved, Published
  <2>3. FloorRevision < Revision[cert[p]]
    BY <1>3, <2>1, FloorGrows
  <2>4. seen[p] # NoCert => Revision[seen[p]] <= FloorRevision
    BY <2>1, <2>2 DEF Inv, Call, Building, Holding, FloorRevision
  <2> QED
    BY <2>1, <2>2, <2>3, <2>4
<1> QED
  BY <1>1, <1>2, <1>3 DEF Next

LEMMA StepAccepted ==
  ASSUME Inv, [Next]_vars, NEW p \in Procs, accepted'[p] \notin {accepted[p], NoCert}
  PROVE  /\ Revision[accepted'[p]] >= due[p]
         /\ accepted[p] # NoCert => Revision[accepted'[p]] > Revision[accepted[p]]
<1>0. TypeOK /\ Call(p)
  BY DEF Inv
<1>1. ~(UNCHANGED vars \/ Tick \/ Move)
  BY DEF vars, Tick, Move, local
<1>2. \A n \in 0..Len(floor) : ~Restore(n)
  BY DEF Restore
<1>3. Accept(p)
  <2>1. PICK q \in Procs : Policy(q) \/ Proof(q) \/ Refuse(q) \/ Crash(q)
    BY <1>1, <1>2 DEF Next
  <2>2. q = p
    <3>1. q # p => Same(p)
      BY <1>0, <2>1, SamePolicy, SameProof
    <3> QED
      BY <3>1 DEF Same
  <2>3. ~Crash(p)
    BY <1>0 DEF Crash, TypeOK
  <2>4. ~Proof(p) /\ ~Refuse(p)
    BY DEF Proof, Bind, Prepared, Verify, Verified, Snapshot, Replay, Commit, Transact, TransactUncertain,
           Applied, Refuse, local
  <2> QED
    BY <2>1, <2>2, <2>3, <2>4 DEF Policy, Initialize, ReadPolicy, Open, Prepare, Check, Begin, Observe,
                                  Publish, PublishUncertain, Confirm, Initialized, local
<1>4. accepted'[p] = cert[p] /\ pc[p] = "observed"
  BY <1>0, <1>3 DEF Accept, TypeOK
<1>5. cert[p] \in Certs /\ due[p] <= Revision[cert[p]] /\ due[p] \in Nat
      /\ (accepted[p] # NoCert => Follows(cert[p], accepted[p]) /\ accepted[p] \in Certs)
  BY <1>0, <1>4 DEF Call, Places, Following, Raising, TypeOK
<1>6. Revision[cert[p]] \in Nat /\ (accepted[p] \in Certs => Revision[accepted[p]] \in Nat)
  BY <1>5, CertsAssumption
<1> QED
  BY <1>4, <1>5, <1>6 DEF Follows

LEMMA StepUse ==
  ASSUME Inv, [Next]_vars, NEW id \in Ids, uses'[id] # uses[id]
  PROVE  /\ uses[id] = NoPayload
         /\ uses'[id].id = id /\ uses'[id].cert \notin Revoked
         /\ floor # <<>> /\ Last(floor) = uses'[id].cert
         /\ review = uses'[id].review
<1>1. PICK p \in Procs : /\ pc[p] = "transact" /\ Unchanged(p)
                         /\ uses' = [uses EXCEPT ![payload[p].id] = payload[p]]
  BY UsesStep
<1>2. Call(p) /\ uses \in [Ids -> Payload \cup {NoPayload}] /\ payload[p].cert \notin Revoked
      /\ base[p] # <<>> /\ Last(base[p]) = payload[p].cert
  BY <1>1 DEF Inv, TypeOK, Call, Places, Holding, Signing
<1>3. id = payload[p].id /\ uses'[id] = payload[p]
  BY <1>1, <1>2
<1> QED
  BY <1>1, <1>2, <1>3 DEF Unchanged, Use, Bound, Unmoved

-----------------------------------------------------------------------------
(* Theorems *)

\* At each of its places, a call may rely on what Call says of it.
THEOREM Invariant == Spec => []Inv
BY InitInv, NextInv, PTL DEF Spec

\* The variables have their types: a call never goes on with a certificate or payload it has not.
THEOREM TypeCorrect == Spec => []TypeOK
<1>1. Inv => TypeOK
  BY DEF Inv
<1> QED
  BY <1>1, Invariant, PTL

\* A caller that is told its challenge is consumed (consume, applied or replayed) finds its own
\* proof under that challenge, for ever.
THEOREM ReportsStand == Spec => []ReportsHold
<1>1. Inv => ReportsHold
  BY DEF Inv
<1> QED
  BY <1>1, Invariant, PTL

\* The floor's ref only ever gains a certificate of a higher revision, or is restored.
THEOREM FloorOnlyAdvances == Spec => FloorAdvances
<1>1. Inv /\ [Next]_vars =>
        [\/ floor' = floor
         \/ \E n \in 0..(Len(floor) - 1) : floor' = SubSeq(floor, 1, n)
         \/ \E p \in Procs :
              /\ pc[p] = "publish" /\ floor' = Append(floor, cert[p])
              /\ FloorRevision < Revision[cert[p]]
              /\ seen[p] # NoCert => Revision[seen[p]] <= FloorRevision]_vars
  BY StepFloor
<1> QED
  BY <1>1, Invariant, PTL DEF Spec, FloorAdvances

\* A host accepts certificates of ever higher revisions, none below the floor at its reading.
THEOREM HostsNeverGoBack == Spec => AcceptedNeverOlder
<1>1. Inv /\ [Next]_vars =>
        [\A p \in Procs : accepted'[p] \notin {accepted[p], NoCert} =>
           /\ Revision[accepted'[p]] >= due[p]
           /\ accepted[p] # NoCert => Revision[accepted'[p]] > Revision[accepted[p]]]_vars
  BY StepAccepted
<1> QED
  BY <1>1, Invariant, PTL DEF Spec, AcceptedNeverOlder

\* A challenge is used once, under the floor and the refs that were signed.
THEOREM UseIsOnceAsSigned == Spec => ConsumedAsSigned
<1>1. Inv /\ [Next]_vars =>
        [\A id \in Ids : uses'[id] # uses[id] =>
           /\ uses[id] = NoPayload
           /\ LET used == uses'[id] IN
                /\ used.id = id /\ used.cert \notin Revoked
                /\ floor # <<>> /\ Last(floor) = used.cert
                /\ review = used.review]_vars
  BY StepUse
<1> QED
  BY <1>1, Invariant, PTL DEF Spec, ConsumedAsSigned
=============================================================================
