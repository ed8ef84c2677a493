------------------------- MODULE ReviewControl_proofs -------------------------
(***************************************************************************)
(* Proofs about the review control, for any sessions, worktrees, workers   *)
(* and limits: its concurrent, repeated and killed writes implement the    *)
(* atomic record of module ReviewLease, whose history is fenced and at     *)
(* most once per operation id, and its definite answers stay true.         *)
(***************************************************************************)
EXTENDS ReviewControl, TLAPS

\* What Append does to the operations.
LEMMA AppendFacts ==
  ASSUME NEW s \in Seq(Entry), NEW e \in Entry
  PROVE  /\ Append(s, e) \in Seq(Entry)
         /\ Len(s) \in Nat /\ Len(Append(s, e)) = Len(s) + 1
         /\ DOMAIN s = 1..Len(s) /\ DOMAIN Append(s, e) = 1..(Len(s) + 1)
         /\ \A i \in 1..Len(s) : Append(s, e)[i] = s[i]
         /\ Append(s, e)[Len(s) + 1] = e
OBVIOUS

\* The fields of an entry.
LEMMA EntryFields ==
  ASSUME NEW e \in Entry
  PROVE  /\ e.req \in Request /\ e.tree \in Trees
         /\ e.req.key \in Keys /\ e.req.op \in Operations /\ e.req.session \in Sessions
         /\ e.req.expected \in Nat /\ e.req.generation \in Nat /\ e.req.batch \in Nat
         /\ e.req.batch \in 0..MaxBatch /\ OwnerOf(e) \in Owners
BY ContractAssumption DEF Entry, Request, OwnerOf, Owners

\* Applying an entry gives a record with the entry at its end.
LEMMA AfterFacts ==
  ASSUME NEW r \in Record, NEW e \in Entry
  PROVE  /\ After(r, e) \in Record
         /\ Revision(r) \in Nat /\ Revision(After(r, e)) = Revision(r) + 1
         /\ DOMAIN r.operations = 1..Revision(r)
         /\ DOMAIN After(r, e).operations = 1..(Revision(r) + 1)
         /\ \A i \in 1..Revision(r) : After(r, e).operations[i] = r.operations[i]
         /\ After(r, e).operations[Revision(r) + 1] = e
<1>1. r.operations \in Seq(Entry) /\ r.generation \in Nat /\ r.owner \in Owners \cup {NoOwner}
      /\ r.batch \in 0..MaxBatch
  BY DEF Record
<1>2. After(r, e).operations = Append(r.operations, e)
  BY DEF After
<1>3. After(r, e) \in Record
  BY <1>1, EntryFields, AppendFacts DEF After, Record
<1> QED
  BY <1>1, <1>2, <1>3, AppendFacts DEF Revision

\* What Append keeps of each property of a history, for any history and appended entry.
LEMMA KeysAppend ==
  ASSUME NEW h \in Seq(Entry), NEW e \in Entry, OneOperationPerKey(h),
         \A i \in DOMAIN h : h[i].req.key # e.req.key
  PROVE  OneOperationPerKey(Append(h, e))
BY AppendFacts DEF OneOperationPerKey

LEMMA GenerationsAppend ==
  ASSUME NEW h \in Seq(Entry), NEW e \in Entry, GenerationsIncrease(h),
         Claims(e.req) => GenerationCurrent(h, e.req.generation)
  PROVE  GenerationsIncrease(Append(h, e))
BY AppendFacts DEF GenerationsIncrease, GenerationCurrent

LEMMA SnapshotsAppend ==
  ASSUME NEW h \in Seq(Entry), NEW e \in Entry, SnapshotsIncrease(h),
         e.req.op = "publish" => \A i \in DOMAIN h :
           h[i].req.op = "publish" => h[i].req.batch < e.req.batch
  PROVE  SnapshotsIncrease(Append(h, e))
BY AppendFacts DEF SnapshotsIncrease

LEMMA GrantsAppend ==
  ASSUME NEW h \in Seq(Entry), NEW e \in Entry,
         NEW j \in 1..Len(h), NEW i \in 1..(j - 1), Grants(h, i, j)
  PROVE  Grants(Append(h, e), i, j)
<1> DEFINE g == Append(h, e)
<1>1. Len(h) \in Nat /\ \A k \in 1..Len(h) : g[k] = h[k]
  BY AppendFacts
<1>2. i \in 1..Len(h) /\ \A k \in (i + 1)..(j - 1) : k \in 1..Len(h)
  BY <1>1
<1> HIDE DEF g
<1>3. Grants(g, i, j)
  BY <1>1, <1>2 DEF Grants
<1> QED
  BY <1>3 DEF g

LEMMA FencedAppend ==
  ASSUME NEW h \in Seq(Entry), NEW e \in Entry, FencedHistory(h),
         e.req.op \in {"publish", "release"} =>
           OwnerCurrent(h, OwnerOf(e), e.req.generation) /\ OwnerOf(e) # NoOwner
  PROVE  FencedHistory(Append(h, e))
<1> DEFINE g == Append(h, e)
           n == Len(h)
<1>1. n \in Nat /\ (\A k \in 1..n : g[k] = h[k]) /\ g[n + 1] = e
      /\ DOMAIN h = 1..n /\ DOMAIN g = 1..(n + 1)
  BY AppendFacts
<1>2. \A j \in 1..(n + 1) : j \in 1..n \/ j = n + 1
  BY <1>1
<1>3. ASSUME NEW j \in 1..n, g[j].req.op \in {"publish", "release"}
      PROVE  \E i \in 1..(j - 1) : Grants(g, i, j)
  <2>1. PICK i \in 1..(j - 1) : Grants(h, i, j)
    BY <1>1, <1>3 DEF FencedHistory
  <2> QED
    BY <2>1, GrantsAppend
<1>4. ASSUME e.req.op \in {"publish", "release"}
      PROVE  \E i \in 1..((n + 1) - 1) : Grants(g, i, n + 1)
  <2>1. PICK i \in 1..n : /\ Claims(h[i].req) /\ OwnerOf(h[i]) = OwnerOf(e)
                          /\ e.req.generation = h[i].req.generation + 1
                          /\ \A k \in (i + 1)..n : h[k].req.op = "publish"
    BY <1>1, <1>4 DEF OwnerCurrent
  <2>2. \A k \in (i + 1)..((n + 1) - 1) : k \in (i + 1)..n /\ k \in 1..n
    BY <1>1
  <2> HIDE DEF g, n
  <2>3. Grants(g, i, n + 1)
    BY <1>1, <2>1, <2>2 DEF Grants
  <2> QED
    BY <1>1, <2>3
<1> HIDE DEF g, n
<1>5. FencedHistory(g)
  BY <1>1, <1>2, <1>3, <1>4 DEF FencedHistory
<1> QED
  BY <1>5 DEF g

\* A claim makes its entry's owner the current one; a snapshot leaves the owner current.
LEMMA OwnerCurrentAppend ==
  ASSUME NEW h \in Seq(Entry), NEW e \in Entry, NEW owner, NEW generation
  PROVE  /\ Claims(e.req) => OwnerCurrent(Append(h, e), OwnerOf(e), e.req.generation + 1)
         /\ e.req.op = "publish" /\ OwnerCurrent(h, owner, generation)
              => OwnerCurrent(Append(h, e), owner, generation)
<1> DEFINE g == Append(h, e)
           n == Len(h)
<1>1. n \in Nat /\ (\A k \in 1..n : g[k] = h[k]) /\ g[n + 1] = e /\ Len(g) = n + 1
      /\ DOMAIN h = 1..n /\ DOMAIN g = 1..(n + 1)
  BY AppendFacts
<1>2. /\ \A i \in 1..n : i \in 1..(n + 1)
      /\ \A i \in 1..n : \A k \in (i + 1)..(n + 1) : k = n + 1 \/ (k \in (i + 1)..n /\ k \in 1..n)
      /\ \A k \in ((n + 1) + 1)..(n + 1) : FALSE
      /\ n + 1 \in 1..(n + 1)
  BY <1>1
<1> HIDE DEF g, n
<1>3. Claims(e.req) => OwnerCurrent(g, OwnerOf(e), e.req.generation + 1)
  BY <1>1, <1>2 DEF OwnerCurrent
<1>4. ASSUME e.req.op = "publish", OwnerCurrent(h, owner, generation), owner # NoOwner
      PROVE  \E i \in DOMAIN g : /\ Claims(g[i].req) /\ OwnerOf(g[i]) = owner
                                 /\ generation = g[i].req.generation + 1
                                 /\ \A k \in (i + 1)..Len(g) : g[k].req.op = "publish"
  <2>1. PICK i \in 1..n : /\ Claims(h[i].req) /\ OwnerOf(h[i]) = owner
                          /\ generation = h[i].req.generation + 1
                          /\ \A k \in (i + 1)..Len(h) : h[k].req.op = "publish"
    BY <1>1, <1>4 DEF OwnerCurrent
  <2>2. Len(h) = n
    BY DEF n
  <2>3. \A k \in (i + 1)..(n + 1) : g[k].req.op = "publish"
    BY <1>1, <1>2, <1>4, <2>1, <2>2
  <2> QED
    BY <1>1, <1>2, <2>1, <2>3
<1>5. e.req.op = "publish" /\ OwnerCurrent(h, owner, generation)
        => OwnerCurrent(g, owner, generation)
  BY <1>4 DEF OwnerCurrent
<1> QED
  BY <1>3, <1>5 DEF g

\* The empty record satisfies every property of a history.
LEMMA EmptySound == rec = EmptyRecord => LeaseInv
<1> SUFFICES ASSUME rec = EmptyRecord PROVE LeaseInv
  OBVIOUS
<1>1. rec \in Record /\ DOMAIN rec.operations = {} /\ rec.owner = NoOwner
  BY ContractAssumption DEF EmptyRecord, Record
<1> QED
  BY <1>1 DEF LeaseInv, RecordOK, HistorySound, OneOperationPerKey,
     FencedHistory, GenerationsIncrease, SnapshotsIncrease, Current,
     OwnerCurrent, GenerationCurrent, BatchCurrent

\* One admissible operation with a new id keeps the history sound.
LEMMA ApplySound ==
  ASSUME LeaseInv, NEW e \in Entry, Apply(e)
  PROVE  LeaseInv'
<1> DEFINE h == rec.operations
<1>1. /\ h \in Seq(Entry) /\ rec \in Record /\ rec' = After(rec, e) /\ rec' \in Record
      /\ rec'.operations = Append(h, e) /\ Len(h) \in Nat /\ DOMAIN h = 1..Len(h)
  BY AfterFacts, AppendFacts DEF LeaseInv, RecordOK, Apply, Record, After
<1>2. /\ OneOperationPerKey(h) /\ FencedHistory(h)
      /\ GenerationsIncrease(h) /\ SnapshotsIncrease(h)
      /\ OwnerCurrent(h, rec.owner, rec.generation)
      /\ GenerationCurrent(h, rec.generation) /\ BatchCurrent(h, rec.batch)
  BY DEF LeaseInv, HistorySound, Current
<1>3. /\ e.req.generation = rec.generation /\ OwnerAllows(rec, e) /\ SnapshotAdvances(rec, e.req)
      /\ \A i \in DOMAIN h : h[i].req.key # e.req.key
  BY DEF Apply, Admissible, CurrentGeneration, KeyKnown
<1>4. /\ rec'.generation = IF Claims(e.req) THEN rec.generation + 1 ELSE rec.generation
      /\ rec'.owner = IF Claims(e.req) THEN OwnerOf(e)
                      ELSE IF e.req.op = "release" THEN NoOwner ELSE rec.owner
      /\ rec'.batch = IF e.req.op = "publish" THEN e.req.batch ELSE rec.batch
  BY <1>1 DEF After
<1>5. rec.generation \in Nat /\ rec.batch \in Nat
  BY <1>1, ContractAssumption DEF Record
<1>6. \A i \in 1..Len(h) : h[i] \in Entry /\ h[i].req.generation \in Nat /\ h[i].req.batch \in Nat
  BY <1>1, EntryFields
<1>7. e.req.op \in Operations /\ e.req.batch \in Nat /\ OwnerOf(e) # NoOwner
  BY EntryFields, ContractAssumption DEF Owners
<1> HIDE DEF h
<1>8. OneOperationPerKey(Append(h, e))
  BY <1>1, <1>2, <1>3, KeysAppend
<1>9. GenerationsIncrease(Append(h, e))
  BY <1>1, <1>2, <1>3, GenerationsAppend
<1>10. SnapshotsIncrease(Append(h, e))
  <2>1. e.req.op = "publish" => \A i \in DOMAIN h : h[i].req.op = "publish" => h[i].req.batch < e.req.batch
    BY <1>1, <1>2, <1>3, <1>5, <1>6, <1>7 DEF SnapshotAdvances, BatchCurrent
  <2> QED
    BY <1>1, <1>2, <2>1, SnapshotsAppend
<1>11. FencedHistory(Append(h, e))
  <2>1. e.req.op \in {"publish", "release"} => rec.owner = OwnerOf(e)
    BY <1>3 DEF OwnerAllows
  <2> QED
    BY <1>1, <1>2, <1>3, <1>7, <2>1, FencedAppend
<1>12. OwnerCurrent(Append(h, e), rec'.owner, rec'.generation)
  <2>1. CASE Claims(e.req)
    BY <1>1, <1>3, <1>4, <2>1, OwnerCurrentAppend
  <2>2. CASE e.req.op = "publish"
    <3>1. rec'.owner = rec.owner /\ rec'.generation = rec.generation
      BY <1>4, <2>2 DEF Claims
    <3> QED
      BY <1>1, <1>2, <2>2, <3>1, OwnerCurrentAppend
  <2>3. CASE e.req.op = "release"
    BY <1>4, <2>3 DEF Claims, OwnerCurrent
  <2> QED
    BY <1>7, <2>1, <2>2, <2>3 DEF Claims, Operations
<1>13. GenerationCurrent(Append(h, e), rec'.generation)
  BY <1>1, <1>2, <1>3, <1>4, <1>5, <1>6, AppendFacts DEF GenerationCurrent
<1>14. BatchCurrent(Append(h, e), rec'.batch)
  BY <1>1, <1>2, <1>3, <1>4, <1>5, <1>6, <1>7, AppendFacts DEF BatchCurrent, SnapshotAdvances
<1> QED
  BY <1>1, <1>8, <1>9, <1>10, <1>11, <1>12, <1>13, <1>14
     DEF LeaseInv, RecordOK, HistorySound, Current

-----------------------------------------------------------------------------
(* The invariant of the workers *)

\* A worker that is about to run update-ref, or did, admitted its request against what it read.
Prepared == \A w \in Workers : phase[w] # "idle" =>
  /\ task[w] \in Entry
  /\ ~KeyKnown(seen[w], task[w].req.key)
  /\ Admissible(seen[w], task[w])
  /\ task[w].req.expected = Revision(seen[w])

\* No request expects a head that does not exist yet.
Foreseen == \A req \in issued : req.expected <= Revision(rec)

\* An entry that can never be applied any more.
Dead(e) ==
  /\ \A i \in DOMAIN rec.operations : rec.operations[i] # e
  /\ \/ KeyKnown(rec, e.req.key)
     \/ e.req.expected < Revision(rec)
     \/ e.req.expected = Revision(rec) /\ ~Admissible(rec, e)
\* A refused entry is one, and if it was not for the owner or the operation id, so is the same
\* request from any worktree.
RefusedAreDead ==
  \A a \in answers : a.revision = 0 =>
    /\ Dead(a.entry)
    /\ a.code = "rejected" => \A tree \in Trees : Dead(EntryFor(tree, a.entry.req))

WorkerInv == TypeOK /\ Prepared /\ Foreseen

\* An initial state satisfies all of it.
LEMMA InitInv == Init => WorkerInv /\ LeaseInv /\ AcknowledgedStays /\ RefusedAreDead
<1> SUFFICES ASSUME Init PROVE WorkerInv /\ AcknowledgedStays /\ RefusedAreDead
  BY EmptySound DEF Init, LeaseInit
<1>1. EmptyRecord \in Record
  BY ContractAssumption DEF EmptyRecord, Record
<1> QED
  BY <1>1 DEF Init, LeaseInit, WorkerInv, TypeOK, Prepared, Foreseen, AcknowledgedStays,
     RefusedAreDead

\* A request that some worker runs gives an entry of the call's worktree.
LEMMA EntryForFacts ==
  ASSUME NEW tree \in Trees, NEW req \in Request
  PROVE  /\ EntryFor(tree, req) \in Entry
         /\ EntryFor(tree, req).req = req /\ EntryFor(tree, req).tree = tree
BY DEF EntryFor, Entry

\* Telling an answer adds no other.
LEMMA TellFacts ==
  ASSUME NEW e, NEW n, NEW code, Tell(e, n, code)
  PROVE  \A a \in answers' : a \in answers \/ a = [entry |-> e, revision |-> n, code |-> code]
BY DEF Tell

\* The one step that changes the record applies the worker's admitted entry to the current one.
LEMMA PublishApplies ==
  ASSUME WorkerInv, NEW w \in Workers, Publish(w)
  PROVE  task[w] \in Entry /\ Apply(task[w])
BY DEF WorkerInv, Prepared, Publish, RefUnmoved, Apply

\* The record changes in no other step.
LEMMA RecordSteps ==
  ASSUME Next
  PROVE  rec' = rec \/ \E w \in Workers : Publish(w)
BY DEF Next, Issue, Write, Replay, Refuse, Prepare, PublishFails, Reread, Stop

\* Every step keeps the types.
LEMMA TypeStep == WorkerInv /\ [Next]_vars => TypeOK'
<1> SUFFICES ASSUME WorkerInv, [Next]_vars PROVE TypeOK'
  OBVIOUS
<1> USE DEF WorkerInv, TypeOK
<1>1. EmptyRecord \in Record
  BY ContractAssumption DEF EmptyRecord, Record
<1>2. ASSUME NEW key \in Keys, NEW op \in Operations, NEW session \in Sessions,
             NEW batch \in 0..MaxBatch, Issue(key, op, session, batch)
      PROVE  TypeOK'
  <2>1. Revision(rec) \in Nat /\ rec.generation \in Nat
    BY DEF Revision, Record
  <2> QED
    BY <1>2, <2>1 DEF Issue, Request
<1>3. ASSUME NEW w \in Workers, NEW tree \in Trees, NEW req \in issued, Replay(w, tree, req)
      PROVE  TypeOK'
  <2>1. DOMAIN rec.operations \subseteq Nat
    BY DEF Record
  <2> QED
    BY <1>3, <2>1, EntryForFacts, TellFacts DEF Replay, Answer, Codes
<1>4. ASSUME NEW w \in Workers, NEW tree \in Trees, NEW req \in issued, Refuse(w, tree, req)
      PROVE  TypeOK'
  BY <1>4, EntryForFacts, TellFacts DEF Refuse, Answer, Code, Codes
<1>5. ASSUME NEW w \in Workers, NEW tree \in Trees, NEW req \in issued, Prepare(w, tree, req)
      PROVE  TypeOK'
  BY <1>5, EntryForFacts DEF Prepare
<1>6. ASSUME NEW w \in Workers, Publish(w)
      PROVE  TypeOK'
  <2>1. rec' \in Record
    BY <1>6, PublishApplies, AfterFacts DEF Publish, RefUnmoved
  <2> QED
    BY <1>1, <1>6, <2>1 DEF Publish, Idle
<1>7. ASSUME NEW w \in Workers, Reread(w)
      PROVE  TypeOK'
  <2>1. task[w] \in Entry /\ Revision(seen[w]) + 1 \in Nat
    BY <1>7 DEF Prepared, Reread, Revision, Record
  <2> QED
    BY <1>1, <1>7, <2>1, TellFacts DEF Reread, Idle, Answer, Codes
<1>8. ASSUME NEW w \in Workers, PublishFails(w) \/ Stop(w)
      PROVE  TypeOK'
  BY <1>1, <1>8 DEF PublishFails, Stop, Idle
<1>9. CASE UNCHANGED vars
  BY <1>9 DEF vars
<1> QED
  BY <1>2, <1>3, <1>4, <1>5, <1>6, <1>7, <1>8, <1>9 DEF Next, Write

\* Every step keeps what the workers prepared, and lets no request run ahead of the record.
LEMMA WorkerStep == WorkerInv /\ [Next]_vars => WorkerInv'
<1> SUFFICES ASSUME WorkerInv, [Next]_vars PROVE Prepared' /\ Foreseen'
  BY TypeStep DEF WorkerInv
<1> USE DEF WorkerInv
<1>1. ASSUME UNCHANGED <<phase, task, seen>> PROVE Prepared'
  BY <1>1 DEF Prepared
<1>2. ASSUME NEW w \in Workers, Idle(w) PROVE Prepared'
  BY <1>2 DEF Prepared, Idle, TypeOK
<1>3. ASSUME rec' = rec, issued' = issued PROVE Foreseen'
  BY <1>3 DEF Foreseen
<1>4. ASSUME NEW key \in Keys, NEW op \in Operations, NEW session \in Sessions,
             NEW batch \in 0..MaxBatch, Issue(key, op, session, batch)
      PROVE  Prepared' /\ Foreseen'
  <2>1. Revision(rec) \in Nat
    BY DEF TypeOK, Revision, Record
  <2> QED
    BY <1>1, <1>4, <2>1 DEF Issue, Foreseen
<1>5. ASSUME NEW w \in Workers, NEW tree \in Trees, NEW req \in issued, Replay(w, tree, req) \/ Refuse(w, tree, req)
      PROVE  Prepared' /\ Foreseen'
  BY <1>1, <1>3, <1>5 DEF Replay, Refuse
<1>6. ASSUME NEW w \in Workers, NEW tree \in Trees, NEW req \in issued, Prepare(w, tree, req)
      PROVE  Prepared' /\ Foreseen'
  <2>1. EntryFor(tree, req) \in Entry /\ EntryFor(tree, req).req = req
    BY EntryForFacts DEF TypeOK
  <2>2. Prepared'
    BY <1>6, <2>1 DEF Prepare, Prepared, TypeOK, Known, HeadExpected
  <2> QED
    BY <1>3, <1>6, <2>2 DEF Prepare
<1>7. ASSUME NEW w \in Workers, Publish(w)
      PROVE  Prepared' /\ Foreseen'
  <2>1. Prepared'
    BY <1>2, <1>7 DEF Publish, Prepared, TypeOK
  <2>2. rec' = After(rec, task[w]) /\ task[w] \in Entry /\ issued' = issued
    BY <1>7, PublishApplies DEF Publish, RefUnmoved
  <2>3. Revision(rec') = Revision(rec) + 1 /\ Revision(rec) \in Nat
    BY <2>2, AfterFacts DEF TypeOK
  <2>4. \A req \in issued : req.expected \in Nat
    BY DEF TypeOK, Request
  <2> QED
    BY <2>1, <2>2, <2>3, <2>4 DEF Foreseen
<1>8. ASSUME NEW w \in Workers, PublishFails(w) \/ Reread(w) \/ Stop(w)
      PROVE  Prepared' /\ Foreseen'
  BY <1>2, <1>3, <1>8 DEF PublishFails, Reread, Stop
<1>9. CASE UNCHANGED vars
  BY <1>1, <1>3, <1>9 DEF vars
<1> QED
  BY <1>4, <1>5, <1>6, <1>7, <1>8, <1>9 DEF Next, Write

-----------------------------------------------------------------------------
(* The record *)

\* A step applies an admissible entry with a new key to the current record, or leaves it.
LEMMA StepApplies ==
  ASSUME WorkerInv, [Next]_vars
  PROVE  rec' = rec \/ \E e \in Entry : Apply(e)
BY PublishApplies, RecordSteps DEF vars

\* A step keeps the record's history sound.
LEMMA LeaseStep == LeaseInv /\ WorkerInv /\ [Next]_vars => LeaseInv'
<1> SUFFICES ASSUME LeaseInv, WorkerInv, [Next]_vars PROVE LeaseInv'
  OBVIOUS
<1>1. CASE rec' = rec
  BY <1>1 DEF LeaseInv, RecordOK, HistorySound, Current
<1>2. CASE \E e \in Entry : Apply(e)
  BY <1>2, ApplySound
<1> QED
  BY <1>1, <1>2, StepApplies

\* The operations of the record stay where they are; a new one comes last.
LEMMA HistoryStep ==
  ASSUME WorkerInv, [Next]_vars
  PROVE  /\ DOMAIN rec.operations \subseteq DOMAIN rec'.operations
         /\ \A i \in DOMAIN rec.operations : rec'.operations[i] = rec.operations[i]
<1>1. ASSUME NEW e \in Entry, Apply(e)
      PROVE  /\ DOMAIN rec.operations \subseteq DOMAIN rec'.operations
             /\ \A i \in DOMAIN rec.operations : rec'.operations[i] = rec.operations[i]
  <2>1. rec \in Record /\ rec' = After(rec, e)
    BY <1>1 DEF WorkerInv, TypeOK, Apply
  <2>2. /\ DOMAIN rec.operations = 1..Revision(rec) /\ Revision(rec) \in Nat
        /\ DOMAIN rec'.operations = 1..(Revision(rec) + 1)
        /\ \A i \in 1..Revision(rec) : rec'.operations[i] = rec.operations[i]
    BY <2>1, AfterFacts
  <2> QED
    BY <2>2
<1> QED
  BY <1>1, StepApplies

-----------------------------------------------------------------------------
(* The answers *)

\* What was acknowledged stays in the record.
LEMMA AcknowledgedStep == AcknowledgedStays /\ WorkerInv /\ [Next]_vars => AcknowledgedStays'
<1> SUFFICES ASSUME AcknowledgedStays, WorkerInv, [Next]_vars PROVE AcknowledgedStays'
  OBVIOUS
<1>1. ASSUME answers' = answers PROVE AcknowledgedStays'
  BY <1>1, HistoryStep DEF AcknowledgedStays
<1>2. ASSUME NEW w \in Workers, NEW tree \in Trees, NEW req \in issued, Replay(w, tree, req)
      PROVE  AcknowledgedStays'
  BY <1>2, TellFacts DEF Replay, AcknowledgedStays
<1>3. ASSUME NEW w \in Workers, NEW tree \in Trees, NEW req \in issued, Refuse(w, tree, req)
      PROVE  AcknowledgedStays'
  BY <1>3, TellFacts DEF Refuse, AcknowledgedStays
<1>4. ASSUME NEW w \in Workers, Reread(w)
      PROVE  AcknowledgedStays'
  <2>1. CASE rec = After(seen[w], task[w])
    <3>1. task[w] \in Entry /\ seen[w] \in Record
      BY <1>4 DEF WorkerInv, Prepared, TypeOK, Reread
    <3>2. /\ Revision(seen[w]) + 1 \in DOMAIN rec.operations
          /\ rec.operations[Revision(seen[w]) + 1] = task[w]
      BY <2>1, <3>1, AfterFacts
    <3> QED
      BY <1>4, <2>1, <3>2, TellFacts DEF Reread, AcknowledgedStays
  <2>2. CASE rec # After(seen[w], task[w])
    BY <1>1, <1>4, <2>2 DEF Reread
  <2> QED
    BY <2>1, <2>2
<1>5. ASSUME NEW w \in Workers, Publish(w) \/ PublishFails(w) \/ Stop(w)
      PROVE  AcknowledgedStays'
  BY <1>1, <1>5 DEF Publish, PublishFails, Stop
<1>6. ASSUME NEW w \in Workers, NEW tree \in Trees, NEW req \in issued, Prepare(w, tree, req)
      PROVE  AcknowledgedStays'
  BY <1>1, <1>6 DEF Prepare
<1>7. CASE UNCHANGED vars
  BY <1>1, <1>7 DEF vars
<1>8. ASSUME NEW key \in Keys, NEW op \in Operations, NEW session \in Sessions,
             NEW batch \in 0..MaxBatch, Issue(key, op, session, batch)
      PROVE  AcknowledgedStays'
  BY <1>1, <1>8 DEF Issue
<1> QED
  BY <1>2, <1>3, <1>4, <1>5, <1>6, <1>7, <1>8 DEF Next, Write

\* A dead entry stays dead when another operation is applied.
LEMMA DeadStays ==
  ASSUME WorkerInv, [Next]_vars, NEW e \in Entry, Dead(e)
  PROVE  Dead(e)'
<1>1. CASE rec' = rec
  BY <1>1 DEF Dead
<1>2. ASSUME NEW w \in Workers, Publish(w)
      PROVE  Dead(e)'
  <2> DEFINE f == task[w]
  <2>1. /\ f \in Entry /\ rec \in Record /\ rec' = After(rec, f)
        /\ ~KeyKnown(rec, f.req.key) /\ Admissible(rec, f) /\ f.req.expected = Revision(rec)
    BY <1>2, PublishApplies DEF Publish, RefUnmoved, WorkerInv, Prepared, TypeOK
  <2>2. f # e
    BY <2>1, EntryFields, AfterFacts DEF Dead
  <2>3. /\ DOMAIN rec.operations = 1..Revision(rec) /\ Revision(rec) \in Nat
        /\ DOMAIN rec'.operations = 1..(Revision(rec) + 1) /\ Revision(rec') = Revision(rec) + 1
        /\ \A i \in 1..Revision(rec) : rec'.operations[i] = rec.operations[i]
        /\ rec'.operations[Revision(rec) + 1] = f
    BY <2>1, AfterFacts
  <2>4. \A i \in DOMAIN rec'.operations : rec'.operations[i] # e
    BY <2>2, <2>3 DEF Dead
  <2>5. KeyKnown(rec, e.req.key) => KeyKnown(rec', e.req.key)
    BY <2>3 DEF KeyKnown
  <2>6. e.req.expected \in Nat
    BY EntryFields
  <2> HIDE DEF f
  <2> QED
    BY <2>3, <2>4, <2>5, <2>6 DEF Dead
<1> QED
  BY <1>1, <1>2, RecordSteps DEF vars

\* Only dead entries are refused, and they stay dead.
LEMMA RefusedStep == RefusedAreDead /\ WorkerInv /\ [Next]_vars => RefusedAreDead'
<1> SUFFICES ASSUME RefusedAreDead, WorkerInv, [Next]_vars PROVE RefusedAreDead'
  OBVIOUS
<1> DEFINE Kept(a) == /\ Dead(a.entry)
                      /\ a.code = "rejected" => \A tree \in Trees : Dead(EntryFor(tree, a.entry.req))
<1>1. ASSUME NEW a, a.entry \in Entry, Kept(a) PROVE Kept(a)'
  BY <1>1, DeadStays, EntryForFacts, EntryFields DEF EntryFor
<1>2. ASSUME \A a \in answers' : a \in answers \/ a.revision # 0 PROVE RefusedAreDead'
  <2>1. \A a \in answers : a.entry \in Entry
    BY DEF WorkerInv, TypeOK, Answer
  <2> QED
    BY <1>1, <1>2, <2>1 DEF RefusedAreDead
<1>3. ASSUME NEW w \in Workers, NEW tree \in Trees, NEW req \in issued, Replay(w, tree, req)
      PROVE  RefusedAreDead'
  <2>1. \A i \in DOMAIN rec.operations : i # 0
    BY DEF WorkerInv, TypeOK, Record
  <2> QED
    BY <1>2, <1>3, <2>1, TellFacts DEF Replay
<1>4. ASSUME NEW w \in Workers, NEW tree \in Trees, NEW req \in issued, Refuse(w, tree, req)
      PROVE  RefusedAreDead'
  <2> DEFINE e == EntryFor(tree, req)
             a == [entry |-> e, revision |-> 0, code |-> Code(e)]
  <2>1. e \in Entry /\ e.req = req /\ req.expected \in Nat /\ Revision(rec) \in Nat
    BY EntryForFacts DEF WorkerInv, TypeOK, Request, Revision, Record
  <2>2. req.expected <= Revision(rec)
    BY DEF WorkerInv, Foreseen
  <2>3. Dead(e)
    BY <1>4, <2>1, <2>2 DEF Refuse, Dead, Known, KeyKnown, HeadExpected
  <2>4. ASSUME Code(e) = "rejected", NEW t \in Trees
        PROVE  Dead(EntryFor(t, req))
    <3> DEFINE f == EntryFor(t, req)
    <3>1. ~KeyKnown(rec, req.key) /\ ~OwnerMismatch(e)
      BY <2>1, <2>4 DEF Code, Known
    <3>2. f.req = req
      BY EntryForFacts DEF WorkerInv, TypeOK
    <3>3. \A i \in DOMAIN rec.operations : rec.operations[i] # f
      BY <3>1, <3>2 DEF KeyKnown
    <3>4. ~Admissible(rec, e) => ~Admissible(rec, f)
      BY <2>1, <3>1, <3>2 DEF OwnerMismatch, Admissible, OwnerAllows, Claims
    <3>5. ~Admissible(rec, e) \/ req.expected # Revision(rec)
      BY <1>4, <3>1 DEF Refuse, Known, HeadExpected
    <3> HIDE DEF f
    <3> QED
      BY <2>1, <2>2, <3>2, <3>3, <3>4, <3>5 DEF Dead, f
  <2>5. Kept(a)
    BY <2>1, <2>3, <2>4
  <2>6. \A b \in answers' : b \in answers \/ b = a
    BY <1>4, TellFacts DEF Refuse
  <2>7. a.entry \in Entry /\ \A b \in answers : b.entry \in Entry
    BY <2>1 DEF WorkerInv, TypeOK, Answer
  <2> HIDE DEF e, a
  <2> QED
    BY <1>1, <2>5, <2>6, <2>7 DEF RefusedAreDead
<1>5. ASSUME NEW w \in Workers, Reread(w)
      PROVE  RefusedAreDead'
  <2>1. Revision(seen[w]) + 1 # 0
    BY DEF WorkerInv, TypeOK, Revision, Record
  <2> QED
    BY <1>2, <1>5, <2>1, TellFacts DEF Reread
<1>6. ASSUME answers' = answers PROVE RefusedAreDead'
  BY <1>2, <1>6
<1>7. ASSUME NEW w \in Workers, NEW tree \in Trees, NEW req \in issued,
             Prepare(w, tree, req)
      PROVE  RefusedAreDead'
  BY <1>6, <1>7 DEF Prepare
<1>8. ASSUME NEW w \in Workers, Publish(w) \/ PublishFails(w) \/ Stop(w)
      PROVE  RefusedAreDead'
  BY <1>6, <1>8 DEF Publish, PublishFails, Stop
<1>9. ASSUME NEW key \in Keys, NEW op \in Operations, NEW session \in Sessions,
             NEW batch \in 0..MaxBatch, Issue(key, op, session, batch)
      PROVE  RefusedAreDead'
  BY <1>6, <1>9 DEF Issue
<1>10. CASE UNCHANGED vars
  BY <1>6, <1>10 DEF vars
<1> QED
  BY <1>3, <1>4, <1>5, <1>7, <1>8, <1>9, <1>10 DEF Next, Write

-----------------------------------------------------------------------------
(* Theorems *)

\* Every reachable state is one of well-typed records, requests, workers and answers
\* (lib/review-control.js).
THEOREM TypeCorrect == Spec => []TypeOK
<1>1. Spec => []WorkerInv
  BY InitInv, WorkerStep, PTL DEF Spec
<1> QED
  BY <1>1, PTL DEF WorkerInv

\* The workers' concurrent, repeated and interrupted writes implement the record of module
\* ReviewLease: no operation is applied to a record other than the current one.
THEOREM ControlImplementsLease == Spec => ImplementsLease
<1>1. Init => LeaseInit
  BY DEF Init
<1>2. WorkerInv /\ [Next]_vars => [LeaseNext]_rec
  <2> SUFFICES ASSUME WorkerInv, [Next]_vars, rec' # rec PROVE LeaseNext
    OBVIOUS
  <2>1. PICK e \in Entry : Apply(e)
    BY StepApplies
  <2>2. /\ Revision(rec) + 1 \in DOMAIN rec'.operations
        /\ rec'.operations[Revision(rec) + 1] = e
    <3>1. rec \in Record /\ rec' = After(rec, e)
      BY <2>1 DEF WorkerInv, TypeOK, Apply
    <3> QED
      BY <3>1, AfterFacts
  <2> QED
    BY <2>1, <2>2 DEF LeaseNext
<1> QED
  BY <1>1, <1>2, InitInv, WorkerStep, PTL DEF Spec, ImplementsLease, LeaseSpec

\* The history of a batch is fenced, at most once per operation id, and its generations and
\* snapshots only advance (the checks of transition() in lib/review-control-contract.js).
THEOREM HistoryStaysSound == Spec => []HistorySound
<1>1. Spec => [](LeaseInv /\ WorkerInv)
  BY InitInv, LeaseStep, WorkerStep, PTL DEF Spec
<1> QED
  BY <1>1, PTL DEF LeaseInv

\* An operation reported as applied or replayed stays in the record at that revision.
THEOREM AcknowledgementsHold == Spec => []AcknowledgedStays
<1>1. Spec => [](AcknowledgedStays /\ WorkerInv)
  BY InitInv, AcknowledgedStep, WorkerStep, PTL DEF Spec
<1> QED
  BY <1>1, PTL

\* A refused request never takes effect later from its worktree, nor, unless the owner or the
\* operation id was the reason, from any other.
THEOREM RefusalsHold == Spec => []RefusalIsFinal
<1>1. Spec => [](RefusedAreDead /\ WorkerInv)
  BY InitInv, RefusedStep, WorkerStep, PTL DEF Spec
<1>2. RefusedAreDead /\ WorkerInv => RefusalIsFinal
  <2> SUFFICES ASSUME RefusedAreDead, WorkerInv,
                      NEW a \in answers, a.revision = 0, NEW i \in DOMAIN rec.operations
               PROVE  /\ rec.operations[i] # a.entry
                      /\ a.code = "rejected" => rec.operations[i].req # a.entry.req
    BY DEF RefusalIsFinal
  <2>1. rec.operations[i] \in Entry
    BY DEF WorkerInv, TypeOK, Record
  <2>2. /\ rec.operations[i].tree \in Trees
        /\ rec.operations[i] = EntryFor(rec.operations[i].tree, rec.operations[i].req)
    BY <2>1 DEF Entry, EntryFor
  <2> QED
    BY <2>2 DEF RefusedAreDead, Dead
<1> QED
  BY <1>1, <1>2, PTL
=============================================================================
