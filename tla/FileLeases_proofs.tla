--------------------------- MODULE FileLeases_proofs ---------------------------
(***************************************************************************)
(* Proofs about the file leases, for any sessions, paths, file systems,    *)
(* TTLs and clock movements, where no file changes inside a critical       *)
(* section, except where a theorem says otherwise.                         *)
(***************************************************************************)
EXTENDS FileLeases, TLAPS

\* Every stored pair of leases, expired ones too, is on two paths.
RowsOnDistinctPaths == \A r, q \in rows : r.file = q.file => r = q

\* Nothing has changed since the acquisition in the critical section resolved its target.
TargetCurrent == section # NoSection =>
  /\ Leasable(section.file)
  /\ section.ident = Identity(section.file)

LeaseInv == TypeOK /\ TargetCurrent /\ RowsOnDistinctPaths

\* Every step keeps the types.
LEMMA TypeStep ==
  ASSUME TypeOK, [Next]_vars
  PROVE  TypeOK'
<1> USE DEF TypeOK
<1>1. ASSUME NEW s \in Sessions, NEW p \in Paths, Resolve(s, p)
      PROVE  TypeOK'
  BY <1>1 DEF Resolve, Identity
<1>2. ASSUME section # NoSection
      PROVE  /\ section.session \in Sessions /\ section.file \in Paths
             /\ section.ident \in Inodes \cup {NoInode}
  BY <1>2
<1>3. ASSUME NEW ttl \in TTLs, Renew(ttl)
      PROVE  TypeOK'
  <2>1. PICK m \in Matching : rows' = (Active \ Merged(m)) \cup {Renewed(m, ttl)}
    BY <1>3 DEF Renew
  <2>2. m \in Row /\ Active \subseteq Row
    BY DEF Matching, Active
  <2>3. RenewedIdentity(m) \in Inodes \cup {NoInode}
    BY <1>2, <1>3, <2>2 DEF Renew, Row, RenewedIdentity, Identity
  <2>4. now \in Times /\ now + ttl \in Nat /\ section.file \in Paths
    BY <1>2, <1>3, ConstantsAssumption DEF Renew, Times
  <2>5. Renewed(m, ttl) \in Row
    BY <2>2, <2>3, <2>4 DEF Row, Renewed
  <2> QED
    BY <1>3, <2>1, <2>2, <2>5 DEF Renew
<1>4. ASSUME NEW ttl \in TTLs, Grant(ttl)
      PROVE  TypeOK'
  <2>1. \A r \in Active : Promote(r) \in Row
    BY DEF Promote, Promotable, Active, Row, Identity
  <2>2. now \in Times /\ now + ttl \in Nat
    BY ConstantsAssumption DEF Times
  <2> QED
    BY <1>2, <1>4, <2>1, <2>2 DEF Grant, Row, NewLease
<1>5. CASE AcquireFails
  BY <1>5 DEF AcquireFails
<1>6. ASSUME NEW s \in Sessions, NEW r \in rows, Release(s, r)
      PROVE  TypeOK'
  BY <1>6 DEF Release, Active
<1>7. ASSUME NEW p \in Paths, NEW what \in Inodes \cup {Missing, Directory}, FileChanges(p, what)
      PROVE  TypeOK'
  BY <1>7 DEF FileChanges
<1>8. ASSUME NEW t \in Times, ClockMoves(t)
      PROVE  TypeOK'
  BY <1>8 DEF ClockMoves
<1>9. CASE UNCHANGED vars
  BY <1>9 DEF vars
<1> QED
  BY <1>1, <1>3, <1>4, <1>5, <1>6, <1>7, <1>8, <1>9 DEF Next, Acquisition

\* A lease on the path that is being acquired always matches.
LEMMA OwnPathMatches ==
  ASSUME TypeOK, TargetCurrent, section # NoSection, NEW r \in Active, r.file = section.file
  PROVE  r \in Matching
BY DEF TypeOK, TargetCurrent, Matching, Matches, Observed, SameKey, Active

-----------------------------------------------------------------------------
(* What a renewal and a grant write *)

\* A renewal keeps the leases that do not match, and adds one on the target.
LEMMA RenewFacts ==
  ASSUME TypeOK, NEW ttl \in TTLs, Renew(ttl)
  PROVE  \E m \in Matching : rows' = (Active \ Matching) \cup {Renewed(m, ttl)}
BY DEF Renew, Merged

\* Recording an identity changes nothing else of a lease.
LEMMA PromoteKeeps ==
  ASSUME TypeOK, NEW r \in Active
  PROVE  /\ Promote(r) \in Row
         /\ Promote(r).id = r.id /\ Promote(r).file = r.file /\ Promote(r).session = r.session
         /\ Promote(r).acquired = r.acquired /\ Promote(r).renewed = r.renewed
         /\ Promote(r).expires = r.expires
         /\ Promote(r).ident = IF r \in Promotable THEN Identity(r.file) ELSE r.ident
BY DEF TypeOK, Promote, Promotable, Active, Row, Identity

\* Every step keeps the stored leases on paths of their own.
LEMMA LeaseStep ==
  ASSUME Racing = FALSE, LeaseInv, [Next]_vars
  PROVE  LeaseInv'
<1> USE DEF LeaseInv
<1>1. TypeOK'
  BY TypeStep
<1>2. ASSUME rows' \subseteq rows PROVE RowsOnDistinctPaths'
  BY <1>2 DEF RowsOnDistinctPaths
<1>3. ASSUME section' = NoSection \/ (section' = section /\ files' = files /\ world' = world)
      PROVE  TargetCurrent'
  BY <1>3 DEF TargetCurrent, Leasable, Identity
<1>4. ASSUME NEW s \in Sessions, NEW p \in Paths, Resolve(s, p)
      PROVE  LeaseInv'
  <2>1. TargetCurrent'
    BY <1>4 DEF Resolve, TargetCurrent, Leasable, Identity
  <2> QED
    BY <1>1, <1>2, <1>4, <2>1 DEF Resolve
<1>5. ASSUME NEW ttl \in TTLs, Renew(ttl)
      PROVE  LeaseInv'
  <2>1. PICK m \in Matching : rows' = (Active \ Matching) \cup {Renewed(m, ttl)}
    BY <1>5, RenewFacts
  <2>2. Renewed(m, ttl).file = section.file
    BY DEF Renewed
  <2>3. \A q \in Active \ Matching : q.file # section.file /\ q \in rows
    BY <1>5, OwnPathMatches DEF Active, Renew
  <2>4. RowsOnDistinctPaths'
    BY <2>1, <2>2, <2>3 DEF RowsOnDistinctPaths
  <2> QED
    BY <1>1, <1>3, <1>5, <2>4 DEF Renew
<1>6. ASSUME NEW ttl \in TTLs, Grant(ttl)
      PROVE  LeaseInv'
  <2>1. PICK id \in Ids : rows' = {Promote(r) : r \in Active} \cup {NewLease(id, ttl)}
    BY <1>6 DEF Grant
  <2>2. NewLease(id, ttl).file = section.file
    BY DEF NewLease
  <2>3. \A q \in Active : q.file # section.file /\ q \in rows
    BY <1>6, OwnPathMatches DEF Active, Grant
  <2>4. \A q \in Active : Promote(q).file = q.file
    BY PromoteKeeps
  <2>5. RowsOnDistinctPaths'
    <3> SUFFICES ASSUME NEW r \in rows', NEW q \in rows', r.file = q.file PROVE r = q
      BY DEF RowsOnDistinctPaths
    <3> QED
      BY <2>1, <2>2, <2>3, <2>4 DEF RowsOnDistinctPaths
  <2> QED
    BY <1>1, <1>3, <1>6, <2>5 DEF Grant
<1>7. CASE AcquireFails
  BY <1>1, <1>2, <1>3, <1>7 DEF AcquireFails
<1>8. ASSUME NEW s \in Sessions, NEW r \in rows, Release(s, r)
      PROVE  LeaseInv'
  BY <1>1, <1>2, <1>3, <1>8 DEF Release, Active
<1>9. ASSUME NEW p \in Paths, NEW what \in Inodes \cup {Missing, Directory}, FileChanges(p, what)
      PROVE  LeaseInv'
  BY <1>1, <1>2, <1>3, <1>9 DEF FileChanges
<1>10. ASSUME NEW t \in Times, ClockMoves(t)
       PROVE  LeaseInv'
  BY <1>1, <1>2, <1>3, <1>10 DEF ClockMoves
<1>11. CASE UNCHANGED vars
  BY <1>1, <1>2, <1>3, <1>11 DEF vars
<1> QED
  BY <1>4, <1>5, <1>6, <1>7, <1>8, <1>9, <1>10, <1>11 DEF Next, Acquisition

\* An initial state has no lease.
LEMMA InitInv == Init => LeaseInv
BY ConstantsAssumption DEF Init, LeaseInv, TypeOK, TargetCurrent, RowsOnDistinctPaths, Times

\* A new lease is distinguished from every other one, whose identity is recorded if it must be.
LEMMA GrantDistinguishes ==
  ASSUME TypeOK, Unambiguous, NEW ttl \in TTLs, Grant(ttl)
  PROVE  \A r, q \in rows' : r # q => Distinguished(r, q)'
<1>1. PICK id \in Ids : rows' = {Promote(r) : r \in Active} \cup {NewLease(id, ttl)}
  BY DEF Grant
<1> DEFINE new == NewLease(id, ttl)
<1>2. new.file = section.file /\ new.ident = section.ident
  BY DEF NewLease
<1>3. \A r, q : Distinguished(r, q)' <=> Distinguished(r, q)
  BY DEF Distinguished, SameKey, Grant
<1>4. \A r, q : Distinguished(r, q) <=> Distinguished(q, r)
  BY DEF Distinguished, SameKey
<1>5. ASSUME NEW q \in Active PROVE Distinguished(Promote(q), new)
  <2>1. ~Matches(q, section.file, section.ident)
    BY DEF Grant, Matching
  <2>2. Promote(q).file = q.file
        /\ Promote(q).ident = IF q \in Promotable THEN Identity(q.file) ELSE q.ident
    BY PromoteKeeps
  <2>3. CASE q \in Promotable
    BY <1>2, <2>2, <2>3 DEF Promotable, Distinguished
  <2>4. CASE q \notin Promotable
    BY <1>2, <2>1, <2>2, <2>4 DEF Promotable, Distinguished, Matches, Observed, SameKey
  <2> QED
    BY <2>3, <2>4
<1>6. ASSUME NEW r \in Active, NEW q \in Active, r # q PROVE Distinguished(Promote(r), Promote(q))
  <2>1. /\ Promote(r).file = r.file /\ Promote(q).file = q.file
        /\ Promote(r).ident = IF r \in Promotable THEN Identity(r.file) ELSE r.ident
        /\ Promote(q).ident = IF q \in Promotable THEN Identity(q.file) ELSE q.ident
    BY PromoteKeeps
  <2>2. Distinguished(r, q)
    BY <1>6 DEF Unambiguous
  <2>3. /\ r \in Promotable => Identity(r.file) \notin Observed(q) /\ r.ident = NoInode
                               /\ Identity(r.file) # NoInode
        /\ q \in Promotable => Identity(q.file) \notin Observed(r) /\ q.ident = NoInode
                               /\ Identity(q.file) # NoInode
    BY <1>6 DEF Grant, PromotionSafe, Promotable
  <2> QED
    BY <2>1, <2>2, <2>3 DEF Distinguished, Observed, SameKey
<1> HIDE DEF new
<1>7. rows' = {Promote(r) : r \in Active} \cup {new}
  BY <1>1 DEF new
<1> QED
  BY <1>3, <1>4, <1>5, <1>6, <1>7

-----------------------------------------------------------------------------
(* Readability *)

Plain == ~(NamesFold /\ world.inodes)
AllDistinguished == \A r, q \in rows : r # q => Distinguished(r, q)
NoInodesNoIdentity == ~world.inodes => \A r \in rows : r.ident = NoInode

\* Unlike StoreStaysReadable, it speaks of expired leases too: the clock may be set back.
ReadInv == LeaseInv /\ WellTimed /\ NoInodesNoIdentity /\ (Plain => AllDistinguished)

\* In a plain world a renewed lease is distinguished from those that did not match.
LEMMA RenewDistinguishes ==
  ASSUME LeaseInv, NoInodesNoIdentity, AllDistinguished, Plain, NEW ttl \in TTLs, Renew(ttl),
         NEW m \in Matching, NEW q \in Active \ Matching
  PROVE  Distinguished(Renewed(m, ttl), q)
<1>1. /\ ~Matches(q, section.file, section.ident) /\ Matches(m, section.file, section.ident)
      /\ q \in rows /\ m \in rows /\ m # q /\ section # NoSection
  BY DEF Matching, Active, Renew
<1>2. q.file # section.file
  BY OwnPathMatches DEF LeaseInv, Renew
<1>3. q.file \in Paths /\ m.file \in Paths /\ section.file \in Paths
  BY <1>1 DEF LeaseInv, TypeOK, Row
<1>4. section.ident = Identity(section.file)
  BY <1>1 DEF LeaseInv, TargetCurrent
<1>5. Renewed(m, ttl).file = section.file /\ Renewed(m, ttl).ident = RenewedIdentity(m)
  BY DEF Renewed
<1>6. CASE ~world.inodes
  <2>1. q.ident = NoInode /\ m.ident = NoInode /\ section.ident = NoInode
    BY <1>1, <1>4, <1>6 DEF NoInodesNoIdentity, Identity
  <2>2. RenewedIdentity(m) = NoInode
    BY <1>6, <2>1 DEF RenewedIdentity, Identity
  <2>3. ~SameKey(q.file, section.file)
    BY <1>1, <2>1 DEF Matches
  <2> QED
    BY <1>5, <2>1, <2>2, <2>3 DEF Distinguished, SameKey
<1>7. CASE ~NamesFold
  <2>1. ~SameKey(section.file, q.file)
    BY <1>2, <1>3, <1>7 DEF NamesFold
  <2>2. CASE section.ident # NoInode
    <3>1. RenewedIdentity(m) = section.ident /\ q.ident # section.ident
      BY <1>1, <2>2 DEF RenewedIdentity, Matches, Observed
    <3> QED
      BY <1>5, <2>1, <3>1 DEF Distinguished
  <2>3. CASE section.ident = NoInode
    <3>1. SameKey(m.file, section.file)
      BY <1>1, <2>3 DEF Matches, Observed
    <3>2. m.file = section.file
      BY <1>3, <1>7, <3>1 DEF NamesFold
    <3>3. RenewedIdentity(m) = m.ident
      BY <1>4, <2>3, <3>2 DEF RenewedIdentity
    <3>4. m.ident = q.ident => m.ident = NoInode
      BY <1>1 DEF AllDistinguished, Distinguished
    <3> QED
      BY <1>5, <2>1, <3>3, <3>4 DEF Distinguished
  <2> QED
    BY <2>2, <2>3
<1> QED
  BY <1>6, <1>7 DEF Plain

\* In a plain world a grant finds no identity to record.
LEMMA NothingToPromote ==
  ASSUME LeaseInv, Plain, NEW ttl \in TTLs, Grant(ttl)
  PROVE  Promotable = {}
<1> SUFFICES ASSUME NEW r \in Promotable PROVE FALSE
  OBVIOUS
<1>1. r \in Active /\ SameKey(r.file, section.file) /\ Identity(r.file) # NoInode
      /\ section # NoSection /\ r \in rows
  BY DEF Promotable, Grant, Active
<1>2. world.inodes
  BY <1>1 DEF Identity
<1>3. r.file \in Paths /\ section.file \in Paths
  BY <1>1 DEF LeaseInv, TypeOK, Row
<1>4. r.file = section.file
  BY <1>1, <1>2, <1>3 DEF Plain, NamesFold
<1> QED
  BY <1>1, <1>4, OwnPathMatches DEF LeaseInv, Grant

\* The times of a new or renewed lease are in order.
LEMMA TimesStep ==
  ASSUME TypeOK, WellTimed, [Next]_vars
  PROVE  WellTimed'
<1>1. ASSUME rows' \subseteq rows PROVE WellTimed'
  BY <1>1 DEF WellTimed
<1>2. now \in Nat /\ \A r \in rows : r.acquired \in Nat /\ r.renewed \in Nat
  BY ConstantsAssumption DEF TypeOK, Times, Row
<1>3. ASSUME NEW ttl \in TTLs, Renew(ttl) PROVE WellTimed'
  <2>1. PICK m \in Matching : rows' = (Active \ Matching) \cup {Renewed(m, ttl)}
    BY <1>3, RenewFacts
  <2>2. m \in rows /\ m.renewed <= now /\ m.acquired <= m.renewed
    BY <1>3 DEF Renew, NotBefore, Matching, Active, WellTimed
  <2>3. /\ Renewed(m, ttl).acquired = m.acquired /\ Renewed(m, ttl).renewed = now
        /\ Renewed(m, ttl).expires = now + ttl
    BY DEF Renewed
  <2>4. m.acquired <= now
    BY <1>2, <2>2
  <2> QED
    BY <2>1, <2>3, <2>4 DEF WellTimed, Active
<1>4. ASSUME NEW ttl \in TTLs, Grant(ttl) PROVE WellTimed'
  <2>1. PICK id \in Ids : rows' = {Promote(r) : r \in Active} \cup {NewLease(id, ttl)}
    BY <1>4 DEF Grant
  <2>2. /\ NewLease(id, ttl).acquired = now /\ NewLease(id, ttl).renewed = now
        /\ NewLease(id, ttl).expires = now + ttl /\ now <= now
    BY <1>2 DEF NewLease
  <2>3. \A r \in Active : /\ Promote(r).acquired <= Promote(r).renewed
                          /\ \E t \in TTLs : Promote(r).expires = Promote(r).renewed + t
    BY PromoteKeeps DEF WellTimed, Active
  <2> QED
    BY <2>1, <2>2, <2>3 DEF WellTimed
<1>5. ASSUME NEW s \in Sessions, NEW r \in rows, Release(s, r) PROVE WellTimed'
  BY <1>1, <1>5 DEF Release, Active
<1>6. CASE UNCHANGED rows
  BY <1>1, <1>6
<1> QED
  BY <1>3, <1>4, <1>5, <1>6
     DEF Next, Acquisition, Resolve, AcquireFails, FileChanges, ClockMoves, vars

\* Every step keeps the store readable in a plain world.
LEMMA ReadStep ==
  ASSUME Racing = FALSE, ReadInv, [Next]_vars
  PROVE  ReadInv'
<1> USE DEF ReadInv
<1>1. LeaseInv' /\ WellTimed'
  BY LeaseStep, TimesStep DEF LeaseInv
<1>2. world' = world
  BY DEF Next, Acquisition, Resolve, Renew, Grant, AcquireFails, Release, FileChanges, ClockMoves, vars
<1>3. (Plain' <=> Plain) /\ \A r, q : Distinguished(r, q)' <=> Distinguished(r, q)
  BY <1>2 DEF Plain, NamesFold, SameKey, Distinguished
<1>4. ASSUME rows' \subseteq rows PROVE ReadInv'
  BY <1>1, <1>2, <1>3, <1>4 DEF AllDistinguished, NoInodesNoIdentity
<1>5. ASSUME NEW ttl \in TTLs, Renew(ttl) PROVE ReadInv'
  <2>1. PICK m \in Matching : rows' = (Active \ Matching) \cup {Renewed(m, ttl)}
    BY <1>5, RenewFacts DEF LeaseInv
  <2>2. NoInodesNoIdentity'
    <3>1. ASSUME ~world.inodes PROVE Renewed(m, ttl).ident = NoInode
      <4>1. section.ident = NoInode /\ Identity(m.file) = NoInode /\ m.ident = NoInode
        BY <1>5, <3>1 DEF LeaseInv, TargetCurrent, Renew, Identity, NoInodesNoIdentity, Matching, Active
      <4> QED
        BY <4>1 DEF Renewed, RenewedIdentity
    <3> QED
      BY <1>2, <2>1, <3>1 DEF NoInodesNoIdentity, Active
  <2>3. ASSUME Plain PROVE AllDistinguished'
    <3>1. \A q \in Active \ Matching : Distinguished(Renewed(m, ttl), q)
      BY <1>5, <2>3, RenewDistinguishes
    <3>2. \A q \in Active \ Matching : Distinguished(q, Renewed(m, ttl))
      BY <3>1 DEF Distinguished, SameKey
    <3> QED
      BY <1>3, <2>1, <2>3, <3>1, <3>2 DEF AllDistinguished, Active
  <2> QED
    BY <1>1, <1>3, <2>2, <2>3
<1>6. ASSUME NEW ttl \in TTLs, Grant(ttl) PROVE ReadInv'
  <2>1. PICK id \in Ids : rows' = {Promote(r) : r \in Active} \cup {NewLease(id, ttl)}
    BY <1>6 DEF Grant
  <2>2. NoInodesNoIdentity'
    <3>1. ASSUME ~world.inodes
          PROVE  NewLease(id, ttl).ident = NoInode /\ \A r \in Active : Promote(r).ident = NoInode
      <4>1. section.ident = NoInode
        BY <1>6, <3>1 DEF LeaseInv, TargetCurrent, Grant, Identity
      <4>2. \A r \in Active : r.ident = NoInode /\ r \notin Promotable
        BY <3>1, <4>1 DEF NoInodesNoIdentity, Active, Promotable
      <4> QED
        BY <4>1, <4>2 DEF NewLease, Promote
    <3> QED
      BY <1>2, <2>1, <3>1 DEF NoInodesNoIdentity
  <2>3. ASSUME Plain PROVE AllDistinguished'
    <3>1. Unambiguous
      BY <2>3 DEF AllDistinguished, Unambiguous, Active
    <3> QED
      BY <1>6, <3>1, GrantDistinguishes DEF LeaseInv, AllDistinguished
  <2> QED
    BY <1>1, <1>3, <2>2, <2>3
<1>7. ASSUME NEW s \in Sessions, NEW r \in rows, Release(s, r) PROVE ReadInv'
  BY <1>4, <1>7 DEF Release, Active
<1>8. CASE UNCHANGED rows
  BY <1>4, <1>8
<1> QED
  BY <1>5, <1>6, <1>7, <1>8
     DEF Next, Acquisition, Resolve, AcquireFails, FileChanges, ClockMoves, vars

-----------------------------------------------------------------------------
(* Theorems *)

\* Every reachable state is one of well-typed files, leases and sections (lib/file-leases.js).
THEOREM TypeCorrect == Spec => []TypeOK
<1>1. Init => TypeOK
  BY InitInv DEF LeaseInv
<1> QED
  BY <1>1, TypeStep, PTL DEF Spec

\* No path ever has two active leases, where no file changes inside a critical section.
THEOREM PathsLeasedOnce == ASSUME Racing = FALSE PROVE Spec => []OneLeasePerPath
<1>1. LeaseInv /\ [Next]_vars => LeaseInv'
  BY LeaseStep
<1>2. LeaseInv => OneLeasePerPath
  BY DEF LeaseInv, RowsOnDistinctPaths, OneLeasePerPath, Active
<1> QED
  BY <1>1, <1>2, InitInv, PTL DEF Spec

\* Where names do not fold together, or nothing has an inode number, no sequence of
\* acquisitions, releases, file changes and clock movements makes the store unreadable.
THEOREM PlainStoreReadable == ASSUME Racing = FALSE PROVE Spec => []ReadableUnlessNamesFold
<1>1. Init => ReadInv
  BY InitInv DEF Init, ReadInv, WellTimed, NoInodesNoIdentity, AllDistinguished
<1>2. ReadInv /\ [Next]_vars => ReadInv'
  BY ReadStep
<1>3. ReadInv => ReadableUnlessNamesFold
  BY DEF ReadInv, ReadableUnlessNamesFold, StoreStaysReadable, Plain, AllDistinguished,
     Unambiguous, Active
<1> QED
  BY <1>1, <1>2, <1>3, PTL DEF Spec

\* A grant keeps a readable store readable in every world (_promoteCollidingPathIdentities),
\* even where files change inside critical sections.
THEOREM GrantsStayReadable == Spec => GrantKeepsReadable
<1>1. Init => TypeOK
  BY InitInv DEF LeaseInv
<1>2. TypeOK /\ [Next]_vars =>
        [StoreStaysReadable /\ (\E ttl \in TTLs : Grant(ttl)) => StoreStaysReadable']_vars
  <2> SUFFICES ASSUME TypeOK, [Next]_vars, StoreStaysReadable, NEW ttl \in TTLs, Grant(ttl)
               PROVE  StoreStaysReadable'
    OBVIOUS
  <2>1. Unambiguous'
    BY GrantDistinguishes DEF StoreStaysReadable, Unambiguous, Active
  <2> QED
    BY <2>1, TimesStep DEF StoreStaysReadable
<1> QED
  BY <1>1, <1>2, TypeStep, PTL DEF Spec, GrantKeepsReadable

\* No acquisition or release of one session touches another session's active lease.
THEOREM ForeignLeasesKept == Spec => ForeignLeaseKept
<1>1. Init => TypeOK
  BY InitInv DEF LeaseInv
<1>2. ASSUME TypeOK, [Next]_vars, NEW s \in Sessions, NEW r \in Active, r.session # s,
             \/ section # NoSection /\ section.session = s /\ Acquisition
             \/ \E q \in rows : Release(s, q)
      PROVE  \E q \in rows' : q.id = r.id /\ q.session = r.session /\ q.file = r.file
                                          /\ q.expires = r.expires
  <2>1. ASSUME r \in rows' PROVE \E q \in rows' : q.id = r.id /\ q.session = r.session
                                   /\ q.file = r.file /\ q.expires = r.expires
    BY <2>1
  <2>2. CASE \E q \in rows : Release(s, q)
    BY <1>2, <2>1, <2>2 DEF Release
  <2>3. CASE section.session = s /\ AcquireFails
    BY <2>1, <2>3 DEF AcquireFails, Active
  <2>4. ASSUME section.session = s, NEW ttl \in TTLs, Renew(ttl) PROVE r \in rows'
    BY <1>2, <2>4, RenewFacts DEF Renew, NoConflict
  <2>5. ASSUME NEW ttl \in TTLs, Grant(ttl)
        PROVE  \E q \in rows' : q.id = r.id /\ q.session = r.session /\ q.file = r.file
                                            /\ q.expires = r.expires
    <3>1. Promote(r) \in rows'
      BY <2>5 DEF Grant
    <3> QED
      BY <1>2, <3>1, PromoteKeeps
  <2> QED
    BY <1>2, <2>1, <2>2, <2>3, <2>4, <2>5 DEF Acquisition
<1>3. TypeOK /\ [Next]_vars =>
        [\A s \in Sessions, r \in Active :
           /\ r.session # s
           /\ \/ section # NoSection /\ section.session = s /\ Acquisition
              \/ \E q \in rows : Release(s, q)
           => \E q \in rows' : q.id = r.id /\ q.session = r.session /\ q.file = r.file
                                           /\ q.expires = r.expires]_vars
  BY <1>2
<1> QED
  BY <1>1, <1>3, TypeStep, PTL DEF Spec, ForeignLeaseKept
=============================================================================
