--------------------------- MODULE StateLock_proofs ---------------------------
(***************************************************************************)
(* Proofs about the state-store lock, for any calls, processes and bounds: *)
(* type correctness, mutual exclusion, that no recorded owner is taken     *)
(* over, that the protocol implements module Mutex, that a revoked owner   *)
(* is told, and that the lock is free in the end.  Mutual exclusion and    *)
(* the implementation need operators that clear only the locks of owners   *)
(* that are gone, which each statement that needs it assumes.              *)
(***************************************************************************)
EXTENDS StateLock, TLAPS

\* A token names its call, so calls never share one, whatever attempt they are at.
LEMMA TokensDiffer ==
  ASSUME NEW o \in Ops, NEW p \in Ops, Token(o) = Token(p)
  PROVE  o = p
BY DEF Token

\* The protocol starts in a state where the inductive invariant holds.
LEMMA InitLockInv == Init => LockInv
<1> SUFFICES ASSUME Init PROVE LockInv
  OBVIOUS
<1>1. TypeOK
  BY ConstantsAssumption DEF Init, TypeOK
<1>2. Counted
  <2>1. 0 < MaxReleaseTries
    BY ConstantsAssumption
  <2> QED
    BY <2>1 DEF Init, Counted
<1>3. Committed = {} /\ revoked = {}
  BY DEF Init, Committed, Holding
<1> QED
  BY <1>1, <1>2, <1>3 DEF LockInv, CommittedOwns, OneCommitted, RevokedAreGone

\* Each step keeps the variables in their sets; the two counters need the bounds of Counted.
LEMMA TypeStep == TypeOK /\ Counted /\ [Next]_vars => TypeOK' /\ Counted'
<1> SUFFICES ASSUME TypeOK, Counted, [Next]_vars PROVE TypeOK' /\ Counted'
  OBVIOUS
<1> USE ConstantsAssumption DEF TypeOK, Counted, Goto, At, Settled
<1>1. ASSUME NEW o \in Ops, Start(o) \/ TimeOut(o) \/ Await(o) \/ FnEnds(o)
      PROVE  TypeOK' /\ Counted'
  BY <1>1 DEF Start, TimeOut, Await, FnEnds, GiveUp, Acquiring, Releasing
<1>2. ASSUME NEW o \in Ops, Acquire(o)
      PROVE  TypeOK' /\ Counted'
  <2>1. CASE MkdirWins(o)
    <3>1. attempt' \in [Ops -> 0..MaxAttempts] /\ lockDir' \in Dirs
      BY <2>1 DEF MkdirWins, Dirs
    <3> QED
      BY <2>1, <3>1 DEF MkdirWins, Acquiring
  <2>2. CASE MkdirFails(o) \/ ReclaimStat(o) \/ ReclaimList(o) \/ ReclaimRmdir(o)
    BY <2>2 DEF MkdirFails, ReclaimStat, ReclaimList, ReclaimRmdir, AfterRmdir, Acquiring
  <2>3. CASE DirStat(o) \/ VerifyStat(o) \/ VerifyList(o) \/ VerifyRead(o)
    BY <2>3 DEF DirStat, VerifyStat, VerifyList, VerifyRead, Acquiring
  <2>4. CASE WriteOwner(o)
    <3>1. Token(o) \in Dirs
      BY <2>4 DEF WriteOwner, Token, Dirs
    <3>2. owners' \in [Dirs -> SUBSET Dirs]
      BY <2>4, <3>1 DEF WriteOwner
    <3> QED
      BY <2>4, <3>2 DEF WriteOwner, Acquiring
  <2>5. CASE WriteOwnerFails(o)
    BY <2>5 DEF WriteOwnerFails, Acquiring
  <2>6. CASE CleanUnlink(o)
    BY <2>6 DEF CleanUnlink, WithoutMyOwner, Acquiring
  <2>7. CASE CleanRmdir(o) \/ CleanFault(o)
    BY <2>7 DEF CleanRmdir, CleanFault, AfterRmdir, AfterCleanup, GiveUp, Acquiring
  <2> QED
    BY <1>2, <2>1, <2>2, <2>3, <2>4, <2>5, <2>6, <2>7 DEF Acquire
<1>3. ASSUME NEW o \in Ops, Release(o)
      PROVE  TypeOK' /\ Counted'
  <2>1. CASE OwnerRead(o) \/ TombRead(o) \/ TombRmdir(o)
    BY <2>1 DEF OwnerRead, TombRead, TombRmdir, Releasing
  <2>2. CASE Rename(o)
    BY <2>2 DEF Rename, Releasing
  <2>3. CASE TombUnlink(o)
    BY <2>3 DEF TombUnlink, Releasing
  <2>4. CASE ReleaseFault(o)
    <3>1. tries[o] < MaxReleaseTries
      BY <2>4 DEF ReleaseFault, Releasing
    <3>2. tries' \in [Ops -> 0..MaxReleaseTries]
      BY <2>4, <3>1 DEF ReleaseFault
    <3>3. AfterFault(o) \in {"orphaned", "leftTomb"} \cup Releasing
      BY <2>4 DEF ReleaseFault, AfterFault, Releasing
    <3>4. tries[o] + 1 = MaxReleaseTries => AfterFault(o) \in Settled
      BY <2>4 DEF ReleaseFault, AfterFault, Releasing
    <3> QED
      BY <2>4, <3>1, <3>2, <3>3, <3>4 DEF ReleaseFault, Releasing
  <2> QED
    BY <1>3, <2>1, <2>2, <2>3, <2>4 DEF Release
<1>4. ASSUME NEW d \in Dirs, Age(d)
      PROVE  TypeOK' /\ Counted'
  BY <1>4 DEF Age
<1>5. ASSUME NEW p \in Procs, Crash(p)
      PROVE  TypeOK' /\ Counted'
  BY <1>5 DEF Crash
<1>6. CASE OperatorClears
  BY <1>6 DEF OperatorClears
<1>7. CASE Finished \/ UNCHANGED vars
  BY <1>7 DEF Finished, vars
<1> QED
  BY <1>1, <1>2, <1>3, <1>4, <1>5, <1>6, <1>7 DEF Next

\* A step that leaves the lock directory, the tokens and the revocations alone, and moves a
\* call from outside Committed to outside it, or within it, keeps who is committed and where.
LEMMA CommittedFrame ==
  ASSUME TypeOK, NEW o \in Ops, NEW label,
         pc' = [pc EXCEPT ![o] = label],
         UNCHANGED <<attempt, lockDir, owners, revoked>>,
         label \in Holding \cup {"verifyRead"} => pc[o] \in Holding \cup {"verifyRead"},
         CommittedOwns, OneCommitted
  PROVE  CommittedOwns' /\ OneCommitted'
<1>1. Committed' \subseteq Committed
  BY DEF Committed, TypeOK
<1>2. \A p \in Ops : OwnerAtPublicPath(p)' <=> OwnerAtPublicPath(p)
  BY DEF OwnerAtPublicPath, Token
<1> QED
  BY <1>1, <1>2 DEF CommittedOwns, OneCommitted, Committed

\* A revocation stays a revocation of a call that is gone: no step revives a call.
LEMMA GoneStable ==
  ASSUME TypeOK, [Next]_vars, NEW o \in Ops, Gone(o)
  PROVE  Gone(o)'
<1> USE DEF TypeOK, Gone, Alive, Goto, At, Settled
<1>1. ASSUME NEW p \in Ops, Start(p) \/ TimeOut(p) \/ Acquire(p) \/ Await(p) \/ FnEnds(p) \/ Release(p)
      PROVE  Gone(o)'
  <2>1. dead' = dead /\ Alive(p) /\ pc[p] \notin Settled
    BY <1>1 DEF Start, TimeOut, Acquire, Await, FnEnds, Release, MkdirWins, MkdirFails,
       ReclaimStat, ReclaimList, ReclaimRmdir, DirStat, WriteOwner, WriteOwnerFails, VerifyStat,
       VerifyList, VerifyRead, CleanUnlink, CleanRmdir, CleanFault, OwnerRead, Rename, TombRead,
       TombUnlink, TombRmdir, ReleaseFault, Releasing
  <2>2. \E label : pc' = [pc EXCEPT ![p] = label]
    BY <1>1 DEF Start, TimeOut, Acquire, Await, FnEnds, Release, MkdirWins, MkdirFails,
       ReclaimStat, ReclaimList, ReclaimRmdir, DirStat, WriteOwner, WriteOwnerFails, VerifyStat,
       VerifyList, VerifyRead, CleanUnlink, CleanRmdir, CleanFault, AfterCleanup, GiveUp,
       OwnerRead, Rename, TombRead, TombUnlink, TombRmdir, ReleaseFault
  <2> QED
    BY <2>1, <2>2
<1>2. CASE \E d \in Dirs : Age(d)
  BY <1>2 DEF Age
<1>3. CASE \E p \in Procs : Crash(p)
  BY <1>3 DEF Crash
<1>4. CASE OperatorClears \/ Finished \/ UNCHANGED vars
  BY <1>4 DEF OperatorClears, Finished, vars
<1> QED
  BY <1>1, <1>2, <1>3, <1>4 DEF Next

\* Only an owner that is gone has its lock taken away, when operators are careful and the
\* calls inside are alone there.
LEMMA RevokedStep ==
  ASSUME Forced = FALSE, LockInv, [Next]_vars
  PROVE  RevokedAreGone'
<1>1. \A o \in revoked' \ revoked : Gone(o)
  <2>1. ASSUME NEW p \in Ops, Rename(p)
        PROVE  revoked' = revoked
    <3>1. p \in Committed
      BY <2>1 DEF Rename, At, Alive, Committed, Holding, LockInv, TypeOK, RevokedAreGone, Gone, Settled
    <3>2. \A q \in Ops \ {p} : ~(pc[q] \in Holding /\ q \notin revoked)
      BY <3>1 DEF LockInv, OneCommitted, Committed
    <3> QED
      BY <2>1, <3>2 DEF Rename
  <2>2. CASE OperatorClears
    BY <2>2, Forced = FALSE DEF OperatorClears
  <2>3. CASE UNCHANGED revoked
    BY <2>3
  <2> QED
    BY <2>1, <2>2, <2>3 DEF Next, vars, Start, TimeOut, Acquire, Await, FnEnds, Release,
       MkdirWins, MkdirFails, ReclaimStat, ReclaimList, ReclaimRmdir, DirStat, WriteOwner,
       WriteOwnerFails, VerifyStat, VerifyList, VerifyRead, CleanUnlink, CleanRmdir, CleanFault,
       OwnerRead, TombRead, TombUnlink, TombRmdir, ReleaseFault, Age, Crash, Finished
<1>2. \A o \in revoked : Gone(o)
  BY DEF LockInv, RevokedAreGone
<1>3. revoked' \subseteq Ops
  BY TypeStep DEF LockInv, TypeOK
<1> QED
  BY <1>1, <1>2, <1>3, GoneStable DEF RevokedAreGone, LockInv, TypeOK

\* The heart of the argument: the committed call stays the one owner on disk.
LEMMA CommittedStep ==
  ASSUME Forced = FALSE, LockInv, [Next]_vars
  PROVE  CommittedOwns' /\ OneCommitted'
<1> USE DEF LockInv, At, Goto
<1>0. TypeOK /\ CommittedOwns /\ OneCommitted /\ RevokedAreGone
  OBVIOUS
<1>1. ASSUME NEW o \in Ops,
             Start(o) \/ TimeOut(o) \/ MkdirFails(o) \/ ReclaimStat(o) \/ ReclaimList(o)
             \/ DirStat(o) \/ WriteOwnerFails(o) \/ VerifyStat(o) \/ CleanFault(o)
      PROVE  CommittedOwns' /\ OneCommitted'
  <2>1. UNCHANGED <<attempt, lockDir, owners, revoked>>
    BY <1>1 DEF Start, TimeOut, MkdirFails, ReclaimStat, ReclaimList, DirStat,
       WriteOwnerFails, VerifyStat, CleanFault
  <2>2. \E label : label \notin Holding \cup {"verifyRead"} /\ pc' = [pc EXCEPT ![o] = label]
    BY <1>1 DEF Start, TimeOut, MkdirFails, ReclaimStat, ReclaimList, DirStat,
       WriteOwnerFails, VerifyStat, CleanFault, AfterCleanup, GiveUp, Holding
  <2> QED
    BY <2>1, <2>2, <1>0, CommittedFrame
<1>2. ASSUME NEW o \in Ops, VerifyRead(o) \/ Await(o) \/ FnEnds(o) \/ OwnerRead(o)
             \/ TombRead(o) \/ TombRmdir(o) \/ ReleaseFault(o)
      PROVE  CommittedOwns' /\ OneCommitted'
  <2>1. UNCHANGED <<attempt, lockDir, owners, revoked>>
    BY <1>2 DEF VerifyRead, Await, FnEnds, OwnerRead, TombRead, TombRmdir, ReleaseFault
  <2>2. \E label : /\ label \in Holding \cup {"verifyRead"} => pc[o] \in Holding \cup {"verifyRead"}
                   /\ pc' = [pc EXCEPT ![o] = label]
    <3>1. CASE VerifyRead(o) \/ Await(o) \/ FnEnds(o) \/ OwnerRead(o)
      <4>1. pc[o] \in Holding \cup {"verifyRead"}
        BY <3>1 DEF VerifyRead, Await, FnEnds, OwnerRead, Holding
      <4> QED
        BY <3>1, <4>1 DEF VerifyRead, Await, FnEnds, OwnerRead
    <3>2. CASE TombRead(o) \/ TombRmdir(o)
      BY <3>2 DEF TombRead, TombRmdir, Holding
    <3>3. CASE ReleaseFault(o)
      <4>1. AfterFault(o) \in Holding => pc[o] \in Holding
        BY <3>3 DEF ReleaseFault, AfterFault, Releasing, Holding
      <4>2. AfterFault(o) # "verifyRead"
        BY <3>3 DEF ReleaseFault, AfterFault, Releasing
      <4> QED
        BY <3>3, <4>1, <4>2 DEF ReleaseFault
    <3> QED
      BY <1>2, <3>1, <3>2, <3>3
  <2> QED
    BY <2>1, <2>2, <1>0, CommittedFrame
<1>3. ASSUME NEW o \in Ops, VerifyList(o)
      PROVE  CommittedOwns' /\ OneCommitted'
  <2>1. UNCHANGED <<attempt, lockDir, owners, revoked>>
    BY <1>3 DEF VerifyList
  <2>2. CASE lockDir # NoDir /\ OnlyMyOwner(o)
    <3>1. \A p \in Committed : Token(p) = Token(o)
      BY <2>2 DEF CommittedOwns, OwnerAtPublicPath, OnlyMyOwner
    <3>2. Committed \subseteq {o}
      BY <3>1, TokensDiffer DEF Committed
    <3>3. Committed' \subseteq {o}
      BY <3>2, <1>3, <2>1 DEF Committed, VerifyList, TypeOK
    <3>4. OwnerAtPublicPath(o)'
      BY <2>1, <2>2 DEF OwnerAtPublicPath, OnlyMyOwner, Token
    <3> QED
      BY <3>3, <3>4 DEF CommittedOwns, OneCommitted
  <2>3. CASE ~(lockDir # NoDir /\ OnlyMyOwner(o))
    <3>1. pc' = [pc EXCEPT ![o] = "cleanUnlink"] /\ "cleanUnlink" \notin Holding \cup {"verifyRead"}
      BY <1>3, <2>3 DEF VerifyList, Holding
    <3> QED
      BY <2>1, <3>1, <1>0, CommittedFrame
  <2> QED
    BY <2>2, <2>3
<1>4. ASSUME NEW o \in Ops, MkdirWins(o)
      PROVE  CommittedOwns' /\ OneCommitted'
  <2>1. Committed = {}
    BY <1>4 DEF MkdirWins, CommittedOwns, OwnerAtPublicPath
  <2>2. Committed' = {}
    BY <1>4, <2>1 DEF MkdirWins, Committed, Holding, TypeOK
  <2> QED
    BY <2>2 DEF CommittedOwns, OneCommitted
<1>5. ASSUME NEW o \in Ops, ReclaimRmdir(o) \/ CleanRmdir(o)
      PROVE  CommittedOwns' /\ OneCommitted'
  <2>1. \E label : label \notin Holding \cup {"verifyRead"} /\ pc' = [pc EXCEPT ![o] = label]
    BY <1>5 DEF ReclaimRmdir, CleanRmdir, AfterCleanup, GiveUp, Holding
  <2>2. Committed' \subseteq Committed
    BY <1>5, <2>1 DEF Committed, TypeOK, ReclaimRmdir, CleanRmdir
  <2>3. \A p \in Committed : lockDir' = lockDir /\ OwnerAtPublicPath(p)'
    BY <1>5 DEF ReclaimRmdir, CleanRmdir, AfterRmdir, CommittedOwns, OwnerAtPublicPath, Token
  <2> QED
    BY <2>2, <2>3 DEF CommittedOwns, OneCommitted
<1>6. ASSUME NEW o \in Ops, WriteOwner(o)
      PROVE  CommittedOwns' /\ OneCommitted'
  <2>1. Committed' \subseteq Committed
    BY <1>6 DEF WriteOwner, Committed, Holding, TypeOK
  <2>2. \A p \in Committed : OwnerAtPublicPath(p)'
    BY <1>6 DEF WriteOwner, CommittedOwns, OwnerAtPublicPath, Token, TypeOK
  <2> QED
    BY <2>1, <2>2 DEF CommittedOwns, OneCommitted
<1>7. ASSUME NEW o \in Ops, CleanUnlink(o)
      PROVE  CommittedOwns' /\ OneCommitted'
  <2>1. Committed' \subseteq Committed /\ o \notin Committed
    BY <1>7 DEF CleanUnlink, Committed, Holding, TypeOK
  <2>2. ASSUME NEW p \in Committed
        PROVE  OwnerAtPublicPath(p)'
    <3>1. Token(p) # Token(o)
      BY <2>1, TokensDiffer DEF Committed
    <3> QED
      BY <3>1, <1>7 DEF CleanUnlink, WithoutMyOwner, CommittedOwns, OwnerAtPublicPath, Token, TypeOK
  <2> QED
    BY <2>1, <2>2 DEF CommittedOwns, OneCommitted
<1>8. ASSUME NEW o \in Ops, Rename(o)
      PROVE  CommittedOwns' /\ OneCommitted'
  <2>1. o \in Committed
    BY <1>8 DEF Rename, Alive, Committed, Holding, RevokedAreGone, Gone, Settled, TypeOK
  <2>2. Committed = {o}
    BY <2>1 DEF OneCommitted
  <2>3. pc'[o] \in {"tombRead", "lost"} /\ revoked \subseteq revoked'
        /\ \A p \in Ops \ {o} : pc'[p] = pc[p]
    BY <1>8 DEF Rename, TypeOK
  <2>4. Committed' = {}
    BY <2>2, <2>3 DEF Committed, Holding
  <2> QED
    BY <2>4 DEF CommittedOwns, OneCommitted
<1>9. ASSUME NEW o \in Ops, TombUnlink(o)
      PROVE  CommittedOwns' /\ OneCommitted'
  <2>1. Committed' \subseteq Committed /\ o \notin Committed
    BY <1>9 DEF TombUnlink, Committed, Holding, TypeOK
  <2>2. ASSUME NEW p \in Committed
        PROVE  OwnerAtPublicPath(p)'
    <3>1. Token(p) # Token(o)
      BY <2>1, TokensDiffer DEF Committed
    <3>2. Token(p) \in owners'[lockDir]
      BY <3>1, <1>9 DEF TombUnlink, CommittedOwns, OwnerAtPublicPath, TypeOK
    <3> QED
      BY <3>2, <1>9 DEF TombUnlink, CommittedOwns, OwnerAtPublicPath, Token
  <2> QED
    BY <2>1, <2>2 DEF CommittedOwns, OneCommitted
<1>10. CASE OperatorClears
  <2>1. Committed' = {}
    BY <1>10 DEF OperatorClears, Committed, CommittedOwns, OwnerAtPublicPath
  <2> QED
    BY <2>1 DEF CommittedOwns, OneCommitted
<1>11. CASE (\E d \in Dirs : Age(d)) \/ (\E p \in Procs : Crash(p)) \/ Finished \/ UNCHANGED vars
  <2>1. UNCHANGED <<pc, attempt, lockDir, owners, revoked>>
    BY <1>11 DEF Age, Crash, Finished, vars
  <2> QED
    BY <2>1 DEF CommittedOwns, OneCommitted, Committed, OwnerAtPublicPath, Token
<1> QED
  BY <1>1, <1>2, <1>3, <1>4, <1>5, <1>6, <1>7, <1>8, <1>9, <1>10, <1>11 DEF Next, Acquire, Release

\* Type correctness of the lock protocol, careful operators or not.
THEOREM TypeCorrect == Spec => []TypeOK
<1>1. Init => TypeOK /\ Counted
  BY InitLockInv DEF LockInv
<1>2. TypeOK /\ Counted /\ [Next]_vars => (TypeOK /\ Counted)'
  BY TypeStep
<1> QED
  BY <1>1, <1>2, PTL DEF Spec

\* The inductive invariant holds in every reachable state.
LEMMA LockInvariant == ASSUME Forced = FALSE PROVE Spec => []LockInv
<1>1. LockInv /\ [Next]_vars => LockInv'
  BY Forced = FALSE, TypeStep, CommittedStep, RevokedStep DEF LockInv
<1> QED
  BY <1>1, InitLockInv, PTL DEF Spec

\* Two calls are never inside at once, whatever crashes, stalls, fails or is reclaimed.
THEOREM OneInside == ASSUME Forced = FALSE PROVE Spec => []MutualExclusion
<1>1. LockInv => MutualExclusion
  BY DEF LockInv, OneCommitted, Committed, Inside, MutualExclusion
<1> QED
  BY <1>1, LockInvariant, PTL

\* A recorded owner, alive or dead, is removed by its own release or failed attempt, or by an
\* operator once its call is gone; another's release takes along only unconfirmed records.
THEOREM NoRecordedOwnerTakenOver == ASSUME Forced = FALSE PROVE Spec => NoTakeover
<1> DEFINE Removed(p) ==
      \/ Release(p) \/ CleanUnlink(p)
      \/ OperatorClears /\ Gone(p)
      \/ p \notin Committed /\ \E o \in Ops : Rename(o)
<1>1. ASSUME LockInv, [Next]_vars
      PROVE  [\A p \in Ops : OwnerAtPublicPath(p) /\ ~OwnerAtPublicPath(p)' => Removed(p)]_vars
  <2> SUFFICES ASSUME NEW p \in Ops, OwnerAtPublicPath(p), ~OwnerAtPublicPath(p)'
               PROVE  Removed(p)
    OBVIOUS
  <2> USE <1>1 DEF LockInv, TypeOK, OwnerAtPublicPath, Token
  <2>1. ASSUME NEW o \in Ops, Start(o) \/ TimeOut(o) \/ Await(o) \/ FnEnds(o)
        PROVE  FALSE
    BY <2>1 DEF Start, TimeOut, Await, FnEnds
  <2>2. ASSUME NEW o \in Ops, Acquire(o), o # p
        PROVE  FALSE
    <3>1. Token(p) # Token(o)
      BY <2>2, TokensDiffer
    <3>2. CASE CleanUnlink(o)
      BY <2>2, <3>1, <3>2 DEF CleanUnlink, WithoutMyOwner
    <3>3. CASE WriteOwner(o)
      BY <2>2, <3>3 DEF WriteOwner
    <3>4. CASE MkdirWins(o) \/ ReclaimRmdir(o) \/ CleanRmdir(o)
      BY <2>2, <3>4 DEF MkdirWins, ReclaimRmdir, CleanRmdir, AfterRmdir
    <3> QED
      BY <2>2, <3>2, <3>3, <3>4 DEF Acquire, MkdirFails, ReclaimStat, ReclaimList, DirStat,
         WriteOwnerFails, VerifyStat, VerifyList, VerifyRead, CleanFault
  <2>3. ASSUME Acquire(p)
        PROVE  CleanUnlink(p)
    <3>1. CASE WriteOwner(p)
      BY <3>1 DEF WriteOwner
    <3>2. CASE MkdirWins(p) \/ ReclaimRmdir(p) \/ CleanRmdir(p)
      BY <3>2 DEF MkdirWins, ReclaimRmdir, CleanRmdir, AfterRmdir
    <3> QED
      BY <2>3, <3>1, <3>2 DEF Acquire, MkdirFails, ReclaimStat, ReclaimList, DirStat,
         WriteOwnerFails, VerifyStat, VerifyList, VerifyRead, CleanFault
  <2>4. ASSUME NEW o \in Ops, Release(o), o # p
        PROVE  Rename(o) /\ p \notin Committed
    <3>1. ~TombUnlink(o)
      <4>1. Token(p) # Token(o)
        BY <2>4, TokensDiffer
      <4> QED
        BY <4>1 DEF TombUnlink
    <3>2. Rename(o)
      BY <2>4, <3>1 DEF Release, OwnerRead, TombRead, TombRmdir, ReleaseFault
    <3>3. o \in Committed
      BY <3>2 DEF Rename, At, Alive, Gone, Settled, RevokedAreGone, Committed, Holding
    <3> QED
      BY <2>4, <3>2, <3>3 DEF OneCommitted
  <2>5. ASSUME OperatorClears
        PROVE  Gone(p)
    BY <2>5, Forced = FALSE DEF OperatorClears
  <2>6. CASE (\E d \in Dirs : Age(d)) \/ (\E q \in Procs : Crash(q)) \/ Finished \/ UNCHANGED vars
    BY <2>6 DEF Age, Crash, Finished, vars
  <2> QED
    BY <2>1, <2>2, <2>3, <2>4, <2>5, <2>6 DEF Next
<1> QED
  BY <1>1, LockInvariant, PTL DEF Spec, NoTakeover

\* The protocol implements module Mutex: the confirming read is its Enter, the rename of the
\* directory its Leave, and an operator's removal its Clear; every other step is a stutter,
\* or makes owners vanish.
THEOREM LockImplementsMutex == ASSUME Forced = FALSE PROVE Spec => ImplementsMutex
<1> DEFINE holder == Inside
           gone == {o \in Ops : ~Alive(o) \/ pc[o] = "orphaned"}
<1>1. Init => AbstractLock!Init
  BY ConstantsAssumption DEF Init, AbstractLock!Init, Inside, Holding, Alive
<1>2. ASSUME LockInv, LockInv', [Next]_vars
      PROVE  [AbstractLock!Next]_<<holder, gone>>
  <2> USE <1>2 DEF At, Goto, LockInv, TypeOK
  <2>0. /\ \A q \in Ops : q \in Inside => q \in Committed
        /\ \A q \in revoked : Gone(q)
        /\ \A q, x \in Committed : q = x
        /\ \A q \in Committed : OwnerAtPublicPath(q)
    BY DEF Inside, Committed, RevokedAreGone, OneCommitted, CommittedOwns
  <2>1. ASSUME NEW o \in Ops, Start(o) \/ TimeOut(o) \/ MkdirWins(o) \/ MkdirFails(o)
               \/ ReclaimStat(o) \/ ReclaimList(o) \/ ReclaimRmdir(o) \/ DirStat(o) \/ WriteOwner(o)
               \/ WriteOwnerFails(o) \/ VerifyStat(o) \/ VerifyList(o) \/ CleanUnlink(o)
               \/ CleanRmdir(o) \/ CleanFault(o) \/ TombRead(o) \/ TombUnlink(o) \/ TombRmdir(o)
        PROVE  UNCHANGED <<holder, gone>>
    <3>1. dead' = dead /\ revoked' = revoked
      BY <2>1 DEF Start, TimeOut, MkdirWins, MkdirFails, ReclaimStat, ReclaimList, ReclaimRmdir,
         DirStat, WriteOwner, WriteOwnerFails, VerifyStat, VerifyList, CleanUnlink, CleanRmdir,
         CleanFault, TombRead, TombUnlink, TombRmdir
    <3>2. pc[o] \notin Holding /\ \E l : l \notin Holding /\ pc' = [pc EXCEPT ![o] = l]
      BY <2>1 DEF Start, TimeOut, MkdirWins, MkdirFails, ReclaimStat, ReclaimList, ReclaimRmdir,
         DirStat, WriteOwner, WriteOwnerFails, VerifyStat, VerifyList, CleanUnlink, CleanRmdir,
         CleanFault, TombRead, TombUnlink, TombRmdir, AfterCleanup, GiveUp, Holding
    <3>3. \A q \in Ops : pc'[q] \in Holding <=> pc[q] \in Holding
      BY <3>2
    <3>4. \A q \in Ops : pc'[q] = "orphaned" <=> pc[q] = "orphaned"
      BY <3>2 DEF Holding
    <3> QED
      BY <3>1, <3>3, <3>4 DEF Inside, Alive
  <2>2. ASSUME NEW o \in Ops, VerifyRead(o)
        PROVE  AbstractLock!Enter(o) \/ UNCHANGED <<holder, gone>>
    <3>1. o \notin revoked /\ o \notin gone
      BY <2>0, <2>2 DEF VerifyRead, Gone, Settled, Alive
    <3>2. o \in Committed
      BY <3>1, <2>2 DEF Committed, VerifyRead
    <3>3. pc' = [pc EXCEPT ![o] = "cs"] /\ pc[o] = "verifyRead" /\ UNCHANGED <<dead, revoked>>
      BY <2>0, <3>2, <2>2 DEF VerifyRead
    <3>4. Inside = {}
      BY <2>0, <3>2, <3>3 DEF Inside, Holding
    <3>5. Inside' = {o} /\ gone' = gone
      BY <3>1, <3>3, <3>4 DEF Inside, Holding, Alive
    <3> QED
      BY <3>1, <3>4, <3>5 DEF AbstractLock!Enter
  <2>3. ASSUME NEW o \in Ops, Await(o) \/ FnEnds(o) \/ OwnerRead(o)
        PROVE  UNCHANGED <<holder, gone>>
    <3>1. o \notin revoked /\ UNCHANGED <<dead, revoked>>
      BY <2>0, <2>3 DEF Await, FnEnds, OwnerRead, Gone, Settled
    <3>2. o \in Committed
      BY <3>1, <2>3 DEF Committed, Holding, Await, FnEnds, OwnerRead
    <3>3. pc[o] \in Holding \ {"orphaned"}
          /\ \E l : l \in Holding \ {"orphaned"} /\ pc' = [pc EXCEPT ![o] = l]
      <4>1. CASE Await(o) \/ FnEnds(o)
        BY <4>1 DEF Await, FnEnds, Holding
      <4>2. CASE OwnerRead(o)
        BY <2>0, <3>2, <4>2 DEF OwnerRead, Holding
      <4> QED
        BY <2>3, <4>1, <4>2
    <3> QED
      BY <3>1, <3>3 DEF Inside, Alive
  <2>4. ASSUME NEW o \in Ops, Rename(o)
        PROVE  AbstractLock!Leave(o)
    <3>1. o \notin revoked /\ o \notin gone
      BY <2>0, <2>4 DEF Rename, Gone, Settled, Alive
    <3>2. o \in Committed /\ o \in Inside
      BY <3>1, <2>4 DEF Committed, Inside, Holding, Rename
    <3>3. Inside = {o}
      BY <2>0, <3>2 DEF Inside
    <3>4. pc'[o] \in {"tombRead", "lost"} /\ revoked \subseteq revoked' /\ dead' = dead
          /\ \A q \in Ops \ {o} : pc'[q] = pc[q]
      BY <2>4 DEF Rename
    <3>5. Inside' = {} /\ gone' = gone
      BY <3>1, <3>3, <3>4 DEF Inside, Holding, Alive
    <3> QED
      BY <3>1, <3>3, <3>5 DEF AbstractLock!Leave
  <2>5. ASSUME NEW o \in Ops, ReleaseFault(o)
        PROVE  AbstractLock!Vanish({o}) \/ UNCHANGED <<holder, gone>>
    <3>1. UNCHANGED <<dead, revoked>> /\ pc' = [pc EXCEPT ![o] = AfterFault(o)]
          /\ pc[o] # "orphaned"
      BY <2>5 DEF ReleaseFault, Releasing
    <3>2. AfterFault(o) \in Holding <=> pc[o] \in Holding
      BY <2>5 DEF ReleaseFault, AfterFault, Releasing, Holding
    <3>3. Inside' = Inside
      BY <3>1, <3>2 DEF Inside
    <3>4. gone' = gone \cup {o} \/ gone' = gone
      BY <3>1 DEF Alive
    <3> QED
      BY <3>3, <3>4 DEF AbstractLock!Vanish
  <2>6. ASSUME NEW p \in Procs, Crash(p)
        PROVE  AbstractLock!Vanish({o \in Ops : ProcOf[o] = p})
    BY <2>6 DEF Crash, Inside, Alive, AbstractLock!Vanish
  <2>7. CASE OperatorClears
    <3>1. \A q \in Inside : q \in gone /\ q \in revoked'
      BY <2>0, <2>7, Forced = FALSE DEF OperatorClears, OwnerAtPublicPath, Gone, Inside, Holding,
         Settled
    <3>2. Inside' = {}
      BY <3>1, <2>7 DEF Inside, OperatorClears
    <3>3. gone' = gone
      BY <2>7 DEF OperatorClears, Alive
    <3> QED
      BY <3>1, <3>2, <3>3 DEF AbstractLock!Clear, AbstractLock!Next
  <2>8. CASE (\E d \in Dirs : Age(d)) \/ Finished \/ UNCHANGED vars
    BY <2>8 DEF Age, Finished, vars, Inside, Alive
  <2> QED
    BY <2>1, <2>2, <2>3, <2>4, <2>5, <2>6, <2>7, <2>8 DEF Next, Acquire, Release, AbstractLock!Next
<1> QED
  BY <1>1, <1>2, LockInvariant, PTL DEF Spec, ImplementsMutex, AbstractLock!Spec

-----------------------------------------------------------------------------
(* Where the owner records are *)

\* Directories that no attempt has created yet.
Fresh == {d \in Dirs : attempt[d[1]] < d[2]}
\* Places of a call after it wrote its owner file, and before it saw that file go.
Written == {"verifyStat", "verifyList", "verifyRead", "cleanUnlink", "cleanRmdir", "cs", "await",
            "ownerRead", "rename", "tombRead", "tombUnlink"} \cup (Settled \ {"busy", "done"})
AtTomb == {"tombRead", "tombUnlink", "tombRmdir"}

FreshUnused == \A d \in Fresh : /\ lockDir # d /\ owners[d] = {}
                                /\ \A o \in Ops : tomb[o] # d
                                /\ \A e \in Dirs : d \notin owners[e]
TombsApart  == \A o \in Ops : /\ tomb[o] # NoDir => tomb[o] # lockDir
                              /\ pc[o] \in AtTomb => tomb[o] # NoDir
OneHome     == \A o \in Ops : \A d, e \in Dirs :
                 Token(o) \in owners[d] /\ Token(o) \in owners[e] => d = e
OnlyWritten == \A o \in Ops : \A d \in Dirs :
                 Token(o) \in owners[d] => o \notin again /\ pc[o] \in Written
NotAgain    == \A o \in Ops : pc[o] = "write" => o \notin again
RevokedLost == \A o \in revoked : /\ o \notin again /\ pc[o] \in Written
                                  /\ ~OwnerAtPublicPath(o)
                                  /\ tomb[o] # NoDir => ~MovedMyLock(o)
\* A directory that was moved away never comes back to the public path, and a token is in one
\* directory at most: a revoked owner finds its record neither there nor in what it moves itself.
RecordInv == FreshUnused /\ TombsApart /\ OneHome /\ OnlyWritten /\ NotAgain /\ RevokedLost

\* Places from which a recorded owner still has to remove its record from the public path.
Recorded == {"verifyStat", "verifyList", "verifyRead", "cleanUnlink", "cs", "await", "ownerRead",
             "rename"}
OwnersGoOn == lockDir # NoDir =>
                \A t \in owners[lockDir] : \E o \in Ops : Token(o) = t /\ pc[o] \in Recorded
EmptyGoes  == lockDir # NoDir /\ owners[lockDir] = {} =>
                \/ Token(lockDir[1]) = lockDir /\ pc[lockDir[1]] \in {"dirStat", "write"}
                \/ \E o \in Ops : pc[o] = "cleanRmdir"
\* While no file-system call fails, somebody is still to come who frees the public path.
FreeingInv == again = {} /\ OwnersGoOn /\ EmptyGoes

\* A step that moves one call and leaves the directories and the tokens alone keeps the records
\* where they are, if it takes a call that wrote its record to no other place than such calls have.
LEMMA RecordFrame ==
  ASSUME TypeOK, RecordInv, NEW o \in Ops, NEW label,
         pc' = [pc EXCEPT ![o] = label],
         UNCHANGED <<attempt, lockDir, owners, tomb, revoked>>,
         \A p \in Ops \ {o} : p \in again' => p \in again,
         pc[o] \in Written /\ o \notin again => label \in Written /\ o \notin again',
         label \in AtTomb => pc[o] \in AtTomb,
         label = "write" => o \notin again'
  PROVE  RecordInv'
<1> USE DEF RecordInv, TypeOK
<1>1. /\ \A p \in Ops : Token(p)' = Token(p)
      /\ \A p \in Ops \ {o} : pc'[p] = pc[p]
      /\ pc'[o] = label
  BY DEF Token
<1>2. FreshUnused'
  BY DEF FreshUnused, Fresh
<1>3. TombsApart'
  BY <1>1 DEF TombsApart
<1>4. OneHome'
  BY <1>1 DEF OneHome
<1>5. OnlyWritten'
  BY <1>1 DEF OnlyWritten
<1>6. RevokedLost'
  BY <1>1 DEF RevokedLost, OwnerAtPublicPath, MovedMyLock
<1>7. NotAgain'
  BY <1>1 DEF NotAgain
<1> QED
  BY <1>2, <1>3, <1>4, <1>5, <1>6, <1>7

\* A step that removes the empty directory at the public path disturbs no record either.
LEMMA RmdirFrame ==
  ASSUME TypeOK, RecordInv, NEW o \in Ops, NEW label,
         pc' = [pc EXCEPT ![o] = label], lockDir' = AfterRmdir,
         UNCHANGED <<attempt, owners, again, tomb, revoked>>,
         pc[o] \in Written /\ o \notin again => label \in Written,
         label \notin AtTomb \cup {"write"}
  PROVE  RecordInv'
<1> USE DEF RecordInv, TypeOK
<1>1. /\ \A p \in Ops : Token(p)' = Token(p)
      /\ \A p \in Ops \ {o} : pc'[p] = pc[p]
      /\ pc'[o] = label
      /\ lockDir' = lockDir \/ lockDir' = NoDir
  BY DEF Token, AfterRmdir
<1>2. FreshUnused'
  BY <1>1, ConstantsAssumption DEF FreshUnused, Fresh
<1>3. TombsApart'
  BY <1>1 DEF TombsApart
<1>4. OneHome'
  BY <1>1 DEF OneHome
<1>5. OnlyWritten'
  BY <1>1 DEF OnlyWritten
<1>6. RevokedLost'
  BY <1>1 DEF RevokedLost, OwnerAtPublicPath, MovedMyLock
<1>7. NotAgain'
  BY <1>1 DEF NotAgain
<1> QED
  BY <1>2, <1>3, <1>4, <1>5, <1>6, <1>7

\* A step that moves one call and at most removes records keeps them where they are.
LEMMA FewerRecords ==
  ASSUME TypeOK, RecordInv, NEW o \in Ops, NEW label,
         pc' = [pc EXCEPT ![o] = label],
         UNCHANGED <<attempt, lockDir, again, tomb, revoked>>,
         \A d \in Dirs : owners'[d] \subseteq owners[d],
         \/ pc[o] \in Written /\ label \in Written
         \/ o \notin revoked /\ \A d \in Dirs : Token(o) \notin owners'[d],
         label \in AtTomb => pc[o] \in AtTomb,
         label # "write"
  PROVE  RecordInv'
<1> USE DEF RecordInv, TypeOK
<1>1. /\ \A p \in Ops : Token(p)' = Token(p)
      /\ \A p \in Ops \ {o} : pc'[p] = pc[p]
      /\ pc'[o] = label
  BY DEF Token
<1>2. FreshUnused'
  BY DEF FreshUnused, Fresh
<1>3. TombsApart' /\ NotAgain'
  BY <1>1 DEF TombsApart, NotAgain
<1>4. OneHome'
  BY <1>1 DEF OneHome
<1>5. OnlyWritten'
  BY <1>1 DEF OnlyWritten
<1>6. RevokedLost'
  <2>1. ASSUME NEW p \in revoked
        PROVE  /\ p \notin again' /\ pc'[p] \in Written /\ ~OwnerAtPublicPath(p)'
               /\ tomb'[p] # NoDir => ~MovedMyLock(p)'
    <3>1. p \in Ops /\ p \notin again /\ pc'[p] \in Written
      BY <1>1 DEF RevokedLost
    <3>2. lockDir # NoDir => Token(p) \notin owners'[lockDir]
      BY <1>1 DEF RevokedLost, OwnerAtPublicPath
    <3>3. tomb[p] # NoDir => Token(p) \notin owners'[tomb[p]]
      BY <3>1, <1>1 DEF RevokedLost, MovedMyLock
    <3> QED
      BY <3>1, <3>2, <3>3, <1>1 DEF OwnerAtPublicPath, MovedMyLock
  <2> QED
    BY <2>1 DEF RevokedLost
<1> QED
  BY <1>2, <1>3, <1>4, <1>5, <1>6

\* Every step keeps each record in one directory, and what was moved away moved away.
LEMMA RecordStep == TypeOK /\ Counted /\ RecordInv /\ [Next]_vars => RecordInv'
<1> SUFFICES ASSUME TypeOK, Counted, RecordInv, [Next]_vars PROVE RecordInv'
  OBVIOUS
<1> USE DEF At, Goto
<1>0. /\ FreshUnused /\ TombsApart /\ OneHome /\ OnlyWritten /\ NotAgain /\ RevokedLost
      /\ TypeOK' /\ NoDir \notin Dirs
  BY TypeStep, ConstantsAssumption DEF RecordInv
<1>1. ASSUME NEW o \in Ops,
             Start(o) \/ TimeOut(o) \/ MkdirFails(o) \/ ReclaimStat(o) \/ ReclaimList(o)
             \/ DirStat(o) \/ WriteOwnerFails(o) \/ VerifyStat(o) \/ VerifyList(o) \/ VerifyRead(o)
             \/ CleanFault(o)
      PROVE  RecordInv'
  <2>1. UNCHANGED <<attempt, lockDir, owners, tomb, revoked>>
    BY <1>1 DEF Start, TimeOut, MkdirFails, ReclaimStat, ReclaimList, DirStat, WriteOwnerFails,
       VerifyStat, VerifyList, VerifyRead, CleanFault
  <2>2. \A p \in Ops \ {o} : p \in again' => p \in again
    BY <1>1 DEF Start, TimeOut, MkdirFails, ReclaimStat, ReclaimList, DirStat, WriteOwnerFails,
       VerifyStat, VerifyList, VerifyRead, CleanFault
  <2>3. \E l : /\ pc' = [pc EXCEPT ![o] = l] /\ l \notin AtTomb
               /\ pc[o] \in Written /\ o \notin again => l \in Written /\ o \notin again'
               /\ l = "write" => o \notin again'
    <3>1. CASE Start(o) \/ TimeOut(o) \/ MkdirFails(o) \/ ReclaimStat(o) \/ ReclaimList(o)
               \/ DirStat(o) \/ WriteOwnerFails(o)
      <4>1. pc[o] \notin Written
        BY <3>1 DEF Start, TimeOut, MkdirFails, ReclaimStat, ReclaimList, DirStat,
           WriteOwnerFails, Written, Settled
      <4> QED
        BY <3>1, <4>1 DEF Start, TimeOut, MkdirFails, ReclaimStat, ReclaimList, DirStat,
           WriteOwnerFails, GiveUp, AtTomb
    <3>2. CASE VerifyStat(o) \/ VerifyList(o) \/ VerifyRead(o)
      BY <3>2 DEF VerifyStat, VerifyList, VerifyRead, Written, AtTomb
    <3>3. CASE CleanFault(o)
      BY <3>3 DEF CleanFault, AfterCleanup, GiveUp, Written, AtTomb, Settled
    <3> QED
      BY <1>1, <3>1, <3>2, <3>3
  <2> QED
    BY <2>1, <2>2, <2>3, RecordFrame
<1>2. ASSUME NEW o \in Ops, Await(o) \/ FnEnds(o) \/ OwnerRead(o) \/ TombRead(o) \/ ReleaseFault(o)
      PROVE  RecordInv'
  <2>1. UNCHANGED <<attempt, lockDir, owners, again, tomb, revoked>>
    BY <1>2 DEF Await, FnEnds, OwnerRead, TombRead, ReleaseFault
  <2>2. \E l : /\ pc' = [pc EXCEPT ![o] = l]
               /\ pc[o] \in Written => l \in Written
               /\ l \in AtTomb => pc[o] \in AtTomb
               /\ l # "write"
    <3>1. CASE Await(o) \/ FnEnds(o) \/ OwnerRead(o) \/ TombRead(o)
      BY <3>1 DEF Await, FnEnds, OwnerRead, TombRead, Written, AtTomb, Settled
    <3>2. CASE ReleaseFault(o)
      <4>1. /\ AfterFault(o) \in AtTomb => pc[o] \in AtTomb
            /\ pc[o] \in Written => AfterFault(o) \in Written
            /\ AfterFault(o) # "write"
        BY <3>2 DEF ReleaseFault, AfterFault, Releasing, Written, AtTomb, Settled
      <4> QED
        BY <3>2, <4>1 DEF ReleaseFault
    <3> QED
      BY <1>2, <3>1, <3>2
  <2> QED
    BY <2>1, <2>2, RecordFrame
<1>3. ASSUME NEW o \in Ops, ReclaimRmdir(o) \/ CleanRmdir(o)
      PROVE  RecordInv'
  <2>1. \E l : /\ pc' = [pc EXCEPT ![o] = l] /\ l \notin AtTomb \cup {"write"}
               /\ pc[o] \in Written /\ o \notin again => l \in Written
    BY <1>3 DEF ReclaimRmdir, CleanRmdir, AfterCleanup, GiveUp, Written, AtTomb, Settled
  <2>2. lockDir' = AfterRmdir /\ UNCHANGED <<attempt, owners, again, tomb, revoked>>
    BY <1>3 DEF ReclaimRmdir, CleanRmdir
  <2> QED
    BY <2>1, <2>2, RmdirFrame
<1>4. ASSUME NEW o \in Ops, MkdirWins(o)
      PROVE  RecordInv'
  <2> DEFINE new == <<o, attempt[o] + 1>>
  <2>1. /\ new \in Dirs /\ lockDir' = new /\ attempt' = [attempt EXCEPT ![o] = @ + 1]
        /\ pc' = [pc EXCEPT ![o] = "dirStat"] /\ pc[o] \in {"try", "retry"}
        /\ UNCHANGED <<owners, again, tomb, revoked>>
    BY <1>4, ConstantsAssumption DEF MkdirWins, Dirs, TypeOK
  <2>2. new \in Fresh
    BY <2>1 DEF Fresh, TypeOK
  <2>3. Fresh' \subseteq Fresh \ {new}
    <3>1. ASSUME NEW d \in Fresh' PROVE d \in Fresh /\ d # new
      <4>1. d \in Dirs /\ d[1] \in Ops /\ d[2] \in Nat /\ attempt'[d[1]] < d[2]
        BY <3>1, ConstantsAssumption DEF Fresh, Dirs
      <4>2. attempt'[d[1]] >= attempt[d[1]] /\ attempt'[o] = attempt[o] + 1
        BY <4>1, <2>1 DEF TypeOK
      <4>3. attempt[d[1]] \in Nat /\ attempt'[d[1]] \in Nat /\ attempt[o] \in Nat
        BY <4>1, <1>0 DEF TypeOK
      <4> QED
        BY <4>1, <4>2, <4>3 DEF Fresh
    <3> QED
      BY <3>1
  <2>4. /\ \A p \in Ops \ {o} : Token(p)' = Token(p) /\ pc'[p] = pc[p]
        /\ Token(o)' = new /\ pc'[o] = "dirStat"
    BY <2>1 DEF Token, TypeOK
  <2>5. \A e \in Dirs : new \notin owners[e]
    BY <2>2, <1>0 DEF FreshUnused
  <2>6. o \notin revoked
    BY <2>1, <1>0 DEF RevokedLost, Written, Settled
  <2>7. FreshUnused'
    BY <2>1, <2>3, <1>0 DEF FreshUnused
  <2>8. TombsApart'
    <3>1. \A p \in Ops : tomb[p] # new
      BY <2>2, <1>0 DEF FreshUnused
    <3> QED
      BY <2>1, <2>4, <3>1, <1>0 DEF TombsApart, AtTomb
  <2>9. OneHome'
    BY <2>1, <2>4, <2>5, <1>0 DEF OneHome
  <2>10. OnlyWritten'
    BY <2>1, <2>4, <2>5, <1>0 DEF OnlyWritten
  <2>11. RevokedLost'
    <3>1. owners[new] = {}
      BY <2>2, <1>0 DEF FreshUnused
    <3> QED
      BY <2>1, <2>4, <2>6, <3>1, <1>0 DEF RevokedLost, OwnerAtPublicPath, MovedMyLock, TypeOK
  <2>12. NotAgain'
    BY <2>1, <2>4, <1>0 DEF NotAgain
  <2> QED
    BY <2>7, <2>8, <2>9, <2>10, <2>11, <2>12 DEF RecordInv
<1>5. ASSUME NEW o \in Ops, WriteOwner(o)
      PROVE  RecordInv'
  <2>1. CASE lockDir = NoDir
    <3>1. UNCHANGED <<attempt, lockDir, owners, again, tomb, revoked>>
          /\ pc' = [pc EXCEPT ![o] = "cleanRmdir"] /\ "cleanRmdir" \notin AtTomb
          /\ pc[o] \notin Written
      BY <1>5, <2>1 DEF WriteOwner, AtTomb, Written, Settled
    <3> QED
      BY <3>1, RecordFrame
  <2>2. CASE lockDir # NoDir
    <3>1. /\ owners' = [owners EXCEPT ![lockDir] = @ \cup {Token(o)}]
          /\ pc' = [pc EXCEPT ![o] = "verifyStat"] /\ pc[o] = "write"
          /\ UNCHANGED <<attempt, lockDir, again, tomb, revoked>> /\ lockDir \in Dirs
      BY <1>5, <2>2 DEF WriteOwner, TypeOK
    <3>2. /\ \A p \in Ops : Token(p)' = Token(p)
          /\ \A p \in Ops \ {o} : pc'[p] = pc[p] /\ Token(p) # Token(o)
          /\ pc'[o] = "verifyStat"
      BY <3>1, TokensDiffer DEF Token, TypeOK
    <3>3. o \notin revoked /\ \A d \in Dirs : Token(o) \notin owners[d]
      BY <3>1, <1>0 DEF RevokedLost, OnlyWritten, Written, Settled
    <3>4. \A p \in Ops \ {o} : \A d \in Dirs : Token(p) \in owners'[d] <=> Token(p) \in owners[d]
      BY <3>1, <3>2 DEF TypeOK
    <3>5. \A d \in Dirs : Token(o) \in owners'[d] <=> d = lockDir
      BY <3>1, <3>3 DEF TypeOK
    <3>6. Token(o) \in Dirs \ Fresh
      BY <3>1 DEF Token, Dirs, Fresh, TypeOK, Counted
    <3>7. FreshUnused'
      BY <3>1, <3>6, <1>0 DEF FreshUnused, Fresh, TypeOK
    <3>8. TombsApart'
      BY <3>1, <3>2, <1>0 DEF TombsApart, AtTomb
    <3>9. OneHome'
      BY <3>2, <3>4, <3>5, <1>0 DEF OneHome
    <3>10. OnlyWritten'
      <4>1. o \notin again
        BY <3>1, <1>0 DEF NotAgain
      <4> QED
        BY <4>1, <3>1, <3>2, <3>4, <1>0 DEF OnlyWritten, Written
    <3>11. RevokedLost'
      <4>1. \A p \in Ops : tomb[p] # NoDir => tomb[p] \in Dirs
        BY DEF TypeOK
      <4> QED
        BY <4>1, <3>1, <3>2, <3>3, <3>4, <1>0 DEF RevokedLost, OwnerAtPublicPath, MovedMyLock, TypeOK
    <3>12. NotAgain'
      BY <3>1, <3>2, <1>0 DEF NotAgain
    <3> QED
      BY <3>7, <3>8, <3>9, <3>10, <3>11, <3>12 DEF RecordInv
  <2> QED
    BY <2>1, <2>2
<1>6. ASSUME NEW o \in Ops, CleanUnlink(o)
      PROVE  RecordInv'
  <2>1. /\ pc' = [pc EXCEPT ![o] = "cleanRmdir"] /\ pc[o] = "cleanUnlink"
        /\ UNCHANGED <<attempt, lockDir, again, tomb, revoked>>
        /\ \A d \in Dirs : owners'[d] \subseteq owners[d]
        /\ owners' \in [Dirs -> SUBSET Dirs]
    BY <1>6, <1>0 DEF CleanUnlink, WithoutMyOwner, TypeOK
  <2>2. /\ \A p \in Ops : Token(p)' = Token(p)
        /\ \A p \in Ops \ {o} : pc'[p] = pc[p]
        /\ pc'[o] = "cleanRmdir" /\ {"cleanUnlink", "cleanRmdir"} \subseteq Written
    BY <2>1 DEF Token, TypeOK, Written
  <2> QED
    BY <2>1, <2>2, <1>0, FewerRecords DEF AtTomb
<1>7. ASSUME NEW o \in Ops, TombUnlink(o)
      PROVE  RecordInv'
  <2>1. /\ UNCHANGED <<attempt, lockDir, again, tomb, revoked>> /\ tomb[o] \in Dirs
        /\ owners' = [owners EXCEPT ![tomb[o]] = @ \ {Token(o)}]
        /\ pc' = [pc EXCEPT ![o] = IF MovedMyLock(o) THEN "tombRmdir" ELSE "lost"]
        /\ pc[o] = "tombUnlink"
    BY <1>7, <1>0 DEF TombUnlink, TombsApart, AtTomb, TypeOK
  <2>2. \A d \in Dirs : owners'[d] \subseteq owners[d]
    BY <2>1 DEF TypeOK
  <2>3. CASE ~MovedMyLock(o)
    <3>1. pc' = [pc EXCEPT ![o] = "lost"] /\ pc[o] \in Written
      BY <2>1, <2>3 DEF Written
    <3>2. "lost" \in Written /\ "lost" \notin AtTomb
      BY DEF Written, AtTomb, Settled
    <3> QED
      BY <2>1, <2>2, <3>1, <3>2, FewerRecords
  <2>4. CASE MovedMyLock(o)
    <3>1. pc' = [pc EXCEPT ![o] = "tombRmdir"] /\ o \notin revoked
      BY <2>1, <2>4, <1>0, ConstantsAssumption DEF RevokedLost
    <3>2. \A d \in Dirs : Token(o) \notin owners'[d]
      BY <2>1, <2>4, <1>0 DEF MovedMyLock, OneHome, TypeOK
    <3> QED
      BY <2>1, <2>2, <3>1, <3>2, <1>0, FewerRecords DEF AtTomb
  <2> QED
    BY <2>3, <2>4
<1>8. ASSUME NEW o \in Ops, TombRmdir(o)
      PROVE  RecordInv'
  <2>1. /\ UNCHANGED <<attempt, lockDir, owners, again, revoked>> /\ pc[o] = "tombRmdir"
        /\ \E l \in {"done", "leftTomb"} : pc' = [pc EXCEPT ![o] = l]
        /\ tomb' = tomb \/ tomb' = [tomb EXCEPT ![o] = NoDir]
    BY <1>8 DEF TombRmdir
  <2>2. /\ \A p \in Ops : Token(p)' = Token(p)
        /\ \A p \in Ops \ {o} : pc'[p] = pc[p] /\ tomb'[p] = tomb[p]
        /\ pc'[o] \in {"done", "leftTomb"} /\ (tomb'[o] = tomb[o] \/ tomb'[o] = NoDir)
    BY <2>1 DEF Token, TypeOK
  <2>3. o \notin revoked /\ \A d \in Dirs : Token(o) \notin owners[d]
    BY <2>1, <1>0 DEF RevokedLost, OnlyWritten, Written, Settled
  <2>4. FreshUnused'
    BY <2>1, <2>2, <1>0 DEF FreshUnused, Fresh
  <2>5. TombsApart'
    BY <2>1, <2>2, <1>0 DEF TombsApart, AtTomb
  <2>6. OneHome' /\ OnlyWritten' /\ NotAgain'
    BY <2>1, <2>2, <2>3, <1>0 DEF OneHome, OnlyWritten, NotAgain
  <2>7. RevokedLost'
    BY <2>1, <2>2, <2>3, <1>0 DEF RevokedLost, OwnerAtPublicPath, MovedMyLock, TypeOK
  <2> QED
    BY <2>4, <2>5, <2>6, <2>7 DEF RecordInv
<1>9. ASSUME NEW o \in Ops, Rename(o)
      PROVE  RecordInv'
  <2>1. CASE lockDir = NoDir
    <3>1. /\ UNCHANGED <<attempt, lockDir, owners, again, tomb, revoked>>
          /\ pc' = [pc EXCEPT ![o] = "lost"] /\ "lost" \in Written \ (AtTomb \cup {"write"})
      BY <1>9, <2>1 DEF Rename, Written, AtTomb, Settled
    <3> QED
      BY <3>1, RecordFrame
  <2>2. CASE lockDir # NoDir
    <3>1. /\ lockDir \in Dirs /\ lockDir' = NoDir /\ tomb' = [tomb EXCEPT ![o] = lockDir]
          /\ pc' = [pc EXCEPT ![o] = "tombRead"] /\ pc[o] = "rename"
          /\ revoked' = revoked \cup {p \in Ops \ {o} : pc[p] \in Holding /\ OwnerAtPublicPath(p)}
          /\ UNCHANGED <<attempt, owners, again>>
      BY <1>9, <2>2 DEF Rename, TypeOK
    <3>2. /\ \A p \in Ops : Token(p)' = Token(p)
          /\ \A p \in Ops \ {o} : pc'[p] = pc[p] /\ tomb'[p] = tomb[p]
          /\ pc'[o] = "tombRead" /\ tomb'[o] = lockDir
      BY <3>1 DEF Token, TypeOK
    <3>3. FreshUnused'
      BY <3>1, <3>2, <1>0 DEF FreshUnused, Fresh
    <3>4. TombsApart'
      BY <3>1, <3>2, <1>0 DEF TombsApart
    <3>5. OneHome' /\ NotAgain'
      BY <3>1, <3>2, <1>0 DEF OneHome, NotAgain
    <3>6. OnlyWritten'
      BY <3>1, <3>2, <1>0 DEF OnlyWritten, Written
    <3>7. RevokedLost'
      <4>1. ASSUME NEW p \in revoked
            PROVE  /\ p \notin again' /\ pc'[p] \in Written /\ ~OwnerAtPublicPath(p)'
                   /\ tomb'[p] # NoDir => ~MovedMyLock(p)'
        <5>1. p \in Ops
          BY DEF TypeOK
        <5>2. Token(p) \notin owners[lockDir]
          BY <3>1, <1>0 DEF RevokedLost, OwnerAtPublicPath
        <5> QED
          BY <5>1, <5>2, <3>1, <3>2, <1>0 DEF RevokedLost, OwnerAtPublicPath, MovedMyLock, Written
      <4>2. ASSUME NEW p \in Ops \ {o}, OwnerAtPublicPath(p)
            PROVE  /\ p \notin again' /\ pc'[p] \in Written /\ ~OwnerAtPublicPath(p)'
                   /\ tomb'[p] # NoDir => ~MovedMyLock(p)'
        <5>1. Token(p) \in owners[lockDir]
          BY <4>2 DEF OwnerAtPublicPath
        <5>2. tomb[p] # NoDir => Token(p) \notin owners[tomb[p]]
          <6>1. tomb[p] # NoDir => tomb[p] \in Dirs /\ tomb[p] # lockDir
            BY <1>0 DEF TombsApart, TypeOK
          <6> QED
            BY <5>1, <6>1, <3>1, <1>0 DEF OneHome
        <5> QED
          BY <5>1, <5>2, <3>1, <3>2, <1>0 DEF OnlyWritten, OwnerAtPublicPath, MovedMyLock
      <4> QED
        BY <4>1, <4>2, <3>1 DEF RevokedLost
    <3> QED
      BY <3>3, <3>4, <3>5, <3>6, <3>7 DEF RecordInv
  <2> QED
    BY <2>1, <2>2
<1>10. CASE OperatorClears
  <2>1. /\ lockDir \in Dirs /\ lockDir' = NoDir /\ owners' = [owners EXCEPT ![lockDir] = {}]
        /\ revoked' = revoked \cup {o \in Ops : Token(o) \in owners[lockDir]}
        /\ UNCHANGED <<pc, attempt, again, tomb>>
    BY <1>10 DEF OperatorClears, TypeOK
  <2>2. /\ \A o \in Ops : Token(o)' = Token(o)
        /\ \A d \in Dirs : owners'[d] \subseteq owners[d]
        /\ owners'[lockDir] = {}
    BY <2>1 DEF Token, TypeOK
  <2>3. FreshUnused'
    BY <2>1, <2>2, <1>0 DEF FreshUnused, Fresh
  <2>4. TombsApart' /\ OneHome' /\ OnlyWritten' /\ NotAgain'
    BY <2>1, <2>2, <1>0 DEF TombsApart, OneHome, OnlyWritten, NotAgain
  <2>5. RevokedLost'
    <3>1. ASSUME NEW o \in Ops, o \in revoked \/ Token(o) \in owners[lockDir]
          PROVE  /\ o \notin again' /\ pc'[o] \in Written /\ ~OwnerAtPublicPath(o)'
                 /\ tomb'[o] # NoDir => ~MovedMyLock(o)'
      <4>1. o \notin again /\ pc[o] \in Written
        BY <3>1, <2>1, <1>0 DEF RevokedLost, OnlyWritten
      <4>2. tomb[o] # NoDir => Token(o) \notin owners'[tomb[o]]
        <5>1. tomb[o] # NoDir => tomb[o] \in Dirs
          BY DEF TypeOK
        <5>2. tomb[o] # NoDir /\ Token(o) \in owners[tomb[o]] => tomb[o] = lockDir
          BY <5>1, <3>1, <2>1, <1>0 DEF RevokedLost, MovedMyLock, OneHome
        <5> QED
          BY <5>1, <5>2, <2>2
      <4> QED
        BY <4>1, <4>2, <2>1, <2>2 DEF OwnerAtPublicPath, MovedMyLock
    <3> QED
      BY <3>1, <2>1, <1>0 DEF RevokedLost, TypeOK
  <2> QED
    BY <2>3, <2>4, <2>5 DEF RecordInv
<1>11. CASE (\E d \in Dirs : Age(d)) \/ (\E p \in Procs : Crash(p)) \/ Finished \/ UNCHANGED vars
  <2>1. UNCHANGED <<pc, attempt, lockDir, owners, again, tomb, revoked>>
    BY <1>11 DEF Age, Crash, Finished, vars
  <2> QED
    BY <2>1, <1>0 DEF RecordInv, FreshUnused, Fresh, TombsApart, OneHome, OnlyWritten, NotAgain,
       RevokedLost, OwnerAtPublicPath, MovedMyLock, Token
<1> QED
  BY <1>1, <1>2, <1>3, <1>4, <1>5, <1>6, <1>7, <1>8, <1>9, <1>10, <1>11 DEF Next, Acquire, Release

\* The records start where the invariant wants them: nowhere.
LEMMA InitRecordInv == Init => RecordInv
<1> SUFFICES ASSUME Init PROVE RecordInv
  OBVIOUS
<1>1. FreshUnused
  BY ConstantsAssumption DEF Init, FreshUnused, Fresh
<1>2. TombsApart /\ OneHome /\ OnlyWritten /\ NotAgain /\ RevokedLost
  BY DEF Init, TombsApart, AtTomb, OneHome, OnlyWritten, NotAgain, RevokedLost
<1> QED
  BY <1>1, <1>2 DEF RecordInv

\* Where the records are, in every reachable state, whatever dies, fails or is forced.
LEMMA RecordInvariant == Spec => [](TypeOK /\ Counted /\ RecordInv)
<1>1. Init => TypeOK /\ Counted /\ RecordInv
  BY InitLockInv, InitRecordInv DEF LockInv
<1>2. TypeOK /\ Counted /\ RecordInv /\ [Next]_vars => (TypeOK /\ Counted /\ RecordInv)'
  BY TypeStep, RecordStep
<1> QED
  BY <1>1, <1>2, PTL DEF Spec

\* A call whose lock was removed or moved under it never reports success, even when operators
\* remove the locks of live owners.
THEOREM RevokedIsTold == Spec => []RevokedNeverSucceeds
<1>1. RecordInv => RevokedNeverSucceeds
  BY DEF RecordInv, RevokedLost, Written, Settled, RevokedNeverSucceeds
<1> QED
  BY <1>1, RecordInvariant, PTL

-----------------------------------------------------------------------------
(* Who frees the public path *)

\* A step that moves one call and leaves the directories alone keeps someone who frees the path.
LEMMA FreeingFrame ==
  ASSUME TypeOK, FreeingInv, NEW o \in Ops, NEW label,
         pc' = [pc EXCEPT ![o] = label],
         UNCHANGED <<attempt, lockDir, owners>>, again' = {},
         pc[o] \in Recorded /\ OwnerAtPublicPath(o) => label \in Recorded,
         pc[o] \in {"dirStat", "write"} /\ lockDir # NoDir => label \in {"dirStat", "write"},
         pc[o] # "cleanRmdir"
  PROVE  FreeingInv'
<1> USE DEF FreeingInv, TypeOK
<1>1. /\ \A p \in Ops : Token(p)' = Token(p)
      /\ \A p \in Ops \ {o} : pc'[p] = pc[p]
      /\ pc'[o] = label
  BY DEF Token
<1>2. OwnersGoOn'
  BY <1>1 DEF OwnersGoOn, OwnerAtPublicPath
<1>3. EmptyGoes'
  <2>1. lockDir # NoDir => lockDir[1] \in Ops
    BY DEF Dirs
  <2> QED
    BY <1>1, <2>1 DEF EmptyGoes
<1> QED
  BY <1>2, <1>3

\* Every step keeps it, while no file-system call fails.
LEMMA FreeingStep ==
  ASSUME Transient = FALSE, TypeOK, RecordInv, FreeingInv, [Next]_vars
  PROVE  FreeingInv'
<1> USE DEF At, Goto
<1>0. again = {} /\ OwnersGoOn /\ EmptyGoes /\ FreshUnused /\ TombsApart /\ TypeOK
  BY DEF FreeingInv, RecordInv
<1>1. ASSUME NEW o \in Ops,
             Start(o) \/ TimeOut(o) \/ MkdirFails(o) \/ ReclaimStat(o) \/ ReclaimList(o)
             \/ DirStat(o) \/ VerifyStat(o) \/ VerifyList(o) \/ VerifyRead(o)
             \/ Await(o) \/ FnEnds(o) \/ OwnerRead(o) \/ TombRead(o) \/ TombRmdir(o)
      PROVE  FreeingInv'
  <2>1. UNCHANGED <<attempt, lockDir, owners>> /\ again' = {}
    BY <1>0, <1>1 DEF Start, TimeOut, MkdirFails, ReclaimStat, ReclaimList, DirStat, VerifyStat,
       VerifyList, VerifyRead, Await, FnEnds, OwnerRead, TombRead, TombRmdir
  <2>2. \E l : /\ pc' = [pc EXCEPT ![o] = l]
               /\ pc[o] \in Recorded /\ OwnerAtPublicPath(o) => l \in Recorded
               /\ pc[o] \in {"dirStat", "write"} /\ lockDir # NoDir => l \in {"dirStat", "write"}
               /\ pc[o] # "cleanRmdir"
    <3>1. CASE Start(o) \/ TimeOut(o) \/ MkdirFails(o) \/ ReclaimStat(o) \/ ReclaimList(o)
               \/ DirStat(o) \/ TombRead(o) \/ TombRmdir(o)
      BY <3>1 DEF Start, TimeOut, MkdirFails, ReclaimStat, ReclaimList, DirStat, TombRead,
         TombRmdir, GiveUp, Recorded
    <3>2. CASE VerifyStat(o) \/ VerifyList(o) \/ VerifyRead(o) \/ Await(o) \/ FnEnds(o)
               \/ OwnerRead(o)
      BY <3>2 DEF VerifyStat, VerifyList, VerifyRead, Await, FnEnds, OwnerRead, Recorded
    <3> QED
      BY <1>1, <3>1, <3>2
  <2> QED
    BY <2>1, <2>2, FreeingFrame
<1>2. ASSUME NEW o \in Ops, WriteOwnerFails(o) \/ CleanFault(o) \/ ReleaseFault(o)
      PROVE  FALSE
  BY <1>2, Transient = FALSE DEF WriteOwnerFails, CleanFault, ReleaseFault
<1>3. ASSUME NEW o \in Ops, ReclaimRmdir(o) \/ CleanRmdir(o)
      PROVE  FreeingInv'
  <2>1. /\ lockDir' = AfterRmdir /\ UNCHANGED <<attempt, owners, again>>
        /\ pc[o] \notin Recorded /\ \E l : pc' = [pc EXCEPT ![o] = l]
    BY <1>3 DEF ReclaimRmdir, CleanRmdir, AfterCleanup, GiveUp, Recorded
  <2>2. lockDir' # NoDir => lockDir' = lockDir /\ owners[lockDir] # {}
    BY <2>1 DEF AfterRmdir
  <2>3. \A p \in Ops : Token(p)' = Token(p) /\ (pc[p] \in Recorded => pc'[p] \in Recorded)
    BY <2>1, <1>0 DEF Token, TypeOK
  <2> QED
    BY <2>1, <2>2, <2>3, <1>0 DEF FreeingInv, OwnersGoOn, EmptyGoes
<1>4. ASSUME NEW o \in Ops, MkdirWins(o)
      PROVE  FreeingInv'
  <2> DEFINE new == <<o, attempt[o] + 1>>
  <2>1. /\ new \in Dirs /\ lockDir' = new /\ attempt' = [attempt EXCEPT ![o] = @ + 1]
        /\ pc' = [pc EXCEPT ![o] = "dirStat"] /\ UNCHANGED <<owners, again>>
    BY <1>4, ConstantsAssumption DEF MkdirWins, Dirs, TypeOK
  <2>2. new \in Fresh
    BY <2>1 DEF Fresh, TypeOK
  <2>3. owners[new] = {}
    BY <2>2, <1>0 DEF FreshUnused
  <2>4. Token(o)' = new /\ pc'[o] = "dirStat" /\ new[1] = o
    BY <2>1 DEF Token, TypeOK
  <2> QED
    BY <2>1, <2>3, <2>4, <1>0 DEF FreeingInv, OwnersGoOn, EmptyGoes
<1>5. ASSUME NEW o \in Ops, WriteOwner(o)
      PROVE  FreeingInv'
  <2>1. CASE lockDir = NoDir
    BY <1>5, <2>1, <1>0 DEF WriteOwner, FreeingInv, OwnersGoOn, EmptyGoes
  <2>2. CASE lockDir # NoDir
    <3>1. /\ owners'[lockDir] = owners[lockDir] \cup {Token(o)}
          /\ pc' = [pc EXCEPT ![o] = "verifyStat"] /\ pc[o] = "write"
          /\ UNCHANGED <<attempt, lockDir, again>>
      BY <1>5, <2>2 DEF WriteOwner, TypeOK
    <3>2. /\ \A p \in Ops : Token(p)' = Token(p) /\ (pc[p] \in Recorded => pc'[p] \in Recorded)
          /\ pc'[o] \in Recorded
      BY <3>1 DEF Token, Recorded, TypeOK
    <3> QED
      BY <3>1, <3>2, <1>0 DEF FreeingInv, OwnersGoOn, EmptyGoes
  <2> QED
    BY <2>1, <2>2
<1>6. ASSUME NEW o \in Ops, CleanUnlink(o)
      PROVE  FreeingInv'
  <2>1. /\ pc' = [pc EXCEPT ![o] = "cleanRmdir"] /\ UNCHANGED <<attempt, lockDir, again>>
        /\ lockDir # NoDir => owners'[lockDir] = owners[lockDir] \ {Token(o)}
    BY <1>6 DEF CleanUnlink, WithoutMyOwner, OwnerAtPublicPath, TypeOK
  <2>2. /\ \A p \in Ops : Token(p)' = Token(p)
        /\ \A p \in Ops \ {o} : pc'[p] = pc[p]
        /\ pc'[o] = "cleanRmdir"
    BY <2>1 DEF Token, TypeOK
  <2> QED
    BY <2>1, <2>2, <1>0 DEF FreeingInv, OwnersGoOn, EmptyGoes
<1>7. ASSUME NEW o \in Ops, TombUnlink(o)
      PROVE  FreeingInv'
  <2>1. /\ pc[o] = "tombUnlink" /\ \E l : pc' = [pc EXCEPT ![o] = l]
        /\ owners' = [owners EXCEPT ![tomb[o]] = @ \ {Token(o)}]
        /\ UNCHANGED <<attempt, lockDir, again>>
    BY <1>7 DEF TombUnlink
  <2>2. lockDir # NoDir => owners'[lockDir] = owners[lockDir]
    BY <2>1, <1>0 DEF TombsApart, AtTomb, TypeOK
  <2>3. \A p \in Ops : /\ Token(p)' = Token(p)
                       /\ pc[p] \in Recorded \cup {"dirStat", "write", "cleanRmdir"} => pc'[p] = pc[p]
    BY <2>1, <1>0 DEF Token, Recorded, TypeOK
  <2>4. lockDir # NoDir => lockDir[1] \in Ops
    BY <1>0 DEF Dirs, TypeOK
  <2> QED
    BY <2>1, <2>2, <2>3, <2>4, <1>0 DEF FreeingInv, OwnersGoOn, EmptyGoes
<1>8. ASSUME NEW o \in Ops, Rename(o)
      PROVE  FreeingInv'
  BY <1>8, <1>0 DEF Rename, FreeingInv, OwnersGoOn, EmptyGoes
<1>9. CASE OperatorClears
  BY <1>9, <1>0 DEF OperatorClears, FreeingInv, OwnersGoOn, EmptyGoes
<1>10. CASE (\E d \in Dirs : Age(d)) \/ (\E p \in Procs : Crash(p)) \/ Finished \/ UNCHANGED vars
  <2>1. UNCHANGED <<pc, attempt, lockDir, owners, again>>
    BY <1>10 DEF Age, Crash, Finished, vars
  <2> QED
    BY <2>1, <1>0 DEF FreeingInv, OwnersGoOn, EmptyGoes, Token
<1> QED
  BY <1>1, <1>2, <1>3, <1>4, <1>5, <1>6, <1>7, <1>8, <1>9, <1>10 DEF Next, Acquire, Release

\* When every call has ended and nobody died, the lock is free, if no file-system call failed:
\* a record that a failed call left would keep it busy for good.
THEOREM LockIsFreed == ASSUME Transient = FALSE PROVE Spec => []QuiescentLockIsFree
<1>1. Init => FreeingInv
  BY DEF Init, FreeingInv, OwnersGoOn, EmptyGoes
<1>2. TypeOK /\ RecordInv /\ FreeingInv /\ [Next]_vars => FreeingInv'
  BY Transient = FALSE, FreeingStep
<1>3. TypeOK /\ FreeingInv => QuiescentLockIsFree
  <2> SUFFICES ASSUME TypeOK, FreeingInv, Quiescent, dead = {} PROVE lockDir = NoDir
    BY DEF QuiescentLockIsFree
  <2>1. \A o \in Ops : pc[o] \in Settled
    BY DEF Quiescent, Gone, Alive
  <2>2. \A o \in Ops : pc[o] \notin Recorded \cup {"dirStat", "write", "cleanRmdir"}
    BY <2>1 DEF Settled, Recorded
  <2>3. lockDir # NoDir => lockDir[1] \in Ops
    BY DEF Dirs, TypeOK
  <2> QED
    BY <2>2, <2>3 DEF FreeingInv, OwnersGoOn, EmptyGoes, TypeOK
<1> QED
  BY <1>1, <1>2, <1>3, RecordInvariant, PTL DEF Spec
=============================================================================
