------------------------------ MODULE StateLock ------------------------------
(***************************************************************************)
(* The state-store lock of lib/state-lock.js: withStateLock(target, fn).   *)
(*                                                                         *)
(* The lock is a directory `<target>.lock` holding one file                *)
(* `owner-<token>.json`.  Every file-system call of the protocol that      *)
(* another process can observe is an action of its own, so processes       *)
(* interleave between any two of them.  A directory *instance* is named by *)
(* the attempt whose mkdir created it; the token of an attempt is that     *)
(* same name, because the code draws a new token per attempt.              *)
(*                                                                         *)
(* An operation is one call of withStateLock.  Its acquisition and its     *)
(* release block the thread of its process (Atomics.wait), so two          *)
(* operations of one process interleave only while one of them awaits the  *)
(* promise its fn returned.                                                *)
(***************************************************************************)
EXTENDS Naturals

CONSTANTS
  Ops,              \* calls of withStateLock on one target
  Procs,            \* Node processes
  ProcOf,           \* the process that makes each call
  FailOpen,         \* the calls that pass failOpen: true
  MaxAttempts,      \* bound on the mkdirs that one call wins
  MaxReleaseTries,  \* the release loop's bound (6 in the code)
  NoDir,            \* "no directory at this path"
  Crashes,          \* may processes die?
  Stalls,           \* may a live process pause longer than staleMs?
  Transient,        \* may mkdir/open/rename/unlink/rmdir fail with EPERM, EACCES, EBUSY?
  Forced,           \* may an operator remove the lock of a live owner?
  InodeIdentity     \* does the platform report usable inode numbers?

Dirs == Ops \X (1..MaxAttempts)

ASSUME ConstantsAssumption ==
  /\ ProcOf \in [Ops -> Procs]
  /\ FailOpen \subseteq Ops
  /\ MaxAttempts \in Nat \ {0}
  /\ MaxReleaseTries \in Nat \ {0}
  /\ NoDir \notin Dirs
  /\ {Crashes, Stalls, Transient, Forced, InodeIdentity} \subseteq BOOLEAN

VARIABLES
  pc,        \* where each call is
  attempt,   \* how many directories each call has created
  lockDir,   \* the directory instance at <target>.lock, or NoDir
  owners,    \* the owner tokens inside each directory instance
  old,       \* directories whose mtime is older than staleMs
  made,      \* createdDirStat: what each call's stat saw after its mkdir
  sawOld,    \* calls whose reclaim stat saw a stale mtime
  again,     \* calls whose acquisition error has a retryable code
  tomb,      \* what each call moved to its <lock>.release-<token>
  tries,     \* iterations of each call's release loop that failed
  dead,      \* processes that died
  revoked    \* calls whose directory another actor took away while they held it

vars == <<pc, attempt, lockDir, owners, old, made, sawOld, again, tomb, tries,
          dead, revoked>>

Acquiring == {"try", "retry", "reclaimStat", "reclaimList", "reclaimRmdir",
              "dirStat", "write", "verifyStat", "verifyList", "verifyRead",
              "cleanUnlink", "cleanRmdir"}
Releasing == {"ownerRead", "rename", "tombRead", "tombUnlink", "tombRmdir"}
\* A call that ended: refused (no fn), unprotected (fn without lock), busy
\* (E_LOCK_BUSY), done (success reported), lost (E_LOCK_OWNERSHIP_LOST),
\* orphaned and leftTomb (E_LOCK_RELEASE with the lock, or its tombstone, left).
Settled == {"refused", "unprotected", "busy", "done", "lost", "orphaned", "leftTomb"}
\* fn runs, or has run, and the public lock path has not been given up.
Holding == {"cs", "await", "ownerRead", "rename", "orphaned"}

\* Mutant: one owner file name per target instead of a token per attempt.
Token_fixedName(o) == <<CHOOSE p \in Ops : TRUE, 1>>
Token(o) == <<o, attempt[o]>>
Alive(o) == ProcOf[o] \notin dead
\* The thread of o's process is inside a synchronous part of some call.
ThreadBusy(p) == \E o \in Ops : ProcOf[o] = p /\ pc[o] \in Acquiring \cup Releasing \cup {"cs"}
\* _heldLocks of process p has an entry for this lock.
HeldInProcess(p) == \E o \in Ops : ProcOf[o] = p /\ pc[o] \in {"cs", "await"}
OwnerAtPublicPath(o) == lockDir # NoDir /\ Token(o) \in owners[lockDir]
\* Mutant: the token is there, with other owners or without.
OnlyMyOwner_present(o) == Token(o) \in owners[lockDir]
OnlyMyOwner(o) == owners[lockDir] = {Token(o)}
\* Mutant: the failed attempt leaves its owner file.
WithoutMyOwner_kept(o) == owners[lockDir]
WithoutMyOwner(o) == owners[lockDir] \ {Token(o)}
\* Mutant: the directory is removed with what is in it.
AfterRmdir_recursive == NoDir
\* rmdirSync(lockPath): only an empty directory goes.
AfterRmdir == IF lockDir # NoDir /\ owners[lockDir] = {} THEN NoDir ELSE lockDir
MovedMyLock(o) == Token(o) \in owners[tomb[o]]

Goto(o, label) == pc' = [pc EXCEPT ![o] = label]
GiveUp(o) == Goto(o, IF o \in FailOpen THEN "unprotected" ELSE "refused")
At(o, label) == pc[o] = label /\ Alive(o)

Init ==
  /\ pc = [o \in Ops |-> "idle"]
  /\ attempt = [o \in Ops |-> 0]
  /\ lockDir = NoDir
  /\ owners = [d \in Dirs |-> {}]
  /\ old = {}
  /\ made = [o \in Ops |-> NoDir]
  /\ sawOld = {}
  /\ again = {}
  /\ tomb = [o \in Ops |-> NoDir]
  /\ tries = [o \in Ops |-> 0]
  /\ dead = {}
  /\ revoked = {}

-----------------------------------------------------------------------------
(* Acquisition *)

\* ACTION: withStateLock is called; another async call of this process holding
\* the lock makes it fail at once, since waiting would block that call too.
Start(o) ==
  /\ At(o, "idle")
  /\ ~ThreadBusy(ProcOf[o])
  /\ Goto(o, IF HeldInProcess(ProcOf[o]) THEN "busy" ELSE "try")
  /\ UNCHANGED <<attempt, lockDir, owners, old, made, sawOld, again, tomb, tries, dead, revoked>>

\* ACTION: the waiting loop's condition fails; it is not tested before the first attempt's end.
TimeOut(o) ==
  /\ At(o, "retry")
  /\ GiveUp(o)
  /\ UNCHANGED <<attempt, lockDir, owners, old, made, sawOld, again, tomb, tries, dead, revoked>>

\* ACTION: mkdirSync(lockPath) succeeds.
MkdirWins(o) ==
  /\ At(o, "try") \/ At(o, "retry")
  /\ lockDir = NoDir
  /\ attempt[o] < MaxAttempts
  /\ attempt' = [attempt EXCEPT ![o] = @ + 1]
  /\ lockDir' = <<o, attempt[o] + 1>>
  /\ Goto(o, "dirStat")
  /\ UNCHANGED <<owners, old, made, sawOld, again, tomb, tries, dead, revoked>>

\* ACTION: mkdirSync fails with EEXIST, or with another retryable code.
MkdirFails(o) ==
  /\ At(o, "try") \/ At(o, "retry")
  /\ lockDir # NoDir \/ Transient
  /\ Goto(o, "reclaimStat")
  /\ UNCHANGED <<attempt, lockDir, owners, old, made, sawOld, again, tomb, tries, dead, revoked>>

\* ACTION: _reclaimLockDirectory stats the directory that is there now.
ReclaimStat(o) ==
  /\ At(o, "reclaimStat")
  /\ Goto(o, IF lockDir = NoDir THEN "retry" ELSE "reclaimList")
  /\ sawOld' = IF lockDir \in old THEN sawOld \cup {o} ELSE sawOld \ {o}
  /\ UNCHANGED <<attempt, lockDir, owners, old, made, again, tomb, tries, dead, revoked>>

\* ACTION: it lists the directory; only an empty one seen stale is a candidate.
ReclaimList(o) ==
  /\ At(o, "reclaimList")
  /\ Goto(o, IF lockDir # NoDir /\ owners[lockDir] = {} /\ o \in sawOld
             THEN "reclaimRmdir" ELSE "retry")
  /\ sawOld' = sawOld \ {o}
  /\ UNCHANGED <<attempt, lockDir, owners, old, made, again, tomb, tries, dead, revoked>>

\* ACTION: rmdirSync takes whatever empty directory is at the path by then; a
\* directory that got an entry meanwhile makes it fail.
ReclaimRmdir(o) ==
  /\ At(o, "reclaimRmdir")
  /\ lockDir' = AfterRmdir
  /\ Goto(o, "retry")
  /\ UNCHANGED <<attempt, owners, old, made, sawOld, again, tomb, tries, dead, revoked>>

\* ACTION: createdDirStat = statSync(lockPath), which a reclaim may have emptied or replaced.
DirStat(o) ==
  /\ At(o, "dirStat")
  /\ made' = [made EXCEPT ![o] = lockDir]
  /\ again' = again \ {o}
  /\ Goto(o, IF lockDir = NoDir THEN "cleanRmdir" ELSE "write")
  /\ UNCHANGED <<attempt, lockDir, owners, old, sawOld, tomb, tries, dead, revoked>>

\* ACTION: the owner file is created ('wx') and written in the directory now at the path.
WriteOwner(o) ==
  /\ At(o, "write")
  /\ IF lockDir = NoDir
     THEN Goto(o, "cleanRmdir") /\ UNCHANGED <<owners, old>>
     ELSE /\ owners' = [owners EXCEPT ![lockDir] = @ \cup {Token(o)}]
          /\ old' = old \ {lockDir}
          /\ Goto(o, "verifyStat")
  /\ UNCHANGED <<attempt, lockDir, made, sawOld, again, tomb, tries, dead, revoked>>

\* ACTION: creating the owner file fails with a retryable code: clean up, then wait.
WriteOwnerFails(o) ==
  /\ At(o, "write")
  /\ Transient
  /\ again' = again \cup {o}
  /\ Goto(o, "cleanRmdir")
  /\ UNCHANGED <<attempt, lockDir, owners, old, made, sawOld, tomb, tries, dead, revoked>>

\* ACTION: the directory must still be the one seen after mkdir, where inodes can tell.
VerifyStat(o) ==
  /\ At(o, "verifyStat")
  /\ Goto(o, IF lockDir # NoDir /\ (InodeIdentity => lockDir = made[o])
             THEN "verifyList" ELSE "cleanUnlink")
  /\ made' = [made EXCEPT ![o] = NoDir]
  /\ UNCHANGED <<attempt, lockDir, owners, old, sawOld, again, tomb, tries, dead, revoked>>

\* ACTION: my owner file must be its only entry.
VerifyList(o) ==
  /\ At(o, "verifyList")
  /\ Goto(o, IF lockDir # NoDir /\ OnlyMyOwner(o)
             THEN "verifyRead" ELSE "cleanUnlink")
  /\ UNCHANGED <<attempt, lockDir, owners, old, made, sawOld, again, tomb, tries, dead, revoked>>

\* ACTION: the owner file reads back with my token: the lock is held and fn starts.
VerifyRead(o) ==
  /\ At(o, "verifyRead")
  /\ Goto(o, IF OwnerAtPublicPath(o) THEN "cs" ELSE "cleanUnlink")
  /\ UNCHANGED <<attempt, lockDir, owners, old, made, sawOld, again, tomb, tries, dead, revoked>>

\* ACTION: a failed attempt unlinks its own owner file, if it is still at the public path.
CleanUnlink(o) ==
  /\ At(o, "cleanUnlink")
  /\ IF OwnerAtPublicPath(o)
     THEN /\ owners' = [owners EXCEPT ![lockDir] = WithoutMyOwner(o)]
          /\ old' = old \ {lockDir}
     ELSE UNCHANGED <<owners, old>>
  /\ Goto(o, "cleanRmdir")
  /\ UNCHANGED <<attempt, lockDir, made, sawOld, again, tomb, tries, dead, revoked>>

\* Ownership errors and ENOENT end the wait; a retryable code goes on with it.
AfterCleanup(o) == IF o \in again THEN Goto(o, "reclaimStat") ELSE GiveUp(o)

\* ACTION: then it rmdirs the public path, whoever made the directory there.
CleanRmdir(o) ==
  /\ At(o, "cleanRmdir")
  /\ lockDir' = AfterRmdir
  /\ AfterCleanup(o)
  /\ UNCHANGED <<attempt, owners, old, made, sawOld, again, tomb, tries, dead, revoked>>

\* ACTION: a cleanup call fails transiently, and its catch block swallows that.
CleanFault(o) ==
  /\ Transient
  /\ \/ At(o, "cleanUnlink") /\ Goto(o, "cleanRmdir")
     \/ At(o, "cleanRmdir") /\ AfterCleanup(o)
  /\ UNCHANGED <<attempt, lockDir, owners, old, made, sawOld, again, tomb, tries, dead, revoked>>

-----------------------------------------------------------------------------
(* The critical section and the release *)

\* ACTION: fn returned a promise: the lock stays held and the thread is free again.
Await(o) ==
  /\ At(o, "cs")
  /\ Goto(o, "await")
  /\ UNCHANGED <<attempt, lockDir, owners, old, made, sawOld, again, tomb, tries, dead, revoked>>

\* ACTION: fn returned or threw, or its promise settled (first settlement only): release()
\* begins by dropping the in-process entry.
FnEnds(o) ==
  /\ \/ At(o, "cs")
     \/ At(o, "await") /\ ~ThreadBusy(ProcOf[o])
  /\ Goto(o, "ownerRead")
  /\ UNCHANGED <<attempt, lockDir, owners, old, made, sawOld, again, tomb, tries, dead, revoked>>

\* ACTION: the owner file is read at the public path before anything is moved.
OwnerRead(o) ==
  /\ At(o, "ownerRead")
  /\ Goto(o, IF OwnerAtPublicPath(o) THEN "rename" ELSE "lost")
  /\ UNCHANGED <<attempt, lockDir, owners, old, made, sawOld, again, tomb, tries, dead, revoked>>

\* ACTION: the whole directory moves to <lock>.release-<token>, whoever's it is by now.
Rename(o) ==
  /\ At(o, "rename")
  /\ IF lockDir = NoDir
     THEN Goto(o, "lost") /\ UNCHANGED <<lockDir, tomb, revoked>>
     ELSE /\ tomb' = [tomb EXCEPT ![o] = lockDir]
          /\ revoked' = revoked \cup {p \in Ops \ {o} : pc[p] \in Holding /\ OwnerAtPublicPath(p)}
          /\ lockDir' = NoDir
          /\ Goto(o, "tombRead")
  /\ UNCHANGED <<attempt, owners, old, made, sawOld, again, tries, dead>>

\* ACTION: the owner is read again in the tombstone: what moved must be my lock.
TombRead(o) ==
  /\ At(o, "tombRead")
  /\ Goto(o, IF MovedMyLock(o) THEN "tombUnlink" ELSE "lost")
  /\ UNCHANGED <<attempt, lockDir, owners, old, made, sawOld, again, tomb, tries, dead, revoked>>

\* ACTION: my owner file is unlinked from the tombstone.
TombUnlink(o) ==
  /\ At(o, "tombUnlink")
  /\ owners' = [owners EXCEPT ![tomb[o]] = @ \ {Token(o)}]
  /\ Goto(o, IF MovedMyLock(o) THEN "tombRmdir" ELSE "lost")
  /\ UNCHANGED <<attempt, lockDir, old, made, sawOld, again, tomb, tries, dead, revoked>>

\* ACTION: the tombstone is removed and success reported, unless a foreign entry is in it.
TombRmdir(o) ==
  /\ At(o, "tombRmdir")
  /\ IF owners[tomb[o]] = {}
     THEN Goto(o, "done") /\ tomb' = [tomb EXCEPT ![o] = NoDir]
     ELSE Goto(o, "leftTomb") /\ UNCHANGED tomb
  /\ UNCHANGED <<attempt, lockDir, owners, old, made, sawOld, again, tries, dead, revoked>>

\* Mutant: the loop has no last iteration.
AfterFault_unbounded(o) ==
  IF pc[o] \in {"ownerRead", "rename"} THEN "ownerRead"
  ELSE IF pc[o] = "tombRmdir" THEN "tombRmdir" ELSE "tombRead"
\* Where the release loop goes on; its last iteration gives up with E_LOCK_RELEASE.
AfterFault(o) ==
  LET lastTry == tries[o] + 1 = MaxReleaseTries
  IN  CASE pc[o] \in {"ownerRead", "rename"}    -> IF lastTry THEN "orphaned" ELSE "ownerRead"
        [] pc[o] \in {"tombRead", "tombUnlink"} -> IF lastTry THEN "leftTomb" ELSE "tombRead"
        [] pc[o] = "tombRmdir"                  -> IF lastTry THEN "leftTomb" ELSE "tombRmdir"

\* ACTION: a release step fails transiently; the loop starts over where it was, a bounded
\* number of times, and then reports the failure and leaves the lock or its tombstone.
ReleaseFault(o) ==
  /\ Transient
  /\ pc[o] \in Releasing /\ Alive(o)
  /\ tries' = [tries EXCEPT ![o] = IF @ < MaxReleaseTries THEN @ + 1 ELSE @]
  /\ Goto(o, AfterFault(o))
  /\ UNCHANGED <<attempt, lockDir, owners, old, made, sawOld, again, tomb, dead, revoked>>

-----------------------------------------------------------------------------
(* The environment *)

\* The call is over, or its process is.
Gone(o) == pc[o] \in Settled \/ ~Alive(o)

\* ACTION: an empty lock directory's mtime grows older than staleMs: its creator died, left
\* it behind, or was paused that long.
Age(d) ==
  /\ lockDir = d /\ owners[d] = {} /\ d \notin old
  /\ Stalls \/ Gone(d[1]) \/ d # Token(d[1])
  /\ old' = old \cup {d}
  /\ UNCHANGED <<pc, attempt, lockDir, owners, made, sawOld, again, tomb, tries, dead, revoked>>

\* ACTION: a process dies, its calls stop where they are, and nothing is cleaned up.
Crash(p) ==
  /\ Crashes
  /\ p \notin dead
  /\ dead' = dead \cup {p}
  /\ UNCHANGED <<pc, attempt, lockDir, owners, old, made, sawOld, again, tomb, tries, revoked>>

\* ACTION: an operator removes an owned lock by hand: after confirming that its owners are
\* gone, which is the only recovery the code leaves, or (Forced) without it.
OperatorClears ==
  /\ lockDir # NoDir /\ owners[lockDir] # {}
  /\ Forced \/ \A o \in Ops : Token(o) \in owners[lockDir] => Gone(o)
  /\ revoked' = revoked \cup {o \in Ops : Token(o) \in owners[lockDir]}
  /\ owners' = [owners EXCEPT ![lockDir] = {}]
  /\ lockDir' = NoDir
  /\ UNCHANGED <<pc, attempt, old, made, sawOld, again, tomb, tries, dead>>

Acquire(o) ==
  \/ MkdirWins(o) \/ MkdirFails(o)
  \/ ReclaimStat(o) \/ ReclaimList(o) \/ ReclaimRmdir(o)
  \/ DirStat(o) \/ WriteOwner(o) \/ WriteOwnerFails(o)
  \/ VerifyStat(o) \/ VerifyList(o) \/ VerifyRead(o)
  \/ CleanUnlink(o) \/ CleanRmdir(o) \/ CleanFault(o)

Release(o) ==
  \/ OwnerRead(o) \/ Rename(o) \/ TombRead(o) \/ TombUnlink(o) \/ TombRmdir(o)
  \/ ReleaseFault(o)

\* Every call has ended or died; the only step left is none.
Quiescent == \A o \in Ops : Gone(o)
Finished == Quiescent /\ UNCHANGED vars

Next ==
  \/ \E o \in Ops : Start(o) \/ TimeOut(o) \/ Acquire(o) \/ Await(o) \/ FnEnds(o) \/ Release(o)
  \/ \E d \in Dirs : Age(d)
  \/ \E p \in Procs : Crash(p)
  \/ OperatorClears
  \/ Finished

Spec == Init /\ [][Next]_vars

\* A live thread makes progress, a promise settles once its thread is free, and the clock
\* passes every deadline.
Fairness ==
  \A o \in Ops : /\ WF_vars(Acquire(o) \/ Await(o) \/ FnEnds(o) \/ Release(o))
                 /\ SF_vars(TimeOut(o))

FairSpec == Spec /\ Fairness

-----------------------------------------------------------------------------
(* Properties *)

\* Every variable stays in the set the protocol gives it.
TypeOK ==
  /\ pc \in [Ops -> {"idle", "cs", "await"} \cup Acquiring \cup Releasing \cup Settled]
  /\ attempt \in [Ops -> 0..MaxAttempts]
  /\ lockDir \in Dirs \cup {NoDir}
  /\ owners \in [Dirs -> SUBSET Dirs]
  /\ old \subseteq Dirs
  /\ made \in [Ops -> Dirs \cup {NoDir}]
  /\ sawOld \subseteq Ops
  /\ again \subseteq Ops
  /\ tomb \in [Ops -> Dirs \cup {NoDir}]
  /\ tries \in [Ops -> 0..MaxReleaseTries]
  /\ dead \subseteq Procs
  /\ revoked \subseteq Ops

\* The calls whose fn has started and whose lock nobody took away: a dead owner stays one,
\* because its half-written store may not be overwritten before someone has looked at it.
Inside == {o \in Ops : pc[o] \in Holding /\ o \notin revoked}

\* The protocol implements the fail-closed lock of module Mutex: entering is the read that
\* confirms ownership, leaving is the rename of the directory, and an owner that died or could
\* not release keeps the lock until an operator clears it.
AbstractLock == INSTANCE Mutex WITH
  Owners <- Ops,
  holder <- Inside,
  gone   <- {o \in Ops : ~Alive(o) \/ pc[o] = "orphaned"}
ImplementsMutex == AbstractLock!Spec

\* At most one call is inside, whatever dies, stalls, fails or is reclaimed in between: the
\* promise of withStateLock ("read-modify-write lost-update" protection) while operators
\* remove only locks of owners that are gone.
MutualExclusion == \A o, p \in Inside : o = p

\* The calls past the listing that showed only their own token, until they give the lock up.
Committed == {o \in Ops : pc[o] \in Holding \cup {"verifyRead"} /\ o \notin revoked}

\* The strengthening of mutual exclusion that the steps preserve.  From the listing on, the
\* call is the owner on disk and the only one: nothing another call does on its way in or out
\* (reclaiming, cleaning up a failed attempt, releasing) removes or moves its owner file.
\* Only a call that is over or dead has its lock taken away.
CommittedOwns  == \A o \in Committed : OwnerAtPublicPath(o)
OneCommitted   == \A o, p \in Committed : o = p
RevokedAreGone == \A o \in revoked : Gone(o)
Counted        == \A o \in Ops : /\ pc[o] \notin Settled => tries[o] < MaxReleaseTries
                                 /\ pc[o] \in {"dirStat", "write"} => attempt[o] > 0
LockInv == TypeOK /\ Counted /\ CommittedOwns /\ OneCommitted /\ RevokedAreGone

\* An owner whose lock was removed under it, or moved by another owner's release, never
\* reports success: release() finds out (E_LOCK_OWNERSHIP_LOST).
RevokedNeverSucceeds == \A o \in revoked : pc[o] # "done"

\* When every call has ended, nobody died and no call failed, the lock is free again: no
\* failed attempt leaves an owner behind that would block every later call for good.
QuiescentLockIsFree == Quiescent /\ dead = {} => lockDir = NoDir

\* Every call that starts ends, however often the release's calls fail.
EveryCallEnds == \A o \in Ops : pc[o] # "idle" ~> pc[o] \in Settled

\* A recorded owner, alive or dead, confirmed or not, leaves the public path only by its own
\* release, by its own failed attempt, or by an operator once its call is gone: no waiter takes
\* it over, however long it waits.  Another call's release takes along only the record of an
\* attempt that was never confirmed, which wrote itself into the holder's directory.
NoTakeover ==
  [][\A p \in Ops : OwnerAtPublicPath(p) /\ ~OwnerAtPublicPath(p)' =>
       \/ Release(p) \/ CleanUnlink(p)
       \/ OperatorClears /\ Gone(p)
       \/ p \notin Committed /\ \E o \in Ops : Rename(o)]_vars
=============================================================================
