------------------------------ MODULE FileLeases ------------------------------
(***************************************************************************)
(* The advisory file leases of lib/file-leases.js: acquire (grant, renew   *)
(* or merge), release, and the validation every reader does.  The store's  *)
(* critical section is the state lock of module StateLock; files change    *)
(* under it all the same, because editors take no lease.                   *)
(*                                                                         *)
(* A path is a canonical in-project path.  Its path key is the             *)
(* conservative fold of its name: two names with one key may be one file,  *)
(* or, seldom, two.  A file's identity is its inode, which hard links      *)
(* share and a save by rename replaces.                                    *)
(***************************************************************************)
EXTENDS Naturals, FiniteSets

CONSTANTS
  Sessions, Paths, Inodes,
  Ids,           \* lease ids; random in the code
  TTLs,          \* the TTLs callers ask for (30..1800 s in the code)
  MaxTime,       \* bound on the clock
  MaxLeases,     \* MAX_LEASES (1000 in the code)
  Worlds,        \* the kinds of file system: key of each path, links, inode numbers
  Racing,        \* may files change inside a critical section?
  Missing, Directory, NoInode, NoSection

ASSUME ConstantsAssumption ==
  /\ MaxTime \in Nat /\ MaxLeases \in Nat /\ TTLs \subseteq Nat \ {0}
  /\ Racing \in BOOLEAN
  /\ {Missing, Directory, NoInode} \cap Inodes = {} /\ Missing # Directory
  /\ NoSection \notin [session : Sessions, file : Paths, ident : Inodes \cup {NoInode}]

VARIABLES
  world,     \* the kind of file system; never changes
  files,     \* what is at each path
  now,       \* the clock, which may be set back
  rows,      \* the stored leases
  section    \* the acquisition inside the store's lock, and the target it resolved

vars == <<world, files, now, rows, section>>

Times == 0..MaxTime
Row == [id : Ids, file : Paths, ident : Inodes \cup {NoInode}, session : Sessions,
        acquired : Times, renewed : Times, expires : Nat]

SameKey(p, q) == world.key[p] = world.key[q]
\* resolveTarget()'s identityKey: null for a missing file, and where inode numbers are 0.
Identity(p) == IF files[p] \in Inodes /\ world.inodes THEN files[p] ELSE NoInode
Leasable(p) == files[p] # Directory
Active == {r \in rows : r.expires > now}

\* Mutant: the identity the file has by now is not looked at.
Observed_recorded(r) == {r.ident} \ {NoInode}
\* The identity recorded in the row and the one its file has by now.
Observed(r) == {r.ident, Identity(r.file)} \ {NoInode}

\* _matchesTarget(): a common identity; without evidence of another one, the path key.
Matches(r, p, ident) ==
  \/ ident \in Observed(r)
  \/ SameKey(r.file, p) /\ (ident = NoInode \/ Observed(r) = {})

\* _validateLease() of all rows: active ones resolve and are unambiguous, times are in order.
Distinguished(r, q) ==
  /\ r.ident = q.ident => r.ident = NoInode
  /\ SameKey(r.file, q.file) => NoInode \notin {r.ident, q.ident}
Unambiguous == \A r, q \in Active : r # q => Distinguished(r, q)
WellTimed   == \A r \in rows : r.acquired <= r.renewed /\ \E ttl \in TTLs : r.expires = r.renewed + ttl
Readable == (\A r \in Active : Leasable(r.file)) /\ Unambiguous /\ WellTimed

Init ==
  /\ world \in Worlds
  /\ files = [p \in Paths |-> Missing]
  /\ now = 0 /\ rows = {} /\ section = NoSection

-----------------------------------------------------------------------------
(* Acquisition and release *)

\* ACTION: inside the lock, the target is resolved again, whatever it was before the wait.
Resolve(s, p) ==
  /\ section = NoSection
  /\ Leasable(p)
  /\ section' = [session |-> s, file |-> p, ident |-> Identity(p)]
  /\ UNCHANGED <<world, files, now, rows>>

Matching == {r \in Active : Matches(r, section.file, section.ident)}
\* Mutant: an active lease of another session is no conflict.
NoConflict_ignored == TRUE
NoConflict == \A r \in Matching : r.session = section.session
NotBefore(M) == \A r \in M : r.renewed <= now

\* Mutant: only the oldest alias is renewed, the others stay.
Merged_keepsAliases(m) == {m}
\* The rows that one renewed lease replaces.
Merged(m) == Matching

\* The identity of the renewed lease: the target's, else the one its file has or had.
RenewedIdentity(m) ==
  IF section.ident # NoInode THEN section.ident
  ELSE IF Identity(m.file) # NoInode THEN Identity(m.file) ELSE m.ident
Renewed(m, ttl) ==
  [id |-> m.id, file |-> section.file, ident |-> RenewedIdentity(m), session |-> m.session,
   acquired |-> m.acquired, renewed |-> now, expires |-> now + ttl]

\* ACTION: the caller's own leases that match the target become one, renewed on the target.
Renew(ttl) ==
  /\ section # NoSection /\ Readable
  /\ Matching # {} /\ NoConflict /\ NotBefore(Matching)
  /\ \E m \in Matching :
       /\ \A r \in Matching : m.acquired <= r.acquired
       /\ rows' = (Active \ Merged(m)) \cup {Renewed(m, ttl)}
  /\ section' = NoSection
  /\ UNCHANGED <<world, files, now>>

\* Rows with the target's key that had no identity when they were leased, and have one now.
Promotable == {r \in Active : /\ section.ident # NoInode /\ SameKey(r.file, section.file)
                              /\ r.ident = NoInode
                              /\ Identity(r.file) \notin {NoInode, section.ident}}
\* Mutant: their identity is not recorded.
Promote_not(r) == r
Promote(r) == IF r \in Promotable THEN [r EXCEPT !.ident = Identity(r.file)] ELSE r
\* No other lease shares an identity that is about to be recorded.
PromotionSafe == \A r \in Promotable, q \in Active : q # r => Identity(r.file) \notin Observed(q)

NewLease(id, ttl) ==
  [id |-> id, file |-> section.file, ident |-> section.ident, session |-> section.session,
   acquired |-> now, renewed |-> now, expires |-> now + ttl]

\* ACTION: nothing active matches: a new lease.
Grant(ttl) ==
  /\ section # NoSection /\ Readable
  /\ Matching = {}
  /\ Cardinality(Active) < MaxLeases
  /\ PromotionSafe
  /\ \E id \in Ids \ {r.id : r \in Active} :
       rows' = {Promote(r) : r \in Active} \cup {NewLease(id, ttl)}
  /\ section' = NoSection
  /\ UNCHANGED <<world, files, now>>

\* ACTION: a conflict, a clock behind the history, a limit, an unreadable store, a failed
\* write (writeUtf8 is atomic), or the caller's death.
AcquireFails ==
  /\ section # NoSection
  /\ section' = NoSection
  /\ UNCHANGED <<world, files, now, rows>>

\* ACTION: the owner releases a lease by its id, even an expired one that is still stored.
Release(s, r) ==
  /\ section = NoSection /\ Readable
  /\ r \in rows /\ r.session = s
  /\ rows' = Active \ {r}
  /\ UNCHANGED <<world, files, now, section>>

-----------------------------------------------------------------------------
(* The environment *)

\* ACTION: a file is created, saved by rename, hard-linked, deleted or becomes a directory.
FileChanges(p, what) ==
  /\ section = NoSection \/ Racing
  /\ what # files[p]
  /\ what \in Inodes /\ ~world.links => \A q \in Paths : files[q] # what
  /\ files' = [files EXCEPT ![p] = what]
  /\ UNCHANGED <<world, now, rows, section>>

\* ACTION: time passes, or the clock is set back.
ClockMoves(t) ==
  /\ t = now + 1 \/ t = 0
  /\ now' = t
  /\ UNCHANGED <<world, files, rows, section>>

Acquisition == AcquireFails \/ \E ttl \in TTLs : Renew(ttl) \/ Grant(ttl)

Next ==
  \/ \E s \in Sessions, p \in Paths : Resolve(s, p)
  \/ Acquisition
  \/ \E s \in Sessions, r \in rows : Release(s, r)
  \/ \E p \in Paths, what \in Inodes \cup {Missing, Directory} : FileChanges(p, what)
  \/ \E t \in Times : ClockMoves(t)

Spec == Init /\ [][Next]_vars

-----------------------------------------------------------------------------
(* Properties *)

TypeOK ==
  /\ world \in Worlds
  /\ files \in [Paths -> Inodes \cup {Missing, Directory}]
  /\ now \in Times
  /\ rows \subseteq Row
  /\ section \in [session : Sessions, file : Paths, ident : Inodes \cup {NoInode}] \cup {NoSection}

\* acquire and release never write a store that the next reader rejects as store_invalid, which
\* would stop every lease operation of every session: identities and keys stay unambiguous
\* while files appear, are replaced and linked, and times stay in order when the clock is set
\* back.  (A directory where a leased file was does stop them; that is not the store's doing.)
StoreStaysReadable == Unambiguous /\ WellTimed

\* So it is where no two names fold to one key, or no inode numbers tell files apart.
NamesFold == \E p, q \in Paths : p # q /\ SameKey(p, q)
ReadableUnlessNamesFold == ~(NamesFold /\ world.inodes) => StoreStaysReadable

\* Where names do fold, at least a new lease keeps the store readable: the identity of a file
\* that appeared since it was leased is recorded before a name with the same key is leased.
GrantKeepsReadable ==
  [][StoreStaysReadable /\ (\E ttl \in TTLs : Grant(ttl)) => StoreStaysReadable']_vars

\* One path never has two active leases, however often its file is replaced in between.
OneLeasePerPath == \A r, q \in Active : r.file = q.file => r = q

\* No session's acquisition or release takes away, moves or shortens another session's active
\* lease; all it may do is record an identity.
ForeignLeaseKept ==
  [][\A s \in Sessions, r \in Active :
       /\ r.session # s
       /\ \/ section # NoSection /\ section.session = s /\ Acquisition
          \/ \E q \in rows : Release(s, q)
       => \E q \in rows' : q.id = r.id /\ q.session = r.session /\ q.file = r.file
                                       /\ q.expires = r.expires]_vars
=============================================================================
