# A formal model of leerness

leerness keeps a project's memory for AI coding agents as plain files in the repository:
tasks, decisions, lessons and rules in `.leerness/`, and the history of UI reviews in Git refs.
It has no server. Any number of commands, agents and editors act on the same files and refs, and
each of them may stop at any line. This directory models the parts of the program whose
correctness depends on that, in TLA+: the TLC runs check them on small instances, and most
safety properties are also proved with TLAPS for every value of the constants.

Paths below are relative to `src/`.

## 1. Inventory

### Parts with a model

| Part | State it keeps | Operations | What is hard |
|---|---|---|---|
| **State-store lock** `lib/state-lock.js` | the directory `<store>.lock` with `owner-<token>.json` in it | `withStateLock(target, fn)`: acquire, reclaim an empty directory, run `fn`, release | mkdir, the owner file and its verification are separate calls; a reclaimer, a failed attempt and a release all act on a *path*, which may hold another call's lock by then; a dead owner must keep its lock; two async calls in one process must not wait for each other |
| **Review control of a batch** `lib/review-control*.js` | one record per batch in a Git ref: owner, generation, published snapshot, all operations | `readReviewControl`, `writeReviewControl` (claim, publish, release, reclaim) | workers race on one ref, are killed, get no answer from git, and callers repeat requests |
| **Advisory file leases** `lib/file-leases.js` | `file-leases.json`: a lease per session and file, with path key and inode | `acquire` (grant, renew, merge), `release`, validation by each reader | files are created, saved by rename, linked and deleted while leased; names fold together; the clock is set back |
| **UI review runs** `lib/ui-review-run.js`, `-attempt`, `-result`, `openai-ui-review-*` | per run id: the refs attempt, intent, locator, observation, result and run; the execution ledger | reserve, start, call or POST, journal, locate, GET, publish, recover, retain | a reviewer must be called at most once although any process may die after any step, several processes run the same id, and the batch may be reclaimed |
| **Workspace migration and writer admission** `lib/workspace-dir.js`, `lib/runtime-layout.js` | `.harness`, `.leerness`, `.leerness-backup`, `.gitignore`, the migration lock | admission of each writing command; copy, rewrite, rename, rollback | writers that were admitted before the migration go on writing; failures and deaths half-way; an operator removes the lock |
| **UI review authority** `lib/ui-review-authority-*.js`, `-authorization.js`, `-proof-use.js` | the floor ref (a chain of policy certificates), one proof-use ref per challenge, `latest` in each floor handle and host | initialize, open, observe, prepare, verify, consume | the floor, the policy and the refs of a review are checked at different moments; hosts race, restart, lose answers; a ref is restored from a backup |

| **Checked publication of one file** `lib/memory-output.js`, `lib/role-store.js`, `detachCommittedHardLink` of `lib/io.js`, `lib/runtime-writes.js` | a memory file or the role store; the prepared file and the displaced one beside it; the latch of an operation | capture, compare, displace by rename, verify, install by exclusive link, detach, validate, restore, withdraw | editors ignore the lock and act between any two steps; each step fails or is refused by the layout; rollback and cleanup swallow errors |
| **History retention** `lib/history-retention*.js`, task commands of `bin/leerness.js` | tracker, index of the history, journal, and per operation a manifest, saved originals and receipts | `apply`, `restore`, `recover`; `task add`, `update`, `list` | a transaction over three files that dies anywhere and is finished later from any mixture of old and new; readers without the lock; ids that must stay unique over both files |
| **Memory migration** `lib/memory-migration-*.js` | the canonical JSON, the Markdown, and per operation the retained source, the record of the canonical file's identity, two receipts | `prepare`, `apply`, `rollback` | each call dies or fails anywhere and is tried again; outsiders write both files; ownership is decided by an identity, not by bytes |

They meet as follows. Every replacement of a memory file, the tracker, the index, the journal or the role store is a *checked
publication*; *history retention* and *memory migration* are sequences of them. Commands that write a store
first pass *writer admission*, then take the
*state-store lock*, inside which the *file leases* (and the ledger, and the task stores) are read,
changed and written. A *UI review run* is reserved under the head of the *review control* record of
its batch, and every Git transaction of the run verifies that head; so a reclaim of the batch freezes
the run. The *authority* signs a challenge that is bound to the refs of the branch, the run, its
result, its attempt and the control, and its use is a Git transaction that verifies them all.

### Parts without a model

PROJECT.json lists every part with its files and the reason. In short:

| Part | Its state | Why it has no module (yet) |
|---|---|---|
| Archive, inventory and recovery of memory stores, `lib/memory-{archive,recovery*,write-*}.js` | archive files, recovery receipts | the publication they share is modelled; the order archive, then store, of a prepared write and the transfer of recovery files are not |
| Execution ledger `lib/role-fallback.js` | append-only `.jsonl` | the terminal event and other agents' events are in ReviewRun; appending and feedback rounds are one critical section each, under the lock |
| Sessions, claims, agents, routing, test runners, catalogues, text, diagnostics, `bin/leerness.js` | at most one file each, rewritten whole, last writer wins by design, or a store under the state-store lock | sequential code, platform processes, or pure functions of what was read |

### What makes each part correct

* *Lock*: at most one call inside; nobody takes a recorded owner over; a lock without an owner does
  not block for good; a call that lost its lock does not report success; calls end.
* *Control*: the record changes by one admissible operation at a time, each id at most once; what was
  acknowledged stays; what was refused never happens.
* *Leases*: one active lease per path; nobody touches another session's lease; no series of legal
  calls makes the store unreadable.
* *Runs*: one call at most, and a record that says so; refs that never contradict one another; one
  terminal event; an interruption never makes an outcome unreachable; a reclaim freezes the run.
* *Migration*: nothing that was written in time stays behind; a rollback restores what was there;
  nobody uses, or is refused for, a half-copied folder; the renamed old workspace is never stageable.
* *Publication*: a competitor's text is not overwritten (but in one window, disclosed below), what was moved aside
  returns or stays as evidence,
  and a swallowed refusal never ends as a success.
* *History*: every task stays in the tracker or in the index, no id is given twice, no edit is replaced, a
  list shows everything once, and an interrupted operation can be finished.
* *Memory migration*: what others wrote last is never lost, a foreign canonical file is not withdrawn (but in
  two cases, disclosed below), what was rolled back does not come back, and insisting on a rollback suffices.
* *Authority*: the floor only advances; no host goes back; a challenge is used once, under exactly
  what was signed; what a caller is told stays true.

## 2. Modules

| Module | Models | Theorems in |
|---|---|---|
| `StateLock` | the protocol of `withStateLock`, one action per file-system call | `StateLock_proofs` |
| `Mutex` | what the lock promises: enter, leave, an owner that vanishes keeps the lock until it is cleared | |
| `ReviewControlContract` | `transition()` and the record, as operators | |
| `ReviewLease` | what the control promises: one admissible operation at a time | |
| `ReviewControl` | workers over the compare-and-swap of `git update-ref` | `ReviewControl_proofs` |
| `FileLeases` | acquire and release between changes of the files they name | `FileLeases_proofs` |
| `ReviewOnce` | what a run promises: at most one call, and one truthful record | |
| `ReviewRun` | the processes of one run id over its refs and the ledger | `ReviewRun_proofs` |
| `WorkspaceMigration` | admission, writes and the migration among other commands | `WorkspaceMigration_proofs` |
| `ReviewAuthority` | hosts, floor and proof use | `ReviewAuthority_proofs` |
| `CheckedFile` | what a checked publication promises: a compare-and-swap of the file, or nothing; and what an overtaken rollback may do | |
| `CheckedReplace` | publications of one file, call by call, among editors who ignore the lock | `MemoryStores_proofs` |
| `HistoryRetention` | retention, restore and recovery over tracker, index and journal, and the task commands | `HistoryRetention_proofs` |
| `MemoryMigration` | prepare, apply and rollback of one memory | `MemoryStores_proofs` |

`MemoryStores_proofs` holds the proofs of the two memory-store components, one part each. It extends both modules, so
the names of `MemoryMigration` that every specification has carry its own (`MigrationInit`, `MigrationNext`,
`MigrationSpec`).

Each `MC*` module gives the constants that need definitions, and the symmetry; it defines nothing
that the specifications use otherwise. Definitions with a comment "Mutant:" are variants of the
definition after them that a plausible mistake in the code would produce; nothing uses them except
the entries of PROJECT.json that say which property rejects which mistake.

### StateLock

`lockDir` is the directory at the public path, named by the attempt that made it (`Dirs`); `owners`
are the owner files in each directory; `pc` is the place of each call in `_acquire`,
`_reclaimLockDirectory`, the cleanup of a failed attempt and `release()`. Every call to the file
system that another process can observe is an action: `MakeDir`, `StatDir`, `WriteOwner`, `VerifyDir`,
`VerifyList`, `VerifyRead`, then the reads, rename, unlink and rmdir of the release. Calls of one
process interleave only while one of them awaits a promise, as `Atomics.wait` blocks the thread.

Left out: a nested call in the holder's own scope (it runs `fn` and changes nothing); the heartbeat,
which touches an mtime that decides nothing once an owner file is there; the content of the owner
file except its token; how long a wait is (`TimeOut` may come whenever the deadline could have).

### ReviewControl, ReviewControlContract, ReviewLease

`rec` is the record of the commit the ref points to. Callers make requests (`Issue`) against a record
they read. A worker runs any issued request, any number of times: `Replay`, `Refuse`, `Admit`, and then
`update-ref` and the reread, each an action that may fail after it took effect. A worker that is killed
leaves its git child running, which is the same as an answer that never came. `ReviewLease` is the same
record changed by one admissible operation at a time, and `ReviewControl` refines it. A request is bound to the
worktree its worker runs in only when it is run (`EntryFor`): the two workers may share a worktree or not, and what is
refused in one with `owner_mismatch` may be applied in the owner's. `RefusalIsFinal` says by error code which refusals
end a request everywhere, and which only in that worktree.

Left out: digests (a key stands for what it digests), the objects Git writes, the path probe on Windows.

### FileLeases

A path is canonical; `world.key` is its folded key, `files` its inode, `Missing` or `Directory`.
`Resolve` is the second resolution of the target, inside the lock; `Acquisition` is the comparison with the
stored leases and the write, in one step; between the two, files change only where `Racing` is TRUE.
The lock itself is `StateLock`'s: there is one `section`.

Left out: how names and links resolve, notes, the store's own path checks.

### ReviewRun, ReviewOnce

Each fact about the run is a variable that stands for a ref: `attempt`, `intent`, `locator`,
`observation`, `result`, `run`, and `control` for the head of the batch. One transaction of
`git update-ref --stdin` is one action with the refs it verifies as guards; the reads before it are
another action. A ref's commit is named by its content, because commits have fixed dates: equal content
on an equal parent *is* the same commit, and a compare-and-swap does not tell them apart. `ledger` is the
execution ledger with its lock, into which other agents append.

Left out: worktrees other than the owner's (the control's model has two), the death of a holder of
the ledger's lock (that is StateLock's), the HTTP exchange, digests and schemas (their outcome is a
choice), intents written by versions before schema 4, runs retained without an attempt, and
the read-only entry points.

### WorkspaceMigration

A process is one command: admitted, it migrates, writes a file of the folder that is selected, or writes
a store that always lives in `.leerness`. Admission reads the lock, the legacy folder, the canonical folder
and the lock again, one action each (`createRuntimeWriterAdmission`); the migration's inspection, walk,
copies, recheck of the source, rewriting, `.gitignore`, and the rename are the actions of `Migration`. A copy may be
left `Torn` by a failure or a death. `plan` is what the migration took down to roll back.

`late` is a history variable: files that others wrote in a folder after the migration had looked at
them for the last time. There is a window between the recheck (`lib/workspace-dir.js:807`) and the
rename (`:898`) that no check of the code can see; the properties are about everything else, and the window
itself is visible in the definition of `late`.

Left out: links and special files, `LEERNESS_WORKSPACE_DIR`, dry runs, integration files other than
`.gitignore`, the layout descriptor that every write reads again, and the branch that takes the lock for
a legacy folder that appears between two inspections.

Two things were met while modelling and are not the subject of a run. The comment at
`lib/workspace-dir.js:15-17` says that recovery copies must never become stageable as a side effect of migration.
`BackupIgnored` and the theorem `BackupProtected` confirm that of `.leerness-backup` only. The copies that a
migration takes before it merges or rewrites (`canonical-before-merge` and `root-integrations-before`, in
`.leerness/archive/workspace-dir-migration-*`, `:730-731` and `:855`) are not in the model, and for them the comment
is not true: when a migration fails after those copies were made and `.leerness` existed before, the rollback
restores a `.gitignore` that need not list `.leerness/archive/` and leaves the copies. And when the canonical folder did not exist before, the rollback removes all of it, with any store file that
another command wrote there meanwhile.

### ReviewAuthority

A process is a host with its floor handle. `floor` is the chain of certificates behind the floor ref, `uses`
the proof-use refs, `review` all the commits a binding names (as one value: a transaction verifies all of them).
`pc` is the place in a call and `at` where the call goes when it has the policy, because prepare,
verify and consume read the policy twice. `Observe`, `Publish` and `Confirm` are the floor's observation;
`Bind` is `prepareUiReviewAuthorization`, `Verify` its verification, and `Snapshot`, `Replay`, `Commit`,
`Transact`, `Applied` are `publishUiReviewProofUse`. `Refuse` stands for each failing guard, git error,
refused signature or topology. `PublishUncertain` and `TransactUncertain` are a transaction whose answer is
lost. A process that died with a git child under way is one at `publish` or `transact` that does nothing else
afterwards. `due`, a history variable, is the floor's revision when a host read its policy.

Left out: hosts without a floor, the historical reader, a clock that goes backwards, more than one handle and
one prepared challenge per process.

### CheckedReplace, CheckedFile

`dir` maps the three names a publication uses (the path, `next`, `before`) to inodes, `data` gives each inode its
text. `Kind` says which of the two protocols a call follows: `publishPosix` of a memory output or
`_writePosixIfUnchanged` and `_writeNewRoleStore` of the role store; they differ in what they check before, what they
clean up and what they report. `Mishap`, `Undo`, `Withdraw`, `Failing`, `Restore` and `Discard` are the `catch`
blocks. `latched` is `operation.failure` of `lib/runtime-writes.js`, which every write looks at first; `refused`
remembers which calls the layout itself refused. `CheckedReplace` refines `CheckedFile` by a mapping in which a text
that was moved aside, and can still return, is the file's.

Others act between any two steps. The comments say that a competing pathname writer is never overwritten
(`lib/memory-output.js:6-7`) and wins (`lib/role-store.js:449-452`), and the code does not keep that in one window.
A rollback looks whether the path is absent, or still its own value, and then renames or unlinks whatever is there
(`lib/memory-output.js:408-411`, `lib/role-store.js:479-482`, `lib/io.js:577-609`): a file saved in between is lost.
The history variable `raced` holds the calls that were overtaken so, and `NothingLost` says that theirs is the only
exception; without it, the property is violated by an editor who saves while the displaced file is about to return.
The abstract file has the same exception: only an overtaken call may `Trample`, or `Undo` what is not its own. Its
steps of others are counted, so that no step of a call passes for one of theirs.

Left out: Windows, the parent directory's identity, writes that only change times, the rename of a path that
cannot be removed, the archive copies of a prepared write.

### HistoryRetention

`plan` is the manifest of each operation, `saved` how many of its recovery files exist, and `job.step` the place
in `finish()`, whose comparisons and publications are one action each. A publication is in two
steps here, `Take` and `Put`, because `CheckedReplace` has shown what lies between. `Recover` starts from what
`captureArtifacts` accepts, in any mixture. The readers are those of `task list` (four reads without a lock),
of the id for a new task, and `task update`, which finds its row without the lock and writes it under it.

Left out: what refuses a call before its first step, the table's format, digests, and the resolution of an
archived row.

### MemoryMigration

A file is a text and an identity; `by` remembers who made it, for the properties only, as do the history variables
`guests` (what others put on the canonical path while the running call runs) and `adopted` (operations that recorded
the identity of such a file as their own). `bundle` is the retained
source with its identity, `record` is `canonical-created.json`, `receipts` and `torn` are `applied.json` and
`rolled-back.json`, finished or not. A job goes through the steps of `applyBundle` or `rollbackBundle`; its
guards (`Goes`) are the comparisons the code makes there, and a step whose guard fails is `Fail`. `FreshId` is an identity that no file, bundle,
record or call remembers, and may have been used before, as inode numbers are. `manual` says
that the documentation leaves the rest to an operator: an outsider changed a file while the migration's outputs
were there, a publication was cut in two, or the record of the canonical file could not be made.

Three things were met and are not the subject of a run. First, a sequence without any outsider: apply stops after
the record; a rollback withdraws the canonical file and stops before its receipt; apply is called again, publishes
the canonical file, and cannot create `canonical-created.json`, which exists. From there neither apply nor rollback
accepts the files. `RollbackEnds` does not count it, since the failure is where the documentation asks
for manual recovery (`docs/memory-migration-write.md:63-64`).

The other two contradict the next lines of that document (64-65: identical canonical bytes alone never authorize
adoption or withdrawal). *Adoption*: after apply has published the canonical file it captures what is there by its
bytes, and records that identity (`lib/memory-migration-execute.js:41-44`). When others have replaced the file by one
with the same bytes in between, the record is of theirs, and any later rollback withdraws it. *Withdrawal*: rollback
compares the identity with the record (`:81`), but `withdrawCanonical` captures the file once more by its bytes
(`lib/memory-migration-withdraw.js:13`), so a file with these bytes that others put there in between is withdrawn.
`OnlyOwnWithdrawn` has exactly these two as exceptions. Without the first or without the second of them TLC finds it
violated, by those sequences. A file that others put on the path at any other time is never withdrawn, with
whatever bytes; in particular not one from before the rollback began, unless the application has adopted it.

Left out: parsing and rendering, budgets, directories' identities, damaged retained material, and the policy tier.

## 3. Runs

All runs use two or three processes; every bound is a constant of the cfg. Distinct states are after symmetry.

| Run | Question | Bounds | States |
|---|---|---|---|
| `StateLock_crash` | Is there mutual exclusion and a fail-closed lock with crashes, stalls and no usable inode numbers? Does it refine `Mutex`? | 3 processes, one call each, one mkdir won per call | 191 k |
| `StateLock_live` | With transient errors and forced removal, does each call end (also a thread that would wait for its own process), and does a revoked owner notice? | 2 calls of one process, 1 of another, 2 release tries | 91 k |
| `ReviewControl` | Fencing, at-most-once, and stable answers; does it refine `ReviewLease`? | 2 workers, each in either of 2 worktrees, 2 sessions, 3 requests, 3 operations, 2 answers kept | 238 k |
| `FileLeases` | One lease per path, and a store that stays readable, in three kinds of file system | 2 sessions, 3 paths, 2 inodes, 3 leases, clock 0..1 | 279 k |
| `FileLeases_fold` | Also where two names have one key? **Violated** | one world of these | |
| `ReviewRun` | One call, agreeing refs, one terminal event, a frozen history after reclaim, and an outcome that can always be retained | 2 processes, 2 requests, 2 configurations, 2 heads, 2 ledger events | 53 k |
| `WorkspaceMigration` | Is nothing left behind, restored wrongly, used or refused half-copied? | 3 commands of 5 kinds, 3 files, 3 starting workspaces | 1.4 M |
| `ReviewAuthority` | Does the floor advance, no host go back, and a use happen once, as signed? | 2 hosts, 3 certificates (two of one revision, a revocation), 1 challenge, 2 reviews, clock 0..1 | 1.4 M |
| `CheckedReplace` | Is nothing overwritten, is a refusal final, and is it a compare-and-swap? | 2 calls (one of each protocol), 5 inodes, 3 texts, 2 steps of others at any time, any failures and deaths | 488 k |
| `HistoryRetention` | Is every task and every edit kept, every list complete, every operation recoverable? | 2 tasks, 2 retentions, 2 failures or deaths, 1 edit | 695 k |
| `HistoryRetention_update` | Is a task active or retained, never both? **Violated** | 1 retention, 1 update, no failures | |
| `MemoryMigration` | Is nothing foreign lost or withdrawn, does a rollback stay, and end? | 2 operations, 2 applies, 2 failures or deaths and 2 edits, 3 together | 518 k |

Why the bounds are enough. In the lock, the hazard needs a creator, a reclaimer and a third call that gets the
path between two of their steps; `MaxAttempts = 1` limits how often one call *wins* a mkdir, not how often it
waits and reclaims. In the control, a request, its duplicate and a competitor are all that can meet on one
ref; an answer changes nothing that follows and any call may end without a certain one, so that each answer that could
be wrong is also kept in a behaviour where few others were given. In the leases, three paths with two inodes give two links of a file, two names of one key, and a replaced
file at once. In a run, a second process with a different request or configuration is what a first can
collide with; a second head is a reclaim. In the migration, three commands are a migrator, a peer migrator
and a writer; three files are a marker, a store and an ordinary file, which the code treats differently.
In the authority, two certificates of one revision are a conflict, the third is a revocation above both, and
one of them expires within the clock's range. In a publication, five inodes are the captured file, two prepared ones
and two saves of others; a save by rename and a later edit is what defeats a comparison. In the history, a task that is
retained and one that is added are what an id could be given to twice, and two deaths interrupt an operation and
its recovery. In the memory migration, a second operation is what a stale record or receipt could be taken
for; the third failure or edit would only repeat a pair of them.

`CHECK_DEADLOCK FALSE` is in every configuration whose system may stop: a run that is retained, or whose
batch moved on, is over, and every command of a migration, every publication and every operation ends.
The type invariants (`TypeOK`) of the modules with a proofs module are proved there, and are not repeated in the runs.

### Fairness

Safety is checked without fairness. Four liveness properties have it:

* `EveryCallEnds` (`StateLock_live`): each call's own next step is weakly fair (the thread runs), and its
  deadline is strongly fair, because the waiting loop tests the clock after each attempt and a waiter's
  other steps can stay enabled for ever. No call of the file system is assumed to succeed: the release gives
  up after its bounded number of tries.
* `SavedIsRetained` (`ReviewRun`): a call that was interrupted is repeated, and an attempt that is
  repeated again and again is not interrupted every time (strong fairness of each recovery step); a
  process that is going to stop stops. The code has no daemon: the retries are its callers' and the property
  says that they suffice, given room in the ledger and an owner that keeps the batch.
* `RecoveryEnds` (`HistoryRetention`) and `RollbackEnds` (`MemoryMigration`): a process that runs goes on, an
  operator removes the lock of a dead owner, and calls `recover` or `rollback` as long as it is accepted (weak
  fairness; the commands say so when they refuse to go on). Deaths and failures are bounded, so some attempt is left
  alone.

## 4. Findings

Two runs are violated. Each shows a disagreement between the code and what one of its comments says.
PROJECT.json quotes the lines.

* `StoreStaysReadable` (`FileLeases_fold`): renewing the lease of a file that was deleted or replaced, beside a lease whose
  name has the same folded key, writes a store every reader rejects.
* `ActiveOrRetained` (`HistoryRetention_update`): `task update` and `task drop` find the row without the lock. When a
  retention moves the row to the history before they take it, they append it again; from then on the task is in both
  places and every list, retention and restore refuses the files.

Three more behaviours were met in earlier runs of the same modules and are known limits now. After a crash between
mkdir and the owner file, two waiters that both saw the empty stale directory remove each other's, and the loser fails
at once instead of waiting (`docs/state-store-locking.md` promises a bounded wait). With `Racing = TRUE`, a save by
rename between the two resolutions of a target lets a second session lease the path (`OneLeasePerPath`). And the
references in a file that was identical in both folders are rewritten without a backup of it, so that they
stay rewritten after a rollback; `RollbackRestores` is about the files that the migration copied.

Three statements of the repository are contradicted by what section 2 describes, without a run of their own:

* "a competing pathname writer is never overwritten" (`lib/memory-output.js:6-7`, and `lib/role-store.js:449-452`): not
  in the window between a rollback's look and its rename. `NothingLost` has that as its only exception (`raced`).
* identical bytes "alone never authorize adoption or withdrawal" (`docs/memory-migration-write.md:64-65`): they do
  authorize adoption in one window of apply, and withdrawal in one of rollback. `OnlyOwnWithdrawn` has the two as
  its only exceptions (`adopted`, `guests`).
* recovery copies must never become stageable by a migration (`lib/workspace-dir.js:15-17`): this holds of
  `.leerness-backup` (`BackupIgnored`), and not of the copies under `.leerness/archive` after a failed migration, which are
  outside the model.

## 5. Proofs

`*_proofs` modules extend the module they are about. The assumptions are the named `ASSUME`s of the modules,
which only say what kind of values the constants are; they hold for any number of processes, files, requests
and certificates, and TLC evaluates them in each run. Each proof has the same shape: an inductive invariant, one lemma per group
of actions that it is preserved, and the properties as consequences.

* **StateLock**: `LockInv`. Mutual exclusion alone is not inductive: a call that has only verified the
  listing is not inside yet, but nobody may remove its owner file any more. `CommittedOwns` says that from
  the listing on, the call's file is the only one at the public path; `Counted` bounds attempts and tries.
  Proved: `TypeCorrect`, `OneInside`, `NoRecordedOwnerTakenOver` (of dead owners too, in every step), `LockImplementsMutex` (a step maps to
  Enter, Leave, Clear, Vanish or a stutter). Mutual exclusion and the refinement assume `Forced = FALSE`:
  an operator only removes locks of owners that are gone. `RecordInv` needs no such assumption: an owner record is in one
  directory at most, and a directory that was moved away never comes back to the public path, so a revoked owner finds
  its record neither there nor in what it moves itself (`RevokedIsTold`). `FreeingInv` names who is still to come that
  frees the path: the owner of each record there, the creator of an empty directory, or a cleanup about to remove it
  (`LockIsFreed`, which assumes `Transient = FALSE`: a cleanup that fails does leave its record).
* **ReviewControl**: what a worker holds was admitted against what it read, and the record is a valid history
  (`LeaseInv`). Proved: `TypeCorrect`, `ControlImplementsLease`, `HistoryStaysSound`,
  `AcknowledgementsHold`, `RefusalsHold`. The last needs that an operation, once refused against a history,
  is refused against each extension of it (`DeadStays`).
* **FileLeases**: proved are `TypeCorrect`, `PathsLeasedOnce` and `PlainStoreReadable` (both with
  `Racing = FALSE`), `GrantsStayReadable` and `ForeignLeasesKept` (in any case).
* **ReviewRun**: `RunInv` says what each place in the code means (`PlaceOK`): whoever is past the
  transaction that started the attempt is `Alone` there, finds nothing recorded after it, and is the only one
  that can call; the terminal event comes after what the GET saw. `JournalSound` alone is not inductive,
  because a process writes one ref after it read the others. Proved: `TypeCorrect`, `JournalAgrees`,
  `PlansKept`, `OneTerminal`, `FrozenByReclaim`, and `CalledAtMostOnce`, the refinement of `ReviewOnce`.
* **WorkspaceMigration**: `Inv` follows one migration through its steps: what was walked, copied,
  rewritten and recorded so far, and that the folder may only be used by others after the rename. Proved:
  `TypeCorrect`, `LockOwned`, `BackupProtected`, `WholeWhenUsed`, `MigrationCarries`, `RollbackIsExact`. A second
  invariant, `Reasons`, carries the evidence of a conflict from the migration to the refused command, over its several
  reads: what it saw in the first folder, what a verdict was denied for, and which migrations have ended since. It says
  that before the rename all that makes `.leerness` look like a workspace is what a migration under way has noted
  (`StraysNoted`), and that the one repetition of a verdict was used for a migration that has ended (`RefreshedOnce`), so a
  second conflict needs a second migration. From it: `RefusalsAreReal`.
* **ReviewAuthority**: `Call` says for each place of a call what was read (`Places`, `Holding`), that it
  follows what the host and the floor knew (`Following`), what a publication builds on (`Building`) and what a
  use is recorded under (`Signing`). Proved: `TypeCorrect`, `ReportsStand`, `FloorOnlyAdvances`,
  `HostsNeverGoBack`, `UseIsOnceAsSigned`.
* **CheckedReplace**: `ReplaceInv` says which names may share an inode (only the path and the prepared name of a
  call that has installed it and is alone: `Apart`), and what a call at each place has made of its two names (`PlaceOK`).
  `NothingLost` alone is not inductive: that the moved file can be dropped in the end follows from the
  comparison several steps earlier, and from nobody having a name of that inode to edit it by. `SwapInv` adds which text
  each place has aside and ready; the abstract file is the text on the path or the one that is on its way back.
  Proved, with no assumption on when others act: `TypeCorrect`, `RefusalIsFinal`, `NobodyOverwritten` and
  `PublicationsImplementRegister`, the refinement of `CheckedFile`. The last two have the one exception of section 2: a
  text that others put on the path between a rollback's look and the rename or unlink it decides.
* **HistoryRetention**: `RetentionInv` follows the operation that the journal names. `EveryTaskKept` alone is not
  inductive: between the two replacements a task is safe because the file that gains it was replaced first and stays
  so (`Halfway`), because every task was in the manifest's two files when the operation began and none is added until
  it ends (`Carried`), and because a recovery starts from those contents only (`Holding`). Outside an operation every
  task is in the tracker or in the index (`Settled`), from which the fresh id follows. `ListInv` adds what a list under
  way has read: the tracker is still that file, and a pending operation has either not reached the tracker, or a
  recovery found it done. Proved: `RetentionInvariant`, `TasksKept`, `EditsKept`, `ListsAreComplete`.
* **MemoryMigration**: `LatestKept` is not inductive: the text that a publication drops is kept because it is retained,
  and that is known from the step that looked at the file, several steps earlier (`PublishOK`). `MigrationInv` adds where
  a file may be away from its path and whose step it is (`MovedOK`, `JobKnown`); that a canonical file whose identity an
  operation has recorded is its own unless it adopted another, and that what a rollback has captured to withdraw is that
one or a guest of the same call (`Recorded`, `StepMine`); and where the last text of others
  is, with its place (`LastKept`). `Recorded` needs that an identity a call or an editor makes is in no record:
  `FreshIdentity`, by counting (there are `6 + 2 * MaxOps` identities, and at most `5 + 2 * MaxOps` are remembered).
  Proved: `MigrationTypes`, `LatestIsKept`, `OnlyOwnIsWithdrawn`, and `RollbackIsFinal`: an application of what was
  rolled back never starts, and no other step makes an output. All four hold for any bounds and in any case of `manual`.

Only model-checked: the liveness properties (`EveryCallEnds`, `SavedIsRetained`, `RecoveryEnds`, `RollbackEnds`), which
need fairness and ENABLED, out of the prover's reach. Every invariant and every action property that a run checks is
stated by a theorem, except those of the two violated runs. The inductive invariants were checked by TLC on the instances of
the runs before they were proved.

## 6. Plan

Done, in this order: (1) StateLock and Mutex, because every store depends on it; (2) ReviewControl, whose
head fences the reviews; (3) FileLeases; (4) ReviewRun; (5) WorkspaceMigration; (6) ReviewAuthority;
(7) CheckedReplace and CheckedFile, with the latch of `lib/runtime-writes.js`; (8) HistoryRetention; (9) MemoryMigration;
(10) the theorems about module 7; (11) the theorems about module 8; (12) `QuiescentLockIsFree` and
`RevokedNeverSucceeds` of the lock; (13) `ConflictIsReal`, by an invariant that names the two migrations instead of
counting them; (14) the theorems about module 9.

Next:

15. Composition of `FileLeases` and of the ledger part of `ReviewRun` with `Mutex` in place of their
    one-step critical sections.

### Not modelled

The parts without a model are listed in section 1. Most of the repository is outside what a state machine says anything about: the
command line, its texts and catalogues, the analysis of a working tree, and the probes and tests under `scripts/`, which
are half of its lines. What remains with a state of its own and no module is either one read-modify-write under the
state-store lock (the execution ledger, sessions, tasks, decisions and rules stores), which `StateLock` covers for
any critical section, or a file that is rewritten whole and whose last writer wins by design (presence, caches).
