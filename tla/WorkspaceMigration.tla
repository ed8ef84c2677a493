--------------------------- MODULE WorkspaceMigration ---------------------------
(***************************************************************************)
(* The move of a project's memory from `.harness` (legacy) to `.leerness`  *)
(* (canonical): migrateLegacyWorkspace of lib/workspace-dir.js, and the       *)
(* admission that every writing command passes first,                      *)
(* createRuntimeWriterAdmission of lib/runtime-layout.js.                  *)
(*                                                                         *)
(* A process is one command.  It is admitted, and then migrates, writes a  *)
(* file of the workspace that is selected, or writes one of the stores     *)
(* that always live in `.leerness`.  Admission looks at the migration lock *)
(* once more after it looked at the folders, and never again: a command    *)
(* that was admitted writes while another migrates.                        *)
(*                                                                         *)
(* A file is named by its place in `.leerness`; a folder is a function     *)
(* from the files, and NoFolder when it does not exist.                    *)
(***************************************************************************)
EXTENDS Naturals

CONSTANTS
  Procs,      \* commands
  Files,
  Markers,    \* STRONG_MARKERS: a folder with one of them is live
  Substrate,  \* files under SUBSTRATE_TOP_LEVEL: they may be in `.leerness` beforehand
  Texts,      \* the contents of files
  Rewritten,  \* the text after `.harness/` was replaced by `.leerness/`
  Starts,     \* the workspaces that a behaviour starts from
  Commands,   \* what the processes may be called for
  Missing, Torn, NoFolder, NoOne

Ignores == {"none", "plain", "protected", "invalid"}
Content == Texts \cup {Missing}
Folder  == [Files -> Content]

Live(folder) == folder # NoFolder /\ \E f \in Markers : folder[f] # Missing
FilesOf(folder) == IF folder = NoFolder THEN {} ELSE {f \in Files : folder[f] # Missing}
\* A canonical folder with files that are neither leerness state nor beside a marker.
Foreign(folder) == ~Live(folder) /\ FilesOf(folder) \ Substrate # {}
BodyOf(folder, f) == IF folder = NoFolder THEN Missing ELSE folder[f]
Put(folder, f, body) ==
  [g \in Files |-> IF g = f THEN body ELSE BodyOf(folder, g)]

ASSUME FilesAssumption ==
  /\ Markers \subseteq Files /\ Substrate \subseteq Files \ Markers
  /\ Rewritten \in [Texts \cup {Torn} -> Texts \cup {Torn}]
  /\ Rewritten[Torn] = Torn
  /\ \A t \in Texts : Rewritten[t] \in Texts
  /\ Missing \notin Texts /\ Torn \notin Texts /\ Missing # Torn
  /\ NoFolder \notin [Files -> Texts \cup {Missing, Torn}] /\ NoOne \notin Procs

\* A legacy workspace, and at most structured state in the canonical folder.
ASSUME StartsAssumption ==
  \A s \in Starts :
    /\ s.legacy \in Folder /\ Live(s.legacy)
    /\ s.canonical \in Folder \cup {NoFolder} /\ FilesOf(s.canonical) \subseteq Substrate
    /\ s.gitignore \in Ignores

VARIABLES
  legacy, canonical, backup,  \* `.harness`, `.leerness` and `.leerness-backup`
  gitignore,  \* does the project's .gitignore keep recovery copies out of commits?
  lock,       \* who created `.leerness-workspace-migration.lock`
  pc, op,     \* each command's place, and what it is to do
  seen,       \* the kind of legacy folder its admission saw
  denied,     \* commands whose last classification found a conflict
  refreshed,  \* commands that classified a second time because of one
  dir,        \* the folder that a writing command resolved
  plan,       \* what a migration found: source, destination, .gitignore
  todo,       \* the files it has not copied, or not rewritten, yet
  touched,    \* the files it has to restore if it fails
  answer,     \* the report it is going to return
  late        \* history: files written in `.leerness` since the migration under way inspected
              \* it, or in `.harness` since it walked its source a second time

vars == <<legacy, canonical, backup, gitignore, lock, pc, op, seen, denied,
          refreshed, dir, plan, todo, touched, answer, late>>
workspace == <<legacy, canonical, backup, gitignore, late>>
admission == <<seen, denied, refreshed>>
migration == <<plan, todo, touched, answer>>

Migrations == [kind : {"migrate"}, force : BOOLEAN]
Writes     == [kind : {"write"}, file : Files, text : Texts]
\* File leases, receipts and other stores whose path is below `.leerness` in any case.
Stores     == [kind : {"store"}, file : Substrate, text : Texts]
NoOp       == [kind |-> "none"]
ASSUME CommandsAssumption == Commands \subseteq Migrations \cup Writes \cup Stores

NoPlan     == [source |-> NoFolder, found |-> NoFolder, existed |-> FALSE, ignore |-> "none"]
Plans      == [source : Folder \cup {NoFolder}, found : [Files -> Texts \cup {Missing, Torn}] \cup {NoFolder},
               existed : BOOLEAN, ignore : Ignores]

\* Owner of the migration lock and inside _migrateLegacyWorkspace.
Working == {"inspect", "copy", "copying", "rewrite", "rename", "rollback", "unlock"}
Ended   == {"locked", "refused", "conflict", "failed", "written", "already", "blocked", "migrated", "wrecked", "dead"}

Init ==
  /\ \E s \in Starts :
       /\ legacy = s.legacy /\ canonical = s.canonical /\ gitignore = s.gitignore
  /\ backup = NoFolder /\ lock = NoOne /\ late = {}
  /\ pc = [p \in Procs |-> "idle"]
  /\ op = [p \in Procs |-> NoOp]
  /\ seen = [p \in Procs |-> "absent"] /\ denied = {} /\ refreshed = {}
  /\ dir = [p \in Procs |-> "canonical"]
  /\ plan = [p \in Procs |-> NoPlan]
  /\ todo = [p \in Procs |-> {}] /\ touched = [p \in Procs |-> {}]
  /\ answer = [p \in Procs |-> "none"]

Goto(p, place) == pc' = [pc EXCEPT ![p] = place]
Report(p, a) == answer' = [answer EXCEPT ![p] = a]
\* The command returns; what it knew is gone with its process.
End(p, result) ==
  /\ Goto(p, result)
  /\ op' = [op EXCEPT ![p] = NoOp]
  /\ seen' = [seen EXCEPT ![p] = "absent"] /\ denied' = denied \ {p} /\ refreshed' = refreshed \ {p}
  /\ dir' = [dir EXCEPT ![p] = "canonical"]
  /\ plan' = [plan EXCEPT ![p] = NoPlan]
  /\ todo' = [todo EXCEPT ![p] = {}] /\ touched' = [touched EXCEPT ![p] = {}]
  /\ Report(p, "none")

-----------------------------------------------------------------------------
(* Admission: createRuntimeWriterAdmission, whatever the command is *)

Begin(p, o) ==
  /\ pc[p] = "idle"
  /\ op' = [op EXCEPT ![p] = o]
  /\ Goto(p, "pending")
  /\ UNCHANGED <<workspace, lock, admission, dir, migration>>

\* ACTION: no migration lock is there.
NoPeer(p) ==
  /\ pc[p] = "pending" /\ lock = NoOne
  /\ Goto(p, "readLegacy")
  /\ UNCHANGED <<workspace, lock, op, admission, dir, migration>>

\* ACTION: the wait for the lock ends: no progress for its time, the cap, or a budget of 0.
Locked(p) ==
  /\ pc[p] \in {"pending", "recheck", "open"} /\ lock # NoOne
  /\ End(p, "locked")
  /\ UNCHANGED <<workspace, lock>>

\* ACTION: inspectWorkspace reads the legacy folder first.
ReadLegacy(p) ==
  /\ pc[p] = "readLegacy"
  /\ seen' = [seen EXCEPT ![p] = CASE legacy = NoFolder -> "absent"
                                   [] Live(legacy) -> "live"
                                   [] FilesOf(legacy) = {} -> "empty"
                                   [] OTHER -> "ambiguous"]
  /\ Goto(p, "readCanonical")
  /\ UNCHANGED <<workspace, lock, op, denied, refreshed, dir, migration>>

\* workspace_dir_conflict or workspace_ambiguous, from two readings of different moments.
Conflicting(p) ==
  \/ seen[p] = "live" /\ Live(canonical)
  \/ seen[p] = "ambiguous"
  \/ Foreign(canonical)

\* ACTION: it reads the canonical folder, and the workspace is classified.
Classify(p) ==
  /\ pc[p] = "readCanonical"
  /\ denied' = IF Conflicting(p) THEN denied \cup {p} ELSE denied \ {p}
  /\ seen' = [seen EXCEPT ![p] = "absent"]
  /\ Goto(p, "recheck")
  /\ UNCHANGED <<workspace, lock, op, refreshed, dir, migration>>

\* A peer took the lock while the workspace was being classified.
Overtaken == lock # NoOne
\* Mutant: a conflict is final at once.
MayRefresh_never(p) == FALSE
\* One fresh classification of a conflict, which a peer may have ended meanwhile.
MayRefresh(p) == p \in denied /\ p \notin refreshed

\* ACTION: the lock is looked at again: the admission starts over.
Again(p) ==
  /\ pc[p] = "recheck" /\ (Overtaken \/ MayRefresh(p))
  /\ Goto(p, "pending")
  /\ refreshed' = IF Overtaken THEN refreshed ELSE refreshed \cup {p}
  /\ UNCHANGED <<workspace, lock, op, seen, denied, dir, migration>>

\* ACTION: no peer took the lock, and the classification counts.
Admit(p) ==
  /\ pc[p] = "recheck" /\ ~Overtaken /\ p \notin denied
  /\ Goto(p, "admitted")
  /\ refreshed' = refreshed \ {p}
  /\ UNCHANGED <<workspace, lock, op, seen, denied, dir, migration>>

Refuse(p) ==
  /\ pc[p] = "recheck" /\ ~Overtaken /\ ~MayRefresh(p) /\ p \in denied
  /\ End(p, "refused")
  /\ UNCHANGED <<workspace, lock>>

-----------------------------------------------------------------------------
(* A command that writes *)

\* Mutant: a canonical folder is used as soon as it is there.
Selected_existing == IF canonical # NoFolder THEN "canonical" ELSE "legacy"
\* selectWorkspaceDirName of a workspace that is not in conflict.
Selected ==
  CASE Live(canonical) -> "canonical"
    [] Live(legacy) /\ ~Live(canonical) -> "legacy"
    [] OTHER -> IF legacy # NoFolder /\ (canonical = NoFolder \/ Foreign(canonical)) THEN "legacy" ELSE "canonical"

InConflict == Live(legacy) /\ Live(canonical)

\* ACTION: the command resolves the path it is going to write.
Resolve(p) ==
  /\ pc[p] = "admitted" /\ op[p].kind \in {"write", "store"}
  /\ op[p].kind = "write" => ~InConflict
  /\ dir' = [dir EXCEPT ![p] = IF op[p].kind = "store" THEN "canonical" ELSE Selected]
  /\ Goto(p, "write")
  /\ UNCHANGED <<workspace, lock, op, admission, migration>>

\* ACTION: it finds both folders live, because a peer is copying, and fails.
ResolveFails(p) ==
  /\ pc[p] = "admitted" /\ op[p].kind = "write" /\ InConflict
  /\ End(p, "conflict")
  /\ UNCHANGED <<workspace, lock>>

\* ACTION: writeUtf8: it makes the folder if it has to, and writes the file.
Write(p) ==
  /\ pc[p] = "write"
  /\ LET f == op[p].file IN
       \/ /\ dir[p] = "legacy"
          /\ legacy' = Put(legacy, f, op[p].text)
          /\ late' = IF \E q \in Procs : pc[q] \in {"rewrite", "rename"} THEN late \cup {f} ELSE late
          /\ UNCHANGED canonical
       \/ /\ dir[p] = "canonical"
          /\ canonical' = Put(canonical, f, op[p].text)
          /\ late' = IF \E q \in Procs : pc[q] \in Working \ {"inspect"} THEN late \cup {f} ELSE late
          /\ UNCHANGED legacy
  /\ End(p, "written")
  /\ UNCHANGED <<backup, gitignore, lock>>

-----------------------------------------------------------------------------
(* A migration: migrateLegacyWorkspace and _migrateLegacyWorkspace *)

\* What a migration reports that finds no legacy folder.
Converged == IF canonical # NoFolder /\ ~Foreign(canonical) THEN "already" ELSE "blocked"

\* ACTION: the first inspection.
Look(p) ==
  /\ pc[p] = "admitted" /\ op[p].kind = "migrate" /\ legacy # NoFolder
  /\ Goto(p, "open")
  /\ UNCHANGED <<workspace, lock, op, admission, dir, migration>>

\* ACTION: without a legacy folder there is nothing to lock.
FindsCanonical(p) ==
  /\ pc[p] = "admitted" /\ op[p].kind = "migrate" /\ legacy = NoFolder
  /\ End(p, Converged)
  /\ UNCHANGED <<workspace, lock>>

Unlocked == lock = NoOne

\* ACTION: openSync(lockFile, 'wx').
TakeLock(p) ==
  /\ pc[p] = "open" /\ Unlocked
  /\ lock' = p
  /\ Goto(p, "inspect")
  /\ UNCHANGED <<workspace, op, admission, dir, migration>>

\* Destinations that exist with another content.
Differing == {f \in FilesOf(legacy) : BodyOf(canonical, f) \notin {Missing, legacy[f]}}
Blocked(p) ==
  \/ backup # NoFolder
  \/ ~op[p].force /\ (Foreign(canonical) \/ InConflict \/ Differing # {})

\* ACTION: inspection under the lock ends the migration before it begins.
Declines(p) ==
  /\ pc[p] = "inspect" /\ (legacy = NoFolder \/ Blocked(p))
  /\ Goto(p, "unlock")
  /\ Report(p, IF legacy = NoFolder THEN Converged ELSE "blocked")
  /\ UNCHANGED <<workspace, lock, op, admission, dir, plan, todo, touched>>

\* ACTION: inspection under the lock, the walk of the source and the destination snapshots.
\* The walk takes time, but every file is compared with it again when it is copied.
Plan(p) ==
  /\ pc[p] = "inspect" /\ legacy # NoFolder /\ ~Blocked(p)
  /\ plan' = [plan EXCEPT ![p] =
       [source |-> legacy, found |-> [f \in Files |-> BodyOf(canonical, f)],
        existed |-> canonical # NoFolder, ignore |-> gitignore]]
  /\ todo' = [todo EXCEPT ![p] = FilesOf(legacy)]
  /\ canonical' = [f \in Files |-> BodyOf(canonical, f)]
  /\ late' = {}
  /\ Goto(p, "copy")
  /\ UNCHANGED <<legacy, backup, gitignore, lock, op, admission, dir, touched, answer>>

AsFound(p, f) == BodyOf(canonical, f) = plan[p].found[f]

\* ACTION: the next destination changed since the snapshots.
Changed(p, f) ==
  /\ pc[p] = "copy" /\ f \in todo[p] /\ ~AsFound(p, f)
  /\ Goto(p, "rollback")
  /\ UNCHANGED <<workspace, lock, op, admission, dir, migration>>

\* ACTION: the next destination is identical to the source already.
Skip(p, f) ==
  /\ pc[p] = "copy" /\ f \in todo[p]
  /\ AsFound(p, f) /\ BodyOf(canonical, f) = plan[p].source[f]
  /\ todo' = [todo EXCEPT ![p] = @ \ {f}]
  /\ UNCHANGED <<workspace, lock, pc, op, admission, dir, plan, touched, answer>>

\* ACTION: the next destination is copied to the archive, or noted as created.
Take(p, f) ==
  /\ pc[p] = "copy" /\ f \in todo[p]
  /\ AsFound(p, f) /\ BodyOf(canonical, f) # plan[p].source[f]
  /\ touched' = [touched EXCEPT ![p] = @ \cup {f}]
  /\ Goto(p, "copying")
  /\ UNCHANGED <<legacy, canonical, backup, gitignore, late, lock, op, admission, dir, plan, todo, answer>>

\* ACTION: copyFileSync and the comparison of the copy with the hash of the walk.
Copy(p, f) ==
  /\ pc[p] = "copying" /\ f \in todo[p] \cap touched[p]
  /\ canonical' = Put(canonical, f, legacy[f])
  /\ IF legacy[f] = plan[p].source[f]
       THEN Goto(p, "copy") /\ todo' = [todo EXCEPT ![p] = @ \ {f}]
       ELSE Goto(p, "rollback") /\ UNCHANGED todo
  /\ UNCHANGED <<legacy, backup, gitignore, lock, op, admission, dir, plan, touched, answer, late>>

\* Mutant: the source is not walked again.
SourceUnchanged_assumed(p) == TRUE
\* beforeSig === afterSig
SourceUnchanged(p) == legacy = plan[p].source

\* ACTION: "a writer that ignored the migration lock must not be silently discarded".
Recheck(p) ==
  /\ pc[p] = "copy" /\ todo[p] = {}
  /\ IF SourceUnchanged(p)
       THEN Goto(p, "rewrite") /\ todo' = [todo EXCEPT ![p] = FilesOf(plan[p].source)]
       ELSE Goto(p, "rollback") /\ UNCHANGED todo
  /\ UNCHANGED <<workspace, lock, op, admission, dir, plan, touched, answer>>

\* ACTION: _rewriteLegacyReference of every migrated file, those that were identical included.
Rewrite(p, f) ==
  /\ pc[p] = "rewrite" /\ f \in todo[p]
  /\ canonical' = Put(canonical, f, Rewritten[canonical[f]])
  /\ todo' = [todo EXCEPT ![p] = @ \ {f}]
  /\ UNCHANGED <<legacy, backup, gitignore, lock, pc, op, admission, dir, plan, touched, answer, late>>

\* Mutant: a missing .gitignore is left to init.
Protection_merged == IF gitignore = "plain" THEN "protected" ELSE gitignore
\* .gitignore gets the lines of PROTECTED_GITIGNORE_LINES that it lacks.
Protection == "protected"

\* ACTION: .gitignore, copied to the archive when it is there, then the marker and the guide.
Protect(p) ==
  /\ pc[p] = "rewrite" /\ todo[p] = {}
  /\ IF gitignore = "invalid"
       THEN Goto(p, "rollback") /\ UNCHANGED gitignore
       ELSE /\ gitignore' = Protection
            /\ Goto(p, "rename")
  /\ UNCHANGED <<legacy, canonical, backup, lock, op, admission, dir, migration, late>>

\* ACTION: the last mutation: `.harness` becomes `.leerness-backup`.
Rename(p) ==
  /\ pc[p] = "rename"
  /\ backup' = legacy /\ legacy' = NoFolder
  /\ Report(p, "migrated") /\ Goto(p, "unlock")
  /\ UNCHANGED <<canonical, gitignore, lock, op, admission, dir, plan, todo, touched, late>>

\* ACTION: a file operation fails; a copy may be left half-written.
Fail(p) ==
  /\ pc[p] \in {"copy", "copying", "rewrite", "rename"}
  /\ Goto(p, "rollback")
  /\ \/ UNCHANGED canonical
     \/ \E f \in todo[p] \cap touched[p] :
          pc[p] = "copying" /\ canonical' = Put(canonical, f, Torn)
  /\ UNCHANGED <<legacy, backup, gitignore, lock, op, admission, dir, migration, late>>

\* Mutant: created files are left, and only overwritten ones come back.
Undone_overwritten(p, f) == IF plan[p].found[f] = Missing THEN canonical[f] ELSE plan[p].found[f]
\* An overwritten file is copied back from the archive, a created one removed.
Undone(p, f) == plan[p].found[f]

\* ACTION: the rollback restores one file.
Restore(p, f) ==
  /\ pc[p] = "rollback" /\ f \in touched[p]
  /\ canonical' = Put(canonical, f, Undone(p, f))
  /\ touched' = [touched EXCEPT ![p] = @ \ {f}]
  /\ UNCHANGED <<legacy, backup, gitignore, lock, pc, op, admission, dir, plan, todo, answer, late>>

\* ACTION: .gitignore, and the canonical folder if this migration made it.
RolledBack(p) ==
  /\ pc[p] = "rollback" /\ touched[p] = {}
  /\ gitignore' = plan[p].ignore
  /\ canonical' = IF plan[p].existed THEN canonical ELSE NoFolder
  /\ Report(p, "failed") /\ Goto(p, "unlock")
  /\ UNCHANGED <<legacy, backup, lock, op, admission, dir, plan, todo, touched, late>>

\* ACTION: the rollback itself fails.
Wreck(p) ==
  /\ pc[p] = "rollback"
  /\ Report(p, "wrecked") /\ Goto(p, "unlock")
  /\ UNCHANGED <<workspace, lock, op, admission, dir, plan, todo, touched>>

\* ACTION: _removeOwnedLockFile, and the report is returned.
Unlock(p) ==
  /\ pc[p] = "unlock"
  /\ lock' = NoOne
  /\ End(p, answer[p])
  /\ UNCHANGED workspace

-----------------------------------------------------------------------------
(* The environment *)

\* ACTION: the process of a migration dies; a copy may be left half-written.
Crash(p) ==
  /\ pc[p] \in Working
  /\ End(p, "dead")
  /\ \/ UNCHANGED canonical
     \/ \E f \in todo[p] \cap touched[p] :
          pc[p] = "copying" /\ canonical' = Put(canonical, f, Torn)
  /\ UNCHANGED <<legacy, backup, gitignore, lock, late>>

\* ACTION: an operator removes the lock that a dead process left.
ClearLock ==
  /\ lock # NoOne /\ pc[lock] = "dead"
  /\ lock' = NoOne
  /\ UNCHANGED <<workspace, pc, op, admission, dir, migration>>

Admission(p) ==
  \/ \E o \in Commands : Begin(p, o)
  \/ NoPeer(p) \/ Locked(p) \/ ReadLegacy(p) \/ Classify(p)
  \/ Again(p) \/ Admit(p) \/ Refuse(p)
Migration(p) ==
  \/ Look(p) \/ FindsCanonical(p) \/ TakeLock(p) \/ Declines(p) \/ Plan(p)
  \/ \E f \in Files : Changed(p, f) \/ Skip(p, f) \/ Take(p, f) \/ Copy(p, f) \/ Rewrite(p, f) \/ Restore(p, f)
  \/ Recheck(p) \/ Protect(p) \/ Rename(p)
  \/ Fail(p) \/ RolledBack(p) \/ Wreck(p) \/ Unlock(p)

Next ==
  \/ \E p \in Procs : Admission(p) \/ Resolve(p) \/ ResolveFails(p) \/ Write(p) \/ Migration(p) \/ Crash(p)
  \/ ClearLock

Spec == Init /\ [][Next]_vars

-----------------------------------------------------------------------------
(* Properties *)

TypeOK ==
  /\ legacy \in Folder \cup {NoFolder} /\ backup \in Folder \cup {NoFolder}
  /\ canonical \in [Files -> Content \cup {Torn}] \cup {NoFolder}
  /\ gitignore \in Ignores
  /\ lock \in Procs \cup {NoOne} /\ late \subseteq Files
  /\ pc \in [Procs -> {"idle", "pending", "readLegacy", "readCanonical", "recheck",
                       "admitted", "write", "open"} \cup Working \cup Ended]
  /\ op \in [Procs -> {NoOp} \cup Migrations \cup Writes \cup Stores]
  /\ seen \in [Procs -> {"absent", "live", "empty", "ambiguous"}]
  /\ denied \subseteq Procs /\ refreshed \subseteq Procs
  /\ dir \in [Procs -> {"legacy", "canonical"}]
  /\ plan \in [Procs -> Plans]
  /\ todo \in [Procs -> SUBSET Files] /\ touched \in [Procs -> SUBSET Files]
  /\ answer \in [Procs -> {"none", "already", "blocked", "migrated", "failed", "wrecked"}]

\* The finally block of migrateLegacyWorkspace removes the lock by its path: it is the lock of
\* the command that removes it, and no two commands are inside the migration.
LockIsOwned == \A p \in Procs : pc[p] \in Working => lock = p

\* When `.harness` is renamed, each of its files is in `.leerness`, with its references
\* rewritten: other commands wrote in both folders, and what one wrote before the source was
\* walked a second time, or the destination copied, is never silently left behind.
MigratedCarriesAll ==
  [][\A p \in Procs : (pc[p] = "rename" /\ pc'[p] = "unlock") =>
       \A f \in FilesOf(legacy) \ late : BodyOf(canonical, f) = Rewritten[legacy[f]]]_vars

\* A migration that failed leaves `.leerness` and .gitignore as it found them, except for files
\* that were identical in both folders, and for what others wrote in the meantime.
RollbackRestores ==
  [][\A p \in Procs : (pc[p] = "rollback" /\ pc'[p] = "unlock" /\ answer'[p] = "failed") =>
       /\ gitignore' = plan[p].ignore
       /\ canonical' = NoFolder <=> ~plan[p].existed
       /\ \A f \in Files \ late :
            plan[p].source[f] # plan[p].found[f] => BodyOf(canonical', f) = plan[p].found[f]]_vars

\* A migration that has its outcome, and still has to remove the lock or has returned.
HasMigrated(q) == {pc[q], answer[q]} \cap {"failed", "migrated"} # {}
\* Nobody is refused for the half-copied workspace of a peer that was migrating: a refusal
\* means that a migration died, or could not roll back, that a command wrote at the old path
\* after the rename, or that two migrations ended while this command was being admitted.
ConflictIsReal ==
  \A p \in Procs : pc[p] = "refused" =>
    \/ \E q \in Procs : pc[q] \in {"dead", "wrecked"} \/ answer[q] = "wrecked"
    \/ backup # NoFolder /\ legacy # NoFolder
    \/ \E q, r \in Procs : q # r /\ HasMigrated(q) /\ HasMigrated(r)

\* What a writing command resolved is never a workspace that is being copied or was half
\* copied when a migration died: `.leerness` is only used once it holds all that was migrated.
UsedIsWhole ==
  \A p \in Procs : pc[p] = "write" /\ op[p].kind = "write" /\ dir[p] = "canonical" =>
    backup # NoFolder /\ \A f \in FilesOf(backup) \ late : BodyOf(canonical, f) \notin {Missing, Torn}

\* The renamed old workspace, `.leerness-backup`, never exists without the .gitignore line that keeps it out
\* of commits, whoever dies, or fails, and when.  (Only the backup: the copies that a migration leaves in
\* `.leerness/archive` are not, after one that failed over an existing folder.)
BackupIgnored == backup # NoFolder => gitignore = "protected"
=============================================================================
