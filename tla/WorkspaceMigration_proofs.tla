----------------------- MODULE WorkspaceMigration_proofs -----------------------
(***************************************************************************)
(* Proofs about WorkspaceMigration, for any number of commands, any set of *)
(* files and texts, and any workspaces to start from.                      *)
(*                                                                         *)
(* The invariant follows the one command that owns the migration lock: at  *)
(* each of its places it says what the two folders hold for the files that *)
(* no other command wrote in time, so that the rename finds everything     *)
(* copied and rewritten, and the rollback everything to be restored.  A    *)
(* second part follows the evidence of a conflict, from the migration that  *)
(* makes it to the command that is refused for it.                         *)
(***************************************************************************)
EXTENDS WorkspaceMigration, TLAPS

Bodies == Content \cup {Torn}
\* Between the plan and the rename, or the rollback.
Moving == {"copy", "copying", "rewrite", "rename", "rollback"}

\* What a place promises about the command that is there.
OpKnown(p) == pc[p] = "write" => op[p] \in Writes \cup Stores
Answered(p) == pc[p] = "unlock" => answer[p] # "none"
PlanStands(p) ==
  pc[p] \in Moving =>
    /\ legacy # NoFolder /\ canonical # NoFolder /\ backup = NoFolder
    /\ plan[p].source \in Folder /\ plan[p].found \in [Files -> Bodies]
    /\ todo[p] \subseteq FilesOf(plan[p].source)
\* What was copied is there, and is the source's unless another command wrote it.
Copied(p) ==
  pc[p] \in {"copy", "copying"} =>
    \A f \in FilesOf(plan[p].source) \ todo[p] :
      canonical[f] # Missing /\ (f \notin late => canonical[f] = plan[p].source[f])
\* The second walk found the source unchanged; files are rewritten one by one.
Carried(p) ==
  pc[p] \in {"rewrite", "rename"} =>
    /\ \A f \in Files \ late : legacy[f] = plan[p].source[f]
    /\ \A f \in FilesOf(plan[p].source) :
         /\ canonical[f] # Missing
         /\ f \in todo[p] \ late => canonical[f] = plan[p].source[f]
         /\ f \notin todo[p] \cup late => canonical[f] = Rewritten[plan[p].source[f]]
Ready(p) == pc[p] = "rename" => todo[p] = {} /\ gitignore = "protected"
\* A file that was found to differ from the source is as found, or noted as touched.
Restorable(p) ==
  pc[p] \in Moving =>
    /\ ~plan[p].existed => \A f \in Files : plan[p].found[f] = Missing
    /\ \A f \in Files : plan[p].source[f] # plan[p].found[f] =>
         /\ f \notin touched[p] \cup late => canonical[f] = plan[p].found[f]
         /\ (pc[p] # "rollback" /\ f \in FilesOf(plan[p].source) /\ f \notin touched[p]) =>
              pc[p] \in {"copy", "copying"} /\ f \in todo[p]

Job(p) ==
  /\ OpKnown(p) /\ Answered(p) /\ PlanStands(p) /\ Copied(p)
  /\ Carried(p) /\ Ready(p) /\ Restorable(p)

\* The old workspace is live until it is the backup, and then the new one is whole.
LegacyLives == backup = NoFolder => Live(legacy)
BackupWhole ==
  backup # NoFolder => \A f \in FilesOf(backup) \ late : BodyOf(canonical, f) \notin {Missing, Torn}
EarnedBy(p) ==
  (pc[p] = "write" /\ op[p].kind = "write" /\ dir[p] = "canonical") => backup # NoFolder

Inv ==
  /\ TypeOK /\ LockIsOwned /\ BackupIgnored /\ LegacyLives /\ BackupWhole
  /\ \A p \in Procs : Job(p) /\ EarnedBy(p)

-----------------------------------------------------------------------------
(* Folders, plans and operations *)

\* No folder, not even one with half-written files, is NoFolder.
LEMMA FolderIsThere ==
  ASSUME NEW folder \in [Files -> Bodies]
  PROVE  folder # NoFolder /\ folder \in [Files -> Bodies] \cup {NoFolder}
BY FilesAssumption DEF Bodies, Content

\* A legacy folder has no half-written files.
LEMMA FolderBodies ==
  ASSUME NEW folder \in Folder
  PROVE  folder \in [Files -> Bodies]
BY DEF Folder, Bodies

\* Put is a folder that differs from the old one in one file only.
LEMMA PutOne ==
  ASSUME NEW folder \in [Files -> Bodies] \cup {NoFolder}, NEW f \in Files, NEW body \in Bodies
  PROVE  /\ Put(folder, f, body) \in [Files -> Bodies]
         /\ Put(folder, f, body) # NoFolder
         /\ Put(folder, f, body)[f] = body
         /\ \A g \in Files : g # f => Put(folder, f, body)[g] = BodyOf(folder, g)
<1>1. \A g \in Files : BodyOf(folder, g) \in Bodies
  BY DEF BodyOf, Bodies, Content
<1>2. Put(folder, f, body) \in [Files -> Bodies]
  BY <1>1 DEF Put
<1> QED
  BY <1>2, FolderIsThere DEF Put

\* The same for legacy folders.
LEMMA PutLegacy ==
  ASSUME NEW folder \in Folder \cup {NoFolder}, NEW f \in Files, NEW body \in Texts
  PROVE  Put(folder, f, body) \in Folder
BY DEF Put, BodyOf, Folder, Content

LEMMA NoPlanIsPlan == NoPlan \in Plans
BY DEF NoPlan, Plans, Ignores

LEMMA PlanFields ==
  ASSUME NEW x \in Plans
  PROVE  x.ignore \in Ignores /\ x.existed \in BOOLEAN
BY DEF Plans

LEMMA OpFields ==
  ASSUME NEW o \in Writes \cup Stores
  PROVE  o.file \in Files /\ o.text \in Texts /\ o.kind \in {"write", "store"}
BY FilesAssumption DEF Writes, Stores

LEMMA OpKinds ==
  ASSUME NEW o \in {NoOp} \cup Migrations \cup Writes \cup Stores, o.kind \in {"write", "store"}
  PROVE  o \in Writes \cup Stores
BY DEF NoOp, Migrations

\* A command that ends leaves its own part of the state in order.
LEMMA EndTypes ==
  ASSUME TypeOK, NEW p \in Procs, NEW result \in Ended, End(p, result)
  PROVE  /\ pc' \in [Procs -> {"idle", "pending", "readLegacy", "readCanonical", "recheck",
                               "admitted", "write", "open"} \cup Working \cup Ended]
         /\ op' \in [Procs -> {NoOp} \cup Migrations \cup Writes \cup Stores]
         /\ seen' \in [Procs -> {"absent", "live", "empty", "ambiguous"}]
         /\ denied' \subseteq Procs /\ refreshed' \subseteq Procs
         /\ dir' \in [Procs -> {"legacy", "canonical"}]
         /\ plan' \in [Procs -> Plans]
         /\ todo' \in [Procs -> SUBSET Files] /\ touched' \in [Procs -> SUBSET Files]
         /\ answer' \in [Procs -> {"none", "already", "blocked", "migrated", "failed", "wrecked"}]
BY NoPlanIsPlan DEF TypeOK, End, Goto, Report

\* The command that ends promises nothing more.
LEMMA EndJob ==
  ASSUME TypeOK, NEW p \in Procs, NEW result \in Ended, End(p, result)
  PROVE  Job(p)' /\ EarnedBy(p)' /\ pc'[p] \notin Working
         /\ \A q \in Procs : q # p => /\ pc'[q] = pc[q] /\ op'[q] = op[q] /\ dir'[q] = dir[q]
                                      /\ plan'[q] = plan[q] /\ todo'[q] = todo[q]
                                      /\ touched'[q] = touched[q] /\ answer'[q] = answer[q]
<1>1. pc'[p] = result
  BY DEF TypeOK, End, Goto
<1>2. result \notin Working /\ result \notin Moving /\ result # "write" /\ result # "unlock"
      /\ result \notin {"copy", "copying", "rewrite", "rename"}
  BY DEF Ended, Working, Moving
<1>3. Job(p)' /\ EarnedBy(p)'
  BY <1>1, <1>2 DEF Job, OpKnown, Answered, PlanStands, Copied, Carried, Ready, Restorable, EarnedBy
<1> QED
  BY <1>1, <1>2, <1>3 DEF TypeOK, End, Goto, Report

-----------------------------------------------------------------------------
(* Init *)

LEMMA InitInv == Init => Inv
<1> SUFFICES ASSUME Init PROVE Inv
  OBVIOUS
<1>1. \A p \in Procs : pc[p] = "idle"
  BY DEF Init
<1>2. /\ legacy \in Folder /\ Live(legacy)
      /\ canonical \in Folder \cup {NoFolder} /\ gitignore \in Ignores
  BY StartsAssumption DEF Init
<1>3. canonical \in [Files -> Bodies] \cup {NoFolder}
  BY <1>2, FolderBodies
<1>4. TypeOK
  BY <1>2, <1>3, NoPlanIsPlan DEF Init, TypeOK, Bodies
<1>5. LockIsOwned /\ BackupIgnored /\ LegacyLives /\ BackupWhole
  BY <1>1, <1>2 DEF Init, LockIsOwned, BackupIgnored, LegacyLives, BackupWhole, Working
<1>6. \A p \in Procs : Job(p) /\ EarnedBy(p)
  BY <1>1 DEF Job, EarnedBy, OpKnown, Answered, PlanStands, Copied, Carried, Ready, Restorable, Moving
<1> QED
  BY <1>4, <1>5, <1>6 DEF Inv

-----------------------------------------------------------------------------
(* Types *)

DiskOK ==
  /\ legacy \in Folder \cup {NoFolder} /\ backup \in Folder \cup {NoFolder}
  /\ canonical \in [Files -> Bodies] \cup {NoFolder}
  /\ gitignore \in Ignores
  /\ lock \in Procs \cup {NoOne} /\ late \subseteq Files

LEMMA TypeDisk == TypeOK => DiskOK
BY DEF TypeOK, DiskOK, Bodies

\* A command that ends leaves the state well typed if it leaves the folders so.
LEMMA EndOK ==
  ASSUME TypeOK, NEW p \in Procs, NEW result \in Ended, End(p, result), DiskOK'
  PROVE  TypeOK'
BY EndTypes DEF TypeOK, DiskOK, Bodies

\* A step that leaves the folders alone, and ends no command.
LEMMA AdmissionTypes ==
  ASSUME Inv, NEW p \in Procs, Admission(p)
  PROVE  TypeOK'
<1>1. ASSUME NEW o \in Commands, Begin(p, o) PROVE TypeOK'
  <2>1. o \in {NoOp} \cup Migrations \cup Writes \cup Stores
    BY CommandsAssumption
  <2> QED
    BY <1>1, <2>1 DEF Begin, TypeOK, Inv, Goto, workspace, admission, migration
<1>2. CASE NoPeer(p)
  BY <1>2 DEF NoPeer, TypeOK, Inv, Goto, workspace, admission, migration
<1>3. CASE Locked(p)
  <2>1. DiskOK'
    BY <1>3, TypeDisk DEF Locked, DiskOK, Inv, workspace
  <2> QED
    BY <1>3, <2>1, EndOK DEF Locked, Inv, Ended
<1>4. CASE ReadLegacy(p)
  BY <1>4 DEF ReadLegacy, TypeOK, Inv, Goto, workspace, migration
<1>5. CASE Classify(p)
  BY <1>5 DEF Classify, TypeOK, Inv, Goto, workspace, migration
<1>6. CASE Again(p)
  BY <1>6 DEF Again, TypeOK, Inv, Goto, workspace, migration
<1>7. CASE Admit(p)
  BY <1>7 DEF Admit, TypeOK, Inv, Goto, workspace, migration
<1>8. CASE Refuse(p)
  <2>1. DiskOK'
    BY <1>8, TypeDisk DEF Refuse, DiskOK, Inv, workspace
  <2> QED
    BY <1>8, <2>1, EndOK DEF Refuse, Inv, Ended
<1> QED
  BY <1>1, <1>2, <1>3, <1>4, <1>5, <1>6, <1>7, <1>8 DEF Admission

LEMMA WriterTypes ==
  ASSUME Inv, NEW p \in Procs, Resolve(p) \/ ResolveFails(p) \/ Write(p)
  PROVE  TypeOK'
<1>1. CASE Resolve(p)
  <2>1. (IF op[p].kind = "store" THEN "canonical" ELSE Selected) \in {"legacy", "canonical"}
    BY DEF Selected
  <2> QED
    BY <1>1, <2>1 DEF Resolve, TypeOK, Inv, Goto, workspace, admission, migration
<1>2. CASE ResolveFails(p)
  <2>1. DiskOK'
    BY <1>2, TypeDisk DEF ResolveFails, DiskOK, Inv, workspace
  <2> QED
    BY <1>2, <2>1, EndOK DEF ResolveFails, Inv, Ended
<1>3. CASE Write(p)
  <2>1. op[p].file \in Files /\ op[p].text \in Texts
    BY <1>3, OpFields DEF Write, Inv, Job, OpKnown
  <2>2. Put(legacy, op[p].file, op[p].text) \in Folder
    BY <2>1, PutLegacy, TypeDisk DEF Inv, DiskOK
  <2>3. Put(canonical, op[p].file, op[p].text) \in [Files -> Bodies]
    BY <2>1, PutOne, TypeDisk DEF Inv, DiskOK, Bodies, Content
  <2>4. DiskOK'
    BY <1>3, <2>1, <2>2, <2>3, TypeDisk DEF Write, DiskOK, Inv
  <2> QED
    BY <1>3, <2>4, EndOK DEF Write, Inv, Ended
<1> QED
  BY <1>1, <1>2, <1>3

LEMMA MigrationTypes ==
  ASSUME Inv, NEW p \in Procs, Migration(p)
  PROVE  TypeOK'
<1> USE DEF Inv
<1>1. CASE Look(p)
  BY <1>1 DEF Look, TypeOK, Goto, workspace, admission, migration
<1>2. CASE FindsCanonical(p)
  <2>1. DiskOK'
    BY <1>2, TypeDisk DEF FindsCanonical, DiskOK, workspace
  <2>2. Converged \in Ended
    BY DEF Converged, Ended
  <2> QED
    BY <1>2, <2>1, <2>2, EndOK DEF FindsCanonical
<1>3. CASE TakeLock(p)
  BY <1>3 DEF TakeLock, TypeOK, Goto, workspace, admission, migration, Working
<1>4. CASE Declines(p)
  <2>1. (IF legacy = NoFolder THEN Converged ELSE "blocked") \in {"already", "blocked"}
    BY DEF Converged
  <2> QED
    BY <1>4, <2>1 DEF Declines, TypeOK, Goto, Report, workspace, admission, Working
<1>5. CASE Plan(p)
  <2>1. \A f \in Files : BodyOf(canonical, f) \in Bodies
    BY TypeDisk DEF DiskOK, BodyOf, Bodies, Content
  <2>2. [f \in Files |-> BodyOf(canonical, f)] \in [Files -> Bodies]
    BY <2>1
  <2>3. [source |-> legacy, found |-> [f \in Files |-> BodyOf(canonical, f)],
         existed |-> canonical # NoFolder, ignore |-> gitignore] \in Plans
    BY <1>5, <2>2 DEF Plan, Plans, TypeOK, Bodies, Content
  <2>4. plan' \in [Procs -> Plans]
    BY <1>5, <2>3 DEF Plan, TypeOK
  <2>5. FilesOf(legacy) \subseteq Files
    BY DEF FilesOf
  <2>6. canonical' \in [Files -> Content \cup {Torn}] \cup {NoFolder}
    BY <1>5, <2>2 DEF Plan, Bodies
  <2> QED
    BY <1>5, <2>4, <2>5, <2>6 DEF Plan, TypeOK, Goto, admission, Working
<1>6. ASSUME NEW f \in Files, Changed(p, f) PROVE TypeOK'
  BY <1>6 DEF Changed, TypeOK, Goto, workspace, admission, migration, Working
<1>7. ASSUME NEW f \in Files, Skip(p, f) PROVE TypeOK'
  BY <1>7 DEF Skip, TypeOK, workspace, admission
<1>8. ASSUME NEW f \in Files, Take(p, f) PROVE TypeOK'
  BY <1>8 DEF Take, TypeOK, Goto, admission, Working
<1>9. ASSUME NEW f \in Files, Copy(p, f) PROVE TypeOK'
  <2>1. legacy[f] \in Bodies
    BY <1>9 DEF Copy, Job, PlanStands, Moving, TypeOK, Folder, Bodies
  <2>2. canonical' \in [Files -> Content \cup {Torn}] \cup {NoFolder}
    BY <1>9, <2>1, PutOne, TypeDisk DEF Copy, DiskOK, Bodies
  <2> QED
    BY <1>9, <2>2 DEF Copy, TypeOK, Goto, admission, Working
<1>10. CASE Recheck(p)
  <2>1. FilesOf(plan[p].source) \subseteq Files
    BY DEF FilesOf
  <2> QED
    BY <1>10, <2>1 DEF Recheck, TypeOK, Goto, workspace, admission, Working
<1>11. ASSUME NEW f \in Files, Rewrite(p, f) PROVE TypeOK'
  <2>1. canonical \in [Files -> Bodies] /\ canonical[f] # Missing
    BY <1>11, TypeDisk DEF Rewrite, DiskOK, Job, PlanStands, Carried, Moving
  <2>2. canonical[f] \in Texts \cup {Torn}
    BY <2>1 DEF Bodies, Content
  <2>3. Rewritten[canonical[f]] \in Bodies
    BY <2>2, FilesAssumption DEF Bodies, Content
  <2>4. canonical' \in [Files -> Content \cup {Torn}] \cup {NoFolder}
    BY <1>11, <2>1, <2>3, PutOne DEF Rewrite, Bodies
  <2> QED
    BY <1>11, <2>4 DEF Rewrite, TypeOK, admission
<1>12. CASE Protect(p)
  BY <1>12 DEF Protect, Protection, TypeOK, Ignores, Goto, admission, migration, Working
<1>13. CASE Rename(p)
  BY <1>13 DEF Rename, TypeOK, Goto, Report, admission, Working
<1>14. CASE Fail(p)
  <2>1. canonical' \in [Files -> Content \cup {Torn}] \cup {NoFolder}
    <3>1. CASE UNCHANGED canonical
      BY <3>1 DEF TypeOK
    <3>2. ASSUME NEW f \in todo[p] \cap touched[p], canonical' = Put(canonical, f, Torn)
          PROVE canonical' \in [Files -> Content \cup {Torn}] \cup {NoFolder}
      <4>1. f \in Files
        BY DEF TypeOK
      <4> QED
        BY <3>2, <4>1, PutOne, TypeDisk DEF DiskOK, Bodies
    <3> QED
      BY <1>14, <3>1, <3>2 DEF Fail
  <2> QED
    BY <1>14, <2>1 DEF Fail, TypeOK, Goto, admission, migration, Working
<1>15. ASSUME NEW f \in Files, Restore(p, f) PROVE TypeOK'
  <2>1. Undone(p, f) \in Bodies
    BY <1>15 DEF Restore, Undone, Job, PlanStands, Moving
  <2>2. canonical' \in [Files -> Content \cup {Torn}] \cup {NoFolder}
    BY <1>15, <2>1, PutOne, TypeDisk DEF Restore, DiskOK, Bodies
  <2> QED
    BY <1>15, <2>2 DEF Restore, TypeOK, admission
<1>16. CASE RolledBack(p)
  <2>1. plan[p].ignore \in Ignores
    BY PlanFields DEF TypeOK
  <2> QED
    BY <1>16, <2>1 DEF RolledBack, TypeOK, Goto, Report, admission, Working
<1>17. CASE Wreck(p)
  BY <1>17 DEF Wreck, TypeOK, Goto, Report, workspace, admission, Working
<1>18. CASE Unlock(p)
  <2>1. answer[p] \in Ended
    BY <1>18 DEF Unlock, Job, Answered, TypeOK, Ended
  <2>2. DiskOK'
    BY <1>18, TypeDisk DEF Unlock, DiskOK, workspace
  <2> QED
    BY <1>18, <2>1, <2>2, EndOK DEF Unlock
<1> QED
  BY <1>1, <1>2, <1>3, <1>4, <1>5, <1>6, <1>7, <1>8, <1>9, <1>10, <1>11, <1>12, <1>13,
     <1>14, <1>15, <1>16, <1>17, <1>18 DEF Migration

LEMMA CrashTypes ==
  ASSUME Inv, NEW p \in Procs, Crash(p)
  PROVE  TypeOK'
<1>1. canonical' \in [Files -> Bodies] \cup {NoFolder}
  <2>1. CASE UNCHANGED canonical
    BY <2>1, TypeDisk DEF DiskOK, Inv
  <2>2. ASSUME NEW f \in todo[p] \cap touched[p], canonical' = Put(canonical, f, Torn)
        PROVE canonical' \in [Files -> Bodies] \cup {NoFolder}
    <3>1. f \in Files
      BY DEF TypeOK, Inv
    <3> QED
      BY <2>2, <3>1, PutOne, TypeDisk DEF DiskOK, Bodies, Inv
  <2> QED
    BY <2>1, <2>2 DEF Crash
<1>2. DiskOK'
  BY <1>1, TypeDisk DEF Crash, DiskOK, Inv
<1> QED
  BY <1>2, EndOK DEF Crash, Ended, Inv

LEMMA NextTypes == Inv /\ [Next]_vars => TypeOK'
<1> SUFFICES ASSUME Inv, [Next]_vars PROVE TypeOK'
  OBVIOUS
<1>1. CASE UNCHANGED vars
  BY <1>1 DEF vars, TypeOK, Inv
<1>2. CASE ClearLock
  BY <1>2 DEF ClearLock, TypeOK, Inv, workspace, admission, migration
<1> QED
  BY <1>1, <1>2, AdmissionTypes, WriterTypes, MigrationTypes, CrashTypes DEF Next

-----------------------------------------------------------------------------
(* The lock, and who is not concerned by a step *)

\* The step leaves q where it is, and what it knows.
Same(q) ==
  /\ pc'[q] = pc[q] /\ op'[q] = op[q] /\ dir'[q] = dir[q] /\ plan'[q] = plan[q]
  /\ todo'[q] = todo[q] /\ touched'[q] = touched[q] /\ answer'[q] = answer[q]

LEMMA OnlyAdmission ==
  ASSUME TypeOK, NEW p \in Procs, NEW q \in Procs \ {p}, Admission(p)
  PROVE  Same(q)
<1>1. ASSUME NEW o \in Commands, Begin(p, o) PROVE Same(q)
  BY <1>1 DEF Begin, TypeOK, Same, Goto, admission, migration
<1>2. NoPeer(p) \/ Admit(p) \/ Again(p) => Same(q)
  BY DEF NoPeer, Admit, Again, TypeOK, Same, Goto, admission, migration
<1>3. ReadLegacy(p) \/ Classify(p) => Same(q)
  BY DEF ReadLegacy, Classify, TypeOK, Same, Goto, admission, migration
<1>4. Locked(p) \/ Refuse(p) => Same(q)
  BY DEF Locked, Refuse, End, TypeOK, Same, Goto, Report
<1> QED
  BY <1>1, <1>2, <1>3, <1>4 DEF Admission

LEMMA OnlyWriter ==
  ASSUME TypeOK, NEW p \in Procs, NEW q \in Procs \ {p},
         Resolve(p) \/ ResolveFails(p) \/ Write(p) \/ Crash(p)
  PROVE  Same(q)
BY DEF Resolve, ResolveFails, Write, Crash, End, TypeOK, Same, Goto, Report, admission, migration

LEMMA OnlyMigration ==
  ASSUME TypeOK, NEW p \in Procs, NEW q \in Procs \ {p}, Migration(p)
  PROVE  Same(q)
<1>1. Look(p) \/ FindsCanonical(p) \/ TakeLock(p) \/ Declines(p) => Same(q)
  BY DEF Look, FindsCanonical, TakeLock, Declines, End, TypeOK, Same, Goto, Report, admission, migration
<1>2. Plan(p) \/ Recheck(p) \/ Protect(p) \/ Rename(p) => Same(q)
  BY DEF Plan, Recheck, Protect, Rename, TypeOK, Same, Goto, Report, admission, migration
<1>3. Fail(p) \/ RolledBack(p) \/ Wreck(p) \/ Unlock(p) => Same(q)
  BY DEF Fail, RolledBack, Wreck, Unlock, End, TypeOK, Same, Goto, Report, admission, migration
<1>4. ASSUME NEW f \in Files, Changed(p, f) \/ Skip(p, f) \/ Take(p, f) PROVE Same(q)
  BY <1>4 DEF Changed, Skip, Take, TypeOK, Same, Goto, admission, migration
<1>5. ASSUME NEW f \in Files, Copy(p, f) \/ Rewrite(p, f) \/ Restore(p, f) PROVE Same(q)
  BY <1>5 DEF Copy, Rewrite, Restore, TypeOK, Same, Goto, admission, migration
<1> QED
  BY <1>1, <1>2, <1>3, <1>4, <1>5 DEF Migration

\* Nobody else is inside the migration of the command that owns the lock.
LEMMA Bystander ==
  ASSUME Inv, NEW p \in Procs, NEW q \in Procs \ {p}, pc[p] \in Working, Same(q),
         backup # NoFolder => backup' # NoFolder
  PROVE  Job(q)' /\ EarnedBy(q)'
<1>1. pc[q] \notin Working
  BY DEF Inv, LockIsOwned
<1>2. pc'[q] = pc[q] /\ op'[q] = op[q] /\ dir'[q] = dir[q] /\ OpKnown(q) /\ EarnedBy(q)
  BY DEF Same, Inv, Job
<1>3. pc'[q] \notin Moving /\ pc'[q] \notin {"copy", "copying", "rewrite", "rename", "unlock"}
  BY <1>1, <1>2 DEF Working, Moving
<1>4. Answered(q)' /\ PlanStands(q)' /\ Copied(q)' /\ Carried(q)' /\ Ready(q)' /\ Restorable(q)'
  BY <1>3 DEF Answered, PlanStands, Copied, Carried, Ready, Restorable
<1> QED
  BY <1>2, <1>4 DEF Job, OpKnown, EarnedBy

\* A step that changes no file.
LEMMA Quiet ==
  ASSUME Inv, NEW q \in Procs, Same(q), UNCHANGED workspace
  PROVE  Job(q)' /\ EarnedBy(q)'
<1>1. Job(q) /\ EarnedBy(q)
  BY DEF Inv
<1>2. OpKnown(q)' /\ Answered(q)' /\ Ready(q)' /\ EarnedBy(q)'
  BY <1>1 DEF Job, OpKnown, Answered, Ready, EarnedBy, Same, workspace
<1>3. PlanStands(q)'
  BY <1>1 DEF Job, PlanStands, Same, workspace
<1>4. Copied(q)'
  BY <1>1 DEF Job, Copied, Same, workspace
<1>5. Carried(q)'
  BY <1>1 DEF Job, Carried, Same, workspace
<1>6. Restorable(q)'
  BY <1>1 DEF Job, Restorable, Same, workspace
<1> QED
  BY <1>2, <1>3, <1>4, <1>5, <1>6 DEF Job

\* At a place outside writing and migration a command promises nothing.
LEMMA Outside ==
  ASSUME NEW p \in Procs, pc'[p] \notin Moving \cup {"write", "unlock"}
  PROVE  Job(p)' /\ EarnedBy(p)'
BY DEF Moving, Job, OpKnown, Answered, PlanStands, Copied, Carried, Ready, Restorable, EarnedBy

\* The lock is not another command's while somebody works.
LEMMA NextLock == Inv /\ [Next]_vars => LockIsOwned'
<1> SUFFICES ASSUME Inv, [Next]_vars PROVE LockIsOwned'
  OBVIOUS
<1> USE DEF Inv
<1>1. CASE UNCHANGED vars
  BY <1>1 DEF vars, LockIsOwned
<1>2. CASE ClearLock
  BY <1>2 DEF ClearLock, LockIsOwned, Working
<1>3. ASSUME NEW p \in Procs, Admission(p) PROVE LockIsOwned'
  <2>1. lock' = lock /\ pc'[p] \notin Working
    <3>1. ASSUME NEW o \in Commands, Begin(p, o) PROVE lock' = lock /\ pc'[p] \notin Working
      BY <3>1 DEF Begin, Goto, TypeOK, Working
    <3>2. NoPeer(p) \/ ReadLegacy(p) \/ Classify(p) \/ Again(p) \/ Admit(p) => lock' = lock /\ pc'[p] \notin Working
      BY DEF NoPeer, ReadLegacy, Classify, Again, Admit, Goto, TypeOK, Working
    <3>3. Locked(p) \/ Refuse(p) => lock' = lock /\ pc'[p] \notin Working
      BY DEF Locked, Refuse, End, Goto, TypeOK, Working
    <3> QED
      BY <1>3, <3>1, <3>2, <3>3 DEF Admission
  <2>2. \A q \in Procs \ {p} : pc'[q] = pc[q]
    BY <1>3, OnlyAdmission DEF Same
  <2> QED
    BY <2>1, <2>2 DEF LockIsOwned
<1>4. ASSUME NEW p \in Procs, Resolve(p) \/ ResolveFails(p) \/ Write(p) \/ Crash(p) PROVE LockIsOwned'
  <2>1. lock' = lock /\ pc'[p] \notin Working
    BY <1>4 DEF Resolve, ResolveFails, Write, Crash, End, Goto, TypeOK, Working
  <2>2. \A q \in Procs \ {p} : pc'[q] = pc[q]
    BY <1>4, OnlyWriter DEF Same
  <2> QED
    BY <2>1, <2>2 DEF LockIsOwned
<1>5. ASSUME NEW p \in Procs, Migration(p) PROVE LockIsOwned'
  <2>1. \A q \in Procs \ {p} : pc'[q] = pc[q]
    BY <1>5, OnlyMigration DEF Same
  <2>2. CASE TakeLock(p)
    <3>1. \A q \in Procs : pc[q] \notin Working
      BY <2>2, FilesAssumption DEF TakeLock, Unlocked, LockIsOwned
    <3> QED
      BY <2>1, <2>2, <3>1 DEF TakeLock, LockIsOwned
  <2>3. CASE Unlock(p)
    <3>1. pc[p] \in Working
      BY <2>3 DEF Unlock, Working
    <3>2. \A q \in Procs \ {p} : pc[q] \notin Working
      BY <3>1 DEF LockIsOwned
    <3>3. pc'[p] \notin Working
      BY <2>3 DEF Unlock, End, Goto, TypeOK, Working
    <3> QED
      BY <2>1, <3>2, <3>3 DEF LockIsOwned
  <2>4. CASE Look(p) \/ FindsCanonical(p)
    <3>1. lock' = lock /\ pc'[p] \notin Working
      BY <2>4 DEF Look, FindsCanonical, Converged, End, Goto, TypeOK, Working
    <3> QED
      BY <2>1, <3>1 DEF LockIsOwned
  <2>5. CASE ~(TakeLock(p) \/ Unlock(p) \/ Look(p) \/ FindsCanonical(p))
    <3>1. lock' = lock /\ pc[p] \in Working
      <4>1. Declines(p) \/ Plan(p) \/ Recheck(p) \/ Protect(p) \/ Rename(p) => lock' = lock /\ pc[p] \in Working
        BY DEF Declines, Plan, Recheck, Protect, Rename, Working
      <4>2. Fail(p) \/ RolledBack(p) \/ Wreck(p) => lock' = lock /\ pc[p] \in Working
        BY DEF Fail, RolledBack, Wreck, Working
      <4>3. ASSUME NEW f \in Files, Changed(p, f) \/ Skip(p, f) \/ Take(p, f) PROVE lock' = lock /\ pc[p] \in Working
        BY <4>3 DEF Changed, Skip, Take, Working
      <4>4. ASSUME NEW f \in Files, Copy(p, f) \/ Rewrite(p, f) \/ Restore(p, f) PROVE lock' = lock /\ pc[p] \in Working
        BY <4>4 DEF Copy, Rewrite, Restore, Working
      <4> QED
        BY <1>5, <2>5, <4>1, <4>2, <4>3, <4>4 DEF Migration
    <3> QED
      BY <2>1, <3>1 DEF LockIsOwned
  <2> QED
    BY <2>2, <2>3, <2>4, <2>5
<1> QED
  BY <1>1, <1>2, <1>3, <1>4, <1>5 DEF Next

-----------------------------------------------------------------------------
(* What each place promises *)

LEMMA AdmissionJobs ==
  ASSUME Inv, NEW p \in Procs, NEW q \in Procs, Admission(p)
  PROVE  Job(q)' /\ EarnedBy(q)' /\ UNCHANGED workspace
<1>1. UNCHANGED workspace /\ pc'[p] \notin Moving \cup {"write", "unlock"}
  <2>1. ASSUME NEW o \in Commands, Begin(p, o)
        PROVE UNCHANGED workspace /\ pc'[p] \notin Moving \cup {"write", "unlock"}
    BY <2>1 DEF Begin, Goto, TypeOK, Inv, Moving
  <2>2. NoPeer(p) \/ ReadLegacy(p) \/ Classify(p) \/ Again(p) \/ Admit(p)
        => UNCHANGED workspace /\ pc'[p] \notin Moving \cup {"write", "unlock"}
    BY DEF NoPeer, ReadLegacy, Classify, Again, Admit, Goto, TypeOK, Inv, Moving
  <2>3. Locked(p) \/ Refuse(p) => UNCHANGED workspace /\ pc'[p] \notin Moving \cup {"write", "unlock"}
    BY DEF Locked, Refuse, End, Goto, TypeOK, Inv, Moving
  <2> QED
    BY <2>1, <2>2, <2>3 DEF Admission
<1>2. CASE q = p
  BY <1>1, <1>2, Outside
<1>3. CASE q # p
  <2>1. Same(q)
    BY <1>3, OnlyAdmission DEF Inv
  <2> QED
    BY <1>1, <2>1, Quiet
<1> QED
  BY <1>1, <1>2, <1>3

\* A command resolves the canonical folder only after a migration ended.
LEMMA ResolveJobs ==
  ASSUME Inv, NEW p \in Procs, NEW q \in Procs, Resolve(p)
  PROVE  Job(q)' /\ EarnedBy(q)' /\ UNCHANGED workspace
<1>1. UNCHANGED workspace
  BY DEF Resolve
<1>2. CASE q # p
  <2>1. Same(q)
    BY <1>2, OnlyWriter DEF Inv
  <2> QED
    BY <1>1, <2>1, Quiet
<1>3. CASE q = p
  <2>1. pc'[p] = "write" /\ op' = op /\ op[p] \in Writes \cup Stores
    BY OpKinds DEF Resolve, Goto, TypeOK, Inv
  <2>2. Job(q)'
    BY <1>3, <2>1 DEF Job, OpKnown, Answered, PlanStands, Copied, Carried, Ready, Restorable, Moving
  <2>3. EarnedBy(q)'
    <3> SUFFICES ASSUME op[p].kind = "write", dir'[p] = "canonical" PROVE backup # NoFolder
      BY <1>1, <1>3, <2>1 DEF EarnedBy, workspace
    <3>1. Selected = "canonical" /\ ~InConflict
      BY DEF Resolve, TypeOK, Inv
    <3>2. ~Live(legacy)
      BY <3>1 DEF Selected, InConflict
    <3> QED
      BY <3>2 DEF Inv, LegacyLives
  <2> QED
    BY <1>1, <2>2, <2>3
<1> QED
  BY <1>1, <1>2, <1>3

\* A written file changes what a migration holds only where `late` says so.
LEMMA WriteJob ==
  ASSUME Inv, NEW p \in Procs, NEW q \in Procs \ {p}, Write(p)
  PROVE  Job(q)' /\ EarnedBy(q)'
<1> DEFINE f == op[p].file  t == op[p].text
<1>1. f \in Files /\ t \in Texts /\ t # Missing
  BY OpFields, FilesAssumption DEF Write, Inv, Job, OpKnown
<1>2. Same(q) /\ backup' = backup /\ gitignore' = gitignore
  BY OnlyWriter DEF Inv, Write
<1>3. Job(q) /\ EarnedBy(q)
  BY DEF Inv
<1>4. OpKnown(q)' /\ Answered(q)' /\ Ready(q)' /\ EarnedBy(q)'
  BY <1>2, <1>3 DEF Job, OpKnown, Answered, Ready, EarnedBy, Same
<1>5. CASE dir[p] = "legacy"
  <2>1. canonical' = canonical /\ legacy' = Put(legacy, f, t) /\ late \subseteq late'
    BY <1>5 DEF Write
  <2>2. legacy' \in Folder
    BY <1>1, <2>1, PutLegacy DEF Inv, TypeOK
  <2>3. legacy' # NoFolder
    BY <2>2, FolderBodies, FolderIsThere
  <2>4. PlanStands(q)'
    BY <1>2, <1>3, <2>1, <2>3 DEF Job, PlanStands, Same
  <2>5. Copied(q)'
    BY <1>2, <1>3, <2>1 DEF Job, Copied, Same
  <2>6. Carried(q)'
    <3> SUFFICES ASSUME pc[q] \in {"rewrite", "rename"} PROVE Carried(q)'
      BY <1>2 DEF Same, Carried
    <3>1. late' = late \cup {f}
      BY <1>5 DEF Write
    <3>2. legacy # NoFolder
      BY <1>3 DEF Job, PlanStands, Moving
    <3>3. \A g \in Files : g # f => legacy'[g] = legacy[g]
      BY <2>1, <3>2 DEF Put, BodyOf
    <3>4. \A g \in Files \ late' : legacy'[g] = plan'[q].source[g]
      BY <1>2, <1>3, <3>1, <3>3 DEF Job, Carried, Same
    <3> QED
      BY <1>2, <1>3, <2>1, <3>1, <3>4 DEF Job, Carried, Same
  <2>7. Restorable(q)'
    BY <1>2, <1>3, <2>1 DEF Job, Restorable, Same
  <2> QED
    BY <1>4, <2>4, <2>5, <2>6, <2>7 DEF Job
<1>6. CASE dir[p] = "canonical"
  <2>1. legacy' = legacy /\ canonical' = Put(canonical, f, t)
    BY <1>6 DEF Write
  <2>2. canonical' # NoFolder /\ canonical'[f] = t
        /\ \A g \in Files : g # f => canonical'[g] = BodyOf(canonical, g)
    BY <1>1, <2>1, PutOne, TypeDisk DEF Inv, DiskOK, Bodies, Content
  <2>3. CASE pc[q] \notin Moving
    <3>1. pc'[q] \notin Moving
      BY <1>2, <2>3 DEF Same
    <3> QED
      BY <1>4, <3>1 DEF Job, PlanStands, Copied, Carried, Restorable, Moving
  <2>4. CASE pc[q] \in Moving
    <3>1. late' = late \cup {f}
      BY <1>6, <2>4 DEF Write, Moving, Working
    <3>2. canonical # NoFolder
      BY <1>3, <2>4 DEF Job, PlanStands
    <3>3. \A g \in Files : g # f => canonical'[g] = canonical[g]
      BY <2>2, <3>2 DEF BodyOf
    <3>4. FilesOf(plan[q].source) \subseteq Files
      BY DEF FilesOf
    <3>5. PlanStands(q)'
      BY <1>2, <1>3, <2>1, <2>2 DEF Job, PlanStands, Same
    <3>6. Copied(q)'
      BY <1>1, <1>2, <1>3, <2>2, <3>1, <3>3, <3>4 DEF Job, Copied, Same
    <3>7. Carried(q)'
      BY <1>1, <1>2, <1>3, <2>1, <2>2, <3>1, <3>3, <3>4 DEF Job, Carried, Same
    <3>8. Restorable(q)'
      BY <1>2, <1>3, <3>1, <3>3 DEF Job, Restorable, Same
    <3> QED
      BY <1>4, <3>5, <3>6, <3>7, <3>8 DEF Job
  <2> QED
    BY <2>3, <2>4
<1> QED
  BY <1>5, <1>6 DEF Inv, TypeOK

LEMMA WriterJobs ==
  ASSUME Inv, NEW p \in Procs, NEW q \in Procs, ResolveFails(p) \/ Write(p)
  PROVE  Job(q)' /\ EarnedBy(q)'
<1>1. PICK result \in Ended : End(p, result)
  BY DEF ResolveFails, Write, Ended
<1>2. CASE q = p
  BY <1>1, <1>2, EndJob DEF Inv
<1>3. CASE q # p /\ ResolveFails(p)
  <2>1. Same(q) /\ UNCHANGED workspace
    BY <1>3, OnlyWriter DEF Inv, ResolveFails
  <2> QED
    BY <2>1, Quiet
<1>4. CASE q # p /\ Write(p)
  BY <1>4, WriteJob
<1> QED
  BY <1>2, <1>3, <1>4

\* The plan finds both folders as they are.
LEMMA PlanJob ==
  ASSUME Inv, NEW p \in Procs, Plan(p)
  PROVE  Job(p)'
<1> DEFINE found == [f \in Files |-> BodyOf(canonical, f)]
           x == [source |-> legacy, found |-> found, existed |-> canonical # NoFolder, ignore |-> gitignore]
<1>1. /\ pc'[p] = "copy" /\ plan'[p] = x /\ todo'[p] = FilesOf(legacy)
      /\ canonical' = found /\ legacy' = legacy /\ backup' = backup /\ late' = {}
  BY DEF Plan, Goto, Inv, TypeOK
<1>2. legacy # NoFolder /\ backup = NoFolder
  BY DEF Plan, Blocked
<1>3. found \in [Files -> Bodies]
  BY TypeDisk DEF Inv, DiskOK, BodyOf, Bodies, Content
<1>4. canonical' # NoFolder
  BY <1>1, <1>3, FolderIsThere
<1>5. plan'[p].source = legacy /\ plan'[p].found = found /\ plan'[p].existed = (canonical # NoFolder)
  BY <1>1
<1> HIDE DEF x
<1>6. PlanStands(p)'
  BY <1>1, <1>2, <1>3, <1>4, <1>5 DEF PlanStands, Inv, TypeOK
<1>7. Copied(p)' /\ Carried(p)' /\ Ready(p)' /\ OpKnown(p)' /\ Answered(p)'
  BY <1>1, <1>5 DEF Copied, Carried, Ready, OpKnown, Answered
<1>8. Restorable(p)'
  <2>1. ~plan'[p].existed => \A f \in Files : plan'[p].found[f] = Missing
    BY <1>5 DEF BodyOf
  <2>2. \A f \in Files : canonical'[f] = plan'[p].found[f]
    BY <1>1, <1>5
  <2>3. \A f \in FilesOf(plan'[p].source) : f \in todo'[p]
    BY <1>1, <1>5
  <2> QED
    BY <1>1, <2>1, <2>2, <2>3 DEF Restorable
<1> QED
  BY <1>6, <1>7, <1>8 DEF Job

\* A step of the migration that changes no file of `.leerness` or `.harness`.
LEMMA QuietJobs ==
  ASSUME Inv, NEW p \in Procs,
         Look(p) \/ FindsCanonical(p) \/ TakeLock(p) \/ Declines(p) \/ Recheck(p) \/ Wreck(p) \/ Unlock(p)
         \/ \E f \in Files : Changed(p, f) \/ Skip(p, f) \/ Take(p, f)
  PROVE  Job(p)' /\ EarnedBy(p)' /\ UNCHANGED workspace
<1>1. Job(p) /\ TypeOK
  BY DEF Inv
<1>2. CASE Look(p) \/ TakeLock(p)
  <2>1. UNCHANGED workspace /\ pc'[p] \notin Moving \cup {"write", "unlock"}
    BY <1>1, <1>2 DEF Look, TakeLock, Goto, TypeOK, Moving
  <2> QED
    BY <2>1, Outside
<1>3. CASE FindsCanonical(p)
  <2>1. Converged \in Ended
    BY DEF Converged, Ended
  <2> QED
    BY <1>1, <1>3, <2>1, EndJob DEF FindsCanonical
<1>4. CASE Unlock(p)
  <2>1. answer[p] \in Ended
    BY <1>1, <1>4 DEF Unlock, Job, Answered, TypeOK, Ended
  <2> QED
    BY <1>1, <1>4, <2>1, EndJob DEF Unlock
<1>5. CASE Declines(p) \/ Wreck(p)
  <2>1. UNCHANGED workspace /\ pc'[p] = "unlock" /\ answer'[p] # "none"
    BY <1>1, <1>5 DEF Declines, Wreck, Converged, Goto, Report, TypeOK
  <2> QED
    BY <2>1 DEF Job, EarnedBy, OpKnown, Answered, PlanStands, Copied, Carried, Ready, Restorable, Moving
<1>6. ASSUME NEW f \in Files, Changed(p, f) PROVE Job(p)' /\ EarnedBy(p)' /\ UNCHANGED workspace
  <2>1. pc[p] = "copy" /\ pc'[p] = "rollback" /\ UNCHANGED <<workspace, plan, todo, touched>>
    BY <1>1, <1>6 DEF Changed, Goto, TypeOK, migration
  <2>2. PlanStands(p)' /\ Restorable(p)'
    BY <1>1, <2>1 DEF Job, PlanStands, Restorable, Moving, workspace
  <2> QED
    BY <2>1, <2>2 DEF Job, EarnedBy, OpKnown, Answered, Copied, Carried, Ready
<1>7. ASSUME NEW f \in Files, Skip(p, f) PROVE Job(p)' /\ EarnedBy(p)' /\ UNCHANGED workspace
  <2>1. pc[p] = "copy" /\ pc'[p] = "copy" /\ UNCHANGED <<workspace, plan, touched>>
        /\ todo'[p] = todo[p] \ {f} /\ f \in todo[p]
    BY <1>1, <1>7 DEF Skip, TypeOK
  <2>2. PlanStands(p) /\ Copied(p) /\ Restorable(p)
    BY <1>1 DEF Job
  <2>3. canonical[f] = plan[p].found[f] /\ canonical[f] = plan[p].source[f] /\ f \in FilesOf(plan[p].source)
    BY <1>7, <2>1, <2>2 DEF Skip, AsFound, BodyOf, PlanStands, Moving
  <2>4. canonical[f] # Missing
    BY <2>3 DEF FilesOf
  <2>5. PlanStands(p)'
    BY <2>1, <2>2 DEF PlanStands, Moving, workspace
  <2>6. Copied(p)'
    BY <2>1, <2>2, <2>3, <2>4 DEF Copied, workspace
  <2>7. Restorable(p)'
    BY <2>1, <2>2, <2>3 DEF Restorable, Moving, workspace
  <2> QED
    BY <2>1, <2>5, <2>6, <2>7 DEF Job, EarnedBy, OpKnown, Answered, Carried, Ready
<1>8. ASSUME NEW f \in Files, Take(p, f) PROVE Job(p)' /\ EarnedBy(p)' /\ UNCHANGED workspace
  <2>1. pc[p] = "copy" /\ pc'[p] = "copying" /\ UNCHANGED <<workspace, plan, todo>>
        /\ touched'[p] = touched[p] \cup {f}
    BY <1>1, <1>8 DEF Take, Goto, TypeOK, workspace
  <2>2. PlanStands(p) /\ Copied(p) /\ Restorable(p)
    BY <1>1 DEF Job
  <2>3. PlanStands(p)' /\ Copied(p)'
    BY <2>1, <2>2 DEF PlanStands, Copied, Moving, workspace
  <2>4. Restorable(p)'
    BY <2>1, <2>2 DEF Restorable, Moving, workspace
  <2> QED
    BY <2>1, <2>3, <2>4 DEF Job, EarnedBy, OpKnown, Answered, Carried, Ready
<1>9. CASE Recheck(p)
  <2>1. pc[p] = "copy" /\ todo[p] = {} /\ UNCHANGED <<workspace, plan, touched>>
    BY <1>9 DEF Recheck
  <2>2. PlanStands(p) /\ Copied(p) /\ Restorable(p)
    BY <1>1 DEF Job
  <2>3. CASE SourceUnchanged(p)
    <3>1. pc'[p] = "rewrite" /\ todo'[p] = FilesOf(plan[p].source) /\ legacy = plan[p].source
      BY <1>1, <1>9, <2>3 DEF Recheck, SourceUnchanged, Goto, TypeOK
    <3>2. PlanStands(p)'
      BY <2>1, <2>2, <3>1 DEF PlanStands, Moving, workspace
    <3>3. Carried(p)'
      BY <2>1, <2>2, <3>1 DEF Carried, Copied, workspace
    <3>4. Restorable(p)'
      BY <2>1, <2>2, <3>1 DEF Restorable, Moving, workspace
    <3> QED
      BY <2>1, <3>1, <3>2, <3>3, <3>4 DEF Job, EarnedBy, OpKnown, Answered, Copied, Ready
  <2>4. CASE ~SourceUnchanged(p)
    <3>1. pc'[p] = "rollback" /\ todo' = todo
      BY <1>1, <1>9, <2>4 DEF Recheck, Goto, TypeOK
    <3>2. PlanStands(p)' /\ Restorable(p)'
      BY <2>1, <2>2, <3>1 DEF PlanStands, Restorable, Moving, workspace
    <3> QED
      BY <2>1, <3>1, <3>2 DEF Job, EarnedBy, OpKnown, Answered, Copied, Carried, Ready
  <2> QED
    BY <2>3, <2>4
<1> QED
  BY <1>2, <1>3, <1>4, <1>5, <1>6, <1>7, <1>8, <1>9

\* A copy that fails, completely or after some bytes, is undone like one that succeeded.
LEMMA FailJob ==
  ASSUME Inv, NEW p \in Procs, Fail(p)
  PROVE  Job(p)'
<1>1. Job(p) /\ TypeOK
  BY DEF Inv
<1>2. pc[p] \in Moving \ {"rollback"} /\ pc'[p] = "rollback"
      /\ UNCHANGED <<legacy, backup, gitignore, late, plan, todo, touched>>
  BY <1>1 DEF Fail, Goto, TypeOK, Moving, migration
<1>3. PlanStands(p) /\ Restorable(p)
  BY <1>1 DEF Job
<1>4. canonical' # NoFolder /\ \A g \in Files : g \notin touched[p] => canonical'[g] = canonical[g]
  <2>1. CASE UNCHANGED canonical
    BY <1>2, <1>3, <2>1 DEF PlanStands
  <2>2. ASSUME NEW f \in todo[p] \cap touched[p], canonical' = Put(canonical, f, Torn)
        PROVE canonical' # NoFolder /\ \A g \in Files : g \notin touched[p] => canonical'[g] = canonical[g]
    <3>1. f \in Files /\ canonical # NoFolder
      BY <1>1, <1>2, <1>3 DEF TypeOK, PlanStands
    <3> QED
      BY <2>2, <3>1, PutOne, TypeDisk DEF Inv, DiskOK, Bodies, BodyOf
  <2> QED
    BY <2>1, <2>2 DEF Fail
<1>5. PlanStands(p)'
  BY <1>2, <1>3, <1>4 DEF PlanStands, Moving
<1>6. Restorable(p)'
  BY <1>2, <1>3, <1>4 DEF Restorable, Moving
<1> QED
  BY <1>2, <1>5, <1>6 DEF Job, OpKnown, Answered, Copied, Carried, Ready

LEMMA CopyJob ==
  ASSUME Inv, NEW p \in Procs, NEW f \in Files, Copy(p, f)
  PROVE  Job(p)'
<1>1. Job(p) /\ TypeOK
  BY DEF Inv
<1>2. pc[p] = "copying" /\ UNCHANGED <<legacy, backup, gitignore, late, plan, touched>>
      /\ f \in todo[p] /\ f \in touched[p]
  BY DEF Copy
<1>3. PlanStands(p) /\ Copied(p) /\ Restorable(p)
  BY <1>1 DEF Job
<1>4. canonical # NoFolder /\ legacy # NoFolder /\ f \in FilesOf(plan[p].source)
  BY <1>2, <1>3 DEF PlanStands, Moving
<1>5. legacy[f] \in Bodies
  BY <1>1, <1>4 DEF TypeOK, Folder, Bodies
<1>6. canonical' # NoFolder /\ canonical'[f] = legacy[f]
      /\ \A g \in Files : g # f => canonical'[g] = canonical[g]
  BY <1>4, <1>5, PutOne, TypeDisk DEF Copy, Inv, DiskOK, BodyOf
<1>7. CASE legacy[f] = plan[p].source[f]
  <2>1. pc'[p] = "copy" /\ todo'[p] = todo[p] \ {f}
    BY <1>1, <1>7 DEF Copy, Goto, TypeOK
  <2>2. plan[p].source[f] # Missing
    BY <1>4 DEF FilesOf
  <2>3. PlanStands(p)'
    BY <1>2, <1>3, <1>6, <2>1 DEF PlanStands, Moving
  <2>4. Copied(p)'
    <3> SUFFICES ASSUME NEW g \in FilesOf(plan[p].source) \ todo'[p]
                 PROVE  canonical'[g] # Missing /\ (g \notin late => canonical'[g] = plan[p].source[g])
      BY <1>2 DEF Copied
    <3>1. g \in Files
      BY DEF FilesOf
    <3> QED
      BY <1>2, <1>3, <1>6, <1>7, <2>1, <2>2, <3>1 DEF Copied
  <2>5. Restorable(p)'
    BY <1>2, <1>3, <1>6, <2>1 DEF Restorable, Moving
  <2> QED
    BY <2>1, <2>3, <2>4, <2>5 DEF Job, OpKnown, Answered, Carried, Ready
<1>8. CASE legacy[f] # plan[p].source[f]
  <2>1. pc'[p] = "rollback" /\ todo' = todo
    BY <1>1, <1>8 DEF Copy, Goto, TypeOK
  <2>2. PlanStands(p)'
    BY <1>2, <1>3, <1>6, <2>1 DEF PlanStands, Moving
  <2>3. Restorable(p)'
    BY <1>2, <1>3, <1>6, <2>1 DEF Restorable, Moving
  <2> QED
    BY <2>1, <2>2, <2>3 DEF Job, OpKnown, Answered, Copied, Carried, Ready
<1> QED
  BY <1>7, <1>8

LEMMA RewriteJob ==
  ASSUME Inv, NEW p \in Procs, NEW f \in Files, Rewrite(p, f)
  PROVE  Job(p)'
<1>1. Job(p) /\ TypeOK
  BY DEF Inv
<1>2. pc[p] = "rewrite" /\ pc'[p] = "rewrite" /\ f \in todo[p] /\ todo'[p] = todo[p] \ {f}
      /\ UNCHANGED <<legacy, backup, gitignore, late, plan, touched>>
  BY <1>1 DEF Rewrite, TypeOK
<1>3. PlanStands(p) /\ Carried(p) /\ Restorable(p)
  BY <1>1 DEF Job
<1>4. canonical # NoFolder /\ f \in FilesOf(plan[p].source) /\ canonical[f] # Missing
  BY <1>2, <1>3 DEF PlanStands, Carried, Moving
<1>5. canonical[f] \in Texts \cup {Torn}
  BY <1>1, <1>4 DEF TypeOK, Content
<1>6. Rewritten[canonical[f]] \in Bodies /\ Rewritten[canonical[f]] # Missing
  BY <1>5, FilesAssumption DEF Bodies, Content
<1>7. canonical' # NoFolder /\ canonical'[f] = Rewritten[canonical[f]]
      /\ \A g \in Files : g # f => canonical'[g] = canonical[g]
  BY <1>4, <1>6, PutOne, TypeDisk DEF Rewrite, Inv, DiskOK, BodyOf
<1>8. PlanStands(p)'
  BY <1>2, <1>3, <1>7 DEF PlanStands, Moving
<1>9. Carried(p)'
  <2>1. \A g \in Files \ late' : legacy'[g] = plan'[p].source[g]
    BY <1>2, <1>3 DEF Carried
  <2>2. ASSUME NEW g \in FilesOf(plan'[p].source)
        PROVE  /\ canonical'[g] # Missing
               /\ g \in todo'[p] \ late' => canonical'[g] = plan'[p].source[g]
               /\ g \notin todo'[p] \cup late' => canonical'[g] = Rewritten[plan'[p].source[g]]
    <3>1. g \in Files /\ g \in FilesOf(plan[p].source)
      BY <1>2, <2>2 DEF FilesOf
    <3>2. CASE g = f
      BY <1>2, <1>3, <1>6, <1>7, <3>1, <3>2 DEF Carried
    <3>3. CASE g # f
      BY <1>2, <1>3, <1>7, <3>1, <3>3 DEF Carried
    <3> QED
      BY <3>2, <3>3
  <2> QED
    BY <2>1, <2>2 DEF Carried
<1>10. Restorable(p)'
  <2>1. plan[p].source[f] # plan[p].found[f] => f \in touched[p]
    BY <1>2, <1>3, <1>4 DEF Restorable, Moving
  <2> QED
    BY <1>2, <1>3, <1>7, <2>1 DEF Restorable, Moving
<1> QED
  BY <1>2, <1>8, <1>9, <1>10 DEF Job, OpKnown, Answered, Copied, Ready

LEMMA ProtectJob ==
  ASSUME Inv, NEW p \in Procs, Protect(p)
  PROVE  Job(p)'
<1>1. Job(p) /\ TypeOK
  BY DEF Inv
<1>2. pc[p] = "rewrite" /\ todo[p] = {}
      /\ UNCHANGED <<legacy, canonical, backup, late, plan, todo, touched>>
  BY DEF Protect, migration
<1>3. PlanStands(p) /\ Carried(p) /\ Restorable(p)
  BY <1>1 DEF Job
<1>4. pc'[p] = "rollback" \/ (pc'[p] = "rename" /\ gitignore' = "protected")
  BY <1>1 DEF Protect, Protection, Goto, TypeOK
<1>5. PlanStands(p)'
  BY <1>2, <1>3, <1>4 DEF PlanStands, Moving
<1>6. Carried(p)' /\ Ready(p)'
  BY <1>2, <1>3, <1>4 DEF Carried, Ready
<1>7. Restorable(p)'
  BY <1>2, <1>3, <1>4 DEF Restorable, Moving
<1> QED
  BY <1>4, <1>5, <1>6, <1>7 DEF Job, OpKnown, Answered, Copied

LEMMA RestoreJob ==
  ASSUME Inv, NEW p \in Procs, NEW f \in Files, Restore(p, f)
  PROVE  Job(p)'
<1>1. Job(p) /\ TypeOK
  BY DEF Inv
<1>2. pc[p] = "rollback" /\ pc'[p] = "rollback" /\ touched'[p] = touched[p] \ {f}
      /\ UNCHANGED <<legacy, backup, gitignore, late, plan, todo>>
  BY <1>1 DEF Restore, TypeOK
<1>3. PlanStands(p) /\ Restorable(p)
  BY <1>1 DEF Job
<1>4. canonical # NoFolder /\ plan[p].found[f] \in Bodies
  BY <1>2, <1>3 DEF PlanStands, Moving
<1>5. canonical' # NoFolder /\ canonical'[f] = plan[p].found[f]
      /\ \A g \in Files : g # f => canonical'[g] = canonical[g]
  BY <1>4, PutOne, TypeDisk DEF Restore, Undone, Inv, DiskOK, BodyOf
<1>6. PlanStands(p)'
  BY <1>2, <1>3, <1>5 DEF PlanStands, Moving
<1>7. Restorable(p)'
  BY <1>2, <1>3, <1>5 DEF Restorable, Moving
<1> QED
  BY <1>2, <1>6, <1>7 DEF Job, OpKnown, Answered, Copied, Carried, Ready

\* The migration of the command that moves it leaves every promise in place.
LEMMA MigrationJobs ==
  ASSUME Inv, NEW p \in Procs, NEW q \in Procs, Migration(p)
  PROVE  Job(q)' /\ EarnedBy(q)'
<1> DEFINE Quietly == Look(p) \/ FindsCanonical(p) \/ TakeLock(p) \/ Declines(p) \/ Recheck(p) \/ Wreck(p) \/ Unlock(p)
                      \/ \E f \in Files : Changed(p, f) \/ Skip(p, f) \/ Take(p, f)
           Moves == Plan(p) \/ Protect(p) \/ Rename(p) \/ Fail(p) \/ RolledBack(p)
                    \/ \E f \in Files : Copy(p, f) \/ Rewrite(p, f) \/ Restore(p, f)
<1>1. Quietly \/ Moves
  BY DEF Migration
<1>2. q # p => Same(q)
  BY OnlyMigration DEF Inv
<1>3. CASE Quietly
  <2>1. Job(p)' /\ EarnedBy(p)' /\ UNCHANGED workspace
    BY <1>3, QuietJobs
  <2> QED
    BY <1>2, <2>1, Quiet
<1>4. CASE Moves
  <2>1. pc[p] \in Working
    <3>1. Plan(p) \/ Protect(p) \/ Rename(p) \/ Fail(p) \/ RolledBack(p) => pc[p] \in Working
      BY DEF Plan, Protect, Rename, Fail, RolledBack, Working
    <3>2. ASSUME NEW f \in Files, Copy(p, f) \/ Rewrite(p, f) \/ Restore(p, f) PROVE pc[p] \in Working
      BY <3>2 DEF Copy, Rewrite, Restore, Working
    <3> QED
      BY <1>4, <3>1, <3>2
  <2>2. backup # NoFolder => backup' # NoFolder
    <3>1. Plan(p) \/ Protect(p) \/ Fail(p) \/ RolledBack(p) => backup' = backup
      BY DEF Plan, Protect, Fail, RolledBack
    <3>2. ASSUME NEW f \in Files, Copy(p, f) \/ Rewrite(p, f) \/ Restore(p, f) PROVE backup' = backup
      BY <3>2 DEF Copy, Rewrite, Restore
    <3>3. Rename(p) => backup = NoFolder
      BY DEF Rename, Inv, Job, PlanStands, Moving
    <3> QED
      BY <1>4, <3>1, <3>2, <3>3
  <2>3. q # p => Job(q)' /\ EarnedBy(q)'
    BY <1>2, <2>1, <2>2, Bystander
  <2>4. Job(p)'
    <3>1. Plan(p) \/ Protect(p) \/ Fail(p) => Job(p)'
      BY PlanJob, ProtectJob, FailJob
    <3>2. ASSUME NEW f \in Files, Copy(p, f) \/ Rewrite(p, f) \/ Restore(p, f) PROVE Job(p)'
      BY <3>2, CopyJob, RewriteJob, RestoreJob
    <3>3. CASE Rename(p) \/ RolledBack(p)
      <4>1. pc'[p] = "unlock" /\ answer'[p] # "none"
        BY <3>3 DEF Rename, RolledBack, Goto, Report, Inv, TypeOK
      <4> QED
        BY <4>1 DEF Job, OpKnown, Answered, PlanStands, Copied, Carried, Ready, Restorable, Moving
    <3> QED
      BY <1>4, <3>1, <3>2, <3>3
  <2>5. EarnedBy(p)'
    <3>1. Plan(p) \/ Protect(p) \/ Rename(p) \/ Fail(p) \/ RolledBack(p) => pc'[p] # "write"
      BY DEF Plan, Protect, Rename, Fail, RolledBack, Goto, Inv, TypeOK
    <3>2. ASSUME NEW f \in Files, Copy(p, f) \/ Rewrite(p, f) \/ Restore(p, f) PROVE pc'[p] # "write"
      BY <3>2 DEF Copy, Rewrite, Restore, Goto, Inv, TypeOK
    <3> QED
      BY <1>4, <3>1, <3>2 DEF EarnedBy
  <2> QED
    BY <2>3, <2>4, <2>5
<1> QED
  BY <1>1, <1>3, <1>4

LEMMA CrashJobs ==
  ASSUME Inv, NEW p \in Procs, NEW q \in Procs, Crash(p)
  PROVE  Job(q)' /\ EarnedBy(q)'
<1>1. CASE q = p
  BY <1>1, EndJob DEF Crash, Ended, Inv
<1>2. CASE q # p
  <2>1. Same(q) /\ pc[p] \in Working /\ backup' = backup
    BY <1>2, OnlyWriter DEF Crash, Inv
  <2> QED
    BY <1>2, <2>1, Bystander
<1> QED
  BY <1>1, <1>2

LEMMA NextJobs ==
  ASSUME Inv, [Next]_vars, NEW q \in Procs
  PROVE  Job(q)' /\ EarnedBy(q)'
<1>1. CASE UNCHANGED vars
  <2>1. Same(q) /\ UNCHANGED workspace
    BY <1>1 DEF vars, Same, workspace
  <2> QED
    BY <2>1, Quiet
<1>2. CASE ClearLock
  <2>1. Same(q) /\ UNCHANGED workspace
    BY <1>2 DEF ClearLock, Same, workspace, migration
  <2> QED
    BY <2>1, Quiet
<1> QED
  BY <1>1, <1>2, AdmissionJobs, ResolveJobs, WriterJobs, MigrationJobs, CrashJobs DEF Next

-----------------------------------------------------------------------------
(* The old workspace, the new one and the backup *)

\* What a step may do to the folders as a whole.
Kept ==
  \/ UNCHANGED workspace
  \/ UNCHANGED <<legacy, backup>> /\ backup = NoFolder
LEMMA KeptFolders ==
  ASSUME Inv, Kept
  PROVE  LegacyLives' /\ BackupWhole' /\ BackupIgnored'
<1>1. CASE UNCHANGED workspace
  BY <1>1 DEF Inv, LegacyLives, BackupWhole, BackupIgnored, workspace
<1>2. CASE UNCHANGED <<legacy, backup>> /\ backup = NoFolder
  BY <1>2 DEF Inv, LegacyLives, BackupWhole, BackupIgnored
<1> QED
  BY <1>1, <1>2 DEF Kept

\* Nothing that a command writes makes the old workspace die, or the new one less whole.
LEMMA WriteFolders ==
  ASSUME Inv, NEW p \in Procs, Write(p)
  PROVE  LegacyLives' /\ BackupWhole' /\ BackupIgnored'
<1> DEFINE f == op[p].file  t == op[p].text
<1>1. f \in Files /\ t \in Texts /\ t # Missing /\ t # Torn
  BY OpFields, FilesAssumption DEF Write, Inv, Job, OpKnown
<1>2. backup' = backup /\ gitignore' = gitignore /\ late \subseteq late'
  BY DEF Write
<1>3. BackupIgnored'
  BY <1>2 DEF Inv, BackupIgnored
<1>4. CASE dir[p] = "legacy"
  <2>1. canonical' = canonical /\ legacy' = Put(legacy, f, t)
    BY <1>4 DEF Write
  <2>2. legacy' # NoFolder
    BY <1>1, <2>1, PutLegacy, FolderBodies, FolderIsThere DEF Inv, TypeOK
  <2>3. \A g \in Files : legacy'[g] = IF g = f THEN t ELSE BodyOf(legacy, g)
    BY <2>1 DEF Put
  <2>4. Live(legacy) => Live(legacy')
    <3> SUFFICES ASSUME Live(legacy) PROVE Live(legacy')
      OBVIOUS
    <3>1. PICK m \in Markers : legacy # NoFolder /\ legacy[m] # Missing
      BY DEF Live
    <3>2. legacy'[m] # Missing
      BY <1>1, <2>3, <3>1, FilesAssumption DEF BodyOf
    <3> QED
      BY <2>2, <3>2 DEF Live
  <2>5. LegacyLives'
    BY <1>2, <2>4 DEF Inv, LegacyLives
  <2>6. BackupWhole'
    BY <1>2, <2>1 DEF Inv, BackupWhole
  <2> QED
    BY <1>3, <2>5, <2>6
<1>5. CASE dir[p] = "canonical"
  <2>1. legacy' = legacy /\ canonical' = Put(canonical, f, t)
    BY <1>5 DEF Write
  <2>2. \A g \in Files : BodyOf(canonical', g) = IF g = f THEN t ELSE BodyOf(canonical, g)
    <3>1. canonical' # NoFolder /\ canonical'[f] = t
          /\ \A g \in Files : g # f => canonical'[g] = BodyOf(canonical, g)
      BY <1>1, <2>1, PutOne, TypeDisk DEF Inv, DiskOK, Bodies, Content
    <3> QED
      BY <3>1 DEF BodyOf
  <2>3. FilesOf(backup) \subseteq Files
    BY DEF FilesOf
  <2>4. BackupWhole'
    BY <1>1, <1>2, <2>2, <2>3 DEF Inv, BackupWhole
  <2>5. LegacyLives'
    BY <1>2, <2>1 DEF Inv, LegacyLives
  <2> QED
    BY <1>3, <2>4, <2>5
<1> QED
  BY <1>4, <1>5 DEF Inv, TypeOK

\* The rename finds `.leerness` whole.
LEMMA RenameFinds ==
  ASSUME Inv, NEW p \in Procs, Rename(p)
  PROVE  \A f \in FilesOf(legacy) \ late :
           BodyOf(canonical, f) = Rewritten[legacy[f]] /\ legacy[f] \in Texts
<1> SUFFICES ASSUME NEW f \in FilesOf(legacy) \ late
             PROVE  BodyOf(canonical, f) = Rewritten[legacy[f]] /\ legacy[f] \in Texts
  OBVIOUS
<1>1. PlanStands(p) /\ Carried(p) /\ Ready(p) /\ pc[p] = "rename"
  BY DEF Inv, Job, Rename
<1>2. legacy # NoFolder /\ canonical # NoFolder /\ plan[p].source \in Folder
  BY <1>1 DEF PlanStands, Moving
<1>3. f \in Files /\ legacy[f] # Missing /\ legacy[f] = plan[p].source[f]
  BY <1>1, <1>2 DEF FilesOf, Carried
<1>4. plan[p].source # NoFolder
  BY <1>2, FolderBodies, FolderIsThere
<1>5. f \in FilesOf(plan[p].source)
  BY <1>3, <1>4 DEF FilesOf
<1>6. canonical[f] = Rewritten[plan[p].source[f]]
  BY <1>1, <1>5 DEF Carried, Ready
<1>7. legacy[f] \in Texts
  BY <1>2, <1>3 DEF Inv, TypeOK, Folder, Content
<1> QED
  BY <1>2, <1>3, <1>6, <1>7 DEF BodyOf

LEMMA RenameFolders ==
  ASSUME Inv, NEW p \in Procs, Rename(p)
  PROVE  LegacyLives' /\ BackupWhole' /\ BackupIgnored'
<1>1. backup' = legacy /\ UNCHANGED <<canonical, gitignore, late>> /\ pc[p] = "rename"
  BY DEF Rename
<1>2. legacy # NoFolder /\ gitignore = "protected"
  BY <1>1 DEF Inv, Job, PlanStands, Ready, Moving
<1>3. \A f \in FilesOf(legacy) \ late : BodyOf(canonical, f) \notin {Missing, Torn}
  BY RenameFinds, FilesAssumption
<1> QED
  BY <1>1, <1>2, <1>3 DEF LegacyLives, BackupWhole, BackupIgnored

\* Every other step of a migration moves nothing once there is a backup.
LEMMA MigrationKept ==
  ASSUME Inv, NEW p \in Procs, Migration(p) \/ Crash(p), ~Rename(p)
  PROVE  Kept
<1>1. Job(p)
  BY DEF Inv
<1>2. CASE Crash(p)
  <2>1. UNCHANGED <<legacy, backup, gitignore, late>>
    BY <1>2 DEF Crash
  <2>2. UNCHANGED canonical \/ pc[p] = "copying"
    BY <1>2 DEF Crash
  <2> QED
    BY <1>1, <2>1, <2>2 DEF Kept, Job, PlanStands, Moving, workspace
<1>3. Plan(p) \/ Fail(p) \/ Protect(p) \/ RolledBack(p) => Kept
  BY <1>1 DEF Plan, Blocked, Fail, Protect, RolledBack, Kept, Job, PlanStands, Moving
<1>4. ASSUME NEW f \in Files, Copy(p, f) \/ Rewrite(p, f) \/ Restore(p, f) PROVE Kept
  BY <1>1, <1>4 DEF Copy, Rewrite, Restore, Kept, Job, PlanStands, Moving
<1>5. CASE Look(p) \/ FindsCanonical(p) \/ TakeLock(p) \/ Declines(p) \/ Recheck(p) \/ Wreck(p) \/ Unlock(p)
  BY <1>5 DEF Look, FindsCanonical, TakeLock, Declines, Recheck, Wreck, Unlock, Kept
<1>6. ASSUME NEW f \in Files, Changed(p, f) \/ Skip(p, f) \/ Take(p, f) PROVE Kept
  BY <1>6 DEF Changed, Skip, Take, Kept, workspace
<1> QED
  BY <1>2, <1>3, <1>4, <1>5, <1>6 DEF Migration

LEMMA NextFolders == Inv /\ [Next]_vars => LegacyLives' /\ BackupWhole' /\ BackupIgnored'
<1> SUFFICES ASSUME Inv, [Next]_vars PROVE LegacyLives' /\ BackupWhole' /\ BackupIgnored'
  OBVIOUS
<1>1. CASE UNCHANGED vars \/ ClearLock
  BY <1>1, KeptFolders DEF vars, ClearLock, Kept, workspace
<1>2. ASSUME NEW p \in Procs, Admission(p) \/ Resolve(p) \/ ResolveFails(p) \/ Write(p) \/ Migration(p) \/ Crash(p)
      PROVE LegacyLives' /\ BackupWhole' /\ BackupIgnored'
  <2>1. Admission(p) \/ Resolve(p) \/ ResolveFails(p) => UNCHANGED workspace
    BY AdmissionJobs DEF Resolve, ResolveFails
  <2>2. CASE UNCHANGED workspace
    BY <2>2, KeptFolders DEF Kept
  <2>3. CASE Write(p)
    BY <2>3, WriteFolders
  <2>4. CASE Rename(p)
    BY <2>4, RenameFolders
  <2>5. CASE (Migration(p) \/ Crash(p)) /\ ~Rename(p)
    BY <2>5, MigrationKept, KeptFolders
  <2> QED
    BY <1>2, <2>1, <2>2, <2>3, <2>4, <2>5
<1> QED
  BY <1>1, <1>2 DEF Next

-----------------------------------------------------------------------------
(* Refusals: what the evidence of a conflict is, and that no step loses it *)

Settled(q) == pc[q] \in {"failed", "migrated"}
One == \E q \in Procs : Settled(q)
Two == \E q, r \in Procs : q # r /\ Settled(q) /\ Settled(r)
\* A migration died or could not roll back, or somebody wrote at the old path after the rename.
Excused ==
  \/ \E q \in Procs : pc[q] \in {"dead", "wrecked"} \/ answer[q] = "wrecked"
  \/ backup # NoFolder /\ legacy # NoFolder
\* A migration that is going to be settled, or to be an excuse.
Coming == \E q \in Procs : pc[q] \in Moving \/ (pc[q] = "unlock" /\ answer[q] \in {"failed", "migrated"})
\* A second classification needs a second migration.
Enough(p) == IF p \in refreshed THEN Two ELSE One
Explained(p) == Excused \/ Coming \/ Enough(p)

AnswerKnown(p) == answer[p] # "none" => pc[p] = "unlock"
RefreshedOnce(p) == p \in refreshed => Excused \/ One
DeniedReason(p) == pc[p] = "recheck" /\ p \in denied => Explained(p)
\* What it saw of the old folder conflicts with what it is going to see of the new one.
SeenReason(p) ==
  pc[p] = "readCanonical" /\ (seen[p] = "ambiguous" \/ (seen[p] = "live" /\ backup # NoFolder)) => Explained(p)
RefusedReason(p) == pc[p] = "refused" => Excused \/ Two
Sourced(p) ==
  pc[p] \in Moving =>
    /\ Live(plan[p].source)
    /\ Excused \/ \A f \in Files : plan[p].found[f] # Missing => f \in Substrate
\* Before the rename, all that makes `.leerness` look like a workspace is what a migration notes.
Noted(f) == \E q \in Procs : pc[q] \in Moving /\ f \in touched[q]
StraysNoted == Excused \/ (backup = NoFolder => \A f \in FilesOf(canonical) \ Substrate : Noted(f))
NewLives == Excused \/ (backup # NoFolder => Live(canonical))

\* What every command's refusal, and all that leads to one, rests on.
Reasons ==
  /\ StraysNoted /\ NewLives
  /\ \A p \in Procs : AnswerKnown(p) /\ RefreshedOnce(p) /\ DeniedReason(p) /\ SeenReason(p)
                      /\ RefusedReason(p) /\ Sourced(p)

Acts(p) == Admission(p) \/ Resolve(p) \/ ResolveFails(p) \/ Write(p) \/ Migration(p) \/ Crash(p)

LEMMA InitReasons == Init => Reasons
<1> SUFFICES ASSUME Init PROVE Reasons
  OBVIOUS
<1>1. /\ \A p \in Procs : pc[p] = "idle" /\ answer[p] = "none" /\ p \notin refreshed
      /\ backup = NoFolder
  BY DEF Init
<1>2. FilesOf(canonical) \subseteq Substrate
  BY StartsAssumption DEF Init
<1>3. StraysNoted /\ NewLives
  BY <1>1, <1>2 DEF StraysNoted, NewLives
<1> QED
  BY <1>1, <1>3 DEF Reasons, AnswerKnown, RefreshedOnce, DeniedReason, SeenReason, RefusedReason, Sourced, Moving

\* Where a migration's step leads from its places, and that one that has ended takes none.
LEMMA ActsFrom ==
  ASSUME Inv, NEW p \in Procs, Acts(p)
  PROVE  /\ pc[p] \notin Ended
         /\ pc[p] \in Moving => \/ pc'[p] \in Moving
                                \/ pc'[p] = "unlock" /\ answer'[p] \in {"failed", "migrated", "wrecked"}
                                \/ pc'[p] = "dead"
         /\ pc[p] = "unlock" => pc'[p] = answer[p] \/ pc'[p] = "dead"
<1> DEFINE Goal == /\ pc[p] \notin Ended
                   /\ pc[p] \in Moving => \/ pc'[p] \in Moving
                                          \/ pc'[p] = "unlock" /\ answer'[p] \in {"failed", "migrated", "wrecked"}
                                          \/ pc'[p] = "dead"
                   /\ pc[p] = "unlock" => pc'[p] = answer[p] \/ pc'[p] = "dead"
<1>1. CASE Admission(p)
  <2>1. pc[p] \in {"idle", "pending", "readLegacy", "readCanonical", "recheck", "open"}
    BY <1>1 DEF Admission, Begin, NoPeer, Locked, ReadLegacy, Classify, Again, Admit, Refuse
  <2> QED
    BY <2>1 DEF Ended, Moving
<1>2. CASE Resolve(p) \/ ResolveFails(p) \/ Write(p)
  <2>1. pc[p] \in {"admitted", "write"}
    BY <1>2 DEF Resolve, ResolveFails, Write
  <2> QED
    BY <2>1 DEF Ended, Moving
<1>3. CASE Crash(p)
  BY <1>3 DEF Crash, End, Goto, Inv, TypeOK, Working, Ended
<1>4. CASE Migration(p)
  <2>1. Look(p) \/ FindsCanonical(p) \/ TakeLock(p) \/ Declines(p) \/ Plan(p) => Goal
    <3>1. Look(p) \/ FindsCanonical(p) \/ TakeLock(p) \/ Declines(p) \/ Plan(p) => pc[p] \in {"admitted", "open", "inspect"}
      BY DEF Look, FindsCanonical, TakeLock, Declines, Plan
    <3> QED
      BY <3>1 DEF Ended, Moving
  <2>2. ASSUME NEW f \in Files, Changed(p, f) \/ Skip(p, f) \/ Take(p, f) PROVE Goal
    BY <2>2 DEF Changed, Skip, Take, Goto, Inv, TypeOK, Ended, Moving
  <2>3. ASSUME NEW f \in Files, Copy(p, f) \/ Rewrite(p, f) \/ Restore(p, f) PROVE Goal
    BY <2>3 DEF Copy, Rewrite, Restore, Goto, Inv, TypeOK, Ended, Moving
  <2>4. Recheck(p) \/ Protect(p) \/ Fail(p) => Goal
    BY DEF Recheck, Protect, Fail, Goto, Inv, TypeOK, Ended, Moving
  <2>5. Rename(p) \/ RolledBack(p) \/ Wreck(p) => Goal
    BY DEF Rename, RolledBack, Wreck, Goto, Report, Inv, TypeOK, Ended, Moving
  <2>6. Unlock(p) => Goal
    BY DEF Unlock, End, Goto, Inv, TypeOK, Ended, Moving
  <2> QED
    BY <1>4, <2>1, <2>2, <2>3, <2>4, <2>5, <2>6 DEF Migration
<1> QED
  BY <1>1, <1>2, <1>3, <1>4 DEF Acts

LEMMA ActsOthers ==
  ASSUME Inv, NEW p \in Procs, NEW q \in Procs \ {p}, Acts(p)
  PROVE  Same(q)
BY OnlyAdmission, OnlyWriter, OnlyMigration DEF Inv, Acts

\* What a command knows from its admission changes in its own steps only.
SameAdmission(q) ==
  seen'[q] = seen[q] /\ (q \in denied' <=> q \in denied) /\ (q \in refreshed' <=> q \in refreshed)

LEMMA EndAdmission ==
  ASSUME TypeOK, NEW p \in Procs, NEW q \in Procs \ {p}, NEW result, End(p, result)
  PROVE  SameAdmission(q)
BY DEF End, SameAdmission, TypeOK

LEMMA OthersAdmission ==
  ASSUME Inv, NEW p \in Procs, NEW q \in Procs \ {p}, Acts(p)
  PROVE  SameAdmission(q)
<1> USE DEF Inv
<1>1. CASE Admission(p)
  <2>1. ASSUME NEW o \in Commands, Begin(p, o) PROVE SameAdmission(q)
    BY <2>1 DEF Begin, SameAdmission, admission
  <2>2. NoPeer(p) \/ ReadLegacy(p) \/ Classify(p) \/ Again(p) \/ Admit(p) => SameAdmission(q)
    BY DEF NoPeer, ReadLegacy, Classify, Again, Admit, SameAdmission, admission, TypeOK
  <2>3. Locked(p) \/ Refuse(p) => SameAdmission(q)
    BY EndAdmission DEF Locked, Refuse
  <2> QED
    BY <1>1, <2>1, <2>2, <2>3 DEF Admission
<1>2. CASE Resolve(p) \/ ResolveFails(p) \/ Write(p) \/ Crash(p)
  BY <1>2, EndAdmission DEF Resolve, ResolveFails, Write, Crash, SameAdmission, admission
<1>3. CASE Migration(p)
  <2>1. FindsCanonical(p) \/ Unlock(p) => SameAdmission(q)
    BY EndAdmission DEF FindsCanonical, Unlock
  <2>2. Look(p) \/ TakeLock(p) \/ Declines(p) \/ Plan(p) \/ Recheck(p) \/ Protect(p) => SameAdmission(q)
    BY DEF Look, TakeLock, Declines, Plan, Recheck, Protect, SameAdmission, admission
  <2>3. Rename(p) \/ Fail(p) \/ RolledBack(p) \/ Wreck(p) => SameAdmission(q)
    BY DEF Rename, Fail, RolledBack, Wreck, SameAdmission, admission
  <2>4. ASSUME NEW f \in Files, Changed(p, f) \/ Skip(p, f) \/ Take(p, f) \/ Copy(p, f) \/ Rewrite(p, f) \/ Restore(p, f)
        PROVE SameAdmission(q)
    BY <2>4 DEF Changed, Skip, Take, Copy, Rewrite, Restore, SameAdmission, admission
  <2> QED
    BY <1>3, <2>1, <2>2, <2>3, <2>4 DEF Migration
<1> QED
  BY <1>1, <1>2, <1>3 DEF Acts

\* A settled migration stays settled: a command that has ended takes no step.
LEMMA SettledStays ==
  ASSUME Inv, NEW p \in Procs, Acts(p), NEW q \in Procs, Settled(q)
  PROVE  Settled(q)' /\ q # p
<1>1. q # p
  BY ActsFrom DEF Settled, Ended
<1> QED
  BY <1>1, ActsOthers DEF Same, Settled

\* The folders of an excuse stay: only a rename takes the old one away, and it needs no backup.
LEMMA FoldersStay ==
  ASSUME Inv, NEW p \in Procs, Acts(p), backup # NoFolder
  PROVE  backup' = backup /\ (legacy # NoFolder => legacy' # NoFolder) /\ ~Rename(p)
<1>1. ~Rename(p)
  BY DEF Rename, Inv, Job, PlanStands, Moving
<1>2. Admission(p) \/ Resolve(p) \/ ResolveFails(p) => UNCHANGED workspace
  BY AdmissionJobs DEF Resolve, ResolveFails
<1>3. CASE Write(p)
  <2>1. op[p].file \in Files /\ op[p].text \in Texts
    BY <1>3, OpFields DEF Write, Inv, Job, OpKnown
  <2>2. Put(legacy, op[p].file, op[p].text) # NoFolder
    BY <2>1, PutLegacy, FolderBodies, FolderIsThere DEF Inv, TypeOK
  <2> QED
    BY <1>1, <1>3, <2>2 DEF Write
<1>4. (Migration(p) \/ Crash(p)) => Kept
  BY <1>1, MigrationKept
<1> QED
  BY <1>1, <1>2, <1>3, <1>4 DEF Acts, Kept, workspace

LEMMA ExcusedStays ==
  ASSUME Inv, Reasons, NEW p \in Procs, Acts(p), Excused
  PROVE  Excused'
<1>1. CASE backup # NoFolder /\ legacy # NoFolder
  BY <1>1, FoldersStay DEF Excused
<1>2. ASSUME NEW q \in Procs, pc[q] \in {"dead", "wrecked"} PROVE Excused'
  <2>1. q # p
    BY <1>2, ActsFrom DEF Ended
  <2> QED
    BY <1>2, <2>1, ActsOthers DEF Same, Excused
<1>3. ASSUME NEW q \in Procs, answer[q] = "wrecked" PROVE Excused'
  <2>1. pc[q] = "unlock"
    BY <1>3 DEF Reasons, AnswerKnown
  <2>2. CASE q = p
    BY <1>3, <2>1, <2>2, ActsFrom DEF Excused
  <2>3. CASE q # p
    BY <1>3, <2>3, ActsOthers DEF Same, Excused
  <2> QED
    BY <2>2, <2>3
<1> QED
  BY <1>1, <1>2, <1>3 DEF Excused

\* A migration under way goes on, becomes an excuse, or is settled in this step.
LEMMA ComingStays ==
  ASSUME Inv, NEW p \in Procs, Acts(p), Coming
  PROVE  Coming' \/ Excused' \/ Settled(p)'
<1>1. PICK q \in Procs : pc[q] \in Moving \/ (pc[q] = "unlock" /\ answer[q] \in {"failed", "migrated"})
  BY DEF Coming
<1>2. CASE q = p
  BY <1>1, <1>2, ActsFrom DEF Coming, Excused, Settled
<1>3. CASE q # p
  BY <1>1, <1>3, ActsOthers DEF Same, Coming
<1> QED
  BY <1>2, <1>3

\* What explains a conflict to a command goes on to explain it.
LEMMA ExplainedStays ==
  ASSUME Inv, Reasons, NEW p \in Procs, NEW q \in Procs \ {p}, Acts(p), Explained(q)
  PROVE  Explained(q)'
<1>1. q \in refreshed' <=> q \in refreshed
  BY OthersAdmission DEF SameAdmission
<1>2. CASE Excused
  BY <1>2, ExcusedStays DEF Explained
<1>3. CASE Enough(q)
  <2>1. Two => Two'
    BY SettledStays DEF Two
  <2>2. One => One'
    BY SettledStays DEF One
  <2> QED
    BY <1>1, <1>3, <2>1, <2>2 DEF Enough, Explained
<1>4. CASE Coming /\ Settled(p)'
  <2>1. q \in refreshed => Excused \/ One
    BY DEF Reasons, RefreshedOnce
  <2>2. One => Two'
    BY <1>4, SettledStays DEF One, Two
  <2>3. One'
    BY <1>4 DEF One
  <2>4. Excused => Excused'
    BY ExcusedStays
  <2> QED
    BY <1>1, <2>1, <2>2, <2>3, <2>4 DEF Enough, Explained
<1>5. CASE Coming /\ ~Settled(p)'
  BY <1>5, ComingStays DEF Explained
<1> QED
  BY <1>2, <1>3, <1>4, <1>5 DEF Explained

\* The answer is known between the outcome of a migration and the removal of its lock.
LEMMA ActsAnswer ==
  ASSUME Inv, NEW p \in Procs, Acts(p), AnswerKnown(p)
  PROVE  AnswerKnown(p)'
<1> USE DEF Inv, TypeOK
<1> DEFINE Quits == \E result \in Ended : End(p, result)
           Tells == pc'[p] = "unlock"
           Silent == answer' = answer /\ pc[p] # "unlock"
<1>1. Quits => AnswerKnown(p)'
  BY DEF End, Report, AnswerKnown
<1>2. Tells \/ Silent => AnswerKnown(p)'
  BY DEF AnswerKnown
<1>3. CASE Admission(p)
  <2>1. ASSUME NEW o \in Commands, Begin(p, o) PROVE Silent
    BY <2>1 DEF Begin, migration
  <2>2. NoPeer(p) \/ ReadLegacy(p) \/ Classify(p) \/ Again(p) \/ Admit(p) => Silent
    BY DEF NoPeer, ReadLegacy, Classify, Again, Admit, migration
  <2>3. Locked(p) \/ Refuse(p) => Quits
    BY DEF Locked, Refuse, Ended
  <2> QED
    BY <1>1, <1>2, <1>3, <2>1, <2>2, <2>3 DEF Admission
<1>4. CASE Resolve(p) \/ ResolveFails(p) \/ Write(p) \/ Crash(p)
  <2>1. Quits \/ Silent
    BY <1>4 DEF Resolve, ResolveFails, Write, Crash, migration, Ended
  <2> QED
    BY <1>1, <1>2, <2>1
<1>5. CASE Migration(p)
  <2>1. Declines(p) \/ Rename(p) \/ RolledBack(p) \/ Wreck(p) => Tells
    BY DEF Declines, Rename, RolledBack, Wreck, Goto
  <2>2. FindsCanonical(p) => Quits
    BY DEF FindsCanonical, Converged, Ended
  <2>3. Unlock(p) => AnswerKnown(p)'
    BY DEF Unlock, End, Report, AnswerKnown
  <2>4. Look(p) \/ TakeLock(p) \/ Plan(p) \/ Recheck(p) \/ Protect(p) \/ Fail(p) => Silent
    BY DEF Look, TakeLock, Plan, Recheck, Protect, Fail, migration
  <2>5. ASSUME NEW f \in Files, Changed(p, f) \/ Skip(p, f) \/ Take(p, f) PROVE Silent
    BY <2>5 DEF Changed, Skip, Take, migration
  <2>6. ASSUME NEW f \in Files, Copy(p, f) \/ Rewrite(p, f) \/ Restore(p, f) PROVE Silent
    BY <2>6 DEF Copy, Rewrite, Restore
  <2> QED
    BY <1>1, <1>2, <1>5, <2>1, <2>2, <2>3, <2>4, <2>5, <2>6 DEF Migration
<1> QED
  BY <1>3, <1>4, <1>5 DEF Acts

\* Without a lock no migration is under way.
LEMMA UnlockedIdle ==
  ASSUME Inv, lock = NoOne
  PROVE  ~Coming /\ \A q \in Procs : pc[q] \notin Moving
<1>1. \A q \in Procs : pc[q] \notin Working
  BY FilesAssumption DEF Inv, LockIsOwned
<1> QED
  BY <1>1 DEF Coming, Working, Moving

\* What another command's step leaves of this command's reasons.
LEMMA OthersReasons ==
  ASSUME Inv, Reasons, NEW p \in Procs, NEW q \in Procs \ {p}, Acts(p)
  PROVE  AnswerKnown(q)' /\ RefreshedOnce(q)' /\ DeniedReason(q)' /\ SeenReason(q)' /\ RefusedReason(q)'
<1>1. Same(q) /\ SameAdmission(q)
  BY ActsOthers, OthersAdmission
<1>2. AnswerKnown(q) /\ RefreshedOnce(q) /\ DeniedReason(q) /\ SeenReason(q) /\ RefusedReason(q)
  BY DEF Reasons
<1>3. Excused => Excused'
  BY ExcusedStays
<1>4. (One => One') /\ (Two => Two')
  BY SettledStays DEF One, Two
<1>5. Explained(q) => Explained(q)'
  BY ExplainedStays
<1>6. AnswerKnown(q)' /\ RefreshedOnce(q)' /\ RefusedReason(q)' /\ DeniedReason(q)'
  BY <1>1, <1>2, <1>3, <1>4, <1>5
     DEF AnswerKnown, RefreshedOnce, RefusedReason, DeniedReason, Same, SameAdmission
<1>7. SeenReason(q)'
  <2>1. CASE backup' = backup
    BY <1>1, <1>2, <1>5, <2>1 DEF SeenReason, Same, SameAdmission
  <2>2. CASE backup' # backup
    <3>1. Rename(p)
      <4>1. Admission(p) \/ Resolve(p) \/ ResolveFails(p) \/ Write(p) => backup' = backup
        BY AdmissionJobs DEF Resolve, ResolveFails, Write, workspace
      <4>2. (Migration(p) \/ Crash(p)) /\ ~Rename(p) => backup' = backup
        BY MigrationKept DEF Kept, workspace
      <4> QED
        BY <2>2, <4>1, <4>2 DEF Acts
    <3>2. pc'[p] = "unlock" /\ answer'[p] = "migrated"
      BY <3>1 DEF Rename, Goto, Report, Inv, TypeOK
    <3> QED
      BY <3>2 DEF SeenReason, Explained, Coming
  <2> QED
    BY <2>1, <2>2
<1> QED
  BY <1>6, <1>7

\* The reading of the old folder.
LEMMA ReadLegacyReasons ==
  ASSUME Inv, NEW p \in Procs, ReadLegacy(p)
  PROVE  RefreshedOnce(p) => RefreshedOnce(p)' /\ DeniedReason(p)' /\ SeenReason(p)' /\ RefusedReason(p)'
<1>1. pc'[p] = "readCanonical" /\ UNCHANGED <<workspace, denied, refreshed, answer>>
  BY DEF ReadLegacy, Goto, Inv, TypeOK, migration
<1>2. seen'[p] \in {"ambiguous", "live"} => legacy # NoFolder
  BY DEF ReadLegacy, Live, Inv, TypeOK
<1>3. seen'[p] = "ambiguous" => ~Live(legacy)
  BY DEF ReadLegacy, Live, Inv, TypeOK
<1>4. SeenReason(p)'
  <2> SUFFICES ASSUME seen'[p] = "ambiguous" \/ (seen'[p] = "live" /\ backup # NoFolder) PROVE Excused'
    BY <1>1 DEF SeenReason, Explained, workspace
  <2>1. backup # NoFolder /\ legacy # NoFolder
    BY <1>2, <1>3 DEF Inv, LegacyLives
  <2> QED
    BY <1>1, <2>1 DEF Excused, workspace
<1>5. pc[p] = "readLegacy" /\ \A q \in Procs : q # p => pc'[q] = pc[q]
  BY DEF ReadLegacy, Goto, Inv, TypeOK
<1>6. RefreshedOnce(p) => RefreshedOnce(p)'
  BY <1>1, <1>5 DEF RefreshedOnce, Excused, One, Settled, workspace
<1> QED
  BY <1>1, <1>4, <1>6 DEF DeniedReason, RefusedReason

\* A classification that finds a conflict has a reason.
LEMMA ClassifyReasons ==
  ASSUME Inv, Reasons, NEW p \in Procs, Classify(p), Conflicting(p)
  PROVE  Explained(p)
<1> SUFFICES ASSUME ~Excused, ~Coming PROVE Explained(p)
  BY DEF Explained
<1>1. pc[p] = "readCanonical" /\ SeenReason(p) /\ StraysNoted /\ NewLives
  BY DEF Classify, Reasons
<1>2. \A f \in Files : ~Noted(f)
  BY DEF Noted, Coming
<1>3. CASE backup = NoFolder
  <2>1. FilesOf(canonical) \subseteq Substrate
    BY <1>1, <1>2, <1>3 DEF StraysNoted, FilesOf
  <2>2. ~Live(canonical) /\ ~Foreign(canonical)
    BY <2>1, FilesAssumption DEF Live, Foreign, FilesOf
  <2> QED
    BY <1>1, <2>2 DEF Conflicting, SeenReason
<1>4. CASE backup # NoFolder
  <2>1. ~Foreign(canonical)
    BY <1>1, <1>4 DEF NewLives, Foreign
  <2> QED
    BY <1>1, <1>4, <2>1 DEF Conflicting, SeenReason
<1> QED
  BY <1>3, <1>4

\* An admission's own steps: what denies a command is explained, and so is what refuses it.
LEMMA AdmissionReasons ==
  ASSUME Inv, Reasons, NEW p \in Procs, Admission(p)
  PROVE  RefreshedOnce(p)' /\ DeniedReason(p)' /\ SeenReason(p)' /\ RefusedReason(p)'
<1>1. AnswerKnown(p) /\ RefreshedOnce(p) /\ DeniedReason(p) /\ SeenReason(p) /\ RefusedReason(p)
  BY DEF Reasons
<1>2. Excused => Excused'
  BY ExcusedStays DEF Acts
<1>3. (One => One') /\ (Two => Two')
  BY SettledStays DEF One, Two, Acts
<1>4. ASSUME p \in refreshed' => p \in refreshed, pc'[p] \notin {"readCanonical", "recheck", "refused"}
      PROVE  RefreshedOnce(p)' /\ DeniedReason(p)' /\ SeenReason(p)' /\ RefusedReason(p)'
  BY <1>1, <1>2, <1>3, <1>4 DEF RefreshedOnce, DeniedReason, SeenReason, RefusedReason
<1>5. NoPeer(p) \/ Locked(p) \/ Admit(p) \/ (\E o \in Commands : Begin(p, o)) =>
        (p \in refreshed' => p \in refreshed) /\ pc'[p] \notin {"readCanonical", "recheck", "refused"}
  BY DEF NoPeer, Locked, Admit, Begin, End, Goto, admission, Inv, TypeOK
<1>6. CASE NoPeer(p) \/ Locked(p) \/ Admit(p) \/ (\E o \in Commands : Begin(p, o))
  BY <1>4, <1>5, <1>6
<1>7. CASE ReadLegacy(p)
  BY <1>1, <1>7, ReadLegacyReasons
<1>8. CASE Classify(p)
  <2>1. pc'[p] = "recheck" /\ UNCHANGED <<workspace, refreshed, answer>>
        /\ (p \in denied' => Conflicting(p))
        /\ \A q \in Procs : q # p => pc'[q] = pc[q]
    BY <1>8 DEF Classify, Goto, Inv, TypeOK, migration
  <2>2. Explained(p) => Explained(p)'
    <3>1. Coming => Coming'
      <4>1. pc[p] = "readCanonical"
        BY <1>8 DEF Classify
      <4> QED
        BY <2>1, <4>1 DEF Coming, Moving
    <3> QED
      BY <1>2, <1>3, <2>1, <3>1 DEF Explained, Enough
  <2>3. DeniedReason(p)'
    BY <1>8, <2>1, <2>2, ClassifyReasons DEF DeniedReason
  <2>4. RefreshedOnce(p)'
    BY <1>1, <1>2, <1>3, <2>1 DEF RefreshedOnce
  <2> QED
    BY <2>1, <2>3, <2>4 DEF SeenReason, RefusedReason
<1>9. CASE Again(p)
  <2>1. pc[p] = "recheck" /\ pc'[p] = "pending"
    BY <1>9 DEF Again, Goto, Inv, TypeOK
  <2>2. RefreshedOnce(p)'
    <3>1. CASE Overtaken
      BY <1>1, <1>2, <1>3, <1>9, <3>1 DEF Again, RefreshedOnce
    <3>2. CASE ~Overtaken
      <4>1. p \in denied /\ p \notin refreshed /\ ~Coming
        BY <1>9, <3>2, UnlockedIdle DEF Again, MayRefresh, Overtaken
      <4>2. Excused \/ One
        BY <1>1, <2>1, <4>1 DEF DeniedReason, Explained, Enough
      <4> QED
        BY <1>2, <1>3, <4>2 DEF RefreshedOnce
    <3> QED
      BY <3>1, <3>2
  <2> QED
    BY <2>1, <2>2 DEF DeniedReason, SeenReason, RefusedReason
<1>10. CASE Refuse(p)
  <2>1. pc[p] = "recheck" /\ pc'[p] = "refused" /\ p \notin refreshed'
    BY <1>10 DEF Refuse, End, Goto, Inv, TypeOK
  <2>2. p \in denied /\ p \in refreshed /\ ~Coming
    BY <1>10, UnlockedIdle DEF Refuse, MayRefresh, Overtaken
  <2>3. Excused \/ Two
    BY <1>1, <2>1, <2>2 DEF DeniedReason, Explained, Enough
  <2> QED
    BY <1>2, <1>3, <2>1, <2>3 DEF RefreshedOnce, DeniedReason, SeenReason, RefusedReason
<1> QED
  BY <1>6, <1>7, <1>8, <1>9, <1>10 DEF Admission

\* After its admission a command is never denied any more.
LEMMA LaterReasons ==
  ASSUME Inv, Reasons, NEW p \in Procs, Acts(p), ~Admission(p)
  PROVE  RefreshedOnce(p)' /\ DeniedReason(p)' /\ SeenReason(p)' /\ RefusedReason(p)'
<1>1. RefreshedOnce(p) /\ AnswerKnown(p)
  BY DEF Reasons
<1>2. Excused => Excused'
  BY ExcusedStays
<1>3. One => One'
  BY SettledStays DEF One
<1> DEFINE Past == (p \in refreshed' => p \in refreshed) /\ pc'[p] \notin {"readCanonical", "recheck", "refused"}
<1>4. Resolve(p) \/ ResolveFails(p) \/ Write(p) \/ Crash(p) => Past
  BY DEF Resolve, ResolveFails, Write, Crash, End, Goto, admission, Inv, TypeOK
<1>5. ASSUME Migration(p) PROVE Past
  <2>1. Look(p) \/ FindsCanonical(p) \/ TakeLock(p) \/ Declines(p) \/ Plan(p) \/ Recheck(p) \/ Protect(p) => Past
    BY DEF Look, FindsCanonical, TakeLock, Declines, Plan, Recheck, Protect, Converged, End, Goto, admission, Inv, TypeOK
  <2>2. Rename(p) \/ Fail(p) \/ RolledBack(p) \/ Wreck(p) => Past
    BY DEF Rename, Fail, RolledBack, Wreck, Goto, admission, Inv, TypeOK
  <2>3. Unlock(p) => Past
    BY DEF Unlock, End, Goto, Inv, TypeOK
  <2>4. ASSUME NEW f \in Files, Changed(p, f) \/ Skip(p, f) \/ Take(p, f) \/ Copy(p, f) \/ Rewrite(p, f) \/ Restore(p, f)
        PROVE Past
    BY <2>4 DEF Changed, Skip, Take, Copy, Rewrite, Restore, Goto, admission, Inv, TypeOK
  <2> QED
    BY <1>5, <2>1, <2>2, <2>3, <2>4 DEF Migration
<1>6. Past
  BY <1>4, <1>5 DEF Acts
<1> QED
  BY <1>1, <1>2, <1>3, <1>6 DEF RefreshedOnce, DeniedReason, SeenReason, RefusedReason

\* Only the owner of the lock is between the plan and the end.
LEMMA OnlyMoving ==
  ASSUME Inv, NEW p \in Procs, pc[p] \in Working, NEW q \in Procs, pc[q] \in Moving
  PROVE  q = p
<1>1. pc[q] \in Working
  BY DEF Working, Moving
<1> QED
  BY <1>1 DEF Inv, LockIsOwned

\* A migration goes on with its list of touched files, until it ends or restores one.
Goes(p) == Acts(p) /\ ~Rename(p) /\ ~RolledBack(p) /\ ~Wreck(p) /\ ~Crash(p)
LEMMA NotedStays ==
  ASSUME Inv, NEW p \in Procs, Goes(p), NEW f \in Files, Noted(f), ~Restore(p, f)
  PROVE  Noted(f)'
<1>1. PICK q \in Procs : pc[q] \in Moving /\ f \in touched[q]
  BY DEF Noted
<1>2. CASE q # p
  BY <1>1, <1>2, ActsOthers DEF Goes, Same, Noted
<1>3. CASE q = p
  <2> SUFFICES pc'[p] \in Moving /\ f \in touched'[p]
    BY DEF Noted
  <2>1. ~Admission(p)
    <3>1. Admission(p) => pc[p] \in {"idle", "pending", "readLegacy", "readCanonical", "recheck", "open"}
      BY DEF Admission, Begin, NoPeer, Locked, ReadLegacy, Classify, Again, Admit, Refuse
    <3> QED
      BY <1>1, <1>3, <3>1 DEF Moving
  <2>2. ~Resolve(p) /\ ~ResolveFails(p) /\ ~Write(p)
    BY <1>1, <1>3 DEF Resolve, ResolveFails, Write, Moving
  <2>3. ~Look(p) /\ ~FindsCanonical(p) /\ ~TakeLock(p) /\ ~Declines(p) /\ ~Plan(p) /\ ~Unlock(p)
    BY <1>1, <1>3 DEF Look, FindsCanonical, TakeLock, Declines, Plan, Unlock, Moving
  <2>4. CASE Recheck(p) \/ Protect(p) \/ Fail(p)
    BY <1>1, <1>3, <2>4 DEF Recheck, Protect, Fail, Goto, migration, Moving, Inv, TypeOK
  <2>5. ASSUME NEW g \in Files, Changed(p, g) \/ Skip(p, g) \/ Copy(p, g) \/ Rewrite(p, g)
        PROVE pc'[p] \in Moving /\ f \in touched'[p]
    BY <1>1, <1>3, <2>5 DEF Changed, Skip, Copy, Rewrite, Goto, migration, Moving, Inv, TypeOK
  <2>6. ASSUME NEW g \in Files, Take(p, g) PROVE pc'[p] \in Moving /\ f \in touched'[p]
    BY <1>1, <1>3, <2>6 DEF Take, Goto, Moving, Inv, TypeOK
  <2>7. ASSUME NEW g \in Files, Restore(p, g) PROVE pc'[p] \in Moving /\ f \in touched'[p]
    <3>1. g # f
      BY <2>7
    <3> QED
      BY <1>1, <1>3, <2>7, <3>1 DEF Restore, Inv, TypeOK
  <2> QED
    BY <2>1, <2>2, <2>3, <2>4, <2>5, <2>6, <2>7 DEF Goes, Acts, Migration
<1> QED
  BY <1>2, <1>3

\* One file of `.leerness` is put, and nothing else changes there.
LEMMA PutFiles ==
  ASSUME NEW folder \in [Files -> Bodies] \cup {NoFolder}, NEW f \in Files, NEW body \in Bodies
  PROVE  FilesOf(Put(folder, f, body)) \subseteq FilesOf(folder) \cup (IF body = Missing THEN {} ELSE {f})
BY PutOne DEF FilesOf, BodyOf

\* A file that appears in `.leerness` before the rename is in a list, or may be there beforehand.
LEMMA NewFiles ==
  ASSUME Inv, NEW p \in Procs, Goes(p), backup = NoFolder, Sourced(p), ~Excused,
         NEW f \in FilesOf(canonical') \ Substrate
  PROVE  Noted(f)' \/ (f \in FilesOf(canonical) /\ ~Restore(p, f))
<1> USE DEF Inv, TypeOK
<1>1. f \in Files /\ canonical \in [Files -> Bodies] \cup {NoFolder} /\ Job(p)
  BY TypeDisk DEF FilesOf, DiskOK
<1>2. canonical' = canonical /\ ~Restore(p, f) => f \in FilesOf(canonical) /\ ~Restore(p, f)
  OBVIOUS
<1>3. pc[p] # "rollback" => ~Restore(p, f)
  BY DEF Restore
<1>4. CASE Admission(p) \/ Resolve(p) \/ ResolveFails(p)
  <2>1. canonical' = canonical
    BY <1>4, AdmissionJobs DEF Resolve, ResolveFails, workspace
  <2>2. pc[p] # "rollback"
    BY <1>4 DEF Admission, Begin, NoPeer, Locked, ReadLegacy, Classify, Again, Admit, Refuse, Resolve, ResolveFails
  <2> QED
    BY <1>2, <1>3, <2>1, <2>2
<1>5. CASE Write(p)
  <2>1. op[p] \in Writes \cup Stores /\ op[p].file \in Files /\ op[p].text \in Texts /\ pc[p] = "write"
    BY <1>1, <1>5, OpFields DEF Write, Job, OpKnown
  <2>2. CASE dir[p] = "canonical"
    <3>1. op[p].kind # "write"
      BY <2>1, <2>2 DEF EarnedBy
    <3>2. op[p].file \in Substrate
      BY <2>1, <3>1 DEF Writes, Stores
    <3>3. canonical' = Put(canonical, op[p].file, op[p].text) /\ op[p].text \in Bodies
      BY <1>5, <2>1, <2>2 DEF Write, Bodies, Content
    <3> QED
      BY <1>1, <1>3, <2>1, <3>2, <3>3, PutFiles
  <2>3. CASE dir[p] = "legacy"
    BY <1>2, <1>3, <1>5, <2>1, <2>3 DEF Write
  <2> QED
    BY <2>2, <2>3
<1>6. CASE Migration(p)
  <2>1. CASE Look(p) \/ FindsCanonical(p) \/ TakeLock(p) \/ Declines(p) \/ Recheck(p) \/ Protect(p)
    <3>1. canonical' = canonical /\ pc[p] # "rollback"
      BY <2>1 DEF Look, FindsCanonical, TakeLock, Declines, Recheck, Protect, workspace
    <3> QED
      BY <1>2, <1>3, <3>1
  <2>2. CASE Plan(p)
    <3>1. BodyOf(canonical, f) # Missing /\ pc[p] # "rollback"
      BY <1>1, <2>2 DEF Plan, FilesOf
    <3> QED
      BY <1>1, <1>3, <3>1 DEF FilesOf, BodyOf
  <2>3. CASE Unlock(p)
    BY <1>2, <1>3, <2>3 DEF Unlock, workspace
  <2>4. ASSUME NEW g \in Files, Changed(p, g) \/ Skip(p, g) \/ Take(p, g)
        PROVE f \in FilesOf(canonical) /\ ~Restore(p, f)
    BY <1>2, <1>3, <2>4 DEF Changed, Skip, Take, workspace
  <2>5. ASSUME NEW g \in Files, Copy(p, g) PROVE Noted(f)' \/ (f \in FilesOf(canonical) /\ ~Restore(p, f))
    <3>1. g \in touched'[p] /\ pc'[p] \in Moving /\ pc[p] = "copying" /\ canonical' = Put(canonical, g, legacy[g])
      BY <2>5 DEF Copy, Goto, Moving
    <3>2. legacy[g] \in Bodies
      BY <1>1, <3>1 DEF Job, PlanStands, Moving, Folder, Bodies
    <3>3. f = g => Noted(f)'
      BY <3>1 DEF Noted
    <3> QED
      BY <1>1, <1>3, <3>1, <3>2, <3>3, PutFiles
  <2>6. ASSUME NEW g \in Files, Rewrite(p, g) PROVE f \in FilesOf(canonical) /\ ~Restore(p, f)
    <3>1. pc[p] = "rewrite" /\ canonical # NoFolder /\ canonical[g] # Missing
      BY <1>1, <2>6 DEF Rewrite, Job, PlanStands, Carried, Moving
    <3>2. canonical[g] \in Texts \cup {Torn}
      BY <1>1, <3>1 DEF Bodies, Content
    <3>3. Rewritten[canonical[g]] \in Bodies
      BY <3>2, FilesAssumption DEF Bodies, Content
    <3>4. g \in FilesOf(canonical)
      BY <3>1 DEF FilesOf
    <3> QED
      BY <1>1, <1>3, <2>6, <3>1, <3>3, <3>4, PutFiles DEF Rewrite
  <2>7. CASE Fail(p)
    <3>1. CASE UNCHANGED canonical
      BY <1>2, <1>3, <2>7, <3>1 DEF Fail
    <3>2. ASSUME NEW g \in todo[p] \cap touched[p], canonical' = Put(canonical, g, Torn)
          PROVE Noted(f)' \/ (f \in FilesOf(canonical) /\ ~Restore(p, f))
      <4>1. g \in Files /\ g \in touched'[p] /\ pc'[p] \in Moving /\ pc[p] # "rollback" /\ Torn \in Bodies
        BY <2>7, <3>2 DEF Fail, Goto, Moving, migration, Bodies
      <4>2. f = g => Noted(f)'
        BY <4>1 DEF Noted
      <4> QED
        BY <1>1, <1>3, <3>2, <4>1, <4>2, PutFiles
    <3> QED
      BY <2>7, <3>1, <3>2 DEF Fail
  <2>8. ASSUME NEW g \in Files, Restore(p, g) PROVE f \in FilesOf(canonical) /\ ~Restore(p, f)
    <3>1. pc[p] = "rollback" /\ canonical' = Put(canonical, g, plan[p].found[g]) /\ touched'[p] = touched[p] \ {g}
          /\ g \in touched[p]
      BY <2>8 DEF Restore, Undone
    <3>2. plan[p].found[g] \in Bodies /\ (plan[p].found[g] # Missing => g \in Substrate)
      BY <1>1, <3>1 DEF Job, PlanStands, Sourced, Moving
    <3>3. f \in FilesOf(canonical) /\ f # g
      <4>1. canonical'[g] = plan[p].found[g]
        BY <2>8, <3>1 DEF Put
      <4>2. f # g
        BY <3>2, <4>1 DEF FilesOf
      <4> QED
        BY <1>1, <3>1, <3>2, <4>2, PutFiles
    <3>4. ~Restore(p, f)
      BY <3>1, <3>3 DEF Restore
    <3> QED
      BY <3>3, <3>4
  <2> QED
    BY <1>6, <2>1, <2>2, <2>3, <2>4, <2>5, <2>6, <2>7, <2>8 DEF Migration, Goes
<1> QED
  BY <1>4, <1>5, <1>6 DEF Goes, Acts

\* Before the rename, what looks like a workspace in `.leerness` is noted, as long as nobody
\* died or failed to roll back.
LEMMA ActsStrays ==
  ASSUME Inv, Reasons, NEW p \in Procs, Acts(p)
  PROVE  StraysNoted'
<1> SUFFICES ASSUME ~Excused', backup' = NoFolder, NEW f \in FilesOf(canonical') \ Substrate
             PROVE  Noted(f)'
  BY DEF StraysNoted
<1>1. ~Excused /\ backup = NoFolder /\ Sourced(p)
  BY ExcusedStays, FoldersStay DEF Reasons
<1>2. \A g \in FilesOf(canonical) \ Substrate : Noted(g)
  BY <1>1 DEF Reasons, StraysNoted
<1>3. ~Rename(p)
  BY DEF Rename, Inv, Job, PlanStands, Moving
<1>4. ~Wreck(p) /\ ~Crash(p)
  BY DEF Wreck, Crash, End, Goto, Report, Excused, Inv, TypeOK
<1>5. ~RolledBack(p)
  <2> SUFFICES ASSUME RolledBack(p) PROVE FALSE
    OBVIOUS
  <2>1. f \in FilesOf(canonical)
    BY DEF RolledBack, FilesOf
  <2>2. PICK q \in Procs : pc[q] \in Moving /\ f \in touched[q]
    BY <1>2, <2>1 DEF Noted
  <2>3. pc[p] \in Working /\ touched[p] = {}
    BY DEF RolledBack, Working
  <2> QED
    BY <2>2, <2>3, OnlyMoving
<1>6. Goes(p)
  BY <1>3, <1>4, <1>5 DEF Goes
<1>7. f \in FilesOf(canonical) /\ ~Restore(p, f) => Noted(f)'
  BY <1>2, <1>6, NotedStays DEF FilesOf
<1> QED
  BY <1>1, <1>6, <1>7, NewFiles

\* After the rename `.leerness` is a workspace.
LEMMA ActsLives ==
  ASSUME Inv, Reasons, NEW p \in Procs, Acts(p)
  PROVE  NewLives'
<1> SUFFICES ASSUME ~Excused', backup' # NoFolder PROVE Live(canonical)'
  BY DEF NewLives
<1>1. ~Excused /\ Sourced(p) /\ NewLives
  BY ExcusedStays DEF Reasons
<1>2. CASE backup = NoFolder
  <2>1. Rename(p)
    <3>1. Admission(p) \/ Resolve(p) \/ ResolveFails(p) \/ Write(p) => backup' = backup
      BY AdmissionJobs DEF Resolve, ResolveFails, Write, workspace
    <3>2. (Migration(p) \/ Crash(p)) /\ ~Rename(p) => backup' = backup
      BY MigrationKept DEF Kept, workspace
    <3> QED
      BY <1>2, <3>1, <3>2 DEF Acts
  <2>2. pc[p] = "rename" /\ canonical' = canonical /\ canonical # NoFolder /\ Carried(p)
    BY <2>1 DEF Rename, Inv, Job, PlanStands, Moving
  <2>3. PICK m \in Markers : plan[p].source # NoFolder /\ plan[p].source[m] # Missing
    BY <1>1, <2>2 DEF Sourced, Moving, Live
  <2>4. m \in FilesOf(plan[p].source)
    BY <2>3, FilesAssumption DEF FilesOf
  <2>5. canonical[m] # Missing
    BY <2>2, <2>4 DEF Carried
  <2> QED
    BY <2>2, <2>5 DEF Live
<1>3. CASE backup # NoFolder
  <2>1. Live(canonical) /\ ~Rename(p)
    BY <1>1, <1>3, FoldersStay DEF NewLives
  <2>2. Admission(p) \/ Resolve(p) \/ ResolveFails(p) \/ Migration(p) \/ Crash(p) => canonical' = canonical
    BY <1>3, <2>1, AdmissionJobs, MigrationKept DEF Resolve, ResolveFails, Kept, workspace
  <2>3. CASE Write(p)
    <3>1. op[p].file \in Files /\ op[p].text \in Texts /\ op[p].text # Missing
      BY <2>3, OpFields, FilesAssumption DEF Write, Inv, Job, OpKnown
    <3>2. op[p].text \in Bodies
      BY <3>1 DEF Bodies, Content
    <3>3. canonical' = canonical \/ canonical' = Put(canonical, op[p].file, op[p].text)
      BY <2>3 DEF Write
    <3>4. PICK m \in Markers : canonical # NoFolder /\ canonical[m] # Missing
      BY <2>1 DEF Live
    <3>5. m \in Files
      BY FilesAssumption
    <3>6. canonical' # NoFolder /\ canonical'[m] # Missing
      <4> DEFINE folder == Put(canonical, op[p].file, op[p].text)
      <4>1. canonical \in [Files -> Bodies] \cup {NoFolder}
        BY TypeDisk DEF Inv, DiskOK
      <4>2. /\ folder # NoFolder /\ folder[op[p].file] = op[p].text
            /\ \A g \in Files : g # op[p].file => folder[g] = BodyOf(canonical, g)
        <5>1. folder # NoFolder
          BY <3>1, <3>2, <4>1, PutOne
        <5>2. \A g \in Files : folder[g] = IF g = op[p].file THEN op[p].text ELSE BodyOf(canonical, g)
          BY DEF Put
        <5> QED
          BY <3>1, <5>1, <5>2
      <4>3. BodyOf(canonical, m) # Missing
        BY <3>4 DEF BodyOf
      <4> HIDE DEF folder
      <4>4. folder[m] # Missing
        BY <3>1, <3>5, <4>2, <4>3
      <4> QED
        BY <3>3, <3>4, <4>2, <4>4 DEF folder
    <3> QED
      BY <3>6 DEF Live
  <2> QED
    BY <2>1, <2>2, <2>3 DEF Acts
<1> QED
  BY <1>2, <1>3

\* A migration's source is live, and what it found may be there beforehand.
LEMMA ActsSourced ==
  ASSUME Inv, Reasons, NEW p \in Procs, NEW q \in Procs, Acts(p)
  PROVE  Sourced(q)'
<1>1. Sourced(q) /\ StraysNoted /\ (Excused => Excused')
  BY ExcusedStays DEF Reasons
<1>2. ASSUME pc'[q] \in Moving => pc[q] \in Moving, pc'[q] \in Moving => plan'[q] = plan[q]
      PROVE  Sourced(q)'
  BY <1>1, <1>2 DEF Sourced
<1>3. CASE q # p
  BY <1>2, <1>3, ActsOthers DEF Same
<1>4. CASE q = p /\ Plan(p)
  <2>1. /\ plan'[p].source = legacy /\ plan'[p].found = [f \in Files |-> BodyOf(canonical, f)]
        /\ pc[p] = "inspect" /\ backup = NoFolder
    BY <1>4 DEF Plan, Blocked, Inv, TypeOK
  <2>2. Live(legacy)
    BY <2>1 DEF Inv, LegacyLives
  <2>3. \A f \in Files : ~Noted(f)
    <3>1. pc[p] \in Working /\ pc[p] \notin Moving
      BY <2>1 DEF Working, Moving
    <3> QED
      BY <3>1, OnlyMoving DEF Noted
  <2>4. Excused \/ \A f \in Files : BodyOf(canonical, f) # Missing => f \in Substrate
    BY <1>1, <2>1, <2>3 DEF StraysNoted, FilesOf, BodyOf
  <2> QED
    BY <1>1, <1>4, <2>1, <2>2, <2>4 DEF Sourced
<1>5. CASE q = p /\ ~Plan(p)
  <2> DEFINE Follows == (pc'[p] \in Moving => pc[p] \in Moving) /\ (pc'[p] \in Moving => plan'[p] = plan[p])
  <2>1. Admission(p) => Follows
    <3>1. Admission(p) => pc'[p] \notin Moving
      <4>1. ASSUME NEW o \in Commands, Begin(p, o) PROVE pc'[p] \notin Moving
        BY <4>1 DEF Begin, Goto, Inv, TypeOK, Moving
      <4>2. NoPeer(p) \/ ReadLegacy(p) \/ Classify(p) \/ Again(p) \/ Admit(p) => pc'[p] \notin Moving
        BY DEF NoPeer, ReadLegacy, Classify, Again, Admit, Goto, Inv, TypeOK, Moving
      <4>3. Locked(p) \/ Refuse(p) => pc'[p] \notin Moving
        BY DEF Locked, Refuse, End, Goto, Inv, TypeOK, Moving
      <4> QED
        BY <4>1, <4>2, <4>3 DEF Admission
    <3> QED
      BY <3>1
  <2>2. Resolve(p) \/ ResolveFails(p) \/ Write(p) \/ Crash(p) => Follows
    BY DEF Resolve, ResolveFails, Write, Crash, End, Goto, Inv, TypeOK, Moving
  <2>3. Look(p) \/ FindsCanonical(p) \/ TakeLock(p) \/ Declines(p) \/ Recheck(p) \/ Protect(p) => Follows
    BY DEF Look, FindsCanonical, TakeLock, Declines, Recheck, Protect, Converged, End, Goto, migration,
           Inv, TypeOK, Moving
  <2>4. Rename(p) \/ Fail(p) \/ RolledBack(p) \/ Wreck(p) => Follows
    BY DEF Rename, Fail, RolledBack, Wreck, Goto, migration, Inv, TypeOK, Moving
  <2>5. Unlock(p) => Follows
    <3>1. Unlock(p) => pc'[p] = answer[p] /\ answer[p] \in {"none", "already", "blocked", "migrated", "failed", "wrecked"}
      BY DEF Unlock, End, Goto, Inv, TypeOK
    <3> QED
      BY <3>1 DEF Moving
  <2>6. ASSUME NEW f \in Files, Changed(p, f) \/ Skip(p, f) \/ Take(p, f) \/ Copy(p, f) \/ Rewrite(p, f) \/ Restore(p, f)
        PROVE Follows
    BY <2>6 DEF Changed, Skip, Take, Copy, Rewrite, Restore, Goto, migration, Inv, TypeOK, Moving
  <2>7. Follows
    BY <1>5, <2>1, <2>2, <2>3, <2>4, <2>5, <2>6 DEF Acts, Migration
  <2> QED
    BY <1>2, <1>5, <2>7
<1> QED
  BY <1>3, <1>4, <1>5

\* No step loses a reason; the operator, who removes a dead command's lock, touches none.
LEMMA NextReasons == Inv /\ Reasons /\ [Next]_vars => Reasons'
<1> SUFFICES ASSUME Inv, Reasons, [Next]_vars PROVE Reasons'
  OBVIOUS
<1>1. CASE UNCHANGED vars \/ ClearLock
  <2>1. UNCHANGED <<workspace, pc, op, admission, dir, migration>>
    BY <1>1 DEF vars, ClearLock, workspace, admission, migration
  <2>2. UNCHANGED <<legacy, canonical, backup, pc, seen, denied, refreshed, plan, touched, answer>>
    BY <2>1 DEF workspace, admission, migration
  <2>3. (Excused <=> Excused') /\ (Coming <=> Coming') /\ (One <=> One') /\ (Two <=> Two')
    BY <2>2 DEF Excused, Coming, One, Two, Settled
  <2>4. StraysNoted' /\ NewLives'
    BY <2>2, <2>3 DEF Reasons, StraysNoted, NewLives, Noted
  <2>5. ASSUME NEW p \in Procs
        PROVE AnswerKnown(p)' /\ RefreshedOnce(p)' /\ DeniedReason(p)' /\ SeenReason(p)' /\ RefusedReason(p)' /\ Sourced(p)'
    <3>1. Explained(p) <=> Explained(p)'
      BY <2>2, <2>3 DEF Explained, Enough
    <3> QED
      BY <2>2, <2>3, <3>1
         DEF Reasons, AnswerKnown, RefreshedOnce, DeniedReason, SeenReason, RefusedReason, Sourced
  <2> QED
    BY <2>4, <2>5 DEF Reasons
<1>2. ASSUME NEW p \in Procs, Acts(p) PROVE Reasons'
  <2>1. StraysNoted' /\ NewLives' /\ \A q \in Procs : Sourced(q)'
    BY <1>2, ActsStrays, ActsLives, ActsSourced
  <2>2. AnswerKnown(p)' /\ RefreshedOnce(p)' /\ DeniedReason(p)' /\ SeenReason(p)' /\ RefusedReason(p)'
    BY <1>2, ActsAnswer, AdmissionReasons, LaterReasons DEF Reasons
  <2> QED
    BY <1>2, <2>1, <2>2, OthersReasons DEF Reasons
<1> QED
  BY <1>1, <1>2 DEF Next, Acts

-----------------------------------------------------------------------------
(* Theorems *)

LEMMA NextInv == Inv /\ [Next]_vars => Inv'
BY NextTypes, NextLock, NextJobs, NextFolders DEF Inv

\* The invariant of the whole module holds at every time.
THEOREM Invariant == Spec => []Inv
BY InitInv, NextInv, PTL DEF Spec

\* Types: the folders hold known texts, and every command is at a known place.
THEOREM TypeCorrect == Spec => []TypeOK
BY Invariant, PTL DEF Inv

\* No two commands are inside the migration, and each removes its own lock.
THEOREM LockOwned == Spec => []LockIsOwned
BY Invariant, PTL DEF Inv

\* `.leerness-backup`, the renamed old workspace, never exists without the .gitignore line that keeps it out of
\* commits.  (Says nothing of the copies in `.leerness/archive`.)
THEOREM BackupProtected == Spec => []BackupIgnored
BY Invariant, PTL DEF Inv

\* Commands only use a `.leerness` that holds all that was migrated.
THEOREM WholeWhenUsed == Spec => []UsedIsWhole
<1>1. Inv => UsedIsWhole
  BY DEF Inv, UsedIsWhole, BackupWhole, EarnedBy
<1> QED
  BY <1>1, Invariant, PTL

\* Nobody is refused for the half-copied workspace of a peer that was migrating.
THEOREM RefusalsAreReal == Spec => []ConflictIsReal
<1>1. Spec => [](Inv /\ Reasons)
  BY InitInv, InitReasons, NextInv, NextReasons, PTL DEF Spec
<1>2. Reasons => ConflictIsReal
  BY DEF Reasons, RefusedReason, Excused, Two, Settled, ConflictIsReal, HasMigrated
<1> QED
  BY <1>1, <1>2, PTL

\* Which step of a migration ends it with the rename, or with a completed rollback.
LEMMA EndingSteps ==
  ASSUME Inv, [Next]_vars, NEW p \in Procs, pc[p] \in {"rename", "rollback"}, pc'[p] = "unlock"
  PROVE  \/ pc[p] = "rename" /\ Rename(p)
         \/ pc[p] = "rollback" /\ (RolledBack(p) \/ Wreck(p))
<1>1. pc'[p] # pc[p]
  OBVIOUS
<1>2. ~UNCHANGED vars /\ ~ClearLock
  BY <1>1 DEF vars, ClearLock
<1>3. PICK q \in Procs : Admission(q) \/ Resolve(q) \/ ResolveFails(q) \/ Write(q) \/ Migration(q) \/ Crash(q)
  BY <1>2 DEF Next
<1>4. q = p
  BY <1>1, <1>3, OnlyAdmission, OnlyWriter, OnlyMigration DEF Inv, Same
<1>5. ~Admission(p)
  BY DEF Admission, Begin, NoPeer, Locked, ReadLegacy, Classify, Again, Admit, Refuse
<1>6. ~Resolve(p) /\ ~ResolveFails(p) /\ ~Write(p) /\ ~Crash(p)
  BY DEF Resolve, ResolveFails, Write, Crash, End, Goto, Inv, TypeOK
<1>7. Migration(p)
  BY <1>3, <1>4, <1>5, <1>6
<1>8. ~Look(p) /\ ~FindsCanonical(p) /\ ~TakeLock(p) /\ ~Declines(p) /\ ~Plan(p) /\ ~Recheck(p) /\ ~Protect(p) /\ ~Unlock(p)
  BY DEF Look, FindsCanonical, TakeLock, Declines, Plan, Recheck, Protect, Unlock
<1>9. ~Fail(p)
  BY DEF Fail, Goto, Inv, TypeOK
<1>10. ASSUME NEW f \in Files
       PROVE ~Changed(p, f) /\ ~Skip(p, f) /\ ~Take(p, f) /\ ~Copy(p, f) /\ ~Rewrite(p, f)
  BY DEF Changed, Skip, Take, Copy, Rewrite
<1>11. ASSUME NEW f \in Files PROVE ~Restore(p, f)
  BY <1>1 DEF Restore
<1> QED
  BY <1>7, <1>8, <1>9, <1>10, <1>11 DEF Migration, Rename, RolledBack, Wreck

\* The rename leaves nothing behind that was written in time.
THEOREM MigrationCarries == Spec => MigratedCarriesAll
<1>1. ASSUME Inv, [Next]_vars
      PROVE [\A p \in Procs : (pc[p] = "rename" /\ pc'[p] = "unlock") =>
               \A f \in FilesOf(legacy) \ late : BodyOf(canonical, f) = Rewritten[legacy[f]]]_vars
  BY <1>1, EndingSteps, RenameFinds
<1> QED
  BY <1>1, Invariant, PTL DEF Spec, MigratedCarriesAll

\* A migration that reports a rollback has undone what it did, up to the identical files.
THEOREM RollbackIsExact == Spec => RollbackRestores
<1> DEFINE Exact(p) ==
      /\ gitignore' = plan[p].ignore
      /\ canonical' = NoFolder <=> ~plan[p].existed
      /\ \A f \in Files \ late :
           plan[p].source[f] # plan[p].found[f] => BodyOf(canonical', f) = plan[p].found[f]
<1>1. ASSUME Inv, [Next]_vars, NEW p \in Procs, pc[p] = "rollback", pc'[p] = "unlock", answer'[p] = "failed"
      PROVE  Exact(p)
  <2>1. RolledBack(p)
    <3>1. RolledBack(p) \/ Wreck(p)
      BY <1>1, EndingSteps
    <3>2. ~Wreck(p)
      BY <1>1 DEF Wreck, Report, Inv, TypeOK
    <3> QED
      BY <3>1, <3>2
  <2>2. gitignore' = plan[p].ignore /\ touched[p] = {}
        /\ canonical' = IF plan[p].existed THEN canonical ELSE NoFolder
    BY <2>1 DEF RolledBack
  <2>3. canonical # NoFolder /\ Restorable(p)
    BY <1>1 DEF Inv, Job, PlanStands, Moving
  <2>4. \A f \in Files \ late : plan[p].source[f] # plan[p].found[f] => canonical[f] = plan[p].found[f]
    BY <1>1, <2>2, <2>3 DEF Restorable, Moving
  <2>5. ~plan[p].existed => \A f \in Files : plan[p].found[f] = Missing
    BY <1>1, <2>3 DEF Restorable, Moving
  <2>6. plan[p].existed \in BOOLEAN
    BY <1>1, PlanFields DEF Inv, TypeOK
  <2> QED
    BY <2>2, <2>3, <2>4, <2>5, <2>6 DEF BodyOf
<1>2. ASSUME Inv, [Next]_vars
      PROVE [\A p \in Procs : (pc[p] = "rollback" /\ pc'[p] = "unlock" /\ answer'[p] = "failed") => Exact(p)]_vars
  BY <1>1, <1>2
<1> QED
  BY <1>2, Invariant, PTL DEF Spec, RollbackRestores
=============================================================================
