---------------------------- MODULE MemoryMigration ----------------------------
(***************************************************************************)
(* The migration of one memory (decisions or lessons) from its Markdown    *)
(* file to a canonical JSON file and a Markdown projection of it:          *)
(* lib/memory-migration-{write,bundle,execute,withdraw,storage}.js.        *)
(*                                                                         *)
(* `prepare` retains the source and both outputs in a directory of the     *)
(* operation.  `apply` publishes the canonical file, records its identity, *)
(* replaces the source by the projection and writes a receipt; `rollback`  *)
(* publishes the source again and moves the canonical file to the archive. *)
(* Each runs under the lock of the canonical file, may fail or die between *)
(* any two calls, and is tried again by an operator; editors and other     *)
(* tools write both files whenever they like.                              *)
(*                                                                         *)
(* A file is a text and an identity (inode and times), which every change  *)
(* makes new; an identity that nobody remembers may be used again.  A      *)
(* publication is the one of CheckedReplace, in two steps.  The retained   *)
(* material is checked at every step and nobody else writes it, so that it *)
(* is the same always; the directories' identities and the recovery        *)
(* receipt of a failed call, which nothing reads, are left out.            *)
(***************************************************************************)
EXTENDS Integers

CONSTANTS
  MaxOps,     \* bound: prepared operations
  MaxCalls,   \* bound: applies, and rollbacks of what has no output on its path
  MaxEdits,   \* bound: changes by others
  MaxFaults,  \* bound: failing calls and deaths
  MaxTroubles, \* bound: both together
  Absent, Idle, Torn

Ops == 1..MaxOps
Files == {"canonical", "projection"}   \* <surface>.json and <surface>.md
Ids == 1..6 + 2 * MaxOps
Source(n) == <<"source", n>>
Sources == {Source(n) : n \in 0..MaxEdits}
Texts == Sources \cup {<<"canonical", source>> : source \in Sources} \cup {<<"projection", op>> : op \in Ops}
\* A file was made by an operation, or by others (0).
Entries == [text : Texts, id : Ids, by : Ops \cup {0}]
Jobs == [op : Ops, action : {"apply", "rollback"},
         step : {"start", "create", "record", "replace", "publish", "replaced", "withdraw", "rename", "compare",
                 "verify", "receipt"},
         seen : [Files -> Entries \cup {Absent}]]

ASSUME MigrationAssumption ==
  /\ MaxOps \in Nat \ {0} /\ MaxCalls \in Nat /\ MaxTroubles \in Nat /\ MaxEdits \in Nat /\ MaxFaults \in Nat
  /\ Absent \notin Entries \cup Texts \cup Ids /\ Torn \notin Ids /\ Idle \notin Jobs

VARIABLES
  live,      \* what is on the path of each file
  moved,     \* what a call has moved away and not settled yet
  aside,     \* what was left in the archive or beside its path
  bundle,    \* the source that each operation has retained
  record,    \* canonical-created.json: the identity of the canonical file that an operation made
  receipts,  \* applied.json and rolled-back.json of each operation
  torn,      \* receipts whose writer did not finish them
  lock,      \* of the canonical file: "free", "held", or "orphan" of a dead owner
  job,       \* the call that holds the lock
  latest,    \* history: the text that others gave each file last
  guests,    \* history: the files that others put on the canonical path while the running call runs
  adopted,   \* history: operations that have recorded the identity of such a file for their own
  calls, edits, faults,
  manual     \* has an operator to look at the files?

migrationVars ==
  <<live, moved, aside, bundle, record, receipts, torn, lock, job, latest, guests, adopted, calls, edits, faults, manual>>
evidence == <<bundle, record, receipts, torn>>
world == <<latest, edits, guests, adopted>>

Prepared == {op \in Ops : bundle[op] # Absent}
Raw(op) == bundle[op].text
Canonical(op) == <<"canonical", Raw(op)>>
Projection(op) == <<"projection", op>>   \* with a link to the operation's directory
Retained(op) == {Raw(op), Canonical(op), Projection(op)}

\* Is an output that the operation has made on its path, or on its way back to it?
Shows(op) ==
  \E f \in {live["canonical"], live["projection"], moved} \ {Absent} :
    f.by = op /\ f.text \in {Canonical(op), Projection(op)}
Holds(file, text) == live[file] # Absent /\ live[file].text = text
\* Mutant: the bytes of the canonical file are enough.
Owned_bytes(op) == Holds("canonical", Canonical(op))
Owned(op) == live["canonical"].id = record[op]
Remembered ==
  {f.id : f \in ({live[file] : file \in Files} \cup {moved} \cup {bundle[op] : op \in Ops}
                   \cup (IF job = Idle THEN {} ELSE {job.seen[file] : file \in Files})) \ {Absent}}
    \cup {record[op] : op \in Ops}
FreshId == CHOOSE id \in Ids : id \notin Remembered
Has(op, name) == <<op, name>> \in receipts
Broken(op, name) == <<op, name>> \in torn

MigrationInit ==
  /\ live = [file \in Files |-> IF file = "projection" THEN [text |-> Source(0), id |-> 1, by |-> 0] ELSE Absent]
  /\ moved = Absent /\ aside = {} /\ lock = "free" /\ job = Idle
  /\ bundle = [op \in Ops |-> Absent] /\ record = [op \in Ops |-> Absent] /\ receipts = {} /\ torn = {}
  /\ latest = [file \in Files |-> IF file = "projection" THEN Source(0) ELSE Absent]
  /\ guests = {} /\ adopted = {} /\ calls = 0 /\ edits = 0 /\ faults = 0 /\ manual = FALSE

-----------------------------------------------------------------------------
(* Calls *)

\* ACTION: retain a source that needs it, while there is no canonical file.  A preparation that fails leaves a
\* directory that is never used.
PrepareBundle(op) ==
  /\ lock = "free" /\ op \notin Prepared /\ 1..op - 1 \subseteq Prepared
  /\ live["canonical"] = Absent /\ live["projection"] # Absent /\ live["projection"].text \in Sources
  /\ bundle' = [bundle EXCEPT ![op] = live["projection"]]
  /\ UNCHANGED <<live, moved, aside, record, receipts, torn, lock, job, world, calls, faults, manual>>

Start(op, action, step) ==
  /\ lock = "free" /\ lock' = "held"
  /\ job' = [op |-> op, action |-> action, step |-> step, seen |-> live] /\ guests' = {}
  /\ UNCHANGED <<live, moved, aside, evidence, latest, edits, adopted, faults, manual>>

\* May the operation be applied, or its application continued?
\* Mutant: an operation that was rolled back may be applied again.
MayApply_again(op) ==
  /\ Holds("projection", Raw(op)) \/ Holds("projection", Projection(op))
  /\ IF live["canonical"] = Absent THEN live["projection"] = bundle[op]
     ELSE Holds("canonical", Canonical(op)) /\ Owned(op)
MayApply(op) ==
  /\ ~Has(op, "rolled-back") /\ ~Broken(op, "rolled-back")
  /\ Holds("projection", Raw(op)) \/ Holds("projection", Projection(op))
  /\ IF live["canonical"] = Absent THEN live["projection"] = bundle[op]
     ELSE Holds("canonical", Canonical(op)) /\ Owned(op)
\* ACTION: apply a prepared operation.
ApplyBundle(op) ==
  /\ op \in Prepared /\ MayApply(op)
  /\ calls < MaxCalls /\ calls' = calls + 1
  /\ Start(op, "apply", IF live["canonical"] = Absent THEN "start" ELSE "replace")

\* May it be rolled back?  Without a canonical file, a projection must be the operation's by its receipt.
\* Mutant: only what was applied to the end.
MayRollback_applied(op) ==
  /\ Has(op, "applied")
  /\ Holds("projection", Raw(op)) \/ Holds("projection", Projection(op))
  /\ IF live["canonical"] # Absent THEN Holds("canonical", Canonical(op)) /\ Owned(op)
     ELSE Holds("projection", Raw(op)) \/ Has(op, "applied")
MayRollback(op) ==
  /\ Holds("projection", Raw(op)) \/ Holds("projection", Projection(op))
  /\ IF live["canonical"] # Absent THEN Holds("canonical", Canonical(op)) /\ Owned(op)
     ELSE Holds("projection", Raw(op)) \/ Has(op, "applied")
\* ACTION: roll it back.
RollbackBundle(op) ==
  /\ op \in Prepared /\ MayRollback(op)
  /\ IF live["canonical"] # Absent \/ Holds("projection", Projection(op))
     THEN UNCHANGED calls ELSE calls < MaxCalls /\ calls' = calls + 1
  /\ Start(op, "rollback", "start")

-----------------------------------------------------------------------------
(* Their steps *)

Busy == job # Idle
At(action, step) == Busy /\ job.action = action /\ job.step = step
Advance(step) == job' = [job EXCEPT !.step = step]
Look(step) == job' = [job EXCEPT !.step = step, !.seen = live]   \* the files are captured again
Change(file, new) == live' = [live EXCEPT ![file] = new]
NewFile(text) == [text |-> text, id |-> FreshId, by |-> job.op]
AsSeen == live = job.seen

\* The publication of the projection by an application, or of the source by a rollback.
Text == IF job.action = "apply" THEN Projection(job.op) ELSE Raw(job.op)

\* ACTION: the files are what the call has seen; which step is next?
CheckStart ==
  /\ Busy /\ job.step = "start" /\ AsSeen
  /\ Advance(IF job.action = "apply" THEN "create"
             ELSE IF Holds("projection", Raw(job.op)) THEN "replaced" ELSE "publish")
  /\ UNCHANGED <<live, moved, aside, evidence, lock, world, calls, faults, manual>>

\* ACTION: apply links the canonical file to the empty path,
Create ==
  /\ At("apply", "create") /\ live["canonical"] = Absent
  /\ Change("canonical", NewFile(Canonical(job.op))) /\ Advance("record")
  /\ UNCHANGED <<moved, aside, evidence, lock, world, calls, faults, manual>>

\* ACTION: captures what is there now, by its bytes, and creates the record of its identity.
Record ==
  /\ At("apply", "record") /\ Holds("canonical", Canonical(job.op)) /\ record[job.op] = Absent
  /\ record' = [record EXCEPT ![job.op] = live["canonical"].id]
  /\ adopted' = IF live["canonical"] \in guests THEN adopted \cup {job.op} ELSE adopted
  /\ Look("replace")
  /\ UNCHANGED <<live, moved, aside, bundle, receipts, torn, lock, latest, edits, guests, calls, faults, manual>>

\* ACTION: the source must still be the one that was prepared, unless it has been replaced already.
Replaced == job.seen["projection"] # Absent /\ job.seen["projection"].text = Projection(job.op)
MayReplace == Replaced \/ (job.seen["projection"] = bundle[job.op] /\ AsSeen)
CheckReplace ==
  /\ At("apply", "replace") /\ MayReplace
  /\ Advance(IF Replaced THEN "verify" ELSE "publish")
  /\ UNCHANGED <<live, moved, aside, evidence, lock, world, calls, faults, manual>>

Publishing == Busy /\ job.step = "publish"
\* ACTION: a publication moves away what the call has seen,
\* Mutant: or anything else.
Take_blind ==
  /\ Publishing /\ moved = Absent /\ live["projection"] # Absent
  /\ Change("projection", Absent) /\ moved' = live["projection"]
  /\ UNCHANGED <<aside, evidence, lock, job, world, calls, faults, manual>>
Take ==
  /\ Publishing /\ moved = Absent /\ live["projection"] = job.seen["projection"]
  /\ Change("projection", Absent) /\ moved' = live["projection"]
  /\ UNCHANGED <<aside, evidence, lock, job, world, calls, faults, manual>>
\* ACTION: and links the new text to the empty path.
Put ==
  /\ Publishing /\ moved # Absent /\ live["projection"] = Absent
  /\ Change("projection", NewFile(Text)) /\ moved' = Absent
  /\ Advance(IF job.action = "apply" THEN "verify" ELSE "replaced")
  /\ UNCHANGED <<aside, evidence, lock, world, calls, faults, manual>>

\* ACTION: rollback captures the files again; a canonical file must be the operation's.
CheckReplaced ==
  /\ At("rollback", "replaced") /\ Holds("projection", Raw(job.op))
  /\ live["canonical"] # Absent => Owned(job.op) /\ live["canonical"].text = Canonical(job.op)
  /\ Advance(IF live["canonical"] = Absent THEN "verify" ELSE "withdraw")
  /\ UNCHANGED <<live, moved, aside, evidence, lock, world, calls, faults, manual>>
\* ACTION: withdrawCanonical captures that file once more, by its bytes,
CaptureWithdrawn ==
  /\ At("rollback", "withdraw") /\ Holds("canonical", Canonical(job.op))
  /\ Look("rename")
  /\ UNCHANGED <<live, moved, aside, evidence, lock, world, calls, faults, manual>>
\* ACTION: moves whatever is on the path by now to the archive,
WithdrawCanonical ==
  /\ At("rollback", "rename") /\ live["canonical"] # Absent
  /\ Change("canonical", Absent) /\ moved' = live["canonical"] /\ Advance("compare")
  /\ UNCHANGED <<aside, evidence, lock, world, calls, faults, manual>>
\* ACTION: and leaves it there if it was the captured file, and the path is empty.
CompareWithdrawn ==
  /\ At("rollback", "compare") /\ moved = job.seen["canonical"] /\ live["canonical"] = Absent
  /\ aside' = aside \cup {[file |-> "canonical", text |-> moved.text]} /\ moved' = Absent /\ Advance("verify")
  /\ UNCHANGED <<live, evidence, lock, world, calls, faults, manual>>

\* What a call has to find at its end.
Done ==
  IF job.action = "apply"
  THEN Holds("canonical", Canonical(job.op)) /\ Holds("projection", Projection(job.op)) /\ Owned(job.op)
  ELSE live["canonical"] = Absent /\ Holds("projection", Raw(job.op))
\* A call has nothing on its way at its end, or leaves that aside.
Ends == job' = Idle /\ moved' = Absent /\ guests' = {}
Name == IF job.action = "apply" THEN "applied" ELSE "rolled-back"
\* ACTION: the files are captured for the last time, and compared.
VerifyOutputs ==
  /\ Busy /\ job.step = "verify" /\ Done /\ Look("receipt")
  /\ UNCHANGED <<live, moved, aside, evidence, lock, world, calls, faults, manual>>
\* ACTION: the receipt is created, unless it is there already, and the call ends.
Receipt ==
  /\ Busy /\ job.step = "receipt" /\ ~Broken(job.op, Name)
  /\ receipts' = receipts \cup {<<job.op, Name>>}
  /\ Ends /\ lock' = "free"
  /\ UNCHANGED <<live, aside, bundle, record, torn, latest, edits, adopted, calls, faults, manual>>

-----------------------------------------------------------------------------
(* Failures *)

Goes ==
  CASE job.step = "start"    -> AsSeen
    [] job.step = "create"   -> live["canonical"] = Absent
    [] job.step = "record"   -> Holds("canonical", Canonical(job.op)) /\ record[job.op] = Absent
    [] job.step = "replace"  -> MayReplace
    [] job.step = "publish"  -> live["projection"] = (IF moved = Absent THEN job.seen["projection"] ELSE Absent)
    [] job.step = "replaced" -> /\ Holds("projection", Raw(job.op))
                                /\ live["canonical"] # Absent =>
                                     Owned(job.op) /\ live["canonical"].text = Canonical(job.op)
    [] job.step = "withdraw" -> Holds("canonical", Canonical(job.op))
    [] job.step = "rename"   -> live["canonical"] # Absent
    [] job.step = "compare"  -> moved = job.seen["canonical"] /\ live["canonical"] = Absent
    [] job.step = "verify"   -> Done
    [] job.step = "receipt"  -> ~Broken(job.op, Name)

Place == IF job.step = "compare" THEN "canonical" ELSE "projection"
\* A record or receipt that is being created may be left unfinished; it is not created a second time.
MayTear ==
  \/ UNCHANGED <<record, torn>>
  \/ Busy /\ job.step = "record" /\ Goes /\ record' = [record EXCEPT ![job.op] = Torn] /\ UNCHANGED torn
  \/ Busy /\ job.step = "receipt" /\ Goes /\ ~Has(job.op, Name) /\ torn' = torn \cup {<<job.op, Name>>} /\ UNCHANGED record
\* What a call has moved returns to its path if that is empty, except from the archive, where only another file than
\* the captured one does.
MayReturn == moved # Absent /\ live[Place] = Absent /\ (job.step = "compare" => moved # job.seen["canonical"])
Return == MayReturn /\ Change(Place, [moved EXCEPT !.id = FreshId]) /\ UNCHANGED <<aside, manual>>
Stay ==
  /\ aside' = IF moved = Absent THEN aside ELSE aside \cup {[file |-> Place, text |-> moved.text]}
  /\ manual' = (manual \/ job.step = "record" \/ (moved # Absent /\ Place = "projection"))
  /\ UNCHANGED live
\* ACTION: a call fails.
Fail ==
  /\ Busy /\ Ends /\ lock' = "free"
  /\ \/ ~Goes /\ (Return \/ (~MayReturn /\ Stay)) /\ UNCHANGED <<faults, record, torn>>
     \/ faults < MaxFaults /\ faults + edits < MaxTroubles /\ faults' = faults + 1 /\ (Return \/ Stay) /\ MayTear
  /\ UNCHANGED <<bundle, receipts, latest, edits, adopted, calls>>

\* ACTION: its process dies.
Crash ==
  /\ Busy /\ Ends /\ lock' = "orphan"
  /\ faults < MaxFaults /\ faults + edits < MaxTroubles /\ faults' = faults + 1 /\ MayTear
  /\ Stay /\ UNCHANGED <<bundle, receipts, latest, edits, adopted, calls>>

\* ACTION: an operator removes a dead owner's lock.
ClearLock ==
  /\ lock = "orphan" /\ lock' = "free"
  /\ UNCHANGED <<live, moved, aside, evidence, job, world, calls, faults, manual>>

-----------------------------------------------------------------------------
(* Everybody else *)

\* The texts that a file has had, which a version control system brings back.
Former(file) == {text \in UNION {Retained(op) : op \in Prepared} : (file = "canonical") = (text[1] = "canonical")}
\* ACTION: others write a new text or a former one, or delete the file.
Outsiders(file) ==
  /\ edits < MaxEdits /\ faults + edits < MaxTroubles /\ edits' = edits + 1
  /\ \/ /\ live[file] # Absent /\ Change(file, Absent)
        /\ latest' = [latest EXCEPT ![file] = Absent] /\ UNCHANGED guests
     \/ \E text \in Former(file) \cup {Source(edits + 1)} :
          /\ Change(file, [text |-> text, id |-> FreshId, by |-> 0])
          /\ latest' = [latest EXCEPT ![file] = text]
          /\ guests' = IF Busy /\ file = "canonical" THEN guests \cup {live'[file]} ELSE guests
  /\ manual' = (manual \/ Busy \/ \E op \in Prepared : Shows(op))
  /\ UNCHANGED <<moved, aside, evidence, lock, job, adopted, calls, faults>>

-----------------------------------------------------------------------------
Work ==
  \/ CheckStart \/ Create \/ Record \/ CheckReplace \/ Take \/ Put \/ CheckReplaced \/ CaptureWithdrawn
  \/ WithdrawCanonical \/ CompareWithdrawn \/ VerifyOutputs \/ Receipt \/ Fail
MigrationNext ==
  \/ \E op \in Ops : PrepareBundle(op) \/ ApplyBundle(op) \/ RollbackBundle(op)
  \/ Work \/ Crash \/ ClearLock
  \/ \E file \in Files : Outsiders(file)

MigrationSpec == MigrationInit /\ [][MigrationNext]_migrationVars

\* A process that runs goes on; an operator removes a dead owner's lock and insists on the rollback.
Fairness == WF_migrationVars(Work) /\ WF_migrationVars(ClearLock) /\ WF_migrationVars(\E op \in Ops : RollbackBundle(op))
FairSpec == MigrationSpec /\ Fairness

-----------------------------------------------------------------------------
(* Properties *)

MigrationTypeOK ==
  /\ live \in [Files -> Entries \cup {Absent}] /\ moved \in Entries \cup {Absent}
  /\ aside \subseteq [file : Files, text : Texts]
  /\ bundle \in [Ops -> Entries \cup {Absent}] /\ record \in [Ops -> Ids \cup {Absent, Torn}]
  /\ receipts \subseteq Ops \X {"applied", "rolled-back"} /\ torn \subseteq Ops \X {"applied", "rolled-back"}
  /\ lock \in {"free", "held", "orphan"} /\ job \in Jobs \cup {Idle}
  /\ latest \in [Files -> Texts \cup {Absent}] /\ guests \subseteq Entries /\ adopted \subseteq Ops
  /\ calls \in Nat /\ edits \in 0..MaxEdits /\ faults \in 0..MaxFaults /\ manual \in BOOLEAN

\* The text that others have given a file last is never lost: it is on its path, on its way, beside it, in the
\* archive, or retained with an operation that has replaced it.
LatestKept ==
  \A file \in Files : latest[file] # Absent =>
    \/ latest[file] \in {f.text : f \in {live[file], moved} \ {Absent}}
    \/ [file |-> file, text |-> latest[file]] \in aside
    \/ \E op \in Prepared : latest[file] \in Retained(op)

\* A rollback leaves in the archive only a canonical file that its operation has made, whatever bytes and identities
\* the files of others have: with two exceptions, in which the code goes by the bytes, against
\* docs/memory-migration-write.md:64-65, by which these alone never authorize adoption or withdrawal.  One is a file
\* that others put there during this very rollback, after its identity check.  The other was put there during the
\* operation's own application, between the publication and the capture for the record, and is now in the record.
OnlyOwnWithdrawn ==
  [][Busy /\ moved' = Absent /\ moved # Absent /\ job.step = "compare" /\ job' # Idle
       => \/ moved.by = job.op \/ moved \in guests
          \/ job.op \in adopted /\ moved.id = record[job.op]]_migrationVars

\* A migration that was rolled back never shows again; whatever was called, failed or died before.
RolledBackStays == [][\A op \in Prepared : Has(op, "rolled-back") /\ ~Shows(op) => ~Shows(op)']_migrationVars

\* The outputs of a migration disappear again, and its source is back, for an operator who insists on the rollback,
\* wherever the application or an earlier rollback has stopped; unless others have changed the files, a publication
\* has not ended, or the record of the canonical file could not be made: then the operator has to look.
RollbackEnds ==
  \A op \in Ops : (op \in Prepared /\ Shows(op)) ~>
    (manual \/ (op \in Prepared /\ live["canonical"] = Absent /\ Holds("projection", Raw(op))))
=============================================================================
