--------------------------- MODULE HistoryRetention ---------------------------
(***************************************************************************)
(* Task history retention: lib/history-retention-write.js,                 *)
(* lib/history-retention.js and the task commands of bin/leerness.js that  *)
(* share their files.                                                      *)
(*                                                                         *)
(* An operation moves finished rows from the tracker (progress-tracker.md) *)
(* to the index of the retained history, or back, by a sequence of checked *)
(* publications under the tracker's lock: the journal says pending, the    *)
(* recovery files are saved, index and tracker are replaced, a receipt is  *)
(* written, the journal says complete.  A process may die, and any call    *)
(* may fail, between two of them; `recover` finishes what the journal      *)
(* names.  A publication is the one of CheckedReplace, in two steps: the   *)
(* file is moved away if it is what the operation has seen, and the new    *)
(* one is put on the empty path.                                           *)
(*                                                                         *)
(* A row is its task, and the tracker's text is its rows and the number of *)
(* its latest edit.  What refuses a call before its first step is left out *)
(* (statuses, limits, a malformed table, a stale preview, a replay), as is *)
(* `listArchivedTasks`, which reads the index once more and can only fail. *)
(***************************************************************************)
EXTENDS Integers

CONSTANTS
  First,      \* tasks at first
  MaxTask,    \* bound: task ids
  MaxOps,     \* bound: retentions
  MaxEdits,   \* bound: edits of the tracker
  MaxFaults,  \* bound: failing calls and deaths
  Absent, Idle

Tasks == 1..MaxTask
Ops == 1..MaxOps
Files == {"tracker", "index", "journal"}
Actions == {"retain", "restore"}
Steps == {"journal", "artifacts", "check", "first", "second", "final", "receipt", "recheck", "complete"}
Whole == 2   \* 1: the operation's directory and some of its files; 2: all four, and the manifest

\* What the files hold, and what an operation knows of itself.
Text == [rows : SUBSET Tasks, edit : 0..MaxEdits]
Index == SUBSET (Tasks \X Ops)
Journal == [op : Ops, action : Actions, state : {"pending", "complete"}]
Paths == [tracker : {Absent} \cup Text, index : {Absent} \cup Index, journal : {Absent} \cup Journal]
Manifests == [tasks : SUBSET Tasks, tracker : Text, index : {Absent} \cup Index]
Readers == [step : {"idle", "journal", "index", "recheck"}, rows : SUBSET Tasks, missing : BOOLEAN,
            journal : {Absent} \cup Journal, index : SUBSET Tasks]
Jobs == [op : Ops, action : Actions, step : Steps, seen : Paths]

ASSUME RetentionAssumption ==
  /\ First \in Nat \ {0} /\ MaxTask \in Nat \ (0..First - 1) /\ MaxOps \in Nat /\ MaxEdits \in Nat /\ MaxFaults \in Nat
  /\ Absent \notin Text \cup Journal \cup Manifests /\ (\A index \in Index : index # Absent) /\ Idle \notin Jobs

VARIABLES
  live,      \* what is on the path of each file
  moved,     \* what a publication has moved away and not replaced yet
  aside,     \* what was left beside the path of its file
  plan,      \* what each operation's manifest records
  saved,     \* which of an operation's recovery files there are
  receipts,  \* completion receipts
  lock,      \* the tracker's lock: "free", "held", or "orphan" of a dead owner
  job,       \* the operation that holds the lock
  reader,    \* a `task list` under way
  found,     \* the task whose row a `task update` has found, 0 if none
  tasks,     \* every task there ever was
  reused,    \* was the id of a task given to another?
  edits,     \* edits of the tracker so far
  faults,
  manual     \* did somebody else edit the tracker during an operation, or was a file left aside?

vars == <<live, moved, aside, plan, saved, receipts, lock, job, reader, found, tasks, reused, edits, faults, manual>>
archive == <<plan, saved, receipts>>
others == <<reader, found, tasks, reused, edits>>

Rows == IF live["tracker"] = Absent THEN {} ELSE live["tracker"].rows
Indexed(index) == IF index = Absent THEN {} ELSE {entry[1] : entry \in index}
Entries(op) == {<<t, op>> : t \in plan[op].tasks}
Record(op, action, state) == [op |-> op, action |-> action, state |-> state]
Pending == live["journal"] # Absent /\ live["journal"].state = "pending"
HistoryExists == \E op \in Ops : saved[op] > 0

\* The tracker and the index before and after an operation (derive); an index that was absent returns empty.
TrackerBefore(op) == plan[op].tracker
TrackerAfter(op) == [plan[op].tracker EXCEPT !.rows = @ \ plan[op].tasks]
IndexBefore(op) == IF plan[op].index = Absent THEN {} ELSE plan[op].index
IndexAfter(op) == IndexBefore(op) \cup Entries(op)
Goal(op, action, file) ==
  IF file = "tracker" THEN IF action = "retain" THEN TrackerAfter(op) ELSE TrackerBefore(op)
  ELSE IF action = "retain" THEN IndexAfter(op) ELSE IndexBefore(op)

NoReader == [step |-> "idle", rows |-> {}, missing |-> FALSE, journal |-> Absent, index |-> {}]

Init ==
  /\ tasks = 1..First
  /\ live = [file \in Files |-> IF file = "tracker" THEN [rows |-> 1..First, edit |-> 0] ELSE Absent]
  /\ moved = Absent /\ aside = {} /\ lock = "free" /\ job = Idle
  /\ plan = [op \in Ops |-> Absent] /\ saved = [op \in Ops |-> 0] /\ receipts = {}
  /\ reader = NoReader /\ found = 0 /\ reused = FALSE
  /\ edits = 0 /\ faults = 0 /\ manual = FALSE

\* When the tracker is another file, by its identity and times, a list under way will find out at its end and fail.
\* Mutant: it only looks whether there is a tracker.
Publish_unnoticed(file, content) ==
  /\ live' = [live EXCEPT ![file] = content]
  /\ reader' = IF file = "tracker" /\ content = Absent THEN NoReader ELSE reader
Publish(file, content) ==
  /\ live' = [live EXCEPT ![file] = content]
  /\ reader' = IF file = "tracker" THEN NoReader ELSE reader

-----------------------------------------------------------------------------
(* Starting an operation *)

Begin(op, action) ==
  /\ lock = "free" /\ job = Idle
  /\ lock' = "held"
  /\ job' = [op |-> op, action |-> action, step |-> "journal", seen |-> live]
  /\ UNCHANGED <<live, moved, aside, saved, receipts, reader, found, tasks, reused, edits, faults, manual>>

\* ACTION: retain chosen rows; the manifest is derived from what is there.
Apply(op, chosen) ==
  /\ ~Pending /\ plan[op] = Absent
  /\ chosen # {} /\ chosen \subseteq Rows /\ chosen \cap Indexed(live["index"]) = {}
  /\ HistoryExists => live["index"] # Absent
  /\ plan' = [plan EXCEPT ![op] = [tasks |-> chosen, tracker |-> live["tracker"], index |-> live["index"]]]
  /\ Begin(op, "retain")

\* ACTION: put them back, if nothing else has changed the two files.
\* Mutant: the tracker is not compared.
Restore_forced(op) ==
  /\ ~Pending /\ plan[op] # Absent /\ saved[op] = Whole
  /\ <<op, "retain">> \in receipts /\ <<op, "restore">> \notin receipts
  /\ live["tracker"] # Absent /\ live["index"] = IndexAfter(op)
  /\ UNCHANGED plan /\ Begin(op, "restore")
Restore(op) ==
  /\ ~Pending /\ plan[op] # Absent /\ saved[op] = Whole
  /\ <<op, "retain">> \in receipts /\ <<op, "restore">> \notin receipts
  /\ live["tracker"] = TrackerAfter(op) /\ live["index"] = IndexAfter(op)
  /\ UNCHANGED plan /\ Begin(op, "restore")

\* Does every file have a content that the operation has seen or written?  Files that are still to be saved can be
\* made again from the originals only.
\* Mutant: an absent index is not one of the states before the operation.
Recoverable_noIndex(op, action) ==
  /\ live["tracker"] \in {TrackerBefore(op), TrackerAfter(op)}
  /\ live["index"] \in {IndexBefore(op), IndexAfter(op)}
  /\ saved[op] < Whole => live["tracker"] = TrackerBefore(op) /\ live["index"] = plan[op].index
  /\ action = "restore" => <<op, "retain">> \in receipts
Recoverable(op, action) ==
  /\ live["tracker"] \in {TrackerBefore(op), TrackerAfter(op)}
  /\ live["index"] \in {plan[op].index, IndexBefore(op), IndexAfter(op)}
  /\ saved[op] < Whole => live["tracker"] = TrackerBefore(op) /\ live["index"] = plan[op].index
  /\ action = "restore" => <<op, "retain">> \in receipts

\* ACTION: finish the operation that the journal names.
Recover ==
  /\ Pending
  /\ LET op == live["journal"].op
         action == live["journal"].action
     IN Recoverable(op, action) /\ UNCHANGED plan /\ Begin(op, action)

-----------------------------------------------------------------------------
(* Its publications *)

Busy == job # Idle
At(step) == Busy /\ job.step = step
Publishing == Busy /\ job.step \in {"journal", "first", "second", "complete"}
NextStep == [journal |-> "artifacts", artifacts |-> "check", check |-> "first", first |-> "second",
             second |-> "final", final |-> "receipt", receipt |-> "recheck", recheck |-> "complete"]
Advance == job' = [job EXCEPT !.step = NextStep[@]]

\* The index gains the rows before the tracker loses them, and the other way round.
\* Mutant: the tracker is always first.
Subject_trackerFirst ==
  IF job.step \in {"journal", "complete"} THEN "journal" ELSE IF job.step = "first" THEN "tracker" ELSE "index"
Subject ==
  IF job.step \in {"journal", "complete"} THEN "journal"
  ELSE IF (job.step = "first") = (job.action = "retain") THEN "index" ELSE "tracker"
Seen == IF job.step = "complete" THEN Record(job.op, job.action, "pending") ELSE job.seen[Subject]
Target ==
  IF job.step = "journal" THEN Record(job.op, job.action, "pending")
  ELSE IF job.step = "complete" THEN Record(job.op, job.action, "complete")
  ELSE Goal(job.op, job.action, Subject)

\* ACTION: the file is what the operation has seen, and moves out of the way.
\* Mutant: it is not looked at.
Take_blind ==
  /\ Publishing /\ moved = Absent /\ live[Subject] # Absent /\ Seen \notin {Absent, Target}
  /\ Publish(Subject, Absent) /\ moved' = live[Subject]
  /\ UNCHANGED <<aside, archive, lock, job, found, tasks, reused, edits, faults, manual>>
Take ==
  /\ Publishing /\ moved = Absent /\ live[Subject] = Seen /\ Seen \notin {Absent, Target}
  /\ Publish(Subject, Absent) /\ moved' = Seen
  /\ UNCHANGED <<aside, archive, lock, job, found, tasks, reused, edits, faults, manual>>

\* ACTION: the new file is linked to the empty path.
Put ==
  /\ Publishing /\ live[Subject] = Absent /\ (moved # Absent \/ Seen = Absent)
  /\ Publish(Subject, Target) /\ moved' = Absent
  /\ IF job.step = "complete" THEN job' = Idle /\ lock' = "free" ELSE Advance /\ UNCHANGED lock
  /\ UNCHANGED <<aside, archive, found, tasks, reused, edits, faults, manual>>

\* ACTION: a resumed operation finds a file done.
Keep ==
  /\ Publishing /\ moved = Absent /\ Seen = Target /\ live[Subject] = Seen
  /\ Advance
  /\ UNCHANGED <<live, moved, aside, archive, lock, others, faults, manual>>

\* ACTION: the recovery files are saved, one after the other.
Save ==
  /\ At("artifacts")
  /\ IF saved[job.op] < Whole
     THEN saved' = [saved EXCEPT ![job.op] = @ + 1] /\ UNCHANGED job
     ELSE Advance /\ UNCHANGED saved
  /\ UNCHANGED <<live, moved, aside, plan, receipts, lock, others, faults, manual>>

\* What the operation compares between its publications.
Agrees ==
  \/ At("check") /\ live["tracker"] = job.seen["tracker"] /\ live["index"] = job.seen["index"]
  \/ /\ At("final") \/ At("recheck")
     /\ \A file \in {"tracker", "index"} : live[file] = Goal(job.op, job.action, file)
\* ACTION: one of these comparisons holds.
Compare ==
  /\ Agrees /\ Advance
  /\ UNCHANGED <<live, moved, aside, archive, lock, others, faults, manual>>

\* ACTION: the completion receipt is written.
Receipt ==
  /\ At("receipt") /\ receipts' = receipts \cup {<<job.op, job.action>>} /\ Advance
  /\ UNCHANGED <<live, moved, aside, plan, saved, lock, others, faults, manual>>

-----------------------------------------------------------------------------
(* Its failures *)

Mismatch ==
  \/ Publishing /\ (IF moved = Absent THEN live[Subject] # Seen ELSE live[Subject] # Absent)
  \/ (At("check") \/ At("final") \/ At("recheck")) /\ ~Agrees

\* What was moved away returns to its path if that is empty; otherwise it stays beside it.
LeaveAside == aside' = (IF moved # Absent THEN aside \cup {[file |-> Subject, content |-> moved]} ELSE aside)
\* ACTION: the operation stops, and leaves the journal as it is.
Stop ==
  /\ Busy /\ job' = Idle /\ lock' = "free" /\ moved' = Absent
  /\ \/ Mismatch /\ UNCHANGED faults
     \/ ~Mismatch /\ faults < MaxFaults /\ faults' = faults + 1
  /\ \/ moved = Absent /\ UNCHANGED <<live, reader, aside, manual>>
     \/ moved # Absent /\ live[Subject] = Absent /\ Publish(Subject, moved) /\ UNCHANGED <<aside, manual>>
     \/ moved # Absent /\ (live[Subject] # Absent \/ ~Mismatch)
        /\ LeaveAside /\ manual' = TRUE /\ UNCHANGED <<live, reader>>
  /\ UNCHANGED <<archive, found, tasks, reused, edits>>

\* ACTION: the process dies and leaves its lock.
Die ==
  /\ Busy /\ faults < MaxFaults /\ faults' = faults + 1
  /\ job' = Idle /\ lock' = "orphan"
  /\ LeaveAside /\ moved' = Absent /\ manual' = (manual \/ moved # Absent)
  /\ UNCHANGED <<live, archive, others>>

\* ACTION: an operator removes it.
ClearLock ==
  /\ lock = "orphan" /\ lock' = "free"
  /\ UNCHANGED <<live, moved, aside, archive, job, others, faults, manual>>

-----------------------------------------------------------------------------
(* The task commands *)

\* Is the index the one that a complete journal vouches for?
Complete(journal, index) ==
  /\ HistoryExists => index # Absent
  /\ journal # Absent =>
       /\ index # Absent /\ saved[journal.op] = Whole /\ <<journal.op, journal.action>> \in receipts
       /\ index = Goal(journal.op, journal.action, "index")
IsNext(id, ids) == (id = 1 \/ id - 1 \in ids) /\ \A t \in ids : t < id

Edited(rows) ==
  /\ edits < MaxEdits /\ edits' = edits + 1
  /\ Publish("tracker", [rows |-> rows, edit |-> edits + 1])
  /\ manual' = (manual \/ Pending \/ job # Idle)

\* ACTION: a new task has the first id after those of the tracker and of the history.
Add ==
  /\ lock = "free" /\ ~Pending /\ Complete(live["journal"], live["index"])
  /\ \E id \in Tasks :
       /\ IsNext(id, Rows \cup Indexed(live["index"]))
       /\ Edited(Rows \cup {id}) /\ tasks' = tasks \cup {id} /\ reused' = (reused \/ id \in tasks)
  /\ UNCHANGED <<moved, aside, archive, lock, job, found, faults>>

\* ACTION: a task update finds the row of its task, without the lock.
Find(id) ==
  /\ found = 0 /\ id \in Rows /\ found' = id
  /\ UNCHANGED <<live, moved, aside, archive, lock, job, reader, tasks, reused, edits, faults, manual>>
\* ACTION: under the lock it replaces the row, or appends it when it is not there.
Upsert ==
  /\ found # 0 /\ lock = "free" /\ found' = 0
  /\ Edited(Rows \cup {found})
  /\ UNCHANGED <<moved, aside, archive, lock, job, tasks, reused, faults>>

\* ACTION: an editor saves the tracker that it has read; it ignores the lock.
EditTracker ==
  /\ \/ live["tracker"] # Absent /\ Edited(Rows)
     \/ Publishing /\ Subject = "tracker" /\ moved # Absent /\ live["tracker"] = Absent /\ Edited(moved.rows)
  /\ UNCHANGED <<moved, aside, archive, lock, job, found, tasks, reused, faults>>

\* ACTION: `task list` reads the tracker,
ReadTracker ==
  /\ reader.step = "idle"
  /\ reader' = [NoReader EXCEPT !.step = "journal", !.rows = Rows, !.missing = live["tracker"] = Absent]
  /\ UNCHANGED <<live, moved, aside, archive, lock, job, found, tasks, reused, edits, faults, manual>>
\* ACTION: then the journal,
ReadJournal ==
  /\ reader.step = "journal"
  /\ reader' = IF Pending THEN NoReader ELSE [reader EXCEPT !.step = "index", !.journal = live["journal"]]
  /\ UNCHANGED <<live, moved, aside, archive, lock, job, found, tasks, reused, edits, faults, manual>>
\* ACTION: and the index, which must be the journal's and share no task with the tracker;
ReadIndex ==
  /\ reader.step = "index"
  /\ reader' = IF Complete(reader.journal, live["index"]) /\ reader.rows \cap Indexed(live["index"]) = {}
               THEN [reader EXCEPT !.step = "recheck", !.index = Indexed(live["index"])] ELSE NoReader
  /\ UNCHANGED <<live, moved, aside, archive, lock, job, found, tasks, reused, edits, faults, manual>>
\* ACTION: it prints both, since the tracker is still the same file.
PrintList ==
  /\ reader.step = "recheck" /\ reader' = NoReader
  /\ UNCHANGED <<live, moved, aside, archive, lock, job, found, tasks, reused, edits, faults, manual>>
TaskList == ReadTracker \/ ReadJournal \/ ReadIndex \/ PrintList

-----------------------------------------------------------------------------
Work == Take \/ Put \/ Keep \/ Save \/ Compare \/ Receipt \/ Stop
Next ==
  \/ \E op \in Ops : Restore(op) \/ \E chosen \in SUBSET Tasks : Apply(op, chosen)
  \/ Recover \/ Work \/ Die \/ ClearLock
  \/ Add \/ (\E id \in Tasks : Find(id)) \/ Upsert \/ EditTracker \/ TaskList

Spec == Init /\ [][Next]_vars

\* A process that runs goes on; an operator removes a dead owner's lock and asks for the recovery.
Fairness == WF_vars(Work) /\ WF_vars(Recover) /\ WF_vars(ClearLock)
FairSpec == Spec /\ Fairness

-----------------------------------------------------------------------------
(* Properties *)

\* What the files, the manifests, an operation and a list hold.
TypeOK ==
  /\ live \in Paths /\ \A kept \in aside : kept.file \in Files
  /\ plan \in [Ops -> {Absent} \cup Manifests]
  /\ saved \in [Ops -> 0..Whole] /\ receipts \subseteq Ops \X Actions
  /\ lock \in {"free", "held", "orphan"} /\ job \in {Idle} \cup Jobs
  /\ reader \in Readers
  /\ found \in {0} \cup Tasks /\ tasks \subseteq Tasks /\ reused \in BOOLEAN /\ manual \in BOOLEAN
  /\ edits \in 0..MaxEdits /\ faults \in 0..MaxFaults

\* Every text of a file that is on its path, on its way, or beside it.
Texts(file) ==
  ({live[file]} \cup (IF moved # Absent /\ Subject = file THEN {moved} ELSE {})
     \cup {kept.content : kept \in {k \in aside : k.file = file}}) \ {Absent}

\* Through deaths, failures, recoveries and restores every task has its row in the tracker, or an index entry
\* whose original is saved, and no id is given to a second task.
EveryTaskKept ==
  /\ ~reused
  /\ \A t \in tasks :
       \/ \E text \in Texts("tracker") : t \in text.rows
       \/ \E index \in Texts("index") : \E entry \in index : entry[1] = t /\ saved[entry[2]] = Whole

\* No operation, recovery or restore replaces the latest edit of the tracker, whoever made it.
LatestEditKept == \E text \in Texts("tracker") : text.edit = edits

\* A task list that found a tracker, and is printed, has every task once, whatever ran while it was read.
ListIsComplete ==
  [][reader.step = "recheck" /\ reader'.step = "idle" /\ UNCHANGED live /\ ~reader.missing =>
       reader.rows \cup reader.index = tasks /\ reader.rows \cap reader.index = {}]_vars

\* A pending operation is finished by its recovery, unless somebody else has edited the tracker meanwhile or a
\* file could not be returned to its path: then an operator has to look.
RecoveryEnds == Pending ~> (~Pending \/ manual)

\* A task is active or retained, never both, when no operation is pending.  (bin/leerness.js:16174: a row for a
\* task that is not there is "data corruption", which the check of its existence prevents.)
ActiveOrRetained == ~Pending /\ job = Idle => Rows \cap Indexed(live["index"]) = {}
=============================================================================
