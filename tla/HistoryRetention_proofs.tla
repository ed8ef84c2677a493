------------------------ MODULE HistoryRetention_proofs ------------------------
(***************************************************************************)
(* Proofs about the task history, for any number of tasks, operations,     *)
(* edits, failing calls and deaths, an editor that ignores the lock and a  *)
(* list that is read meanwhile.                                            *)
(*                                                                         *)
(* The invariant follows the operation that the journal names: what its    *)
(* manifest vouches for, which of the two files is done half-way, and      *)
(* where each task is until it ends.  ListInv adds what a list under way   *)
(* has read of the tracker, and what it will find in the index.            *)
(***************************************************************************)
EXTENDS HistoryRetention, TLAPS

-----------------------------------------------------------------------------
(* The invariant *)

\* Whoever works holds the lock, and started from files that the manifest knows.
Holding ==
  /\ job # Idle <=> lock = "held"
  /\ job # Idle =>
       /\ plan[job.op] # Absent
       /\ job.seen.tracker \in {TrackerBefore(job.op), TrackerAfter(job.op)}
       /\ job.seen.index \in {plan[job.op].index, IndexBefore(job.op), IndexAfter(job.op)}
       /\ job.seen.journal # Absent /\ job.seen.journal.state = "pending"
            => job.seen.journal = Record(job.op, job.action, "pending")
       /\ job.step \in Steps \ {"journal", "artifacts"} => saved[job.op] = Whole

\* What has been moved away is what the operation has seen there.
Moving == moved # Absent => Publishing /\ moved = Seen /\ Seen # Target

\* Between its first and its last step, the operation is the one the journal names.
Named ==
  job # Idle /\ job.step # "journal" /\ (job.step = "complete" => moved = Absent)
    => live.journal = Record(job.op, job.action, "pending")

\* A manifest keeps what it took from the tracker, all that it names has been there, and what is indexed is saved.
Good(index) == \A entry \in index : entry[2] \in Ops /\ saved[entry[2]] = Whole
Known ==
  /\ \A op \in Ops : plan[op] # Absent =>
       /\ plan[op].tasks # {} /\ plan[op].tasks \subseteq plan[op].tracker.rows
       /\ plan[op].tracker.rows \subseteq tasks
       /\ Indexed(plan[op].index) \subseteq tasks
       /\ Good(IndexBefore(op))
  /\ Rows \subseteq tasks /\ Indexed(live.index) \subseteq tasks
  /\ found \in {0} \cup tasks
  /\ \A index \in Texts("index") : Good(index)

\* Half-way, the first of the two files is done.
Halfway ==
  job # Idle /\ job.step \in {"second", "final", "receipt", "recheck", "complete"} =>
    /\ job.action = "retain" => live.index = IndexAfter(job.op)
    /\ job.action = "restore" => live.tracker # Absent /\ TrackerBefore(job.op).rows \subseteq Rows

\* During an operation every task is where the manifest found it, or where the operation takes it.
Carried(op) ==
  /\ plan[op] # Absent
  /\ tasks \subseteq TrackerBefore(op).rows \cup Indexed(plan[op].index)
  /\ \E text \in Texts("tracker") : TrackerAfter(op).rows \subseteq text.rows
  /\ IndexBefore(op) = {} \/ \E index \in Texts("index") : IndexBefore(op) \subseteq index
  /\ \/ \E text \in Texts("tracker") : plan[op].tasks \subseteq text.rows
     \/ \E index \in Texts("index") : Entries(op) \subseteq index
\* Otherwise every task is in the tracker or in the index.
Settled == tasks \subseteq Rows \cup Indexed(live.index)
Everywhere ==
  /\ job # Idle => Carried(job.op)
  /\ Pending => Carried(live.journal.op)
  /\ ~Pending /\ (job = Idle \/ job.step = "journal") => Settled
  /\ job # Idle /\ job.step = "complete" => Settled

\* The latest edit is somewhere.
Latest == \E text \in Texts("tracker") : text.edit = edits

RetentionInv == TypeOK /\ Holding /\ Moving /\ Named /\ Known /\ Halfway /\ Everywhere /\ ~reused /\ Latest

\* What a list under way has read is still the tracker; when the journal is pending after it has been read, the
\* operation has not reached the tracker, and a row that is in the index already is in both, or it is back at its end.
Fresh == reader.step \in {"journal", "index", "recheck"} /\ ~reader.missing
Untouched(op, action) ==
  /\ action = "retain" =>
       /\ Rows = TrackerBefore(op).rows
       /\ live.index \in {Absent, plan[op].index, IndexBefore(op), IndexAfter(op)}
       /\ live.index = Absent => plan[op].index = Absent \/ HistoryExists
  /\ action = "restore" => Rows = TrackerAfter(op).rows /\ live.index = IndexAfter(op)
Finished(op, action) == Rows = Goal(op, action, "tracker").rows /\ live.index = Goal(op, action, "index")
ReadWell == Fresh => live.tracker # Absent /\ reader.rows = Rows
Started == job # Idle /\ job.step = "journal" /\ ~Pending => live.tracker # Absent /\ Untouched(job.op, job.action)
Ended == job # Idle /\ job.step = "complete" => live.tracker # Absent /\ Finished(job.op, job.action)
ReadBefore ==
  Fresh /\ reader.step = "index" /\ Pending =>
    \/ Untouched(live.journal.op, live.journal.action)
    \/ Finished(live.journal.op, live.journal.action)
ReadAll ==
  Fresh /\ reader.step = "recheck" => reader.rows \cup reader.index = tasks /\ reader.rows \cap reader.index = {}
ListInv == ReadWell /\ Started /\ Ended /\ ReadBefore /\ ReadAll

-----------------------------------------------------------------------------
(* Types *)

\* The file of each publishing step, what was seen there, and what shall be there.
TrackerTurn == Busy /\ <<job.step, job.action>> \in {<<"first", "restore">>, <<"second", "retain">>}
IndexTurn == Busy /\ <<job.step, job.action>> \in {<<"first", "retain">>, <<"second", "restore">>}
JournalTurn == Busy /\ job.step \in {"journal", "complete"}
LEMMA Turns ==
  ASSUME TypeOK
  PROVE  /\ Publishing <=> TrackerTurn \/ IndexTurn \/ JournalTurn
         /\ TrackerTurn => /\ Subject = "tracker" /\ Seen = job.seen.tracker
                           /\ Target = IF job.action = "retain" THEN TrackerAfter(job.op) ELSE TrackerBefore(job.op)
         /\ IndexTurn => /\ Subject = "index" /\ Seen = job.seen.index
                         /\ Target = IF job.action = "retain" THEN IndexAfter(job.op) ELSE IndexBefore(job.op)
         /\ JournalTurn => /\ Subject = "journal"
                           /\ job.step = "journal" => /\ Seen = job.seen.journal
                                                      /\ Target = Record(job.op, job.action, "pending")
                           /\ job.step = "complete" => /\ Seen = Record(job.op, job.action, "pending")
                                                       /\ Target = Record(job.op, job.action, "complete")
         /\ Busy => job \in Jobs /\ job.op \in Ops /\ job.action \in Actions /\ job.step \in Steps /\ job.seen \in Paths
<1>1. Busy => job \in Jobs /\ job.op \in Ops /\ job.action \in Actions /\ job.step \in Steps /\ job.seen \in Paths
  BY DEF TypeOK, Busy, Jobs
<1>2. Publishing <=> TrackerTurn \/ IndexTurn \/ JournalTurn
  BY <1>1 DEF Publishing, TrackerTurn, IndexTurn, JournalTurn, Actions
<1>3. TrackerTurn => /\ Subject = "tracker" /\ Seen = job.seen.tracker
                     /\ Target = IF job.action = "retain" THEN TrackerAfter(job.op) ELSE TrackerBefore(job.op)
  BY <1>1 DEF TrackerTurn, Subject, Seen, Target, Goal, Actions, Paths
<1>4. IndexTurn => /\ Subject = "index" /\ Seen = job.seen.index
                   /\ Target = IF job.action = "retain" THEN IndexAfter(job.op) ELSE IndexBefore(job.op)
  BY <1>1 DEF IndexTurn, Subject, Seen, Target, Goal, Actions, Paths
<1>5. JournalTurn => /\ Subject = "journal"
                     /\ job.step = "journal" => /\ Seen = job.seen.journal
                                                /\ Target = Record(job.op, job.action, "pending")
                     /\ job.step = "complete" => /\ Seen = Record(job.op, job.action, "pending")
                                                 /\ Target = Record(job.op, job.action, "complete")
  BY <1>1 DEF JournalTurn, Subject, Seen, Target, Paths
<1> QED
  BY <1>1, <1>2, <1>3, <1>4, <1>5

\* A manifest's states of the two files, and the goals of each step, are contents of those files.
LEMMA PlanTypes ==
  ASSUME TypeOK, NEW op \in Ops, plan[op] # Absent
  PROVE  /\ TrackerBefore(op) \in Text /\ TrackerAfter(op) \in Text
         /\ IndexBefore(op) \in Index /\ IndexAfter(op) \in Index
         /\ TrackerAfter(op).rows = TrackerBefore(op).rows \ plan[op].tasks
         /\ TrackerAfter(op).edit = TrackerBefore(op).edit
         /\ plan[op].tasks \subseteq Tasks /\ plan[op].tracker = TrackerBefore(op)
         /\ IndexBefore(op) \subseteq IndexAfter(op) /\ Entries(op) \subseteq IndexAfter(op)
         /\ Indexed(plan[op].index) = {entry[1] : entry \in IndexBefore(op)}
<1> USE RetentionAssumption
<1>1. plan[op] \in [tasks : SUBSET Tasks, tracker : Text, index : {Absent} \cup Index]
  BY DEF TypeOK, Manifests
<1>2. TrackerBefore(op) \in Text /\ TrackerAfter(op) \in Text
  BY <1>1 DEF TrackerBefore, TrackerAfter, Text
<1>3. Entries(op) \in Index /\ IndexBefore(op) \in Index
  BY <1>1 DEF Entries, IndexBefore, Index
<1>4. IndexAfter(op) \in Index /\ IndexBefore(op) \subseteq IndexAfter(op) /\ Entries(op) \subseteq IndexAfter(op)
  BY <1>3 DEF IndexAfter, Index
<1>5. TrackerAfter(op).rows = TrackerBefore(op).rows \ plan[op].tasks /\ TrackerAfter(op).edit = TrackerBefore(op).edit
  BY <1>1 DEF TrackerBefore, TrackerAfter, Text
<1>6. Indexed(plan[op].index) = {entry[1] : entry \in IndexBefore(op)}
  BY DEF Indexed, IndexBefore
<1> QED
  BY <1>1, <1>2, <1>3, <1>4, <1>5, <1>6 DEF TrackerBefore

\* What a step of an operation puts where is a content of that file.
LEMMA TurnTypes ==
  ASSUME TypeOK, Holding, Publishing
  PROVE  /\ TrackerTurn => Target \in Text
         /\ IndexTurn => Target \in Index
         /\ JournalTurn => Target \in Journal
         /\ Target # Absent
<1> USE RetentionAssumption
<1>1. job.op \in Ops /\ plan[job.op] # Absent /\ job.action \in Actions
  BY Turns DEF Holding, Publishing, Busy
<1>2. TrackerTurn => Target \in Text
  BY <1>1, Turns, PlanTypes
<1>3. IndexTurn => Target \in Index
  BY <1>1, Turns, PlanTypes
<1>4. JournalTurn => Target \in Journal
  BY <1>1, Turns DEF JournalTurn, Record, Journal
<1> QED
  BY <1>2, <1>3, <1>4, Turns

\* A publication of a content of the right type.
LEMMA PublishTypes ==
  ASSUME TypeOK, NEW file \in Files, NEW content, Publish(file, content),
         content # Absent => CASE file = "tracker" -> content \in Text
                               [] file = "index"   -> content \in Index
                               [] file = "journal" -> content \in Journal
  PROVE  /\ live' \in Paths
         /\ reader' \in Readers
<1>1. CASE file = "tracker"
  BY <1>1 DEF TypeOK, Publish, Paths, NoReader, Readers
<1>2. CASE file = "index"
  BY <1>2 DEF TypeOK, Publish, Paths
<1>3. CASE file = "journal"
  BY <1>3 DEF TypeOK, Publish, Paths
<1> QED
  BY <1>1, <1>2, <1>3 DEF Files

\* The rows of the tracker, and the tasks of the index.
LEMMA RowTypes ==
  ASSUME TypeOK
  PROVE  /\ Rows \subseteq Tasks /\ Indexed(live.index) \subseteq Tasks
         /\ live.tracker # Absent => live.tracker \in Text
         /\ live.index # Absent => live.index \in Index
         /\ live.journal # Absent => live.journal \in Journal
         /\ live["tracker"] = live.tracker /\ live["index"] = live.index /\ live["journal"] = live.journal
BY DEF TypeOK, Rows, Indexed, Paths, Text, Index

\* The steps that start an operation.
LEMMA BeginTypes ==
  ASSUME TypeOK, NEW op \in Ops, NEW action \in Actions, Begin(op, action)
  PROVE  /\ job' \in Jobs /\ job' # Idle /\ lock' = "held"
         /\ job'.op = op /\ job'.action = action /\ job'.step = "journal" /\ job'.seen = live
<1>1. job' \in Jobs
  BY DEF TypeOK, Begin, Jobs, Steps
<1> QED
  BY <1>1, RetentionAssumption DEF Begin

\* An edit of the tracker publishes a text.
LEMMA EditTypes ==
  ASSUME TypeOK, NEW rows \in SUBSET Tasks, Edited(rows)
  PROVE  /\ live' \in Paths /\ live'.tracker = [rows |-> rows, edit |-> edits + 1] /\ live'.tracker \in Text
         /\ live'.index = live.index /\ live'.journal = live.journal
         /\ reader' = NoReader /\ reader' \in Readers /\ edits' \in 0..MaxEdits /\ edits' = edits + 1
         /\ manual' \in BOOLEAN
<1> USE RetentionAssumption
<1>1. [rows |-> rows, edit |-> edits + 1] \in Text /\ edits' \in 0..MaxEdits
  BY DEF Edited, TypeOK, Text
<1>2. live' = [live EXCEPT !["tracker"] = [rows |-> rows, edit |-> edits + 1]] /\ reader' = NoReader
  BY DEF Edited, Publish
<1>3. live' \in Paths
  BY <1>1, <1>2 DEF TypeOK, Paths
<1> QED
  BY <1>1, <1>2, <1>3 DEF Edited, TypeOK, Paths, Pending, NoReader, Readers

\* What has been moved away is a content of its file.
LEMMA MovedTypes ==
  ASSUME TypeOK, Holding, Moving, moved # Absent
  PROVE  /\ Publishing /\ moved = Seen /\ Subject \in Files
         /\ TrackerTurn => moved \in Text
         /\ IndexTurn => moved \in Index
         /\ JournalTurn => moved \in Journal
<1>1. Publishing /\ moved = Seen /\ job.seen \in Paths /\ job.op \in Ops /\ job.action \in Actions
  BY Turns DEF Moving, Publishing
<1>2. TrackerTurn => moved \in Text
  BY <1>1, Turns DEF Paths
<1>3. IndexTurn => moved \in Index
  BY <1>1, Turns DEF Paths
<1>4. JournalTurn => moved \in Journal
  BY <1>1, Turns DEF Paths, JournalTurn, Record, Journal
<1> QED
  BY <1>1, <1>2, <1>3, <1>4, Turns DEF Files

\* No step leaves the types.
LEMMA TypeStep ==
  ASSUME TypeOK, Holding, Moving, [Next]_vars
  PROVE  TypeOK'
<1> USE RetentionAssumption
<1>1. ASSUME NEW op \in Ops, NEW chosen \in SUBSET Tasks, Apply(op, chosen) PROVE TypeOK'
  <2>1. live.tracker # Absent
    BY <1>1 DEF Apply, Rows
  <2>2. plan' = [plan EXCEPT ![op] = [tasks |-> chosen, tracker |-> live.tracker, index |-> live.index]]
    BY <1>1, RowTypes DEF Apply
  <2>3. plan' \in [Ops -> {Absent} \cup Manifests]
    BY <2>1, <2>2, RowTypes DEF TypeOK, Manifests
  <2> QED
    BY <1>1, <2>3, BeginTypes DEF TypeOK, Apply, Begin, Actions
<1>2. ASSUME NEW op \in Ops, Restore(op) PROVE TypeOK'
  BY <1>2, BeginTypes DEF TypeOK, Restore, Begin, Actions
<1>3. CASE Recover
  <2>1. live.journal \in Journal
    BY <1>3, RowTypes DEF Recover, Pending
  <2>2. PICK op \in Ops, action \in Actions : UNCHANGED plan /\ Begin(op, action)
    BY <1>3, <2>1 DEF Recover, Journal
  <2> QED
    BY <2>2, BeginTypes DEF TypeOK, Begin
<1>4. CASE Take
  BY <1>4, Turns, PublishTypes DEF Take, TypeOK, archive, Files
<1>5. CASE Put
  <2>1. job' \in {Idle} \cup Jobs /\ lock' \in {"free", "held", "orphan"}
    BY <1>5, Turns DEF Put, Advance, NextStep, Steps, Jobs, TypeOK, Publishing
  <2> QED
    BY <1>5, <2>1, Turns, TurnTypes, PublishTypes DEF Put, TypeOK, archive, Files
<1>6. CASE Keep
  <2>1. job.step # "complete"
    BY <1>6, Turns DEF Keep, JournalTurn, Record, Publishing, Busy
  <2>2. job' \in Jobs
    BY <1>6, <2>1, Turns DEF Keep, Advance, NextStep, Steps, Jobs, Publishing
  <2> QED
    BY <1>6, <2>2 DEF Keep, TypeOK, archive, others
<1>7. CASE Save
  <2>1. job' \in Jobs /\ saved' \in [Ops -> 0..Whole]
    BY <1>7, Turns DEF Save, At, Advance, NextStep, Steps, Jobs, TypeOK, Whole
  <2> QED
    BY <1>7, <2>1 DEF Save, TypeOK, others
<1>8. CASE Compare
  <2>1. job' \in Jobs
    BY <1>8, Turns DEF Compare, Agrees, At, Advance, NextStep, Steps, Jobs
  <2> QED
    BY <1>8, <2>1 DEF Compare, TypeOK, archive, others
<1>9. CASE Receipt
  <2>1. job' \in Jobs /\ receipts' \subseteq Ops \X Actions
    BY <1>9, Turns DEF Receipt, At, Advance, NextStep, Steps, Jobs, TypeOK
  <2> QED
    BY <1>9, <2>1 DEF Receipt, TypeOK, others
<1>10. CASE Stop
  <2>1. faults' \in 0..MaxFaults
    BY <1>10 DEF Stop, TypeOK
  <2>2. CASE moved # Absent /\ live[Subject] = Absent /\ Publish(Subject, moved) /\ UNCHANGED <<aside, manual>>
    BY <1>10, <2>1, <2>2, MovedTypes, Turns, PublishTypes DEF Stop, TypeOK, archive
  <2>3. CASE UNCHANGED <<live, reader>> /\ (UNCHANGED aside \/ LeaveAside) /\ manual' \in BOOLEAN
    BY <1>10, <2>1, <2>3, MovedTypes DEF Stop, TypeOK, archive, LeaveAside
  <2> QED
    BY <1>10, <2>2, <2>3 DEF Stop, TypeOK
<1>11. CASE Die
  BY <1>11, MovedTypes DEF Die, TypeOK, archive, others, LeaveAside
<1>12. CASE ClearLock
  BY <1>12 DEF ClearLock, TypeOK, archive, others
<1>13. CASE Add
  <2>1. PICK id \in Tasks : Edited(Rows \cup {id}) /\ tasks' = tasks \cup {id} /\ reused' = (reused \/ id \in tasks)
    BY <1>13 DEF Add
  <2> QED
    BY <1>13, <2>1, RowTypes, EditTypes DEF Add, TypeOK, archive
<1>14. ASSUME NEW id \in Tasks, Find(id) PROVE TypeOK'
  BY <1>14 DEF Find, TypeOK, archive
<1>15. CASE Upsert
  <2>1. found \in Tasks
    BY <1>15 DEF Upsert, TypeOK
  <2> QED
    BY <1>15, <2>1, RowTypes, EditTypes DEF Upsert, TypeOK, archive
<1>16. CASE EditTracker
  <2>1. PICK rows \in SUBSET Tasks : Edited(rows)
    <3>1. CASE Edited(Rows)
      BY <3>1, RowTypes
    <3>2. CASE Publishing /\ Subject = "tracker" /\ moved # Absent /\ Edited(moved.rows)
      BY <3>2, MovedTypes, Turns DEF Text
    <3> QED
      BY <1>16, <3>1, <3>2 DEF EditTracker
  <2> QED
    BY <1>16, <2>1, EditTypes DEF EditTracker, TypeOK, archive
<1>17. CASE TaskList
  <2>1. CASE ReadTracker
    BY <2>1, RowTypes DEF ReadTracker, NoReader, Readers, TypeOK, archive
  <2>2. CASE ReadJournal
    BY <2>2, RowTypes DEF ReadJournal, NoReader, Readers, TypeOK, archive
  <2>3. CASE ReadIndex
    BY <2>3, RowTypes DEF ReadIndex, NoReader, Readers, TypeOK, archive
  <2>4. CASE PrintList
    BY <2>4 DEF PrintList, NoReader, Readers, TypeOK, archive
  <2> QED
    BY <1>17, <2>1, <2>2, <2>3, <2>4 DEF TaskList
<1>18. CASE UNCHANGED vars
  BY <1>18 DEF vars, TypeOK
<1> QED
  BY <1>1, <1>2, <1>3, <1>4, <1>5, <1>6, <1>7, <1>8, <1>9, <1>10, <1>11, <1>12, <1>13, <1>14, <1>15, <1>16, <1>17, <1>18
  DEF Next, Work

-----------------------------------------------------------------------------
(* The operation, its lock and the journal *)

\* What the task commands, lists, operators and editors do does not concern the operation.
Aloof == ClearLock \/ Add \/ (\E id \in Tasks : Find(id)) \/ Upsert \/ EditTracker \/ TaskList \/ UNCHANGED vars
LEMMA AloofFrame ==
  ASSUME TypeOK, Aloof
  PROVE  /\ UNCHANGED <<plan, saved, job, moved, aside>>
         /\ live'.journal = live.journal /\ live'.index = live.index
         /\ lock' = IF lock = "orphan" THEN lock' ELSE lock
         /\ lock = "orphan" => lock' \in {"orphan", "free"}
<1>1. CASE UNCHANGED live
  BY <1>1 DEF Aloof, ClearLock, Add, Find, Upsert, EditTracker, TaskList, ReadTracker, ReadJournal, ReadIndex,
     PrintList, vars, archive, others
<1>2. ASSUME NEW rows, Edited(rows) PROVE live'.journal = live.journal /\ live'.index = live.index
  BY <1>2 DEF Edited, Publish, TypeOK, Paths
<1>3. CASE Add \/ Upsert \/ EditTracker
  BY <1>2, <1>3 DEF Add, Upsert, EditTracker, archive
<1> QED
  BY <1>1, <1>3 DEF Aloof, ClearLock, Find, TaskList, ReadTracker, ReadJournal, ReadIndex, PrintList,
     vars

\* An operation that begins.
LEMMA BeginFrame ==
  ASSUME TypeOK, NEW op \in Ops, NEW action \in Actions, Begin(op, action), plan'[op] # Absent,
         live.tracker \in {TrackerBefore(op)', TrackerAfter(op)'},
         live.index \in {plan'[op].index, IndexBefore(op)', IndexAfter(op)'},
         Pending => live.journal = Record(op, action, "pending")
  PROVE  Holding' /\ (moved = Absent => Moving') /\ Named'
<1>1. job'.op = op /\ job'.action = action /\ job'.step = "journal" /\ job'.seen = live /\ lock' = "held" /\ job' # Idle
  BY BeginTypes
<1>2. UNCHANGED moved
  BY DEF Begin
<1>3. live.journal # Absent /\ live.journal.state = "pending" => live.journal = Record(op, action, "pending")
  BY RowTypes DEF Pending
<1> QED
  BY <1>1, <1>2, <1>3 DEF Holding, Moving, Named, Record

\* An operation starts under the lock, from files that its manifest knows.
LEMMA Starts ==
  ASSUME TypeOK, Holding, Moving, Named, Known, Everywhere,
         \/ \E op \in Ops : Restore(op) \/ \E chosen \in SUBSET Tasks : Apply(op, chosen)
         \/ Recover
  PROVE  Holding' /\ Moving' /\ Named'
<1>1. moved = Absent
  BY DEF Moving, Publishing, Busy, Apply, Restore, Recover, Begin
<1>2. ASSUME NEW op \in Ops, NEW chosen \in SUBSET Tasks, Apply(op, chosen) PROVE Holding' /\ Moving' /\ Named'
  <2>1. plan'[op] = [tasks |-> chosen, tracker |-> live.tracker, index |-> live.index]
    BY <1>2, RowTypes DEF Apply, TypeOK
  <2>2. plan'[op] # Absent /\ live.tracker = TrackerBefore(op)' /\ live.index = plan'[op].index
    <3>1. live.tracker # Absent
      BY <1>2 DEF Apply, Rows
    <3>2. plan'[op] \in Manifests
      BY <2>1, <3>1, RowTypes DEF Manifests, TypeOK, Paths
    <3> QED
      BY <2>1, <3>2, RetentionAssumption DEF TrackerBefore
  <2> QED
    BY <1>1, <1>2, <2>2, BeginFrame DEF Apply, Actions
<1>3. ASSUME NEW op \in Ops, Restore(op) PROVE Holding' /\ Moving' /\ Named'
  <2>1. UNCHANGED plan /\ live.tracker = TrackerAfter(op) /\ live.index = IndexAfter(op) /\ plan[op] # Absent
    BY <1>3, RowTypes DEF Restore
  <2>2. live.tracker = TrackerAfter(op)' /\ live.index = IndexAfter(op)' /\ plan'[op] # Absent
    BY <2>1 DEF TrackerAfter, IndexAfter, IndexBefore, Entries
  <2> QED
    BY <1>1, <1>3, <2>2, BeginFrame DEF Restore, Actions
<1>4. CASE Recover
  <2>1. live.journal \in Journal /\ live.journal.state = "pending" /\ Pending
    BY <1>4, RowTypes DEF Recover, Pending
  <2>2. PICK op \in Ops, action \in Actions : live.journal = Record(op, action, "pending")
    BY <2>1 DEF Journal, Record
  <2>3. Recoverable(op, action) /\ UNCHANGED plan /\ Begin(op, action) /\ plan[op] # Absent
    BY <1>4, <2>1, <2>2, RowTypes DEF Recover, Everywhere, Carried, Record
  <2>4. /\ live.tracker \in {TrackerBefore(op), TrackerAfter(op)}
        /\ live.index \in {plan[op].index, IndexBefore(op), IndexAfter(op)}
    BY <2>3, RowTypes DEF Recoverable
  <2>5. /\ plan'[op] # Absent
        /\ TrackerBefore(op)' = TrackerBefore(op) /\ TrackerAfter(op)' = TrackerAfter(op)
        /\ IndexBefore(op)' = IndexBefore(op) /\ IndexAfter(op)' = IndexAfter(op)
    BY <2>3 DEF TrackerBefore, TrackerAfter, IndexBefore, IndexAfter, Entries
  <2> QED
    BY <1>1, <2>2, <2>3, <2>4, <2>5, BeginFrame
<1> QED
  BY <1>2, <1>3, <1>4

\* A step to the next step of an operation that has nothing moved away.
LEMMA AdvanceFrame ==
  ASSUME TypeOK, Holding, Busy, Advance, job.step # "complete", moved' = Absent, UNCHANGED <<plan, lock>>,
         saved'[job.op] = saved[job.op], job.step = "artifacts" => saved[job.op] = Whole,
         IF job.step = "journal" THEN live'.journal = Record(job.op, job.action, "pending")
         ELSE Named /\ live'.journal = live.journal
  PROVE  Holding' /\ Moving' /\ Named' /\ job' = [job EXCEPT !.step = NextStep[job.step]] /\ job' # Idle
<1>1. job \in Jobs /\ job' = [job EXCEPT !.step = NextStep[job.step]]
  BY Turns DEF Advance
<1>2. job' \in Jobs /\ job'.op = job.op /\ job'.action = job.action /\ job'.seen = job.seen /\ job'.step # "journal"
  BY <1>1 DEF Jobs, Steps, NextStep
<1>3. job'.step \in Steps \ {"journal", "artifacts"} => saved'[job.op] = Whole
  BY <1>1, <1>2 DEF Jobs, Steps, NextStep, Holding, Busy
<1>4. Holding'
  BY <1>2, <1>3, RetentionAssumption DEF Holding, Busy, TrackerBefore, TrackerAfter, IndexBefore, IndexAfter, Entries
<1>5. Moving'
  BY DEF Moving
<1>6. Named'
  BY <1>2 DEF Named, Busy
<1> QED
  BY <1>1, <1>2, <1>4, <1>5, <1>6, RetentionAssumption

\* The steps of an operation keep what it holds, has moved and has announced.
LEMMA Works ==
  ASSUME TypeOK, Holding, Moving, Named, Work \/ Die
  PROVE  Holding' /\ Moving' /\ Named'
<1> USE RetentionAssumption
<1>1. CASE Take
  <2>1. UNCHANGED <<job, plan, saved, lock>> /\ moved' = Seen /\ moved' # Absent /\ Publishing /\ Seen # Target
    BY <1>1 DEF Take, archive
  <2>2. Holding'
    BY <2>1 DEF Holding, TrackerBefore, TrackerAfter, IndexBefore, IndexAfter, Entries
  <2>3. Moving'
    BY <2>1 DEF Moving, Publishing, Busy, Seen, Target, Subject, Goal, TrackerBefore, TrackerAfter, IndexBefore,
       IndexAfter, Entries
  <2>4. ~JournalTurn => live'.journal = live.journal
    BY <1>1, Turns DEF Take, Publish, TypeOK, Paths
  <2>5. Named'
    BY <2>1, <2>4 DEF Named, JournalTurn, Busy
  <2> QED
    BY <2>2, <2>3, <2>5
<1>2. CASE Put
  <2>1. CASE job.step = "complete"
    BY <1>2, <2>1 DEF Put, Holding, Moving, Named
  <2>2. CASE job.step # "complete"
    <3>1. job.step = "journal" => live'.journal = Record(job.op, job.action, "pending")
      BY <1>2, Turns DEF Put, Publish, TypeOK, Paths, JournalTurn, Publishing
    <3>2. job.step # "journal" => live'.journal = live.journal
      BY <1>2, <2>2, Turns DEF Put, Publish, TypeOK, Paths, JournalTurn
    <3> QED
      BY <1>2, <2>2, <3>1, <3>2, AdvanceFrame DEF Put, archive, Publishing
  <2> QED
    BY <2>1, <2>2
<1>3. CASE Keep
  <2>1. job.step # "complete"
    BY <1>3, Turns DEF Keep, JournalTurn, Record, Publishing, Busy
  <2>2. job.step = "journal" => live.journal = Record(job.op, job.action, "pending")
    BY <1>3, Turns, RowTypes DEF Keep, JournalTurn, Publishing
  <2> QED
    BY <1>3, <2>1, <2>2, AdvanceFrame DEF Keep, archive, Publishing
<1>4. CASE Save
  <2>0. moved = Absent /\ Busy /\ job.step = "artifacts"
    BY <1>4 DEF Save, At, Moving, Publishing
  <2>1. CASE saved[job.op] < Whole
    BY <1>4, <2>0, <2>1 DEF Save, Holding, Busy, Moving, Named, TrackerBefore, TrackerAfter, IndexBefore, IndexAfter,
       Entries
  <2>2. CASE ~(saved[job.op] < Whole)
    <3>1. saved[job.op] = Whole
      BY <2>0, <2>2, Turns DEF TypeOK, Whole
    <3> QED
      BY <1>4, <2>0, <2>2, <3>1, AdvanceFrame DEF Save
  <2> QED
    BY <2>1, <2>2
<1>5. CASE Compare \/ Receipt
  <2>1. Busy /\ job.step \in {"check", "final", "receipt", "recheck"}
    BY <1>5 DEF Compare, Receipt, Agrees, At
  <2>2. moved = Absent
    BY <2>1 DEF Moving, Publishing
  <2>3. Advance /\ UNCHANGED <<moved, plan, lock, saved, live>>
    BY <1>5 DEF Compare, Receipt, archive
  <2> QED
    BY <2>1, <2>2, <2>3, AdvanceFrame
<1>6. CASE Stop \/ Die
  BY <1>6 DEF Stop, Die, Holding, Moving, Named
<1> QED
  BY <1>1, <1>2, <1>3, <1>4, <1>5, <1>6 DEF Work

\* So do the steps of all others.
LEMMA Aloofs ==
  ASSUME TypeOK, Holding, Moving, Named, Aloof
  PROVE  Holding' /\ Moving' /\ Named'
<1>1. UNCHANGED <<plan, saved, job, moved>> /\ live'.journal = live.journal /\ (lock' = "held" <=> lock = "held")
  BY AloofFrame
<1>2. Holding'
  BY <1>1 DEF Holding, TrackerBefore, TrackerAfter, IndexBefore, IndexAfter, Entries
<1>3. Moving'
  BY <1>1 DEF Moving, Publishing, Busy, Seen, Target, Subject, Goal, TrackerBefore, TrackerAfter, IndexBefore,
     IndexAfter, Entries
<1>4. Named'
  BY <1>1 DEF Named
<1> QED
  BY <1>2, <1>3, <1>4

-----------------------------------------------------------------------------
(* Texts that stay *)

\* Where a text is, before and after a step.
LEMMA InTexts ==
  ASSUME NEW file, NEW x
  PROVE  x \in Texts(file) <=>
           /\ x # Absent
           /\ \/ x = live[file]
              \/ moved # Absent /\ Subject = file /\ x = moved
              \/ \E kept \in aside : kept.file = file /\ kept.content = x
BY DEF Texts

LEMMA WillBeInTexts ==
  ASSUME NEW file, NEW x
  PROVE  x \in Texts(file)' <=>
           /\ x # Absent
           /\ \/ x = live'[file]
              \/ moved' # Absent /\ Subject' = file /\ x = moved'
              \/ \E kept \in aside' : kept.file = file /\ kept.content = x
BY DEF Texts

\* What a stopping operation leaves aside stays there.
LEMMA LeftAside ==
  ASSUME LeaveAside
  PROVE  /\ aside \subseteq aside'
         /\ moved # Absent => \E kept \in aside' : kept.file = Subject /\ kept.content = moved
<1>1. ASSUME moved # Absent PROVE \E kept \in aside' : kept.file = Subject /\ kept.content = moved
  <2>1. [file |-> Subject, content |-> moved] \in aside'
    BY <1>1 DEF LeaveAside
  <2> QED
    BY <2>1
<1> QED
  BY <1>1 DEF LeaveAside

\* No step but an edit and the second half of a publication takes a text away.
LEMMA TextsStay ==
  ASSUME TypeOK, Holding, Moving, NEW file \in {"tracker", "index"}, NEW x \in Texts(file),
         \/ UNCHANGED <<live, moved, aside>> /\ (moved = Absent \/ UNCHANGED job)
         \/ Take \/ Stop \/ Die
         \/ Put /\ Subject # file
         \/ Aloof /\ file = "index"
  PROVE  x \in Texts(file)'
<1>0. /\ x # Absent
      /\ x = live[file] \/ (moved # Absent /\ Subject = file /\ x = moved)
           \/ \E kept \in aside : kept.file = file /\ kept.content = x
  BY InTexts
<1>1. CASE UNCHANGED <<live, moved, aside>> /\ (moved = Absent \/ UNCHANGED job)
  BY <1>0, <1>1, WillBeInTexts DEF Subject
<1>2. CASE Take
  <2>1. UNCHANGED <<aside, job>> /\ moved' = live[Subject] /\ moved' # Absent /\ moved = Absent /\ Subject' = Subject
    BY <1>2 DEF Take, Subject
  <2>2. Subject # file => live'[file] = live[file]
    BY <1>2 DEF Take, Publish, TypeOK, Paths
  <2> QED
    BY <1>0, <2>1, <2>2, WillBeInTexts
<1>3. CASE Stop
  <2>1. CASE moved = Absent /\ UNCHANGED <<live, reader, aside, manual>>
    BY <1>0, <2>1, WillBeInTexts
  <2>2. CASE moved # Absent /\ live[Subject] = Absent /\ Publish(Subject, moved) /\ UNCHANGED <<aside, manual>>
    <3>1. Subject \in Files /\ live' = [live EXCEPT ![Subject] = moved]
      BY <2>2, MovedTypes DEF Publish
    <3>2. (Subject # file => live'[file] = live[file]) /\ (Subject = file => live'[file] = moved)
      BY <3>1 DEF TypeOK, Paths, Files
    <3> QED
      BY <1>0, <2>2, <3>2, WillBeInTexts
  <2>3. CASE moved # Absent /\ LeaveAside /\ UNCHANGED <<live, reader>>
    BY <1>0, <2>3, LeftAside, WillBeInTexts
  <2> QED
    BY <1>3, <2>1, <2>2, <2>3 DEF Stop
<1>4. CASE Die
  BY <1>0, <1>4, LeftAside, WillBeInTexts DEF Die
<1>5. CASE Put /\ Subject # file
  <2>1. live'[file] = live[file] /\ UNCHANGED aside
    BY <1>5, Turns DEF Put, Publish, TypeOK, Paths
  <2> QED
    BY <1>0, <1>5, <2>1, WillBeInTexts
<1>6. CASE Aloof /\ file = "index"
  <2>1. UNCHANGED <<job, moved, aside>> /\ live'[file] = live[file] /\ Subject' = Subject
    <3>1. live'.index = live.index /\ live'["index"] = live'.index
      BY <1>6, AloofFrame
    <3> QED
      BY <1>6, <3>1, AloofFrame, RowTypes DEF Subject
  <2> QED
    BY <1>0, <2>1, WillBeInTexts
<1> QED
  BY <1>1, <1>2, <1>3, <1>4, <1>5, <1>6

\* The second half of a publication puts the new text on the path and takes nothing from beside it.
LEMMA TextsPut ==
  ASSUME TypeOK, Holding, Moving, Put, Publishing, NEW file \in Files, Subject = file
  PROVE  /\ live'[file] = Target /\ Target \in Texts(file)'
         /\ live[file] = Absent
         /\ \A x \in Texts(file) : x \in Texts(file)' \/ x = Seen
<1>1. live'[file] = Target /\ UNCHANGED aside /\ live[file] = Absent
  BY Turns DEF Put, Publish, TypeOK, Paths, Files
<1>2. Target \in Texts(file)'
  BY <1>1, TurnTypes, WillBeInTexts
<1>3. ASSUME NEW x \in Texts(file) PROVE x \in Texts(file)' \/ x = Seen
  BY <1>1, InTexts, WillBeInTexts DEF Moving
<1> QED
  BY <1>1, <1>2, <1>3

\* An edit of the tracker keeps every row that some text has, and is a text itself.
LEMMA TextsEdited ==
  ASSUME TypeOK, Holding, Moving, NEW x \in Texts("tracker"), NEW rows \in SUBSET Tasks, Edited(rows),
         live.tracker = Absent \/ Rows \subseteq rows, UNCHANGED <<moved, aside, job>>
  PROVE  /\ \E y \in Texts("tracker")' : x.rows \subseteq y.rows
         /\ \E y \in Texts("tracker")' : y.edit = edits'
<1>1. live'.tracker = [rows |-> rows, edit |-> edits + 1] /\ live'.tracker \in Text /\ live'["tracker"] = live'.tracker
  BY EditTypes
<1>2. live'.tracker \in Texts("tracker")'
  BY <1>1, WillBeInTexts, RetentionAssumption
<1>3. live'.tracker.rows = rows /\ live'.tracker.edit = edits'
  BY <1>1, EditTypes
<1>4. CASE x = live["tracker"]
  <2>1. x.rows = Rows /\ live.tracker # Absent
    BY <1>4, InTexts, RowTypes DEF Rows
  <2> QED
    BY <1>2, <1>3, <2>1
<1>5. CASE x # live["tracker"]
  <2>1. x \in Texts("tracker")'
    BY <1>5, InTexts, WillBeInTexts DEF Subject
  <2> QED
    BY <1>2, <1>3, <2>1
<1> QED
  BY <1>4, <1>5

\* Where the texts of the index come from.
LEMMA TextsFrom ==
  ASSUME TypeOK, Holding, Moving, NEW x \in Texts("index")',
         \/ UNCHANGED <<live, moved, aside>> /\ (moved = Absent \/ UNCHANGED job)
         \/ Take \/ Stop \/ Die \/ Put \/ Aloof
  PROVE  x \in Texts("index") \/ (Put /\ IndexTurn /\ x = Target)
<1>0. /\ x # Absent
      /\ x = live'["index"] \/ (moved' # Absent /\ Subject' = "index" /\ x = moved')
           \/ \E kept \in aside' : kept.file = "index" /\ kept.content = x
  BY WillBeInTexts
<1>1. CASE UNCHANGED <<live, moved, aside>> /\ (moved = Absent \/ UNCHANGED job)
  BY <1>0, <1>1, InTexts DEF Subject
<1>2. CASE Take
  <2>1. UNCHANGED <<aside, job>> /\ moved' = live[Subject] /\ Subject' = Subject
    BY <1>2 DEF Take, Subject
  <2>2. live'["index"] \in {live["index"], Absent}
    BY <1>2 DEF Take, Publish, TypeOK, Paths
  <2> QED
    BY <1>0, <2>1, <2>2, InTexts
<1>3. CASE Stop \/ Die
  <2>0. moved' = Absent
    BY <1>3 DEF Stop, Die
  <2>1. CASE UNCHANGED <<live, aside>>
    BY <1>0, <2>0, <2>1, InTexts
  <2>2. CASE moved # Absent /\ Publish(Subject, moved) /\ UNCHANGED aside
    <3>1. live'["index"] = live["index"] \/ (Subject = "index" /\ live'["index"] = moved)
      BY <2>2, MovedTypes DEF Publish, TypeOK, Paths, Files
    <3> QED
      BY <1>0, <2>0, <2>2, <3>1, InTexts
  <2>3. CASE LeaveAside /\ UNCHANGED live
    <3>1. \A kept \in aside' : kept \in aside \/ (moved # Absent /\ kept = [file |-> Subject, content |-> moved])
      BY <2>3 DEF LeaveAside
    <3>2. CASE \E kept \in aside' : kept.file = "index" /\ kept.content = x
      <4>1. PICK kept \in aside' : kept.file = "index" /\ kept.content = x
        BY <3>2
      <4>2. CASE kept \in aside
        BY <1>0, <4>1, <4>2, InTexts
      <4>3. CASE moved # Absent /\ kept = [file |-> Subject, content |-> moved]
        <5>1. kept.file = Subject /\ kept.content = moved
          BY <4>3
        <5> QED
          BY <1>0, <4>1, <4>3, <5>1, InTexts
      <4> QED
        BY <3>1, <4>2, <4>3
    <3> QED
      BY <1>0, <2>0, <2>3, <3>2, InTexts
  <2> QED
    BY <1>3, <2>1, <2>2, <2>3 DEF Stop, Die
<1>4. CASE Put
  <2>1. UNCHANGED aside /\ moved' = Absent /\ Publishing /\ live' = [live EXCEPT ![Subject] = Target]
    BY <1>4 DEF Put, Publish
  <2>2. live'["index"] = live["index"] \/ (IndexTurn /\ live'["index"] = Target)
    BY <2>1, Turns DEF TypeOK, Paths
  <2> QED
    BY <1>0, <1>4, <2>1, <2>2, InTexts
<1>5. CASE Aloof
  <2>1. UNCHANGED <<job, moved, aside>> /\ live'["index"] = live["index"] /\ Subject' = Subject
    <3>1. live'.index = live.index /\ live'["index"] = live'.index
      BY <1>5, AloofFrame
    <3> QED
      BY <1>5, <3>1, AloofFrame, RowTypes DEF Subject
  <2> QED
    BY <1>0, <2>1, InTexts
<1> QED
  BY <1>1, <1>2, <1>3, <1>4, <1>5

-----------------------------------------------------------------------------
(* What the manifests and the index vouch for *)

\* Recovery files only accumulate.
LEMMA SavedGrows ==
  ASSUME TypeOK, [Next]_vars
  PROVE  /\ \A op \in Ops : saved[op] = Whole => saved'[op] = Whole
         /\ tasks \subseteq tasks'
         /\ (\A op \in Ops, chosen \in SUBSET Tasks : ~Apply(op, chosen)) => UNCHANGED plan
<1>1. Save => \A op \in Ops : saved[op] = Whole => saved'[op] = Whole
  BY Turns DEF Save, At, TypeOK, Whole
<1>3. tasks \subseteq tasks'
  BY DEF Next, Work, vars, archive, others, Apply, Restore, Recover, Begin, Take, Put, Keep, Save, Compare, Receipt,
     Stop, Die, ClearLock, Add, Find, Upsert, EditTracker, TaskList, ReadTracker, ReadJournal, ReadIndex, PrintList
<1>4. (\A op \in Ops, chosen \in SUBSET Tasks : ~Apply(op, chosen)) => UNCHANGED plan
  BY DEF Next, Work, vars, archive, others, Restore, Recover, Begin, Take, Put, Keep, Save, Compare, Receipt,
     Stop, Die, ClearLock, Add, Find, Upsert, EditTracker, TaskList, ReadTracker, ReadJournal, ReadIndex, PrintList
<1>5. Save \/ UNCHANGED saved
  BY DEF Next, Work, vars, archive, others, Apply, Restore, Recover, Begin, Take, Put, Keep, Save, Compare, Receipt,
     Stop, Die, ClearLock, Add, Find, Upsert, EditTracker, TaskList, ReadTracker, ReadJournal, ReadIndex, PrintList
<1> QED
  BY <1>1, <1>3, <1>4, <1>5

\* Where the rows of the tracker, the entries of the index and the row of an update come from.
LEMMA KnownLive ==
  ASSUME TypeOK, Holding, Moving, Known, [Next]_vars
  PROVE  Rows' \subseteq tasks' /\ Indexed(live.index)' \subseteq tasks' /\ found' \in {0} \cup tasks'
<1> USE RetentionAssumption
<1>0. /\ Rows \subseteq tasks /\ Indexed(live.index) \subseteq tasks /\ found \in {0} \cup tasks
      /\ tasks \subseteq tasks'
      /\ live["tracker"] = live.tracker /\ live'["tracker"] = live'.tracker
      /\ Rows = IF live.tracker = Absent THEN {} ELSE live.tracker.rows
  BY SavedGrows, RowTypes DEF Known, Rows
<1>1. ASSUME job # Idle
      PROVE  /\ TrackerBefore(job.op).rows \subseteq tasks /\ TrackerAfter(job.op).rows \subseteq tasks
             /\ Indexed(IndexBefore(job.op)) \subseteq tasks /\ Indexed(IndexAfter(job.op)) \subseteq tasks
             /\ Indexed(plan[job.op].index) \subseteq tasks
  <2> DEFINE op == job.op
  <2>1. op \in Ops /\ plan[op] # Absent
    BY <1>1, Turns DEF Holding, Busy
  <2> HIDE DEF op
  <2>2. /\ plan[op].tasks \subseteq TrackerBefore(op).rows /\ TrackerBefore(op).rows \subseteq tasks
        /\ Indexed(plan[op].index) \subseteq tasks
    BY <2>1, PlanTypes DEF Known
  <2>3. Indexed(IndexBefore(op)) \subseteq tasks
    BY <2>1, <2>2, PlanTypes DEF Indexed
  <2>4. Indexed(IndexAfter(op)) \subseteq tasks
    <3>1. \A entry \in IndexBefore(op) : entry[1] \in tasks
      BY <2>1, <2>2, PlanTypes
    <3>2. \A entry \in Entries(op) : entry[1] \in tasks
      BY <2>2 DEF Entries
    <3> QED
      BY <3>1, <3>2 DEF Indexed, IndexAfter
  <2>5. TrackerAfter(op).rows \subseteq tasks
    BY <2>1, <2>2, PlanTypes
  <2> QED
    BY <2>2, <2>3, <2>4, <2>5 DEF op
<1>2. CASE UNCHANGED live
  <2>1. found' \in {0} \cup tasks'
    BY <1>0, <1>2 DEF Next, Work, vars, archive, others, Apply, Restore, Recover, Begin, Take, Put, Keep, Save, Compare,
       Receipt, Stop, Die, ClearLock, Add, Find, Upsert, EditTracker, TaskList, ReadTracker, ReadJournal, ReadIndex,
       PrintList
  <2> QED
    BY <1>0, <1>2, <2>1 DEF Rows
<1>3. CASE Take \/ Put \/ Stop
  <2>1. \/ UNCHANGED live
        \/ Publishing /\ live' = [live EXCEPT ![Subject] = Absent]
        \/ Publishing /\ live' = [live EXCEPT ![Subject] = Target]
        \/ Publishing /\ live' = [live EXCEPT ![Subject] = Seen]
    BY <1>3 DEF Take, Put, Stop, Publish, Moving
  <2>2. UNCHANGED <<found, tasks>>
    BY <1>3 DEF Take, Put, Stop, others
  <2>3. live'.tracker = live.tracker \/ live'.tracker = Absent
          \/ (job # Idle /\ live'.tracker \in {TrackerBefore(job.op), TrackerAfter(job.op)})
    BY <2>1, Turns DEF TypeOK, Paths, Holding, Publishing, Busy
  <2>4. live'.index = live.index \/ live'.index = Absent
          \/ (job # Idle /\ live'.index \in {plan[job.op].index, IndexBefore(job.op), IndexAfter(job.op)})
    BY <2>1, Turns DEF TypeOK, Paths, Holding, Publishing, Busy
  <2>5. Rows' \subseteq tasks
    BY <1>0, <1>1, <2>3 DEF Rows
  <2>6. Indexed(live.index)' \subseteq tasks
    BY <1>0, <1>1, <2>4 DEF Indexed
  <2> QED
    BY <1>0, <2>2, <2>5, <2>6
<1>4. CASE Add \/ Upsert \/ EditTracker
  <2>1. PICK rows \in SUBSET tasks' : Edited(rows) /\ found' \in {0, found}
    <3>1. CASE Add
      BY <1>0, <3>1 DEF Add
    <3>2. CASE Upsert
      BY <1>0, <3>2 DEF Upsert
    <3>3. CASE EditTracker
      <4>1. CASE Publishing /\ Subject = "tracker" /\ moved # Absent
        <5>1. job # Idle /\ moved \in {TrackerBefore(job.op), TrackerAfter(job.op)}
          BY <4>1, Turns DEF Moving, Holding, Publishing, Busy, TrackerTurn
        <5> QED
          BY <1>0, <1>1, <3>3, <4>1, <5>1 DEF EditTracker
      <4> QED
        BY <1>0, <3>3, <4>1 DEF EditTracker
    <3> QED
      BY <1>4, <3>1, <3>2, <3>3
  <2>2. tasks' \subseteq Tasks
    BY TypeStep DEF TypeOK
  <2>3. live'.tracker = [rows |-> rows, edit |-> edits + 1] /\ live'.tracker # Absent /\ live'.index = live.index
    BY <2>1, <2>2, EditTypes
  <2> QED
    BY <1>0, <2>1, <2>3 DEF Rows
<1> QED
  BY <1>2, <1>3, <1>4 DEF Next, Work, vars, archive, others, Apply, Restore, Recover, Begin, Keep, Save, Compare,
     Receipt, Die, ClearLock, Find, TaskList, ReadTracker, ReadJournal, ReadIndex, PrintList

\* What the steps are, as far as the files are concerned.
Quiet == UNCHANGED <<live, moved, aside>> /\ moved = Absent
Starting == Recover \/ \E op \in Ops : Restore(op) \/ \E chosen \in SUBSET Tasks : Apply(op, chosen)
LEMMA Kinds ==
  ASSUME TypeOK, Moving, [Next]_vars
  PROVE  /\ Starting \/ Keep \/ Save \/ Compare \/ Receipt => Quiet
         /\ Starting \/ Keep \/ Save \/ Compare \/ Receipt \/ Take \/ Put \/ Stop \/ Die \/ Aloof
<1>1. Starting \/ Save \/ Compare \/ Receipt => moved = Absent
  BY DEF Starting, Save, Compare, Receipt, Moving, Publishing, Busy, Apply, Restore, Recover, Begin, Agrees, At
<1>2. Starting \/ Keep \/ Save \/ Compare \/ Receipt => Quiet
  BY <1>1 DEF Starting, Quiet, Keep, Save, Compare, Receipt, Apply, Restore, Recover, Begin
<1> QED
  BY <1>2 DEF Next, Work, Aloof, Starting

\* Every step keeps what the manifests and the index vouch for.
LEMMA KnownStep ==
  ASSUME TypeOK, Holding, Moving, Known, [Next]_vars
  PROVE  Known'
<1> USE RetentionAssumption
<1>1. ASSUME NEW op \in Ops, plan'[op] # Absent
      PROVE  /\ plan'[op].tasks # {} /\ plan'[op].tasks \subseteq plan'[op].tracker.rows
             /\ plan'[op].tracker.rows \subseteq tasks /\ Indexed(plan'[op].index) \subseteq tasks
             /\ Good(IndexBefore(op)')
  <2>1. CASE plan'[op] = plan[op]
    <3>1. IndexBefore(op)' = IndexBefore(op)
      BY <2>1 DEF IndexBefore
    <3> QED
      BY <1>1, <2>1, <3>1 DEF Known
  <2>2. ASSUME NEW chosen \in SUBSET Tasks, Apply(op, chosen)
        PROVE  /\ plan'[op].tasks # {} /\ plan'[op].tasks \subseteq plan'[op].tracker.rows
               /\ plan'[op].tracker.rows \subseteq tasks /\ Indexed(plan'[op].index) \subseteq tasks
               /\ Good(IndexBefore(op)')
    <3>1. plan'[op] = [tasks |-> chosen, tracker |-> live.tracker, index |-> live.index] /\ live.tracker # Absent
      BY <2>2, RowTypes DEF Apply, TypeOK, Rows
    <3>2. chosen # {} /\ chosen \subseteq live.tracker.rows /\ live.tracker.rows \subseteq tasks
          /\ Indexed(live.index) \subseteq tasks
      BY <2>2, <3>1, RowTypes DEF Apply, Rows, Known
    <3>3. live.index # Absent => Good(live.index)
      BY InTexts, RowTypes DEF Known
    <3>4. Good(IndexBefore(op)')
      BY <3>1, <3>3 DEF IndexBefore, Good
    <3> QED
      BY <3>1, <3>2, <3>4
  <2>3. ASSUME NEW other \in Ops, NEW chosen \in SUBSET Tasks, Apply(other, chosen), other # op
        PROVE  plan'[op] = plan[op]
    BY <2>3 DEF Apply, TypeOK
  <2> QED
    BY <2>1, <2>2, <2>3, SavedGrows
<1>2. ASSUME NEW op \in Ops, plan'[op] # Absent
      PROVE  /\ plan'[op].tracker.rows \subseteq tasks' /\ Indexed(plan'[op].index) \subseteq tasks'
             /\ Good(IndexBefore(op))'
  BY <1>1, <1>2, SavedGrows DEF Good
<1>3. ASSUME NEW x \in Texts("index")' PROVE Good(x)'
  <2>1. x \in Texts("index") \/ (Put /\ IndexTurn /\ x = Target)
    BY Kinds, TextsFrom DEF Quiet
  <2>2. CASE x \in Texts("index")
    BY <2>2, SavedGrows DEF Known, Good
  <2>3. CASE Put /\ IndexTurn /\ x = Target
    <3>1. job.op \in Ops /\ plan[job.op] # Absent /\ saved[job.op] = Whole
      BY <2>3, Turns DEF Holding, IndexTurn, Busy, Steps
    <3>2. Good(IndexBefore(job.op)) /\ Good(IndexAfter(job.op))
      BY <3>1 DEF Known, IndexAfter, Entries, Good
    <3> QED
      BY <2>3, <3>1, <3>2, Turns, SavedGrows DEF Good
  <2> QED
    BY <2>1, <2>2, <2>3
<1>4. \A op \in Ops : plan'[op] # Absent =>
        /\ plan'[op].tasks # {} /\ plan'[op].tasks \subseteq plan'[op].tracker.rows
        /\ plan'[op].tracker.rows \subseteq tasks' /\ Indexed(plan[op].index)' \subseteq tasks'
        /\ Good(IndexBefore(op))'
  BY <1>1, <1>2 DEF Indexed
<1> QED
  BY <1>3, <1>4, KnownLive DEF Known

\* The file that an operation has replaced first stays as it is until the operation ends.
LEMMA HalfwayStep ==
  ASSUME TypeOK, Holding, Moving, Known, Halfway, [Next]_vars
  PROVE  Halfway'
<1> USE RetentionAssumption
<1> DEFINE op == job.op
<1> SUFFICES ASSUME job' # Idle, job'.step \in {"second", "final", "receipt", "recheck", "complete"}
    PROVE  /\ job'.action = "retain" => live'.index = IndexAfter(job.op)'
           /\ job'.action = "restore" => live'.tracker # Absent /\ (TrackerBefore(job.op).rows)' \subseteq Rows'
  BY DEF Halfway
<1>1. ~Starting /\ ~Stop /\ ~Die
  BY BeginTypes, RowTypes DEF Starting, Stop, Die, Apply, Restore, Recover, Begin, Pending, Actions, Journal
<1>2. job # Idle /\ UNCHANGED plan /\ job'.op = job.op /\ job'.action = job.action /\ job.op \in Ops
      /\ plan[job.op] # Absent /\ job.action \in Actions
  <2>1. job # Idle /\ (UNCHANGED job \/ Advance)
    BY <1>1, Kinds, AloofFrame DEF Keep, Save, Compare, Receipt, Take, Put, Busy, Publishing, At, Agrees
  <2>2. job'.op = job.op /\ job'.action = job.action
    BY <2>1, Turns DEF Advance, Busy, Jobs
  <2> QED
    BY <1>1, <2>1, <2>2, Turns, SavedGrows DEF Busy, Holding, Starting
<1>3. IndexAfter(job.op)' = IndexAfter(job.op) /\ TrackerBefore(job.op)' = TrackerBefore(job.op)
  BY <1>2 DEF IndexAfter, IndexBefore, Entries, TrackerBefore
<1>4. CASE Keep \/ Save \/ Compare \/ Receipt
  <2>1. UNCHANGED live /\ Rows' = Rows
    BY <1>4, Kinds DEF Quiet, Rows
  <2>2. CASE job.step = "first"
    <3>1. Keep
      BY <1>4, <2>2 DEF Save, Compare, Receipt, Agrees, At
    <3>2. live[Subject] = Target /\ (TrackerTurn \/ IndexTurn)
      BY <2>2, <3>1, <1>2, Turns DEF Keep, TrackerTurn, IndexTurn, Busy, Actions
    <3>3. job.action = "retain" => live.index = IndexAfter(job.op)
      BY <2>2, <3>2, Turns, RowTypes DEF TrackerTurn
    <3>4. job.action = "restore" => live.tracker = TrackerBefore(job.op)
      BY <2>2, <3>2, Turns, RowTypes DEF IndexTurn
    <3>5. job.action = "restore" => live.tracker # Absent /\ TrackerBefore(job.op).rows \subseteq Rows
      BY <1>2, <3>4, PlanTypes, RowTypes DEF Rows
    <3> QED
      BY <1>2, <1>3, <2>1, <3>3, <3>5
  <2>3. CASE job.step # "first"
    <3>1. job.step \in {"second", "final", "receipt", "recheck", "complete"}
      BY <1>2, <1>4, <2>3, Turns DEF Keep, Save, Compare, Receipt, Advance, NextStep, Steps, Jobs, Busy
    <3> QED
      BY <1>2, <1>3, <2>1, <3>1 DEF Halfway
  <2> QED
    BY <2>2, <2>3
<1>5. CASE Take
  <2>1. UNCHANGED job
    BY <1>5 DEF Take
  <2>2. job.step \in {"second", "complete"}
    BY <1>2, <1>5, <2>1, Turns DEF Take, Publishing
  <2>3. IF job.step = "complete" THEN Subject = "journal"
        ELSE IF job.action = "retain" THEN Subject = "tracker" ELSE Subject = "index"
    BY <2>2 DEF Subject
  <2>4. live' = [live EXCEPT ![Subject] = Absent]
    BY <1>5 DEF Take, Publish
  <2>5. /\ job.action = "retain" => live'.index = live.index
        /\ job.action = "restore" => live'.tracker = live.tracker
    BY <1>2, <2>2, <2>3, <2>4 DEF TypeOK, Paths, Actions
  <2>6. job.action = "restore" => Rows' = Rows
    BY <2>4, <2>5, RowTypes, TypeStep DEF Rows, TypeOK, Paths
  <2> QED
    BY <1>2, <1>3, <2>1, <2>2, <2>5, <2>6 DEF Halfway
<1>6. CASE Put
  <2>1. live' = [live EXCEPT ![Subject] = Target] /\ Publishing /\ job.step # "complete"
    BY <1>6 DEF Put, Publish
  <2>2. job.step \in {"first", "second"}
    BY <1>2, <1>6, <2>1, Turns DEF Put, Publishing, Advance, NextStep, Steps, Jobs, Busy
  <2>3. CASE job.step = "first"
    <3>1. job.action = "retain" => live'.index = IndexAfter(job.op)
      BY <2>1, <2>3, Turns, RowTypes DEF IndexTurn, Busy, Publishing, TypeOK, Paths
    <3>2. job.action = "restore" => live'.tracker = TrackerBefore(job.op)
      BY <2>1, <2>3, Turns, RowTypes DEF TrackerTurn, Busy, Publishing, TypeOK, Paths
    <3>3. job.action = "restore" => live'.tracker # Absent /\ TrackerBefore(job.op).rows \subseteq Rows'
      BY <1>2, <3>2, PlanTypes, TypeStep DEF Rows, TypeOK, Paths
    <3> QED
      BY <1>2, <1>3, <3>1, <3>3
  <2>4. CASE job.step = "second"
    <3>1. /\ job.action = "retain" => live'.index = live.index
          /\ job.action = "restore" => live'.tracker = live.tracker
      BY <1>2, <2>1, <2>4 DEF Subject, TypeOK, Paths, Actions
    <3>2. job.action = "restore" => Rows' = Rows
      BY <2>1, <3>1, RowTypes, TypeStep DEF Rows, TypeOK, Paths
    <3> QED
      BY <1>2, <1>3, <2>4, <3>1, <3>2 DEF Halfway
  <2> QED
    BY <2>2, <2>3, <2>4
<1>7. CASE Aloof
  <2>1. UNCHANGED job /\ live'.index = live.index /\ lock = "held"
    BY <1>2, <1>7, AloofFrame DEF Holding
  <2>2. job.action = "restore" => live.tracker # Absent /\ TrackerBefore(job.op).rows \subseteq Rows
    BY <1>2, <2>1 DEF Halfway
  <2>3. CASE UNCHANGED live
    BY <1>2, <1>3, <2>1, <2>2, <2>3 DEF Halfway, Rows
  <2>4. CASE EditTracker
    <3>1. job.action = "restore" => Edited(Rows)
      BY <2>2, <2>4, RowTypes DEF EditTracker
    <3>2. ASSUME job.action = "restore" PROVE live'.tracker # Absent /\ Rows' = Rows
      <4>1. live'.tracker = [rows |-> Rows, edit |-> edits + 1] /\ live'.tracker \in Text
        BY <3>1, <3>2, EditTypes, RowTypes
      <4>2. live'["tracker"] = live'.tracker
        OBVIOUS
      <4>3. live'.tracker.rows = Rows /\ live'.tracker # Absent
        BY <4>1
      <4>4. Rows' = IF live'.tracker = Absent THEN {} ELSE live'.tracker.rows
        BY <4>2 DEF Rows
      <4> QED
        BY <4>3, <4>4
    <3> QED
      BY <1>2, <1>3, <2>1, <2>2, <3>2 DEF Halfway
  <2> QED
    BY <1>7, <2>1, <2>3, <2>4 DEF Aloof, ClearLock, Add, Find, Upsert, TaskList, ReadTracker, ReadJournal, ReadIndex,
       PrintList, vars
<1> QED
  BY <1>1, <1>4, <1>5, <1>6, <1>7, Kinds

-----------------------------------------------------------------------------
(* Every task is somewhere *)

\* An edit of the tracker keeps the rows that are there.
LEMMA EditRows ==
  ASSUME TypeOK, Holding, Moving, Add \/ Upsert \/ EditTracker
  PROVE  \E rows \in SUBSET Tasks : Edited(rows) /\ (live.tracker = Absent \/ Rows \subseteq rows)
<1>1. CASE Add
  BY <1>1, RowTypes DEF Add
<1>2. CASE Upsert
  <2>1. Rows \cup {found} \in SUBSET Tasks /\ Edited(Rows \cup {found})
    BY <1>2, RowTypes DEF Upsert, TypeOK
  <2> QED
    BY <2>1
<1>3. CASE live.tracker # Absent /\ Edited(Rows)
  BY <1>3, RowTypes
<1>4. CASE Publishing /\ Subject = "tracker" /\ moved # Absent /\ live.tracker = Absent /\ Edited(moved.rows)
  BY <1>4, MovedTypes, Turns DEF Text
<1> QED
  BY <1>1, <1>2, <1>3, <1>4, RowTypes DEF EditTracker

\* The rows and the index entries that some text holds are still held by one.
LEMMA RowsStay ==
  ASSUME TypeOK, Holding, Moving, [Next]_vars, ~(Put /\ Subject = "tracker"), NEW x \in Texts("tracker")
  PROVE  \E y \in Texts("tracker")' : x.rows \subseteq y.rows
<1>1. CASE Add \/ Upsert \/ EditTracker
  <2>1. PICK rows \in SUBSET Tasks : Edited(rows) /\ (live.tracker = Absent \/ Rows \subseteq rows)
    BY <1>1, EditRows
  <2>2. UNCHANGED <<moved, aside, job>>
    BY <1>1 DEF Add, Upsert, EditTracker
  <2> QED
    BY <2>1, <2>2, TextsEdited
<1>2. CASE Take \/ Stop \/ Die \/ Put
  <2>1. x \in Texts("tracker")'
    BY <1>2, TextsStay
  <2> QED
    BY <2>1
<1>3. CASE UNCHANGED <<live, moved, aside>> /\ (moved = Absent \/ UNCHANGED job)
  <2>1. x \in Texts("tracker")'
    BY <1>3, TextsStay
  <2> QED
    BY <2>1
<1> QED
  BY <1>1, <1>2, <1>3, Kinds, AloofFrame
  DEF Quiet, Aloof, ClearLock, Find, TaskList, ReadTracker, ReadJournal, ReadIndex, PrintList,
     vars

LEMMA EntriesStay ==
  ASSUME TypeOK, Holding, Moving, [Next]_vars, ~(Put /\ Subject = "index"), NEW x \in Texts("index")
  PROVE  x \in Texts("index")'
BY Kinds, TextsStay DEF Quiet

\* Until the operation ends, what is carried stays so: the second file of an operation is replaced when the first
\* has the tasks.
LEMMA CarriedStays ==
  ASSUME TypeOK, Holding, Moving, Known, Halfway, [Next]_vars, NEW op \in Ops, Carried(op),
         UNCHANGED <<plan, tasks>>, Put /\ Subject # "journal" => job.op = op
  PROVE  Carried(op)'
<1> USE RetentionAssumption
<1>0. /\ TrackerBefore(op)' = TrackerBefore(op) /\ TrackerAfter(op)' = TrackerAfter(op)
      /\ IndexBefore(op)' = IndexBefore(op) /\ IndexAfter(op)' = IndexAfter(op) /\ Entries(op)' = Entries(op)
      /\ plan'[op] = plan[op] /\ plan[op] # Absent /\ Indexed(plan[op].index)' = Indexed(plan[op].index)
  BY DEF TrackerBefore, TrackerAfter, IndexBefore, IndexAfter, Entries, Carried, Indexed
<1>1. SUFFICES
        /\ \E text \in Texts("tracker")' : TrackerAfter(op).rows \subseteq text.rows
        /\ IndexBefore(op) = {} \/ \E index \in Texts("index")' : IndexBefore(op) \subseteq index
        /\ \/ \E text \in Texts("tracker")' : plan[op].tasks \subseteq text.rows
           \/ \E index \in Texts("index")' : Entries(op) \subseteq index
  BY <1>0 DEF Carried
<1>2. CASE ~(Put /\ Subject \in {"tracker", "index"})
  BY <1>2, RowsStay, EntriesStay DEF Carried
<1>3. ASSUME Put, Subject \in {"tracker", "index"}
      PROVE  /\ op = job.op /\ Publishing /\ (TrackerTurn \/ IndexTurn) /\ job.action \in Actions
             /\ \A file \in Files : Subject = file => Target \in Texts(file)'
             /\ plan[op].tasks \subseteq TrackerBefore(op).rows
  <2>1. op = job.op /\ Publishing
    BY <1>3 DEF Put
  <2>2. (TrackerTurn \/ IndexTurn) /\ job.action \in Actions
    BY <1>3, <2>1, Turns DEF Publishing
  <2>3. \A file \in Files : Subject = file => Target \in Texts(file)'
    BY <1>3, <2>1, TextsPut
  <2>4. plan[op].tasks \subseteq TrackerBefore(op).rows
    BY <1>0, PlanTypes DEF Known
  <2> QED
    BY <2>1, <2>2, <2>3, <2>4
<1>4. CASE Put /\ Subject = "tracker"
  <2>1. TrackerTurn /\ Target \in Texts("tracker")'
    BY <1>3, <1>4, Turns DEF Files
  <2>2. TrackerAfter(op).rows \subseteq Target.rows
    BY <1>0, <1>3, <1>4, <2>1, Turns, PlanTypes
  <2>3. IndexBefore(op) = {} \/ \E index \in Texts("index")' : IndexBefore(op) \subseteq index
    BY <1>4, EntriesStay DEF Carried
  <2>4. CASE job.action = "restore"
    <3>1. plan[op].tasks \subseteq Target.rows
      BY <1>3, <1>4, <2>1, <2>4, Turns
    <3> QED
      BY <2>1, <2>2, <2>3, <3>1
  <2>5. CASE job.action = "retain"
    <3>1. live.index = IndexAfter(op) /\ live.index \in Texts("index")
      BY <1>0, <1>3, <1>4, <2>1, <2>5, PlanTypes, RowTypes, InTexts DEF Halfway, TrackerTurn, Busy
    <3>2. IndexAfter(op) \in Texts("index")' /\ Entries(op) \subseteq IndexAfter(op)
      BY <1>0, <1>4, <3>1, EntriesStay, PlanTypes
    <3> QED
      BY <2>1, <2>2, <2>3, <3>2
  <2> QED
    BY <1>3, <1>4, <2>4, <2>5 DEF Actions
<1>5. CASE Put /\ Subject = "index"
  <2>1. IndexTurn /\ Target \in Texts("index")'
    BY <1>3, <1>5, Turns DEF Files
  <2>2. IndexBefore(op) \subseteq Target
    BY <1>0, <1>3, <1>5, <2>1, Turns, PlanTypes
  <2>3. \E text \in Texts("tracker")' : TrackerAfter(op).rows \subseteq text.rows
    BY <1>5, RowsStay DEF Carried
  <2>4. CASE job.action = "retain"
    <3>1. Entries(op) \subseteq Target
      BY <1>0, <1>3, <1>5, <2>1, <2>4, Turns, PlanTypes
    <3> QED
      BY <2>1, <2>2, <2>3, <3>1
  <2>5. CASE job.action = "restore"
    <3>1. live.tracker # Absent /\ TrackerBefore(op).rows \subseteq Rows
      BY <1>3, <1>5, <2>1, <2>5 DEF Halfway, IndexTurn, Busy
    <3>2. live.tracker \in Texts("tracker") /\ TrackerBefore(op).rows \subseteq live.tracker.rows
      BY <3>1, RowTypes, InTexts DEF Rows
    <3>3. PICK text \in Texts("tracker")' : live.tracker.rows \subseteq text.rows
      BY <1>5, <3>2, RowsStay
    <3>4. plan[op].tasks \subseteq text.rows
      BY <1>3, <1>5, <3>2, <3>3
    <3> QED
      BY <2>1, <2>2, <2>3, <3>4
  <2> QED
    BY <1>3, <1>5, <2>4, <2>5 DEF Actions
<1> QED
  BY <1>2, <1>4, <1>5

\* Outside its two replacements, every task is in the tracker or in the index.
LEMMA SettledStays ==
  ASSUME TypeOK, Settled, UNCHANGED tasks, live'.tracker = live.tracker, live'.index = live.index, live' \in Paths
  PROVE  Settled'
<1>1. Rows' = Rows
  BY RowTypes DEF Rows, Paths
<1> QED
  BY <1>1 DEF Settled, Indexed

LEMMA SettledAloof ==
  ASSUME TypeOK, Holding, Moving, Known, Settled, Aloof, [Next]_vars, job # Idle => job.step \notin {"first", "second"}
  PROVE  Settled'
<1>1. live' \in Paths
  BY TypeStep DEF TypeOK
<1>2. CASE UNCHANGED live /\ UNCHANGED tasks
  BY <1>1, <1>2, SettledStays
<1>3. ASSUME NEW rows \in SUBSET Tasks, Edited(rows), Rows \subseteq rows, tasks' \subseteq tasks \cup rows
      PROVE  Settled'
  <2>1. live'.tracker = [rows |-> rows, edit |-> edits + 1] /\ live'.tracker # Absent /\ live'.index = live.index
    BY <1>3, EditTypes, RetentionAssumption
  <2>2. Rows' = rows
    BY <2>1 DEF Rows
  <2> QED
    BY <1>3, <2>1, <2>2 DEF Settled, Indexed
<1>4. CASE Add
  <2>1. PICK id \in Tasks : Edited(Rows \cup {id}) /\ tasks' = tasks \cup {id}
    BY <1>4 DEF Add
  <2> QED
    BY <1>3, <2>1, RowTypes
<1>5. CASE Upsert
  BY <1>3, <1>5, RowTypes DEF Upsert, TypeOK
<1>6. CASE EditTracker
  <2>1. ~(Publishing /\ Subject = "tracker")
    BY Turns DEF TrackerTurn, IndexTurn, JournalTurn, Busy
  <2> QED
    BY <1>3, <1>6, <2>1, RowTypes DEF EditTracker
<1> QED
  BY <1>2, <1>4, <1>5, <1>6
  DEF Aloof, ClearLock, Find, TaskList, ReadTracker, ReadJournal, ReadIndex, PrintList, vars, others

\* An operation that begins carries every task.
LEMMA CarriedFirst ==
  ASSUME TypeOK, Moving, Known, Settled, UNCHANGED <<live, aside, moved, tasks>>, NEW op \in Ops,
         \/ Restore(op)
         \/ \E chosen \in SUBSET Tasks : Apply(op, chosen)
  PROVE  Carried(op)'
<1> USE RetentionAssumption
<1>1. live.tracker # Absent => live.tracker \in Texts("tracker")'
  BY WillBeInTexts
<1>2. live.index # Absent => live.index \in Texts("index")'
  BY WillBeInTexts
<1>3. CASE Restore(op)
  <2>1. plan[op] # Absent /\ live.tracker = TrackerAfter(op) /\ live.index = IndexAfter(op) /\ UNCHANGED plan
    BY <1>3, RowTypes DEF Restore
  <2>2. /\ TrackerBefore(op)' = TrackerBefore(op) /\ TrackerAfter(op)' = TrackerAfter(op)
        /\ IndexBefore(op)' = IndexBefore(op) /\ IndexAfter(op)' = IndexAfter(op) /\ Entries(op)' = Entries(op)
        /\ plan'[op] = plan[op] /\ Indexed(plan[op].index)' = Indexed(plan[op].index)
    BY <2>1 DEF TrackerBefore, TrackerAfter, IndexBefore, IndexAfter, Entries, Indexed
  <2>3. live.tracker # Absent /\ live.index # Absent /\ Rows = TrackerAfter(op).rows
    BY <2>1, PlanTypes, RowTypes DEF Rows
  <2>4. Indexed(live.index) \subseteq Indexed(plan[op].index) \cup plan[op].tasks
    <3>1. \A entry \in IndexBefore(op) : entry[1] \in Indexed(plan[op].index)
      BY <2>1, PlanTypes
    <3>2. \A entry \in Entries(op) : entry[1] \in plan[op].tasks
      BY DEF Entries
    <3> QED
      BY <2>1, <3>1, <3>2 DEF Indexed, IndexAfter
  <2>5. tasks \subseteq TrackerBefore(op).rows \cup Indexed(plan[op].index)
    BY <2>1, <2>3, <2>4, PlanTypes DEF Settled, Known
  <2>6. IndexBefore(op) \subseteq live.index /\ Entries(op) \subseteq live.index
    BY <2>1, PlanTypes
  <2> QED
    BY <1>1, <1>2, <2>1, <2>2, <2>3, <2>5, <2>6 DEF Carried
<1>4. ASSUME NEW chosen \in SUBSET Tasks, Apply(op, chosen) PROVE Carried(op)'
  <2>1. plan'[op] = [tasks |-> chosen, tracker |-> live.tracker, index |-> live.index] /\ live.tracker # Absent
    BY <1>4, RowTypes DEF Apply, TypeOK, Rows
  <2>2. plan'[op] # Absent /\ chosen \subseteq live.tracker.rows /\ live.tracker \in Text
    <3>1. plan'[op] \in Manifests
      BY <2>1, RowTypes DEF Manifests, TypeOK, Paths
    <3> QED
      BY <1>4, <2>1, <3>1, RowTypes DEF Apply, Rows
  <2>3. TrackerBefore(op)' = live.tracker /\ TrackerAfter(op)'.rows = live.tracker.rows \ chosen
    BY <2>1, <2>2 DEF TrackerBefore, TrackerAfter, Text
  <2>4. IndexBefore(op)' = IF live.index = Absent THEN {} ELSE live.index
    BY <2>1 DEF IndexBefore
  <2>5. tasks \subseteq live.tracker.rows \cup Indexed(live.index)
    BY <2>1, RowTypes DEF Settled, Rows
  <2>6. Indexed(plan[op].index)' = Indexed(live.index)
    BY <2>1 DEF Indexed
  <2>7. plan'[op].tasks = chosen
    BY <2>1
  <2> QED
    BY <1>1, <1>2, <2>1, <2>2, <2>3, <2>4, <2>5, <2>6, <2>7 DEF Carried
<1> QED
  BY <1>3, <1>4

\* Both files compared with the goal of the operation have every task.
LEMMA SettledAtEnd ==
  ASSUME TypeOK, Known, NEW op \in Ops, NEW action \in Actions, Carried(op),
         Finished(op, action)
  PROVE  Settled
<1> USE RetentionAssumption
<1>1. /\ plan[op] # Absent /\ tasks \subseteq TrackerBefore(op).rows \cup Indexed(plan[op].index)
      /\ TrackerBefore(op) \in Text /\ TrackerAfter(op) \in Text
      /\ IndexBefore(op) \in Index /\ IndexAfter(op) \in Index
      /\ TrackerAfter(op).rows = TrackerBefore(op).rows \ plan[op].tasks
      /\ Indexed(plan[op].index) = {entry[1] : entry \in IndexBefore(op)}
  BY PlanTypes DEF Carried
<1>2. CASE action = "retain"
  <2>1. Rows = TrackerAfter(op).rows /\ live.index = IndexAfter(op)
    BY <1>2 DEF Goal, Finished
  <2>2. \A t \in plan[op].tasks : t \in {entry[1] : entry \in Entries(op)}
    <3>1. ASSUME NEW t \in plan[op].tasks PROVE t \in {entry[1] : entry \in Entries(op)}
      <4>1. <<t, op>> \in Entries(op) /\ <<t, op>>[1] = t
        BY DEF Entries
      <4> QED
        BY <4>1
    <3> QED
      BY <3>1
  <2>3. Indexed(live.index) = {entry[1] : entry \in IndexBefore(op)} \cup {entry[1] : entry \in Entries(op)}
    BY <1>1, <2>1 DEF Indexed, IndexAfter
  <2>4. Rows = TrackerBefore(op).rows \ plan[op].tasks
    BY <1>1, <2>1
  <2> QED
    BY <1>1, <2>2, <2>3, <2>4 DEF Settled
<1>3. CASE action = "restore"
  <2>1. Rows = TrackerBefore(op).rows /\ Indexed(live.index) = {entry[1] : entry \in IndexBefore(op)}
    BY <1>1, <1>3 DEF Indexed, Goal, Finished
  <2> QED
    BY <1>1, <2>1 DEF Settled
<1> QED
  BY <1>2, <1>3 DEF Actions

\* When an operation is pending after a step, it was so before, or it is the one at work.
Announced ==
  /\ Busy /\ ~Pending /\ job.step \in {"journal", "complete"}
  /\ live'.journal = Record(job.op, job.action, "pending") /\ live'.journal.op = job.op
  /\ live'.tracker = live.tracker /\ live'.index = live.index
LEMMA PendingFrom ==
  ASSUME TypeOK, Holding, Moving, Named, [Next]_vars, Pending'
  PROVE  (Pending /\ live'.journal = live.journal) \/ Announced
<1> USE RetentionAssumption
<1>0. live["journal"] = live.journal /\ live'["journal"] = live'.journal
  BY RowTypes
<1>1. CASE live'.journal = live.journal
  BY <1>0, <1>1 DEF Pending
<1>2. CASE Take
  <2>1. Publishing /\ live' = [live EXCEPT ![Subject] = Absent]
    BY <1>2 DEF Take, Publish
  <2> QED
    BY <1>0, <1>1, <2>1, Turns DEF Pending, TypeOK, Paths
<1>3. CASE Put
  <2>1. Publishing /\ live' = [live EXCEPT ![Subject] = Target] /\ live[Subject] = Absent
    BY <1>3 DEF Put, Publish
  <2>2. ASSUME JournalTurn PROVE Announced
    <3>1. live' = [live EXCEPT !["journal"] = Target] /\ live.journal = Absent /\ job.step \in {"journal", "complete"}
      BY <1>0, <2>1, <2>2, Turns DEF JournalTurn
    <3>2. live'.journal = Target /\ live'.tracker = live.tracker /\ live'.index = live.index
      BY <3>1 DEF TypeOK, Paths
    <3>3. Target = Record(job.op, job.action, "pending")
      BY <1>0, <2>2, <3>1, <3>2, Turns DEF Pending, Record
    <3> QED
      BY <1>0, <2>2, <3>1, <3>2, <3>3 DEF Announced, Pending, JournalTurn, Record
  <2> QED
    BY <1>0, <1>1, <2>1, <2>2, Turns DEF TypeOK, Paths, Publishing
<1>4. CASE Stop
  <2>1. CASE moved # Absent /\ live[Subject] = Absent /\ Publish(Subject, moved)
    <3>1. Publishing /\ live' = [live EXCEPT ![Subject] = Seen] /\ Seen # Target
      BY <2>1 DEF Publish, Moving
    <3>2. ~JournalTurn => live'.journal = live.journal
      BY <3>1, Turns DEF TypeOK, Paths
    <3>3. ASSUME JournalTurn PROVE Announced
      <4>1. live' = [live EXCEPT !["journal"] = Seen] /\ live.journal = Absent
        BY <1>0, <2>1, <3>1, <3>3, Turns
      <4>2. live'.journal = Seen /\ live'.tracker = live.tracker /\ live'.index = live.index
        BY <4>1 DEF TypeOK, Paths
      <4>3. CASE job.step = "complete"
        <5>1. Seen = Record(job.op, job.action, "pending") /\ Seen.op = job.op
          BY <3>3, <4>3, Turns DEF Record
        <5> QED
          BY <1>0, <3>3, <4>1, <4>2, <4>3, <5>1 DEF Announced, Pending, JournalTurn
      <4>4. CASE job.step = "journal"
        BY <1>0, <3>1, <3>3, <4>2, <4>4, Turns DEF Holding, JournalTurn, Busy, Pending
      <4> QED
        BY <3>3, <4>3, <4>4 DEF JournalTurn
    <3> QED
      BY <1>1, <3>1, <3>2, <3>3 DEF Publishing
  <2> QED
    BY <1>1, <1>4, <2>1 DEF Stop
<1>5. CASE Starting \/ Keep \/ Save \/ Compare \/ Receipt \/ Die
  BY <1>1, <1>5, Kinds DEF Quiet, Die
<1>6. CASE Aloof
  BY <1>1, <1>6, AloofFrame
<1>7. Starting \/ Keep \/ Save \/ Compare \/ Receipt \/ Take \/ Put \/ Stop \/ Die \/ Aloof
  BY Kinds
<1> QED
  BY <1>2, <1>3, <1>4, <1>5, <1>6, <1>7

\* While an operation is between its first and its last publication, its journal is there.
LEMMA PendingAtWork ==
  ASSUME TypeOK, Holding, Named, Busy, job.step \notin {"journal", "complete"}
  PROVE  Pending /\ live.journal.op = job.op
<1>1. live.journal = Record(job.op, job.action, "pending") /\ Record(job.op, job.action, "pending") \in Journal
  BY Turns DEF Named, Busy, Record, Journal
<1> QED
  BY <1>1, RowTypes, RetentionAssumption DEF Pending, Record

\* Every step keeps every task somewhere, and gives a new task an id of its own.
LEMMA EverywhereStep ==
  ASSUME TypeOK, Holding, Moving, Named, Known, Halfway, Everywhere, [Next]_vars
  PROVE  Everywhere' /\ (~reused => ~reused')
<1> USE RetentionAssumption
<1>0. TypeOK' /\ (live["journal"] = live.journal /\ live'["journal"] = live'.journal)
  BY TypeStep
<1>1. CASE \E op \in Ops : Restore(op) \/ \E chosen \in SUBSET Tasks : Apply(op, chosen)
  <2>1. PICK op \in Ops, action \in Actions :
          /\ Restore(op) \/ \E chosen \in SUBSET Tasks : Apply(op, chosen)
          /\ Begin(op, action) /\ ~Pending /\ job = Idle
    BY <1>1 DEF Restore, Apply, Begin, Actions
  <2>2. Settled /\ UNCHANGED <<live, aside, moved, tasks, reused>>
    BY <2>1 DEF Everywhere, Begin
  <2>3. Carried(op)' /\ Settled' /\ ~Pending'
    BY <1>0, <2>1, <2>2, CarriedFirst, SettledStays DEF TypeOK, Pending
  <2>4. job'.op = op /\ job'.step = "journal"
    BY <2>1, BeginTypes
  <2> QED
    BY <2>2, <2>3, <2>4 DEF Everywhere
<1>2. CASE Add
  <2>1. job = Idle /\ ~Pending /\ UNCHANGED job /\ live'.journal = live.journal
    BY <1>2, AloofFrame DEF Add, Holding, Aloof
  <2>2. Settled
    BY <2>1 DEF Everywhere
  <2>3. Settled'
    BY <1>2, <2>1, <2>2, SettledAloof DEF Aloof
  <2>4. reused' = reused
    <3>1. PICK id \in Tasks : IsNext(id, Rows \cup Indexed(live.index)) /\ reused' = (reused \/ id \in tasks)
      BY <1>2, RowTypes DEF Add
    <3>2. id \notin tasks
      BY <2>2, <3>1 DEF Settled, IsNext, Tasks
    <3> QED
      BY <3>1, <3>2 DEF TypeOK
  <2> QED
    BY <1>0, <2>1, <2>3, <2>4 DEF Everywhere, Pending
<1>3. ASSUME UNCHANGED <<plan, tasks>>, ~Add,
             ~\E op \in Ops : Restore(op) \/ \E chosen \in SUBSET Tasks : Apply(op, chosen)
      PROVE  Everywhere'
  <2>1. ASSUME NEW op \in Ops, Carried(op), Put /\ Subject # "journal" => job.op = op PROVE Carried(op)'
    BY <1>3, <2>1, CarriedStays
  <2>2. ASSUME job' # Idle PROVE Carried(job.op)'
    <3>1. PICK op \in Ops : Carried(op) /\ op = job'.op /\ (Put => op = job.op)
      <4>1. CASE Busy /\ job'.op = job.op
        BY <4>1, Turns DEF Everywhere, Busy
      <4>2. CASE Recover
        <5>1. live.journal \in Journal /\ Pending /\ live.journal.op \in Ops
          BY <4>2, RowTypes DEF Recover, Pending, Journal
        <5>2. job'.op = live.journal.op /\ ~Put
          BY <4>2, <5>1, BeginTypes, RowTypes DEF Recover, Begin, Put, Publishing, Busy, Journal
        <5> QED
          BY <5>1, <5>2, RowTypes DEF Everywhere
      <4>3. Busy => Recover \/ job'.op = job.op
        BY <2>2, Turns, Kinds, AloofFrame
        DEF Starting, Restore, Apply, Begin, Busy, Keep, Save, Compare, Receipt, Take, Put, Stop, Die, Advance, Jobs
      <4>4. ~Busy => Recover
        BY <1>3, <2>2, Kinds, AloofFrame
        DEF Starting, Busy, Keep, Save, Compare, Agrees, At, Publishing, Receipt, Take, Put, Stop, Die
      <4> QED
        BY <4>1, <4>2, <4>3, <4>4
    <3>2. Carried(op)'
      BY <2>1, <3>1
    <3> QED
      BY <3>1, <3>2
  <2>3. ASSUME Pending' PROVE Carried(live.journal.op)'
    <3>1. PICK op \in Ops : Carried(op) /\ op = live'.journal.op /\ (Put /\ Subject # "journal" => job.op = op)
      <4>1. CASE Busy /\ live'.journal.op = job.op
        BY <4>1, Turns DEF Everywhere, Busy
      <4>2. CASE Pending /\ live'.journal = live.journal
        <5>1. live.journal.op \in Ops /\ Carried(live.journal.op)
          BY <4>2, RowTypes DEF Everywhere, Pending, Journal
        <5>2. Put /\ Subject # "journal" => job.op = live.journal.op
          BY Turns, PendingAtWork DEF Put, TrackerTurn, IndexTurn
        <5> QED
          BY <4>2, <5>1, <5>2
      <4> QED
        BY <2>3, <4>1, <4>2, PendingFrom DEF Announced
    <3>2. Carried(op)'
      BY <2>1, <3>1
    <3> QED
      BY <1>0, <3>1, <3>2
  <2>4. ASSUME ~Pending', job' = Idle \/ job'.step = "journal" PROVE Settled'
    <3>1. CASE Aloof
      <4>1. UNCHANGED job /\ live'.journal = live.journal
        BY <3>1, AloofFrame
      <4>2. Settled
        BY <1>0, <2>4, <4>1 DEF Everywhere, Pending
      <4> QED
        BY <2>4, <3>1, <4>1, <4>2, SettledAloof
    <3>2. CASE ~Aloof
      <4>1. Busy /\ (Take \/ (Put /\ job.step = "complete") \/ Stop \/ Die)
        <5>1. ~Starting
          BY <1>0, <1>3, <2>4 DEF Starting, Recover, Begin, Pending
        <5>2. ASSUME Advance, Busy, job.step # "complete" PROVE FALSE
          BY <2>4, <5>2, Turns DEF Advance, NextStep, Steps, Jobs, Busy
        <5>3. ~Keep /\ ~Compare /\ ~Receipt
          BY <5>2, Turns DEF Keep, Compare, Receipt, Agrees, At, Publishing, Busy, JournalTurn, Record
        <5>4. ~Save
          BY <2>4, <5>2 DEF Save, At, Busy
        <5>5. Put => job.step = "complete"
          BY <5>2 DEF Put, Publishing
        <5> QED
          BY <3>2, <5>1, <5>3, <5>4, <5>5, Kinds DEF Take, Put, Stop, Die, Publishing, Busy
      <4>2. live'.tracker # live.tracker \/ live'.index # live.index => job.step \notin {"journal", "complete"}
        <5>1. UNCHANGED live \/ \E content : live' = [live EXCEPT ![Subject] = content]
          BY <4>1 DEF Take, Put, Stop, Die, Publish
        <5>2. Subject # "journal" => job.step \notin {"journal", "complete"}
          BY DEF Subject
        <5> QED
          BY <5>1, <5>2 DEF TypeOK, Paths
      <4>3. job.step \in {"journal", "complete"}
        <5>1. ASSUME job.step \notin {"journal", "complete"} PROVE live'.journal = live.journal
          <6>1. UNCHANGED live \/ (Publishing /\ \E content : live' = [live EXCEPT ![Subject] = content])
            BY <4>1, MovedTypes DEF Take, Put, Stop, Die, Publish
          <6>2. Publishing => Subject # "journal"
            BY <5>1 DEF Subject, Publishing
          <6> QED
            BY <6>1, <6>2 DEF TypeOK, Paths
        <5> QED
          BY <1>0, <2>4, <4>1, <5>1, PendingAtWork DEF Pending
      <4>4. ASSUME job.step = "journal" PROVE ~Pending
        <5>1. Subject = "journal" /\ Seen = job.seen.journal /\ Target = Record(job.op, job.action, "pending")
          BY <4>1, <4>4, Turns DEF JournalTurn
        <5>2. CASE UNCHANGED live
          BY <2>4, <5>2 DEF Pending
        <5>3. CASE live[Subject] = Absent
          BY <5>1, <5>3 DEF Pending
        <5>4. CASE Take
          BY <1>0, <4>1, <5>1, <5>4 DEF Take, Holding, Pending, Busy
        <5> QED
          BY <4>1, <4>4, <5>2, <5>3, <5>4 DEF Stop, Die
      <4>5. Settled
        BY <4>1, <4>3, <4>4 DEF Everywhere, Busy
      <4>6. live'.tracker = live.tracker /\ live'.index = live.index
        BY <4>2, <4>3
      <4> QED
        BY <1>0, <1>3, <4>5, <4>6, SettledStays DEF TypeOK
    <3> QED
      BY <3>1, <3>2
  <2>5. ASSUME job' # Idle, job'.step = "complete" PROVE Settled'
    <3>1. CASE Compare /\ job.step = "recheck"
      <4>1. PICK op \in Ops, action \in Actions : Carried(op) /\ job.op = op /\ job.action = action /\ UNCHANGED live
        BY <3>1, Turns DEF Compare, Agrees, At, Busy, Everywhere
      <4>2. live.tracker = Goal(op, action, "tracker") /\ live.index = Goal(op, action, "index")
        BY <3>1, <4>1, RowTypes DEF Compare, Agrees, At
      <4>3. Finished(op, action)
        BY <4>1, <4>2, PlanTypes, RowTypes DEF Finished, Rows, Goal, Carried
      <4> QED
        BY <1>0, <1>3, <4>1, <4>3, SettledAtEnd, SettledStays DEF TypeOK
    <3>2. CASE Aloof
      <4>1. UNCHANGED job /\ Settled
        BY <2>5, <3>2, AloofFrame DEF Everywhere
      <4> QED
        BY <2>5, <3>2, <4>1, SettledAloof
    <3>3. CASE Take /\ job.step = "complete"
      <4>1. Settled /\ live' = [live EXCEPT !["journal"] = Absent]
        BY <3>3 DEF Everywhere, Take, Publish, Publishing, Busy, Subject
      <4>2. live'.tracker = live.tracker /\ live'.index = live.index
        BY <4>1 DEF TypeOK, Paths
      <4> QED
        BY <1>0, <1>3, <4>1, <4>2, SettledStays DEF TypeOK
    <3>4. ~Starting /\ ~Stop /\ ~Die
      BY <2>5, BeginTypes, RowTypes DEF Starting, Stop, Die, Apply, Restore, Recover, Begin, Pending, Actions, Journal
    <3>5. ASSUME Advance, Busy, job.step # "complete" PROVE job.step = "recheck"
      BY <2>5, <3>5, Turns DEF Advance, NextStep, Steps, Jobs, Busy
    <3>6. ~Keep /\ ~Save /\ ~Receipt /\ (Compare => job.step = "recheck")
      BY <2>5, <3>5, Turns DEF Keep, Save, Compare, Receipt, Agrees, At, Publishing, Busy, JournalTurn, Record
    <3>7. ~Put /\ (Take => job.step = "complete")
      BY <2>5, <3>5 DEF Put, Take, Publishing
    <3> QED
      BY <3>1, <3>2, <3>3, <3>4, <3>6, <3>7, Kinds
  <2> QED
    BY <2>2, <2>3, <2>4, <2>5 DEF Everywhere
<1>4. (\E op \in Ops : Restore(op) \/ \E chosen \in SUBSET Tasks : Apply(op, chosen)) \/ Add
        \/ UNCHANGED <<plan, tasks, reused>>
  BY DEF Next, Work, vars, archive, others, Recover, Begin, Take, Put, Keep, Save, Compare, Receipt,
     Stop, Die, ClearLock, Find, Upsert, EditTracker, TaskList, ReadTracker, ReadJournal, ReadIndex, PrintList
<1> QED
  BY <1>1, <1>2, <1>3, <1>4

-----------------------------------------------------------------------------
(* The latest edit *)

\* No step loses the latest edit.
LEMMA LatestStep ==
  ASSUME TypeOK, Holding, Moving, Latest, [Next]_vars
  PROVE  Latest'
<1> USE RetentionAssumption
<1>0. PICK x \in Texts("tracker") : x.edit = edits
  BY DEF Latest
<1>1. CASE Add \/ Upsert \/ EditTracker
  <2>1. PICK rows \in SUBSET Tasks : Edited(rows) /\ (live.tracker = Absent \/ Rows \subseteq rows)
    BY <1>1, EditRows
  <2>2. UNCHANGED <<moved, aside, job>>
    BY <1>1 DEF Add, Upsert, EditTracker
  <2> QED
    BY <1>0, <2>1, <2>2, TextsEdited DEF Latest
<1>2. CASE Put /\ Subject = "tracker"
  <2>1. Publishing /\ UNCHANGED edits
    BY <1>2 DEF Put
  <2>2. Target \in Texts("tracker")' /\ (x \in Texts("tracker")' \/ x = Seen)
    BY <1>2, <2>1, TextsPut DEF Files
  <2>3. TrackerTurn /\ job.op \in Ops /\ plan[job.op] # Absent
    BY <1>2, <2>1, Turns DEF Holding, Publishing, Busy
  <2>4. Seen.edit = Target.edit
    BY <2>3, Turns, PlanTypes DEF Holding, TrackerTurn, Busy
  <2> QED
    BY <1>0, <2>1, <2>2, <2>4 DEF Latest
<1>3. CASE ~(Add \/ Upsert \/ EditTracker) /\ ~(Put /\ Subject = "tracker")
  <2>1. UNCHANGED edits
    BY <1>3 DEF Next, Work, vars, others, Apply, Restore, Recover, Begin, Take, Put, Keep, Save, Compare, Receipt,
       Stop, Die, ClearLock, Find, TaskList, ReadTracker, ReadJournal, ReadIndex, PrintList
  <2>2. CASE Take \/ Stop \/ Die \/ Put
    BY <1>0, <1>3, <2>1, <2>2, TextsStay DEF Latest
  <2>3. CASE UNCHANGED <<live, moved, aside>> /\ (moved = Absent \/ UNCHANGED job)
    BY <1>0, <2>1, <2>3, TextsStay DEF Latest
  <2> QED
    BY <1>3, <2>2, <2>3, Kinds, AloofFrame
    DEF Quiet, Aloof, ClearLock, Find, TaskList, ReadTracker, ReadJournal, ReadIndex, PrintList,
     vars
<1> QED
  BY <1>1, <1>2, <1>3

-----------------------------------------------------------------------------
(* Lists *)

\* A list goes on while nobody has published the tracker.
LEMMA ReaderFrame ==
  ASSUME TypeOK, [Next]_vars
  PROVE  \/ reader' = NoReader
         \/ /\ live'.tracker = live.tracker /\ UNCHANGED tasks /\ Rows' = Rows
            /\ \/ UNCHANGED reader
               \/ ReadTracker \/ ReadJournal \/ ReadIndex
<1>0. live["tracker"] = live.tracker /\ live'["tracker"] = live'.tracker
  BY RowTypes
<1>1. ASSUME NEW rows, Edited(rows) PROVE reader' = NoReader
  BY <1>1 DEF Edited, Publish
<1>2. ASSUME NEW file, NEW content, Publish(file, content)
      PROVE  reader' = NoReader \/ (UNCHANGED reader /\ live'.tracker = live.tracker)
  BY <1>2 DEF Publish, TypeOK, Paths
<1>3. CASE Take \/ Put \/ Stop
  <2>1. UNCHANGED tasks /\ (UNCHANGED <<live, reader>> \/ \E file, content : Publish(file, content))
    BY <1>3 DEF Take, Put, Stop
  <2> QED
    BY <1>0, <1>2, <2>1 DEF Rows
<1>4. CASE Add \/ Upsert \/ EditTracker
  BY <1>1, <1>4 DEF Add, Upsert, EditTracker
<1>5. CASE ReadTracker \/ ReadJournal \/ ReadIndex \/ PrintList
  BY <1>5 DEF ReadTracker, ReadJournal, ReadIndex, PrintList, Rows
<1>6. CASE UNCHANGED <<live, tasks, reader>>
  BY <1>6 DEF Rows
<1> QED
  BY <1>3, <1>4, <1>5, <1>6 DEF Next, Work, TaskList, vars, others, Apply, Restore, Recover, Begin, Keep, Save, Compare,
     Receipt, Die, ClearLock, Find

\* Whoever publishes the tracker ends the list that has read it.
LEMMA ReadWellStep ==
  ASSUME TypeOK, ReadWell, [Next]_vars
  PROVE  ReadWell'
<1> SUFFICES ASSUME Fresh' PROVE live'.tracker # Absent /\ reader'.rows = Rows'
  BY DEF ReadWell
<1>1. reader' # NoReader
  BY DEF Fresh, NoReader
<1>2. CASE UNCHANGED reader /\ live'.tracker = live.tracker /\ Rows' = Rows
  BY <1>2 DEF Fresh, ReadWell
<1>3. CASE ReadTracker
  BY <1>3, RowTypes DEF ReadTracker, NoReader, Fresh, Rows
<1>4. CASE ReadJournal \/ ReadIndex
  <2>1. Fresh /\ reader'.rows = reader.rows /\ live' = live
    BY <1>1, <1>4 DEF ReadJournal, ReadIndex, Fresh, TypeOK, Readers
  <2> QED
    BY <2>1 DEF ReadWell, Rows
<1> QED
  BY <1>1, <1>2, <1>3, <1>4, ReaderFrame

\* Recovery files do not disappear.
LEMMA HistoryStays ==
  ASSUME TypeOK, HistoryExists, [Next]_vars
  PROVE  HistoryExists'
<1>1. Save => \A op \in Ops : saved[op] > 0 => saved'[op] > 0
  BY Turns DEF Save, At, TypeOK, Whole
<1>2. Save \/ UNCHANGED saved
  BY DEF Next, Work, vars, archive, others, Apply, Restore, Recover, Begin, Take, Put, Keep, Save, Compare, Receipt,
     Stop, Die, ClearLock, Add, Find, Upsert, EditTracker, TaskList, ReadTracker, ReadJournal, ReadIndex, PrintList
<1> QED
  BY <1>1, <1>2 DEF HistoryExists

\* The operation's files, as the manifest knows them, while its rows and the index stay.
LEMMA UntouchedStays ==
  ASSUME TypeOK, [Next]_vars, NEW op \in Ops, NEW action \in Actions, Untouched(op, action), plan[op] # Absent,
         Rows' = Rows, live'.index = live.index
  PROVE  Untouched(op, action)'
<1>1. plan'[op] = plan[op]
  <2>1. CASE UNCHANGED plan
    BY <2>1
  <2>2. ASSUME NEW other \in Ops, NEW chosen \in SUBSET Tasks, Apply(other, chosen) PROVE plan'[op] = plan[op]
    BY <2>2 DEF Apply, TypeOK
  <2> QED
    BY <2>1, <2>2, SavedGrows
<1>2. HistoryExists => HistoryExists'
  BY HistoryStays
<1>3. /\ TrackerBefore(op)' = TrackerBefore(op) /\ TrackerAfter(op)' = TrackerAfter(op)
      /\ IndexBefore(op)' = IndexBefore(op) /\ IndexAfter(op)' = IndexAfter(op)
  BY <1>1 DEF TrackerBefore, TrackerAfter, IndexBefore, IndexAfter, Entries
<1> QED
  BY <1>1, <1>2, <1>3 DEF Untouched

LEMMA FinishedStays ==
  ASSUME NEW op \in Ops, NEW action \in Actions, Finished(op, action), plan'[op] = plan[op],
         Rows' = Rows, live'.index = live.index
  PROVE  Finished(op, action)'
<1>1. Goal(op, action, "tracker")' = Goal(op, action, "tracker")
      /\ Goal(op, action, "index")' = Goal(op, action, "index")
  BY DEF Goal, TrackerBefore, TrackerAfter, IndexBefore, IndexAfter, Entries
<1> QED
  BY <1>1 DEF Finished

\* While the tracker is not an operation's to replace, an edit of it keeps its rows.
LEMMA RowsAloof ==
  ASSUME TypeOK, Holding, Aloof, job # Idle, live.tracker # Absent
  PROVE  live'.tracker # Absent /\ Rows' = Rows /\ live'.index = live.index /\ UNCHANGED <<job, plan>>
<1>0. lock = "held" /\ live'.index = live.index /\ UNCHANGED <<job, plan>>
  BY AloofFrame DEF Holding
<1>1. CASE EditTracker
  <2>1. Edited(Rows) /\ Rows \in SUBSET Tasks
    BY <1>1, RowTypes DEF EditTracker
  <2>2. live'.tracker.rows = Rows /\ live'.tracker # Absent /\ live'["tracker"] = live'.tracker
    <3>1. live'.tracker = [rows |-> Rows, edit |-> edits + 1] /\ live'.tracker \in Text
      BY <2>1, EditTypes
    <3> QED
      BY <3>1, RetentionAssumption
  <2>3. Rows' = Rows
    BY <2>2 DEF Rows
  <2> QED
    BY <1>0, <2>2, <2>3
<1>2. CASE UNCHANGED live
  BY <1>0, <1>2 DEF Rows
<1> QED
  BY <1>0, <1>1, <1>2 DEF Aloof, ClearLock, Add, Find, Upsert, TaskList, ReadTracker, ReadJournal, ReadIndex, PrintList,
     vars

\* An operation that has not announced itself has changed nothing.
LEMMA StartedStep ==
  ASSUME TypeOK, Holding, Moving, Named, Started, Everywhere, [Next]_vars
  PROVE  Started'
<1> USE RetentionAssumption
<1>0. TypeOK' /\ live["journal"] = live.journal /\ live'["journal"] = live'.journal
  BY TypeStep
<1> SUFFICES ASSUME job' # Idle, job'.step = "journal", ~Pending'
    PROVE  live'.tracker # Absent /\ Untouched(job.op, job.action)'
  BY DEF Started
<1>1. ASSUME NEW op \in Ops, NEW chosen \in SUBSET Tasks, Apply(op, chosen)
      PROVE  live'.tracker # Absent /\ Untouched(job.op, job.action)'
  <2>1. plan'[op] = [tasks |-> chosen, tracker |-> live.tracker, index |-> live.index] /\ live.tracker # Absent
    BY <1>1, RowTypes DEF Apply, TypeOK, Rows
  <2>2. UNCHANGED live /\ job'.op = op /\ job'.action = "retain" /\ Rows' = live.tracker.rows
    BY <1>1, <2>1, BeginTypes, RowTypes DEF Apply, Begin, Actions, Rows
  <2>3. TrackerBefore(op)' = live.tracker /\ plan'[op].index = live.index
    BY <2>1 DEF TrackerBefore
  <2> QED
    BY <2>1, <2>2, <2>3 DEF Untouched, TrackerBefore
<1>2. ASSUME NEW op \in Ops, Restore(op) PROVE live'.tracker # Absent /\ Untouched(job.op, job.action)'
  <2>1. plan[op] # Absent /\ live.tracker = TrackerAfter(op) /\ live.index = IndexAfter(op) /\ UNCHANGED plan
    BY <1>2, RowTypes DEF Restore
  <2>2. UNCHANGED live /\ job'.op = op /\ job'.action = "restore"
    BY <1>2, BeginTypes DEF Restore, Begin, Actions
  <2>3. Rows' = TrackerAfter(op).rows /\ live.tracker # Absent
    BY <2>1, <2>2, PlanTypes, RowTypes DEF Rows
  <2>4. TrackerAfter(op)' = TrackerAfter(op) /\ IndexAfter(op)' = IndexAfter(op)
    BY <2>1 DEF TrackerAfter, IndexAfter, IndexBefore, Entries
  <2> QED
    BY <2>1, <2>2, <2>3, <2>4 DEF Untouched
<1>3. ~Recover
  BY <1>0 DEF Recover, Begin, Pending
<1>4. CASE Take /\ job.step = "journal"
  <2>1. Subject = "journal" /\ Seen = job.seen.journal /\ Target = Record(job.op, job.action, "pending")
        /\ job.op \in Ops /\ job.action \in Actions /\ plan[job.op] # Absent /\ UNCHANGED job /\ Busy
    BY <1>4, Turns DEF JournalTurn, Take, Publishing, Busy, Holding
  <2>2. ~Pending
    BY <1>0, <1>4, <2>1 DEF Take, Holding, Pending, Busy
  <2>3. live' = [live EXCEPT !["journal"] = Absent]
    BY <1>4, <2>1 DEF Take, Publish
  <2>4. live'.tracker = live.tracker /\ live'.index = live.index
    BY <2>3 DEF TypeOK, Paths
  <2>5. Rows' = Rows
    BY <2>4 DEF Rows
  <2>6. live.tracker # Absent /\ Untouched(job.op, job.action)
    BY <1>4, <2>1, <2>2 DEF Started, Busy
  <2>7. PICK op \in Ops, action \in Actions : op = job.op /\ action = job.action
    BY <2>1
  <2>8. Untouched(op, action)'
    BY <2>1, <2>4, <2>5, <2>6, <2>7, UntouchedStays
  <2> QED
    BY <2>1, <2>4, <2>6, <2>7, <2>8
<1>5. CASE Aloof
  <2>1. job # Idle /\ job.step = "journal" /\ ~Pending /\ UNCHANGED job
    BY <1>0, <1>5, AloofFrame DEF Pending
  <2>2. live.tracker # Absent /\ Untouched(job.op, job.action)
    BY <2>1 DEF Started
  <2>3. live'.tracker # Absent /\ Rows' = Rows /\ live'.index = live.index
    BY <1>5, <2>1, <2>2, RowsAloof
  <2>4. PICK op \in Ops, action \in Actions : op = job.op /\ action = job.action /\ plan[op] # Absent
    BY <2>1, Turns DEF Holding, Busy
  <2>5. Untouched(op, action)'
    BY <2>2, <2>3, <2>4, UntouchedStays
  <2> QED
    BY <2>1, <2>3, <2>4, <2>5
<1>6. ASSUME Advance, Busy, job.step # "complete" PROVE FALSE
  BY <1>6, Turns DEF Advance, NextStep, Steps, Jobs, Busy
<1>7. ~Keep /\ ~Compare /\ ~Receipt /\ ~Save
  BY <1>6, Turns DEF Keep, Compare, Receipt, Save, Agrees, At, Publishing, Busy, JournalTurn, Record
<1>8. ~Put /\ ~Stop /\ ~Die /\ (Take => job.step = "journal")
  BY <1>6 DEF Put, Stop, Die, Take, Publishing
<1> QED
  BY <1>1, <1>2, <1>3, <1>4, <1>5, <1>7, <1>8, Kinds DEF Starting

\* An operation that has compared its files at the end has both of them done.
LEMMA EndedStep ==
  ASSUME TypeOK, Holding, Moving, Named, Ended, [Next]_vars
  PROVE  Ended'
<1> USE RetentionAssumption
<1>0. TypeOK'
  BY TypeStep
<1> SUFFICES ASSUME job' # Idle, job'.step = "complete" PROVE live'.tracker # Absent /\ Finished(job.op, job.action)'
  BY DEF Ended
<1>1. CASE Compare /\ job.step = "recheck"
  <2>1. PICK op \in Ops, action \in Actions :
          /\ job.op = op /\ job.action = action /\ plan[op] # Absent /\ UNCHANGED <<live, plan>>
          /\ job'.op = op /\ job'.action = action
    BY <1>1, Turns DEF Compare, Agrees, At, Busy, Holding, Advance, Jobs, archive
  <2>2. live.tracker = Goal(op, action, "tracker") /\ live.index = Goal(op, action, "index")
    BY <1>1, <2>1, RowTypes DEF Compare, Agrees, At
  <2>3. live.tracker # Absent /\ Rows = Goal(op, action, "tracker").rows /\ Rows' = Rows
    BY <2>1, <2>2, PlanTypes, RowTypes DEF Goal, Rows
  <2>4. Finished(op, action)'
    BY <2>1, <2>2, <2>3, FinishedStays DEF Finished
  <2> QED
    BY <2>1, <2>3, <2>4
<1>2. CASE Aloof
  <2>1. job # Idle /\ job.step = "complete" /\ UNCHANGED job
    BY <1>2, AloofFrame
  <2>2. live.tracker # Absent /\ Finished(job.op, job.action)
    BY <2>1 DEF Ended
  <2>3. live'.tracker # Absent /\ Rows' = Rows /\ live'.index = live.index /\ UNCHANGED plan
    BY <1>2, <2>1, <2>2, RowsAloof
  <2>4. PICK op \in Ops, action \in Actions : op = job.op /\ action = job.action
    BY <2>1, Turns DEF Busy
  <2>5. Finished(op, action)'
    BY <2>2, <2>3, <2>4, FinishedStays
  <2> QED
    BY <2>1, <2>3, <2>4, <2>5
<1>3. CASE Take /\ job.step = "complete"
  <2>1. UNCHANGED <<job, plan>> /\ Busy /\ live' = [live EXCEPT !["journal"] = Absent]
    BY <1>3 DEF Take, Publish, Publishing, Busy, Subject, archive
  <2>2. live'.tracker = live.tracker /\ live'.index = live.index
    BY <2>1 DEF TypeOK, Paths
  <2>3. Rows' = Rows /\ live.tracker # Absent /\ Finished(job.op, job.action)
    BY <1>3, <2>1, <2>2 DEF Rows, Ended, Busy
  <2>4. PICK op \in Ops, action \in Actions : op = job.op /\ action = job.action
    BY <2>1, Turns
  <2>5. Finished(op, action)'
    BY <2>1, <2>2, <2>3, <2>4, FinishedStays
  <2> QED
    BY <2>1, <2>2, <2>3, <2>4, <2>5
<1>4. ~Starting /\ ~Stop /\ ~Die
  BY BeginTypes, RowTypes DEF Starting, Stop, Die, Apply, Restore, Recover, Begin, Pending, Actions, Journal
<1>5. ASSUME Advance, Busy, job.step # "complete" PROVE job.step = "recheck"
  BY <1>5, Turns DEF Advance, NextStep, Steps, Jobs, Busy
<1>6. ~Keep /\ ~Save /\ ~Receipt /\ (Compare => job.step = "recheck")
  BY <1>5, Turns DEF Keep, Save, Compare, Receipt, Agrees, At, Publishing, Busy, JournalTurn, Record
<1>7. ~Put /\ (Take => job.step = "complete")
  BY <1>5 DEF Put, Take, Publishing
<1> QED
  BY <1>1, <1>2, <1>3, <1>4, <1>6, <1>7, Kinds

\* The index that a pending operation publishes while the tracker stays is the one after its retention.
LEMMA IndexPublished ==
  ASSUME TypeOK, Holding, Moving, Named, Known, Halfway, [Next]_vars, NEW op \in Ops, NEW action \in Actions,
         Busy, op = job.op, action = job.action, live'.index # live.index,
         Untouched(op, action) \/ Finished(op, action)
  PROVE  /\ action = "retain" /\ Untouched(op, action) /\ HistoryExists
         /\ live'.index \in {Absent, plan[op].index, IndexBefore(op), IndexAfter(op)}
<1> USE RetentionAssumption
<1>0. plan[op] # Absent /\ live["index"] = live.index
  BY RowTypes DEF Holding, Busy
<1>1. Take \/ Put \/ Stop
  BY Kinds, AloofFrame DEF Quiet, Die
<1>2. /\ Publishing /\ IndexTurn
      /\ \/ Take /\ live'.index = Absent
         \/ Put /\ live'.index = Target
         \/ Stop /\ moved # Absent /\ live.index = Absent /\ live'.index = Seen
  <2>1. \/ Take /\ Publishing /\ live' = [live EXCEPT ![Subject] = Absent]
        \/ Put /\ Publishing /\ live' = [live EXCEPT ![Subject] = Target]
        \/ Stop /\ moved # Absent /\ live[Subject] = Absent /\ Publishing /\ live' = [live EXCEPT ![Subject] = Seen]
    BY <1>1 DEF Take, Put, Stop, Publish, Moving
  <2>2. IndexTurn /\ Subject = "index"
    BY <2>1, Turns DEF TypeOK, Paths
  <2> QED
    BY <1>0, <2>1, <2>2 DEF TypeOK, Paths
<1>3. /\ Seen \in {plan[op].index, IndexBefore(op), IndexAfter(op)}
      /\ Target = IF action = "retain" THEN IndexAfter(op) ELSE IndexBefore(op)
      /\ job.step = IF action = "retain" THEN "first" ELSE "second"
      /\ Subject = "index"
  BY <1>2, Turns DEF Holding, Busy, IndexTurn, Actions
<1>4. live.index # Target
  <2>1. Target # Absent
    BY <1>0, <1>3, PlanTypes
  <2> QED
    BY <1>0, <1>2, <1>3, <2>1 DEF Take, Put
<1>5. ~Finished(op, action)
  BY <1>3, <1>4 DEF Finished, Goal
<1>6. action = "retain"
  <2>1. ASSUME action = "restore" PROVE FALSE
    <3>1. TrackerBefore(op).rows \subseteq Rows /\ Rows = TrackerAfter(op).rows
      BY <1>3, <1>5, <2>1 DEF Halfway, Untouched, Busy
    <3>2. plan[op].tasks # {} /\ plan[op].tasks \subseteq TrackerBefore(op).rows
      BY <1>0, PlanTypes DEF Known
    <3> QED
      BY <1>0, <3>1, <3>2, PlanTypes
  <2> QED
    BY <2>1 DEF Actions
<1>7. HistoryExists
  BY <1>3, <1>6 DEF HistoryExists, Holding, Busy, Steps, Whole, TypeOK
<1> QED
  BY <1>2, <1>3, <1>5, <1>6, <1>7

\* The tracker that a list has read is the one before or after the pending operation.
LEMMA ReadBeforeStep ==
  ASSUME TypeOK, Holding, Moving, Named, Known, Halfway, Everywhere, Started, Ended, ReadBefore,
         [Next]_vars
  PROVE  ReadBefore'
<1> USE RetentionAssumption
<1>0. live["journal"] = live.journal /\ live'["journal"] = live'.journal
  BY TypeStep
<1> SUFFICES ASSUME Fresh', reader'.step = "index", Pending'
    PROVE  Untouched(live.journal.op, live.journal.action)' \/ Finished(live.journal.op, live.journal.action)'
  BY DEF ReadBefore
<1>1. Rows' = Rows /\ UNCHANGED reader /\ Fresh /\ reader.step = "index"
  <2>1. reader' # NoReader
    BY DEF NoReader
  <2>2. ~ReadTracker
    BY DEF ReadTracker, NoReader
  <2>3. ~ReadJournal
    BY <2>1 DEF ReadJournal, Pending
  <2>4. ~ReadIndex
    BY <2>1 DEF ReadIndex, TypeOK, Readers
  <2> QED
    BY <2>1, <2>2, <2>3, <2>4, ReaderFrame DEF Fresh
<1>2. CASE Announced
  <2>1. job # Idle /\ live'.index = live.index /\ live'.journal.op = job.op /\ live'.journal.action = job.action
    BY <1>2 DEF Announced, Record, Busy
  <2>2. PICK op \in Ops, action \in Actions : op = job.op /\ action = job.action /\ plan[op] # Absent
    BY <2>1, Turns DEF Holding, Busy
  <2>3. Untouched(op, action) \/ Finished(op, action)
    BY <1>2, <2>1, <2>2 DEF Announced, Started, Ended
  <2>4. UNCHANGED plan
    BY <1>2, SavedGrows DEF Announced, Busy, Apply, Begin
  <2>5. Untouched(op, action)' \/ Finished(op, action)'
    BY <1>1, <2>1, <2>2, <2>3, <2>4, UntouchedStays, FinishedStays
  <2> QED
    BY <1>0, <2>1, <2>2, <2>5
<1>3. CASE Pending /\ live'.journal = live.journal
  <2>1. PICK op \in Ops, action \in Actions : op = live.journal.op /\ action = live.journal.action
    BY <1>3, RowTypes DEF Pending, Journal
  <2>2. Untouched(op, action) \/ Finished(op, action)
    BY <1>1, <1>3, <2>1 DEF ReadBefore
  <2>3. UNCHANGED plan
    BY <1>3, SavedGrows DEF Apply
  <2>4. ASSUME live'.index # live.index PROVE Untouched(op, action)'
    <3>1. Busy /\ (TrackerTurn \/ IndexTurn)
      <4>1. Take \/ Put \/ Stop
        BY <2>4, Kinds, AloofFrame DEF Quiet, Die
      <4>2. Publishing /\ \E content : live' = [live EXCEPT ![Subject] = content]
        BY <2>4, <4>1 DEF Take, Put, Stop, Publish, Moving
      <4> QED
        BY <2>4, <4>2, Turns DEF TypeOK, Paths, TrackerTurn, IndexTurn
    <3>2. op = job.op /\ action = job.action
      BY <1>0, <2>1, <3>1 DEF Named, TrackerTurn, IndexTurn, Busy, Record
    <3>3. /\ action = "retain" /\ Untouched(op, action) /\ HistoryExists
          /\ live'.index \in {Absent, plan[op].index, IndexBefore(op), IndexAfter(op)}
      BY <2>2, <2>4, <3>1, <3>2, IndexPublished
    <3>4. HistoryExists'
      BY <3>3, HistoryStays
    <3>5. TrackerBefore(op)' = TrackerBefore(op) /\ IndexBefore(op)' = IndexBefore(op)
          /\ IndexAfter(op)' = IndexAfter(op)
      BY <2>3 DEF TrackerBefore, IndexBefore, IndexAfter, Entries
    <3> QED
      BY <1>1, <2>3, <3>3, <3>4, <3>5 DEF Untouched
  <2>5. ASSUME live'.index = live.index PROVE Untouched(op, action)' \/ Finished(op, action)'
    <3>1. plan[op] # Absent
      BY <1>3, <2>1 DEF Everywhere, Carried
    <3> QED
      BY <1>1, <2>2, <2>3, <2>5, <3>1, UntouchedStays, FinishedStays
  <2> QED
    BY <1>0, <1>3, <2>1, <2>4, <2>5
<1> QED
  BY <1>2, <1>3, PendingFrom

\* A reader that has read the tracker, and finds an index that is not missing, has every task.
LEMMA ReadCovers ==
  ASSUME TypeOK, Holding, Named, Known, Everywhere, ReadBefore, Fresh, reader.step = "index",
         HistoryExists => live.index # Absent
  PROVE  Settled
<1> USE RetentionAssumption
<1>1. CASE ~Pending
  BY <1>1, PendingAtWork DEF Everywhere, Busy
<1>2. CASE Pending
  <2>1. PICK op \in Ops, action \in Actions : op = live.journal.op /\ action = live.journal.action
    BY <1>2, RowTypes DEF Pending, Journal
  <2>2. Carried(op) /\ plan[op] # Absent
    BY <1>2, <2>1 DEF Everywhere, Carried
  <2>3. CASE Finished(op, action)
    BY <2>2, <2>3, SettledAtEnd
  <2>4. CASE Untouched(op, action) /\ action = "restore"
    <3>1. Finished(op, "retain")
      BY <2>4 DEF Finished, Untouched, Goal
    <3> QED
      BY <2>2, <3>1, SettledAtEnd DEF Actions
  <2>5. CASE Untouched(op, action) /\ action = "retain"
    <3>1. /\ Rows = TrackerBefore(op).rows
          /\ live.index \in {Absent, plan[op].index, IndexBefore(op), IndexAfter(op)}
          /\ live.index = Absent => plan[op].index = Absent
      BY <2>5 DEF Untouched
    <3>2. tasks \subseteq Rows \cup Indexed(plan[op].index)
      BY <2>2, <3>1 DEF Carried
    <3>3. Indexed(plan[op].index) \subseteq Indexed(live.index)
      <4>1. CASE plan[op].index = Absent \/ live.index = plan[op].index
        BY <4>1 DEF Indexed
      <4>2. CASE plan[op].index # Absent /\ live.index \in {IndexBefore(op), IndexAfter(op)}
        <5>1. IndexBefore(op) \subseteq live.index /\ live.index # Absent
          BY <2>2, <4>2, PlanTypes
        <5>2. Indexed(plan[op].index) = {entry[1] : entry \in IndexBefore(op)}
          BY <2>2, PlanTypes
        <5> QED
          BY <5>1, <5>2 DEF Indexed
      <4> QED
        BY <3>1, <4>1, <4>2
    <3> QED
      BY <3>2, <3>3 DEF Settled
  <2>6. Finished(op, action) \/ Untouched(op, action)
    BY <1>2, <2>1 DEF ReadBefore
  <2> QED
    BY <2>3, <2>4, <2>5, <2>6 DEF Actions
<1> QED
  BY <1>1, <1>2

\* The index that a list accepts has every task that the tracker has not.
LEMMA ReadAllStep ==
  ASSUME TypeOK, Holding, Named, Known, Everywhere, ReadWell, ReadBefore, ReadAll, [Next]_vars
  PROVE  ReadAll'
<1> SUFFICES ASSUME Fresh', reader'.step = "recheck"
    PROVE  reader'.rows \cup reader'.index = tasks' /\ reader'.rows \cap reader'.index = {}
  BY DEF ReadAll
<1>1. reader' # NoReader
  BY DEF NoReader
<1>2. CASE ReadIndex
  <2>1. /\ Complete(reader.journal, live.index) /\ reader.rows \cap Indexed(live.index) = {}
        /\ reader'.rows = reader.rows /\ reader'.index = Indexed(live.index) /\ reader'.missing = reader.missing
        /\ reader.step = "index" /\ UNCHANGED tasks
    BY <1>1, <1>2, RowTypes DEF ReadIndex, TypeOK, Readers
  <2>2. Fresh /\ reader.rows = Rows
    BY <2>1 DEF Fresh, ReadWell
  <2>3. Settled
    BY <2>1, <2>2, ReadCovers DEF Complete
  <2> QED
    BY <2>1, <2>2, <2>3 DEF Settled, Known
<1>3. CASE UNCHANGED <<reader, tasks>>
  BY <1>3 DEF Fresh, ReadAll
<1>4. ~ReadTracker /\ ~ReadJournal
  BY <1>1 DEF ReadTracker, ReadJournal, NoReader, TypeOK, Readers
<1> QED
  BY <1>1, <1>2, <1>3, <1>4, ReaderFrame

-----------------------------------------------------------------------------
(* The theorems *)

\* The invariant holds at first, and every step keeps it.
LEMMA InvInit ==
  ASSUME Init
  PROVE  RetentionInv
<1> USE RetentionAssumption
<1>1. /\ live.tracker = [rows |-> 1..First, edit |-> 0] /\ live.index = Absent /\ live.journal = Absent
      /\ live["tracker"] = live.tracker /\ live["index"] = live.index /\ live["journal"] = live.journal
  BY DEF Init, Files
<1>2. 1..First \subseteq Tasks /\ live.tracker \in Text
  BY <1>1 DEF Tasks, Text
<1>3. TypeOK
  <2>1. live \in Paths
    BY <1>2 DEF Init, Files, Paths
  <2>2. reader \in Readers
    BY DEF Init, NoReader, Readers
  <2>3. plan \in [Ops -> {Absent} \cup Manifests] /\ saved \in [Ops -> 0..Whole]
    BY DEF Init, Whole
  <2>4. tasks \subseteq Tasks /\ found \in {0} \cup Tasks /\ edits \in 0..MaxEdits /\ faults \in 0..MaxFaults
    BY <1>2 DEF Init
  <2>5. aside = {} /\ receipts = {} /\ lock = "free" /\ job = Idle /\ reused = FALSE /\ manual = FALSE
    BY DEF Init
  <2> QED
    BY <2>1, <2>2, <2>3, <2>4, <2>5 DEF TypeOK
<1>4. Rows = 1..First /\ Indexed(live.index) = {} /\ tasks = 1..First /\ live.tracker # Absent
  BY <1>1, <1>2 DEF Rows, Indexed, Init
<1>5. Texts("index") = {}
  BY <1>1 DEF Texts, Init
<1>6. live.tracker \in Texts("tracker") /\ live.tracker.edit = 0
  BY <1>1, <1>4, InTexts
<1>7. Holding /\ Moving /\ Named /\ Halfway
  BY DEF Init, Holding, Moving, Named, Halfway
<1>8. Known
  BY <1>4, <1>5 DEF Known, Init
<1>9. Everywhere /\ ~reused
  BY <1>1, <1>4 DEF Everywhere, Settled, Pending, Init
<1>10. Latest
  BY <1>6 DEF Latest, Init
<1> QED
  BY <1>3, <1>7, <1>8, <1>9, <1>10 DEF RetentionInv

LEMMA InvStep ==
  ASSUME RetentionInv, [Next]_vars
  PROVE  RetentionInv'
<1> USE DEF RetentionInv
<1>1. Holding' /\ Moving' /\ Named'
  BY Starts, Works, Aloofs DEF Next, Work, Aloof
<1>2. TypeOK' /\ Known' /\ Halfway' /\ Everywhere' /\ ~reused' /\ Latest'
  BY TypeStep, KnownStep, HalfwayStep, EverywhereStep, LatestStep
<1> QED
  BY <1>1, <1>2

\* Every reachable state has its type, and the strengthening that the other theorems rest on.
THEOREM RetentionInvariant == Spec => []RetentionInv
BY InvInit, InvStep, PTL DEF Spec

\* Whatever dies, fails, is recovered, restored or edited meanwhile: every task there ever was has its row in a
\* tracker, or an index entry whose original is saved, and no id is given twice.
THEOREM TasksKept == Spec => []EveryTaskKept
<1>1. RetentionInv => EveryTaskKept
  <2> SUFFICES ASSUME RetentionInv, NEW t \in tasks
      PROVE  \/ \E text \in Texts("tracker") : t \in text.rows
             \/ \E index \in Texts("index") : \E entry \in index : entry[1] = t /\ saved[entry[2]] = Whole
    BY DEF EveryTaskKept, RetentionInv
  <2> USE RetentionAssumption
  <2>1. \A index \in Texts("index") : \A entry \in index : entry[2] \in Ops /\ saved[entry[2]] = Whole
    BY DEF RetentionInv, Known, Good
  <2>2. CASE Settled
    <3>1. CASE t \in Rows
      <4>1. live.tracker \in Texts("tracker") /\ t \in live.tracker.rows
        BY <3>1, InTexts, RowTypes DEF Rows, RetentionInv
      <4> QED
        BY <4>1
    <3>2. CASE t \in Indexed(live.index)
      <4>1. live.index \in Texts("index") /\ \E entry \in live.index : entry[1] = t
        BY <3>2, InTexts, RowTypes DEF Indexed, RetentionInv
      <4> QED
        BY <2>1, <4>1
    <3> QED
      BY <2>2, <3>1, <3>2 DEF Settled
  <2>3. ASSUME NEW op \in Ops, Carried(op)
        PROVE  \/ \E text \in Texts("tracker") : t \in text.rows
               \/ \E index \in Texts("index") : \E entry \in index : entry[1] = t /\ saved[entry[2]] = Whole
    <3>1. t \in TrackerAfter(op).rows \/ t \in plan[op].tasks \/ \E entry \in IndexBefore(op) : entry[1] = t
      BY <2>3, PlanTypes DEF RetentionInv, Carried
    <3>2. CASE \E entry \in IndexBefore(op) : entry[1] = t
      BY <2>1, <2>3, <3>2 DEF Carried
    <3>3. CASE t \in plan[op].tasks
      <4>1. <<t, op>> \in Entries(op) /\ <<t, op>>[1] = t
        BY <3>3 DEF Entries
      <4> QED
        BY <2>1, <2>3, <3>3, <4>1 DEF Carried
    <3>4. CASE t \in TrackerAfter(op).rows
      BY <2>3, <3>4 DEF Carried
    <3> QED
      BY <3>1, <3>2, <3>3, <3>4
  <2>4. Settled \/ \E op \in Ops : Carried(op)
    <3>1. CASE Pending
      BY <3>1, RowTypes DEF Pending, Journal, RetentionInv, Everywhere
    <3>2. CASE ~Pending
      BY <3>2, Turns DEF RetentionInv, Everywhere, Busy
    <3> QED
      BY <3>1, <3>2
  <2> QED
    BY <2>2, <2>3, <2>4
<1> QED
  BY <1>1, RetentionInvariant, PTL

\* Nothing that the operations do replaces the latest edit of the tracker, whoever made it.
THEOREM EditsKept == Spec => []LatestEditKept
<1>1. RetentionInv => LatestEditKept
  BY DEF RetentionInv, Latest, LatestEditKept
<1> QED
  BY <1>1, RetentionInvariant, PTL

\* While it is read, the tracker stays what the list has of it, and the index has every other task.
LEMMA ListInvariant == Spec => []ListInv
<1>1. Init => ListInv
  BY DEF Init, ListInv, ReadWell, Started, Ended, ReadBefore, ReadAll, Fresh, NoReader
<1>2. RetentionInv /\ ListInv /\ [Next]_vars => ListInv'
  BY ReadWellStep, StartedStep, EndedStep, ReadBeforeStep, ReadAllStep DEF RetentionInv, ListInv
<1> QED
  BY <1>1, <1>2, RetentionInvariant, PTL DEF Spec

\* A list that is printed has every task once, whatever ran, died or was recovered while it was read.
THEOREM ListsAreComplete == Spec => ListIsComplete
<1>1. ListInv => (reader.step = "recheck" /\ reader'.step = "idle" /\ UNCHANGED live /\ ~reader.missing =>
                    reader.rows \cup reader.index = tasks /\ reader.rows \cap reader.index = {})
  BY DEF ListInv, ReadAll, Fresh
<1> QED
  BY <1>1, ListInvariant, PTL DEF ListIsComplete
=============================================================================
