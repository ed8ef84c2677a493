----------------------------- MODULE CheckedReplace -----------------------------
(***************************************************************************)
(* The checked publication of one file: publishMemoryOutput of             *)
(* lib/memory-output.js, saveRoles of lib/role-store.js, and                 *)
(* detachCommittedHardLink of lib/io.js, as they run on POSIX, under the     *)
(* latch of lib/runtime-writes.js.                                         *)
(*                                                                         *)
(* Node has no compare-and-swap of a path.  A call prepares its value in a *)
(* file of its own (`next`), moves the file it has captured aside          *)
(* (`before`), looks at what it moved, links `next` to the path, which     *)
(* fails if someone was faster, and removes the name `next`.  The calls of *)
(* leerness run one after another under the state-store lock; editors and  *)
(* other tools ignore it and act between any two of these steps.           *)
(*                                                                         *)
(* A file is an inode with a content; a directory maps names to inodes.  A *)
(* write that leaves the text as it was changes only times and is left     *)
(* out, as are the Windows variants and the last fallback of the rollback, *)
(* a rename of the path to a name of its own instead of its removal.       *)
(***************************************************************************)
EXTENDS Naturals

CONSTANTS
  Calls,      \* publications
  Inodes,
  Contents,   \* the texts that files have
  Old,        \* what the file holds at first
  Value,      \* the text that each call publishes
  Kind,       \* "memory" or "roles": which of the two protocols each call is
  MaxForeign, \* bound: steps of editors and other tools
  None, Empty

ASSUME ReplaceAssumption ==
  /\ Old \in Contents /\ None \notin Contents \cup Inodes /\ Empty \notin Contents /\ Empty # None
  /\ Value \in [Calls -> Contents] /\ Kind \in [Calls -> {"memory", "roles"}]
  /\ MaxForeign \in Nat

Live == <<"live">>
NextOf(c) == <<"next", c>>
Before(c) == <<"before", c>>
Names == {Live} \cup {NextOf(c) : c \in Calls} \cup {Before(c) : c \in Calls}

VARIABLES
  dir,      \* the inode behind each name
  data,     \* the content of each inode
  pc,       \* the place of each call
  got,      \* what a call captured: inode, content, and whether its times are still the same
  did,      \* what a call has done: displaced, installed, withdrew, restored
  latched,  \* calls with operation.failure set
  refused,  \* calls that the layout has refused a write
  layout,   \* does the project's layout admit writes?
  outcome,  \* what each call reported
  foreign,  \* steps that others have taken
  raced     \* history: calls for which others changed the path since the look that decides their next step

vars == <<dir, data, pc, got, did, latched, refused, layout, outcome, foreign, raced>>
files == <<dir, data>>
latch == <<latched, refused>>

Nothing == [inode |-> None, content |-> None]
Linked(n) == dir[n] # None
Body(n) == IF Linked(n) THEN data[dir[n]] ELSE None
Single(n) == \A m \in Names : dir[m] = dir[n] => m = n
Free == {i \in Inodes : \A n \in Names : dir[n] # i}

Active(c) == pc[c] \notin {"idle", "done", "dead"}
\* Places between a look at the path and the rename or unlink that it decides.
Decided == {"restore", "withdraw"}
Allowed(c) == layout /\ c \notin latched
Existing(c) == got[c].inode # None

Init ==
  /\ \E i \in Inodes \cup {None} :
       /\ dir = [n \in Names |-> IF n = Live THEN i ELSE None]
       /\ data = [j \in Inodes |-> IF j = i THEN Old ELSE Empty]
  /\ pc = [c \in Calls |-> "idle"] /\ got = [c \in Calls |-> Nothing]
  /\ did = [c \in Calls |-> {}] /\ latched = {} /\ refused = {} /\ layout = TRUE
  /\ outcome = [c \in Calls |-> "none"] /\ foreign = 0 /\ raced = {}

Goto(c, place) == pc' = [pc EXCEPT ![c] = place] /\ raced' = raced \ {c}
Did(c, what) == did' = [did EXCEPT ![c] = @ \cup what]
Bind(n, i) == dir' = [dir EXCEPT ![n] = i]
\* An attempt to write: a layout that does not admit it refuses it, and everything after it.
Refusal(c) == refused' = IF layout THEN refused ELSE refused \cup {c}
Attempt(c) == Refusal(c) /\ latched' = IF Allowed(c) THEN latched ELSE latched \cup {c}

\* What a failed call says: only memory outputs say whether the value was on the path.
Failure(c) ==
  IF c \in latched' \/ Kind[c] = "roles" THEN "unsure"
  ELSE IF "installed" \in did[c] THEN "published" ELSE "failed"
\* Mutant: a refusal that was swallowed on the way is forgotten.
End_swallows(c, ok) ==
  Goto(c, "done") /\ outcome' = [outcome EXCEPT ![c] = IF ok THEN "ok" ELSE Failure(c)]
End(c, ok) ==
  /\ Goto(c, "done")
  /\ outcome' = [outcome EXCEPT ![c] = IF ok /\ c \notin latched' THEN "ok" ELSE Failure(c)]

\* The path holds, or lacks, exactly what the call captured.
Current(c) ==
  /\ dir[Live] = got[c].inode /\ Body(Live) = got[c].content
  /\ Existing(c) => Single(Live)

-----------------------------------------------------------------------------
(* A publication *)

\* ACTION: under the lock, an absent file or one with a single name is read.
Capture(c) ==
  /\ pc[c] = "idle" /\ \A d \in Calls : ~Active(d)
  /\ UNCHANGED <<files, did, latch, layout, foreign>>
  /\ \/ /\ Linked(Live) => Single(Live)
        /\ got' = [got EXCEPT ![c] = [inode |-> dir[Live], content |-> Body(Live)]]
        /\ Goto(c, "prepare") /\ UNCHANGED outcome
     \/ /\ Linked(Live) /\ ~Single(Live)
        /\ End(c, FALSE) /\ UNCHANGED got

\* ACTION: a memory output that has its value already is only compared again.
Unchanged(c) ==
  /\ pc[c] = "prepare" /\ Kind[c] = "memory" /\ Existing(c) /\ got[c].content = Value[c]
  /\ UNCHANGED <<files, got, did, latch, layout, foreign>>
  /\ End(c, Current(c))

\* ACTION: the value is written to a new file; a role store is read again before that.
Prepare(c) ==
  /\ pc[c] = "prepare" /\ Allowed(c)
  /\ IF Kind[c] = "roles" THEN Current(c) ELSE ~(Existing(c) /\ got[c].content = Value[c])
  /\ \E i \in Free :
       Bind(NextOf(c), i) /\ data' = [data EXCEPT ![i] = Value[c]]
  /\ Goto(c, IF Kind[c] = "roles" /\ ~Existing(c) THEN "install" ELSE "check")
  /\ UNCHANGED <<got, did, latch, layout, outcome, foreign>>

\* ACTION: the path is compared with the captured file once more.
Check(c) ==
  /\ pc[c] = "check"
  /\ Goto(c, IF ~Current(c) THEN "failing" ELSE IF Existing(c) THEN "displace" ELSE "install")
  /\ UNCHANGED <<files, got, did, latch, layout, outcome, foreign>>

\* ACTION: whatever the path names by now is moved aside.
Displace(c) ==
  /\ pc[c] = "displace" /\ Allowed(c) /\ Linked(Live)
  /\ dir' = [dir EXCEPT ![Before(c)] = dir[Live], ![Live] = None]
  /\ Did(c, {"displaced"}) /\ Goto(c, "verify")
  /\ UNCHANGED <<data, got, latch, layout, outcome, foreign>>

\* ACTION: was it what the call captured?
\* Mutant: the moved file is trusted.
Verify_trusts(c) ==
  /\ pc[c] = "verify" /\ Goto(c, "install")
  /\ UNCHANGED <<files, got, did, latch, layout, outcome, foreign>>
Verify(c) ==
  /\ pc[c] = "verify"
  /\ LET aside == dir[Before(c)]
     IN Goto(c, IF aside = got[c].inode /\ Single(Before(c)) /\ data[aside] = got[c].content
                THEN "install" ELSE "failing")
  /\ UNCHANGED <<files, got, did, latch, layout, outcome, foreign>>

\* ACTION: an exclusive link puts the value on the path.
Install(c) ==
  /\ pc[c] = "install" /\ Allowed(c) /\ ~Linked(Live)
  /\ Bind(Live, dir[NextOf(c)])
  /\ Did(c, {"installed"}) /\ Goto(c, "detach")
  /\ UNCHANGED <<data, got, latch, layout, outcome, foreign>>

\* ACTION: the prepared name is removed, or replaced, so that the file has one name.
Detach(c) ==
  /\ pc[c] = "detach" /\ Allowed(c)
  /\ Bind(NextOf(c), None) /\ Goto(c, "validate")
  /\ UNCHANGED <<data, got, did, latch, layout, outcome, foreign>>

\* ACTION: the path must hold the value now, in a file with one name.
Validate(c) ==
  /\ pc[c] = "validate"
  /\ IF Body(Live) # Value[c] \/ ~Single(Live)
     THEN Goto(c, "failing") /\ UNCHANGED <<latch, outcome>>
     ELSE IF Kind[c] = "memory" /\ Existing(c)
     THEN Goto(c, "cleanup") /\ UNCHANGED <<latch, outcome>>
     ELSE UNCHANGED latch /\ End(c, TRUE)
  /\ UNCHANGED <<files, got, did, layout, foreign>>

\* ACTION: a memory output drops what it replaced; an error here is only reported beside the success.
Cleanup(c) ==
  /\ pc[c] = "cleanup" /\ Attempt(c)
  /\ \/ Allowed(c) /\ Bind(Before(c), None)
     \/ UNCHANGED dir
  /\ End(c, TRUE)
  /\ UNCHANGED <<data, got, did, layout, foreign>>

-----------------------------------------------------------------------------
(* Its failure *)

\* ACTION: a write fails, or is refused by the layout.
Mishap(c) ==
  /\ pc[c] \in {"prepare", "displace", "install", "detach", "withdraw"}
  /\ pc[c] = "prepare" => ~(Kind[c] = "memory" /\ Existing(c) /\ got[c].content = Value[c])
  /\ Attempt(c) /\ Goto(c, IF pc[c] = "detach" THEN "undo" ELSE "failing")
  /\ UNCHANGED <<files, got, did, layout, outcome, foreign>>

\* ACTION: the prepared name cannot be removed: is the path still a name of the same file, unchanged?
Undo(c) ==
  /\ pc[c] = "undo"
  /\ Goto(c, IF dir[Live] = dir[NextOf(c)] /\ Body(Live) = Value[c] THEN "withdraw" ELSE "failing")
  /\ UNCHANGED <<files, got, did, latch, layout, outcome, foreign>>

\* ACTION: then the path is removed.
Withdraw(c) ==
  /\ pc[c] = "withdraw" /\ Allowed(c)
  /\ Bind(Live, None) /\ Did(c, {"withdrew"}) /\ Goto(c, "failing")
  /\ UNCHANGED <<data, got, latch, layout, outcome, foreign>>

\* ACTION: is the path empty, so that the file that was moved aside can return?
\* Mutant: it returns in any case.
Failing_always(c) ==
  /\ pc[c] = "failing"
  /\ Goto(c, IF Linked(Before(c)) THEN "restore" ELSE "discard")
  /\ UNCHANGED <<files, got, did, latch, layout, outcome, foreign>>
Failing(c) ==
  /\ pc[c] = "failing"
  /\ Goto(c, IF Linked(Before(c)) /\ ~Linked(Live) THEN "restore" ELSE "discard")
  /\ UNCHANGED <<files, got, did, latch, layout, outcome, foreign>>

\* What a call moved aside and has not replaced is on its way back.
Aside(c) ==
  /\ Active(c) /\ pc[c] # "discard" /\ Linked(Before(c))
  /\ "installed" \in did[c] => "withdrew" \in did[c]
\* ACTION: it is moved back; an error is swallowed, and the file stays beside the path as evidence.
Restore(c) ==
  /\ pc[c] = "restore" /\ Attempt(c)
  /\ \/ /\ Allowed(c)
        /\ dir' = [dir EXCEPT ![Live] = dir[Before(c)], ![Before(c)] = None]
        /\ Did(c, {"restored"})
     \/ Did(c, IF Aside(c) /\ ~Linked(Live) THEN {"lost"} ELSE {}) /\ UNCHANGED dir
  /\ Goto(c, "discard")
  /\ UNCHANGED <<data, got, layout, outcome, foreign>>

\* ACTION: a value that was never on the path is scrubbed through its open descriptor, then its name is removed,
\* except by the replacement of a role store; an error here is swallowed.
Discard(c) ==
  /\ pc[c] = "discard"
  /\ data' = IF Kind[c] = "memory" /\ Linked(NextOf(c)) /\ "installed" \notin did[c]
             THEN [data EXCEPT ![dir[NextOf(c)]] = Empty] ELSE data
  /\ IF Linked(NextOf(c)) /\ ~(Kind[c] = "roles" /\ Existing(c))
     THEN Attempt(c) /\ ((Allowed(c) /\ Bind(NextOf(c), None)) \/ UNCHANGED dir)
     ELSE UNCHANGED <<dir, latch>>
  /\ End(c, FALSE)
  /\ UNCHANGED <<got, did, layout, foreign>>

\* ACTION: the process dies; an operator removes its lock later.
Die(c) ==
  /\ Active(c) /\ Goto(c, "dead")
  /\ Did(c, IF Aside(c) /\ ~Linked(Live) THEN {"lost"} ELSE {})
  /\ UNCHANGED <<files, got, latch, layout, outcome, foreign>>

Call(c) ==
  \/ Capture(c) \/ Unchanged(c) \/ Prepare(c) \/ Check(c) \/ Displace(c) \/ Verify(c) \/ Install(c)
  \/ Detach(c) \/ Validate(c) \/ Cleanup(c) \/ Mishap(c) \/ Undo(c) \/ Withdraw(c) \/ Failing(c)
  \/ Restore(c) \/ Discard(c) \/ Die(c)

-----------------------------------------------------------------------------
(* Everybody else *)

\* ACTION: an editor saves by rename, writes in place or deletes; a peer changes the layout.
Save(text) == \E i \in Free : Bind(Live, i) /\ data' = [data EXCEPT ![i] = text]
Edit(text) == Linked(Live) /\ Body(Live) # text /\ data' = [data EXCEPT ![dir[Live]] = text] /\ UNCHANGED dir
Delete     == Linked(Live) /\ Bind(Live, None) /\ UNCHANGED data
Others ==
  /\ foreign < MaxForeign /\ foreign' = foreign + 1
  /\ \/ /\ Delete \/ \E text \in Contents : Save(text) \/ Edit(text)
        /\ raced' = raced \cup {c \in Calls : pc[c] \in Decided} /\ UNCHANGED layout
     \/ layout' = ~layout /\ UNCHANGED <<files, raced>>
  /\ UNCHANGED <<pc, got, did, latch, outcome>>

Next == Others \/ \E c \in Calls : Call(c)

Spec == Init /\ [][Next]_vars

-----------------------------------------------------------------------------
(* Properties *)

TypeOK ==
  /\ dir \in [Names -> Inodes \cup {None}] /\ data \in [Inodes -> Contents \cup {Empty}]
  /\ pc \in [Calls -> {"idle", "prepare", "check", "displace", "verify", "install", "detach", "validate",
                       "cleanup", "undo", "withdraw", "failing", "restore", "discard", "done", "dead"}]
  /\ got \in [Calls -> [inode : Inodes \cup {None}, content : Contents \cup {Empty, None}]]
  /\ did \in [Calls -> SUBSET {"displaced", "installed", "withdrew", "restored", "lost"}]
  /\ latched \subseteq Calls /\ refused \subseteq Calls /\ layout \in BOOLEAN /\ foreign \in 0..MaxForeign /\ raced \subseteq Calls
  /\ outcome \in [Calls -> {"none", "ok", "failed", "published", "unsure"}]

\* The texts on the path, and those that were moved aside.
Kept == {Body(n) : n \in {Live} \cup {Before(c) : c \in Calls}} \ {None}

\* A publication makes no text unreachable but its own value, the text that it has replaced by its value, and
\* what others put on the path between the rollback's last look at it and the rename or unlink that this look
\* decides.  The last is an exception of the code, and not of its comment, by which a competing pathname writer
\* is never overwritten (lib/memory-output.js:6-7): rename(2) and unlink(2) take whatever is there.
NothingLost ==
  [][\A c \in Calls : pc'[c] # pc[c] =>
       Kept \ Kept' \subseteq {Value[c]} \cup (IF pc[c] = "cleanup" THEN {got[c].content} ELSE {})
                                    \cup (IF c \in raced THEN {Body(Live)} ELSE {})]_vars

\* Once the layout refused a write of an operation, the operation changes no name any more and does not
\* succeed, although its cleanup and its rollback swallow the refusal, and also when the layout admits writes
\* again.  (The comment over withRuntimeWrites: a best-effort catch never turns the refusal into a success.)
RefusalLatches ==
  [][\A c \in Calls :
       /\ c \in refused /\ pc'[c] # pc[c] => UNCHANGED dir
       /\ c \in refused' => outcome'[c] # "ok"]_vars

\* The publications implement a compare-and-swap of the file.
Stage(c) ==
  IF "lost" \in did[c] THEN "lost"
  ELSE IF "installed" \notin did[c] THEN "none"
  ELSE IF "withdrew" \in did[c] \/ "restored" \in did[c] THEN "undone" ELSE "swapped"
File ==
  IF Linked(Live) THEN Body(Live)
  ELSE IF \E c \in Calls : Aside(c) THEN Body(Before(CHOOSE c \in Calls : Aside(c))) ELSE None
Register == INSTANCE CheckedFile WITH
  Absent <- None, file <- File, seen <- [c \in Calls |-> got[c].content],
  stage <- [c \in Calls |-> Stage(c)], answer <- outcome, others <- foreign
ImplementsRegister == Register!Spec
=============================================================================
