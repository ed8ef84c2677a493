------------------------------ MODULE CheckedFile ------------------------------
(***************************************************************************)
(* What lib/memory-output.js and lib/role-store.js promise of one file: a  *)
(* publication changes it from exactly what the call has seen to the       *)
(* call's own value, in one step, or not at all.  Editors and other tools  *)
(* write the file whenever they like, and win; except over a call that     *)
(* rolls back, when they come between its last look and what it then does. *)
(***************************************************************************)
EXTENDS Naturals

CONSTANTS Calls, Contents, Absent, Value

VARIABLES
  file,    \* the content that the path has, or is about to have again
  seen,    \* what each call captured
  stage,   \* "none", "swapped", "undone", or "lost": what each call did to the file
  answer,  \* what each call reported
  others,  \* how many steps everybody else has taken
  raced    \* calls that roll back what is no more what they have looked at

vars == <<file, seen, stage, answer, others, raced>>

Init ==
  /\ file \in Contents \cup {Absent}
  /\ seen = [c \in Calls |-> Absent]
  /\ stage = [c \in Calls |-> "none"] /\ answer = [c \in Calls |-> "none"]
  /\ others = 0 /\ raced = {}

\* ACTION: an editor saves, creates or deletes the file.
Others ==
  /\ others' = others + 1
  /\ file' \in Contents \cup {Absent}
  /\ raced \subseteq raced' /\ raced' \subseteq Calls
  /\ UNCHANGED <<seen, stage, answer>>

\* ACTION: a call reads the file.
See(c) ==
  /\ answer[c] = "none" /\ stage[c] = "none"
  /\ seen' = [seen EXCEPT ![c] = file]
  /\ UNCHANGED <<file, stage, answer>>

\* ACTION: the file is still what the call has seen, and becomes its value.
Swap(c) ==
  /\ answer[c] = "none" /\ stage[c] = "none"
  /\ file = seen[c] /\ file' = Value[c]
  /\ stage' = [stage EXCEPT ![c] = "swapped"]
  /\ UNCHANGED <<seen, answer>>

\* ACTION: a call that will fail takes its own value back, or returns what it set aside to an empty path.
Undo(c) ==
  /\ answer[c] = "none" /\ stage[c] = "swapped"
  /\ file \in {Value[c], Absent} \/ c \in raced
  /\ file' = seen[c]
  /\ stage' = [stage EXCEPT ![c] = "undone"]
  /\ UNCHANGED <<seen, answer>>

\* ACTION: a call that was overtaken returns what it set aside over a newer text, or leaves the path alone.
Trample(c) ==
  /\ answer[c] = "none" /\ c \in raced
  /\ file' # file => stage[c] \in {"none", "undone"} /\ file' \in Contents
  /\ UNCHANGED <<seen, stage, answer>>

\* ACTION: a call dies, or may not return what it set aside: the path stays empty.
Vanish(c) ==
  /\ answer[c] = "none" /\ stage[c] \in {"none", "undone"}
  /\ file' = Absent
  /\ stage' = [stage EXCEPT ![c] = "lost"]
  /\ UNCHANGED <<seen, answer>>

\* ACTION: success is reported of a published value, or of one that the file had already.
Succeed(c) ==
  /\ answer[c] = "none"
  /\ stage[c] = "swapped" \/ (stage[c] = "none" /\ seen[c] = Value[c] /\ file = seen[c])
  /\ answer' = [answer EXCEPT ![c] = "ok"]
  /\ UNCHANGED <<file, seen, stage>>

\* ACTION: a failure that says so tells whether the value was on the path; an unsure one tells nothing.
Fail(c) ==
  /\ answer[c] = "none"
  /\ \/ answer' = [answer EXCEPT ![c] = "unsure"]
     \/ stage[c] \in {"none", "lost"} /\ answer' = [answer EXCEPT ![c] = "failed"]
     \/ stage[c] # "none" /\ answer' = [answer EXCEPT ![c] = "published"]
  /\ UNCHANGED <<file, seen, stage>>

Call(c) ==
  /\ See(c) \/ Swap(c) \/ Undo(c) \/ Trample(c) \/ Vanish(c) \/ Succeed(c) \/ Fail(c)
  /\ raced' = raced \ {c} /\ UNCHANGED others

Next == Others \/ \E c \in Calls : Call(c)

Spec == Init /\ [][Next]_vars
=============================================================================
