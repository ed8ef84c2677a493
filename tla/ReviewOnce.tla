------------------------------ MODULE ReviewOnce ------------------------------
(***************************************************************************)
(* What a review run promises its operator: the reviewer is called at most *)
(* once under one run id, and the retained record, of which there is one,  *)
(* says truthfully whether it was.                                         *)
(***************************************************************************)
EXTENDS Naturals

CONSTANT Undecided

VARIABLES
  times,     \* how often the reviewer was called: a host's callback, or a provider's POST
  verdict    \* whether the retained RunRecord is of a review that ran

Init == times = 0 /\ verdict = Undecided

Call ==
  /\ times = 0 /\ verdict = Undecided
  /\ times' = 1
  /\ UNCHANGED verdict

Decide ==
  /\ verdict = Undecided
  /\ verdict' = (times = 1)
  /\ UNCHANGED times

Next == Call \/ Decide

Spec == Init /\ [][Next]_<<times, verdict>>
=============================================================================
