-------------------------------- MODULE Mutex --------------------------------
(***************************************************************************)
(* What a fail-closed store lock promises its callers: one owner at a      *)
(* time, and an owner that is gone without releasing stays the owner until *)
(* an operator clears it.                                                  *)
(***************************************************************************)
CONSTANT Owners

VARIABLES
  holder,   \* the owner, as a set of at most one
  gone      \* owners that died, or could not release

Init == holder = {} /\ gone = {}

Enter(o) ==
  /\ o \notin gone /\ holder = {}
  /\ holder' = {o}
  /\ UNCHANGED gone

Leave(o) ==
  /\ o \notin gone /\ holder = {o}
  /\ holder' = {}
  /\ UNCHANGED gone

Vanish(S) ==
  /\ gone' = gone \cup S
  /\ UNCHANGED holder

Clear ==
  /\ holder # {} /\ holder \subseteq gone
  /\ holder' = {}
  /\ UNCHANGED gone

Next ==
  \/ \E o \in Owners : Enter(o) \/ Leave(o)
  \/ \E S \in SUBSET Owners : Vanish(S)
  \/ Clear

Spec == Init /\ [][Next]_<<holder, gone>>
=============================================================================
