-------------------------- MODULE MemoryStores_proofs --------------------------
(***************************************************************************)
(* Proofs about the memory stores, in two parts.                           *)
(*                                                                         *)
(* The first is about the checked publications of one file, for any number *)
(* of calls, inodes and texts, any failures and deaths, and any steps of   *)
(* editors that ignore the lock.  The invariant says which names may share *)
(* an inode (only the path and the prepared name of a call that has        *)
(* installed it), and what a call at each place has made of its two names. *)
(* For the refinement, SwapInv adds what each place knows of the texts,    *)
(* and which steps it has behind it.                                       *)
(*                                                                         *)
(* The second is about the migration between Markdown and JSON stores, for *)
(* any number of operations, calls, failures, deaths and changes by        *)
(* others.  Its invariant, MigrationInv, says what a call knows at the     *)
(* steps that move a file away, whose file has the identity that an        *)
(* operation has recorded, and where the last text of others is; it rests  *)
(* on there being more identities than anybody can remember                *)
(* (FreshIdentity).                                                        *)
(***************************************************************************)
EXTENDS CheckedReplace, MemoryMigration, FiniteSetTheorems, TLAPS

\* The calls run one after the other.
OneActive == \A c, d \in Calls : Active(c) /\ Active(d) => c = d

\* Two names of one file are the path and the prepared name of a call that has installed it, and no other call runs.
Sharing(n, m, d) ==
  {n, m} = {Live, NextOf(d)} /\ "installed" \in did[d] /\ \A c \in Calls : Active(c) => c = d
Apart == \A n, m \in Names : n # m /\ dir[n] = dir[m] /\ Linked(n) => \E d \in Calls : Sharing(n, m, d)

\* What a call has done by the place where it is.
PlaceOK(c) ==
  /\ pc[c] \in {"idle", "prepare", "check", "displace", "verify", "install"} => "installed" \notin did[c]
  /\ pc[c] \in {"idle", "prepare"} => ~Linked(NextOf(c))
  /\ pc[c] \in {"idle", "prepare", "check", "displace"} => ~Linked(Before(c))
  /\ pc[c] \in {"check", "displace", "verify", "install", "detach", "undo"} => Linked(NextOf(c))
  /\ pc[c] \in {"verify", "restore"} => Linked(Before(c))
  /\ pc[c] \in {"install", "detach", "validate", "cleanup"} /\ Linked(Before(c)) => Body(Before(c)) = got[c].content
  /\ c \in raced => pc[c] \in Decided
  /\ c \notin raced /\ pc[c] = "withdraw" => Body(Live) = Value[c]
  /\ c \notin raced /\ pc[c] = "restore" => ~Linked(Live)
Places_OK == \A c \in Calls : PlaceOK(c)

\* Whoever was refused is latched; who reported success has ended, and was not.
Latched ==
  /\ refused \subseteq latched
  /\ \A c \in Calls : outcome[c] = "ok" => pc[c] = "done" /\ c \notin refused

ReplaceInv == TypeOK /\ OneActive /\ Apart /\ Places_OK /\ Latched
-----------------------------------------------------------------------------
(* Names *)

\* The names of a publication are different from each other and from those of every other call.
LEMMA NamesDiffer ==
  /\ \A c, d \in Calls : /\ NextOf(c) # Live /\ Before(c) # Live /\ NextOf(c) # Before(d)
                         /\ NextOf(c) = NextOf(d) => c = d
                         /\ Before(c) = Before(d) => c = d
  /\ Live \in Names /\ \A c \in Calls : NextOf(c) \in Names /\ Before(c) \in Names
BY DEF Names, Live, NextOf, Before

\* A step of one call leaves what the others have done, and their two names, alone.
LEMMA OthersUntouched ==
  ASSUME TypeOK, NEW c \in Calls, Call(c), NEW d \in Calls, d # c
  PROVE  /\ pc'[d] = pc[d] /\ got'[d] = got[d] /\ did'[d] = did[d] /\ outcome'[d] = outcome[d]
         /\ dir'[NextOf(d)] = dir[NextOf(d)] /\ dir'[Before(d)] = dir[Before(d)]
         /\ (d \in latched' <=> d \in latched) /\ (d \in refused' <=> d \in refused)
         /\ (d \in raced' <=> d \in raced)
<1> USE NamesDiffer DEF TypeOK, Goto, Did, Bind, files, latch, Attempt, Refusal
<1>1. CASE Capture(c) BY <1>1 DEF Capture, End
<1>2. CASE Unchanged(c) BY <1>2 DEF Unchanged, End
<1>3. CASE Prepare(c) BY <1>3 DEF Prepare
<1>4. CASE Check(c) BY <1>4 DEF Check
<1>5. CASE Displace(c) BY <1>5 DEF Displace
<1>6. CASE Verify(c) BY <1>6 DEF Verify
<1>7. CASE Install(c) BY <1>7 DEF Install
<1>8. CASE Detach(c) BY <1>8 DEF Detach
<1>9. CASE Validate(c) BY <1>9 DEF Validate, End
<1>10. CASE Cleanup(c) BY <1>10 DEF Cleanup, End
<1>11. CASE Mishap(c) BY <1>11 DEF Mishap
<1>12. CASE Undo(c) BY <1>12 DEF Undo
<1>13. CASE Withdraw(c) BY <1>13 DEF Withdraw
<1>14. CASE Failing(c) BY <1>14 DEF Failing
<1>15. CASE Restore(c) BY <1>15 DEF Restore
<1>16. CASE Discard(c) BY <1>16 DEF Discard, End
<1>17. CASE Die(c) BY <1>17 DEF Die
<1> QED
  BY <1>1, <1>2, <1>3, <1>4, <1>5, <1>6, <1>7, <1>8, <1>9, <1>10, <1>11, <1>12, <1>13, <1>14, <1>15, <1>16, <1>17
  DEF Call

-----------------------------------------------------------------------------
(* Types *)

\* What Body yields.
LEMMA BodyType ==
  ASSUME TypeOK, NEW n \in Names
  PROVE  Body(n) \in Contents \cup {Empty, None}
BY DEF TypeOK, Body, Linked

\* Every step of a call keeps the types.
LEMMA CallTypes ==
  ASSUME TypeOK, NEW c \in Calls, Call(c)
  PROVE  TypeOK'
<1> USE ReplaceAssumption, NamesDiffer DEF TypeOK, Goto, Did, Bind, files, latch, Attempt, Refusal
<1>1. CASE Capture(c)
  <2>1. [inode |-> dir[Live], content |-> Body(Live)]
           \in [inode : Inodes \cup {None}, content : Contents \cup {Empty, None}]
    BY BodyType
  <2>2. CASE Goto(c, "prepare") /\ UNCHANGED outcome
               /\ got' = [got EXCEPT ![c] = [inode |-> dir[Live], content |-> Body(Live)]]
    BY <1>1, <2>1, <2>2 DEF Capture
  <2>3. CASE End(c, FALSE) /\ UNCHANGED got
    BY <1>1, <2>3 DEF Capture, End, Failure
  <2> QED
    BY <1>1, <2>2, <2>3 DEF Capture
<1>2. CASE Unchanged(c) BY <1>2 DEF Unchanged, End, Failure
<1>3. CASE Prepare(c) BY <1>3 DEF Prepare, Free
<1>4. CASE Check(c) BY <1>4 DEF Check
<1>5. CASE Displace(c) BY <1>5 DEF Displace
<1>6. CASE Verify(c) BY <1>6 DEF Verify
<1>7. CASE Install(c) BY <1>7 DEF Install
<1>8. CASE Detach(c) BY <1>8 DEF Detach
<1>ended. ASSUME NEW ok \in BOOLEAN, End(c, ok)
         PROVE  /\ outcome' \in [Calls -> {"none", "ok", "failed", "published", "unsure"}]
                /\ pc' = [pc EXCEPT ![c] = "done"] /\ raced' \subseteq Calls
  BY <1>ended DEF End, Failure
<1>9. CASE Validate(c)
  <2>1. /\ UNCHANGED <<dir, data, got, did, layout, foreign>>
        /\ UNCHANGED <<latched, refused>>
    BY <1>9 DEF Validate
  <2>2. CASE UNCHANGED outcome
    BY <1>9, <2>1, <2>2 DEF Validate, End
  <2>3. CASE End(c, TRUE)
    BY <1>ended, <2>1, <2>3
  <2> QED
    BY <1>9, <2>2, <2>3 DEF Validate
<1>10. CASE Cleanup(c) BY <1>10 DEF Cleanup, End, Failure
<1>11. CASE Mishap(c) BY <1>11 DEF Mishap
<1>12. CASE Undo(c) BY <1>12 DEF Undo
<1>13. CASE Withdraw(c) BY <1>13 DEF Withdraw
<1>14. CASE Failing(c) BY <1>14 DEF Failing
<1>15. CASE Restore(c)
  <2> DEFINE more == IF Aside(c) /\ ~Linked(Live) THEN {"lost"} ELSE {}
  <2>1. more \subseteq {"lost"}
    OBVIOUS
  <2>2. did' = [did EXCEPT ![c] = @ \cup more] \/ did' = [did EXCEPT ![c] = @ \cup {"restored"}]
    BY <1>15 DEF Restore
  <2> HIDE DEF more
  <2>3. did' \in [Calls -> SUBSET {"displaced", "installed", "withdrew", "restored", "lost"}]
    <3>1. did[c] \cup more \in SUBSET {"displaced", "installed", "withdrew", "restored", "lost"}
      BY <2>1
    <3>2. CASE did' = [did EXCEPT ![c] = @ \cup more]
      BY <3>1, <3>2
    <3>3. CASE did' = [did EXCEPT ![c] = @ \cup {"restored"}]
      BY <3>3
    <3> QED
      BY <2>2, <3>2, <3>3
  <2>4. dir' \in [Names -> Inodes \cup {None}]
    <3>1. UNCHANGED dir \/ dir' = [dir EXCEPT ![Live] = dir[Before(c)], ![Before(c)] = None]
      BY <1>15 DEF Restore
    <3> QED
      BY <3>1
  <2>5. latched' \subseteq Calls /\ refused' \subseteq Calls
    BY <1>15 DEF Restore
  <2>6. /\ pc' = [pc EXCEPT ![c] = "discard"] /\ raced' = raced \ {c}
        /\ UNCHANGED <<data, got, layout, outcome, foreign>>
    BY <1>15 DEF Restore
  <2> QED
    BY <2>3, <2>4, <2>5, <2>6
<1>16. CASE Discard(c)
  <2>1. UNCHANGED <<got, did, layout, foreign>> /\ End(c, FALSE)
    BY <1>16 DEF Discard
  <2>2. data' \in [Inodes -> Contents \cup {Empty}]
    BY <1>16 DEF Discard, Linked
  <2>3. dir' \in [Names -> Inodes \cup {None}] /\ latched' \subseteq Calls /\ refused' \subseteq Calls
    BY <1>16 DEF Discard
  <2> QED
    BY <1>ended, <2>1, <2>2, <2>3
<1>17. CASE Die(c)
  <2>1. did' \in [Calls -> SUBSET {"displaced", "installed", "withdrew", "restored", "lost"}]
    <3> DEFINE more == IF Aside(c) /\ ~Linked(Live) THEN {"lost"} ELSE {}
    <3>1. more \subseteq {"lost"} /\ did' = [did EXCEPT ![c] = @ \cup more]
      BY <1>17 DEF Die
    <3> HIDE DEF more
    <3>2. did[c] \cup more \in SUBSET {"displaced", "installed", "withdrew", "restored", "lost"}
      BY <3>1
    <3> QED
      BY <3>1, <3>2
  <2> QED
    BY <1>17, <2>1 DEF Die
<1> QED
  BY <1>1, <1>2, <1>3, <1>4, <1>5, <1>6, <1>7, <1>8, <1>9, <1>10, <1>11, <1>12, <1>13, <1>14, <1>15, <1>16, <1>17
  DEF Call

\* So does everybody else.
LEMMA OthersTypes ==
  ASSUME TypeOK, Others
  PROVE  TypeOK'
<1>1. foreign' \in 0..MaxForeign
  BY ReplaceAssumption DEF TypeOK, Others
<1>2. layout' \in BOOLEAN
  <2>1. layout' = layout \/ layout' = ~layout
    BY DEF Others
  <2> QED
    BY <2>1, Zenon DEF TypeOK
<1>3. dir' \in [Names -> Inodes \cup {None}] /\ data' \in [Inodes -> Contents \cup {Empty}]
  <2> USE NamesDiffer DEF TypeOK
  <2>1. CASE \E text \in Contents : Save(text)
    BY <2>1 DEF Save, Free, Bind
  <2>2. CASE Delete
    BY <2>2 DEF Delete, Bind
  <2>3. CASE \E text \in Contents : Edit(text)
    BY <2>3 DEF Edit, Linked
  <2>4. CASE UNCHANGED files
    BY <2>4 DEF files
  <2> QED
    BY <2>1, <2>2, <2>3, <2>4 DEF Others
<1>4. UNCHANGED <<pc, got, did, latch, outcome>> /\ raced' \subseteq Calls
  BY DEF Others, TypeOK
<1> QED
  BY <1>1, <1>2, <1>3, <1>4 DEF TypeOK, latch

-----------------------------------------------------------------------------
(* One call after the other *)

\* A step starts a call only when none runs, and a call that runs was running or is starting.
LEMMA ActiveStep ==
  ASSUME TypeOK, OneActive, NEW c \in Calls, Call(c)
  PROVE  /\ OneActive'
         /\ \A d \in Calls : d # c => ~Active(d) /\ ~Active(d)'
<1>1. \A d \in Calls : d # c => ~Active(d)
  <2>1. CASE Capture(c) BY <2>1 DEF Capture
  <2>2. CASE pc[c] \notin {"idle", "done", "dead"}
    BY <2>2 DEF OneActive, Active
  <2> QED
    BY <2>1, <2>2 DEF Call, Unchanged, Prepare, Check, Displace, Verify, Install, Detach, Validate, Cleanup, Mishap,
      Undo, Withdraw, Failing, Restore, Discard, Die, Active
<1>2. \A d \in Calls : d # c => ~Active(d)'
  BY <1>1, OthersUntouched DEF Active
<1> QED
  BY <1>1, <1>2 DEF OneActive
\* Whoever acts, but does not start, was active.
LEMMA ActsWhenActive ==
  ASSUME NEW c \in Calls, Call(c), ~Capture(c)
  PROVE  Active(c)
BY DEF Call, Unchanged, Prepare, Check, Displace, Verify, Install, Detach, Validate, Cleanup, Mishap,
       Undo, Withdraw, Failing, Restore, Discard, Die, Active

-----------------------------------------------------------------------------
(* Names that share an inode *)

\* Nothing that a call has done is forgotten.
LEMMA DidGrows ==
  ASSUME TypeOK, NEW c \in Calls, Call(c)
  PROVE  \A d \in Calls : did[d] \subseteq did'[d]
<1> USE DEF TypeOK, Did
<1>1. CASE UNCHANGED did
  BY <1>1
<1>2. CASE \E what : Did(c, what)
  BY <1>2
<1> QED
  BY <1>1, <1>2 DEF Call, Capture, Unchanged, Prepare, Check, Displace, Verify, Install, Detach, Validate, Cleanup,
     Mishap, Undo, Withdraw, Failing, Restore, Discard, Die

\* If nobody starts, it is enough that no two names come to share an inode, except a path and what was installed there.
LEMMA KeepApart ==
  ASSUME Apart,
         \A d \in Calls : did[d] \subseteq did'[d],
         \A d \in Calls : Active(d)' => Active(d),
         \A n, m \in Names : n # m /\ dir'[n] = dir'[m] /\ dir'[n] # None =>
           \/ dir[n] = dir[m] /\ dir[n] # None
           \/ \E d \in Calls : Sharing(n, m, d)'
  PROVE  Apart'
<1> SUFFICES ASSUME NEW n \in Names, NEW m \in Names, n # m, dir'[n] = dir'[m], dir'[n] # None,
                    dir[n] = dir[m], dir[n] # None
             PROVE  \E d \in Calls : Sharing(n, m, d)'
  BY DEF Apart, Linked
<1>1. PICK d \in Calls : Sharing(n, m, d)
  BY DEF Apart, Linked
<1> QED
  BY <1>1 DEF Sharing

\* A step of a call keeps the names apart.
LEMMA CallApart ==
  ASSUME TypeOK, OneActive, Apart, Places_OK, NEW c \in Calls, Call(c)
  PROVE  Apart'
<1> USE NamesDiffer DEF Bind
<1>1. CASE Capture(c)
  <2>1. UNCHANGED dir /\ UNCHANGED did
    BY <1>1 DEF Capture, files
  <2>2. CASE Linked(Live) /\ ~Single(Live)
    <3>1. pc' = [pc EXCEPT ![c] = "done"]
      BY <1>1, <2>2 DEF Capture, End, Goto
    <3>2. \A d \in Calls : Active(d)' => Active(d)
      BY <3>1 DEF TypeOK, Active
    <3> QED
      BY <2>1, <3>2, KeepApart
  <2>3. CASE Linked(Live) => Single(Live)
    <3>1. \A n, m \in Names : ~(n # m /\ dir[n] = dir[m] /\ Linked(n))
      <4> SUFFICES ASSUME NEW n \in Names, NEW m \in Names, n # m, dir[n] = dir[m], Linked(n) PROVE FALSE
        OBVIOUS
      <4>1. PICK d \in Calls : Sharing(n, m, d)
        BY DEF Apart
      <4> QED
        BY <2>3, <4>1 DEF Sharing, Single, Linked
    <3> QED
      BY <2>1, <3>1 DEF Apart, Linked
  <2> QED
    BY <2>2, <2>3
<1>2. ASSUME ~Capture(c) PROVE Apart'
  <2>1. \A d \in Calls : Active(d)' => Active(d)
    BY <1>2, ActsWhenActive, ActiveStep
  <2>2. \A d \in Calls : did[d] \subseteq did'[d]
    BY DidGrows
  <2>3. Active(c) /\ PlaceOK(c) /\ \A d \in Calls : Active(d) => d = c
    BY <1>2, ActsWhenActive DEF OneActive, Places_OK
  <2>4. CASE \A n \in Names : dir'[n] \in {dir[n], None}
    BY <2>1, <2>2, <2>4, KeepApart
  <2>5. CASE Prepare(c)
    <3>1. PICK i \in Free : dir' = [dir EXCEPT ![NextOf(c)] = i]
      BY <2>5 DEF Prepare
    <3>2. \A n, m \in Names : n # m /\ dir'[n] = dir'[m] /\ dir'[n] # None => dir[n] = dir[m] /\ dir[n] # None
      BY <3>1 DEF TypeOK, Free
    <3> QED
      BY <2>1, <2>2, <3>2, KeepApart
  <2>6. CASE Displace(c)
    <3>1. dir' = [dir EXCEPT ![Before(c)] = dir[Live], ![Live] = None] /\ "installed" \notin did[c]
      BY <2>3, <2>6 DEF Displace, PlaceOK
    <3>2. \A m \in Names : m # Live /\ dir[m] = dir[Live] => dir[m] = None
      <4> SUFFICES ASSUME NEW m \in Names, m # Live, dir[m] = dir[Live], dir[m] # None PROVE FALSE
        OBVIOUS
      <4>1. PICK d \in Calls : Sharing(m, Live, d)
        BY DEF Apart, Linked
      <4> QED
        BY <2>3, <3>1, <4>1 DEF Sharing
    <3>3. \A n, m \in Names : n # m /\ dir'[n] = dir'[m] /\ dir'[n] # None => dir[n] = dir[m] /\ dir[n] # None
      BY <3>1, <3>2 DEF TypeOK
    <3> QED
      BY <2>1, <2>2, <3>3, KeepApart
  <2>7. CASE Install(c)
    <3>1. dir' = [dir EXCEPT ![Live] = dir[NextOf(c)]] /\ "installed" \in did'[c]
      BY <2>7 DEF Install, Did, TypeOK
    <3>2. \A n, m \in Names : n # m /\ {n, m} = {Live, NextOf(c)} => Sharing(n, m, c)'
      BY <2>1, <2>3, <3>1 DEF Sharing
    <3>3. \A m \in Names : m # Live /\ m # NextOf(c) /\ dir[m] = dir[NextOf(c)] => dir[m] = None
      <4> SUFFICES ASSUME NEW m \in Names, m # Live, m # NextOf(c), dir[m] = dir[NextOf(c)], dir[m] # None PROVE FALSE
        OBVIOUS
      <4>1. PICK d \in Calls : Sharing(m, NextOf(c), d)
        BY DEF Apart, Linked
      <4> QED
        BY <4>1 DEF Sharing
    <3>4. \A n, m \in Names : n # m /\ dir'[n] = dir'[m] /\ dir'[n] # None =>
            {n, m} = {Live, NextOf(c)} \/ (dir[n] = dir[m] /\ dir[n] # None)
      BY <3>1, <3>3 DEF TypeOK
    <3> QED
      BY <2>1, <2>2, <3>2, <3>4, KeepApart
  <2>8. CASE Restore(c) /\ dir' = [dir EXCEPT ![Live] = dir[Before(c)], ![Before(c)] = None]
    <3>1. \A m \in Names : m # Live /\ m # Before(c) /\ dir[m] = dir[Before(c)] => dir[m] = None
      <4> SUFFICES ASSUME NEW m \in Names, m # Live, m # Before(c), dir[m] = dir[Before(c)], dir[m] # None PROVE FALSE
        OBVIOUS
      <4>1. PICK d \in Calls : Sharing(m, Before(c), d)
        BY DEF Apart, Linked
      <4> QED
        BY <4>1 DEF Sharing
    <3>2. \A n, m \in Names : n # m /\ dir'[n] = dir'[m] /\ dir'[n] # None => dir[n] = dir[m] /\ dir[n] # None
      BY <2>8, <3>1 DEF TypeOK
    <3> QED
      BY <2>1, <2>2, <3>2, KeepApart
  <2>9. CASE UNCHANGED dir \/ Detach(c) \/ Cleanup(c) \/ Withdraw(c) \/ Discard(c)
    <3>1. \A n \in Names : dir'[n] \in {dir[n], None}
      BY <2>9 DEF Detach, Cleanup, Withdraw, Discard, TypeOK
    <3> QED
      BY <2>4, <3>1
  <2>10. CASE Restore(c)
    <3>1. UNCHANGED dir \/ dir' = [dir EXCEPT ![Live] = dir[Before(c)], ![Before(c)] = None]
      BY <2>10 DEF Restore
    <3> QED
      BY <2>8, <2>9, <2>10, <3>1
  <2> QED
    BY <1>2, <2>5, <2>6, <2>7, <2>9, <2>10
    DEF Call, Unchanged, Check, Verify, Validate, Mishap, Undo, Failing, Die, files
<1> QED
  BY <1>1, <1>2

\* So does everybody else.
LEMMA OthersApart ==
  ASSUME TypeOK, Apart, Others
  PROVE  Apart'
<1> USE NamesDiffer DEF Bind
<1>1. UNCHANGED <<pc, did>>
  BY DEF Others
<1>2. \A d \in Calls : Active(d)' => Active(d)
  BY <1>1 DEF Active
<1>3. \A n, m \in Names : n # m /\ dir'[n] = dir'[m] /\ dir'[n] # None => dir[n] = dir[m] /\ dir[n] # None
  <2>1. CASE \E text \in Contents : Save(text)
    <3>1. PICK i \in Free : dir' = [dir EXCEPT ![Live] = i]
      BY <2>1 DEF Save
    <3> QED
      BY <3>1 DEF TypeOK, Free
  <2>2. CASE Delete
    BY <2>2 DEF Delete, TypeOK
  <2>3. CASE UNCHANGED dir
    BY <2>3
  <2> QED
    BY <2>1, <2>2, <2>3 DEF Others, Edit, files
<1> QED
  BY <1>1, <1>2, <1>3, KeepApart
-----------------------------------------------------------------------------
(* What a call has made of its names *)

\* The acting call.
LEMMA OwnPlace ==
  ASSUME TypeOK, Places_OK, NEW c \in Calls, Call(c)
  PROVE  PlaceOK(c)'
<1> USE ReplaceAssumption, NamesDiffer DEF TypeOK, PlaceOK, Goto, Did, Bind, files, Linked, Body
<1>0. PlaceOK(c)
  BY DEF Places_OK
<1>1. CASE Capture(c) BY <1>0, <1>1 DEF Capture, End
<1>2. CASE Unchanged(c) BY <1>0, <1>2 DEF Unchanged, End
<1>3. CASE Prepare(c) BY <1>0, <1>3 DEF Prepare, Free
<1>4. CASE Check(c) BY <1>0, <1>4 DEF Check
<1>5. CASE Displace(c) BY <1>0, <1>5 DEF Displace
<1>6. CASE Verify(c) BY <1>0, <1>6 DEF Verify
<1>7. CASE Install(c) BY <1>0, <1>7 DEF Install
<1>8. CASE Detach(c) BY <1>0, <1>8 DEF Detach
<1>9. CASE Validate(c) BY <1>0, <1>9 DEF Validate, End
<1>10. CASE Cleanup(c) BY <1>0, <1>10 DEF Cleanup, End
<1>11. CASE Mishap(c) BY <1>0, <1>11 DEF Mishap
<1>12. CASE Undo(c) BY <1>0, <1>12 DEF Undo
<1>13. CASE Withdraw(c) BY <1>0, <1>13 DEF Withdraw
<1>14. CASE Failing(c) BY <1>0, <1>14 DEF Failing
<1>15. CASE Restore(c) BY <1>0, <1>15 DEF Restore
<1>16. CASE Discard(c) BY <1>0, <1>16 DEF Discard, End
<1>17. CASE Die(c) BY <1>0, <1>17 DEF Die
<1> QED
  BY <1>1, <1>2, <1>3, <1>4, <1>5, <1>6, <1>7, <1>8, <1>9, <1>10, <1>11, <1>12, <1>13, <1>14, <1>15, <1>16, <1>17
  DEF Call

\* The calls that do not act have nothing to expect of the files any more, or have not started.
LEMMA CallPlaces ==
  ASSUME TypeOK, OneActive, Places_OK, NEW c \in Calls, Call(c)
  PROVE  Places_OK'
<1> SUFFICES ASSUME NEW d \in Calls, d # c
             PROVE  PlaceOK(d)'
  BY OwnPlace DEF Places_OK
<1>1. pc[d] \in {"idle", "done", "dead"}
  BY ActiveStep DEF Active
<1>2. PlaceOK(d)
  BY DEF Places_OK
<1> QED
  BY <1>1, <1>2, OthersUntouched DEF PlaceOK, Linked

\* Everybody else can only reach what is on the path.
LEMMA OthersPlaces ==
  ASSUME TypeOK, Apart, Places_OK, Others
  PROVE  Places_OK'
<1> SUFFICES ASSUME NEW c \in Calls
             PROVE  PlaceOK(c)'
  BY DEF Places_OK
<1> USE NamesDiffer
<1>1. /\ UNCHANGED <<pc, did, got>>
      /\ \/ raced' = raced /\ UNCHANGED files
         \/ raced' = raced \cup {d \in Calls : pc[d] \in Decided}
  BY DEF Others, files
<1>2. dir'[NextOf(c)] = dir[NextOf(c)] /\ dir'[Before(c)] = dir[Before(c)]
  BY DEF Others, Save, Edit, Delete, Bind, TypeOK, files
<1>3. Linked(Before(c)) => data'[dir[Before(c)]] = data[dir[Before(c)]]
  <2> SUFFICES ASSUME Linked(Before(c))
               PROVE  data'[dir[Before(c)]] = data[dir[Before(c)]]
    OBVIOUS
  <2>1. dir[Before(c)] \in Inodes
    BY DEF TypeOK, Linked
  <2>2. dir[Live] # dir[Before(c)]
    <3> SUFFICES ASSUME dir[Live] = dir[Before(c)] PROVE FALSE
      OBVIOUS
    <3>1. PICK d \in Calls : Sharing(Before(c), Live, d)
      BY DEF Apart
    <3> QED
      BY <3>1 DEF Sharing
  <2>3. CASE \E text \in Contents : Save(text)
    BY <2>1, <2>3 DEF Save, Free, TypeOK
  <2>4. CASE \E text \in Contents : Edit(text)
    BY <2>1, <2>2, <2>4 DEF Edit, TypeOK
  <2>5. CASE UNCHANGED data
    BY <2>5
  <2> QED
    BY <2>3, <2>4, <2>5 DEF Others, Delete, files
<1>4. PlaceOK(c)
  BY DEF Places_OK
<1> QED
  BY <1>1, <1>2, <1>3, <1>4 DEF PlaceOK, Linked, Body, Decided, files

-----------------------------------------------------------------------------
(* Refusals *)

\* A refusal latches, and a latched call does not succeed.
LEMMA CallLatched ==
  ASSUME TypeOK, Latched, NEW c \in Calls, Call(c)
  PROVE  Latched'
<1> USE DEF TypeOK, latch
<1>1. refused' \subseteq latched'
  BY DEF Latched, Call, Capture, Unchanged, Prepare, Check, Displace, Verify, Install, Detach, Validate, Cleanup, Mishap,
     Undo, Withdraw, Failing, Restore, Discard, Die, Attempt, Refusal, Allowed
<1>2. pc[c] # "done"
  BY ActsWhenActive DEF Active, Capture
<1>3. CASE \E ok \in BOOLEAN : End(c, ok)
  <2>1. pc'[c] = "done" /\ (outcome'[c] = "ok" => c \notin latched')
    BY <1>3 DEF End, Failure, Goto
  <2> QED
    BY <1>1, <2>1, OthersUntouched DEF Latched
<1>4. CASE UNCHANGED outcome
  BY <1>1, <1>2, <1>4, OthersUntouched DEF Latched
<1>5. (\E ok \in BOOLEAN : End(c, ok)) \/ UNCHANGED outcome
  BY DEF Call, Capture, Unchanged, Prepare, Check, Displace, Verify, Install, Detach, Validate, Cleanup, Mishap,
     Undo, Withdraw, Failing, Restore, Discard, Die, Current
<1> QED
  BY <1>3, <1>4, <1>5

-----------------------------------------------------------------------------
(* The invariant *)

\* It holds at first,
LEMMA InitInv == Init => ReplaceInv
<1> SUFFICES ASSUME Init PROVE ReplaceInv
  OBVIOUS
<1> USE ReplaceAssumption, NamesDiffer DEF Init
<1>1. TypeOK
  BY DEF TypeOK, Nothing
<1>2. OneActive
  BY DEF OneActive, Active
<1>3. Apart
  BY DEF Apart, Linked
<1>4. Places_OK
  BY DEF Places_OK, PlaceOK, Linked
<1>5. Latched
  BY DEF Latched
<1> QED
  BY <1>1, <1>2, <1>3, <1>4, <1>5 DEF ReplaceInv

\* each step keeps it,
LEMMA StepInv == ReplaceInv /\ [Next]_vars => ReplaceInv'
<1> SUFFICES ASSUME ReplaceInv, [Next]_vars PROVE ReplaceInv'
  OBVIOUS
<1> USE DEF ReplaceInv
<1>1. ASSUME NEW c \in Calls, Call(c) PROVE ReplaceInv'
  BY <1>1, CallTypes, ActiveStep, CallApart, CallPlaces, CallLatched
<1>2. CASE Others
  <2>1. OneActive' /\ Latched'
    BY <1>2 DEF Others, OneActive, Active, Latched, latch
  <2> QED
    BY <1>2, <2>1, OthersTypes, OthersApart, OthersPlaces
<1>3. CASE UNCHANGED vars
  <2> USE <1>3 DEF vars, files, latch
  <2>1. TypeOK'
    BY DEF TypeOK
  <2>2. OneActive' /\ Latched'
    BY DEF OneActive, Active, Latched
  <2>3. Apart'
    <3>1. \A n, m \in Names, d \in Calls : Sharing(n, m, d) => Sharing(n, m, d)'
      BY DEF Sharing, Active
    <3> QED
      BY <3>1 DEF Apart, Linked
  <2>4. Places_OK'
    BY DEF Places_OK, PlaceOK, Linked, Body
  <2> QED
    BY <2>1, <2>2, <2>3, <2>4
<1> QED
  BY <1>1, <1>2, <1>3 DEF Next
\* and so it always holds.
LEMMA InvHolds == Spec => []ReplaceInv
BY InitInv, StepInv, PTL DEF Spec

\* Every reachable state is well typed.
THEOREM TypeCorrect == Spec => []TypeOK
BY InvHolds, PTL DEF ReplaceInv

-----------------------------------------------------------------------------
(* The properties *)

\* After the layout refused a write of an operation, the operation changes no name, and never reports success.
THEOREM RefusalIsFinal == Spec => RefusalLatches
<1>1. ASSUME ReplaceInv, ReplaceInv', [Next]_vars, NEW c \in Calls
      PROVE  /\ c \in refused /\ pc'[c] # pc[c] => UNCHANGED dir
             /\ c \in refused' => outcome'[c] # "ok"
  <2>1. c \in refused' => outcome'[c] # "ok"
    BY <1>1 DEF ReplaceInv, Latched
  <2>2. ASSUME c \in refused, pc'[c] # pc[c] PROVE UNCHANGED dir
    <3>1. c \in latched /\ ~Allowed(c)
      BY <1>1, <2>2 DEF ReplaceInv, Latched, Allowed
    <3>2. Call(c)
      BY <1>1, <2>2, OthersUntouched DEF Next, Others, vars, ReplaceInv
    <3> QED
      BY <3>1, <3>2 DEF Call, Capture, Unchanged, Prepare, Check, Displace, Verify, Install, Detach, Validate, Cleanup,
         Mishap, Undo, Withdraw, Failing, Restore, Discard, Die, files
  <2> QED
    BY <2>1, <2>2
<1>2. ReplaceInv /\ ReplaceInv' /\ [Next]_vars =>
        [\A c \in Calls :
           /\ c \in refused /\ pc'[c] # pc[c] => UNCHANGED dir
           /\ c \in refused' => outcome'[c] # "ok"]_vars
  BY <1>1
<1> QED
  BY <1>2, InvHolds, PTL DEF Spec, RefusalLatches

\* The names whose texts are not lost.
Keepers == {Live} \cup {Before(c) : c \in Calls}

\* No call changes the text of a file that is on the path or was moved aside.
LEMMA TextsStay ==
  ASSUME ReplaceInv, NEW c \in Calls, Call(c), NEW n \in Keepers, Linked(n)
  PROVE  data'[dir[n]] = data[dir[n]]
<1> USE NamesDiffer DEF ReplaceInv
<1>1. n \in Names /\ dir[n] \in Inodes
  BY DEF Keepers, TypeOK, Linked
<1>2. CASE Prepare(c)
  BY <1>1, <1>2 DEF Prepare, Free, TypeOK
<1>3. CASE Discard(c) /\ data' = [data EXCEPT ![dir[NextOf(c)]] = Empty] /\ "installed" \notin did[c]
  <2>1. ASSUME dir[NextOf(c)] = dir[n] PROVE FALSE
    <3>1. PICK d \in Calls : Sharing(n, NextOf(c), d)
      BY <1>1, <2>1 DEF Apart, Keepers
    <3>2. NextOf(c) = NextOf(d)
      BY <3>1 DEF Sharing
    <3> QED
      BY <1>3, <3>1, <3>2 DEF Sharing
  <2> QED
    BY <1>1, <1>3, <2>1 DEF TypeOK
<1>4. CASE UNCHANGED data
  BY <1>4
<1>5. Prepare(c) \/ UNCHANGED data
        \/ (Discard(c) /\ data' = [data EXCEPT ![dir[NextOf(c)]] = Empty] /\ "installed" \notin did[c])
  BY DEF Call, Capture, Unchanged, Check, Displace, Verify, Install, Detach, Validate, Cleanup, Mishap, Undo,
     Withdraw, Failing, Restore, Discard, Die, files
<1> QED
  BY <1>2, <1>3, <1>4, <1>5

\* Each of these files keeps one of these names, unless the call drops what it has replaced, takes its value back, or
\* is overtaken.
LEMMA NamesStay ==
  ASSUME ReplaceInv, NEW c \in Calls, Call(c), NEW n \in Keepers, Linked(n)
  PROVE  \/ \E m \in Keepers : dir'[m] = dir[n]
         \/ Cleanup(c) /\ n = Before(c)
         \/ Withdraw(c) /\ n = Live
         \/ c \in raced /\ n = Live
<1> USE NamesDiffer DEF ReplaceInv, TypeOK, Bind
<1>0. n \in Names /\ Live \in Keepers /\ Before(c) \in Keepers
  BY DEF Keepers
<1>1. CASE \/ Prepare(c) \/ Detach(c) \/ Discard(c)
  <2>1. n # NextOf(c)
    BY DEF Keepers
  <2> QED
    BY <1>0, <1>1, <2>1 DEF Prepare, Detach, Discard
<1>2. CASE Displace(c)
  <2>1. ~Linked(Before(c))
    BY <1>2 DEF Places_OK, PlaceOK, Displace
  <2> QED
    BY <1>0, <1>2, <2>1 DEF Displace, Linked
<1>3. CASE Install(c)
  BY <1>0, <1>3 DEF Install, Linked
<1>4. CASE Cleanup(c)
  BY <1>0, <1>4 DEF Cleanup
<1>5. CASE Withdraw(c)
  BY <1>0, <1>5 DEF Withdraw
<1>6. CASE Restore(c)
  <2>1. CASE UNCHANGED dir
    BY <1>0, <2>1
  <2>2. CASE dir' = [dir EXCEPT ![Live] = dir[Before(c)], ![Before(c)] = None]
    <3>1. c \in raced \/ ~Linked(Live)
      BY <1>6 DEF Restore, Places_OK, PlaceOK
    <3>2. n # Live => \E m \in Keepers : dir'[m] = dir[n]
      BY <1>0, <2>2
    <3> QED
      BY <3>1, <3>2
  <2> QED
    BY <1>6, <2>1, <2>2 DEF Restore
<1>7. CASE UNCHANGED dir
  BY <1>0, <1>7
<1> QED
  BY <1>1, <1>2, <1>3, <1>4, <1>5, <1>6, <1>7
  DEF Call, Capture, Unchanged, Check, Verify, Validate, Mishap, Undo, Failing, Die, files
\* For any calls, texts and steps of others: no publication makes a text unreachable but the one it has replaced,
\* its own, and one that was put on the path between the rollback's last look and what this look decides.
THEOREM NobodyOverwritten == Spec => NothingLost
<1>1. ASSUME ReplaceInv, ReplaceInv', [Next]_vars, NEW c \in Calls, pc'[c] # pc[c]
      PROVE  Kept \ Kept' \subseteq {Value[c]} \cup (IF pc[c] = "cleanup" THEN {got[c].content} ELSE {})
                                           \cup (IF c \in raced THEN {Body(Live)} ELSE {})
  <2> USE <1>1 DEF ReplaceInv
  <2>1. Call(c)
    BY OthersUntouched DEF Next, Others, vars
  <2> SUFFICES ASSUME NEW text \in Kept, text \notin Kept'
               PROVE  \/ text = Value[c]
                      \/ pc[c] = "cleanup" /\ text = got[c].content
                      \/ c \in raced /\ text = Body(Live)
    OBVIOUS
  <2>2. PICK n \in Keepers : Linked(n) /\ text = data[dir[n]]
    BY DEF Kept, Keepers, Body
  <2>3. data'[dir[n]] = data[dir[n]]
    BY <2>1, <2>2, TextsStay
  <2>4. ~\E m \in Keepers : dir'[m] = dir[n]
    <3> SUFFICES ASSUME NEW m \in Keepers, dir'[m] = dir[n] PROVE FALSE
      OBVIOUS
    <3>1. Body(m)' = text
      BY <2>2, <2>3 DEF Body, Linked
    <3>2. text # None
      BY DEF Kept
    <3> QED
      BY <3>1, <3>2 DEF Kept, Keepers
  <2>5. CASE Cleanup(c) /\ n = Before(c)
    BY <2>2, <2>5 DEF Cleanup, Places_OK, PlaceOK, Body
  <2>6. CASE Withdraw(c) /\ n = Live
    BY <2>2, <2>6 DEF Withdraw, Places_OK, PlaceOK, Body
  <2>7. CASE c \in raced /\ n = Live
    BY <2>2, <2>7 DEF Body
  <2> QED
    BY <2>1, <2>2, <2>4, <2>5, <2>6, <2>7, NamesStay
<1>2. ReplaceInv /\ ReplaceInv' /\ [Next]_vars =>
        [\A c \in Calls : pc'[c] # pc[c] =>
           Kept \ Kept' \subseteq {Value[c]} \cup (IF pc[c] = "cleanup" THEN {got[c].content} ELSE {})
                                        \cup (IF c \in raced THEN {Body(Live)} ELSE {})]_vars
  BY <1>1
<1> QED
  BY <1>2, InvHolds, PTL DEF Spec, NothingLost
-----------------------------------------------------------------------------
(* The compare-and-swap *)

\* What the abstract file needs of a call at each place: how far it came, what it set aside, and what it has ready.
SwapOK(c) ==
  /\ pc[c] \notin {"done", "dead"} => outcome[c] = "none"
  /\ pc[c] \in {"idle", "prepare", "check", "displace", "verify", "install"} => did[c] \subseteq {"displaced"}
  /\ pc[c] \in {"detach", "validate", "cleanup", "undo", "withdraw"} =>
       "installed" \in did[c] /\ did[c] \subseteq {"displaced", "installed"}
  /\ pc[c] \in {"failing", "restore"} =>
       did[c] \cap {"restored", "lost"} = {} /\ ("withdrew" \in did[c] => "installed" \in did[c])
  /\ pc[c] \in {"check", "displace", "verify", "install"} => Body(NextOf(c)) = Value[c]
  /\ Active(c) => (Existing(c) <=> got[c].content # None)
  /\ pc[c] = "displace" => Existing(c)
  /\ Active(c) /\ pc[c] # "discard" /\ (pc[c] = "install" \/ "installed" \in did[c]) => Body(Before(c)) = got[c].content
SwapInv ==
  /\ \A c \in Calls : SwapOK(c)
  /\ \A n \in Keepers : Linked(n) => Body(n) \in Contents
\* The acting call.
LEMMA OwnSwap ==
  ASSUME ReplaceInv, SwapInv, NEW c \in Calls, Call(c)
  PROVE  SwapOK(c)'
<1> USE ReplaceAssumption, NamesDiffer
    DEF ReplaceInv, TypeOK, SwapOK, Goto, Did, Bind, files, Linked, Body, Active, Existing
<1>0. SwapOK(c) /\ PlaceOK(c)
  BY DEF SwapInv, Places_OK
<1>1. CASE Capture(c) BY <1>0, <1>1 DEF Capture, End, PlaceOK
<1>2. CASE Unchanged(c) BY <1>0, <1>2 DEF Unchanged, End, PlaceOK
<1>3. CASE Prepare(c) BY <1>0, <1>3 DEF Prepare, Free, PlaceOK
<1>4. CASE Check(c) BY <1>0, <1>4 DEF Check, PlaceOK
<1>5. CASE Displace(c) BY <1>0, <1>5 DEF Displace, PlaceOK
<1>6. CASE Verify(c) BY <1>0, <1>6 DEF Verify, PlaceOK
<1>7. CASE Install(c) BY <1>0, <1>7 DEF Install, PlaceOK
<1>8. CASE Detach(c) BY <1>0, <1>8 DEF Detach, PlaceOK
<1>9. CASE Validate(c) BY <1>0, <1>9 DEF Validate, End, PlaceOK
<1>10. CASE Cleanup(c) BY <1>0, <1>10 DEF Cleanup, End, PlaceOK
<1>11. CASE Mishap(c) BY <1>0, <1>11 DEF Mishap, PlaceOK
<1>12. CASE Undo(c) BY <1>0, <1>12 DEF Undo, PlaceOK
<1>13. CASE Withdraw(c) BY <1>0, <1>13 DEF Withdraw, PlaceOK
<1>14. CASE Failing(c) BY <1>0, <1>14 DEF Failing, PlaceOK
<1>15. CASE Restore(c) BY <1>0, <1>15 DEF Restore, PlaceOK
<1>16. CASE Discard(c) BY <1>0, <1>16 DEF Discard, End, PlaceOK
<1>17. CASE Die(c) BY <1>0, <1>17 DEF Die, PlaceOK
<1> QED
  BY <1>1, <1>2, <1>3, <1>4, <1>5, <1>6, <1>7, <1>8, <1>9, <1>10, <1>11, <1>12, <1>13, <1>14, <1>15, <1>16, <1>17
  DEF Call
\* Every text on the path, or aside, is one that somebody wrote there.
LEMMA CallTexts ==
  ASSUME ReplaceInv, SwapInv, NEW c \in Calls, Call(c), NEW n \in Keepers, Linked(n)'
  PROVE  Body(n)' \in Contents
<1> USE ReplaceAssumption, NamesDiffer DEF ReplaceInv, TypeOK, Bind
<1>0. n \in Names /\ Live \in Keepers /\ Before(c) \in Keepers /\ \A d \in Calls : n # NextOf(d)
  BY DEF Keepers
<1>1. ASSUME NEW m \in Keepers, Linked(m), dir'[n] = dir[m] PROVE Body(n)' \in Contents
  <2>1. data'[dir[m]] = data[dir[m]] /\ Body(m) \in Contents
    BY <1>1, TextsStay DEF SwapInv
  <2> QED
    BY <1>1, <2>1 DEF Body, Linked
<1>2. CASE Install(c) /\ n = Live
  <2>1. Body(NextOf(c)) = Value[c] /\ Linked(NextOf(c))
    BY <1>2 DEF Install, SwapInv, SwapOK, Places_OK, PlaceOK
  <2> QED
    BY <1>2, <2>1 DEF Install, Body, Linked, files
<1>3. CASE Displace(c)
  BY <1>0, <1>1, <1>3 DEF Displace, Linked
<1>4. CASE Restore(c)
  <2>1. UNCHANGED dir \/ dir' = [dir EXCEPT ![Live] = dir[Before(c)], ![Before(c)] = None]
    BY <1>4 DEF Restore
  <2> QED
    BY <1>0, <1>1, <2>1 DEF Linked
<1>5. CASE ~Displace(c) /\ ~Restore(c) /\ ~(Install(c) /\ n = Live)
  <2>1. dir'[n] \in {dir[n], None}
    BY <1>0, <1>5 DEF Call, Capture, Unchanged, Prepare, Check, Verify, Install, Detach, Validate, Cleanup, Mishap, Undo,
       Withdraw, Failing, Discard, Die, files
  <2> QED
    BY <1>1, <2>1 DEF Linked
<1> QED
  BY <1>2, <1>3, <1>4, <1>5

\* A step of a call keeps the part about the compare-and-swap,
LEMMA CallSwap ==
  ASSUME ReplaceInv, SwapInv, NEW c \in Calls, Call(c)
  PROVE  SwapInv'
<1>1. \A n \in Keepers : Linked(n)' => Body(n)' \in Contents
  BY CallTexts
<1>2. ASSUME NEW d \in Calls, d # c PROVE SwapOK(d)'
  <2>1. SwapOK(d) /\ ~Active(d) /\ ~Active(d)'
    BY <1>2, ActiveStep DEF ReplaceInv, SwapInv
  <2> QED
    BY <1>2, <2>1, OthersUntouched DEF ReplaceInv, SwapOK, Active
<1> QED
  BY <1>1, <1>2, OwnSwap DEF SwapInv

\* and so does a step of anybody else, who writes no file but the one on the path.
LEMMA OthersSwap ==
  ASSUME ReplaceInv, SwapInv, Others
  PROVE  SwapInv'
<1> USE ReplaceAssumption, NamesDiffer DEF ReplaceInv
<1>1. UNCHANGED <<pc, did, got, outcome>>
  BY DEF Others
<1>2. \A n \in Names : n # Live => dir'[n] = dir[n]
  BY DEF Others, Save, Edit, Delete, Bind, TypeOK, files
<1>3. ASSUME NEW n \in Names, n # Live, dir[n] # dir[Live] \/ ~Linked(n)
      PROVE  Body(n)' = Body(n)
  <2>1. CASE \E text \in Contents : Save(text)
    BY <1>2, <1>3, <2>1 DEF Save, Free, TypeOK, Body, Linked
  <2>2. CASE \E text \in Contents : Edit(text)
    BY <1>2, <1>3, <2>2 DEF Edit, TypeOK, Body, Linked
  <2>3. CASE UNCHANGED data
    BY <1>2, <1>3, <2>3 DEF Body, Linked
  <2> QED
    BY <2>1, <2>2, <2>3 DEF Others, Delete, files
<1>4. \A c \in Calls : Body(Before(c))' = Body(Before(c))
  <2> SUFFICES ASSUME NEW c \in Calls, Linked(Before(c)), dir[Before(c)] = dir[Live] PROVE FALSE
    BY <1>3
  <2>1. PICK d \in Calls : Sharing(Before(c), Live, d)
    BY DEF Apart
  <2> QED
    BY <2>1 DEF Sharing
<1>5. ASSUME NEW c \in Calls, "installed" \notin did[c]
      PROVE  Body(NextOf(c))' = Body(NextOf(c))
  <2> SUFFICES ASSUME Linked(NextOf(c)), dir[NextOf(c)] = dir[Live] PROVE FALSE
    BY <1>3
  <2>1. PICK d \in Calls : Sharing(NextOf(c), Live, d)
    BY DEF Apart
  <2> QED
    BY <1>5, <2>1 DEF Sharing
<1>6. ASSUME NEW c \in Calls PROVE SwapOK(c)'
  <2>1. SwapOK(c)
    BY DEF SwapInv
  <2> QED
    BY <1>1, <1>4, <1>5, <2>1 DEF SwapOK, Active, Existing
<1>7. Linked(Live)' => Body(Live)' \in Contents
  <2>1. CASE \E text \in Contents : Save(text)
    BY <2>1 DEF Save, Bind, Free, TypeOK, Body, Linked
  <2>2. CASE \E text \in Contents : Edit(text)
    BY <2>2 DEF Edit, TypeOK, Body, Linked
  <2>3. CASE Delete
    BY <2>3 DEF Delete, Bind, TypeOK, Linked
  <2>4. CASE UNCHANGED files
    BY <2>4 DEF files, SwapInv, Keepers, Body, Linked
  <2> QED
    BY <2>1, <2>2, <2>3, <2>4 DEF Others
<1>8. ASSUME NEW n \in Keepers, Linked(n)' PROVE Body(n)' \in Contents
  BY <1>2, <1>4, <1>7, <1>8 DEF Keepers, SwapInv, Linked
<1> QED
  BY <1>6, <1>8 DEF SwapInv

\* Both parts always hold.
LEMMA SwapInvHolds == Spec => [](ReplaceInv /\ SwapInv)
<1> USE ReplaceAssumption, NamesDiffer
<1>1. Init => SwapInv
  <2> SUFFICES ASSUME Init PROVE SwapInv
    OBVIOUS
  <2>1. \A c \in Calls : SwapOK(c)
    BY DEF Init, SwapOK, Active
  <2>2. \A n \in Keepers : Linked(n) => Body(n) \in Contents
    BY DEF Init, Keepers, Linked, Body
  <2> QED
    BY <2>1, <2>2 DEF SwapInv
<1>2. ReplaceInv /\ SwapInv /\ [Next]_vars => SwapInv'
  <2>1. CASE UNCHANGED vars
    BY <2>1 DEF vars, files, SwapInv, SwapOK, Body, Linked, Active, Existing
  <2> QED
    BY <2>1, CallSwap, OthersSwap DEF Next
<1> QED
  BY <1>1, <1>2, InitInv, StepInv, PTL DEF Spec
\* The abstract variables, by the one call that may be active.
FileOf(c) == IF Linked(Live) THEN Body(Live) ELSE IF Aside(c) THEN Body(Before(c)) ELSE None
Seen == [c \in Calls |-> got[c].content]
Stages == [c \in Calls |-> Stage(c)]

\* A step of a call changes what the abstract file knows of that call only.
LEMMA Mapped ==
  ASSUME ReplaceInv, NEW c \in Calls, Call(c)
  PROVE  /\ File = FileOf(c) /\ File' = FileOf(c)'
         /\ Seen' = [Seen EXCEPT ![c] = got'[c].content]
         /\ Stages' = [Stages EXCEPT ![c] = Stage(c)']
         /\ outcome' = [outcome EXCEPT ![c] = outcome'[c]]
<1> USE DEF ReplaceInv
<1>1. \A d \in Calls : d # c => ~Active(d) /\ ~Active(d)'
  BY ActiveStep
<1>2. \A d \in Calls : (Aside(d) => d = c) /\ (Aside(d)' => d = c)
  BY <1>1 DEF Aside
<1>3. File = FileOf(c)
  BY <1>2 DEF File, FileOf
<1>4. File' = FileOf(c)'
  BY <1>2 DEF File, FileOf
<1>5. Seen' = [Seen EXCEPT ![c] = got'[c].content]
  BY OthersUntouched DEF Seen
<1>6. \A d \in Calls : d # c => Stage(d)' = Stage(d)
  BY OthersUntouched DEF Stage
<1>7. Stages' = [Stages EXCEPT ![c] = Stage(c)']
  BY <1>6 DEF Stages
<1>8. outcome' = [outcome EXCEPT ![c] = outcome'[c]]
  BY CallTypes, OthersUntouched DEF TypeOK
<1> QED
  BY <1>3, <1>4, <1>5, <1>7, <1>8

\* How far a call came, by what it has done.
LEMMA Swapped ==
  ASSUME NEW c \in Calls, "installed" \in did[c], did[c] \subseteq {"displaced", "installed"}
  PROVE  Stage(c) = "swapped"
BY DEF Stage

\* It counts as no step of others, and ends what the call has looked at.
LEMMA CallMarks ==
  ASSUME NEW c \in Calls, Call(c)
  PROVE  raced' = raced \ {c} /\ UNCHANGED foreign
<1> USE DEF Goto
<1>1. CASE Capture(c) \/ Unchanged(c) \/ Validate(c) \/ Cleanup(c) \/ Discard(c)
  BY <1>1 DEF Capture, Unchanged, Validate, Cleanup, Discard, End
<1>2. CASE ~(Capture(c) \/ Unchanged(c) \/ Validate(c) \/ Cleanup(c) \/ Discard(c))
  BY <1>2 DEF Call, Prepare, Check, Displace, Verify, Install, Detach, Mishap, Undo, Withdraw, Failing, Restore, Die
<1> QED
  BY <1>1, <1>2

\* A step of a call is a step of the abstract file, or none.
LEMMA CallImplements ==
  ASSUME ReplaceInv, ReplaceInv', SwapInv, SwapInv', NEW c \in Calls, Call(c)
  PROVE  Register!Next \/ UNCHANGED Register!vars
<1> USE DEF ReplaceInv
<1>0. SwapOK(c) /\ PlaceOK(c) /\ (Body(Live) \in Contents \/ ~Linked(Live)) /\ Value[c] \in Contents
  BY ReplaceAssumption DEF SwapInv, Keepers, Places_OK
<1>maps. /\ File = FileOf(c) /\ File' = FileOf(c)'
      /\ Seen' = [Seen EXCEPT ![c] = got'[c].content]
      /\ Stages' = [Stages EXCEPT ![c] = Stage(c)']
      /\ outcome' = [outcome EXCEPT ![c] = outcome'[c]]
      /\ Seen[c] = got[c].content /\ Stages[c] = Stage(c)
      /\ raced' = raced \ {c} /\ UNCHANGED foreign
  BY Mapped, CallMarks DEF Seen, Stages
<1>raced. c \in raced => pc[c] \in Decided /\ outcome[c] = "none"
  BY <1>0 DEF PlaceOK, SwapOK, Decided
<1>stutter. ASSUME FileOf(c)' = FileOf(c), got'[c].content = got[c].content, Stage(c)' = Stage(c),
             outcome'[c] = outcome[c]
      PROVE  Register!Next \/ UNCHANGED Register!vars
  <2>1. Seen' = Seen
    BY <1>maps, <1>stutter DEF Seen
  <2>2. Stages' = Stages
    BY <1>maps, <1>stutter DEF Stages
  <2>3. outcome' = outcome
    BY <1>maps, <1>stutter DEF TypeOK
  <2>4. CASE c \in raced
    <3>1. Register!Trample(c)
      BY <1>maps, <1>raced, <1>stutter, <2>1, <2>2, <2>3, <2>4 DEF Register!Trample, Seen, Stages
    <3> QED
      BY <1>maps, <3>1 DEF Register!Next, Register!Call
  <2>5. CASE c \notin raced
    BY <1>maps, <1>stutter, <2>1, <2>2, <2>3, <2>5 DEF Register!vars, Seen, Stages
  <2> QED
    BY <2>4, <2>5
<1>ends. ASSUME FileOf(c)' = FileOf(c), got'[c].content = got[c].content, Stage(c)' = Stage(c), outcome[c] = "none",
             \/ /\ outcome'[c] = "ok"
                /\ \/ Stage(c) = "swapped"
                   \/ Stage(c) = "none" /\ got[c].content = Value[c] /\ FileOf(c) = Value[c]
             \/ outcome'[c] = "unsure"
             \/ Stage(c) \in {"none", "lost"} /\ outcome'[c] = "failed"
             \/ Stage(c) # "none" /\ outcome'[c] = "published"
      PROVE  Register!Next
  <2>1. UNCHANGED <<File, Seen, Stages>>
    BY <1>maps, <1>ends DEF Seen, Stages
  <2>2. Register!Succeed(c) \/ Register!Fail(c)
    BY <1>maps, <1>ends, <2>1 DEF Register!Succeed, Register!Fail, Seen, Stages
  <2> QED
    BY <1>maps, <2>2 DEF Register!Next, Register!Call
<1>changes. ASSUME outcome[c] = "none", outcome'[c] = "none", got'[c].content = got[c].content,
             \/ Stage(c) = "none" /\ FileOf(c) = got[c].content /\ FileOf(c)' = Value[c] /\ Stage(c)' = "swapped"
             \/ /\ Stage(c) = "swapped" /\ Stage(c)' = "undone"
                /\ FileOf(c) \in {Value[c], None} \/ c \in raced
                /\ FileOf(c)' = got[c].content
             \/ c \in raced /\ Stage(c) \in {"none", "undone"} /\ Stage(c)' = Stage(c) /\ FileOf(c)' \in Contents
             \/ Stage(c) \in {"none", "undone"} /\ FileOf(c)' = None /\ Stage(c)' = "lost"
      PROVE  Register!Next
  <2>1. Seen' = Seen /\ outcome' = outcome
    <3>1. Seen' = Seen
      BY <1>maps, <1>changes DEF Seen
    <3>2. outcome' = outcome
      BY <1>maps, <1>changes DEF TypeOK
    <3> QED
      BY <3>1, <3>2
  <2>2. CASE c \in raced /\ Stage(c) \in {"none", "undone"} /\ Stage(c)' = Stage(c) /\ FileOf(c)' \in Contents
    <3>1. Stages' = Stages
      BY <1>maps, <2>2 DEF Stages
    <3>2. Register!Trample(c)
      BY <1>maps, <1>changes, <2>1, <2>2, <3>1 DEF Register!Trample, Seen, Stages
    <3> QED
      BY <1>maps, <3>2 DEF Register!Next, Register!Call
  <2>3. CASE ~(c \in raced /\ Stage(c) \in {"none", "undone"} /\ Stage(c)' = Stage(c) /\ FileOf(c)' \in Contents)
    <3>1. Register!Swap(c) \/ Register!Undo(c) \/ Register!Vanish(c)
      BY <1>maps, <1>changes, <2>1, <2>3 DEF Register!Swap, Register!Undo, Register!Vanish, Seen, Stages
    <3> QED
      BY <1>maps, <3>1 DEF Register!Next, Register!Call
  <2> QED
    BY <2>2, <2>3
<1> USE NamesDiffer DEF TypeOK, Goto, Did, Bind, files
<1>1. CASE Capture(c)
  <2>1. CASE pc'[c] = "prepare"
    <3>1. FileOf(c)' = FileOf(c) /\ FileOf(c) = got'[c].content
      BY <1>0, <1>1, <2>1 DEF Capture, End, FileOf, Aside, Active, Body, Linked, PlaceOK
    <3>2. Stage(c) = "none" /\ Stage(c)' = "none" /\ outcome[c] = "none" /\ UNCHANGED outcome
      BY <1>0, <1>1, <2>1 DEF Stage, Capture, End, SwapOK
    <3>3. Stages' = Stages
      BY <1>maps, <3>2 DEF Stages
    <3>4. Stages[c] = "none" /\ Seen' = [Seen EXCEPT ![c] = File] /\ File' = File
      BY <1>maps, <3>1, <3>2
    <3>5. Register!See(c)
      BY <3>2, <3>3, <3>4 DEF Register!See, Seen, Stages
    <3> QED
      BY <1>maps, <3>5 DEF Register!Next, Register!Call
  <2>2. CASE pc'[c] = "done"
    <3>1. FileOf(c)' = FileOf(c)
      BY <1>0, <1>1, <2>2 DEF Capture, FileOf, Aside, Active, Body, Linked, PlaceOK
    <3>2. /\ Stage(c) = "none" /\ Stage(c)' = "none" /\ UNCHANGED got
          /\ outcome[c] = "none" /\ outcome'[c] \in {"unsure", "failed"}
      BY <1>0, <1>1, <2>2 DEF Stage, Capture, End, Failure, SwapOK
    <3> QED
      BY <1>ends, <3>1, <3>2
  <2> QED
    BY <1>1, <2>1, <2>2 DEF Capture, End
<1>2. CASE Unchanged(c)
  <2>1. FileOf(c)' = FileOf(c) /\ UNCHANGED got
    BY <1>0, <1>2 DEF Unchanged, End, FileOf, Aside, Active, Body, Linked, PlaceOK
  <2>2. Stage(c) = "none" /\ Stage(c)' = "none" /\ outcome[c] = "none"
    BY <1>0, <1>2 DEF Stage, Unchanged, SwapOK
  <2>3. outcome'[c] = "ok" => got[c].content = Value[c] /\ FileOf(c) = Value[c]
    BY <1>0, <1>2 DEF Unchanged, End, Failure, Current, Existing, FileOf, Linked
  <2>4. outcome'[c] \in {"ok", "unsure", "failed"}
    BY <1>0, <1>2 DEF Unchanged, End, Failure, SwapOK
  <2> QED
    BY <1>ends, <2>1, <2>2, <2>3, <2>4
<1>3. CASE Prepare(c) \/ Check(c) \/ Displace(c) \/ Verify(c) \/ Detach(c) \/ Mishap(c) \/ Undo(c) \/ Failing(c)
  <2>1. UNCHANGED <<got, did, outcome>> \/ Displace(c)
    BY <1>3 DEF Prepare, Check, Verify, Detach, Mishap, Undo, Failing
  <2>2. got'[c].content = got[c].content /\ outcome'[c] = outcome[c]
    BY <1>3, <2>1 DEF Displace
  <2>3. Stage(c)' = Stage(c)
    BY <1>3, <2>1 DEF Stage, Displace
  <2>4. CASE Prepare(c)
    <3>1. FileOf(c)' = FileOf(c)
      BY <1>0, <2>4 DEF Prepare, Free, FileOf, Aside, Active, Body, Linked, PlaceOK
    <3> QED
      BY <1>stutter, <2>2, <2>3, <3>1
  <2>5. CASE Displace(c)
    <3>1. FileOf(c)' = FileOf(c)
      BY <1>0, <2>5 DEF Displace, FileOf, Aside, Active, Body, Linked, PlaceOK
    <3> QED
      BY <1>stutter, <2>2, <2>3, <3>1
  <2>6. CASE Check(c) \/ Verify(c) \/ Detach(c) \/ Mishap(c) \/ Undo(c) \/ Failing(c)
    <3>1. FileOf(c)' = FileOf(c)
      BY <1>0, <2>6 DEF Check, Verify, Detach, Mishap, Undo, Failing, FileOf, Aside, Active, Body, Linked, PlaceOK
    <3> QED
      BY <1>stutter, <2>2, <2>3, <3>1
  <2> QED
    BY <1>3, <2>4, <2>5, <2>6
<1>4. CASE Install(c)
  <2>1. FileOf(c) = got[c].content
    BY <1>0, <1>4 DEF Install, FileOf, Aside, Active, Body, Linked, SwapOK
  <2>2. FileOf(c)' = Value[c]
    BY <1>0, <1>4 DEF Install, FileOf, Body, Linked, SwapOK, PlaceOK
  <2>3. Stage(c) = "none" /\ Stage(c)' = "swapped"
    BY <1>0, <1>4 DEF Stage, Install, SwapOK
  <2>4. outcome[c] = "none" /\ UNCHANGED <<got, outcome>>
    BY <1>0, <1>4 DEF Install, SwapOK
  <2> QED
    BY <1>changes, <2>1, <2>2, <2>3, <2>4
<1>5. CASE Validate(c)
  <2>1. FileOf(c)' = FileOf(c) /\ UNCHANGED <<got, did>>
    BY <1>0, <1>5 DEF Validate, End, FileOf, Aside, Active, Body, Linked, SwapOK
  <2>2. Stage(c) = "swapped" /\ Stage(c)' = "swapped" /\ outcome[c] = "none"
    <3>1. "installed" \in did[c] /\ did[c] \subseteq {"displaced", "installed"} /\ outcome[c] = "none"
      BY <1>0, <1>5 DEF Validate, SwapOK
    <3>2. Stage(c)' = Stage(c)
      BY <2>1 DEF Stage
    <3> QED
      BY <3>1, <3>2, Swapped
  <2>3. outcome'[c] \in {"none", "ok", "unsure", "published"}
    BY <1>0, <1>5 DEF Validate, End, Failure, SwapOK
  <2> QED
    BY <1>stutter, <1>ends, <2>1, <2>2, <2>3
<1>6. CASE Cleanup(c)
  <2>1. FileOf(c)' = FileOf(c) /\ UNCHANGED <<got, did>>
    BY <1>0, <1>6 DEF Cleanup, End, FileOf, Aside, Active, Body, Linked, SwapOK
  <2>2. Stage(c) = "swapped" /\ Stage(c)' = "swapped" /\ outcome[c] = "none"
    <3>1. "installed" \in did[c] /\ did[c] \subseteq {"displaced", "installed"} /\ outcome[c] = "none"
      BY <1>0, <1>6 DEF Cleanup, SwapOK
    <3>2. Stage(c)' = Stage(c)
      BY <2>1 DEF Stage
    <3> QED
      BY <3>1, <3>2, Swapped
  <2>3. outcome'[c] \in {"ok", "unsure", "published"}
    BY <1>0, <1>6 DEF Cleanup, End, Failure, SwapOK
  <2> QED
    BY <1>ends, <2>1, <2>2, <2>3
<1>7. CASE Withdraw(c)
  <2>0. "installed" \in did[c] /\ did[c] \subseteq {"displaced", "installed"} /\ pc[c] = "withdraw" /\ Active(c)
    BY <1>0, <1>7 DEF Withdraw, SwapOK, Active
  <2>1. FileOf(c) \in {Value[c], None} \/ c \in raced
    <3>1. ~Aside(c)
      BY <2>0 DEF Aside
    <3>2. Body(Live) = Value[c] \/ c \in raced
      BY <1>0, <2>0 DEF PlaceOK
    <3> QED
      BY <3>1, <3>2 DEF FileOf
  <2>2. FileOf(c)' = got[c].content
    <3>1. ~Linked(Live)' /\ Body(Before(c))' = Body(Before(c)) /\ Linked(Before(c))' = Linked(Before(c))
      BY <1>7 DEF Withdraw, Body, Linked
    <3>2. Body(Before(c)) = got[c].content
      BY <1>0, <2>0 DEF SwapOK
    <3>3. Aside(c)' <=> Linked(Before(c))
      BY <1>7, <3>1 DEF Withdraw, Aside, Active
    <3> QED
      BY <3>1, <3>2, <3>3 DEF FileOf, Body
  <2>3. Stage(c) = "swapped" /\ Stage(c)' = "undone"
    <3>1. did'[c] = did[c] \cup {"withdrew"}
      BY <1>7 DEF Withdraw
    <3>2. Stage(c)' = "undone"
      BY <2>0, <3>1 DEF Stage
    <3> QED
      BY <2>0, <3>2, Swapped
  <2>4. outcome[c] = "none" /\ UNCHANGED <<got, outcome>>
    BY <1>0, <1>7 DEF Withdraw, SwapOK
  <2> QED
    BY <1>changes, <2>1, <2>2, <2>3, <2>4
<1>8. CASE Restore(c)
  <2>1. /\ outcome[c] = "none" /\ UNCHANGED <<got, outcome, data>> /\ Active(c) /\ pc[c] = "restore"
        /\ ~Linked(Live) \/ c \in raced
    BY <1>0, <1>8 DEF Restore, SwapOK, PlaceOK, Active
  <2>2. /\ Linked(Before(c)) /\ Body(Before(c)) \in Contents
        /\ did[c] \cap {"restored", "lost"} = {}
        /\ "installed" \in did[c] => Body(Before(c)) = got[c].content
    <3>1. Before(c) \in Keepers
      BY DEF Keepers
    <3> QED
      BY <1>0, <2>1, <3>1 DEF PlaceOK, SwapOK, SwapInv
  <2>3. CASE dir' = [dir EXCEPT ![Live] = dir[Before(c)], ![Before(c)] = None] /\ Did(c, {"restored"})
    <3>1. FileOf(c)' = Body(Before(c))
      BY <2>1, <2>2, <2>3 DEF FileOf, Aside, Body, Linked
    <3>2. did'[c] = did[c] \cup {"restored"}
      BY <2>3
    <3>3. CASE Aside(c)
      <4>1. Stage(c)' = Stage(c) /\ Stage(c) \in {"none", "undone"}
        BY <2>2, <3>2, <3>3 DEF Stage, Aside
      <4>2. CASE c \in raced
        BY <1>changes, <2>1, <2>2, <3>1, <4>1, <4>2
      <4>3. CASE c \notin raced
        <5>1. FileOf(c) = Body(Before(c))
          BY <2>1, <3>3, <4>3 DEF FileOf
        <5> QED
          BY <1>stutter, <2>1, <3>1, <4>1, <5>1
      <4> QED
        BY <4>2, <4>3
    <3>4. CASE ~Aside(c)
      <4>1. "installed" \in did[c] /\ "withdrew" \notin did[c]
        BY <2>1, <2>2, <3>4 DEF Aside
      <4>2. FileOf(c) = None \/ c \in raced
        BY <2>1, <3>4 DEF FileOf
      <4>3. Stage(c) = "swapped" /\ Stage(c)' = "undone"
        BY <2>2, <3>2, <4>1 DEF Stage
      <4> QED
        BY <1>changes, <2>1, <2>2, <3>1, <4>1, <4>2, <4>3
    <3> QED
      BY <3>3, <3>4
  <2>4. CASE UNCHANGED dir /\ Did(c, IF Aside(c) /\ ~Linked(Live) THEN {"lost"} ELSE {})
    <3>1. FileOf(c)' = IF Linked(Live) THEN Body(Live) ELSE None
      BY <1>8, <2>1, <2>4 DEF Restore, FileOf, Aside, Linked, Body
    <3>2. CASE Aside(c) /\ ~Linked(Live)
      <4>1. Stage(c) \in {"none", "undone"} /\ Stage(c)' = "lost"
        BY <2>2, <2>4, <3>2 DEF Stage, Aside
      <4> QED
        BY <1>changes, <2>1, <3>1, <3>2, <4>1
    <3>3. CASE ~(Aside(c) /\ ~Linked(Live))
      <4>1. FileOf(c)' = FileOf(c)
        BY <3>1, <3>3 DEF FileOf
      <4>2. did'[c] = did[c]
        BY <2>4, <3>3
      <4>3. Stage(c)' = Stage(c)
        BY <4>2 DEF Stage
      <4> QED
        BY <1>stutter, <2>1, <4>1, <4>3
    <3> QED
      BY <3>2, <3>3
  <2> QED
    BY <1>8, <2>3, <2>4 DEF Restore
<1>9. CASE Discard(c)
  <2>1. FileOf(c)' = FileOf(c)
    <3>1. ~Aside(c) /\ ~Aside(c)'
      BY <1>9 DEF Discard, End, Aside, Active
    <3>2. dir'[Live] = dir[Live]
      BY <1>9 DEF Discard
    <3>3. Linked(Live) => data'[dir[Live]] = data[dir[Live]]
      BY TextsStay DEF Keepers
    <3> QED
      BY <3>1, <3>2, <3>3 DEF FileOf, Body, Linked
  <2>2. UNCHANGED <<got, did>> /\ Stage(c)' = Stage(c) /\ outcome[c] = "none"
    BY <1>0, <1>9 DEF Stage, Discard, SwapOK
  <2>3. \/ outcome'[c] = "unsure"
        \/ "installed" \in did[c] /\ outcome'[c] = "published"
        \/ "installed" \notin did[c] /\ outcome'[c] = "failed"
    BY <1>0, <1>9 DEF Discard, End, Failure, SwapOK
  <2>4. ("installed" \in did[c] => Stage(c) # "none") /\ ("installed" \notin did[c] => Stage(c) \in {"none", "lost"})
    BY DEF Stage
  <2> QED
    BY <1>ends, <2>1, <2>2, <2>3, <2>4
<1>10. CASE Die(c)
  <2>1. outcome[c] = "none" /\ UNCHANGED <<got, outcome>>
    BY <1>0, <1>10 DEF Die, Active, SwapOK
  <2>2. CASE Aside(c) /\ ~Linked(Live)
    <3>1. FileOf(c)' = None
      BY <1>10, <2>2 DEF Die, FileOf, Aside, Active, Linked
    <3>2. Stage(c)' = "lost"
      BY <1>10, <2>2 DEF Stage, Die
    <3>3. "lost" \notin did[c]
      BY <1>0, <2>2 DEF Aside, Active, SwapOK
    <3>4. Stage(c) \in {"none", "undone"}
      BY <2>2, <3>3 DEF Stage, Aside
    <3> QED
      BY <1>changes, <2>1, <3>1, <3>2, <3>4
  <2>3. CASE ~(Aside(c) /\ ~Linked(Live))
    <3>1. FileOf(c)' = FileOf(c) /\ did'[c] = did[c]
      BY <1>10, <2>3 DEF Die, FileOf, Aside, Active, Body, Linked
    <3>2. Stage(c)' = Stage(c)
      BY <3>1 DEF Stage
    <3> QED
      BY <1>stutter, <2>1, <3>1, <3>2
  <2> QED
    BY <2>2, <2>3
<1> QED
  BY <1>1, <1>2, <1>3, <1>4, <1>5, <1>6, <1>7, <1>8, <1>9, <1>10 DEF Call

\* The publications implement a compare-and-swap of the file, for any number of calls, inodes and texts, and any
\* steps of others; only a call that others overtake in its rollback does not look before it returns a text.
THEOREM PublicationsImplementRegister == Spec => ImplementsRegister
<1> USE ReplaceAssumption, NamesDiffer
<1>1. Init => Register!Init
  <2> SUFFICES ASSUME Init PROVE Register!Init
    OBVIOUS
  <2>1. \A c \in Calls : ~Aside(c)
    BY DEF Init, Aside, Active
  <2>2. File \in Contents \cup {None}
    BY <2>1 DEF Init, File, Body, Linked
  <2>3. \A c \in Calls : Stage(c) = "none"
    BY DEF Stage, Init
  <2> QED
    BY <2>2, <2>3 DEF Init, Register!Init, Nothing
<1>2. ASSUME ReplaceInv, ReplaceInv', SwapInv, SwapInv', [Next]_vars
      PROVE  Register!Next \/ UNCHANGED Register!vars
  <2>1. CASE Others
    <3>1. File' \in Contents \cup {None}
      <4>1. \A n \in Keepers : Body(n)' \in Contents \cup {None}
        BY <1>2 DEF SwapInv, Body, Linked
      <4>2. Live \in Keepers /\ \A c \in Calls : Before(c) \in Keepers
        BY DEF Keepers
      <4>3. CASE \E c \in Calls : Aside(c)'
        <5>1. PICK c \in Calls : c = CHOOSE d \in Calls : Aside(d)'
          BY <4>3
        <5> QED
          BY <4>1, <4>2, <4>3, <5>1 DEF File
      <4>4. CASE ~\E c \in Calls : Aside(c)'
        BY <4>1, <4>2, <4>4 DEF File
      <4> QED
        BY <4>3, <4>4
    <3>2. /\ UNCHANGED <<got, did, outcome>> /\ foreign' = foreign + 1
          /\ raced \subseteq raced' /\ raced' \subseteq Calls
      BY <1>2, <2>1 DEF Others, ReplaceInv, TypeOK
    <3>3. UNCHANGED <<Seen, Stages, outcome>>
      BY <3>2 DEF Seen, Stages, Stage
    <3>4. Register!Others
      BY <3>1, <3>2, <3>3 DEF Register!Others, Seen, Stages
    <3> QED
      BY <3>4 DEF Register!Next
  <2>2. CASE UNCHANGED vars
    <3>1. \A n \in Names : Body(n)' = Body(n) /\ (Linked(n)' <=> Linked(n))
      BY <2>2 DEF vars, files, Body, Linked
    <3>2. File' = File
      BY <2>2, <3>1 DEF vars, files, File, Aside, Active, Body, Linked
    <3> QED
      BY <2>2, <3>2 DEF vars, Register!vars, Stage
  <2> QED
    BY <1>2, <2>1, <2>2, CallImplements DEF Next
<1> QED
  BY <1>1, <1>2, SwapInvHolds, PTL DEF Spec, ImplementsRegister, Register!Spec

-----------------------------------------------------------------------------
(* The migration: the invariant *)

Steps == {"start", "create", "record", "replace", "publish", "replaced", "withdraw", "rename", "compare", "verify",
          "receipt"}

\* A call holds the lock; it is for a prepared operation, and never applies what was rolled back.
LockHeld == Busy <=> lock = "held"
PreparedOK == \A op \in Prepared : Raw(op) \in Sources
JobKnown ==
  Busy => /\ job.op \in Prepared
          /\ job.action = "apply" => ~Has(job.op, "rolled-back")
          /\ job.step \in {"create", "record", "replace"} => job.action = "apply"
          /\ job.step \in {"replaced", "withdraw", "rename", "compare"} => job.action = "rollback"
\* A file is away from its path in two places only, and a publication moves what its call has seen.
MovedOK ==
  /\ moved # Absent => Busy /\ job.step \in {"publish", "compare"}
  /\ Busy /\ job.step = "compare" => moved # Absent
SeenRetained == job.seen["projection"] # Absent /\ job.seen["projection"].text \in Retained(job.op)
PublishOK ==
  /\ Busy /\ job.step = "publish" => SeenRetained /\ (moved # Absent => moved = job.seen["projection"])
  /\ At("rollback", "start") => SeenRetained
\* The canonical file whose identity an operation has recorded is the operation's, unless it has adopted another; what
\* a rollback withdraws may also be a guest, that others have put there while it runs.
Mine(f, op) == f # Absent => f.by = op \/ f \in guests \/ (op \in adopted /\ f.id = record[op])
Recorded ==
  \A op \in Ops : live["canonical"] # Absent /\ live["canonical"].id = record[op]
                     => live["canonical"].by = op \/ op \in adopted
StepMine ==
  /\ At("apply", "record") \/ At("rollback", "withdraw") => Mine(live["canonical"], job.op)
  /\ Busy /\ job.step \in {"rename", "compare"} => Mine(job.seen["canonical"], job.op)
\* What others wrote last is on its path, on its way, beside it or in the archive, or retained.
LastKept(file) ==
  latest[file] # Absent =>
    \/ live[file] # Absent /\ live[file].text = latest[file]
    \/ moved # Absent /\ Place = file /\ moved.text = latest[file]
    \/ [file |-> file, text |-> latest[file]] \in aside
    \/ \E op \in Prepared : latest[file] \in Retained(op)

CallOK == LockHeld /\ JobKnown /\ MovedOK /\ PublishOK
MigrationInv == MigrationTypeOK /\ PreparedOK /\ CallOK /\ Recorded /\ StepMine /\ \A file \in Files : LastKept(file)

-----------------------------------------------------------------------------
(* The migration: identities *)

\* There are more identities than anybody can remember: a fresh one is one that nobody remembers.
LEMMA FreshIdentity ==
  ASSUME MigrationTypeOK
  PROVE  FreshId \in Ids /\ FreshId \notin Remembered
<1> DEFINE Slots == 1..5 + 2 * MaxOps
           slot == [k \in Slots |->
             IF k = 1 THEN live["canonical"].id ELSE IF k = 2 THEN live["projection"].id
             ELSE IF k = 3 THEN moved.id
             ELSE IF k = 4 THEN job.seen["canonical"].id ELSE IF k = 5 THEN job.seen["projection"].id
             ELSE IF k <= 5 + MaxOps THEN bundle[k - 5].id ELSE record[k - 5 - MaxOps]]
           f == [id \in Ids |-> CHOOSE k \in Slots : slot[k] = id]
<1>1. MaxOps \in Nat
  BY MigrationAssumption
<1>2. SUFFICES ASSUME Ids \subseteq Remembered PROVE FALSE
  BY DEF FreshId
<1>3. ASSUME NEW id \in Remembered PROVE \E k \in Slots : slot[k] = id
  <2>1. CASE \E file \in Files : live[file] # Absent /\ id = live[file].id
    <3>1. 1 \in Slots /\ 2 \in Slots /\ slot[1] = live["canonical"].id /\ slot[2] = live["projection"].id
      BY <1>1
    <3> QED
      BY <2>1, <3>1 DEF Files
  <2>2. CASE id = moved.id
    <3>1. 3 \in Slots /\ slot[3] = moved.id
      BY <1>1
    <3> QED
      BY <2>2, <3>1
  <2>3. CASE \E file \in Files : id = job.seen[file].id
    <3>1. 4 \in Slots /\ 5 \in Slots /\ slot[4] = job.seen["canonical"].id /\ slot[5] = job.seen["projection"].id
      BY <1>1
    <3> QED
      BY <2>3, <3>1 DEF Files
  <2>4. ASSUME NEW op \in Ops, id = bundle[op].id PROVE \E k \in Slots : slot[k] = id
    <3>1. op + 5 \in Slots /\ slot[op + 5] = bundle[op].id
      <4>1. op \in Nat /\ 1 <= op /\ op <= MaxOps
        BY <1>1 DEF Ops
      <4> QED
        BY <1>1, <4>1
    <3> QED
      BY <2>4, <3>1
  <2>5. ASSUME NEW op \in Ops, id = record[op] PROVE \E k \in Slots : slot[k] = id
    <3>1. op + 5 + MaxOps \in Slots /\ slot[op + 5 + MaxOps] = record[op]
      <4>1. op \in Nat /\ 1 <= op /\ op <= MaxOps
        BY <1>1 DEF Ops
      <4>2. op + 5 + MaxOps \in Slots /\ op + 5 + MaxOps > 5 + MaxOps /\ op + 5 + MaxOps - 5 - MaxOps = op
        BY <1>1, <4>1
      <4> QED
        BY <1>1, <4>1, <4>2
    <3> QED
      BY <2>5, <3>1
  <2> QED
    BY <2>1, <2>2, <2>3, <2>4, <2>5 DEF Remembered
<1> HIDE DEF slot
<1>4. f \in [Ids -> Slots] /\ \A id \in Ids : slot[f[id]] = id
  BY <1>2, <1>3
<1> HIDE DEF f
<1>5. /\ IsFiniteSet(Ids) /\ Cardinality(Ids) = 6 + 2 * MaxOps
      /\ IsFiniteSet(Slots) /\ Cardinality(Slots) = 5 + 2 * MaxOps
  BY <1>1, FS_Interval DEF Ids
<1>6. Cardinality(Slots) < Cardinality(Ids)
  BY <1>1, <1>5
<1> HIDE DEF Slots
<1>7. PICK x, y \in Ids : x # y /\ f[x] = f[y]
  BY <1>4, <1>5, <1>6, FS_PigeonHole
<1> QED
  BY <1>4, <1>7

-----------------------------------------------------------------------------
(* The migration: files, texts and calls *)

\* The fields of a file, and a file from its fields.
LEMMA EntryFields ==
  ASSUME NEW f \in Entries
  PROVE  f # Absent /\ f.text \in Texts /\ f.id \in Ids /\ f.by \in Ops \cup {0}
BY MigrationAssumption DEF Entries

LEMMA EntryMade ==
  ASSUME NEW text \in Texts, NEW id \in Ids, NEW by \in Ops \cup {0}
  PROVE  [text |-> text, id |-> id, by |-> by] \in Entries
BY DEF Entries

\* The fields of a call that runs.
LEMMA JobFields ==
  ASSUME MigrationTypeOK, Busy
  PROVE  /\ job \in Jobs /\ job.op \in Ops /\ job.action \in {"apply", "rollback"} /\ job.step \in Steps
         /\ job.seen \in [Files -> Entries \cup {Absent}]
BY DEF MigrationTypeOK, Busy, Jobs, Steps

\* The texts of a prepared operation.
LEMMA RetainedTexts ==
  ASSUME PreparedOK, NEW op \in Prepared
  PROVE  /\ op \in Ops /\ Retained(op) \subseteq Texts
         /\ Raw(op) # Canonical(op) /\ Raw(op) # Projection(op) /\ Canonical(op) # Projection(op)
<1>1. op \in Ops /\ Raw(op) \in Sources
  BY DEF Prepared, PreparedOK
<1>2. Canonical(op) \in Texts /\ Projection(op) \in Texts /\ Raw(op) \in Texts
  BY <1>1 DEF Canonical, Projection, Texts
<1>3. PICK n \in 0..MaxEdits : Raw(op) = <<"source", n>>
  BY <1>1 DEF Sources, Source
<1>4. Raw(op)[1] = "source" /\ Canonical(op)[1] = "canonical" /\ Projection(op)[1] = "projection"
  BY <1>3 DEF Canonical, Projection
<1> QED
  BY <1>1, <1>2, <1>4 DEF Retained

\* A file that a call makes has a fresh identity, and is the operation's.
LEMMA FileMade ==
  ASSUME MigrationTypeOK, Busy, NEW text \in Texts
  PROVE  /\ NewFile(text) \in Entries /\ NewFile(text).text = text
         /\ NewFile(text).id = FreshId /\ NewFile(text).by = job.op
BY FreshIdentity, EntryMade, JobFields DEF NewFile

\* A change of one file leaves the other.
LEMMA Changes ==
  ASSUME MigrationTypeOK, NEW file \in Files, NEW new \in Entries \cup {Absent}, Change(file, new)
  PROVE  /\ live' \in [Files -> Entries \cup {Absent}] /\ live'[file] = new
         /\ \A other \in Files : other # file => live'[other] = live[other]
BY DEF MigrationTypeOK, Change

\* A call that goes on is the same call at another step.
LEMMA Advances ==
  ASSUME MigrationTypeOK, Busy, NEW step \in Steps, Advance(step)
  PROVE  /\ job' \in Jobs /\ Busy' /\ job'.op = job.op /\ job'.action = job.action
         /\ job'.step = step /\ job'.seen = job.seen
<1>1. job' \in Jobs
  BY DEF MigrationTypeOK, Busy, Advance, Jobs, Steps
<1> QED
  BY <1>1, JobFields, MigrationAssumption DEF Advance, Busy, Jobs

\* So is one that captures the files again.
LEMMA Looks ==
  ASSUME MigrationTypeOK, Busy, NEW step \in Steps, Look(step)
  PROVE  /\ job' \in Jobs /\ Busy' /\ job'.op = job.op /\ job'.action = job.action
         /\ job'.step = step /\ job'.seen = live
<1>1. job' \in Jobs
  BY DEF MigrationTypeOK, Busy, Look, Jobs, Steps
<1> QED
  BY <1>1, JobFields, MigrationAssumption DEF Look, Busy, Jobs

LEMMA Starts ==
  ASSUME MigrationTypeOK, NEW op \in Ops, NEW action \in {"apply", "rollback"}, NEW step \in Steps,
         Start(op, action, step)
  PROVE  /\ job' \in Jobs /\ Busy' /\ job'.op = op /\ job'.action = action /\ job'.step = step /\ job'.seen = live
<1>1. job' \in Jobs
  BY DEF MigrationTypeOK, Start, Jobs, Steps
<1> QED
  BY <1>1, MigrationAssumption DEF Start, Busy

\* What is prepared stays, and so does what it retains.
LEMMA StaysPrepared ==
  ASSUME MigrationTypeOK, bundle' = bundle \/ \E op \in Ops : PrepareBundle(op)
  PROVE  \A op \in Prepared : op \in Prepared' /\ bundle'[op] = bundle[op] /\ Raw(op)' = Raw(op)
                              /\ Canonical(op)' = Canonical(op) /\ Projection(op)' = Projection(op)
                              /\ Retained(op)' = Retained(op)
<1>1. \A op \in Prepared : op \in Prepared' /\ bundle'[op] = bundle[op]
  BY DEF MigrationTypeOK, PrepareBundle, Prepared
<1> QED
  BY <1>1 DEF Raw, Canonical, Projection, Retained

\* There is a source and nothing else, and nobody runs.
LEMMA InitMigration == MigrationInit => MigrationInv
<1> SUFFICES ASSUME MigrationInit PROVE MigrationInv
  OBVIOUS
<1> USE MigrationAssumption
<1>1. Source(0) \in Sources /\ Source(0) \in Texts /\ 1 \in Ids
  BY DEF Sources, Texts, Ids
<1>2. [text |-> Source(0), id |-> 1, by |-> 0] \in Entries
  BY <1>1, EntryMade
<1>3. MigrationTypeOK
  <2>1. live \in [Files -> Entries \cup {Absent}] /\ latest \in [Files -> Texts \cup {Absent}]
    BY <1>1, <1>2 DEF MigrationInit
  <2>2. bundle \in [Ops -> Entries \cup {Absent}] /\ record \in [Ops -> Ids \cup {Absent, Torn}]
    BY DEF MigrationInit
  <2>3. edits \in 0..MaxEdits /\ faults \in 0..MaxFaults /\ calls \in Nat /\ guests = {} /\ adopted = {}
    BY DEF MigrationInit
  <2> QED
    BY <2>1, <2>2, <2>3 DEF MigrationInit, MigrationTypeOK
<1>4. Prepared = {} /\ ~Busy /\ moved = Absent
  BY DEF MigrationInit, Prepared, Busy
<1>5. PreparedOK /\ CallOK /\ StepMine
  BY <1>4 DEF PreparedOK, CallOK, LockHeld, JobKnown, MovedOK, PublishOK, StepMine, At, MigrationInit
<1>6. Recorded
  BY DEF MigrationInit, Recorded, Files
<1>7. ASSUME NEW file \in Files PROVE LastKept(file)
  BY <1>2, EntryFields DEF MigrationInit, LastKept
<1> QED
  BY <1>3, <1>5, <1>6, <1>7 DEF MigrationInv

\* The last text of others stays kept if it stays where it is, or moves to the next of those places.
LEMMA StaysKept ==
  ASSUME MigrationInv, NEW file \in Files, latest'[file] = latest[file], aside \subseteq aside', bundle' = bundle,
         live[file] # Absent =>
           \/ live'[file] # Absent /\ live'[file].text = live[file].text
           \/ moved' # Absent /\ Place' = file /\ moved'.text = live[file].text,
         moved # Absent /\ Place = file =>
           \/ moved' # Absent /\ Place' = file /\ moved'.text = moved.text
           \/ live'[file] # Absent /\ live'[file].text = moved.text
           \/ [file |-> file, text |-> moved.text] \in aside'
           \/ \E op \in Prepared : moved.text \in Retained(op)
  PROVE  LastKept(file)'
<1>1. \A op \in Prepared : op \in Prepared' /\ Retained(op)' = Retained(op)
  BY StaysPrepared DEF MigrationInv
<1>2. LastKept(file)
  BY DEF MigrationInv
<1> QED
  BY <1>1, <1>2 DEF LastKept

\* Without a new bundle what is prepared keeps its source.
LEMMA SameBundles ==
  ASSUME PreparedOK, bundle' = bundle
  PROVE  PreparedOK' /\ Prepared' = Prepared /\ \A op \in Ops : Retained(op)' = Retained(op) /\ Raw(op)' = Raw(op)
BY DEF PreparedOK, Prepared, Retained, Raw, Canonical, Projection

\* A call is somewhere else, and nothing else has changed.
LEMMA QuietStep ==
  ASSUME MigrationInv, UNCHANGED <<live, moved, aside, evidence, lock, world, calls, faults, manual>>,
         Busy, job.step \notin {"publish", "compare"},
         job' \in Jobs, Busy', job'.op = job.op, job'.action = job.action,
         job'.step \in {"create", "record", "replace"} => job.action = "apply",
         job'.step \in {"replaced", "withdraw", "rename"} => job.action = "rollback", job'.step # "compare",
         PublishOK', StepMine'
  PROVE  MigrationInv'
<1>1. moved = Absent
  BY DEF MigrationInv, CallOK, MovedOK
<1>2. UNCHANGED <<live, moved, aside, bundle, record, receipts, torn, lock, latest, edits, calls, faults, manual>>
      /\ UNCHANGED <<guests, adopted>>
  BY DEF evidence, world
<1>3. MigrationTypeOK'
  BY <1>2 DEF MigrationInv, MigrationTypeOK
<1>4. PreparedOK' /\ Prepared' = Prepared
  BY <1>2, SameBundles DEF MigrationInv
<1>5. JobKnown'
  BY <1>2, <1>4 DEF MigrationInv, CallOK, JobKnown, Has
<1>6. LockHeld' /\ MovedOK'
  BY <1>1, <1>2 DEF MigrationInv, CallOK, LockHeld, MovedOK
<1>7. Recorded'
  BY <1>2 DEF MigrationInv, Recorded
<1>8. \A file \in Files : LastKept(file)'
  BY <1>1, <1>2, StaysKept
<1> QED
  BY <1>3, <1>4, <1>5, <1>6, <1>7, <1>8 DEF MigrationInv, CallOK

\* A rollback only starts on a source or a projection of the operation: that is what it may publish over.
LEMMA CheckStartStep == MigrationInv /\ CheckStart => MigrationInv'
<1> SUFFICES ASSUME MigrationInv, CheckStart PROVE MigrationInv'
  OBVIOUS
<1> DEFINE step == IF job.action = "apply" THEN "create"
                   ELSE IF Holds("projection", Raw(job.op)) THEN "replaced" ELSE "publish"
<1>1. Busy /\ job.step = "start" /\ step \in Steps /\ Advance(step)
      /\ UNCHANGED <<live, moved, aside, evidence, lock, world, calls, faults, manual>>
  BY DEF CheckStart, Steps
<1>2. /\ job' \in Jobs /\ Busy' /\ job'.op = job.op /\ job'.action = job.action
      /\ job'.step = step /\ job'.seen = job.seen
  BY <1>1, Advances DEF MigrationInv
<1>3. job.action \in {"apply", "rollback"} /\ moved = Absent /\ job.op \in Ops
  BY <1>1, JobFields DEF MigrationInv, CallOK, MovedOK
<1>4. Retained(job.op)' = Retained(job.op)
  BY <1>1, <1>2, <1>3, SameBundles DEF MigrationInv, evidence
<1>5. PublishOK'
  BY <1>1, <1>2, <1>3, <1>4 DEF PublishOK, SeenRetained, At, MigrationInv, CallOK
<1>6. StepMine'
  BY <1>2 DEF StepMine, At
<1> QED
  BY <1>1, <1>2, <1>3, <1>5, <1>6, QuietStep DEF At

\* An application replaces the very source that was prepared.
LEMMA CheckReplaceStep == MigrationInv /\ CheckReplace => MigrationInv'
<1> SUFFICES ASSUME MigrationInv, CheckReplace PROVE MigrationInv'
  OBVIOUS
<1> DEFINE step == IF Replaced THEN "verify" ELSE "publish"
<1>1. Busy /\ job.action = "apply" /\ job.step = "replace" /\ step \in Steps /\ Advance(step) /\ MayReplace
      /\ UNCHANGED <<live, moved, aside, evidence, lock, world, calls, faults, manual>>
  BY DEF CheckReplace, At, Steps
<1>2. /\ job' \in Jobs /\ Busy' /\ job'.op = job.op /\ job'.action = job.action
      /\ job'.step = step /\ job'.seen = job.seen
  BY <1>1, Advances DEF MigrationInv
<1>3. job.op \in Prepared /\ job.op \in Ops /\ moved = Absent
  BY <1>1, JobFields DEF MigrationInv, CallOK, MovedOK, JobKnown
<1>4. Retained(job.op)' = Retained(job.op)
  BY <1>1, <1>2, <1>3, SameBundles DEF MigrationInv, evidence
<1>5. step = "publish" => SeenRetained
  BY <1>1, <1>3 DEF MayReplace, SeenRetained, Prepared, Retained, Raw
<1>6. PublishOK'
  BY <1>1, <1>2, <1>3, <1>4, <1>5 DEF PublishOK, SeenRetained, At
<1>7. StepMine'
  BY <1>2 DEF StepMine, At
<1> QED
  BY <1>1, <1>2, <1>6, <1>7, QuietStep DEF At

\* The record tells the operation's file from any other: identities are fresh.
LEMMA CheckReplacedStep == MigrationInv /\ CheckReplaced => MigrationInv'
<1> SUFFICES ASSUME MigrationInv, CheckReplaced PROVE MigrationInv'
  OBVIOUS
<1> DEFINE step == IF live["canonical"] = Absent THEN "verify" ELSE "withdraw"
<1>1. Busy /\ job.action = "rollback" /\ job.step = "replaced" /\ step \in Steps /\ Advance(step)
      /\ UNCHANGED <<live, moved, aside, evidence, lock, world, calls, faults, manual>>
  BY DEF CheckReplaced, At, Steps
<1>2. /\ job' \in Jobs /\ Busy' /\ job'.op = job.op /\ job'.action = job.action
      /\ job'.step = step /\ job'.seen = job.seen
  BY <1>1, Advances DEF MigrationInv
<1>3. live["canonical"] # Absent => Mine(live["canonical"], job.op)
  <2>1. job.op \in Ops
    BY <1>1, JobFields DEF MigrationInv
  <2> QED
    BY <2>1 DEF CheckReplaced, Owned, MigrationInv, Recorded, Mine
<1>4. StepMine'
  BY <1>1, <1>2, <1>3 DEF StepMine, At, Mine, evidence, world
<1>5. PublishOK'
  BY <1>2 DEF PublishOK, At
<1> QED
  BY <1>1, <1>2, <1>4, <1>5, QuietStep DEF At

\* By its bytes the file may have become another; then it is a guest, that others have put there during this rollback.
LEMMA CaptureWithdrawnStep == MigrationInv /\ CaptureWithdrawn => MigrationInv'
<1> SUFFICES ASSUME MigrationInv, CaptureWithdrawn PROVE MigrationInv'
  OBVIOUS
<1>1. Busy /\ job.action = "rollback" /\ job.step = "withdraw" /\ Look("rename")
      /\ UNCHANGED <<live, moved, aside, evidence, lock, world, calls, faults, manual>>
  BY DEF CaptureWithdrawn, At
<1>2. /\ job' \in Jobs /\ Busy' /\ job'.op = job.op /\ job'.action = job.action
      /\ job'.step = "rename" /\ job'.seen = live
  BY <1>1, Looks DEF MigrationInv, Steps
<1>3. StepMine'
  BY <1>1, <1>2 DEF MigrationInv, StepMine, At, Mine, evidence, world
<1>4. PublishOK'
  BY <1>2 DEF PublishOK, At
<1> QED
  BY <1>1, <1>2, <1>3, <1>4, QuietStep DEF At

\* The last look changes nothing.
LEMMA VerifyStep == MigrationInv /\ VerifyOutputs => MigrationInv'
<1> SUFFICES ASSUME MigrationInv, VerifyOutputs PROVE MigrationInv'
  OBVIOUS
<1>1. Busy /\ job.step = "verify" /\ Look("receipt")
      /\ UNCHANGED <<live, moved, aside, evidence, lock, world, calls, faults, manual>>
  BY DEF VerifyOutputs
<1>2. /\ job' \in Jobs /\ Busy' /\ job'.op = job.op /\ job'.action = job.action
      /\ job'.step = "receipt" /\ job'.seen = live
  BY <1>1, Looks DEF MigrationInv, Steps
<1>3. StepMine' /\ PublishOK'
  BY <1>2 DEF StepMine, PublishOK, At
<1> QED
  BY <1>1, <1>2, <1>3, QuietStep DEF At

-----------------------------------------------------------------------------
(* The migration: calls that begin and end *)

\* A new bundle retains a source, and nobody has recorded anything for it.
LEMMA PrepareStep == ASSUME MigrationInv, NEW op \in Ops, PrepareBundle(op) PROVE MigrationInv'
<1>1. /\ UNCHANGED <<live, moved, aside, record, receipts, torn, lock, job, latest, edits, calls, faults, manual>>
      /\ UNCHANGED <<guests, adopted>>
      /\ lock = "free" /\ op \notin Prepared /\ live["projection"] \in Entries
      /\ live["projection"].text \in Sources
      /\ bundle' = [bundle EXCEPT ![op] = live["projection"]]
  BY DEF PrepareBundle, MigrationInv, MigrationTypeOK, Files, world
<1>2. ~Busy /\ ~Busy' /\ moved = Absent /\ moved' = Absent
  BY <1>1 DEF MigrationInv, CallOK, LockHeld, MovedOK, Busy
<1>3. MigrationTypeOK'
  BY <1>1 DEF MigrationInv, MigrationTypeOK
<1>4. PreparedOK'
  BY <1>1 DEF MigrationInv, MigrationTypeOK, PreparedOK, Prepared, Raw
<1>5. CallOK' /\ StepMine'
  BY <1>1, <1>2 DEF MigrationInv, CallOK, LockHeld, JobKnown, MovedOK, PublishOK, StepMine, At
<1>6. Recorded'
  BY <1>1 DEF MigrationInv, Recorded
<1>7. ASSUME NEW file \in Files PROVE LastKept(file)'
  <2>1. \A o \in Prepared : o \in Prepared' /\ Retained(o)' = Retained(o)
    BY StaysPrepared DEF MigrationInv
  <2>2. LastKept(file)
    BY DEF MigrationInv
  <2> QED
    BY <1>1, <1>2, <2>1, <2>2 DEF LastKept
<1> QED
  BY <1>3, <1>4, <1>5, <1>6, <1>7 DEF MigrationInv

\* A call that starts: it sees the files as they are.
LEMMA StartStep ==
  ASSUME MigrationInv, NEW op \in Prepared, NEW action \in {"apply", "rollback"}, NEW step \in {"start", "replace"},
         Start(op, action, step), calls' \in Nat,
         action = "apply" => ~Has(op, "rolled-back"), step = "replace" => action = "apply",
         action = "rollback" => live["projection"] # Absent /\ live["projection"].text \in Retained(op)
  PROVE  MigrationInv'
<1>1. op \in Ops /\ step \in Steps
  BY DEF Prepared, Steps
<1>2. job' \in Jobs /\ Busy' /\ job'.op = op /\ job'.action = action /\ job'.step = step /\ job'.seen = live
  BY <1>1, Starts DEF MigrationInv
<1>3. /\ UNCHANGED <<live, moved, aside, bundle, record, receipts, torn, latest, edits, adopted, faults, manual>>
      /\ lock = "free" /\ lock' = "held" /\ guests' = {}
  BY DEF Start, evidence
<1>4. ~Busy /\ moved = Absent /\ moved' = Absent
  BY <1>3 DEF MigrationInv, CallOK, LockHeld, MovedOK
<1>5. MigrationTypeOK'
  BY <1>2, <1>3 DEF MigrationInv, MigrationTypeOK
<1>6. PreparedOK' /\ Prepared' = Prepared /\ Retained(op)' = Retained(op)
  BY <1>1, <1>3, SameBundles DEF MigrationInv
<1>7. LockHeld' /\ JobKnown' /\ MovedOK'
  BY <1>2, <1>3, <1>4, <1>6 DEF LockHeld, JobKnown, MovedOK, Has
<1>8. PublishOK' /\ StepMine'
  BY <1>2, <1>3, <1>6 DEF PublishOK, StepMine, SeenRetained, At
<1>9. Recorded'
  BY <1>3 DEF MigrationInv, Recorded
<1>10. \A file \in Files : LastKept(file)'
  BY <1>3, <1>4, StaysKept
<1> QED
  BY <1>5, <1>6, <1>7, <1>8, <1>9, <1>10 DEF MigrationInv, CallOK

\* The guards of an application and of a rollback are what a call that starts has to know.
LEMMA ApplyStep == ASSUME MigrationInv, NEW op \in Ops, ApplyBundle(op) PROVE MigrationInv'
<1>1. /\ op \in Prepared /\ ~Has(op, "rolled-back") /\ calls' \in Nat
      /\ Start(op, "apply", IF live["canonical"] = Absent THEN "start" ELSE "replace")
  BY DEF ApplyBundle, MayApply, MigrationInv, MigrationTypeOK
<1> QED
  BY <1>1, StartStep

LEMMA RollbackStep == ASSUME MigrationInv, NEW op \in Ops, RollbackBundle(op) PROVE MigrationInv'
<1>1. op \in Prepared /\ calls' \in Nat /\ Start(op, "rollback", "start") /\ MayRollback(op)
  BY DEF RollbackBundle, MigrationInv, MigrationTypeOK
<1>2. live["projection"] # Absent /\ live["projection"].text \in Retained(op)
  BY <1>1 DEF MayRollback, Holds, Retained
<1> QED
  BY <1>1, <1>2, StartStep

-----------------------------------------------------------------------------
(* The migration: calls that write *)

\* A call that goes on, whatever it has written.
LEMMA WorkStep ==
  ASSUME MigrationInv, Busy, UNCHANGED <<bundle, receipts, torn, lock, latest, edits, guests, calls, faults, manual>>,
         adopted' \subseteq Ops,
         live' \in [Files -> Entries \cup {Absent}], moved' \in Entries \cup {Absent},
         aside' \subseteq [file : Files, text : Texts], record' \in [Ops -> Ids \cup {Absent, Torn}],
         job' \in Jobs, Busy', job'.op = job.op, job'.action = job.action,
         job'.step \in {"create", "record", "replace"} => job.action = "apply",
         job'.step \in {"replaced", "withdraw", "rename", "compare"} => job.action = "rollback",
         MovedOK', PublishOK', StepMine', Recorded', \A file \in Files : LastKept(file)'
  PROVE  MigrationInv'
<1>1. MigrationTypeOK'
  BY DEF MigrationInv, MigrationTypeOK
<1>2. PreparedOK' /\ Prepared' = Prepared
  BY SameBundles DEF MigrationInv
<1>3. JobKnown' /\ LockHeld'
  BY <1>2 DEF MigrationInv, CallOK, JobKnown, LockHeld, Has
<1> QED
  BY <1>1, <1>2, <1>3 DEF MigrationInv, CallOK

\* The canonical file that a call makes is the operation's, and no older record has its identity.
LEMMA CreateStep == MigrationInv /\ Create => MigrationInv'
<1> SUFFICES ASSUME MigrationInv, Create PROVE MigrationInv'
  OBVIOUS
<1> DEFINE new == NewFile(Canonical(job.op))
<1>1. /\ Busy /\ job.action = "apply" /\ job.step = "create" /\ live["canonical"] = Absent
      /\ Change("canonical", new) /\ Advance("record")
      /\ UNCHANGED <<moved, aside, evidence, lock, world, calls, faults, manual>>
  BY DEF Create, At
<1>2. UNCHANGED <<moved, aside, bundle, record, receipts, torn, lock, latest, edits, guests, adopted, calls, faults, manual>>
  BY <1>1 DEF evidence, world
<1>3. /\ job' \in Jobs /\ Busy' /\ job'.op = job.op /\ job'.action = job.action
      /\ job'.step = "record" /\ job'.seen = job.seen
  BY <1>1, Advances DEF MigrationInv, Steps
<1>4. job.op \in Prepared /\ moved = Absent
  BY <1>1 DEF MigrationInv, CallOK, MovedOK, JobKnown
<1>5. new \in Entries /\ new.id = FreshId /\ new.by = job.op
  BY <1>1, <1>4, RetainedTexts, FileMade DEF MigrationInv, Retained
<1> HIDE DEF new
<1>6. /\ live' \in [Files -> Entries \cup {Absent}] /\ live'["canonical"] = new
      /\ live'["projection"] = live["projection"]
  BY <1>1, <1>5, Changes DEF MigrationInv, Files
<1>7. MigrationTypeOK
  BY DEF MigrationInv
<1>8. Recorded'
  <2>1. \A op \in Ops : FreshId # record[op]
    BY <1>7, FreshIdentity DEF Remembered
  <2> QED
    BY <1>2, <1>5, <1>6, <2>1 DEF Recorded
<1>9. StepMine'
  BY <1>3, <1>5, <1>6 DEF StepMine, At, Mine
<1>10. PublishOK' /\ MovedOK'
  BY <1>2, <1>3, <1>4 DEF PublishOK, MovedOK, At
<1>11. \A file \in Files : LastKept(file)'
  BY <1>1, <1>2, <1>4, <1>6, StaysKept DEF Files
<1> QED
  BY <1>1, <1>2, <1>3, <1>6, <1>7, <1>8, <1>9, <1>10, <1>11, WorkStep DEF MigrationTypeOK

\* The recorded identity is of what the path holds then: the operation's own file, or one that others have put there
\* during this very application, which it adopts for its bytes.
LEMMA RecordStep == MigrationInv /\ Record => MigrationInv'
<1> SUFFICES ASSUME MigrationInv, Record PROVE MigrationInv'
  OBVIOUS
<1>1. /\ Busy /\ job.action = "apply" /\ job.step = "record" /\ live["canonical"] # Absent
      /\ record[job.op] = Absent /\ record' = [record EXCEPT ![job.op] = live["canonical"].id] /\ Look("replace")
      /\ adopted' = IF live["canonical"] \in guests THEN adopted \cup {job.op} ELSE adopted
      /\ UNCHANGED <<live, moved, aside, bundle, receipts, torn, lock, latest, edits, guests, calls, faults, manual>>
  BY DEF Record, At, Holds
<1>2. MigrationTypeOK /\ job.op \in Ops /\ moved = Absent
  BY <1>1, JobFields DEF MigrationInv, CallOK, MovedOK
<1>3. /\ job' \in Jobs /\ Busy' /\ job'.op = job.op /\ job'.action = job.action
      /\ job'.step = "replace" /\ job'.seen = live
  BY <1>1, <1>2, Looks DEF Steps
<1>4. live["canonical"] \in Entries /\ live["canonical"].id \in Ids
  BY <1>1, <1>2, EntryFields DEF MigrationTypeOK, Files
<1>5. record' \in [Ops -> Ids \cup {Absent, Torn}] /\ adopted' \subseteq Ops
  BY <1>1, <1>2, <1>4 DEF MigrationTypeOK
<1>6. Recorded'
  <2>1. live["canonical"].by = job.op \/ job.op \in adopted'
    <3>1. Mine(live["canonical"], job.op)
      BY <1>1 DEF MigrationInv, StepMine, At
    <3> QED
      BY <1>1, <1>4, <3>1, MigrationAssumption DEF Mine
  <2>2. \A op \in Ops : op # job.op => record'[op] = record[op]
    BY <1>1, <1>2 DEF MigrationTypeOK
  <2>3. adopted \subseteq adopted'
    BY <1>1
  <2> QED
    BY <1>1, <2>1, <2>2, <2>3 DEF MigrationInv, Recorded
<1>7. StepMine' /\ PublishOK' /\ MovedOK'
  BY <1>1, <1>2, <1>3 DEF StepMine, PublishOK, MovedOK, At
<1>8. \A file \in Files : LastKept(file)'
  BY <1>1, <1>2, StaysKept
<1> QED
  BY <1>1, <1>2, <1>3, <1>5, <1>6, <1>7, <1>8, WorkStep DEF MigrationTypeOK

\* What the publication moves away is what the call has seen, and so a retained text.
LEMMA TakeStep == MigrationInv /\ Take => MigrationInv'
<1> SUFFICES ASSUME MigrationInv, Take PROVE MigrationInv'
  OBVIOUS
<1>1. /\ Busy /\ job.step = "publish" /\ moved = Absent /\ live["projection"] = job.seen["projection"]
      /\ Change("projection", Absent) /\ moved' = live["projection"]
      /\ UNCHANGED <<aside, bundle, record, receipts, torn, lock, job, latest, edits, guests, adopted, calls, faults, manual>>
  BY DEF Take, Publishing, evidence, world
<1>2. MigrationTypeOK /\ job \in Jobs /\ job.op \in Prepared /\ job.op \in Ops
  BY <1>1, JobFields DEF MigrationInv, CallOK, JobKnown
<1>3. /\ live' \in [Files -> Entries \cup {Absent}] /\ live'["projection"] = Absent
      /\ live'["canonical"] = live["canonical"]
  BY <1>1, <1>2, Changes DEF Files
<1>4. SeenRetained /\ moved' # Absent /\ moved' \in Entries
  BY <1>1, <1>2 DEF MigrationInv, CallOK, PublishOK, SeenRetained, MigrationTypeOK, Files
<1>5. Retained(job.op)' = Retained(job.op)
  BY <1>1, <1>2, SameBundles DEF MigrationInv
<1>6. PublishOK' /\ MovedOK' /\ StepMine' /\ Busy'
  BY <1>1, <1>4, <1>5 DEF PublishOK, MovedOK, StepMine, SeenRetained, At, Busy
<1>7. Recorded'
  BY <1>1, <1>3 DEF MigrationInv, Recorded
<1>8. \A file \in Files : LastKept(file)'
  <2>1. Place = "projection" /\ Place' = "projection"
    BY <1>1 DEF Place
  <2> QED
    BY <1>1, <1>3, <1>4, <2>1, StaysKept DEF Files
<1>9. /\ job.step \notin {"create", "record", "replace"} /\ job.step \notin {"replaced", "withdraw", "rename", "compare"}
  BY <1>1
<1> QED
  BY <1>1, <1>2, <1>3, <1>4, <1>6, <1>7, <1>8, <1>9, WorkStep DEF MigrationTypeOK

\* That text is dropped because it is retained.
LEMMA PutStep == MigrationInv /\ Put => MigrationInv'
<1> SUFFICES ASSUME MigrationInv, Put PROVE MigrationInv'
  OBVIOUS
<1> DEFINE step == IF job.action = "apply" THEN "verify" ELSE "replaced"
<1>1. /\ Busy /\ job.step = "publish" /\ moved # Absent /\ live["projection"] = Absent
      /\ Change("projection", NewFile(Text)) /\ moved' = Absent /\ Advance(step) /\ step \in Steps
      /\ UNCHANGED <<aside, bundle, record, receipts, torn, lock, latest, edits, guests, adopted, calls, faults, manual>>
  BY DEF Put, Publishing, evidence, world, Steps
<1>2. MigrationTypeOK /\ job.op \in Prepared /\ job.op \in Ops /\ job.action \in {"apply", "rollback"}
  BY <1>1, JobFields DEF MigrationInv, CallOK, JobKnown
<1>3. /\ job' \in Jobs /\ Busy' /\ job'.op = job.op /\ job'.action = job.action /\ job'.step = step
  BY <1>1, <1>2, Advances
<1>4. Text \in Texts
  BY <1>2, RetainedTexts DEF MigrationInv, Text, Retained
<1>5. NewFile(Text) \in Entries
  BY <1>1, <1>2, <1>4, FileMade
<1>6. live' \in [Files -> Entries \cup {Absent}] /\ live'["canonical"] = live["canonical"]
  BY <1>1, <1>2, <1>5, Changes DEF Files
<1>7. PublishOK' /\ MovedOK' /\ StepMine'
  BY <1>1, <1>3 DEF PublishOK, MovedOK, StepMine, At
<1>8. Recorded'
  BY <1>1, <1>6 DEF MigrationInv, Recorded
<1>9. \A file \in Files : LastKept(file)'
  <2>1. Place = "projection"
    BY <1>1 DEF Place
  <2>2. moved.text \in Retained(job.op)
    BY <1>1 DEF MigrationInv, CallOK, PublishOK, SeenRetained
  <2> QED
    BY <1>1, <1>2, <1>6, <2>1, <2>2, StaysKept DEF Files
<1>10. moved' \in Entries \cup {Absent}
  BY <1>1
<1> QED
  BY <1>1, <1>2, <1>3, <1>6, <1>7, <1>8, <1>9, <1>10, WorkStep DEF MigrationTypeOK

\* Whatever is moved to the archive is still to be compared.
LEMMA WithdrawStep == MigrationInv /\ WithdrawCanonical => MigrationInv'
<1> SUFFICES ASSUME MigrationInv, WithdrawCanonical PROVE MigrationInv'
  OBVIOUS
<1>1. /\ Busy /\ job.action = "rollback" /\ job.step = "rename" /\ live["canonical"] # Absent
      /\ Change("canonical", Absent) /\ moved' = live["canonical"] /\ Advance("compare")
      /\ UNCHANGED <<aside, bundle, record, receipts, torn, lock, latest, edits, guests, adopted, calls, faults, manual>>
  BY DEF WithdrawCanonical, At, evidence, world
<1>2. MigrationTypeOK /\ moved = Absent
  BY <1>1 DEF MigrationInv, CallOK, MovedOK
<1>3. /\ job' \in Jobs /\ Busy' /\ job'.op = job.op /\ job'.action = job.action
      /\ job'.step = "compare" /\ job'.seen = job.seen
  BY <1>1, <1>2, Advances DEF Steps
<1>4. /\ live' \in [Files -> Entries \cup {Absent}] /\ live'["canonical"] = Absent
      /\ live'["projection"] = live["projection"] /\ moved' \in Entries
  BY <1>1, <1>2, Changes DEF Files, MigrationTypeOK
<1>5. StepMine'
  BY <1>1, <1>3 DEF MigrationInv, StepMine, At, Mine
<1>6. PublishOK' /\ MovedOK' /\ Recorded'
  BY <1>1, <1>3, <1>4 DEF PublishOK, MovedOK, Recorded, At
<1>7. \A file \in Files : LastKept(file)'
  <2>1. Place' = "canonical"
    BY <1>3 DEF Place
  <2> QED
    BY <1>1, <1>2, <1>4, <2>1, StaysKept DEF Files
<1> QED
  BY <1>1, <1>2, <1>3, <1>4, <1>5, <1>6, <1>7, WorkStep DEF MigrationTypeOK

\* What a call leaves beside its path or in the archive.
LEMMA LeftAside ==
  ASSUME MigrationTypeOK, NEW file \in Files, moved # Absent,
         aside' = aside \cup {[file |-> file, text |-> moved.text]}
  PROVE  aside' \subseteq [file : Files, text : Texts] /\ [file |-> file, text |-> moved.text] \in aside'
BY EntryFields DEF MigrationTypeOK

\* What stays in the archive can be found there.
LEMMA CompareStep == MigrationInv /\ CompareWithdrawn => MigrationInv'
<1> SUFFICES ASSUME MigrationInv, CompareWithdrawn PROVE MigrationInv'
  OBVIOUS
<1>1. /\ Busy /\ job.step = "compare" /\ moved' = Absent /\ Advance("verify")
      /\ aside' = aside \cup {[file |-> "canonical", text |-> moved.text]}
      /\ UNCHANGED <<live, bundle, record, receipts, torn, lock, latest, edits, guests, adopted, calls, faults, manual>>
  BY DEF CompareWithdrawn, At, evidence, world
<1>2. MigrationTypeOK /\ moved # Absent
  BY <1>1 DEF MigrationInv, CallOK, MovedOK
<1>3. /\ job' \in Jobs /\ Busy' /\ job'.op = job.op /\ job'.action = job.action /\ job'.step = "verify"
  BY <1>1, <1>2, Advances DEF Steps
<1>4. aside' \subseteq [file : Files, text : Texts] /\ [file |-> "canonical", text |-> moved.text] \in aside'
  BY <1>1, <1>2, LeftAside DEF Files
<1>5. StepMine' /\ PublishOK' /\ MovedOK'
  BY <1>1, <1>3 DEF StepMine, PublishOK, MovedOK, At
<1>6. Recorded'
  BY <1>1 DEF MigrationInv, Recorded
<1>7. \A file \in Files : LastKept(file)'
  <2>1. Place = "canonical"
    BY <1>1 DEF Place
  <2>2. aside \subseteq aside'
    BY <1>1
  <2> QED
    BY <1>1, <1>4, <2>1, <2>2, StaysKept
<1>8. moved' \in Entries \cup {Absent}
  BY <1>1
<1> QED
  BY <1>1, <1>2, <1>3, <1>4, <1>5, <1>6, <1>7, <1>8, WorkStep DEF MigrationTypeOK

\* A call that ends or dies, whatever it has left.
LEMMA EndStep ==
  ASSUME MigrationInv, Busy, Ends, lock' \in {"free", "orphan"}, UNCHANGED <<bundle, latest, edits, adopted>>,
         live' \in [Files -> Entries \cup {Absent}], aside' \subseteq [file : Files, text : Texts],
         record' \in [Ops -> Ids \cup {Absent, Torn}],
         receipts' \subseteq Ops \X {"applied", "rolled-back"}, torn' \subseteq Ops \X {"applied", "rolled-back"},
         calls' = calls, faults' \in 0..MaxFaults, manual' \in BOOLEAN,
         Recorded', \A file \in Files : LastKept(file)'
  PROVE  MigrationInv'
<1>1. job' = Idle /\ moved' = Absent /\ guests' = {}
  BY DEF Ends
<1>2. MigrationTypeOK'
  BY <1>1 DEF MigrationInv, MigrationTypeOK
<1>3. PreparedOK'
  BY <1>1, SameBundles DEF MigrationInv
<1>4. CallOK' /\ StepMine'
  BY <1>1 DEF CallOK, LockHeld, JobKnown, MovedOK, PublishOK, StepMine, At, Busy
<1> QED
  BY <1>2, <1>3, <1>4 DEF MigrationInv

\* A receipt ends the call, which holds nothing then.
LEMMA ReceiptStep == MigrationInv /\ Receipt => MigrationInv'
<1> SUFFICES ASSUME MigrationInv, Receipt PROVE MigrationInv'
  OBVIOUS
<1>1. /\ Busy /\ job.step = "receipt" /\ receipts' = receipts \cup {<<job.op, Name>>} /\ Ends /\ lock' = "free"
      /\ UNCHANGED <<live, aside, bundle, record, torn, latest, edits, adopted, calls, faults, manual>>
  BY DEF Receipt
<1>2. MigrationTypeOK /\ moved = Absent /\ moved' = Absent /\ job.op \in Ops
  BY <1>1, JobFields DEF MigrationInv, CallOK, MovedOK, Ends
<1>3. receipts' \subseteq Ops \X {"applied", "rolled-back"}
  BY <1>1, <1>2 DEF MigrationTypeOK, Name
<1>4. Recorded'
  BY <1>1 DEF MigrationInv, Recorded
<1>5. \A file \in Files : LastKept(file)'
  BY <1>1, <1>2, StaysKept
<1> QED
  BY <1>1, <1>2, <1>3, <1>4, <1>5, EndStep DEF MigrationTypeOK, Ends

\* The record and the receipt that an end may leave unfinished.
LEMMA Tears ==
  ASSUME MigrationInv, MayTear
  PROVE  /\ record' \in [Ops -> Ids \cup {Absent, Torn}] /\ torn' \subseteq Ops \X {"applied", "rolled-back"}
         /\ \A op \in Ops : record'[op] \in {record[op], Torn}
<1>1. MigrationTypeOK
  BY DEF MigrationInv
<1>2. CASE UNCHANGED <<record, torn>>
  BY <1>1, <1>2 DEF MigrationTypeOK
<1>3. CASE Busy /\ record' = [record EXCEPT ![job.op] = Torn] /\ UNCHANGED torn
  BY <1>1, <1>3 DEF MigrationTypeOK
<1>4. CASE Busy /\ torn' = torn \cup {<<job.op, Name>>} /\ UNCHANGED record
  BY <1>1, <1>4, JobFields DEF MigrationTypeOK, Name
<1> QED
  BY <1>2, <1>3, <1>4 DEF MayTear

\* What was moved returns to its path as another identity,
LEMMA Returns ==
  ASSUME MigrationInv, Busy, Return, Ends, UNCHANGED <<bundle, latest, edits, adopted>>,
         \A op \in Ops : record'[op] \in {record[op], Torn}
  PROVE  live' \in [Files -> Entries \cup {Absent}] /\ Recorded' /\ \A file \in Files : LastKept(file)'
<1> DEFINE new == [moved EXCEPT !.id = FreshId]
<1>1. /\ moved # Absent /\ live[Place] = Absent /\ Change(Place, new) /\ aside' = aside /\ moved' = Absent
      /\ bundle' = bundle /\ latest' = latest
  BY DEF Return, MayReturn, Ends
<1>2. MigrationTypeOK /\ Place \in Files
  BY DEF MigrationInv, Place, Files
<1>3. moved \in Entries /\ FreshId \in Ids /\ FreshId \notin Remembered
  BY <1>1, <1>2, FreshIdentity DEF MigrationTypeOK
<1>4. new \in Entries /\ new.text = moved.text /\ new.id = FreshId
  BY <1>3 DEF Entries
<1> HIDE DEF new
<1>5. /\ live' \in [Files -> Entries \cup {Absent}] /\ live'[Place] = new
      /\ \A file \in Files : file # Place => live'[file] = live[file]
  BY <1>1, <1>2, <1>4, Changes
<1>6. Recorded'
  <2>1. \A op \in Ops : record[op] # FreshId /\ Torn # FreshId
    BY <1>3, MigrationAssumption DEF Remembered
  <2>2. CASE Place = "canonical"
    BY <1>4, <1>5, <2>1, <2>2 DEF Recorded
  <2>3. CASE Place # "canonical"
    <3>1. live'["canonical"] = live["canonical"]
      BY <1>5, <2>3 DEF Files
    <3>2. live["canonical"] # Absent => live["canonical"].id # Torn
      BY <1>2, EntryFields, MigrationAssumption DEF MigrationTypeOK, Files
    <3> QED
      BY <3>1, <3>2 DEF MigrationInv, Recorded
  <2> QED
    BY <2>2, <2>3
<1>7. ASSUME NEW file \in Files PROVE LastKept(file)'
  <2>1. live'[Place] # Absent
    BY <1>4, <1>5, EntryFields
  <2> QED
    BY <1>1, <1>4, <1>5, <2>1, StaysKept
<1> QED
  BY <1>5, <1>6, <1>7

\* or is left beside it, or in the archive.
LEMMA Stays ==
  ASSUME MigrationInv, Busy, Stay, Ends, UNCHANGED <<bundle, latest, edits, adopted>>,
         \A op \in Ops : record'[op] \in {record[op], Torn}
  PROVE  /\ aside' \subseteq [file : Files, text : Texts] /\ manual' \in BOOLEAN
         /\ Recorded' /\ \A file \in Files : LastKept(file)'
<1>1. /\ live' = live /\ moved' = Absent /\ bundle' = bundle /\ latest' = latest
      /\ aside' = IF moved = Absent THEN aside ELSE aside \cup {[file |-> Place, text |-> moved.text]}
      /\ manual' \in BOOLEAN
  BY DEF Stay, Ends
<1>2. MigrationTypeOK /\ Place \in Files
  BY DEF MigrationInv, Place, Files
<1>3. /\ aside \subseteq aside' /\ aside' \subseteq [file : Files, text : Texts]
      /\ moved # Absent => [file |-> Place, text |-> moved.text] \in aside'
  <2>1. CASE moved = Absent
    BY <1>1, <1>2, <2>1 DEF MigrationTypeOK
  <2>2. CASE moved # Absent
    BY <1>1, <1>2, <2>2, LeftAside
  <2> QED
    BY <2>1, <2>2
<1>4. Recorded'
  <2>1. live["canonical"] # Absent => live["canonical"].id # Torn
    BY <1>2, EntryFields, MigrationAssumption DEF MigrationTypeOK, Files
  <2> QED
    BY <1>1, <2>1 DEF MigrationInv, Recorded
<1>5. \A file \in Files : LastKept(file)'
  BY <1>1, <1>3, StaysKept
<1> QED
  BY <1>1, <1>3, <1>4, <1>5

\* A call that fails has returned what it moved, or left it to be found.
LEMMA FailStep == MigrationInv /\ Fail => MigrationInv'
<1> SUFFICES ASSUME MigrationInv, Fail PROVE MigrationInv'
  OBVIOUS
<1>1. /\ Busy /\ Ends /\ lock' = "free" /\ UNCHANGED <<bundle, receipts, latest, edits, adopted, calls>> /\ (Return \/ Stay)
      /\ \/ UNCHANGED <<faults, record, torn>>
         \/ faults < MaxFaults /\ faults' = faults + 1 /\ MayTear
  BY DEF Fail
<1>2. MigrationTypeOK
  BY DEF MigrationInv
<1>3. /\ record' \in [Ops -> Ids \cup {Absent, Torn}] /\ torn' \subseteq Ops \X {"applied", "rolled-back"}
      /\ \A op \in Ops : record'[op] \in {record[op], Torn}
  BY <1>1, <1>2, Tears DEF MigrationTypeOK
<1>4. faults' \in 0..MaxFaults
  BY <1>1, <1>2, MigrationAssumption DEF MigrationTypeOK
<1>5. CASE Return
  <2>1. aside' = aside /\ manual' = manual
    BY <1>5 DEF Return
  <2>2. live' \in [Files -> Entries \cup {Absent}] /\ Recorded' /\ \A file \in Files : LastKept(file)'
    BY <1>1, <1>3, <1>5, Returns
  <2> QED
    BY <1>1, <1>2, <1>3, <1>4, <2>1, <2>2, EndStep DEF MigrationTypeOK
<1>6. CASE Stay
  <2>1. live' = live
    BY <1>6 DEF Stay
  <2>2. /\ aside' \subseteq [file : Files, text : Texts] /\ manual' \in BOOLEAN
        /\ Recorded' /\ \A file \in Files : LastKept(file)'
    BY <1>1, <1>3, <1>6, Stays
  <2> QED
    BY <1>1, <1>2, <1>3, <1>4, <2>1, <2>2, EndStep DEF MigrationTypeOK
<1> QED
  BY <1>1, <1>5, <1>6

\* So has one that dies; it only leaves the lock as well.
LEMMA CrashStep == MigrationInv /\ Crash => MigrationInv'
<1> SUFFICES ASSUME MigrationInv, Crash PROVE MigrationInv'
  OBVIOUS
<1>1. /\ Busy /\ Ends /\ lock' = "orphan" /\ UNCHANGED <<bundle, receipts, latest, edits, adopted, calls>> /\ Stay
      /\ faults < MaxFaults /\ faults' = faults + 1 /\ MayTear
  BY DEF Crash
<1>2. MigrationTypeOK /\ live' = live
  BY <1>1 DEF MigrationInv, Stay
<1>3. /\ record' \in [Ops -> Ids \cup {Absent, Torn}] /\ torn' \subseteq Ops \X {"applied", "rolled-back"}
      /\ \A op \in Ops : record'[op] \in {record[op], Torn}
  BY <1>1, Tears
<1>4. faults' \in 0..MaxFaults
  BY <1>1, <1>2, MigrationAssumption DEF MigrationTypeOK
<1>5. /\ aside' \subseteq [file : Files, text : Texts] /\ manual' \in BOOLEAN
      /\ Recorded' /\ \A file \in Files : LastKept(file)'
  BY <1>1, <1>3, Stays
<1> QED
  BY <1>1, <1>2, <1>3, <1>4, <1>5, EndStep DEF MigrationTypeOK

-----------------------------------------------------------------------------
(* The migration: others, and all steps *)

\* A dead owner's lock is nobody's.
LEMMA ClearLockStep == MigrationInv /\ ClearLock => MigrationInv'
<1> SUFFICES ASSUME MigrationInv, ClearLock PROVE MigrationInv'
  OBVIOUS
<1>1. /\ lock = "orphan" /\ lock' = "free"
      /\ UNCHANGED <<live, moved, aside, bundle, record, receipts, torn, job, latest, edits, calls, faults, manual>>
      /\ UNCHANGED <<guests, adopted>>
  BY DEF ClearLock, evidence, world
<1>2. ~Busy /\ ~Busy' /\ moved = Absent
  BY <1>1 DEF MigrationInv, CallOK, LockHeld, MovedOK, Busy
<1>3. MigrationTypeOK'
  BY <1>1 DEF MigrationInv, MigrationTypeOK
<1>4. PreparedOK'
  BY <1>1, SameBundles DEF MigrationInv
<1>5. CallOK' /\ StepMine'
  BY <1>1, <1>2 DEF CallOK, LockHeld, JobKnown, MovedOK, PublishOK, StepMine, At
<1>6. Recorded'
  BY <1>1 DEF MigrationInv, Recorded
<1>7. \A file \in Files : LastKept(file)'
  BY <1>1, <1>2, StaysKept
<1> QED
  BY <1>3, <1>4, <1>5, <1>6, <1>7 DEF MigrationInv

\* A file that others write is theirs.
LEMMA OutsidersWrite ==
  ASSUME MigrationInv, NEW file \in Files, Outsiders(file)
  PROVE  /\ live' \in [Files -> Entries \cup {Absent}] /\ latest' \in [Files -> Texts \cup {Absent}]
         /\ \A other \in Files : other # file => live'[other] = live[other] /\ latest'[other] = latest[other]
         /\ \/ live'[file] = Absent /\ latest'[file] = Absent
            \/ /\ live'[file] # Absent /\ live'[file].text = latest'[file] /\ live'[file].id = FreshId
               /\ live'[file].by = 0 /\ (Busy /\ file = "canonical" => live'[file] \in guests')
         /\ guests \subseteq guests' /\ guests' \subseteq Entries
<1>1. MigrationTypeOK /\ PreparedOK /\ edits < MaxEdits
  BY DEF MigrationInv, Outsiders
<1>2. CASE Change(file, Absent) /\ latest' = [latest EXCEPT ![file] = Absent] /\ UNCHANGED guests
  <2>1. latest' \in [Files -> Texts \cup {Absent}] /\ latest'[file] = Absent
        /\ \A other \in Files : other # file => latest'[other] = latest[other]
    BY <1>1, <1>2 DEF MigrationTypeOK
  <2>2. guests' = guests /\ guests \subseteq Entries
    BY <1>1, <1>2 DEF MigrationTypeOK
  <2> QED
    BY <1>1, <1>2, <2>1, <2>2, Changes
<1>3. ASSUME NEW text \in Former(file) \cup {Source(edits + 1)},
             Change(file, [text |-> text, id |-> FreshId, by |-> 0]),
             latest' = [latest EXCEPT ![file] = text],
             guests' = IF Busy /\ file = "canonical" THEN guests \cup {live'[file]} ELSE guests
      PROVE  /\ live' \in [Files -> Entries \cup {Absent}] /\ latest' \in [Files -> Texts \cup {Absent}]
             /\ \A other \in Files : other # file => live'[other] = live[other] /\ latest'[other] = latest[other]
             /\ live'[file] # Absent /\ live'[file].text = latest'[file] /\ live'[file].id = FreshId
             /\ live'[file].by = 0 /\ (Busy /\ file = "canonical" => live'[file] \in guests')
             /\ guests \subseteq guests' /\ guests' \subseteq Entries
  <2> DEFINE new == [text |-> text, id |-> FreshId, by |-> 0]
  <2>1. text \in Texts
    <3>1. CASE text \in Former(file)
      BY <1>1, <3>1, RetainedTexts DEF Former
    <3>2. CASE text = Source(edits + 1)
      <4>1. edits + 1 \in 0..MaxEdits
        BY <1>1, MigrationAssumption DEF MigrationTypeOK
      <4> QED
        BY <3>2, <4>1 DEF Sources, Texts
    <3> QED
      BY <3>1, <3>2
  <2>2. new \in Entries /\ new.text = text /\ new.id = FreshId /\ new.by = 0
    BY <1>1, <2>1, FreshIdentity, EntryMade
  <2>3. latest' \in [Files -> Texts \cup {Absent}] /\ latest'[file] = text
        /\ \A other \in Files : other # file => latest'[other] = latest[other]
    BY <1>1, <1>3, <2>1 DEF MigrationTypeOK
  <2>4. Change(file, new)
    BY <1>3
  <2> HIDE DEF new
  <2>5. /\ live' \in [Files -> Entries \cup {Absent}] /\ live'[file] = new
        /\ \A other \in Files : other # file => live'[other] = live[other]
    BY <1>1, <2>2, <2>4, Changes
  <2>6. /\ Busy /\ file = "canonical" => live'[file] \in guests'
        /\ guests \subseteq guests' /\ guests' \subseteq Entries
    BY <1>1, <1>3, <2>2, <2>5 DEF MigrationTypeOK
  <2> QED
    BY <2>2, <2>3, <2>5, <2>6, EntryFields
<1> QED
  BY <1>2, <1>3 DEF Outsiders

\* Others write fresh identities, and what they write to the canonical path while a call runs is its guest.
LEMMA OutsidersStep == ASSUME MigrationInv, NEW file \in Files, Outsiders(file) PROVE MigrationInv'
<1>1. /\ live' \in [Files -> Entries \cup {Absent}] /\ latest' \in [Files -> Texts \cup {Absent}]
      /\ \A other \in Files : other # file => live'[other] = live[other] /\ latest'[other] = latest[other]
      /\ \/ live'[file] = Absent /\ latest'[file] = Absent
         \/ /\ live'[file] # Absent /\ live'[file].text = latest'[file] /\ live'[file].id = FreshId
            /\ live'[file].by = 0 /\ (Busy /\ file = "canonical" => live'[file] \in guests')
      /\ guests \subseteq guests' /\ guests' \subseteq Entries
  BY OutsidersWrite
<1>2. /\ UNCHANGED <<moved, aside, bundle, record, receipts, torn, lock, job, adopted, calls, faults>>
      /\ edits < MaxEdits /\ edits' = edits + 1 /\ manual' \in BOOLEAN
  BY DEF Outsiders, evidence
<1>3. MigrationTypeOK
  BY DEF MigrationInv
<1>4. MigrationTypeOK'
  <2>1. edits' \in 0..MaxEdits
    BY <1>2, <1>3, MigrationAssumption DEF MigrationTypeOK
  <2> QED
    BY <1>1, <1>2, <1>3, <2>1 DEF MigrationTypeOK
<1>5. PreparedOK' /\ Prepared' = Prepared /\ \A op \in Ops : Retained(op)' = Retained(op)
  BY <1>2, SameBundles DEF MigrationInv
<1>6. Busy' = Busy /\ Place' = Place
  BY <1>2 DEF Busy, Place
<1>7. CallOK'
  <2>1. LockHeld' /\ JobKnown' /\ MovedOK'
    BY <1>2, <1>5, <1>6 DEF MigrationInv, CallOK, LockHeld, JobKnown, MovedOK, Has
  <2>2. Busy => job.op \in Ops
    BY <1>3, JobFields
  <2>3. PublishOK'
    BY <1>2, <1>5, <1>6, <2>2 DEF MigrationInv, CallOK, PublishOK, SeenRetained, At
  <2> QED
    BY <2>1, <2>3 DEF CallOK
<1>8. Recorded'
  <2>1. \A op \in Ops : record[op] # FreshId
    BY <1>3, FreshIdentity DEF Remembered
  <2> QED
    BY <1>1, <1>2, <2>1 DEF MigrationInv, Recorded, Files
<1>9. StepMine'
  BY <1>1, <1>2, <1>6 DEF MigrationInv, StepMine, At, Mine, Files
<1>10. ASSUME NEW other \in Files PROVE LastKept(other)'
  <2>1. CASE other = file
    BY <1>1, <2>1 DEF LastKept
  <2>2. CASE other # file
    BY <1>1, <1>2, <1>6, <2>2, StaysKept
  <2> QED
    BY <2>1, <2>2
<1> QED
  BY <1>4, <1>5, <1>7, <1>8, <1>9, <1>10 DEF MigrationInv

\* Every step keeps the invariant,
LEMMA NextMigration == MigrationInv /\ [MigrationNext]_migrationVars => MigrationInv'
<1> SUFFICES ASSUME MigrationInv, [MigrationNext]_migrationVars PROVE MigrationInv'
  OBVIOUS
<1>1. ASSUME NEW op \in Ops, PrepareBundle(op) \/ ApplyBundle(op) \/ RollbackBundle(op) PROVE MigrationInv'
  BY <1>1, PrepareStep, ApplyStep, RollbackStep
<1>2. CASE Work
  BY <1>2, CheckStartStep, CreateStep, RecordStep, CheckReplaceStep, TakeStep, PutStep, CheckReplacedStep,
     CaptureWithdrawnStep, WithdrawStep, CompareStep, VerifyStep, ReceiptStep, FailStep DEF Work
<1>3. CASE Crash \/ ClearLock
  BY <1>3, CrashStep, ClearLockStep
<1>4. ASSUME NEW file \in Files, Outsiders(file) PROVE MigrationInv'
  BY <1>4, OutsidersStep
<1>5. CASE UNCHANGED migrationVars
  <2>1. UNCHANGED <<live, moved, aside, bundle, record, receipts, torn, lock, job, latest, edits, calls, faults, manual>>
        /\ UNCHANGED <<guests, adopted>>
    BY <1>5 DEF migrationVars
  <2>2. MigrationTypeOK'
    BY <2>1 DEF MigrationInv, MigrationTypeOK
  <2>3. PreparedOK' /\ Prepared' = Prepared /\ \A op \in Ops : Retained(op)' = Retained(op)
    BY <2>1, SameBundles DEF MigrationInv
  <2>4. Busy' = Busy /\ Place' = Place /\ (Busy => job.op \in Ops)
    BY <2>1, JobFields DEF Busy, Place, MigrationInv
  <2>5. CallOK'
    BY <2>1, <2>3, <2>4
    DEF MigrationInv, CallOK, LockHeld, JobKnown, MovedOK, PublishOK, SeenRetained, At, Has
  <2>6. Recorded' /\ StepMine'
    BY <2>1, <2>4 DEF MigrationInv, Recorded, StepMine, Mine, At
  <2>7. \A file \in Files : LastKept(file)'
    BY <2>1, <2>4, StaysKept
  <2> QED
    BY <2>2, <2>3, <2>5, <2>6, <2>7 DEF MigrationInv
<1> QED
  BY <1>1, <1>2, <1>3, <1>4, <1>5 DEF MigrationNext

-----------------------------------------------------------------------------
(* The migration: theorems *)

\* and so it always holds.
LEMMA MigrationInvariant == MigrationSpec => []MigrationInv
<1>1. MigrationInit => MigrationInv
  BY InitMigration
<1>2. MigrationInv /\ [MigrationNext]_migrationVars => MigrationInv'
  BY NextMigration
<1> QED
  BY <1>1, <1>2, PTL DEF MigrationSpec

\* The files, bundles, records, receipts, calls and the lock keep their types, and every identity that a call makes is
\* fresh (memory-migration-write.js, -execute.js, -bundle.js, -withdraw.js).
THEOREM MigrationTypes == MigrationSpec => []MigrationTypeOK
<1>1. MigrationInv => MigrationTypeOK
  BY DEF MigrationInv
<1> QED
  BY <1>1, MigrationInvariant, PTL

\* The text that others gave a file last is never lost by a migration, wherever it is interrupted (LatestKept): the
\* publication of memory-output.js moves away what was seen, which is retained, and withdrawCanonical whatever is there,
\* which it keeps or returns.
THEOREM LatestIsKept == MigrationSpec => []LatestKept
<1>1. MigrationInv => LatestKept
  <2> SUFFICES ASSUME MigrationInv, NEW file \in Files, latest[file] # Absent
               PROVE  \/ latest[file] \in {f.text : f \in {live[file], moved} \ {Absent}}
                      \/ [file |-> file, text |-> latest[file]] \in aside
                      \/ \E op \in Prepared : latest[file] \in Retained(op)
    BY DEF LatestKept
  <2>1. LastKept(file)
    BY DEF MigrationInv
  <2> QED
    BY <2>1 DEF LastKept
<1> QED
  BY <1>1, MigrationInvariant, PTL

\* A file that withdrawCanonical leaves in the archive was made by the operation (OnlyOwnWithdrawn).  The identity in
\* canonical-created.json tells it from the files of others, with any bytes, but for two: one that others put on the
\* path after the identity check of this very rollback, and one that the operation's own application has recorded
\* instead of its own.  Both are taken for their bytes alone, against docs/memory-migration-write.md:64-65.
THEOREM OnlyOwnIsWithdrawn == MigrationSpec => OnlyOwnWithdrawn
<1> DEFINE Taken == \/ moved.by = job.op \/ moved \in guests
                    \/ job.op \in adopted /\ moved.id = record[job.op]
           A == Busy /\ moved' = Absent /\ moved # Absent /\ job.step = "compare" /\ job' # Idle => Taken
<1>1. MigrationInv /\ [MigrationNext]_migrationVars => [A]_migrationVars
  <2> SUFFICES ASSUME MigrationInv, MigrationNext, Busy, moved' = Absent, moved # Absent,
                      job.step = "compare", job' # Idle
               PROVE  Taken
    OBVIOUS
  <2>1. ASSUME CompareWithdrawn PROVE Taken
    BY <2>1 DEF CompareWithdrawn, MigrationInv, StepMine, Mine
  <2>2. ASSUME Work PROVE CompareWithdrawn
    BY <2>2 DEF Work, CheckStart, Create, Record, CheckReplace, Take, Put, CheckReplaced, CaptureWithdrawn,
       WithdrawCanonical, VerifyOutputs, Receipt, Fail, Ends, At, Publishing
  <2>3. ~Crash /\ ~ClearLock /\ \A file \in Files : ~Outsiders(file)
    BY DEF Crash, Ends, ClearLock, Outsiders
  <2>4. \A op \in Ops : ~PrepareBundle(op) /\ ~ApplyBundle(op) /\ ~RollbackBundle(op)
    BY DEF PrepareBundle, ApplyBundle, RollbackBundle, Start
  <2> QED
    BY <2>1, <2>2, <2>3, <2>4 DEF MigrationNext
<1>2. MigrationSpec => [][A]_migrationVars
  BY <1>1, MigrationInvariant, PTL DEF MigrationSpec
<1> QED
  BY <1>2 DEF OnlyOwnWithdrawn

\* A file that is none of the operation's outputs.
NoOutput(op, f) ==
  f = Absent \/ f.by # op \/ f.text \notin {Canonical(op), Projection(op)}

\* An operation that does not show has no output on a path or on its way.
LEMMA NotShown ==
  \A op : ~Shows(op) <=> /\ NoOutput(op, live["canonical"]) /\ NoOutput(op, live["projection"])
                         /\ NoOutput(op, moved)
BY DEF Shows, NoOutput

\* The end of a call brings nothing back but what it has moved itself, as another identity.
LEMMA EndShows ==
  ASSUME MigrationInv, NEW op \in Prepared, ~Shows(op), bundle' = bundle, Ends, Return \/ Stay
  PROVE  ~Shows(op)'
<1>1. Canonical(op)' = Canonical(op) /\ Projection(op)' = Projection(op) /\ moved' = Absent
  BY DEF Canonical, Projection, Raw, Ends
<1>2. NoOutput(op, live["canonical"]) /\ NoOutput(op, live["projection"]) /\ NoOutput(op, moved)
  BY NotShown
<1>3. CASE Stay
  BY <1>1, <1>2, <1>3 DEF Stay, Shows, NoOutput
<1>4. CASE Return
  <2> DEFINE new == [moved EXCEPT !.id = FreshId]
  <2>1. MigrationTypeOK /\ moved # Absent /\ Change(Place, new) /\ Place \in Files
    BY <1>4 DEF MigrationInv, Return, MayReturn, Place, Files
  <2>2. moved \in Entries /\ FreshId \in Ids
    BY <2>1, FreshIdentity DEF MigrationTypeOK
  <2>3. new \in Entries /\ new.by = moved.by /\ new.text = moved.text
    BY <2>2 DEF Entries
  <2> HIDE DEF new
  <2>4. live'[Place] = new /\ \A file \in Files : file # Place => live'[file] = live[file]
    BY <2>1, <2>3, Changes
  <2> QED
    BY <1>1, <1>2, <2>1, <2>3, <2>4 DEF Shows, NoOutput, Files
<1> QED
  BY <1>3, <1>4

\* What was rolled back never shows its outputs again (RolledBackStays): a call that may make them applies an operation
\* without that receipt, and a rollback publishes the source, which is neither of them.
THEOREM RollbackIsFinal == MigrationSpec => RolledBackStays
<1> DEFINE A == \A op \in Prepared : Has(op, "rolled-back") /\ ~Shows(op) => ~Shows(op)'
<1>1. MigrationInv /\ [MigrationNext]_migrationVars => [A]_migrationVars
  <2> SUFFICES ASSUME MigrationInv, MigrationNext, NEW op \in Prepared, Has(op, "rolled-back"), ~Shows(op)
               PROVE  ~Shows(op)'
    OBVIOUS
  <2>1. MigrationTypeOK /\ PreparedOK /\ op \in Ops /\ op # 0
    BY MigrationAssumption DEF MigrationInv, Prepared, Ops
  <2>2. NoOutput(op, live["canonical"]) /\ NoOutput(op, live["projection"]) /\ NoOutput(op, moved)
    BY NotShown
  <2>3. Canonical(op)' = Canonical(op) /\ Projection(op)' = Projection(op)
    <3>1. bundle' = bundle \/ \E o \in Ops : PrepareBundle(o)
      BY DEF MigrationNext, Work, CheckStart, Create, Record, CheckReplace, Take, Put, CheckReplaced, CaptureWithdrawn,
         WithdrawCanonical, CompareWithdrawn, VerifyOutputs, Receipt, Fail, Crash, ClearLock, Outsiders, ApplyBundle,
         RollbackBundle, Start, evidence
    <3> QED
      BY <2>1, <3>1, StaysPrepared
  <2> DEFINE Clean == NoOutput(op, live'["canonical"]) /\ NoOutput(op, live'["projection"]) /\ NoOutput(op, moved')
  <2>4. Clean => ~Shows(op)'
    BY <2>3 DEF Shows, NoOutput
  <2>5. CASE UNCHANGED <<live, moved>>
    BY <2>2, <2>4, <2>5
  <2>6. ASSUME Busy
        PROVE  /\ job.op \in Prepared /\ (job.action = "apply" => job.op # op)
               /\ job.action \in {"apply", "rollback"}
    BY <2>1, <2>6, JobFields DEF MigrationInv, CallOK, JobKnown
  <2>7. CASE Create
    <3> DEFINE new == NewFile(Canonical(job.op))
    <3>1. Busy /\ job.action = "apply" /\ Change("canonical", new) /\ moved' = moved
      BY <2>7 DEF Create, At
    <3>2. new \in Entries /\ new.by = job.op
      BY <2>1, <2>6, <3>1, RetainedTexts, FileMade DEF Retained
    <3> HIDE DEF new
    <3>3. live'["canonical"] = new /\ live'["projection"] = live["projection"]
      BY <2>1, <3>1, <3>2, Changes DEF Files
    <3> QED
      BY <2>2, <2>4, <2>6, <3>1, <3>2, <3>3 DEF NoOutput
  <2>8. CASE Put
    <3> DEFINE new == NewFile(Text)
    <3>1. Busy /\ Change("projection", new) /\ moved' = Absent
      BY <2>8 DEF Put, Publishing
    <3>2. job.op = op => Text \notin {Canonical(op), Projection(op)}
      BY <2>1, <2>6, <3>1, RetainedTexts DEF Text
    <3>3. Text \in Texts
      BY <2>1, <2>6, <3>1, RetainedTexts DEF Text, Retained
    <3>4. new \in Entries /\ new.by = job.op /\ new.text = Text
      BY <2>1, <3>1, <3>3, FileMade
    <3> HIDE DEF new
    <3>5. live'["projection"] = new /\ live'["canonical"] = live["canonical"]
      BY <2>1, <3>1, <3>4, Changes DEF Files
    <3> QED
      BY <2>2, <2>4, <3>1, <3>2, <3>4, <3>5 DEF NoOutput
  <2>9. CASE Take
    <3>1. Change("projection", Absent) /\ moved' = live["projection"]
      BY <2>9 DEF Take
    <3>2. live'["projection"] = Absent /\ live'["canonical"] = live["canonical"]
      BY <2>1, <3>1, Changes DEF Files
    <3> QED
      BY <2>2, <2>4, <3>1, <3>2 DEF NoOutput
  <2>10. CASE WithdrawCanonical
    <3>1. Change("canonical", Absent) /\ moved' = live["canonical"]
      BY <2>10 DEF WithdrawCanonical
    <3>2. live'["canonical"] = Absent /\ live'["projection"] = live["projection"]
      BY <2>1, <3>1, Changes DEF Files
    <3> QED
      BY <2>2, <2>4, <3>1, <3>2 DEF NoOutput
  <2>11. CASE CompareWithdrawn
    BY <2>2, <2>4, <2>11 DEF CompareWithdrawn, NoOutput
  <2>12. CASE Fail \/ Crash
    BY <2>12, EndShows DEF Fail, Crash
  <2>13. ASSUME NEW file \in Files, Outsiders(file) PROVE ~Shows(op)'
    <3>1. /\ \A other \in Files : other # file => live'[other] = live[other]
          /\ live'[file] = Absent \/ live'[file].by = 0
      BY <2>13, OutsidersWrite
    <3>2. moved' = moved
      BY <2>13 DEF Outsiders
    <3> QED
      BY <2>1, <2>2, <2>4, <3>1, <3>2 DEF NoOutput, Files
  <2>14. CASE \/ CheckStart \/ Record \/ CheckReplace \/ CheckReplaced \/ CaptureWithdrawn
              \/ VerifyOutputs \/ ClearLock
    BY <2>5, <2>14 DEF CheckStart, Record, CheckReplace, CheckReplaced, CaptureWithdrawn, VerifyOutputs, ClearLock
  <2>15. ASSUME NEW o \in Ops, PrepareBundle(o) \/ ApplyBundle(o) \/ RollbackBundle(o) PROVE ~Shows(op)'
    BY <2>5, <2>15 DEF PrepareBundle, ApplyBundle, RollbackBundle, Start
  <2>16. CASE Receipt
    BY <2>2, <2>4, <2>16 DEF Receipt, Ends, NoOutput
  <2> QED
    BY <2>7, <2>8, <2>9, <2>10, <2>11, <2>12, <2>13, <2>14, <2>15, <2>16 DEF MigrationNext, Work
<1>2. MigrationSpec => [][A]_migrationVars
  BY <1>1, MigrationInvariant, PTL DEF MigrationSpec
<1> QED
  BY <1>2 DEF RolledBackStays
=============================================================================
