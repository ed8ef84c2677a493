--------------------------- MODULE ReviewRun_proofs ---------------------------
(***************************************************************************)
(* Proofs about one review run, for any number of processes, requests,     *)
(* provider configurations, control heads and ledger events.               *)
(*                                                                         *)
(* The invariant says what each place in the code means: who is past the   *)
(* transaction that starts the attempt is alone there, finds nothing       *)
(* recorded after it, and is the only one that can call.                   *)
(***************************************************************************)
EXTENDS ReviewRun, TLAPS

\* What a worker knows of the refs from being where it is.
PlaceOK(w) ==
  /\ pc[w] # "idle" => job[w] \in Job
  /\ pc[w] = "intended" => job[w].config # NoConfig
  /\ pc[w] \in {"intended", "call", "called"} /\ job[w].config # NoConfig => intent = PlanOf(w)
  /\ pc[w] \in {"call", "called"} => /\ attempt = AttemptOf(w, TRUE)
                                     /\ result = None /\ run = None /\ ~locator
  /\ pc[w] = "call" => calls = << >>
  /\ pc[w] = "called" => calls = <<PlanOf(w)>>
  /\ pc[w] = "handle" => /\ held[w] \in Record
                         /\ held[w].head = job[w].head /\ held[w].request = job[w].request
  /\ pc[w] \in {"got", "locked", "append"} => locator /\ intent # None /\ job[w].head = intent.head
  /\ pc[w] = "got" => job[w].prefix <= Len(ledger)
  /\ pc[w] \in {"locked", "append"} => observation # None

Places_OK == \A w \in Workers : PlaceOK(w)

\* The one that started the attempt is alone between that and its outcome.
Alone == \A v, w \in Workers : pc[v] \in {"call", "called"} /\ pc[w] \in {"call", "called"} => v = w

\* Nothing is called before the start, and nothing but a call has a result.
Past ==
  /\ calls # << >> => attempt # None /\ attempt.started
  /\ result # None => Len(calls) = 1
  /\ Len(calls) <= 1

\* The terminal event comes after what the GET saw, and a publication points to it.
EventsOK ==
  /\ observation # None => observation.prefix <= Len(ledger)
  /\ \A i \in Terminals : observation # None /\ observation.prefix < i
  /\ TerminalOnce

RunInv == TypeOK /\ JournalSound /\ Places_OK /\ Alone /\ Past /\ SentAsPlanned /\ EventsOK

-----------------------------------------------------------------------------
(* Types *)

\* Every step keeps the types.
LEMMA TypeStep ==
  ASSUME RunInv, [Next]_vars
  PROVE  TypeOK'
<1> USE ConstantsAssumption, NoneAssumption
<1>1. TypeOK /\ JournalSound /\ Places_OK
  BY DEF RunInv
<1>2. ASSUME NEW w \in Workers, NEW q \in Requests, NEW config \in Configs \cup {NoConfig}, Begin(w, q, config)
      PROVE  TypeOK'
  <2>1. [head |-> control, request |-> q, config |-> config, prefix |-> 0] \in Job
    BY <1>1 DEF TypeOK, Job
  <2> QED
    BY <1>1, <1>2, <2>1 DEF TypeOK, Begin, Goto, refs, Places
<1>3. ASSUME NEW w \in Workers, Reserve(w)
      PROVE  TypeOK'
  <2>1. AttemptOf(w, FALSE) \in Attempt
    BY <1>1, <1>3 DEF Places_OK, PlaceOK, Reserve, AttemptOf, Attempt, Job
  <2> QED
    BY <1>1, <1>3, <2>1 DEF TypeOK, Reserve, Committed, End, Goto, Places
<1>4. ASSUME NEW w \in Workers, NEW mark \in Marks, NotRun(w, mark)
      PROVE  TypeOK'
  <2>1. RecordOf(w, FALSE, 0, mark) \in Record
    <3>1. job[w] \in Job
      BY <1>1, <1>4 DEF Places_OK, PlaceOK, NotRun
    <3>2. 0 \in 0..MaxEvents
      OBVIOUS
    <3> QED
      BY <3>1, <3>2 DEF RecordOf, Record, Job
  <2> QED
    BY <1>1, <1>4, <2>1 DEF TypeOK, NotRun, Goto, refs, Places
<1>5. ASSUME NEW w \in Workers, Intend(w)
      PROVE  TypeOK'
  <2>1. PlanOf(w) \in Plan
    BY <1>1, <1>5 DEF Places_OK, PlaceOK, Intend, PlanOf, Plan, Job
  <2> QED
    BY <1>1, <1>5, <2>1 DEF TypeOK, Intend, Committed, End, Goto, Places
<1>6. ASSUME NEW w \in Workers, Start(w)
      PROVE  TypeOK'
  <2>1. AttemptOf(w, TRUE) \in Attempt
    BY <1>1, <1>6 DEF Places_OK, PlaceOK, Start, AttemptOf, Attempt, Job
  <2> QED
    BY <1>1, <1>6, <2>1 DEF TypeOK, Start, Committed, End, Goto, Places
<1>7. ASSUME NEW w \in Workers, Call(w)
      PROVE  TypeOK'
  <2>1. PlanOf(w) \in [head : Heads, request : Requests, config : Configs \cup {NoConfig}]
    BY <1>1, <1>7 DEF Places_OK, PlaceOK, Call, PlanOf, Job
  <2> QED
    BY <1>1, <1>7, <2>1 DEF TypeOK, Call, Goto, refs, Places
<1>8. ASSUME NEW w \in Workers, NEW mark \in Marks, SaveResult(w, mark)
      PROVE  TypeOK'
  <2>1. RecordOf(w, TRUE, 0, mark) \in Record
    <3>1. job[w] \in Job
      BY <1>1, <1>8 DEF Places_OK, PlaceOK, SaveResult
    <3>2. 0 \in 0..MaxEvents
      OBVIOUS
    <3> QED
      BY <3>1, <3>2 DEF RecordOf, Record, Job
  <2>2. result' \in Record
    BY <1>8, <2>1 DEF SaveResult
  <2>3. pc' \in [Workers -> Places] /\ job' \in [Workers -> Job \cup {None}]
    BY <1>1, <1>8 DEF TypeOK, SaveResult, End, Goto, Places
  <2>4. held' \in [Workers -> Record \cup {None}]
    BY <1>1, <1>8, <2>2 DEF TypeOK, SaveResult, End
  <2>5. \A v \in Workers : pc'[v] \in {"locked", "append"} <=> lock = v
    BY <1>1, <1>8 DEF TypeOK, SaveResult, End, Goto
  <2> QED
    BY <1>1, <1>8, <2>2, <2>3, <2>4, <2>5 DEF TypeOK, SaveResult
<1>9. ASSUME NEW w \in Workers, Locate(w)
      PROVE  TypeOK'
  BY <1>1, <1>9 DEF TypeOK, Locate, End, Goto, Places
<1>10. ASSUME NEW w \in Workers, Get(w)
       PROVE  TypeOK'
  <2>1. [head |-> intent.head, request |-> intent.request, config |-> intent.config,
         prefix |-> Len(ledger)] \in Job
    BY <1>1, <1>10 DEF TypeOK, Get, Plan, Job
  <2> QED
    BY <1>1, <1>10, <2>1 DEF TypeOK, Get, Resume, Goto, refs, Places
<1>11. ASSUME NEW w \in Workers, NEW mark \in Marks, StoreObservation(w, mark)
       PROVE  TypeOK'
  <2>1. [prefix |-> job[w].prefix, mark |-> mark] \in Observation
    BY <1>1, <1>11 DEF Places_OK, PlaceOK, StoreObservation, Observation, Job
  <2> QED
    BY <1>1, <1>11, <2>1 DEF TypeOK, StoreObservation, End, Goto, Places
<1>12. ASSUME NEW w \in Workers, LockLedger(w)
       PROVE  TypeOK'
  <2>1. [head |-> intent.head, request |-> intent.request, config |-> intent.config,
         prefix |-> observation.prefix] \in Job
    <3>1. intent \in Plan /\ observation \in Observation
      BY <1>1, <1>12 DEF TypeOK, JournalSound, LockLedger
    <3> QED
      BY <3>1 DEF Plan, Job, Observation
  <2> QED
    BY <1>1, <1>12, <2>1 DEF TypeOK, LockLedger, Resume, Goto, refs, Places
<1>13. ASSUME NEW w \in Workers, AppendTerminal(w)
       PROVE  TypeOK'
  <2>1. ledger' \in Seq({"other", "terminal"}) /\ Len(ledger') <= MaxEvents
    <3>1. CASE TerminalFound
      BY <1>1, <1>13, <3>1 DEF TypeOK, AppendTerminal
    <3>2. CASE ~TerminalFound
      BY <1>1, <1>13, <3>2 DEF TypeOK, AppendTerminal
    <3> QED
      BY <3>1, <3>2
  <2> QED
    BY <1>1, <1>13, <2>1 DEF TypeOK, AppendTerminal, Goto, refs, Places
<1>14. ASSUME NEW w \in Workers, NEW i \in DOMAIN ledger, SavePublished(w, i)
       PROVE  TypeOK'
  <2>1. Published(w, i) \in Record
    <3>1. job[w] \in Job /\ observation \in Observation
      BY <1>1, <1>14 DEF TypeOK, Places_OK, PlaceOK, SavePublished
    <3>2. i \in 0..MaxEvents
      BY <1>1 DEF TypeOK
    <3> QED
      BY <3>1, <3>2 DEF Published, Observation, RecordOf, Record, Job
  <2>2. result' \in Record
    BY <1>14, <2>1 DEF SavePublished
  <2>3. pc' \in [Workers -> Places] /\ job' \in [Workers -> Job \cup {None}]
    BY <1>1, <1>14 DEF TypeOK, SavePublished, End, Goto, Places
  <2>4. held' \in [Workers -> Record \cup {None}]
    BY <1>1, <1>14, <2>2 DEF TypeOK, SavePublished, End
  <2>5. \A v \in Workers : pc'[v] \in {"locked", "append"} <=> lock' = v
    BY <1>1, <1>14 DEF TypeOK, SavePublished, End, Goto
  <2> QED
    BY <1>1, <1>14, <2>2, <2>3, <2>4, <2>5 DEF TypeOK, SavePublished
<1>15. ASSUME NEW w \in Workers, Recover(w)
       PROVE  TypeOK'
  <2>1. [head |-> result.head, request |-> result.request, config |-> NoConfig, prefix |-> 0] \in Job
    BY <1>1, <1>15 DEF TypeOK, Recover, Record, Job
  <2> QED
    BY <1>1, <1>15, <2>1 DEF TypeOK, Recover, Goto, refs, Places
<1>16. ASSUME NEW w \in Workers, Retain(w)
       PROVE  TypeOK'
  BY <1>1, <1>16 DEF TypeOK, Places_OK, PlaceOK, Retain, End, Goto, Places
<1>17. ASSUME NEW w \in Workers, Stop(w)
       PROVE  TypeOK'
  BY <1>1, <1>17 DEF TypeOK, Stop, Freed, End, Goto, refs, Places
<1>18. CASE ControlMoves
  BY <1>1, <1>18 DEF TypeOK, ControlMoves, refs, Heads
<1>19. CASE OtherAppends
  BY <1>1, <1>19 DEF TypeOK, OtherAppends, refs
<1>20. CASE UNCHANGED vars
  BY <1>1, <1>20 DEF TypeOK, vars, refs
<1> QED
  BY <1>2, <1>3, <1>4, <1>5, <1>6, <1>7, <1>8, <1>9, <1>10, <1>11, <1>12, <1>13, <1>14, <1>15, <1>16,
     <1>17, <1>18, <1>19, <1>20 DEF Next, Execute, Answer

-----------------------------------------------------------------------------
(* The journal *)

\* The attempt of a worker is one.
LEMMA WorkersAttempt ==
  ASSUME RunInv, NEW w \in Workers, pc[w] # "idle"
  PROVE  AttemptOf(w, TRUE) # None /\ AttemptOf(w, FALSE) # None
<1>1. job[w] \in Job
  BY DEF RunInv, Places_OK, PlaceOK
<1>2. AttemptOf(w, TRUE) \in Attempt /\ AttemptOf(w, FALSE) \in Attempt
  BY <1>1 DEF AttemptOf, Attempt, Job
<1> QED
  BY <1>2, NoneAssumption

\* The plan of a worker that dispatches is one.
LEMMA WorkersPlan ==
  ASSUME RunInv, NEW w \in Workers, pc[w] # "idle", job[w].config # NoConfig
  PROVE  PlanOf(w) # None
<1>1. job[w] \in Job
  BY DEF RunInv, Places_OK, PlaceOK
<1>2. PlanOf(w) \in Plan
  BY <1>1 DEF PlanOf, Plan, Job
<1> QED
  BY <1>2, NoneAssumption

LEMMA LenOne == \A x : Len(<<x>>) = 1
OBVIOUS

\* A call is the first one.
LEMMA CallIsFirst ==
  ASSUME RunInv, NEW w \in Workers, Call(w)
  PROVE  /\ calls = << >> /\ calls' = <<PlanOf(w)>>
         /\ attempt = AttemptOf(w, TRUE) /\ attempt.started /\ attempt # None
         /\ result = None /\ run = None /\ ~locator
<1>1. pc[w] = "call" /\ calls' = Append(calls, PlanOf(w))
  BY DEF Call
<1>2. PlaceOK(w)
  BY DEF RunInv, Places_OK
<1>3. calls = << >> /\ attempt = AttemptOf(w, TRUE) /\ result = None /\ run = None /\ ~locator
  BY <1>1, <1>2 DEF PlaceOK
<1>4. calls' = <<PlanOf(w)>>
  <2>1. \A x : Append(<< >>, x) = <<x>>
    OBVIOUS
  <2> QED
    BY <1>1, <1>3, <2>1
<1> QED
  BY <1>1, <1>3, <1>4, WorkersAttempt DEF AttemptOf

\* Every step keeps the refs in agreement.
LEMMA JournalStep ==
  ASSUME RunInv, [Next]_vars
  PROVE  JournalSound'
<1>1. TypeOK /\ JournalSound /\ Places_OK /\ Past
  BY DEF RunInv
<1> USE DEF JournalSound, SameRequest
<1>2. ASSUME UNCHANGED <<refs, calls>>
      PROVE  JournalSound'
  BY <1>1, <1>2 DEF refs
<1>3. ASSUME NEW w \in Workers, Reserve(w)
      PROVE  JournalSound'
  BY <1>1, <1>3 DEF Reserve, Unreserved
<1>4. ASSUME NEW w \in Workers, Intend(w)
      PROVE  JournalSound'
  BY <1>1, <1>4, WorkersAttempt DEF Intend, AttemptOf, PlanOf
<1>5. ASSUME NEW w \in Workers, Start(w)
      PROVE  JournalSound'
  BY <1>1, <1>5, WorkersAttempt DEF Start, Unstarted, AttemptOf
<1>6. ASSUME NEW w \in Workers, Call(w)
      PROVE  JournalSound'
  BY <1>1, <1>6, CallIsFirst DEF Call, refs
<1>7. ASSUME NEW w \in Workers, NEW mark \in Marks, SaveResult(w, mark)
      PROVE  JournalSound'
  BY <1>1, <1>7, WorkersAttempt DEF SaveResult, Places_OK, PlaceOK, RecordOf, AttemptOf
<1>8. ASSUME NEW w \in Workers, Locate(w)
      PROVE  JournalSound'
  BY <1>1, <1>8, WorkersAttempt, WorkersPlan DEF Locate, Places_OK, PlaceOK, AttemptOf
<1>9. ASSUME NEW w \in Workers, NEW mark \in Marks, StoreObservation(w, mark)
      PROVE  JournalSound'
  BY <1>1, <1>9 DEF StoreObservation, Places_OK, PlaceOK
<1>10. ASSUME NEW w \in Workers, NEW i \in DOMAIN ledger, SavePublished(w, i)
       PROVE  JournalSound'
  BY <1>1, <1>10, WorkersAttempt DEF SavePublished, Places_OK, PlaceOK, Published, RecordOf, AttemptOf
<1>11. ASSUME NEW w \in Workers, Retain(w)
       PROVE  JournalSound'
  <2>1. attempt = AttemptOf(w, held[w].ran) /\ run' = held[w] /\ run = None /\ (held[w].ran => result = held[w])
    BY <1>11 DEF Retain, AttemptKept
  <2>2. attempt.started = held[w].ran /\ attempt.head = job[w].head /\ attempt.request = job[w].request
    BY <2>1 DEF AttemptOf
  <2>3. held[w] \in Record /\ held[w].head = job[w].head /\ held[w].request = job[w].request
    BY <1>1, <1>11 DEF Retain, Places_OK, PlaceOK
  <2>4. held[w].ran \in BOOLEAN
    BY <2>3 DEF Record
  <2>5. attempt # None
    BY <1>11, <2>1, <2>4, WorkersAttempt DEF Retain
  <2>6. UNCHANGED <<attempt, intent, locator, observation, result, calls>>
    BY <1>11 DEF Retain
  <2>7. run'.ran = attempt'.started
    BY <2>1, <2>2, <2>6
  <2> QED
    BY <1>1, <2>1, <2>2, <2>3, <2>5, <2>6, <2>7
<1>12. ASSUME NEW w \in Workers,
              \/ \E q \in Requests, config \in Configs \cup {NoConfig} : Begin(w, q, config)
              \/ \E mark \in Marks : NotRun(w, mark)
              \/ Get(w) \/ LockLedger(w) \/ AppendTerminal(w) \/ Recover(w) \/ Stop(w)
       PROVE  JournalSound'
  BY <1>2, <1>12 DEF Begin, NotRun, Get, LockLedger, AppendTerminal, Recover, Stop
<1>13. CASE ControlMoves \/ OtherAppends \/ UNCHANGED vars
  BY <1>2, <1>13 DEF ControlMoves, OtherAppends, vars
<1> QED
  BY <1>3, <1>4, <1>5, <1>6, <1>7, <1>8, <1>9, <1>10, <1>11, <1>12, <1>13 DEF Next, Execute, Answer

\* What was sent stays what the intent says.
LEMMA SentStep ==
  ASSUME RunInv, [Next]_vars
  PROVE  SentAsPlanned'
<1>1. TypeOK /\ JournalSound /\ Places_OK /\ Past /\ SentAsPlanned
  BY DEF RunInv
<1> USE DEF SentAsPlanned
<1>2. ASSUME NEW w \in Workers, Call(w)
      PROVE  SentAsPlanned'
  <2>1. calls' = <<PlanOf(w)>>
    BY <1>2, CallIsFirst
  <2>2. PlanOf(w).config # NoConfig => intent' = PlanOf(w)
    BY <1>1, <1>2 DEF Call, Places_OK, PlaceOK, PlanOf, refs
  <2> QED
    BY <2>1, <2>2
<1>3. ASSUME NEW w \in Workers, Intend(w)
      PROVE  SentAsPlanned'
  <2>1. CASE intent = None
    <3>1. calls' = << >>
      BY <1>1, <1>3, <2>1, NoneAssumption DEF Intend, Past, AttemptOf
    <3> QED
      BY <3>1
  <2>2. CASE intent # None
    BY <1>1, <1>3, <2>2 DEF Intend
  <2> QED
    BY <2>1, <2>2
<1>4. ASSUME UNCHANGED <<intent, calls>>
      PROVE  SentAsPlanned'
  BY <1>1, <1>4
<1>5. ASSUME NEW w \in Workers,
             \/ \E q \in Requests, config \in Configs \cup {NoConfig} : Begin(w, q, config)
             \/ \E mark \in Marks : NotRun(w, mark) \/ SaveResult(w, mark) \/ StoreObservation(w, mark)
             \/ Reserve(w) \/ Start(w) \/ Locate(w) \/ Get(w) \/ LockLedger(w) \/ AppendTerminal(w)
             \/ \E i \in DOMAIN ledger : SavePublished(w, i)
             \/ Recover(w) \/ Retain(w) \/ Stop(w)
      PROVE  UNCHANGED <<intent, calls>>
  BY <1>5 DEF Begin, NotRun, SaveResult, StoreObservation, Reserve, Start, Locate, Get, LockLedger,
              AppendTerminal, SavePublished, Recover, Retain, Stop, refs
<1>6. CASE ControlMoves \/ OtherAppends \/ UNCHANGED vars
  BY <1>4, <1>6 DEF ControlMoves, OtherAppends, vars, refs
<1> QED
  BY <1>2, <1>3, <1>4, <1>5, <1>6 DEF Next, Execute, Answer

\* Nothing is called before the start, and one call is all.
LEMMA PastStep ==
  ASSUME RunInv, [Next]_vars
  PROVE  Past'
<1>1. TypeOK /\ JournalSound /\ Places_OK /\ Past
  BY DEF RunInv
<1> USE DEF Past
<1>2. ASSUME UNCHANGED <<attempt, result, calls>>
      PROVE  Past'
  BY <1>1, <1>2
<1>3. ASSUME NEW w \in Workers, Reserve(w)
      PROVE  Past'
  BY <1>1, <1>3 DEF Reserve, Unreserved
<1>4. ASSUME NEW w \in Workers, Start(w)
      PROVE  Past'
  BY <1>1, <1>4, WorkersAttempt DEF Start, Unstarted, AttemptOf
<1>5. ASSUME NEW w \in Workers, Call(w)
      PROVE  Past'
  <2>1. calls' = <<PlanOf(w)>> /\ attempt # None /\ attempt.started /\ result = None
    BY <1>5, CallIsFirst
  <2>2. Len(calls') = 1
    BY <2>1, LenOne
  <2>3. UNCHANGED <<attempt, result>>
    BY <1>5 DEF Call, refs
  <2> QED
    BY <2>1, <2>2, <2>3
<1>6. ASSUME NEW w \in Workers, NEW mark \in Marks, SaveResult(w, mark)
      PROVE  Past'
  <2>1. calls = <<PlanOf(w)>> /\ UNCHANGED <<calls, attempt>> /\ attempt = AttemptOf(w, TRUE)
    BY <1>1, <1>6 DEF SaveResult, Places_OK, PlaceOK
  <2> QED
    BY <1>6, <2>1, LenOne, WorkersAttempt DEF SaveResult, AttemptOf
<1>7. ASSUME NEW w \in Workers, NEW i \in DOMAIN ledger, SavePublished(w, i)
      PROVE  Past'
  BY <1>1, <1>7 DEF SavePublished, JournalSound, Places_OK, PlaceOK
<1>8. ASSUME NEW w \in Workers,
             \/ \E q \in Requests, config \in Configs \cup {NoConfig} : Begin(w, q, config)
             \/ \E mark \in Marks : NotRun(w, mark) \/ StoreObservation(w, mark)
             \/ Intend(w) \/ Locate(w) \/ Get(w) \/ LockLedger(w) \/ AppendTerminal(w)
             \/ Recover(w) \/ Retain(w) \/ Stop(w)
      PROVE  Past'
  BY <1>2, <1>8 DEF Begin, NotRun, StoreObservation, Intend, Locate, Get, LockLedger,
                    AppendTerminal, Recover, Retain, Stop, refs
<1>9. CASE ControlMoves \/ OtherAppends \/ UNCHANGED vars
  BY <1>2, <1>9 DEF ControlMoves, OtherAppends, vars, refs
<1> QED
  BY <1>3, <1>4, <1>5, <1>6, <1>7, <1>8, <1>9 DEF Next, Execute, Answer

-----------------------------------------------------------------------------
(* The places *)

Step(w) == Execute(w) \/ Answer(w) \/ Recover(w) \/ Retain(w) \/ Stop(w)

\* A step of one worker moves no other.
LEMMA OthersStay ==
  ASSUME RunInv, NEW w \in Workers, NEW v \in Workers, v # w, Step(w)
  PROVE  pc'[v] = pc[v] /\ job'[v] = job[v] /\ held'[v] = held[v]
<1>1. /\ pc \in [Workers -> Places] /\ job \in [Workers -> Job \cup {None}]
      /\ held \in [Workers -> Record \cup {None}]
  BY DEF RunInv, TypeOK
<1> USE <1>1 DEF Goto, End, Committed, Resume
<1>2. CASE \E q \in Requests, config \in Configs \cup {NoConfig} : Begin(w, q, config)
  BY <1>2 DEF Begin
<1>3. CASE Reserve(w)
  BY <1>3 DEF Reserve
<1>4. CASE Intend(w)
  BY <1>4 DEF Intend
<1>5. CASE Start(w)
  BY <1>5 DEF Start
<1>6. CASE Call(w) \/ Locate(w)
  BY <1>6 DEF Call, Locate
<1>7. CASE \E mark \in Marks : NotRun(w, mark) \/ SaveResult(w, mark) \/ StoreObservation(w, mark)
  BY <1>7 DEF NotRun, SaveResult, StoreObservation
<1>8. CASE Get(w) \/ LockLedger(w) \/ AppendTerminal(w)
  BY <1>8 DEF Get, LockLedger, AppendTerminal
<1>9. CASE \E i \in DOMAIN ledger : SavePublished(w, i)
  BY <1>9 DEF SavePublished
<1>10. CASE Recover(w) \/ Retain(w) \/ Stop(w)
  BY <1>10 DEF Recover, Retain, Stop
<1> QED
  BY <1>2, <1>3, <1>4, <1>5, <1>6, <1>7, <1>8, <1>9, <1>10 DEF Step, Execute, Answer

\* Who is past the start is there alone.
LEMMA AloneStep ==
  ASSUME RunInv, [Next]_vars
  PROVE  Alone'
<1>1. TypeOK /\ Places_OK /\ Alone
  BY DEF RunInv
<1>2. ASSUME NEW w \in Workers, Step(w)
      PROVE  Alone'
  <2>1. CASE Start(w)
    <3>1. ASSUME NEW v \in Workers, pc[v] \in {"call", "called"}
          PROVE  FALSE
      <4>1. attempt = AttemptOf(v, TRUE)
        BY <1>1, <3>1 DEF Places_OK, PlaceOK
      <4>2. attempt = AttemptOf(w, FALSE)
        BY <2>1 DEF Start, Unstarted
      <4> QED
        BY <4>1, <4>2 DEF AttemptOf
    <3> QED
      BY <1>2, <3>1, OthersStay DEF Alone
  <2>2. CASE ~Start(w)
    <3>1. pc'[w] \in {"call", "called"} => pc[w] \in {"call", "called"}
      <4> USE <1>1, <1>2, <2>2 DEF TypeOK, Goto, End, Committed
      <4>1. CASE \E q \in Requests, config \in Configs \cup {NoConfig} : Begin(w, q, config)
        BY <4>1 DEF Begin
      <4>2. CASE Reserve(w) \/ Intend(w) \/ Locate(w) \/ Call(w)
        BY <4>2 DEF Reserve, Intend, Locate, Call
      <4>3. CASE \E mark \in Marks : NotRun(w, mark) \/ SaveResult(w, mark) \/ StoreObservation(w, mark)
        BY <4>3 DEF NotRun, SaveResult, StoreObservation
      <4>4. CASE Get(w) \/ LockLedger(w) \/ AppendTerminal(w)
        BY <4>4 DEF Get, LockLedger, AppendTerminal
      <4>5. CASE \E i \in DOMAIN ledger : SavePublished(w, i)
        BY <4>5 DEF SavePublished
      <4>6. CASE Recover(w) \/ Retain(w) \/ Stop(w)
        BY <4>6 DEF Recover, Retain, Stop
      <4> QED
        BY <4>1, <4>2, <4>3, <4>4, <4>5, <4>6 DEF Step, Execute, Answer
    <3> QED
      BY <1>1, <1>2, <3>1, OthersStay DEF Alone
  <2> QED
    BY <2>1, <2>2
<1>3. CASE ControlMoves \/ OtherAppends \/ UNCHANGED vars
  BY <1>1, <1>3 DEF Alone, ControlMoves, OtherAppends, vars
<1> QED
  BY <1>2, <1>3 DEF Next, Step

\* What a worker knows stays true while others move.
LEMMA OthersPlaces ==
  ASSUME RunInv, NEW w \in Workers, NEW v \in Workers, v # w, Step(w)
  PROVE  PlaceOK(v)'
<1>1. TypeOK /\ JournalSound /\ PlaceOK(v) /\ PlaceOK(w) /\ Alone /\ Past
  BY DEF RunInv, Places_OK
<1>2. pc'[v] = pc[v] /\ job'[v] = job[v] /\ held'[v] = held[v]
  BY OthersStay
<1>3. PlanOf(v)' = PlanOf(v) /\ AttemptOf(v, TRUE)' = AttemptOf(v, TRUE)
  BY <1>2 DEF PlanOf, AttemptOf
<1>4. ASSUME UNCHANGED <<attempt, intent, locator, result, run, calls, ledger>>,
             observation # None => observation' # None
      PROVE  PlaceOK(v)'
  BY <1>1, <1>2, <1>3, <1>4 DEF PlaceOK
<1>5. CASE Reserve(w)
  BY <1>1, <1>2, <1>3, <1>5, WorkersAttempt DEF PlaceOK, Reserve, Unreserved
<1>6. CASE Intend(w)
  BY <1>1, <1>2, <1>3, <1>6, WorkersPlan DEF PlaceOK, Intend
<1>7. CASE Start(w)
  <2>1. pc[v] \notin {"call", "called"}
    BY <1>1, <1>7 DEF PlaceOK, Start, Unstarted, AttemptOf
  <2> QED
    BY <1>1, <1>2, <1>3, <1>7, <2>1 DEF PlaceOK, Start
<1>8. CASE Call(w)
  <2>1. pc[v] \notin {"call", "called"}
    BY <1>1, <1>8 DEF Alone, Call
  <2> QED
    BY <1>1, <1>2, <1>3, <1>8, <2>1 DEF PlaceOK, Call, refs
<1>9. CASE Locate(w)
  <2>1. pc[v] \notin {"call", "called"}
    BY <1>1, <1>9 DEF Alone, Locate
  <2> QED
    BY <1>1, <1>2, <1>3, <1>9, <2>1 DEF PlaceOK, Locate
<1>10. ASSUME NEW mark \in Marks, SaveResult(w, mark)
       PROVE  PlaceOK(v)'
  <2>1. pc[v] \notin {"call", "called"}
    BY <1>1, <1>10 DEF Alone, SaveResult
  <2> QED
    BY <1>1, <1>2, <1>3, <1>10, <2>1 DEF PlaceOK, SaveResult
<1>11. CASE AppendTerminal(w)
  <2>1. Len(ledger) <= Len(ledger')
    BY <1>1, <1>11 DEF TypeOK, AppendTerminal
  <2>2. pc[v] = "got" => job[v].prefix \in Nat
    BY <1>1 DEF PlaceOK, Job
  <2>3. Len(ledger) \in Nat /\ Len(ledger') \in Nat
    BY <1>1, <1>11 DEF TypeOK, AppendTerminal
  <2> QED
    BY <1>1, <1>2, <1>3, <1>11, <2>1, <2>2, <2>3 DEF PlaceOK, AppendTerminal, refs
<1>12. ASSUME NEW i \in DOMAIN ledger, SavePublished(w, i)
       PROVE  PlaceOK(v)'
  <2>1. pc[v] \notin {"call", "called"}
    BY <1>1, <1>12 DEF SavePublished, PlaceOK
  <2> QED
    BY <1>1, <1>2, <1>3, <1>12, <2>1 DEF PlaceOK, SavePublished
<1>13. CASE Retain(w)
  <2>1. ASSUME pc[v] \in {"call", "called"}
        PROVE  FALSE
    <3>1. result = None /\ attempt = AttemptOf(v, TRUE)
      BY <1>1, <2>1 DEF PlaceOK
    <3>2. held[w] \in Record /\ AttemptKept(w) /\ (held[w].ran => result = held[w])
      BY <1>1, <1>13 DEF PlaceOK, Retain
    <3>3. ~held[w].ran
      BY <3>1, <3>2, NoneAssumption
    <3>4. attempt = AttemptOf(w, FALSE)
      BY <3>2, <3>3 DEF AttemptKept, AttemptOf, Record
    <3> QED
      BY <3>1, <3>4 DEF AttemptOf
  <2> QED
    BY <1>1, <1>2, <1>3, <1>13, <2>1 DEF PlaceOK, Retain
<1>14. CASE \/ \E q \in Requests, config \in Configs \cup {NoConfig} : Begin(w, q, config)
            \/ \E mark \in Marks : NotRun(w, mark)
            \/ Get(w) \/ LockLedger(w) \/ Recover(w) \/ Stop(w)
  BY <1>4, <1>14 DEF Begin, NotRun, Get, LockLedger, Recover, Stop, refs
<1>15. ASSUME NEW mark \in Marks, StoreObservation(w, mark)
       PROVE  PlaceOK(v)'
  BY <1>4, <1>15 DEF StoreObservation
<1> QED
  BY <1>5, <1>6, <1>7, <1>8, <1>9, <1>10, <1>11, <1>12, <1>13, <1>14, <1>15 DEF Step, Execute, Answer

\* A step leaves its worker where it may be.
LEMMA OwnPlace ==
  ASSUME RunInv, NEW w \in Workers, Step(w)
  PROVE  PlaceOK(w)'
<1>1. TypeOK /\ JournalSound /\ PlaceOK(w) /\ Past
  BY DEF RunInv, Places_OK
<1>2. /\ pc \in [Workers -> Places] /\ job \in [Workers -> Job \cup {None}]
      /\ held \in [Workers -> Record \cup {None}]
  BY <1>1 DEF TypeOK
<1>3. ASSUME pc'[w] = "idle"
      PROVE  PlaceOK(w)'
  BY <1>3 DEF PlaceOK
<1>4. ASSUME NEW q \in Requests, NEW config \in Configs \cup {NoConfig}, Begin(w, q, config)
      PROVE  PlaceOK(w)'
  <2>1. [head |-> control, request |-> q, config |-> config, prefix |-> 0] \in Job
    BY <1>1, ConstantsAssumption DEF TypeOK, Job
  <2>2. job'[w] \in Job /\ pc'[w] \in {"reserve", "reserved"}
    BY <1>2, <1>4, <2>1 DEF Begin, Goto
  <2> QED
    BY <2>2 DEF PlaceOK
<1>5. CASE Reserve(w)
  BY <1>1, <1>2, <1>3, <1>5 DEF PlaceOK, Reserve, Committed, End, Goto
<1>6. ASSUME NEW mark \in Marks, NotRun(w, mark)
      PROVE  PlaceOK(w)'
  <2>1. job[w] \in Job
    BY <1>1, <1>6 DEF PlaceOK, NotRun
  <2>2. RecordOf(w, FALSE, 0, mark) \in Record
    BY <2>1, ConstantsAssumption DEF RecordOf, Record, Job
  <2>3. pc'[w] = "handle" /\ job'[w] = job[w] /\ held'[w] = RecordOf(w, FALSE, 0, mark)
    BY <1>2, <1>6 DEF NotRun, Goto
  <2> QED
    BY <2>1, <2>2, <2>3 DEF PlaceOK, RecordOf
<1>7. CASE Intend(w)
  <2>1. pc'[w] = "idle" \/ (pc'[w] = "intended" /\ job'[w] = job[w])
    BY <1>2, <1>7 DEF Intend, Committed, End, Goto
  <2>2. job[w] \in Job /\ job[w].config # NoConfig /\ intent' = PlanOf(w)
    BY <1>1, <1>7 DEF PlaceOK, Intend, Mine
  <2> QED
    BY <1>3, <2>1, <2>2 DEF PlaceOK, PlanOf
<1>8. CASE Start(w)
  <2>1. pc'[w] = "idle" \/ (pc'[w] = "call" /\ job'[w] = job[w])
    BY <1>2, <1>8 DEF Start, Committed, End, Goto
  <2>2. job[w] \in Job /\ attempt = AttemptOf(w, FALSE) /\ attempt' = AttemptOf(w, TRUE)
    BY <1>1, <1>8 DEF PlaceOK, Start, Unstarted
  <2>3. attempt # None /\ ~attempt.started
    BY <1>8, <2>2, WorkersAttempt DEF Start, AttemptOf
  <2>4. calls = << >> /\ result = None /\ ~locator
    BY <1>1, <2>3 DEF Past, JournalSound
  <2>5. job[w].config # NoConfig => intent = PlanOf(w)
    BY <1>1, <1>8 DEF PlaceOK, Start, Mine
  <2> QED
    BY <1>3, <1>8, <2>1, <2>2, <2>4, <2>5 DEF PlaceOK, Start, PlanOf, AttemptOf
<1>9. CASE Call(w)
  <2>1. pc'[w] = "called" /\ job'[w] = job[w]
    BY <1>2, <1>9 DEF Call, Goto
  <2>2. calls' = <<PlanOf(w)>>
    BY <1>9, CallIsFirst
  <2> QED
    BY <1>1, <1>9, <2>1, <2>2 DEF PlaceOK, Call, PlanOf, AttemptOf, refs
<1>10. ASSUME NEW mark \in Marks, SaveResult(w, mark)
       PROVE  PlaceOK(w)'
  <2>1. job[w] \in Job
    BY <1>1, <1>10 DEF PlaceOK, SaveResult
  <2>2. result' = RecordOf(w, TRUE, 0, mark)
    BY <1>10 DEF SaveResult
  <2>3. result' \in Record
    BY <2>1, <2>2, ConstantsAssumption DEF RecordOf, Record, Job
  <2>4. pc'[w] = "idle" \/ (pc'[w] = "handle" /\ job'[w] = job[w] /\ held'[w] = result')
    BY <1>2, <1>10 DEF SaveResult, Goto, End
  <2>5. result'.head = job[w].head /\ result'.request = job[w].request
    BY <2>2 DEF RecordOf
  <2> QED
    BY <1>3, <2>1, <2>3, <2>4, <2>5 DEF PlaceOK
<1>11. CASE Locate(w) \/ Stop(w) \/ \E mark \in Marks : StoreObservation(w, mark)
  BY <1>2, <1>3, <1>11 DEF Locate, Stop, StoreObservation, End, Goto
<1>12. CASE Get(w)
  <2>1. intent \in Plan /\ Len(ledger) \in 0..MaxEvents
    BY <1>1, <1>12, ConstantsAssumption DEF TypeOK, Get
  <2> DEFINE j == [head |-> intent.head, request |-> intent.request, config |-> intent.config,
                   prefix |-> Len(ledger)]
  <2>2. j \in Job /\ j.head = intent.head /\ j.prefix = Len(ledger)
    BY <2>1 DEF Plan, Job
  <2>3. pc'[w] = "got" /\ job'[w] = j /\ locator' /\ intent' = intent /\ intent # None /\ ledger' = ledger
    BY <1>2, <1>12 DEF Get, Resume, Goto, refs
  <2> QED
    BY <2>1, <2>2, <2>3 DEF PlaceOK
<1>13. CASE LockLedger(w)
  <2>1. intent \in Plan /\ observation \in Observation /\ locator /\ intent # None
    BY <1>1, <1>13 DEF TypeOK, JournalSound, LockLedger
  <2> DEFINE j == [head |-> intent.head, request |-> intent.request, config |-> intent.config,
                   prefix |-> observation.prefix]
  <2>2. j \in Job /\ j.head = intent.head
    BY <2>1 DEF Plan, Job, Observation
  <2>3. pc'[w] = "locked" /\ job'[w] = j /\ UNCHANGED <<locator, intent, observation>> /\ observation # None
    BY <1>2, <1>13 DEF LockLedger, Resume, Goto, refs
  <2> QED
    BY <2>1, <2>2, <2>3 DEF PlaceOK
<1>14. CASE AppendTerminal(w)
  BY <1>1, <1>2, <1>14 DEF PlaceOK, AppendTerminal, Goto, refs
<1>15. ASSUME NEW i \in DOMAIN ledger, SavePublished(w, i)
       PROVE  PlaceOK(w)'
  <2>1. job[w] \in Job /\ observation \in Observation /\ i \in 0..MaxEvents
    <3>1. job[w] \in Job /\ observation \in Observation
      BY <1>1, <1>15 DEF TypeOK, PlaceOK, SavePublished
    <3>2. i \in 0..MaxEvents
      BY <1>1, ConstantsAssumption DEF TypeOK
    <3> QED
      BY <3>1, <3>2
  <2>2. result' = Published(w, i)
    BY <1>15 DEF SavePublished
  <2>3. result' \in Record
    BY <2>1, <2>2 DEF Published, RecordOf, Record, Job, Observation
  <2>4. pc'[w] = "idle" \/ (pc'[w] = "handle" /\ job'[w] = job[w] /\ held'[w] = result')
    BY <1>2, <1>15 DEF SavePublished, Goto, End
  <2>5. result'.head = job[w].head /\ result'.request = job[w].request
    BY <2>2 DEF Published, RecordOf
  <2> QED
    BY <1>3, <2>1, <2>3, <2>4, <2>5 DEF PlaceOK
<1>16. CASE Recover(w)
  <2>1. result \in Record
    BY <1>1, <1>16 DEF TypeOK, Recover
  <2> DEFINE j == [head |-> result.head, request |-> result.request, config |-> NoConfig, prefix |-> 0]
  <2>2. j \in Job /\ j.head = result.head /\ j.request = result.request
    BY <2>1, ConstantsAssumption DEF Record, Job
  <2>3. pc'[w] = "handle" /\ job'[w] = j /\ held'[w] = result
    BY <1>2, <1>16 DEF Recover, Goto
  <2> QED
    BY <2>1, <2>2, <2>3 DEF PlaceOK
<1>17. CASE Retain(w)
  <2>1. pc'[w] = "idle" \/ (pc'[w] = "handle" /\ job'[w] = job[w] /\ held'[w] = held[w])
    BY <1>2, <1>17 DEF Retain, End, Goto
  <2> QED
    BY <1>1, <1>3, <1>17, <2>1 DEF PlaceOK, Retain
<1> QED
  BY <1>4, <1>5, <1>6, <1>7, <1>8, <1>9, <1>10, <1>11, <1>12, <1>13, <1>14, <1>15, <1>16, <1>17
  DEF Step, Execute, Answer

\* Every step keeps what the places say.
LEMMA PlacesStep ==
  ASSUME RunInv, [Next]_vars
  PROVE  Places_OK'
<1>1. ASSUME NEW w \in Workers, Step(w)
      PROVE  Places_OK'
  BY <1>1, OthersPlaces, OwnPlace DEF Places_OK
<1>2. CASE ControlMoves
  BY <1>2 DEF RunInv, Places_OK, PlaceOK, PlanOf, AttemptOf, ControlMoves, refs
<1>3. CASE OtherAppends
  <2>1. Len(ledger) \in Nat /\ Len(ledger') \in Nat /\ Len(ledger) <= Len(ledger')
    BY <1>3 DEF RunInv, TypeOK, OtherAppends
  <2>2. \A w \in Workers : pc[w] = "got" => job[w].prefix \in Nat
    <3>1. \A w \in Workers : pc[w] = "got" => job[w] \in Job
      BY DEF RunInv, Places_OK, PlaceOK
    <3> QED
      BY <3>1, ConstantsAssumption DEF Job
  <2> QED
    BY <1>3, <2>1, <2>2 DEF RunInv, Places_OK, PlaceOK, PlanOf, AttemptOf, OtherAppends, refs
<1>4. CASE UNCHANGED vars
  BY <1>4 DEF RunInv, Places_OK, PlaceOK, PlanOf, AttemptOf, vars, refs
<1> QED
  BY <1>1, <1>2, <1>3, <1>4 DEF Next, Step

-----------------------------------------------------------------------------
(* The ledger *)

\* What an append does to the terminal events.
LEMMA TerminalsAppended ==
  ASSUME TypeOK, NEW e, ledger' = Append(ledger, e)
  PROVE  /\ Len(ledger') = Len(ledger) + 1
         /\ e # "terminal" => Terminals' = Terminals
         /\ e = "terminal" => Terminals' = Terminals \cup {Len(ledger) + 1}
<1>1. ledger \in Seq({"other", "terminal"}) /\ Len(ledger) \in Nat
  BY DEF TypeOK
<1>2. Len(ledger') = Len(ledger) + 1 /\ DOMAIN ledger' = 1..Len(ledger) + 1 /\ DOMAIN ledger = 1..Len(ledger)
  BY <1>1
<1>3. \A i \in DOMAIN ledger : ledger'[i] = ledger[i]
  BY <1>1, <1>2
<1>4. ledger'[Len(ledger) + 1] = e
  BY <1>1
<1> QED
  BY <1>1, <1>2, <1>3, <1>4 DEF Terminals

\* Every step keeps the terminal event single and after what the GET saw.
LEMMA EventsStep ==
  ASSUME RunInv, [Next]_vars
  PROVE  EventsOK'
<1>1. TypeOK /\ JournalSound /\ Places_OK /\ EventsOK
  BY DEF RunInv
<1>2. Len(ledger) \in Nat /\ \A i \in Terminals : i \in Nat
  BY <1>1 DEF TypeOK, Terminals
<1>3. observation # None => observation.prefix \in Nat
  BY <1>1, ConstantsAssumption DEF TypeOK, Observation
<1> USE DEF EventsOK, TerminalOnce
<1>4. ASSUME UNCHANGED <<observation, result, ledger>>
      PROVE  EventsOK'
  BY <1>1, <1>4 DEF Terminals
<1>5. ASSUME NEW w \in Workers, NEW mark \in Marks, SaveResult(w, mark)
      PROVE  EventsOK'
  <2>1. result'.end = 0
    BY <1>5 DEF SaveResult, RecordOf
  <2>2. UNCHANGED <<observation, ledger>> /\ Terminals' = Terminals
    BY <1>5 DEF SaveResult, Terminals
  <2> QED
    BY <1>1, <2>1, <2>2
<1>6. ASSUME NEW w \in Workers, NEW mark \in Marks, StoreObservation(w, mark)
      PROVE  EventsOK'
  <2>1. Terminals' = {} /\ result' = None /\ observation' = [prefix |-> job[w].prefix, mark |-> mark]
    BY <1>1, <1>6 DEF StoreObservation, Terminals
  <2>2. job[w].prefix <= Len(ledger) /\ ledger' = ledger
    BY <1>1, <1>6 DEF StoreObservation, Places_OK, PlaceOK
  <2> QED
    BY <2>1, <2>2
<1>7. ASSUME NEW w \in Workers, AppendTerminal(w)
      PROVE  EventsOK'
  <2>1. observation # None /\ UNCHANGED <<observation, result>>
    BY <1>1, <1>7 DEF AppendTerminal, Places_OK, PlaceOK, refs
  <2>2. CASE TerminalFound
    BY <1>4, <1>7, <2>1, <2>2 DEF AppendTerminal
  <2>3. CASE ~TerminalFound
    <3>1. ledger' = Append(ledger, "terminal") /\ result = None /\ Terminals = {}
      BY <1>7, <2>3 DEF AppendTerminal, TerminalFound
    <3>2. Len(ledger') = Len(ledger) + 1 /\ Terminals' = {Len(ledger) + 1}
      BY <1>1, <3>1, TerminalsAppended
    <3> QED
      BY <1>1, <1>2, <1>3, <2>1, <3>1, <3>2
  <2> QED
    BY <2>2, <2>3
<1>8. ASSUME NEW w \in Workers, NEW i \in DOMAIN ledger, SavePublished(w, i)
      PROVE  EventsOK'
  <2>1. Terminals = {i} /\ result' = Published(w, i) /\ UNCHANGED <<observation, ledger>>
    BY <1>8 DEF SavePublished
  <2>2. Terminals' = {i} /\ result'.end = i
    BY <2>1 DEF Terminals, Published, RecordOf
  <2> QED
    BY <1>1, <1>2, <1>3, <2>1, <2>2
<1>9. CASE OtherAppends
  <2>1. ledger' = Append(ledger, "other") /\ UNCHANGED <<observation, result>>
    BY <1>9 DEF OtherAppends, refs
  <2>2. Len(ledger') = Len(ledger) + 1 /\ Terminals' = Terminals
    BY <1>1, <2>1, TerminalsAppended
  <2> QED
    BY <1>1, <1>2, <1>3, <2>1, <2>2
<1>10. ASSUME NEW w \in Workers,
              \/ \E q \in Requests, config \in Configs \cup {NoConfig} : Begin(w, q, config)
              \/ \E mark \in Marks : NotRun(w, mark)
              \/ Reserve(w) \/ Intend(w) \/ Start(w) \/ Call(w) \/ Locate(w) \/ Get(w) \/ LockLedger(w)
              \/ Recover(w) \/ Retain(w) \/ Stop(w)
       PROVE  EventsOK'
  BY <1>4, <1>10 DEF Begin, NotRun, Reserve, Intend, Start, Call, Locate, Get, LockLedger, Recover, Retain,
                     Stop, refs
<1>11. CASE ControlMoves \/ UNCHANGED vars
  BY <1>4, <1>11 DEF ControlMoves, vars, refs
<1> QED
  BY <1>5, <1>6, <1>7, <1>8, <1>9, <1>10, <1>11 DEF Next, Execute, Answer

-----------------------------------------------------------------------------
(* The theorems *)

LEMMA InitInv == Init => RunInv
<1> SUFFICES ASSUME Init PROVE RunInv
  OBVIOUS
<1> USE DEF Init
<1>1. TypeOK
  <2>1. control \in Heads /\ Len(ledger) <= MaxEvents
    BY ConstantsAssumption DEF Heads
  <2>2. \A w \in Workers : pc[w] \in {"locked", "append"} <=> lock = w
    BY ConstantsAssumption
  <2>3. /\ ledger \in Seq({"other", "terminal"})
        /\ calls \in Seq([head : Heads, request : Requests, config : Configs \cup {NoConfig}])
    OBVIOUS
  <2>4. pc \in [Workers -> Places] /\ job \in [Workers -> Job \cup {None}] /\ held \in [Workers -> Record \cup {None}]
    BY DEF Places
  <2> QED
    BY <2>1, <2>2, <2>3, <2>4 DEF TypeOK
<1>2. JournalSound /\ Places_OK /\ Alone /\ Past
  BY DEF JournalSound, Places_OK, PlaceOK, Alone, Past
<1>3. SentAsPlanned /\ EventsOK
  BY DEF SentAsPlanned, EventsOK, TerminalOnce, Terminals
<1> QED
  BY <1>1, <1>2, <1>3 DEF RunInv

LEMMA StepInv == RunInv /\ [Next]_vars => RunInv'
BY TypeStep, JournalStep, SentStep, PastStep, AloneStep, PlacesStep, EventsStep DEF RunInv

LEMMA Invariance == Spec => []RunInv
BY InitInv, StepInv, PTL DEF Spec

\* The state is well typed, and the ledger's lock is held by who publishes.
THEOREM TypeCorrect == Spec => []TypeOK
BY Invariance, PTL DEF RunInv

\* The refs of a run never contradict each other.
THEOREM JournalAgrees == Spec => []JournalSound
BY Invariance, PTL DEF RunInv

\* What was POSTed is the durable intent.
THEOREM PlansKept == Spec => []SentAsPlanned
BY Invariance, PTL DEF RunInv

\* The ledger holds one terminal event of the review at most, where the result says.
THEOREM OneTerminal == Spec => []TerminalOnce
BY Invariance, PTL DEF RunInv, EventsOK

\* A head that the run was not reserved under can only see its history end.
THEOREM FrozenByReclaim == Spec => ReclaimFreezes
<1>1. RunInv /\ [Next]_vars =>
        (attempt # None /\ control # attempt.head =>
           /\ UNCHANGED <<attempt, intent, observation, run>>
           /\ result' = result \/ result'.end = 0)
  <2> SUFFICES ASSUME RunInv, [Next]_vars, attempt # None, control # attempt.head
               PROVE  /\ UNCHANGED <<attempt, intent, observation, run>>
                      /\ result' = result \/ result'.end = 0
    OBVIOUS
  <2>1. TypeOK /\ JournalSound /\ Places_OK
    BY DEF RunInv
  <2>2. intent # None => intent.head = attempt.head
    BY <2>1 DEF JournalSound, SameRequest
  <2>3. ASSUME NEW w \in Workers
        PROVE  ~Reserve(w)
    BY DEF Reserve, Unreserved
  <2>4. ASSUME NEW w \in Workers, attempt = AttemptOf(w, FALSE) \/ attempt = AttemptOf(w, TRUE)
        PROVE  ~Fenced(w)
    BY <2>4 DEF AttemptOf, Fenced
  <2>5. ASSUME NEW w \in Workers, Start(w)
        PROVE  FALSE
    BY <2>4, <2>5 DEF Start, Unstarted
  <2>6. ASSUME NEW w \in Workers, Intend(w)
        PROVE  UNCHANGED <<attempt, intent, observation, result, run>>
    BY <2>4, <2>6 DEF Intend
  <2>7. ASSUME NEW w \in Workers, NEW mark \in Marks, StoreObservation(w, mark)
        PROVE  FALSE
    BY <2>1, <2>2, <2>7 DEF StoreObservation, Places_OK, PlaceOK, Fenced
  <2>8. ASSUME NEW w \in Workers, Retain(w)
        PROVE  FALSE
    BY <2>8 DEF Retain, AttemptKept, AttemptOf, Fenced
  <2>9. ASSUME NEW w \in Workers, NEW i \in DOMAIN ledger, SavePublished(w, i)
        PROVE  UNCHANGED <<attempt, intent, observation, result, run>>
    BY <2>4, <2>9 DEF SavePublished
  <2>10. ASSUME NEW w \in Workers, NEW mark \in Marks, SaveResult(w, mark)
         PROVE  UNCHANGED <<attempt, intent, observation, run>> /\ result'.end = 0
    BY <2>10 DEF SaveResult, RecordOf
  <2>11. ASSUME NEW w \in Workers,
                \/ \E q \in Requests, config \in Configs \cup {NoConfig} : Begin(w, q, config)
                \/ \E mark \in Marks : NotRun(w, mark)
                \/ Call(w) \/ Locate(w) \/ Get(w) \/ LockLedger(w) \/ AppendTerminal(w) \/ Recover(w) \/ Stop(w)
         PROVE  UNCHANGED <<attempt, intent, observation, result, run>>
    BY <2>11 DEF Begin, NotRun, Call, Locate, Get, LockLedger, AppendTerminal, Recover, Stop, refs
  <2>12. CASE ControlMoves \/ OtherAppends \/ UNCHANGED vars
    BY <2>12 DEF ControlMoves, OtherAppends, vars, refs
  <2> QED
    BY <2>3, <2>5, <2>6, <2>7, <2>8, <2>9, <2>10, <2>11, <2>12 DEF Next, Execute, Answer
<1> QED
  BY <1>1, Invariance, PTL DEF Spec, ReclaimFreezes

\* The run implements the promise to its operator: one call, and a record that says so.
THEOREM CalledAtMostOnce == Spec => CalledOnce
<1> DEFINE times == Len(calls)
           verdict == IF run = None THEN None ELSE run.ran
<1>1. Init => Once!Init
  BY DEF Init, Once!Init
<1>2. RunInv /\ [Next]_vars => [Once!Next]_<<times, verdict>>
  <2> SUFFICES ASSUME RunInv, [Next]_vars
               PROVE  [Once!Next]_<<times, verdict>>
    OBVIOUS
  <2>1. TypeOK /\ JournalSound /\ Places_OK /\ Past
    BY DEF RunInv
  <2>2. ASSUME UNCHANGED <<calls, run>>
        PROVE  UNCHANGED <<times, verdict>>
    BY <2>2
  <2>3. ASSUME NEW w \in Workers, Call(w)
        PROVE  Once!Next
    <3>1. times = 0 /\ times' = 1 /\ run = None /\ run' = None
      <4>1. calls = << >> /\ calls' = <<PlanOf(w)>> /\ run = None /\ run' = run
        BY <2>3, CallIsFirst DEF Call, refs
      <4>2. Len(calls') = 1
        BY <4>1, LenOne
      <4> QED
        BY <4>1, <4>2
    <3> QED
      BY <3>1 DEF Once!Next, Once!Call
  <2>4. ASSUME NEW w \in Workers, Retain(w)
        PROVE  Once!Next
    <3>1. run = None /\ run' = held[w] /\ calls' = calls /\ AttemptKept(w)
      BY <2>4 DEF Retain
    <3>2. held[w] \in Record /\ held[w] # None
      BY <2>1, <2>4, NoneAssumption DEF Retain, Places_OK, PlaceOK
    <3>3. held[w].ran \in BOOLEAN
      BY <3>2 DEF Record
    <3>4. held[w].ran => times = 1
      BY <2>1, <2>4, <3>2 DEF Retain, Past
    <3>5. ~held[w].ran => times = 0
      <4>1. ASSUME ~held[w].ran
            PROVE  attempt # None /\ ~attempt.started
        BY <2>4, <3>1, <3>3, <4>1, WorkersAttempt DEF Retain, AttemptKept, AttemptOf
      <4> QED
        BY <2>1, <4>1 DEF Past
    <3>6. held[w].ran = (times = 1)
      BY <3>3, <3>4, <3>5
    <3> QED
      BY <3>1, <3>2, <3>6 DEF Once!Next, Once!Decide
  <2>5. ASSUME NEW w \in Workers,
               \/ \E q \in Requests, config \in Configs \cup {NoConfig} : Begin(w, q, config)
               \/ \E mark \in Marks : NotRun(w, mark) \/ SaveResult(w, mark) \/ StoreObservation(w, mark)
               \/ Reserve(w) \/ Intend(w) \/ Start(w) \/ Locate(w) \/ Get(w) \/ LockLedger(w)
               \/ AppendTerminal(w) \/ Recover(w) \/ Stop(w)
               \/ \E i \in DOMAIN ledger : SavePublished(w, i)
        PROVE  UNCHANGED <<calls, run>>
    BY <2>5 DEF Begin, NotRun, SaveResult, StoreObservation, Reserve, Intend, Start, Locate, Get, LockLedger,
                AppendTerminal, SavePublished, Recover, Stop, refs
  <2>6. CASE ControlMoves \/ OtherAppends \/ UNCHANGED vars
    BY <2>2, <2>6 DEF ControlMoves, OtherAppends, vars, refs
  <2> QED
    BY <2>2, <2>3, <2>4, <2>5, <2>6 DEF Next, Execute, Answer
<1> QED
  BY <1>1, <1>2, Invariance, PTL DEF Spec, CalledOnce, Once!Spec
===============================================================================
