------------------------------ MODULE ReviewRun ------------------------------
(***************************************************************************)
(* One UI review run of lib/ui-review-run.js, ui-review-attempt.js,        *)
(* ui-review-result.js and the openai-ui-review-* modules: reserve, start, *)
(* call the reviewer or POST to the provider, journal the result, recover  *)
(* and retain it, by any number of processes that die, lose answers and    *)
(* try again.                                                              *)
(*                                                                         *)
(* Each fact about the run is a Git ref.  A transaction of `git update-ref *)
(* --stdin` verifies some refs and creates or moves one; it is one action  *)
(* here, and the reads before it that it does not verify are another.  A   *)
(* ref's commit is named by its content: commits have a fixed date, so     *)
(* equal content on an equal parent is the same commit.                    *)
(***************************************************************************)
EXTENDS Naturals, Sequences

CONSTANTS
  Workers,     \* processes in the owner's worktree; in any other control() refuses
  Requests,    \* what is to be reviewed: the materials and the current input
  Configs,     \* provider configurations of a dispatch
  Marks,       \* what else a record holds: observation ids, outcomes
  MaxHead,     \* bound on the moves of the review control
  MaxEvents,   \* bound on the execution ledger
  NoConfig, None

ASSUME ConstantsAssumption ==
  /\ MaxHead \in Nat \ {0} /\ MaxEvents \in Nat
  /\ NoConfig \notin Configs /\ None \notin Workers

VARIABLES
  control,      \* the review control's head; another owner or snapshot is another head
  attempt,      \* review-attempts: reserved, then execution-unknown
  intent,       \* review-dispatches: the request the provider will be sent
  locator,      \* review-locators: has the provider's response an id in Git?
  observation,  \* provider-observations: the stored answer, and the ledger's length then
  result,       \* review-results: the journal of the outcome
  run,          \* review-runs: the retained RunRecord
  ledger,       \* the execution ledger after the implementations' events
  lock,         \* who holds the ledger's state lock
  calls,        \* the calls made to reviewers: a host's callback or a POST
  pc, job, held \* each worker's place, input, and the record its handle holds

refs == <<attempt, intent, locator, observation, result, run>>
vars == <<control, refs, ledger, lock, calls, pc, job, held>>

Heads   == 1..MaxHead
Attempt == [head : Heads, request : Requests, started : BOOLEAN]
Plan    == [head : Heads, request : Requests, config : Configs]
\* A RunRecord: did the reviewer run, and where the ledger holds its event (0: it is unlinked).
Record  == [head : Heads, request : Requests, ran : BOOLEAN, end : 0..MaxEvents, mark : Marks]
Job     == [head : Heads, request : Requests, config : Configs \cup {NoConfig}, prefix : 0..MaxEvents]
Observation == [prefix : 0..MaxEvents, mark : Marks]

ASSUME NoneAssumption ==
  None \notin Attempt /\ None \notin Plan /\ None \notin Record /\ None \notin Job /\ None \notin Observation

AttemptOf(w, started) == [head |-> job[w].head, request |-> job[w].request, started |-> started]
PlanOf(w) == [head |-> job[w].head, request |-> job[w].request, config |-> job[w].config]
RecordOf(w, ran, end, mark) ==
  [head |-> job[w].head, request |-> job[w].request, ran |-> ran, end |-> end, mark |-> mark]

Init ==
  /\ control = 1
  /\ attempt = None /\ intent = None /\ locator = FALSE
  /\ observation = None /\ result = None /\ run = None
  /\ ledger = << >> /\ lock = None /\ calls = << >>
  /\ pc = [w \in Workers |-> "idle"]
  /\ job = [w \in Workers |-> None]
  /\ held = [w \in Workers |-> None]

Goto(w, place) == pc' = [pc EXCEPT ![w] = place]
\* The call ends: with its answer, with publication_uncertain, or with the process.
End(w) ==
  /\ Goto(w, "idle")
  /\ job' = [job EXCEPT ![w] = None]
  /\ held' = [held EXCEPT ![w] = None]
\* A transaction was committed: git says so and the ref reads back, or its answer is lost.
Committed(w, place) ==
  \/ Goto(w, place) /\ UNCHANGED <<job, held>>
  \/ End(w)

\* control(): the caller's head is the control's, so are generation, owner and snapshot.
Owned(w) == control = job[w].head
\* Mutant: the transaction does not verify the control ref.
Fenced_byTheReadBefore(w) == TRUE
\* "verify <control ref>" of a transaction.
Fenced(w) == control = job[w].head

-----------------------------------------------------------------------------
(* Reservation and execution: observeUiReviewRun and dispatchOpenAiUiReviewRun *)

\* ACTION: either call begins: the caller owns the batch now, no run is retained, and the run
\* id is free or reserved for this very request (attempt_conflict, execution_unknown).
Begin(w, q, config) ==
  /\ pc[w] = "idle"
  /\ run = None
  /\ attempt \in {None, [head |-> control, request |-> q, started |-> FALSE]}
  /\ job' = [job EXCEPT ![w] = [head |-> control, request |-> q, config |-> config, prefix |-> 0]]
  /\ Goto(w, IF attempt = None THEN "reserve" ELSE "reserved")
  /\ UNCHANGED <<control, refs, ledger, lock, calls, held>>

\* Mutant: the attempt ref is written, not created.
Unreserved_overwrites == TRUE
Unreserved == attempt = None

\* ACTION: A.reserve: the transaction that creates the attempt.
Reserve(w) ==
  /\ pc[w] = "reserve"
  /\ Fenced(w) /\ run = None /\ Unreserved
  /\ attempt' = AttemptOf(w, FALSE)
  /\ Committed(w, "reserved")
  /\ UNCHANGED <<control, intent, locator, observation, result, run, ledger, lock, calls>>

\* ACTION: the ledger or the materials are no longer right, so the callback is not reached;
\* the observation is captured all the same, in a handle that says so.
NotRun(w, mark) ==
  /\ pc[w] = "reserved" /\ job[w].config = NoConfig
  /\ held' = [held EXCEPT ![w] = RecordOf(w, FALSE, 0, mark)]
  /\ Goto(w, "handle")
  /\ UNCHANGED <<control, refs, ledger, lock, calls, job>>

\* Mutant: any intent of the run id is taken for one's own.
Mine_any(w) == TRUE
\* An intent that exists must be equal to the caller's (dispatch_conflict).
Mine(w) == intent = PlanOf(w)

\* ACTION: J.intent of a dispatch: find one's own intent, or create it.
Intend(w) ==
  /\ pc[w] = "reserved" /\ job[w].config # NoConfig
  /\ \/ /\ intent # None /\ Mine(w) /\ attempt = AttemptOf(w, FALSE)
        /\ Goto(w, "intended")
        /\ UNCHANGED <<intent, job, held>>
     \/ /\ intent = None /\ Fenced(w) /\ run = None /\ attempt = AttemptOf(w, FALSE)
        /\ intent' = PlanOf(w)
        /\ Committed(w, "intended")
  /\ UNCHANGED <<control, attempt, locator, observation, result, run, ledger, lock, calls>>

\* Mutant: the attempt ref is moved whatever it points to.
Unstarted_assumed(w) == TRUE
Unstarted(w) == attempt = AttemptOf(w, FALSE)

\* ACTION: A.start: the transaction that spends the reservation.  Only the worker that gets its
\* answer goes on to the call.
Start(w) ==
  /\ \/ pc[w] = "reserved" /\ job[w].config = NoConfig
     \/ pc[w] = "intended" /\ Mine(w)
  /\ Fenced(w) /\ run = None /\ Unstarted(w)
  /\ attempt' = AttemptOf(w, TRUE)
  /\ Committed(w, "call")
  /\ UNCHANGED <<control, intent, locator, observation, result, run, ledger, lock, calls>>

\* ACTION: the host's reviewer is called, or the request is POSTed.  An owner who lost the batch
\* since is not stopped any more.
Call(w) ==
  /\ pc[w] = "call"
  /\ calls' = Append(calls, PlanOf(w))
  /\ Goto(w, "called")
  /\ UNCHANGED <<control, refs, ledger, lock, job, held>>

\* ACTION: J.save: the outcome of the callback, a failure too, is journaled before the handle is
\* returned; the control is not verified.
SaveResult(w, mark) ==
  /\ pc[w] = "called" /\ job[w].config = NoConfig
  /\ attempt = AttemptOf(w, TRUE) /\ run = None /\ result = None
  /\ result' = RecordOf(w, TRUE, 0, mark)
  /\ \/ Goto(w, "handle") /\ held' = [held EXCEPT ![w] = result'] /\ UNCHANGED job
     \/ End(w)
  /\ UNCHANGED <<control, attempt, intent, locator, observation, run, ledger, lock, calls>>

\* ACTION: locator(): the id of the response the POST returned is journaled, under a later
\* owner too.
Locate(w) ==
  /\ pc[w] = "called" /\ job[w].config # NoConfig
  /\ attempt = AttemptOf(w, TRUE) /\ intent = PlanOf(w) /\ ~locator
  /\ locator' = TRUE
  /\ End(w)
  /\ UNCHANGED <<control, attempt, intent, observation, result, run, ledger, lock, calls>>

-----------------------------------------------------------------------------
(* The provider's answer: observe (GET) and publishOpenAiUiReviewResult *)

\* The run input is the original one, which the intent holds.
Resume(w, prefix) ==
  job' = [job EXCEPT ![w] = [head |-> intent.head, request |-> intent.request,
                             config |-> intent.config, prefix |-> prefix]]

\* ACTION: a GET of the located response; check() binds it to the ledger as it is now.
Get(w) ==
  /\ pc[w] = "idle"
  /\ intent # None /\ locator /\ control = intent.head
  /\ observation = None /\ result = None /\ run = None
  /\ Resume(w, Len(ledger))
  /\ Goto(w, "got")
  /\ UNCHANGED <<control, refs, ledger, lock, calls, held>>

\* ACTION: the transaction that stores a completed answer.
StoreObservation(w, mark) ==
  /\ pc[w] = "got"
  /\ Fenced(w) /\ observation = None /\ result = None /\ run = None
  /\ observation' = [prefix |-> job[w].prefix, mark |-> mark]
  /\ End(w)
  /\ UNCHANGED <<control, attempt, intent, locator, result, run, ledger, lock, calls>>

\* ACTION: publication takes the ledger's lock, then checks the owner, the journal and the
\* ledger.  (A lock of a process that died is StateLock's: here its End frees it.)
LockLedger(w) ==
  /\ pc[w] = "idle" /\ lock = None
  /\ observation # None /\ control = intent.head
  /\ lock' = w
  /\ Resume(w, observation.prefix)
  /\ Goto(w, "locked")
  /\ UNCHANGED <<control, refs, ledger, calls, held>>

Terminals == {i \in DOMAIN ledger : ledger[i] = "terminal"}
\* Mutant: the ledger is not searched for the event of an earlier try.
TerminalFound_never == FALSE
TerminalFound == Terminals # {}

\* ACTION: the review's terminal event is appended, unless it is there already; a result
\* without its event is a conflict.  The control may have moved since it was checked.
AppendTerminal(w) ==
  /\ pc[w] = "locked"
  /\ IF TerminalFound
     THEN UNCHANGED ledger
     ELSE /\ result = None /\ run = None /\ Len(ledger) < MaxEvents
          /\ ledger' = Append(ledger, "terminal")
  /\ Goto(w, "append")
  /\ UNCHANGED <<control, refs, lock, calls, job, held>>

\* record(): the same bytes at each try, because it ends at the event and not at the ledger.
Published(w, i) == RecordOf(w, TRUE, i, observation.mark)

\* ACTION: E.save with the publication's fences; a result that is there must be this one, and
\* the ledger must hold one such event.  The caller gets a handle if the control is its own.
SavePublished(w, i) ==
  /\ pc[w] = "append" /\ Terminals = {i}
  /\ \/ result = Published(w, i) /\ UNCHANGED result
     \/ /\ result = None /\ run = None
        /\ Fenced(w) /\ attempt = AttemptOf(w, TRUE)
        /\ result' = Published(w, i)
  /\ lock' = None
  /\ \/ /\ Owned(w)
        /\ Goto(w, "handle") /\ held' = [held EXCEPT ![w] = result'] /\ UNCHANGED job
     \/ End(w)
  /\ UNCHANGED <<control, attempt, intent, locator, observation, run, ledger, calls>>

-----------------------------------------------------------------------------
(* Recovery and retention *)

\* ACTION: recoverUiReviewRun: a handle from the journal, for the original owner only.
Recover(w) ==
  /\ pc[w] = "idle"
  /\ result # None /\ control = result.head
  /\ job' = [job EXCEPT ![w] = [head |-> result.head, request |-> result.request,
                                config |-> NoConfig, prefix |-> 0]]
  /\ held' = [held EXCEPT ![w] = result]
  /\ Goto(w, "handle")
  /\ UNCHANGED <<control, refs, ledger, lock, calls>>

\* Mutant: the attempt as it was before the call is verified.
AttemptKept_asReserved(w) == attempt = AttemptOf(w, FALSE)
\* Retention verifies the attempt of the handle: still only reserved, if it was not run.
AttemptKept(w) == attempt = AttemptOf(w, held[w].ran)

\* ACTION: retainUiReviewRun's transaction.  A caller whose answer is lost may use the handle
\* again, and then finds the run retained.
Retain(w) ==
  /\ pc[w] = "handle"
  /\ run = None /\ Fenced(w) /\ AttemptKept(w)
  /\ held[w].ran => result = held[w]
  /\ run' = held[w]
  /\ End(w) \/ UNCHANGED <<pc, job, held>>
  /\ UNCHANGED <<control, attempt, intent, locator, observation, result, ledger, lock, calls>>

\* withExecutionLedgerLock's finally.
Freed(w) == IF lock = w THEN None ELSE lock

\* ACTION: any failure, conflict or refusal, the use of a handle that changes nothing, the
\* provider's error, and the death of the process.
Stop(w) ==
  /\ pc[w] # "idle"
  /\ End(w)
  /\ lock' = Freed(w)
  /\ UNCHANGED <<control, refs, ledger, calls>>

-----------------------------------------------------------------------------
(* The environment *)

\* ACTION: the batch gets another owner, generation or snapshot (module ReviewControl).
ControlMoves ==
  /\ control < MaxHead
  /\ control' = control + 1
  /\ UNCHANGED <<refs, ledger, lock, calls, pc, job, held>>

\* ACTION: another agent records an event.
OtherAppends ==
  /\ lock = None /\ Len(ledger) < MaxEvents
  /\ ledger' = Append(ledger, "other")
  /\ UNCHANGED <<control, refs, lock, calls, pc, job, held>>

Execute(w) ==
  \/ \E q \in Requests, config \in Configs \cup {NoConfig} : Begin(w, q, config)
  \/ Reserve(w) \/ Intend(w) \/ Start(w) \/ Call(w) \/ Locate(w)
  \/ \E mark \in Marks : NotRun(w, mark) \/ SaveResult(w, mark)

Answer(w) ==
  \/ Get(w) \/ LockLedger(w) \/ AppendTerminal(w)
  \/ \E i \in DOMAIN ledger : SavePublished(w, i)
  \/ \E mark \in Marks : StoreObservation(w, mark)

Next ==
  \/ \E w \in Workers : Execute(w) \/ Answer(w) \/ Recover(w) \/ Retain(w) \/ Stop(w)
  \/ ControlMoves \/ OtherAppends

Spec == Init /\ [][Next]_vars

\* Every call ends (git and the provider have timeouts), and callers that did not get through
\* try again: some try of each step is not interrupted, if it is possible again and again.
Fairness ==
  /\ \A w \in Workers : WF_vars(Stop(w))
  /\ SF_vars(\E w \in Workers : Get(w))
  /\ SF_vars(\E w \in Workers, mark \in Marks : StoreObservation(w, mark))
  /\ SF_vars(\E w \in Workers : LockLedger(w))
  /\ SF_vars(\E w \in Workers : AppendTerminal(w))
  /\ SF_vars(\E w \in Workers, i \in DOMAIN ledger : SavePublished(w, i))
  /\ SF_vars(\E w \in Workers : Recover(w))
  /\ SF_vars(\E w \in Workers : Retain(w))

FairSpec == Spec /\ Fairness

-----------------------------------------------------------------------------
(* Properties *)

Places == {"idle", "reserve", "reserved", "intended", "call", "called", "handle", "got",
           "locked", "append"}

TypeOK ==
  /\ control \in Heads
  /\ attempt \in Attempt \cup {None}
  /\ intent \in Plan \cup {None}
  /\ locator \in BOOLEAN
  /\ observation \in Observation \cup {None}
  /\ result \in Record \cup {None} /\ run \in Record \cup {None}
  /\ ledger \in Seq({"other", "terminal"}) /\ Len(ledger) <= MaxEvents
  /\ calls \in Seq([head : Heads, request : Requests, config : Configs \cup {NoConfig}])
  /\ pc \in [Workers -> Places]
  /\ job \in [Workers -> Job \cup {None}]
  /\ held \in [Workers -> Record \cup {None}]
  /\ lock \in Workers \cup {None}
  /\ \A w \in Workers : pc[w] \in {"locked", "append"} <=> lock = w

\* However many processes run the run, die in it, lose git's answers and try again, the
\* reviewer is called at most once, and the retained record says truthfully whether it was.
Once == INSTANCE ReviewOnce WITH times <- Len(calls), Undecided <- None,
                                 verdict <- IF run = None THEN None ELSE run.ran
CalledOnce == Once!Spec

SameRequest(x, y) == x.head = y.head /\ x.request = y.request
\* The refs never come to say things together that a reader rejects for good (record_invalid,
\* result_conflict): each is written by another process, after reads of the others.
JournalSound ==
  /\ intent # None => attempt # None /\ SameRequest(attempt, intent)
  /\ locator => intent # None /\ attempt.started /\ calls = <<intent>>
  /\ observation # None => locator
  /\ result # None => result.ran /\ attempt # None /\ attempt.started /\ SameRequest(attempt, result)
  /\ run # None => attempt # None /\ SameRequest(attempt, run) /\ run.ran = attempt.started
  /\ run # None /\ run.ran => run = result

\* What was POSTed is what the durable intent says, whichever of the callers that prepared a
\* request got to send it.
SentAsPlanned ==
  \A i \in DOMAIN calls : calls[i].config # NoConfig => intent = calls[i]

\* The ledger holds the review's terminal event at most once, over any number of publications
\* that were interrupted after it; a published result points to it, after what the GET saw.
TerminalOnce ==
  /\ \A i, j \in Terminals : i = j
  /\ result # None /\ result.end > 0 => Terminals = {result.end} /\ result.end > observation.prefix

\* Once the batch has moved on from the head under which a run was reserved, the run is not
\* started, planned, answered, published or retained any more, whoever was half-way through
\* that; only what was under way may leave its history.
ReclaimFreezes ==
  [][attempt # None /\ control # attempt.head =>
       /\ UNCHANGED <<attempt, intent, observation, run>>
       /\ result' = result \/ result'.end = 0]_vars

\* No interruption wedges a run whose outcome is in Git: while its owner keeps the batch, and
\* the ledger has room for the event, trying again ends with a retained record.
SavedIsRetained ==
  locator \/ result # None
    ~> \/ run # None \/ Len(ledger) = MaxEvents
       \/ attempt # None /\ control # attempt.head
=============================================================================
