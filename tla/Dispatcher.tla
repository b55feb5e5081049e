------------------------------ MODULE Dispatcher ------------------------------
(***************************************************************************)
(* The queue dispatchers of manager/dispatcher.py over the task ledger:    *)
(* WorkDispatcher, which runs a handler inside the manager's loop, and     *)
(* BackgroundWorkDispatcher, which runs it on a thread and collects the    *)
(* result in a later pass.  manager/run.py calls dispatch() once per pass  *)
(* and close() when it ends, and requeues interrupted tasks when it        *)
(* starts.                                                                 *)
(*                                                                         *)
(* The manager may be killed between any two steps.  When storeFails any   *)
(* write to the state store may raise.                                     *)
(***************************************************************************)
EXTENDS TaskLedger, FiniteSets

CONSTANTS Handled,      \* tasks whose kind has a registered handler
          Reserved,     \* tasks of a kind reserved for another coordinator
          MaxInFlight,  \* max_in_flight (background only)
          Limit         \* queue_dispatch.limit

ASSUME KindsAssumption ==
  /\ Handled \subseteq Tasks /\ Reserved \subseteq Tasks
  /\ Handled \cap Reserved = {}
ASSUME LimitsAssumption ==
  MaxInFlight \in Nat \ {0} /\ Limit \in Nat \ {0}

VARIABLES
  pc,        \* where the manager's thread is
  todo,      \* the items its current loop has not reached yet
  pending,   \* the items of _pending; the one in hand when not background
  outcome,   \* result of a handler that is done, "none" before
  erring,    \* the item whose result raised, on its way to _apply_error
  running,   \* tasks whose handler runs in this manager process
  detached,  \* tasks whose handler still runs in a manager that ended
  failures,  \* history: attempts of a task that ended in a retry or error
  \* fixed at the start of a behaviour
  background,  \* BackgroundWorkDispatcher, or WorkDispatcher
  storeFails   \* whether writes to the store may raise

memory == <<pc, todo, pending, outcome, erring, running>>
setting == <<background, storeFails>>
aside == <<detached, failures, setting>>
vars == <<ledger, memory, aside>>

Results == {"COMPLETE", "FAILED", "ESCALATED", "RETRY", "ERROR"}
PCs == {"down", "idle", "collect", "claim", "items", "await", "closing",
        "requeue"}

TypeOK ==
  /\ LedgerTypeOK
  /\ pc \in PCs
  /\ todo \subseteq Tasks
  /\ pending \subseteq Tasks
  /\ outcome \in [Tasks -> Results \cup {"none"}]
  /\ erring \subseteq Tasks
  /\ running \subseteq Tasks
  /\ detached \subseteq Tasks
  /\ failures \in [Tasks -> 0..MaxAttempts]
  /\ background \in BOOLEAN /\ storeFails \in BOOLEAN

Idle(next) ==
  /\ pc' = next
  /\ todo' = {} /\ pending' = {} /\ erring' = {} /\ running' = {}
  /\ outcome' = [t \in Tasks |-> "none"]

Init ==
  /\ LedgerInit
  /\ pc = "down"
  /\ todo = {} /\ pending = {} /\ erring = {}
  /\ running = {} /\ detached = {}
  /\ outcome = [t \in Tasks |-> "none"]
  /\ failures = [t \in Tasks |-> 0]
  /\ background \in BOOLEAN /\ storeFails \in BOOLEAN

-----------------------------------------------------------------------------
(* Settling a result: _apply_outcome and _apply_error.                     *)

\* The attempt budget of a retry, asked for or forced by an exception.
BudgetSpentLate(t) == attempts[t] > MaxAttempts   \* faulty variant
BudgetSpent(t) == attempts[t] >= MaxAttempts
ErrorStatus(t) == IF BudgetSpent(t) THEN "ESCALATED" ELSE "QUEUED"

OutcomeVerbatim(t) == outcome[t]   \* faulty variant: stored as it is
OutcomeStatus(t) ==
  IF outcome[t] \in Terminal THEN outcome[t] ELSE ErrorStatus(t)

\* The item leaves _pending before its result is applied.
KeptPending(t) == UNCHANGED pending       \* faulty variant
LeavesPending(t) == pending' = pending \ {t}

Taken(t) ==
  /\ outcome[t] # "none"
  /\ LeavesPending(t)
  /\ outcome' = [outcome EXCEPT ![t] = "none"]
  /\ UNCHANGED <<running, detached>>

CountFailure(t) == failures' = [failures EXCEPT ![t] = CountAttempt(@)]

\* _apply_outcome: the row and then its event.
Settle(t) ==
  /\ Taken(t)
  /\ outcome[t] # "ERROR"
  /\ Finish(t, OutcomeStatus(t))
  /\ IF outcome[t] = "RETRY" THEN CountFailure(t) ELSE UNCHANGED failures
  /\ UNCHANGED erring

\* The handler raised; or _apply_outcome does, before or after its write.
\* The exception is caught and handed to _apply_error.
Caught(t) ==
  /\ Taken(t)
  /\ \/ outcome[t] = "ERROR" /\ UNCHANGED ledger
     \/ storeFails /\ outcome[t] # "ERROR" /\ UNCHANGED ledger
     \/ storeFails /\ outcome[t] # "ERROR" /\ Finish(t, OutcomeStatus(t))
  /\ erring' = {t}
  /\ UNCHANGED failures

-----------------------------------------------------------------------------
(* One pass: dispatch().                                                   *)

Pass ==
  /\ pc = "idle"
  /\ pc' = IF background THEN "collect" ELSE "claim"
  /\ todo' = pending
  /\ UNCHANGED <<ledger, pending, outcome, erring, running, aside>>

\* _collect_completed looks once at each pending item.
Collecting == pc \in {"collect", "closing"} /\ erring = {}

CollectSkips(t) ==
  /\ Collecting /\ t \in todo
  /\ outcome[t] = "none"
  /\ todo' = todo \ {t}
  /\ UNCHANGED <<ledger, pc, pending, outcome, erring, running, aside>>

Collect(t) ==
  /\ Collecting /\ t \in todo
  /\ Settle(t) \/ Caught(t)
  /\ todo' = todo \ {t}
  /\ UNCHANGED <<pc, setting>>

\* WorkDispatcher: the handler returned or raised.
Returned(t) ==
  /\ pc = "await" /\ t \in pending /\ erring = {}
  /\ \/ Settle(t) /\ pc' = "items"
     \/ Caught(t) /\ UNCHANGED pc
  /\ UNCHANGED <<todo, setting>>

\* _apply_error overwrites the row whatever _apply_outcome left in it.
ApplyError(t) ==
  /\ t \in erring
  /\ Finish(t, ErrorStatus(t))
  /\ CountFailure(t)
  /\ erring' = {}
  /\ pc' = IF pc = "await" THEN "items" ELSE pc
  /\ UNCHANGED <<todo, pending, outcome, running, detached, setting>>

\* It raises as well, before or after its write: the pass ends, or the
\* manager if this was close(), and the other items stay as they are.
ApplyErrorRaises(t) ==
  /\ t \in erring
  /\ storeFails
  /\ UNCHANGED ledger \/ Finish(t, ErrorStatus(t))
  /\ IF pc = "closing"
     THEN /\ detached' = detached \cup running
          /\ Idle("down")
     ELSE /\ pc' = "idle" /\ todo' = {} /\ erring' = {}
          /\ UNCHANGED <<pending, outcome, running, detached>>
  /\ UNCHANGED <<failures, setting>>

CollectEnds ==
  /\ Collecting /\ todo = {}
  /\ \/ pc = "collect" /\ pc' = "claim" /\ UNCHANGED todo
     \/ pc = "closing" /\ pc' = "requeue" /\ todo' = pending
  /\ UNCHANGED <<ledger, pending, outcome, erring, running, aside>>

FreeSlotsAll == MaxInFlight               \* faulty variant
FreeSlots == MaxInFlight - Cardinality(pending)

ClaimLimit ==
  IF ~background THEN Limit
  ELSE IF FreeSlots < Limit THEN FreeSlots ELSE Limit

Claim ==
  /\ pc = "claim"
  /\ LET claimed == Due(ClaimLimit, Reserved)
     IN  /\ ClaimDue(claimed)
         /\ todo' = claimed
  /\ pc' = "items"
  /\ UNCHANGED <<pending, outcome, erring, running, aside>>

\* The transaction is rolled back.
ClaimRaises ==
  /\ pc = "claim" /\ storeFails
  /\ pc' = "idle"
  /\ UNCHANGED <<ledger, todo, pending, outcome, erring, running, aside>>

\* No handler: back to the queue for later.
NotDeferred(t) == UNCHANGED ledger        \* faulty variant
Deferred(t) == Finish(t, "QUEUED")

DeferUnhandled(t) ==
  /\ pc = "items" /\ t \in todo \ Handled
  /\ Deferred(t)
  /\ todo' = todo \ {t}
  /\ UNCHANGED <<pc, pending, outcome, erring, running, aside>>

\* The handler starts: on a thread, or in the loop, which then waits for it.
Submit(t) ==
  /\ pc = "items" /\ t \in todo \cap Handled
  /\ pending' = pending \cup {t}
  /\ running' = running \cup {t}
  /\ todo' = todo \ {t}
  /\ pc' = IF background THEN "items" ELSE "await"
  /\ UNCHANGED <<ledger, outcome, erring, aside>>

\* Recording the claim, or deferring the item, raises: the rest of the batch
\* is left as it was claimed.
ItemRaises(t) ==
  /\ pc = "items" /\ t \in todo
  /\ storeFails
  /\ \/ UNCHANGED ledger
     \/ t \notin Handled /\ Finish(t, "QUEUED")
  /\ todo' = {}
  /\ pc' = "idle"
  /\ UNCHANGED <<pending, outcome, erring, running, aside>>

ItemsEnd ==
  /\ pc = "items" /\ todo = {}
  /\ pc' = "idle"
  /\ UNCHANGED <<ledger, todo, pending, outcome, erring, running, aside>>

-----------------------------------------------------------------------------
(* Handlers, and the life of the manager process.                          *)

HandlerEnds(t) ==
  /\ t \in running
  /\ running' = running \ {t}
  /\ \E r \in Results : outcome' = [outcome EXCEPT ![t] = r]
  /\ UNCHANGED <<ledger, pc, todo, pending, erring, aside>>

\* A handler of a manager that has ended: nobody reads its result.
DetachedEnds(t) ==
  /\ t \in detached
  /\ detached' = detached \ {t}
  /\ UNCHANGED <<ledger, memory, failures, setting>>

\* The manager starts: it holds the instance lock, and requeues what an
\* earlier manager left RUNNING.
Boot ==
  /\ pc = "down"
  /\ RequeueRunning
  /\ Idle("idle")
  /\ UNCHANGED aside

\* The finally block of main() closes the dispatcher; closing a
\* WorkDispatcher does nothing.
Stop ==
  /\ pc \notin {"down", "closing", "requeue"}
  /\ UNCHANGED <<ledger, aside>>
  /\ IF background
     THEN /\ pc' = "closing" /\ todo' = pending /\ erring' = {}
          /\ UNCHANGED <<pending, outcome, running>>
     ELSE Idle("down")

\* close() puts an unfinished item back; a failure to do so is swallowed.
Requeue(t) ==
  /\ pc = "requeue" /\ t \in todo
  /\ FinishNow(t) \/ (storeFails /\ UNCHANGED ledger)
  /\ todo' = todo \ {t}
  /\ UNCHANGED <<pc, pending, outcome, erring, running, aside>>

\* shutdown(wait=False): running handlers go on, and main() releases the
\* instance lock.
Closed ==
  /\ pc = "requeue" /\ todo = {}
  /\ detached' = detached \cup running
  /\ Idle("down")
  /\ UNCHANGED <<ledger, failures, setting>>

Crash ==
  /\ pc # "down"
  /\ Idle("down")
  /\ UNCHANGED <<ledger, aside>>

-----------------------------------------------------------------------------

Arrive == \E t \in Tasks : Enqueue(t) /\ UNCHANGED <<memory, aside>>
TimePasses == \E t \in Tasks : FallDue(t) /\ UNCHANGED <<memory, aside>>

Loop ==
  \/ Pass \/ CollectEnds \/ Claim \/ ClaimRaises \/ ItemsEnd \/ Closed
  \/ \E t \in Tasks : \/ CollectSkips(t) \/ Collect(t) \/ Returned(t)
                      \/ ApplyError(t) \/ ApplyErrorRaises(t)
                      \/ DeferUnhandled(t) \/ Submit(t) \/ ItemRaises(t)
                      \/ Requeue(t)

Handlers == \E t \in Tasks : HandlerEnds(t) \/ DetachedEnds(t)

Next == Arrive \/ TimePasses \/ Loop \/ Handlers \/ Boot \/ Stop \/ Crash

Spec == Init /\ [][Next]_vars

\* The manager's thread keeps running, every handler returns (each has a
\* timeout of its own), and a retry delay passes.
Fairness ==
  /\ WF_vars(Loop)
  /\ \A t \in Tasks : /\ WF_vars(HandlerEnds(t))
                      /\ WF_vars(FallDue(t) /\ UNCHANGED <<memory, aside>>)

LiveSpec == Spec /\ Fairness

-----------------------------------------------------------------------------
(* Properties.                                                             *)

\* Between passes every RUNNING task is one the dispatcher will hear of:
\* nothing is stuck in RUNNING while the manager runs.
RunningIsOwned ==
  ~storeFails /\ pc = "idle" =>
    \A t \in Tasks : status[t] = "RUNNING" => t \in pending

\* A handler runs only for a task the ledger calls RUNNING, so that the
\* attempts an item was claimed with are those of its row.
PendingIsRunning ==
  pc # "requeue" => \A t \in pending : status[t] = "RUNNING"

\* The background dispatcher never has more handlers than slots.
InFlightBounded ==
  /\ running \subseteq pending
  /\ background => Cardinality(pending) <= MaxInFlight

\* A task that has failed MaxAttempts times is not tried again, across
\* restarts of the manager.
RetryBudgetHonoured ==
  \A t \in Tasks : failures[t] >= MaxAttempts => status[t] = "ESCALATED"

\* Each task goes through the life cycle of TaskLifecycle: it is worked on
\* only after a claim, and stays as it ended.  Only a store that works is
\* looked at: a failing one has a result applied twice, as Caught says.
seen == IF storeFails THEN [t \in Tasks |-> "absent"] ELSE status
Lifecycle == INSTANCE TaskLifecycle WITH status <- seen, GivenUp <- {}
ImplementsLifecycle == Lifecycle!Spec

\* A manager's handlers end before another manager works on the queue: the
\* instance lock is held for the lifetime of a manager (instance_lock.py:15).
NoOverlap == pc # "down" => detached = {}

\* Every task with a handler reaches a final status, unless the manager ends.
EveryTaskSettles ==
  \A t \in Handled :
    ~storeFails /\ status[t] = "QUEUED" ~>
      (status[t] \in Terminal \/ pc \in {"down", "closing"})
=============================================================================
