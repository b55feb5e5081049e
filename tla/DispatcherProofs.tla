--------------------------- MODULE DispatcherProofs ---------------------------
(***************************************************************************)
(* Proofs about Dispatcher, for any tasks, handlers, limits and attempt    *)
(* budget, and for both dispatchers.                                       *)
(*                                                                         *)
(* PendingInv ties the dispatcher's memory to the ledger, and BudgetInv    *)
(* the attempts of a row to the failures it has seen; they hold whatever   *)
(* the store does, and so does SlotsInv, which counts what is held.        *)
(* OwnedInv says who will settle each RUNNING row, and needs a store that  *)
(* does not fail.  QueueInv types the sequence of the due tasks; nothing   *)
(* is said of their order.                                                 *)
(***************************************************************************)
EXTENDS Dispatcher, FiniteSetTheorems, TLAPS

Typed ==
  /\ status \in [Tasks -> Statuses]
  /\ attempts \in [Tasks -> 0..MaxAttempts]
  /\ pc \in PCs
  /\ todo \subseteq Tasks
  /\ pending \subseteq Tasks
  /\ outcome \in [Tasks -> Results \cup {"none"}]
  /\ erring \subseteq Tasks
  /\ running \subseteq Tasks
  /\ failures \in [Tasks -> 0..MaxAttempts]

\* Items in hand are RUNNING rows, each in one place.
PendingInv ==
  /\ running \subseteq pending
  /\ \A t \in Tasks : outcome[t] # "none" => t \in pending \ running
  /\ erring \cap pending = {}
  /\ erring # {} => pc \in {"collect", "closing", "await"}
  /\ pc # "requeue" => \A t \in pending : status[t] = "RUNNING"
  /\ pc \in {"items", "await", "requeue"} => \A t \in todo : status[t] = "RUNNING"
  /\ pc \in {"items", "await"} => todo \cap (pending \cup erring) = {}

\* The attempts column is ahead of the failures while an item is in hand.
BudgetInv ==
  \A t \in Tasks :
    /\ failures[t] <= attempts[t]
    /\ status[t] = "RUNNING" => failures[t] < attempts[t]
    /\ t \in erring => failures[t] < attempts[t]
    /\ failures[t] >= MaxAttempts => status[t] = "ESCALATED"

InHand == pending \cup erring \cup (IF pc \in {"items", "await"} THEN todo ELSE {})

OwnedInv ==
  /\ \A t \in erring : status[t] = "RUNNING" /\ erring = {t}
  /\ pc \notin {"down", "closing", "requeue"} =>
       \A t \in Tasks : status[t] = "RUNNING" => t \in InHand

-----------------------------------------------------------------------------

\* The kind of dispatcher and of store are chosen once.
LEMMA SettingFixed ==
  [Next]_vars => storeFails' = storeFails /\ background' = background
<1> SUFFICES ASSUME [Next]_vars PROVE storeFails' = storeFails /\ background' = background
  OBVIOUS
<1> USE DEF aside, setting
<1>1. CASE Arrive \/ TimePasses
  BY <1>1 DEF Arrive, TimePasses
<1>2. CASE Loop
  BY <1>2 DEF Loop, Pass, CollectEnds, Claim, ClaimRaises, ItemsEnd, Closed,
     CollectSkips, Collect, Returned, ApplyError, ApplyErrorRaises,
     DeferUnhandled, Submit, ItemRaises, Requeue
<1>3. CASE Handlers
  BY <1>3 DEF Handlers, HandlerEnds, DetachedEnds
<1>4. CASE Boot \/ Stop \/ Crash
  BY <1>4 DEF Boot, Stop, Crash
<1>5. CASE UNCHANGED vars
  BY <1>5 DEF vars
<1> QED
  BY <1>1, <1>2, <1>3, <1>4, <1>5 DEF Next

LEMMA StatusFacts ==
  /\ Terminal \subseteq Statuses
  /\ {"absent", "QUEUED", "RUNNING"} \subseteq Statuses
  /\ \A t : ErrorStatus(t) \in Statuses
  /\ \A t : OutcomeStatus(t) \in Statuses
BY DEF Terminal, Statuses, ErrorStatus, OutcomeStatus

LEMMA TypedInit == Init => Typed
BY MaxAttemptsAssumption DEF Init, LedgerInit, Typed, Statuses, PCs

LEMMA TypedStep == Typed /\ [Next]_vars => Typed'
<1> SUFFICES ASSUME Typed, [Next]_vars PROVE Typed'
  OBVIOUS
<1> USE MaxAttemptsAssumption, StatusFacts DEF Typed, PCs, ledger, memory, aside
<1>1. CASE Arrive
  BY <1>1 DEF Arrive, Enqueue
<1>2. CASE TimePasses
  BY <1>2 DEF TimePasses, FallDue
<1>3. CASE Loop
  <2>1. CASE Pass \/ CollectEnds \/ ClaimRaises \/ ItemsEnd
    BY <2>1 DEF Pass, CollectEnds, Collecting, ClaimRaises, ItemsEnd
  <2>2. CASE Claim
    BY <2>2 DEF Claim, ClaimDue, Due, CountAttempt, Statuses
  <2>3. CASE Closed
    BY <2>3 DEF Closed, Idle
  <2>4. ASSUME NEW t \in Tasks, CollectSkips(t) PROVE Typed'
    BY <2>4 DEF CollectSkips
  <2>5. ASSUME NEW t \in Tasks, Collect(t) \/ Returned(t) PROVE Typed'
    <3>1. CASE Settle(t)
      BY <2>5, <3>1 DEF Collect, Returned, Settle, Caught, Taken,
         LeavesPending, Finish, CountFailure, CountAttempt
    <3>2. CASE Caught(t)
      <4>1. UNCHANGED ledger \/ Finish(t, OutcomeStatus(t))
        BY <3>2 DEF Caught
      <4>2. /\ status' \in [Tasks -> Statuses]
            /\ attempts' \in [Tasks -> 0..MaxAttempts]
        BY <4>1 DEF Finish
      <4>3. /\ pc' \in PCs /\ todo' \subseteq Tasks
        BY <2>5 DEF Collect, Returned, Collecting
      <4> QED
        BY <3>2, <4>2, <4>3 DEF Caught, Taken, LeavesPending
    <3>3. Settle(t) \/ Caught(t)
      BY <2>5 DEF Collect, Returned
    <3> QED
      BY <3>1, <3>2, <3>3
  <2>6. ASSUME NEW t \in Tasks, ApplyError(t) PROVE Typed'
    BY <2>6 DEF ApplyError, Finish, CountFailure, CountAttempt
  <2>7. ASSUME NEW t \in Tasks, ApplyErrorRaises(t) PROVE Typed'
    BY <2>7 DEF ApplyErrorRaises, Finish, Idle
  <2>8. ASSUME NEW t \in Tasks, DeferUnhandled(t) \/ Submit(t) PROVE Typed'
    BY <2>8 DEF DeferUnhandled, Deferred, Submit, Finish
  <2>9. ASSUME NEW t \in Tasks, ItemRaises(t) \/ Requeue(t) PROVE Typed'
    BY <2>9 DEF ItemRaises, Requeue, Finish, FinishNow
  <2> QED
    BY <1>3, <2>1, <2>2, <2>3, <2>4, <2>5, <2>6, <2>7, <2>8, <2>9 DEF Loop
<1>4. CASE Handlers
  BY <1>4 DEF Handlers, HandlerEnds, DetachedEnds
<1>5. CASE Boot
  BY <1>5 DEF Boot, Idle, RequeueRunning
<1>6. CASE Stop \/ Crash
  BY <1>6 DEF Stop, Crash, Idle
<1>7. CASE UNCHANGED vars
  BY <1>7 DEF vars
<1> QED
  BY <1>1, <1>2, <1>3, <1>4, <1>5, <1>6, <1>7 DEF Next

-----------------------------------------------------------------------------

LEMMA PendingInit == Init => PendingInv
BY DEF Init, LedgerInit, PendingInv

\* An item whose result is taken leaves pending, and is RUNNING until then.
LEMMA PendingStep == Typed /\ PendingInv /\ [Next]_vars => PendingInv'
<1> SUFFICES ASSUME Typed, PendingInv, [Next]_vars PROVE PendingInv'
  OBVIOUS
<1> USE DEF Typed, PendingInv, ledger, memory, aside
<1>1. CASE Arrive
  BY <1>1 DEF Arrive, Enqueue
<1>2. CASE TimePasses
  BY <1>2 DEF TimePasses, FallDue
<1>3. CASE Loop
  <2>1. CASE Pass \/ CollectEnds \/ ClaimRaises \/ ItemsEnd
    BY <2>1 DEF Pass, CollectEnds, Collecting, ClaimRaises, ItemsEnd
  <2>2. CASE Claim
    BY <2>2 DEF Claim, ClaimDue, Due
  <2>3. CASE Closed
    BY <2>3 DEF Closed, Idle
  <2>4. ASSUME NEW t \in Tasks, CollectSkips(t) PROVE PendingInv'
    BY <2>4 DEF CollectSkips, Collecting
  <2>5. ASSUME NEW t \in Tasks, Collect(t) \/ Returned(t) PROVE PendingInv'
    <3>1. CASE Settle(t)
      <4>1. \A u \in Tasks \ {t} : status'[u] = status[u]
        BY <3>1 DEF Settle, Finish
      <4>2. /\ pc' = pc \/ (pc = "await" /\ pc' = "items")
            /\ todo' = todo \/ (pc # "await" /\ todo' \subseteq todo)
            /\ pc \in {"collect", "closing", "await"} /\ erring' = {}
        BY <2>5, <3>1 DEF Collect, Returned, Collecting, Settle, Caught
      <4> QED
        BY <3>1, <4>1, <4>2 DEF Settle, Taken, LeavesPending
    <3>2. CASE Caught(t)
      <4>1. \A u \in Tasks \ {t} : status'[u] = status[u]
        BY <3>2 DEF Caught, Finish
      <4> QED
        BY <2>5, <3>2, <4>1 DEF Collect, Returned, Collecting, Settle, Caught,
           Taken, LeavesPending
    <3> QED
      BY <2>5, <3>1, <3>2 DEF Collect, Returned
  <2>6. ASSUME NEW t \in Tasks, ApplyError(t) PROVE PendingInv'
    BY <2>6 DEF ApplyError, Finish
  <2>7. ASSUME NEW t \in Tasks, ApplyErrorRaises(t) PROVE PendingInv'
    <3>1. \A u \in Tasks \ {t} : status'[u] = status[u]
      BY <2>7 DEF ApplyErrorRaises, Finish
    <3> QED
      BY <2>7, <3>1 DEF ApplyErrorRaises, Idle
  <2>8. ASSUME NEW t \in Tasks, DeferUnhandled(t) \/ Submit(t) PROVE PendingInv'
    BY <2>8 DEF DeferUnhandled, Deferred, Submit, Finish
  <2>9. ASSUME NEW t \in Tasks, ItemRaises(t) PROVE PendingInv'
    BY <2>9 DEF ItemRaises, Finish
  <2>10. ASSUME NEW t \in Tasks, Requeue(t) PROVE PendingInv'
    BY <2>10 DEF Requeue, FinishNow
  <2> QED
    BY <1>3, <2>1, <2>2, <2>3, <2>4, <2>5, <2>6, <2>7, <2>8, <2>9, <2>10 DEF Loop
<1>4. CASE Handlers
  BY <1>4 DEF Handlers, HandlerEnds, DetachedEnds
<1>5. CASE Boot
  BY <1>5 DEF Boot, Idle, RequeueRunning
<1>6. CASE Stop \/ Crash
  BY <1>6 DEF Stop, Crash, Idle
<1>7. CASE UNCHANGED vars
  BY <1>7 DEF vars
<1> QED
  BY <1>1, <1>2, <1>3, <1>4, <1>5, <1>6, <1>7 DEF Next

-----------------------------------------------------------------------------

LEMMA BudgetInit == Init => BudgetInv
BY MaxAttemptsAssumption DEF Init, LedgerInit, BudgetInv

LEMMA CountBounds ==
  \A n \in 0..MaxAttempts :
    /\ CountAttempt(n) \in 0..MaxAttempts
    /\ n <= CountAttempt(n) /\ CountAttempt(n) <= n + 1
    /\ n < MaxAttempts => CountAttempt(n) = n + 1
BY MaxAttemptsAssumption DEF CountAttempt

\* Only a claim moves attempts, and only a settled failure moves failures,
\* by at most one, with the budget tested in the same step.
LEMMA BudgetStep ==
  Typed /\ PendingInv /\ BudgetInv /\ [Next]_vars => BudgetInv'
<1> SUFFICES ASSUME Typed, PendingInv, BudgetInv, [Next]_vars PROVE BudgetInv'
  OBVIOUS
<1> USE MaxAttemptsAssumption DEF Typed, BudgetInv, ledger, memory, aside
<1>1. CASE Arrive
  BY <1>1 DEF Arrive, Enqueue
<1>2. CASE TimePasses
  BY <1>2 DEF TimePasses, FallDue
<1>3. CASE Loop
  <2>1. CASE Pass \/ CollectEnds \/ ClaimRaises \/ ItemsEnd
    BY <2>1 DEF Pass, CollectEnds, ClaimRaises, ItemsEnd
  <2>2. CASE Claim
    <3> DEFINE claimed == Due(ClaimLimit, Reserved)
    <3>1. \A t \in claimed : status[t] = "QUEUED"
      BY DEF Due
    <3>2. /\ status' = [t \in Tasks |-> IF t \in claimed THEN "RUNNING" ELSE status[t]]
          /\ attempts' = [t \in Tasks |-> IF t \in claimed THEN CountAttempt(attempts[t])
                                                            ELSE attempts[t]]
          /\ UNCHANGED <<erring, failures>>
      BY <2>2 DEF Claim, ClaimDue
    <3> HIDE DEF claimed
    <3> QED
      BY <3>1, <3>2, CountBounds
  <2>3. CASE Closed
    BY <2>3 DEF Closed, Idle
  <2>4. ASSUME NEW t \in Tasks, CollectSkips(t) PROVE BudgetInv'
    BY <2>4 DEF CollectSkips
  <2>5. ASSUME NEW t \in Tasks, Collect(t) \/ Returned(t) PROVE BudgetInv'
    <3>1. failures[t] < attempts[t]
      BY <2>5 DEF Collect, Returned, Collecting, Settle, Caught, Taken, PendingInv
    <3>2. CASE Settle(t)
      <4>1. /\ status' = [status EXCEPT ![t] = OutcomeStatus(t)]
            /\ UNCHANGED <<attempts, erring>>
        BY <3>2 DEF Settle, Finish
      <4>2. OutcomeStatus(t) # "RUNNING"
        BY DEF OutcomeStatus, ErrorStatus, Terminal
      <4>3. CASE outcome[t] = "RETRY"
        <5>1. failures' = [failures EXCEPT ![t] = CountAttempt(@)]
          BY <3>2, <4>3 DEF Settle, CountFailure
        <5>2. attempts[t] >= MaxAttempts => OutcomeStatus(t) = "ESCALATED"
          BY <4>3 DEF OutcomeStatus, ErrorStatus, BudgetSpent, Terminal
        <5>3. /\ failures'[t] = failures[t] + 1
              /\ \A u \in Tasks \ {t} : failures'[u] = failures[u] /\ status'[u] = status[u]
          BY <3>1, <4>1, <5>1, CountBounds
        <5>4. status'[t] = OutcomeStatus(t) /\ t \notin erring
          BY <2>5, <4>1 DEF Collect, Returned, Collecting
        <5> QED
          BY <3>1, <4>1, <4>2, <5>2, <5>3, <5>4
      <4>4. CASE outcome[t] # "RETRY"
        <5>1. UNCHANGED failures
          BY <3>2, <4>4 DEF Settle
        <5> QED
          BY <3>1, <4>1, <4>2, <5>1
      <4> QED
        BY <4>3, <4>4
    <3>3. CASE Caught(t)
      <4>1. /\ UNCHANGED <<attempts, failures>>
            /\ erring' = {t}
            /\ \A u \in Tasks \ {t} : status'[u] = status[u]
        BY <3>3 DEF Caught, Finish
      <4> QED
        BY <3>1, <4>1
    <3> QED
      BY <2>5, <3>2, <3>3 DEF Collect, Returned
  <2>6. ASSUME NEW t \in Tasks, ApplyError(t) PROVE BudgetInv'
    <3>1. /\ failures[t] < attempts[t]
          /\ status' = [status EXCEPT ![t] = ErrorStatus(t)]
          /\ failures' = [failures EXCEPT ![t] = CountAttempt(@)]
          /\ attempts' = attempts /\ erring' = {}
      BY <2>6 DEF ApplyError, Finish, CountFailure
    <3>2. /\ ErrorStatus(t) # "RUNNING"
          /\ attempts[t] >= MaxAttempts => ErrorStatus(t) = "ESCALATED"
      BY DEF ErrorStatus, BudgetSpent
    <3> QED
      BY <3>1, <3>2, CountBounds
  <2>7. ASSUME NEW t \in Tasks, ApplyErrorRaises(t) PROVE BudgetInv'
    <3>1. /\ failures[t] < attempts[t]
          /\ UNCHANGED <<attempts, failures>>
          /\ erring' = {}
          /\ \A u \in Tasks \ {t} : status'[u] = status[u]
      BY <2>7 DEF ApplyErrorRaises, Finish, Idle
    <3> QED
      BY <3>1
  <2>8. ASSUME NEW t \in Tasks, DeferUnhandled(t) \/ Submit(t) PROVE BudgetInv'
    BY <2>8 DEF DeferUnhandled, Deferred, Submit, Finish, PendingInv
  <2>9. ASSUME NEW t \in Tasks, ItemRaises(t) PROVE BudgetInv'
    BY <2>9 DEF ItemRaises, Finish, PendingInv
  <2>10. ASSUME NEW t \in Tasks, Requeue(t) PROVE BudgetInv'
    BY <2>10 DEF Requeue, FinishNow, PendingInv
  <2> QED
    BY <1>3, <2>1, <2>2, <2>3, <2>4, <2>5, <2>6, <2>7, <2>8, <2>9, <2>10 DEF Loop
<1>4. CASE Handlers
  BY <1>4 DEF Handlers, HandlerEnds, DetachedEnds
<1>5. CASE Boot
  BY <1>5 DEF Boot, Idle, RequeueRunning
<1>6. CASE Stop \/ Crash
  BY <1>6 DEF Stop, Crash, Idle
<1>7. CASE UNCHANGED vars
  BY <1>7 DEF vars
<1> QED
  BY <1>1, <1>2, <1>3, <1>4, <1>5, <1>6, <1>7 DEF Next

-----------------------------------------------------------------------------

LEMMA OwnedInit == Init => OwnedInv
BY DEF Init, LedgerInit, OwnedInv

\* With a store that does not fail, a row leaves RUNNING in the step in which
\* its item is let go.
LEMMA OwnedStep ==
  ASSUME ~storeFails
  PROVE  Typed /\ PendingInv /\ OwnedInv /\ [Next]_vars => OwnedInv'
<1> SUFFICES ASSUME Typed, PendingInv, OwnedInv, [Next]_vars PROVE OwnedInv'
  OBVIOUS
<1> USE DEF Typed, OwnedInv, InHand, ledger, memory, aside
<1>1. CASE Arrive
  BY <1>1 DEF Arrive, Enqueue
<1>2. CASE TimePasses
  BY <1>2 DEF TimePasses, FallDue
<1>3. CASE Loop
  <2>1. CASE Pass \/ CollectEnds \/ ClaimRaises \/ ItemsEnd
    BY <2>1 DEF Pass, CollectEnds, Collecting, ClaimRaises, ItemsEnd, PendingInv
  <2>2. CASE Claim
    BY <2>2 DEF Claim, ClaimDue, PendingInv
  <2>3. CASE Closed
    BY <2>3 DEF Closed, Idle
  <2>4. ASSUME NEW t \in Tasks, CollectSkips(t) PROVE OwnedInv'
    BY <2>4 DEF CollectSkips, Collecting
  <2>5. ASSUME NEW t \in Tasks, Collect(t) \/ Returned(t) PROVE OwnedInv'
    <3>1. /\ status[t] = "RUNNING" /\ t \in pending /\ erring = {}
          /\ pending' = pending \ {t}
          /\ pc' = pc \/ (pc = "await" /\ pc' = "items")
          /\ pc = "await" => todo' = todo
          /\ pc \in {"collect", "closing", "await"}
      BY <2>5 DEF Collect, Returned, Collecting, Settle, Caught, Taken,
         LeavesPending, PendingInv
    <3>2. CASE Settle(t)
      <4>1. OutcomeStatus(t) # "RUNNING"
        BY DEF OutcomeStatus, ErrorStatus, Terminal
      <4>2. /\ status'[t] = OutcomeStatus(t) /\ erring' = erring
            /\ \A u \in Tasks \ {t} : status'[u] = status[u]
        BY <3>2 DEF Settle, Finish
      <4> QED
        BY <3>1, <4>1, <4>2
    <3>3. CASE Caught(t)
      <4>1. status' = status /\ erring' = {t}
        BY <3>3 DEF Caught
      <4> QED
        BY <3>1, <4>1
    <3> QED
      BY <2>5, <3>2, <3>3 DEF Collect, Returned
  <2>6. ASSUME NEW t \in Tasks, ApplyError(t) PROVE OwnedInv'
    <3>1. ErrorStatus(t) # "RUNNING"
      BY DEF ErrorStatus
    <3> QED
      BY <2>6, <3>1 DEF ApplyError, Finish, PendingInv
  <2>7. ASSUME NEW t \in Tasks, ApplyErrorRaises(t) PROVE OwnedInv'
    BY <2>7 DEF ApplyErrorRaises
  <2>8. ASSUME NEW t \in Tasks, DeferUnhandled(t) \/ Submit(t) PROVE OwnedInv'
    <3>1. /\ pc = "items" /\ pc' \in {"items", "await"}
          /\ todo' = todo \ {t} /\ erring = {} /\ erring' = {}
      BY <2>8 DEF DeferUnhandled, Submit, PendingInv
    <3>2. CASE DeferUnhandled(t)
      BY <3>1, <3>2 DEF DeferUnhandled, Deferred, Finish
    <3>3. CASE Submit(t)
      BY <3>1, <3>3 DEF Submit
    <3> QED
      BY <2>8, <3>2, <3>3
  <2>9. ASSUME NEW t \in Tasks, ItemRaises(t) \/ Requeue(t) PROVE OwnedInv'
    BY <2>9 DEF ItemRaises, Requeue, FinishNow, PendingInv
  <2> QED
    BY <1>3, <2>1, <2>2, <2>3, <2>4, <2>5, <2>6, <2>7, <2>8, <2>9 DEF Loop
<1>4. CASE Handlers
  BY <1>4 DEF Handlers, HandlerEnds, DetachedEnds
<1>5. CASE Boot
  BY <1>5 DEF Boot, Idle, RequeueRunning
<1>6. CASE Stop \/ Crash
  BY <1>6 DEF Stop, Crash, Idle
<1>7. CASE UNCHANGED vars
  BY <1>7 DEF vars
<1> QED
  BY <1>1, <1>2, <1>3, <1>4, <1>5, <1>6, <1>7 DEF Next

-----------------------------------------------------------------------------

\* The steps of Dispatcher, seen as steps of TaskLifecycle.
Rows == INSTANCE TaskLifecycle WITH GivenUp <- {}

LEMMA LifecycleStep ==
  ASSUME ~storeFails
  PROVE  Typed /\ Typed' /\ PendingInv /\ OwnedInv /\ [Next]_vars
           => [Rows!Next]_status
<1> SUFFICES ASSUME Typed, Typed', PendingInv, OwnedInv, [Next]_vars
             PROVE  [Rows!Next]_status
  OBVIOUS
<1> DEFINE Moved(t) == \/ UNCHANGED status
                      \/ /\ \A u \in Tasks \ {t} : status'[u] = status[u]
                         /\ Rows!Moves(status[t], status'[t])
<1>1. ASSUME \A t \in Tasks : status'[t] # status[t] => Rows!Moves(status[t], status'[t])
      PROVE  [Rows!Next]_status
  BY <1>1 DEF Typed, Rows!Next, Rows!Final, Statuses, Terminal
<1>2. ASSUME NEW t \in Tasks, Moved(t) PROVE [Rows!Next]_status
  BY <1>1, <1>2
<1> HIDE DEF Moved
<1>3. ASSUME NEW t \in Tasks, NEW new \in Terminal \cup {"QUEUED"},
             status[t] = "RUNNING", Finish(t, new)
      PROVE  [Rows!Next]_status
  <2>1. Moved(t)
    BY <1>3 DEF Moved, Finish, Rows!Moves, Rows!Final, Terminal, Typed
  <2> QED
    BY <1>2, <2>1
<1>4. \A t : /\ ErrorStatus(t) \in Terminal \cup {"QUEUED"}
             /\ OutcomeStatus(t) \in Terminal \cup {"QUEUED"}
  BY DEF ErrorStatus, OutcomeStatus, Terminal
<1> USE DEF ledger, memory, aside
<1>5. CASE Arrive
  BY <1>1, <1>5 DEF Arrive, Enqueue, Rows!Moves, Typed
<1>6. CASE Loop
  <2>1. CASE Claim
    BY <1>1, <2>1 DEF Claim, ClaimDue, Due, Rows!Moves, Typed
  <2>2. ASSUME NEW t \in Tasks, Collect(t) \/ Returned(t)
        PROVE  [Rows!Next]_status
    <3>1. status[t] = "RUNNING"
      BY <2>2 DEF Collect, Returned, Collecting, Settle, Caught, Taken, PendingInv, Typed
    <3>2. Finish(t, OutcomeStatus(t)) \/ UNCHANGED status
      BY <2>2 DEF Collect, Returned, Settle, Caught
    <3> QED
      BY <1>3, <1>4, <3>1, <3>2
  <2>3. ASSUME NEW t \in Tasks, ApplyError(t) PROVE [Rows!Next]_status
    BY <1>3, <1>4, <2>3 DEF ApplyError, OwnedInv
  <2>4. ASSUME NEW t \in Tasks, DeferUnhandled(t) PROVE [Rows!Next]_status
    BY <1>3, <2>4 DEF DeferUnhandled, Deferred, PendingInv
  <2>5. ASSUME NEW t \in Tasks, Requeue(t) PROVE [Rows!Next]_status
    <3>1. Moved(t)
      BY <2>5 DEF Moved, Requeue, FinishNow, PendingInv, Rows!Moves, Typed
    <3> QED
      BY <1>2, <3>1
  <2>6. ASSUME NEW t \in Tasks,
               CollectSkips(t) \/ ApplyErrorRaises(t) \/ Submit(t) \/ ItemRaises(t)
        PROVE  UNCHANGED status
    BY <2>6 DEF CollectSkips, ApplyErrorRaises, Submit, ItemRaises
  <2>7. CASE Pass \/ CollectEnds \/ ClaimRaises \/ ItemsEnd \/ Closed
    BY <2>7 DEF Pass, CollectEnds, ClaimRaises, ItemsEnd, Closed
  <2> QED
    BY <1>6, <2>1, <2>2, <2>3, <2>4, <2>5, <2>6, <2>7 DEF Loop
<1>7. CASE Boot
  BY <1>1, <1>7 DEF Boot, RequeueRunning, Rows!Moves, Typed
<1>8. CASE TimePasses \/ Handlers \/ Stop \/ Crash \/ UNCHANGED vars
  BY <1>8 DEF TimePasses, FallDue, Handlers, HandlerEnds, DetachedEnds, Stop,
     Crash, vars
<1> QED
  BY <1>5, <1>6, <1>7, <1>8 DEF Next

-----------------------------------------------------------------------------
(* Slots.  What a background dispatcher holds, or has claimed for the      *)
(* slots that were free, never exceeds them.                               *)

Held == pending \cup (IF pc = "items" THEN todo ELSE {})

SlotsInv ==
  background =>
    /\ pc # "await"
    /\ IsFiniteSet(Held) /\ Cardinality(Held) <= MaxInFlight

LEMMA SlotsInit == Init => SlotsInv
BY FS_EmptySet, LimitsAssumption DEF Init, SlotsInv, Held

\* At most as many tasks are due as were asked for.
LEMMA DueBounded ==
  ASSUME NEW limit \in Nat, NEW excluded
  PROVE  IsFiniteSet(Due(limit, excluded)) /\ Cardinality(Due(limit, excluded)) <= limit
<1> DEFINE rows == Without(ready, excluded)
           due == Due(limit, excluded)
           places == {i \in 1..limit : rows[i] \in due}
           row == [i \in places |-> rows[i]]
<1>1. IsFiniteSet(1..limit) /\ Cardinality(1..limit) = limit
  BY FS_Interval
<1>2. IsFiniteSet(places) /\ Cardinality(places) <= limit
  BY <1>1, FS_Subset
<1>3. ASSUME NEW t \in due PROVE \E i \in places : row[i] = t
  BY <1>3 DEF Due
<1>4. row \in Surjection(places, due)
  BY <1>3 DEF Surjection
<1>5. IsFiniteSet(due) /\ Cardinality(due) <= Cardinality(places)
  <2> HIDE DEF row, places, due
  <2> QED
    BY <1>2, <1>4, FS_Surjection
<1>6. Cardinality(due) \in Nat /\ Cardinality(places) \in Nat
  BY <1>2, <1>5, FS_CardinalityType
<1> QED
  BY <1>2, <1>5, <1>6

\* Only a claim adds to what is held, and it asks for the free slots.
LEMMA SlotsStep == Typed /\ SlotsInv /\ [Next]_vars => SlotsInv'
<1> SUFFICES ASSUME Typed, SlotsInv, [Next]_vars, background' PROVE SlotsInv'
  BY DEF SlotsInv
<1> USE DEF ledger, memory, aside, setting
<1>1. background
  BY SettingFixed
<1>2. pc # "await" /\ IsFiniteSet(Held) /\ Cardinality(Held) <= MaxInFlight
  BY <1>1 DEF SlotsInv
<1>3. ASSUME Held' \subseteq Held, pc' # "await" PROVE SlotsInv'
  <2>1. /\ IsFiniteSet(Held') /\ Cardinality(Held') <= Cardinality(Held)
        /\ Cardinality(Held) \in Nat /\ Cardinality(Held') \in Nat
    BY <1>2, <1>3, FS_Subset, FS_CardinalityType
  <2> QED
    BY <1>2, <1>3, <2>1, LimitsAssumption DEF SlotsInv
<1>4. CASE Claim
  <2> DEFINE claimed == Due(ClaimLimit, Reserved)
  <2>1. pc = "claim" /\ pc' = "items" /\ pending' = pending /\ todo' = claimed
    BY <1>4 DEF Claim
  <2>2. Held = pending /\ Held' = pending \cup claimed
    BY <2>1 DEF Held
  <2>3. Cardinality(pending) \in Nat
    BY <1>2, <2>2, FS_CardinalityType
  <2>4. ClaimLimit \in Nat /\ ClaimLimit <= MaxInFlight - Cardinality(pending)
    BY <1>1, <1>2, <2>2, <2>3, LimitsAssumption DEF ClaimLimit, FreeSlots
  <2>5. IsFiniteSet(claimed) /\ Cardinality(claimed) <= ClaimLimit
    BY <2>4, DueBounded
  <2>6. /\ IsFiniteSet(pending \cup claimed)
        /\ Cardinality(pending \cup claimed) <= Cardinality(pending) + Cardinality(claimed)
    <3> HIDE DEF claimed
    <3>1. /\ IsFiniteSet(pending \cup claimed)
          /\ Cardinality(pending \cup claimed)
               = Cardinality(pending) + Cardinality(claimed) - Cardinality(pending \cap claimed)
      BY <1>2, <2>2, <2>5, FS_Union
    <3>2. Cardinality(pending \cap claimed) \in Nat /\ Cardinality(claimed) \in Nat
      BY <1>2, <2>2, <2>5, FS_Intersection, FS_CardinalityType
    <3> QED
      BY <2>3, <3>1, <3>2
  <2>7. Cardinality(claimed) \in Nat /\ Cardinality(pending \cup claimed) \in Nat
    BY <2>5, <2>6, FS_CardinalityType
  <2> QED
    BY <2>1, <2>2, <2>3, <2>4, <2>5, <2>6, <2>7, LimitsAssumption DEF SlotsInv
<1>5. ASSUME ~Claim PROVE Held' \subseteq Held /\ pc' # "await"
  <2>1. CASE Arrive \/ TimePasses \/ Handlers \/ UNCHANGED vars
    BY <1>2, <2>1 DEF Held, Arrive, TimePasses, Handlers, HandlerEnds, DetachedEnds, vars
  <2>2. CASE Boot \/ Stop \/ Crash
    BY <1>1, <2>2 DEF Held, Boot, Stop, Crash, Idle
  <2>3. CASE Pass \/ CollectEnds \/ ClaimRaises \/ ItemsEnd \/ Closed
    BY <1>1, <2>3 DEF Held, Pass, CollectEnds, Collecting, ClaimRaises, ItemsEnd, Closed, Idle
  <2>4. ASSUME NEW t \in Tasks, CollectSkips(t) \/ Collect(t) \/ Returned(t)
        PROVE  Held' \subseteq Held /\ pc' # "await"
    BY <1>2, <2>4 DEF Held, CollectSkips, Collect, Returned, Collecting, Settle, Caught, Taken,
       LeavesPending
  <2>5. ASSUME NEW t \in Tasks, ApplyError(t) \/ ApplyErrorRaises(t) \/ Requeue(t)
        PROVE  Held' \subseteq Held /\ pc' # "await"
    BY <1>2, <2>5 DEF Held, ApplyError, ApplyErrorRaises, Requeue, Idle
  <2>6. ASSUME NEW t \in Tasks, DeferUnhandled(t) \/ Submit(t) \/ ItemRaises(t)
        PROVE  Held' \subseteq Held /\ pc' # "await"
    BY <1>1, <2>6 DEF Held, DeferUnhandled, Submit, ItemRaises
  <2> QED
    BY <1>5, <2>1, <2>2, <2>3, <2>4, <2>5, <2>6 DEF Next, Loop
<1> QED
  BY <1>3, <1>4, <1>5

-----------------------------------------------------------------------------
(* The rest of the types.  A manager that starts puts the RUNNING tasks    *)
(* behind the due ones, as a sequence: so they must be finitely many,      *)
(* which is so because a claim takes a bounded number at a time.           *)

\* Each place that is kept has a number of its own, from one up to how many
\* are kept: so each number has its place, and the CHOOSE of Without finds it.
LEMMA WithoutTyped ==
  ASSUME NEW T, NEW seq \in Seq(T), NEW S
  PROVE  Without(seq, S) \in Seq(T)
<1> DEFINE kept == {i \in DOMAIN seq : seq[i] \notin S}
           upto(i) == kept \cap (1..i)
           number == [i \in kept |-> Cardinality(upto(i))]
           numbers == 1..Cardinality(kept)
<1>1. /\ Len(seq) \in Nat /\ DOMAIN seq = 1..Len(seq)
      /\ \A i \in DOMAIN seq : seq[i] \in T
  OBVIOUS
<1>2. /\ kept \in SUBSET (1..Len(seq))
      /\ \A i : upto(i) \in SUBSET kept
      /\ \A i \in kept : i \in upto(i)
      /\ \A i, j \in kept : i < j => upto(i) \cup {j} \in SUBSET upto(j) /\ j \notin upto(i)
  BY <1>1
<1> HIDE DEF upto, kept
<1>3. /\ IsFiniteSet(kept) /\ Cardinality(kept) \in Nat
      /\ \A i : /\ IsFiniteSet(upto(i)) /\ Cardinality(upto(i)) \in Nat
                /\ Cardinality(upto(i)) <= Cardinality(kept)
  <2>1. IsFiniteSet(1..Len(seq))
    BY <1>1, FS_Interval
  <2>2. IsFiniteSet(kept)
    BY <1>2, <2>1, FS_Subset
  <2> QED
    BY <1>2, <2>2, FS_Subset, FS_CardinalityType
<1>4. ASSUME NEW i \in kept, NEW j \in kept, i < j
      PROVE  Cardinality(upto(i)) < Cardinality(upto(j))
  <2>1. upto(i) \cup {j} \in SUBSET upto(j) /\ j \notin upto(i)
    BY <1>2, <1>4
  <2>2. Cardinality(upto(i) \cup {j}) = Cardinality(upto(i)) + 1
    BY <1>3, <2>1, FS_AddElement
  <2>3. Cardinality(upto(i) \cup {j}) <= Cardinality(upto(j))
    BY <1>3, <2>1, FS_Subset
  <2> QED
    BY <1>3, <2>2, <2>3
<1>5. ASSUME NEW i \in kept PROVE Cardinality(upto(i)) \in numbers
  <2>1. Cardinality(upto(i)) # 0
    BY <1>2, <1>3, FS_EmptySet
  <2>2. /\ Cardinality(upto(i)) \in Nat /\ Cardinality(kept) \in Nat
        /\ Cardinality(upto(i)) <= Cardinality(kept)
    BY <1>3
  <2> QED
    BY <2>1, <2>2
<1>6. number \in [kept -> numbers]
  BY <1>5
<1>7. \A i, j \in kept : number[i] = number[j] => i = j
  <2> SUFFICES ASSUME NEW i \in kept, NEW j \in kept,
                      Cardinality(upto(i)) = Cardinality(upto(j)), i # j
               PROVE  FALSE
    OBVIOUS
  <2>1. i < j \/ j < i
    BY <1>1, <1>2
  <2> QED
    BY <1>3, <1>4, <2>1
<1>8. number \in Injection(kept, numbers)
  <2> HIDE DEF number, numbers
  <2> QED
    BY <1>6, <1>7 DEF Injection, IsInjective
<1>9. IsFiniteSet(numbers) /\ Cardinality(numbers) = Cardinality(kept)
  BY <1>3, FS_Interval
<1>10. number \in Surjection(kept, numbers)
  <2> HIDE DEF number, numbers
  <2> QED
    BY <1>8, <1>9, FS_Injection
<1>11. ASSUME NEW k \in numbers
       PROVE  seq[CHOOSE i \in kept : Cardinality(upto(i)) = k] \in T
  <2>1. \E i \in kept : number[i] = k
    BY <1>10 DEF Surjection
  <2>2. \E i \in kept : Cardinality(upto(i)) = k
    BY <2>1
  <2>3. (CHOOSE i \in kept : Cardinality(upto(i)) = k) \in kept
    BY <2>2
  <2>4. kept \in SUBSET (DOMAIN seq)
    BY DEF kept
  <2> QED
    BY <1>1, <2>3, <2>4
<1>12. Without(seq, S) = [k \in numbers |-> seq[CHOOSE i \in kept : Cardinality(upto(i)) = k]]
  BY DEF Without, kept, upto
<1> HIDE DEF numbers
<1>13. Without(seq, S) \in [numbers -> T]
  BY <1>11, <1>12
<1> QED
  BY <1>3, <1>13 DEF numbers

LEMMA SequenceOfSet ==
  ASSUME NEW S, IsFiniteSet(S)
  PROVE  SetToSeq(S) \in Seq(S)
<1>1. PICK n \in Nat : ExistsBijection(1..n, S)
  BY FS_NatBijection
<1>2. n = Cardinality(S)
  BY <1>1, FS_CountingElements
<1>3. \E f \in [1..Cardinality(S) -> S] : IsInjective(f)
  BY <1>1, <1>2 DEF ExistsBijection, Bijection, Injection
<1>4. SetToSeq(S) \in [1..Cardinality(S) -> S]
  BY <1>3 DEF SetToSeq
<1> QED
  BY <1>1, <1>2, <1>4

RunningRows == {t \in Tasks : status[t] = "RUNNING"}

QueueInv ==
  /\ ready \in Seq(Tasks)
  /\ IsFiniteSet(RunningRows)
  /\ detached \subseteq Tasks
  /\ background \in BOOLEAN /\ storeFails \in BOOLEAN

LEMMA QueueInit == Init => QueueInv
<1> SUFFICES ASSUME Init PROVE QueueInv
  OBVIOUS
<1>1. RunningRows = {}
  BY DEF Init, LedgerInit, RunningRows
<1>2. ready = <<>> /\ detached = {} /\ background \in BOOLEAN /\ storeFails \in BOOLEAN
  BY DEF Init, LedgerInit
<1> QED
  BY <1>1, <1>2, FS_EmptySet DEF QueueInv

\* What an operation of the ledger makes of the due tasks and of the RUNNING
\* ones.
QueueMoves ==
  /\ ready' \in Seq(Tasks)
  /\ IsFiniteSet(RunningRows')

LEMMA LedgerMoves ==
  ASSUME Typed, ready \in Seq(Tasks), IsFiniteSet(RunningRows), NEW t \in Tasks
  PROVE  /\ UNCHANGED ledger => QueueMoves
         /\ Enqueue(t) => QueueMoves
         /\ FallDue(t) => QueueMoves
         /\ \A new \in Statuses \ {"RUNNING"} : Finish(t, new) => QueueMoves
         /\ FinishNow(t) => QueueMoves
<1>1. \A S : Without(ready, S) \in Seq(Tasks)
  BY WithoutTyped
<1>2. Append(ready, t) \in Seq(Tasks) /\ Append(Without(ready, {t}), t) \in Seq(Tasks)
  BY <1>1
<1>3. ASSUME ready' \in Seq(Tasks),
             \A u \in Tasks : status'[u] = "RUNNING" => status[u] = "RUNNING"
      PROVE  QueueMoves
  <2>1. RunningRows' \in SUBSET RunningRows
    BY <1>3 DEF RunningRows
  <2> QED
    BY <1>3, <2>1, FS_Subset DEF QueueMoves
<1>4. UNCHANGED ledger => QueueMoves
  BY <1>3 DEF ledger
<1>5. Enqueue(t) => QueueMoves
  BY <1>2, <1>3 DEF Enqueue, ledger, Typed
<1>6. FallDue(t) => QueueMoves
  BY <1>2, <1>3 DEF FallDue
<1>7. ASSUME NEW new \in Statuses \ {"RUNNING"}, Finish(t, new) PROVE QueueMoves
  BY <1>1, <1>3, <1>7 DEF Finish, Typed
<1>8. FinishNow(t) => QueueMoves
  BY <1>2, <1>3 DEF FinishNow, Typed
<1> QED
  BY <1>4, <1>5, <1>6, <1>7, <1>8

\* A claim adds the tasks it was given, which are as many as were asked for.
LEMMA ClaimMoves ==
  ASSUME Typed, SlotsInv, ready \in Seq(Tasks), IsFiniteSet(RunningRows), Claim
  PROVE  QueueMoves
<1> DEFINE claimed == Due(ClaimLimit, Reserved)
<1>1. /\ pc = "claim" /\ ready' = Without(ready, claimed)
      /\ status' = [t \in Tasks |-> IF t \in claimed THEN "RUNNING" ELSE status[t]]
  BY DEF Claim, ClaimDue
<1>2. ClaimLimit \in Nat
  <2>1. background => /\ IsFiniteSet(pending) /\ Cardinality(pending) \in Nat
                      /\ Cardinality(pending) <= MaxInFlight
    BY <1>1, FS_CardinalityType DEF SlotsInv, Held
  <2> QED
    BY <2>1, LimitsAssumption DEF ClaimLimit, FreeSlots
<1>3. IsFiniteSet(claimed)
  BY <1>2, DueBounded
<1>4. RunningRows' \in SUBSET (RunningRows \cup claimed)
  BY <1>1 DEF RunningRows
<1>5. IsFiniteSet(RunningRows')
  <2> HIDE DEF claimed
  <2> QED
    BY <1>3, <1>4, FS_Union, FS_Subset
<1> QED
  BY <1>1, <1>5, WithoutTyped DEF QueueMoves

LEMMA QueueStep == Typed /\ SlotsInv /\ QueueInv /\ [Next]_vars => QueueInv'
<1> SUFFICES ASSUME Typed, SlotsInv, QueueInv, [Next]_vars PROVE QueueInv'
  OBVIOUS
<1> USE DEF QueueInv
<1>1. \A t : /\ ErrorStatus(t) \in Statuses \ {"RUNNING"}
             /\ OutcomeStatus(t) \in Statuses \ {"RUNNING"}
  BY DEF ErrorStatus, OutcomeStatus, Terminal, Statuses
<1>2. "QUEUED" \in Statuses \ {"RUNNING"}
  BY DEF Statuses
<1>3. background' \in BOOLEAN /\ storeFails' \in BOOLEAN
  BY SettingFixed
<1>4. UNCHANGED ledger => QueueMoves
  BY FS_Subset DEF ledger, QueueMoves, RunningRows
<1>5. ASSUME QueueMoves, detached' \subseteq Tasks PROVE QueueInv'
  BY <1>3, <1>5 DEF QueueMoves
<1> USE DEF Typed, memory, aside
<1>6. CASE Arrive \/ TimePasses
  BY <1>5, <1>6, LedgerMoves DEF Arrive, TimePasses
<1>7. CASE Loop
  <2>1. CASE Pass \/ CollectEnds \/ ClaimRaises \/ ItemsEnd \/ Closed
    BY <1>4, <1>5, <2>1 DEF Pass, CollectEnds, ClaimRaises, ItemsEnd, Closed
  <2>2. CASE Claim
    BY <1>5, <2>2, ClaimMoves DEF Claim
  <2>3. ASSUME NEW t \in Tasks, CollectSkips(t) \/ Submit(t) PROVE QueueInv'
    BY <1>4, <1>5, <2>3 DEF CollectSkips, Submit
  <2>4. ASSUME NEW t \in Tasks, Collect(t) \/ Returned(t) PROVE QueueInv'
    <3>1. UNCHANGED ledger \/ Finish(t, OutcomeStatus(t))
      BY <2>4 DEF Collect, Returned, Settle, Caught
    <3>2. detached' = detached
      BY <2>4 DEF Collect, Returned, Settle, Caught, Taken
    <3> QED
      BY <1>1, <1>5, <3>1, <3>2, LedgerMoves
  <2>5. ASSUME NEW t \in Tasks, ApplyError(t) \/ ApplyErrorRaises(t) PROVE QueueInv'
    <3>1. UNCHANGED ledger \/ Finish(t, ErrorStatus(t))
      BY <2>5 DEF ApplyError, ApplyErrorRaises
    <3>2. detached' \subseteq Tasks
      BY <2>5 DEF ApplyError, ApplyErrorRaises
    <3> QED
      BY <1>1, <1>5, <3>1, <3>2, LedgerMoves
  <2>6. ASSUME NEW t \in Tasks, DeferUnhandled(t) \/ ItemRaises(t) PROVE QueueInv'
    BY <1>2, <1>4, <1>5, <2>6, LedgerMoves DEF DeferUnhandled, Deferred, ItemRaises
  <2>7. ASSUME NEW t \in Tasks, Requeue(t) PROVE QueueInv'
    BY <1>4, <1>5, <2>7, LedgerMoves DEF Requeue
  <2> QED
    BY <1>7, <2>1, <2>2, <2>3, <2>4, <2>5, <2>6, <2>7 DEF Loop
<1>8. CASE Handlers
  BY <1>4, <1>5, <1>8 DEF Handlers, HandlerEnds, DetachedEnds
<1>9. CASE Boot
  <2>1. /\ ready' = ready \o SetToSeq(RunningRows)
        /\ RunningRows' = {} /\ detached' = detached
    BY <1>9 DEF Boot, RequeueRunning, RunningRows
  <2>2. SetToSeq(RunningRows) \in Seq(Tasks)
    BY SequenceOfSet DEF RunningRows
  <2> QED
    BY <1>5, <2>1, <2>2, FS_EmptySet DEF QueueMoves
<1>10. CASE Stop \/ Crash \/ UNCHANGED vars
  BY <1>4, <1>5, <1>10 DEF Stop, Crash, vars
<1> QED
  BY <1>6, <1>7, <1>8, <1>9, <1>10 DEF Next

-----------------------------------------------------------------------------

\* Whatever raises and however often the manager ends, what the dispatcher
\* and the ledger keep is of the types their columns and fields have.
THEOREM TypeCorrect == Spec => []TypeOK
<1> DEFINE Inv == Typed /\ SlotsInv /\ QueueInv
<1>1. Init => Inv
  BY TypedInit, SlotsInit, QueueInit
<1>2. Inv /\ [Next]_vars => Inv'
  BY TypedStep, SlotsStep, QueueStep
<1>3. Inv => TypeOK
  BY DEF Typed, QueueInv, TypeOK, LedgerTypeOK
<1> QED
  BY <1>1, <1>2, <1>3, PTL DEF Spec

\* Whatever the store does and however often the manager ends: a task that
\* has failed MaxAttempts times is ESCALATED and stays out of the dispatcher,
\* and the dispatcher only holds RUNNING rows.
THEOREM BudgetHonoured ==
  Spec => [](RetryBudgetHonoured /\ PendingIsRunning)
<1> DEFINE Inv == Typed /\ PendingInv /\ BudgetInv
<1>1. Init => Inv
  BY TypedInit, PendingInit, BudgetInit
<1>2. Inv /\ [Next]_vars => Inv'
  BY TypedStep, PendingStep, BudgetStep
<1>3. Inv => RetryBudgetHonoured /\ PendingIsRunning
  BY DEF Typed, PendingInv, BudgetInv, RetryBudgetHonoured, PendingIsRunning
<1> QED
  BY <1>1, <1>2, <1>3, PTL DEF Spec

\* A background dispatcher never holds more handlers than it has slots, over
\* passes, restarts and writes that raise.
THEOREM SlotsHonoured == Spec => []InFlightBounded
<1> DEFINE Inv == Typed /\ PendingInv /\ SlotsInv
<1>1. Init => Inv
  BY TypedInit, PendingInit, SlotsInit
<1>2. Inv /\ [Next]_vars => Inv'
  BY TypedStep, PendingStep, SlotsStep
<1>3. Inv => InFlightBounded
  <2> SUFFICES ASSUME Inv, background PROVE Cardinality(pending) <= MaxInFlight
    BY DEF PendingInv, InFlightBounded
  <2>1. IsFiniteSet(Held) /\ Cardinality(Held) <= MaxInFlight /\ pending \subseteq Held
    BY DEF SlotsInv, Held
  <2>2. /\ Cardinality(pending) <= Cardinality(Held)
        /\ Cardinality(pending) \in Nat /\ Cardinality(Held) \in Nat
    BY <2>1, FS_Subset, FS_CardinalityType
  <2> QED
    BY <2>1, <2>2, LimitsAssumption
<1> QED
  BY <1>1, <1>2, <1>3, PTL DEF Spec

\* The handlers of a WorkDispatcher end with its manager: only those of a
\* BackgroundWorkDispatcher can run beside another manager, as the run on
\* NoOverlap has it.
THEOREM ForegroundNeverOverlaps == Spec => [](~background => NoOverlap)
<1> DEFINE Inv == ~background => detached = {} /\ pc \notin {"collect", "closing", "requeue"}
<1>1. Init => Inv
  BY DEF Init
<1>2. Inv /\ [Next]_vars => Inv'
  <2> SUFFICES ASSUME Inv, [Next]_vars, ~background PROVE Inv'
    BY SettingFixed
  <2> USE DEF memory, aside
  <2>1. CASE Arrive \/ TimePasses \/ Handlers \/ UNCHANGED vars
    BY <2>1 DEF Arrive, TimePasses, Handlers, HandlerEnds, DetachedEnds, vars
  <2>2. CASE Boot \/ Stop \/ Crash
    BY <2>2 DEF Boot, Stop, Crash, Idle
  <2>3. CASE Pass \/ CollectEnds \/ Claim \/ ClaimRaises \/ ItemsEnd \/ Closed
    BY <2>3 DEF Pass, CollectEnds, Collecting, Claim, ClaimRaises, ItemsEnd, Closed
  <2>4. ASSUME NEW t \in Tasks,
               \/ CollectSkips(t) \/ Collect(t) \/ DeferUnhandled(t) \/ Submit(t)
               \/ ItemRaises(t) \/ Requeue(t)
        PROVE  Inv'
    BY <2>4 DEF CollectSkips, Collect, Collecting, DeferUnhandled, Submit, ItemRaises, Requeue
  <2>5. ASSUME NEW t \in Tasks, Returned(t) \/ ApplyError(t) \/ ApplyErrorRaises(t) PROVE Inv'
    BY <2>5 DEF Returned, Settle, Caught, Taken, ApplyError, ApplyErrorRaises
  <2> QED
    BY <2>1, <2>2, <2>3, <2>4, <2>5 DEF Next, Loop
<1>3. Inv => (~background => NoOverlap)
  BY DEF NoOverlap
<1> QED
  BY <1>1, <1>2, <1>3, PTL DEF Spec

\* While the store works no task is stuck in RUNNING between two passes.
THEOREM NothingStranded == Spec => []RunningIsOwned
<1> DEFINE Inv == Typed /\ PendingInv /\ (~storeFails => OwnedInv)
<1>1. Init => Inv
  BY TypedInit, PendingInit, OwnedInit
<1>2. Inv /\ [Next]_vars => Inv'
  BY TypedStep, PendingStep, OwnedStep, SettingFixed
<1>3. Inv => RunningIsOwned
  BY DEF Typed, PendingInv, OwnedInv, InHand, RunningIsOwned
<1> QED
  BY <1>1, <1>2, <1>3, PTL DEF Spec

\* While the store works the dispatcher, and the restarts of its manager,
\* implement the life cycle of a task.
THEOREM LifecycleImplemented == Spec => ImplementsLifecycle
<1> DEFINE Inv == Typed /\ PendingInv /\ (~storeFails => OwnedInv)
<1>1. Init => Inv /\ Lifecycle!Init
  BY TypedInit, PendingInit, OwnedInit DEF Init, LedgerInit, Lifecycle!Init, seen
<1>2. Inv /\ [Next]_vars => Inv'
  BY TypedStep, PendingStep, OwnedStep, SettingFixed
<1>3. Inv /\ Inv' /\ [Next]_vars => [Lifecycle!Next]_seen
  <2> SUFFICES ASSUME Inv, Inv', [Next]_vars PROVE [Lifecycle!Next]_seen
    OBVIOUS
  <2>1. storeFails' = storeFails
    BY SettingFixed
  <2>2. CASE storeFails
    BY <2>1, <2>2 DEF seen
  <2>3. CASE ~storeFails
    <3>1. [Rows!Next]_status
      BY <2>3, LifecycleStep
    <3>2. seen = status /\ seen' = status'
      BY <2>1, <2>3 DEF seen
    <3> QED
      BY <3>1, <3>2 DEF Rows!Next, Rows!Moves, Rows!Final, Lifecycle!Next,
         Lifecycle!Moves, Lifecycle!Final
  <2> QED
    BY <2>2, <2>3
<1> QED
  BY <1>1, <1>2, <1>3, PTL DEF Spec, ImplementsLifecycle, Lifecycle!Spec
=============================================================================
