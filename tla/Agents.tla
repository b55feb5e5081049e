-------------------------------- MODULE Agents --------------------------------
(***************************************************************************)
(* AgentCoordinator (manager/agents.py): each pass of the manager's loop   *)
(* collects the agent reviews that are done and starts the ones that are   *)
(* due.  A review is a task of the ledger that only its agent touches: the *)
(* queue dispatcher reserves the kind.  manager/run.py saves each agent's  *)
(* count of reviews once per pass, and closes the coordinator when it ends.*)
(*                                                                         *)
(* <<a, n>> is the n-th review of agent a.  Reviews are scheduled for the  *)
(* moment they are queued, so every QUEUED one is due.  The manager may be *)
(* killed between any two steps, and any call to the store may raise.      *)
(***************************************************************************)
EXTENDS Naturals, FiniteSets

CONSTANTS Agents,      \* enabled agents
          Async,       \* those asked on a thread (provider "ollama")
          MaxReviews,  \* bound: reviews of an agent, and where counts saturate
          MaxRaises    \* bound: calls to the store that raise

ASSUME AsyncAssumption == Async \subseteq Agents
ASSUME BoundsAssumption == MaxReviews \in Nat \ {0} /\ MaxRaises \in Nat

VARIABLES
  status, attempts, ready,   \* the ledger
  saved,     \* tasks_completed in the agents' rows
  count,     \* tasks_completed in memory
  pending,   \* agents whose review is out
  task,      \* the n of the review an agent works on, 0 for none
  done,      \* pending agents whose answer has come
  waiting,   \* agents whose interval has not passed
  pc,        \* where the manager's thread is
  todo,      \* agents its current loop has not reached yet
  hand,      \* the agent it is starting
  finished,  \* history: reviews whose answer has been recorded
  raises     \* history: calls to the store that have raised

Reviews == Agents \X (1..MaxReviews)
None == 0
INSTANCE TaskLedger WITH Tasks <- Reviews, MaxAttempts <- 1

queue == <<status, attempts, ready>>
work == <<pending, task, done, waiting>>
control == <<pc, todo, hand>>
aside == <<finished, raises>>
vars == <<queue, saved, count, work, control, aside>>

Counts == [Agents -> 0..MaxReviews]
Review(a) == <<a, task[a]>>

TypeOK ==
  /\ LedgerTypeOK
  /\ saved \in Counts /\ count \in Counts
  /\ task \in [Agents -> 0..MaxReviews]
  /\ pending \subseteq Async /\ done \subseteq pending
  /\ waiting \subseteq Agents
  /\ pc \in {"down", "idle", "collect", "agents", "start", "submit", "persist",
             "stopping", "closing"}
  /\ todo \subseteq Agents /\ hand \subseteq Agents
  /\ finished \subseteq Reviews
  /\ raises \in 0..MaxRaises

Idle(next) ==
  /\ pc' = next
  /\ pending' = {} /\ done' = {} /\ waiting' = {} /\ todo' = {} /\ hand' = {}
  /\ task' = [a \in Agents |-> None]

Init ==
  /\ LedgerInit
  /\ saved = [a \in Agents |-> 0] /\ count = saved
  /\ pending = {} /\ done = {} /\ waiting = {}
  /\ task = [a \in Agents |-> None]
  /\ pc = "down" /\ todo = {} /\ hand = {}
  /\ finished = {}
  /\ raises = 0

StoreRaises == raises < MaxRaises /\ raises' = raises + 1

-----------------------------------------------------------------------------
(* tick(): collect what is done.                                           *)

Pass ==
  /\ pc = "idle"
  /\ pc' = "collect" /\ todo' = pending
  /\ UNCHANGED <<queue, saved, count, work, hand, aside>>

Increment(n) == IF n < MaxReviews THEN n + 1 ELSE n

TaskKept(a) == UNCHANGED task          \* faulty variant
TaskForgotten(a) == task' = [task EXCEPT ![a] = None]

NotCompleted(a) == UNCHANGED queue    \* faulty variant
Completed(a) == IF task[a] = None THEN UNCHANGED queue
                                  ELSE Finish(Review(a), "COMPLETE")

\* _record: the answer counts even if the ledger does not take it.
Record(a) ==
  /\ \/ Completed(a) /\ UNCHANGED raises
     \/ StoreRaises /\ UNCHANGED queue
  /\ TaskForgotten(a)
  /\ count' = [count EXCEPT ![a] = Increment(@)]
  /\ finished' = finished \cup (IF task[a] = None THEN {} ELSE {Review(a)})

CollectSkips(a) ==
  /\ pc = "collect" /\ a \in todo \ done
  /\ todo' = todo \ {a}
  /\ UNCHANGED <<queue, saved, count, work, pc, hand, aside>>

AnswerKept(a) == pending' = pending \ {a} /\ UNCHANGED done    \* faulty variant
AnswerTaken(a) == pending' = pending \ {a} /\ done' = done \ {a}

Collect(a) ==
  /\ pc = "collect" /\ a \in todo \cap done
  /\ Record(a)
  /\ AnswerTaken(a)
  /\ todo' = todo \ {a}
  /\ UNCHANGED <<saved, waiting, pc, hand>>

CollectEnds ==
  /\ pc = "collect" /\ todo = {}
  /\ pc' = "agents" /\ todo' = Agents
  /\ UNCHANGED <<queue, saved, count, work, hand, aside>>

-----------------------------------------------------------------------------
(* tick(): start what is due.                                              *)

NotDue(a) ==
  /\ pc = "agents" /\ a \in todo \cap (pending \cup waiting)
  /\ todo' = todo \ {a}
  /\ UNCHANGED <<queue, saved, count, work, pc, hand, aside>>

\* The agent's turn: its interval starts over.
Turn(a) ==
  /\ pc = "agents" /\ a \in todo \ (pending \cup waiting)
  /\ waiting' = waiting \cup {a}
  /\ hand' = {a}
  /\ UNCHANGED <<saved, count, pending, done, todo, finished>>

\* find_queued_task: the oldest queued review of the agent.
NoneQueued(a) == {}                    \* faulty variant
Queued(a) == {n \in 1..MaxReviews : status[<<a, n>>] = "QUEUED"}
Unused(a) == {n \in 1..MaxReviews : status[<<a, n>>] = "absent"}
Before(a, m, n) ==
  \E i, j \in DOMAIN ready : i < j /\ ready[i] = <<a, m>> /\ ready[j] = <<a, n>>
StrictlyOldest(a) ==                   \* faulty variant
  {n \in Queued(a) : \A m \in Queued(a) : Before(a, n, m)}
Oldest(a) == {n \in Queued(a) : \A m \in Queued(a) : ~Before(a, m, n)}

\* _start_task, up to the row: an earlier review that waits is adopted.
Adopt(a) ==
  /\ Turn(a)
  /\ \E n \in Oldest(a) : task' = [task EXCEPT ![a] = n]
  /\ pc' = "start"
  /\ UNCHANGED <<queue, raises>>

\* Otherwise a review is queued under a new id.
EnqueueFresh(a) ==
  /\ Turn(a)
  /\ Queued(a) = {} /\ Unused(a) # {}
  /\ LET n == CHOOSE n \in Unused(a) : TRUE
     IN  Enqueue(<<a, n>>) /\ task' = [task EXCEPT ![a] = n]
  /\ pc' = "start"
  /\ UNCHANGED raises

\* The insert raises, and fail() finds no row: the review goes on without one.
EnqueueRaises(a) ==
  /\ Turn(a) /\ StoreRaises
  /\ Queued(a) = {}
  /\ pc' = "submit"
  /\ UNCHANGED <<queue, task>>

\* find_queued_task raises: that ends the manager.
FindRaises(a) ==
  /\ Turn(a) /\ StoreRaises
  /\ pc' = "stopping"
  /\ UNCHANGED <<queue, task>>

StartReview(a) ==
  /\ pc = "start" /\ a \in hand
  /\ StartTask(Review(a))
  /\ pc' = "submit"
  /\ UNCHANGED <<saved, count, work, todo, hand, aside>>

\* start() or task_status() raises: the row is marked FAILED, unless that
\* raises as well, and the review goes on without it.
StartRaises(a) ==
  /\ pc = "start" /\ a \in hand /\ StoreRaises
  /\ Finish(Review(a), "FAILED") \/ UNCHANGED queue
  /\ task' = [task EXCEPT ![a] = None]
  /\ pc' = "submit"
  /\ UNCHANGED <<saved, count, pending, done, waiting, todo, hand, finished>>

Submit(a) ==
  /\ pc = "submit" /\ a \in hand \cap Async
  /\ pending' = pending \cup {a}
  /\ pc' = "agents" /\ todo' = todo \ {a} /\ hand' = {}
  /\ UNCHANGED <<queue, saved, count, task, done, waiting, aside>>

\* A provider that answers inside the loop.
AskInline(a) ==
  /\ pc = "submit" /\ a \in hand \ Async
  /\ Record(a)
  /\ pc' = "agents" /\ todo' = todo \ {a} /\ hand' = {}
  /\ UNCHANGED <<saved, pending, done, waiting>>

\* The bound: an agent that has had its reviews is left out.
Exhausted(a) ==
  /\ pc = "agents" /\ a \in todo \ (pending \cup waiting)
  /\ Queued(a) = {} /\ Unused(a) = {}
  /\ todo' = todo \ {a}
  /\ UNCHANGED <<queue, saved, count, work, pc, hand, aside>>

TurnsEnd ==
  /\ pc = "agents" /\ todo = {}
  /\ pc' = "persist"
  /\ UNCHANGED <<queue, saved, count, work, todo, hand, aside>>

-----------------------------------------------------------------------------
(* Saving, and the life of the manager process.                            *)

Persist ==
  /\ pc = "persist"
  /\ saved' = count
  /\ pc' = "idle"
  /\ UNCHANGED <<queue, count, work, todo, hand, aside>>

\* An exception or Ctrl-C, _persist_runtime's own failure included: the
\* finally block of main().
Stop ==
  /\ pc \notin {"down", "stopping", "closing"}
  /\ pc' = "stopping"
  /\ UNCHANGED <<queue, saved, count, work, todo, hand, aside>>

\* close() goes over _pending_task_ids, which a review enters when submitted.
StopPersists ==
  /\ pc = "stopping"
  /\ saved' = count
  /\ pc' = "closing" /\ todo' = {a \in Agents \ hand : task[a] # None}
  /\ UNCHANGED <<queue, count, work, hand, aside>>

\* Saving fails here: close() is not reached.
StopRaises ==
  /\ pc = "stopping" /\ StoreRaises
  /\ \E part \in SUBSET Agents :
       saved' = [a \in Agents |-> IF a \in part THEN count[a] ELSE saved[a]]
  /\ Idle("down")
  /\ UNCHANGED <<queue, count, finished>>

Requeue(a) ==
  /\ pc = "closing" /\ a \in todo
  /\ \/ FinishNow(Review(a)) /\ UNCHANGED raises
     \/ StoreRaises /\ UNCHANGED queue
  /\ todo' = todo \ {a}
  /\ UNCHANGED <<saved, count, work, pc, hand, finished>>

Closed ==
  /\ pc = "closing" /\ todo = {}
  /\ Idle("down")
  /\ UNCHANGED <<queue, saved, count, aside>>

Crash ==
  /\ pc # "down"
  /\ Idle("down")
  /\ UNCHANGED <<queue, saved, count, aside>>

\* prior_count: the larger of the saved count and the ledger's; each of them
\* reads as 0 when the store raises.
CompletedRows(a) ==
  Cardinality({n \in 1..MaxReviews : status[<<a, n>>] = "COMPLETE"})
Larger(m, n) == IF m < n THEN n ELSE m
SavedOnly(a) == saved[a]               \* faulty variant
PriorCount(a) == Larger(saved[a], CompletedRows(a))

\* main(): recover_interrupted, and a new coordinator.
Boot ==
  /\ pc = "down"
  /\ RequeueRunning
  /\ \/ count' = [a \in Agents |-> PriorCount(a)] /\ UNCHANGED raises
     \/ /\ StoreRaises
        /\ count' \in Counts
        /\ \A a \in Agents : count'[a] \in {0, saved[a], CompletedRows(a)}
  /\ Idle("idle")
  /\ UNCHANGED <<saved, finished>>

\* The agent answers, fails or times out: all three are an answer.
Answer(a) ==
  /\ a \in pending \ done
  /\ done' = done \cup {a}
  /\ UNCHANGED <<queue, saved, count, pending, task, waiting, control, aside>>

Elapse(a) ==
  /\ a \in waiting
  /\ waiting' = waiting \ {a}
  /\ UNCHANGED <<queue, saved, count, pending, task, done, control, aside>>

Loop ==
  \/ Pass \/ CollectEnds \/ TurnsEnd \/ Persist \/ StopPersists \/ StopRaises
  \/ Closed
  \/ \E a \in Agents :
       \/ CollectSkips(a) \/ Collect(a) \/ NotDue(a) \/ Adopt(a)
       \/ EnqueueFresh(a) \/ EnqueueRaises(a) \/ FindRaises(a)
       \/ StartReview(a) \/ StartRaises(a) \/ Submit(a) \/ AskInline(a)
       \/ Exhausted(a) \/ Requeue(a)

Next ==
  \/ Loop \/ Stop \/ Crash \/ Boot
  \/ \E a \in Agents : Answer(a) \/ Elapse(a)

Spec == Init /\ [][Next]_vars

\* The loop goes on, and not only by raising; each answer comes (requests have
\* a timeout), and each interval passes.
Fairness ==
  /\ WF_vars(Loop /\ UNCHANGED raises)
  /\ \A a \in Agents : WF_vars(Answer(a)) /\ WF_vars(Elapse(a))

LiveSpec == Spec /\ Fairness

-----------------------------------------------------------------------------
(* Properties.                                                             *)

Open(a) == {n \in 1..MaxReviews : status[<<a, n>>] \in {"QUEUED", "RUNNING"}}

\* "the coordinator adopts that same task instead of creating a duplicate"
\* (LOCAL_MANAGER.md:158-160): an agent never has two open reviews, and a call
\* that raises leaves one more behind at most.
OneOpenReview ==
  \A a \in Agents : Cardinality(Open(a)) <= 1 + raises

\* "Completed review counts are rebuilt from the durable task ledger on
\* startup" (LOCAL_MANAGER.md:160-161): wherever a manager ended, the next
\* one counts each completed review, and none twice; a call that raises makes
\* it count one review at most that the ledger does not call completed.
CountsAreExact ==
  pc # "down" =>
    \A a \in Agents : /\ count[a] <= CompletedRows(a) + raises
                      /\ raises = 0 => count[a] = CompletedRows(a)

\* A review goes through the life cycle of TaskLifecycle whatever raises, and
\* a completed one is not reopened; a review that cannot be started may be
\* given up.
Lifecycle == INSTANCE TaskLifecycle WITH Tasks <- Reviews, GivenUp <- {"FAILED"}
ImplementsLifecycle == Lifecycle!Spec

\* "coordinator-owned reviews resume without duplication after a manager
\* restart" (README.md:60): a review whose answer has been recorded is not
\* done again.
NoRework ==
  [][raises = 0 =>
       \A r \in finished : status[r] # "RUNNING" => status'[r] # "RUNNING"]_vars

\* A queued review is done, unless the manager ends.
ReviewSettles ==
  \A r \in Reviews :
    raises = 0 /\ status[r] = "QUEUED" ~>
      (\/ status[r] = "COMPLETE" \/ raises > 0
       \/ pc \in {"stopping", "closing", "down"})
=============================================================================
