------------------------------ MODULE TaskLedger ------------------------------
(***************************************************************************)
(* The tasks table of the state store (manager/state_store.py) behind      *)
(* WorkScheduler (manager/scheduler.py): the durable queue that the        *)
(* dispatchers, the agent coordinator and the recurring seeder share.      *)
(* Every operation is one SQLite transaction, hence one action.            *)
(*                                                                         *)
(* Of scheduled_at the code only asks whether it has passed and which of   *)
(* two due tasks is older, so the ledger keeps the due tasks in the order  *)
(* in which they fell due; a QUEUED task outside that sequence is          *)
(* scheduled for later.  The attempts column is compared with max_attempts *)
(* only, and saturates there.                                              *)
(***************************************************************************)
EXTENDS Naturals, Sequences, SequencesExt

CONSTANTS Tasks,        \* task ids
          MaxAttempts   \* max_attempts of the dispatcher

ASSUME MaxAttemptsAssumption == MaxAttempts \in Nat \ {0}

VARIABLES status,     \* the status column; "absent" for no row
          attempts,   \* the attempts column
          ready       \* QUEUED tasks with scheduled_at <= now, oldest first

ledger == <<status, attempts, ready>>

Terminal == {"COMPLETE", "FAILED", "ESCALATED"}
Statuses == {"absent", "QUEUED", "RUNNING"} \cup Terminal

LedgerTypeOK ==
  /\ status \in [Tasks -> Statuses]
  /\ attempts \in [Tasks -> 0..MaxAttempts]
  /\ ready \in Seq(Tasks)

LedgerInit ==
  /\ status = [t \in Tasks |-> "absent"]
  /\ attempts = [t \in Tasks |-> 0]
  /\ ready = << >>

InReady(t) == \E i \in DOMAIN ready : ready[i] = t

\* seq without the members of S: its k-th element is the one at the place
\* that is the k-th of those kept.  (The provers know nothing of SelectSeq.)
Without(seq, S) ==
  LET kept == {i \in DOMAIN seq : seq[i] \notin S}
  IN  [k \in 1..Cardinality(kept) |->
         seq[CHOOSE i \in kept : Cardinality(kept \cap (1..i)) = k]]

CountAttempt(n) == IF n < MaxAttempts THEN n + 1 ELSE n

\* enqueue_task with scheduled_at = now: nothing happens if the id is taken.
Enqueue(t) ==
  IF status[t] = "absent"
  THEN /\ status' = [status EXCEPT ![t] = "QUEUED"]
       /\ ready' = Append(ready, t)
       /\ UNCHANGED attempts
  ELSE UNCHANGED ledger

\* A task's scheduled_at passes.
FallDue(t) ==
  /\ status[t] = "QUEUED"
  /\ ~InReady(t)
  /\ ready' = Append(ready, t)
  /\ UNCHANGED <<status, attempts>>

\* The rows claim_due_tasks selects: the oldest due tasks, at most limit,
\* of the kinds that are not excluded.
Due(limit, excluded) ==
  LET rows == Without(ready, excluded)
  IN  {t \in Tasks : /\ status[t] = "QUEUED"
                     /\ \E i \in DOMAIN rows \cap (1..limit) : rows[i] = t}

ClaimDue(claimed) ==
  /\ status' = [t \in Tasks |-> IF t \in claimed THEN "RUNNING" ELSE status[t]]
  /\ attempts' = [t \in Tasks |-> IF t \in claimed THEN CountAttempt(attempts[t])
                                                   ELSE attempts[t]]
  /\ ready' = Without(ready, claimed)

\* start_task, when it returns True.
StartTask(t) ==
  /\ status[t] = "QUEUED"
  /\ ClaimDue({t})

\* finish_task: the row is overwritten whatever its status was.
Finish(t, new) ==
  /\ status' = [status EXCEPT ![t] = new]
  /\ ready' = Without(ready, {t})
  /\ UNCHANGED attempts

\* finish_task(status = "QUEUED", scheduled_at = now)
FinishNow(t) ==
  /\ status' = [status EXCEPT ![t] = "QUEUED"]
  /\ ready' = Append(Without(ready, {t}), t)
  /\ UNCHANGED attempts

\* requeue_running_tasks: they all become due at the same instant, and ties
\* are broken by task id.
RequeueRunning ==
  LET running == {t \in Tasks : status[t] = "RUNNING"}
  IN  /\ status' = [t \in Tasks |-> IF t \in running THEN "QUEUED" ELSE status[t]]
      /\ ready' = ready \o SetToSeq(running)
      /\ UNCHANGED attempts
=============================================================================
