------------------------------- MODULE Recurring -------------------------------
(***************************************************************************)
(* RecurringTaskSeeder (manager/recurring.py): once per pass of the        *)
(* manager's loop it enqueues the next run of every template that is due,  *)
(* and records a cursor for it.  The insert and the cursor are two         *)
(* transactions: the manager may be killed, or the second may raise,       *)
(* between them.                                                           *)
(*                                                                         *)
(* The run n of template s is the task <<s, n>>: the id is made from the   *)
(* template's id and the sequence number.  Whoever works on the runs moves *)
(* them as TaskLifecycle allows.                                           *)
(*                                                                         *)
(* Time is kept relative to now.  tick() reads the clock once, so time     *)
(* passes only between passes.                                             *)
(***************************************************************************)
EXTENDS Integers, FiniteSets

CONSTANTS Specs,       \* enabled templates
          Interval,    \* interval_s
          Backoff,     \* min(interval_s, 60)
          MaxRuns      \* bound: runs of a template

ASSUME IntervalAssumption == Interval \in Nat \ {0} /\ Backoff \in 1..Interval
ASSUME MaxRunsAssumption == MaxRuns \in Nat \ {0}

VARIABLES
  status,    \* the status column of the runs
  cursor,    \* the sequence of a template's stored state
  wait,      \* its next_at - now, no less than -Interval
  pc,        \* where the manager process is
  todo,      \* templates the current pass has not reached yet
  seeded,    \* the template whose run has been enqueued, before its cursor
  age,       \* history: time since a template's last run was enqueued
  storeFails \* fixed in a behaviour: whether writes to the store may raise

process == <<pc, todo, seeded>>
vars == <<status, cursor, wait, process, age, storeFails>>

Runs == Specs \X (1..MaxRuns)
Lifecycle == INSTANCE TaskLifecycle WITH Tasks <- Runs, GivenUp <- {}

Active == {"QUEUED", "RUNNING"}
Present(s) == {n \in 1..MaxRuns : status[<<s, n>>] # "absent"}

TypeOK ==
  /\ status \in [Runs -> {"absent"} \cup Active \cup Lifecycle!Final]
  /\ cursor \in [Specs -> 0..MaxRuns]
  /\ wait \in [Specs -> -Interval..Interval]
  /\ pc \in {"down", "idle", "tick", "cursor"}
  /\ todo \subseteq Specs
  /\ seeded \subseteq Specs
  /\ age \in [Specs -> 0..Interval]
  /\ storeFails \in BOOLEAN

\* No state is stored yet: next_at is 0, long ago.
Init ==
  /\ status = [r \in Runs |-> "absent"]
  /\ cursor = [s \in Specs |-> 0]
  /\ wait = [s \in Specs |-> -Interval]
  /\ pc = "down" /\ todo = {} /\ seeded = {}
  /\ age = [s \in Specs |-> 0]
  /\ storeFails \in BOOLEAN

-----------------------------------------------------------------------------
(* tick()                                                                  *)

Pass ==
  /\ pc = "idle"
  /\ pc' = "tick" /\ todo' = Specs
  /\ UNCHANGED <<status, cursor, wait, seeded, age, storeFails>>

Due(s) == pc = "tick" /\ s \in todo /\ wait[s] <= 0

\* The run of the cursor has not ended.
NeverActive(s) == FALSE                  \* faulty variant
EverPresent(s) == cursor[s] > 0          \* faulty variant: an ended run counts
StillActive(s) == cursor[s] > 0 /\ status[<<s, cursor[s]>>] \in Active

NotDue(s) ==
  /\ pc = "tick" /\ s \in todo
  /\ wait[s] > 0
  /\ todo' = todo \ {s}
  /\ UNCHANGED <<status, cursor, wait, pc, seeded, age, storeFails>>

\* No second run beside it: look again a little later.
Postpone(s) ==
  /\ Due(s)
  /\ StillActive(s)
  /\ wait' = [wait EXCEPT ![s] = Backoff]
  /\ todo' = todo \ {s}
  /\ UNCHANGED <<status, cursor, pc, seeded, age, storeFails>>

\* The insert: nothing happens if the run is there already.
InsertLost(run) == UNCHANGED status      \* faulty variant
Inserted(run) ==
  status' = [status EXCEPT ![run] = IF @ = "absent" THEN "QUEUED" ELSE @]

Seed(s) ==
  /\ Due(s)
  /\ ~StillActive(s)
  /\ cursor[s] < MaxRuns
  /\ LET run == <<s, cursor[s] + 1>>
     IN  /\ Inserted(run)
         /\ age' = [age EXCEPT ![s] = IF status[run] = "absent" THEN 0 ELSE @]
  /\ pc' = "cursor" /\ seeded' = {s}
  /\ UNCHANGED <<cursor, wait, todo, storeFails>>

\* The cursor: the next run is due an interval from now, not an interval
\* after this one was due.
NextDueKept(s) == wait[s] + Interval     \* faulty variant
NextDue(s) == Interval

Advance(s) ==
  /\ pc = "cursor" /\ s \in seeded
  /\ cursor' = [cursor EXCEPT ![s] = @ + 1]
  /\ wait' = [wait EXCEPT ![s] = NextDue(s)]
  /\ pc' = "tick" /\ todo' = todo \ {s} /\ seeded' = {}
  /\ UNCHANGED <<status, age, storeFails>>

\* A write raises: main() logs it and goes on without the rest of the pass.
TickRaises ==
  /\ pc \in {"tick", "cursor"} /\ storeFails
  /\ pc' = "idle" /\ todo' = {} /\ seeded' = {}
  /\ UNCHANGED <<status, cursor, wait, age, storeFails>>

PassEnds ==
  /\ pc = "tick" /\ todo = {}
  /\ pc' = "idle"
  /\ UNCHANGED <<status, cursor, wait, todo, seeded, age, storeFails>>

\* The bound: a template that has had its runs is left out.
Exhausted(s) ==
  /\ Due(s) /\ ~StillActive(s)
  /\ cursor[s] = MaxRuns
  /\ todo' = todo \ {s}
  /\ UNCHANGED <<status, cursor, wait, pc, seeded, age, storeFails>>

-----------------------------------------------------------------------------

Boot ==
  /\ pc = "down"
  /\ pc' = "idle"
  /\ UNCHANGED <<status, cursor, wait, todo, seeded, age, storeFails>>

Crash ==
  /\ pc # "down"
  /\ pc' = "down" /\ todo' = {} /\ seeded' = {}
  /\ UNCHANGED <<status, cursor, wait, age, storeFails>>

\* Somebody works on a run.
Worked ==
  \E r \in Runs, new \in Active \cup Lifecycle!Final :
    /\ status[r] \in Active
    /\ Lifecycle!Moves(status[r], new)
    /\ status' = [status EXCEPT ![r] = new]
    /\ UNCHANGED <<cursor, wait, process, age, storeFails>>

Elapse ==
  /\ pc \in {"idle", "down"}
  /\ wait' = [s \in Specs |-> IF wait[s] > -Interval THEN wait[s] - 1
                                                      ELSE wait[s]]
  /\ age' = [s \in Specs |-> IF age[s] < Interval THEN age[s] + 1 ELSE age[s]]
  /\ UNCHANGED <<status, cursor, process, storeFails>>

Tick ==
  \/ Pass \/ PassEnds \/ TickRaises
  \/ \E s \in Specs : \/ NotDue(s) \/ Postpone(s) \/ Seed(s) \/ Advance(s)
                      \/ Exhausted(s)

Next == Tick \/ Boot \/ Crash \/ Worked \/ Elapse

Spec == Init /\ [][Next]_vars

\* The loop goes on.  Time passes whatever the loop does: strongly fair,
\* because in this model it passes only between passes.
Fairness == WF_vars(Tick) /\ SF_vars(Elapse)

LiveSpec == Spec /\ Fairness

-----------------------------------------------------------------------------
(* Properties.                                                             *)

\* "avoid overlapping runs" (class docstring): a template never has two runs
\* that are queued or running, whatever is lost between insert and cursor.
NoOverlap ==
  \A s \in Specs :
    Cardinality({n \in 1..MaxRuns : status[<<s, n>>] \in Active}) <= 1

\* The stored cursor and the ledger agree, but for a run whose cursor was
\* lost: no sequence number is skipped and none is used for two runs.
CursorFollowsRuns ==
  \A s \in Specs :
    \E n \in {cursor[s], cursor[s] + 1} : Present(s) = 1..n

\* "missed intervals produce one bounded catch-up task rather than a burst"
\* (LOCAL_MANAGER.md:200-201): two runs are enqueued an interval apart.
NoBurst ==
  [][\A s \in Specs :
       Present(s)' # Present(s) /\ Present(s) # {} => age[s] >= Interval]_vars

\* A template is not forgotten: after a run has ended the next one comes,
\* unless the manager ends.
NextRunComes ==
  \A s \in Specs, n \in 1..(MaxRuns - 1) :
    ~storeFails /\ status[<<s, n>>] \in Lifecycle!Final ~>
      (status[<<s, n + 1>>] # "absent" \/ pc = "down")
================================================================================
