---------------------------- MODULE RecurringProofs ----------------------------
(***************************************************************************)
(* Proofs about Recurring, for any templates, intervals, run bound and     *)
(* store faults.                                                           *)
(*                                                                         *)
(* OrderInv is the argument of the comment in tick(): the cursor lags the  *)
(* rows by one run at most, and a run is only there once all the runs      *)
(* before it have ended.  PaceInv measures the time between two runs.      *)
(***************************************************************************)
EXTENDS Recurring, FiniteSetTheorems, TLAPS

Typed ==
  /\ status \in [Runs -> {"absent"} \cup Active \cup Lifecycle!Final]
  /\ cursor \in [Specs -> 0..MaxRuns]
  /\ seeded \subseteq Specs

OrderOf(s) ==
  /\ \A n \in 1..MaxRuns : n <= cursor[s] => status[<<s, n>>] # "absent"
  /\ \A n \in 1..MaxRuns : n > cursor[s] + 1 => status[<<s, n>>] = "absent"
  /\ \A m, n \in 1..MaxRuns :
       m < n /\ status[<<s, n>>] # "absent" => status[<<s, m>>] \in Lifecycle!Final
  /\ s \in seeded => cursor[s] < MaxRuns /\ status[<<s, cursor[s] + 1>>] # "absent"

OrderInv == Typed /\ \A s \in Specs : OrderOf(s)

-----------------------------------------------------------------------------

LEMMA OrderInit == Init => OrderInv
<1> SUFFICES ASSUME Init PROVE OrderInv
  OBVIOUS
<1> USE MaxRunsAssumption DEF Init, Runs
<1>1. Typed
  BY DEF Typed
<1>2. ASSUME NEW s \in Specs PROVE OrderOf(s)
  BY DEF OrderOf
<1> QED
  BY <1>1, <1>2 DEF OrderInv

\* The insert keeps the order: every run before the new one has ended.
LEMMA SeedKeepsOrder ==
  ASSUME OrderInv, NEW s \in Specs, Seed(s)
  PROVE  OrderInv'
<1> USE MaxRunsAssumption
<1> DEFINE next == cursor[s] + 1
<1>1. cursor[s] \in Nat /\ next \in 1..MaxRuns /\ <<s, next>> \in Runs
  BY DEF OrderInv, Typed, Seed, Runs
<1>2. ASSUME NEW m \in 1..MaxRuns, m < next PROVE status[<<s, m>>] \in Lifecycle!Final
  <2>1. cursor[s] \in 1..MaxRuns /\ status[<<s, cursor[s]>>] # "absent"
    BY <1>1, <1>2 DEF OrderInv, OrderOf
  <2>2. status[<<s, cursor[s]>>] \in Lifecycle!Final
    <3>1. <<s, cursor[s]>> \in Runs
      BY <2>1 DEF Runs
    <3>2. status[<<s, cursor[s]>>] \notin Active
      BY <2>1 DEF Seed, StillActive
    <3> QED
      BY <2>1, <3>1, <3>2 DEF OrderInv, Typed
  <2>3. CASE m = cursor[s]
    BY <2>2, <2>3
  <2>4. CASE m < cursor[s]
    BY <2>1, <2>4 DEF OrderInv, OrderOf
  <2> QED
    BY <1>1, <1>2, <2>3, <2>4
<1>3. /\ cursor' = cursor /\ seeded' = {s}
      /\ status' = [status EXCEPT ![<<s, next>>] = IF @ = "absent" THEN "QUEUED" ELSE @]
  BY DEF Seed, Inserted
<1>4. Typed'
  BY <1>1, <1>3 DEF OrderInv, Typed, Active
<1>5. /\ status'[<<s, next>>] # "absent"
      /\ \A r \in Runs : r # <<s, next>> => status'[r] = status[r]
  BY <1>1, <1>3 DEF OrderInv, Typed
<1>6. ASSUME NEW q \in Specs PROVE OrderOf(q)'
  <2>1. CASE q # s
    <3>1. \A n \in 1..MaxRuns : status'[<<q, n>>] = status[<<q, n>>]
      BY <1>5, <2>1 DEF Runs
    <3> QED
      BY <1>3, <2>1, <3>1 DEF OrderInv, OrderOf
  <2>2. CASE q = s
    <3>1. \A n \in 1..MaxRuns : n # next => status'[<<s, n>>] = status[<<s, n>>]
      BY <1>5 DEF Runs
    <3>2. \A n \in 1..MaxRuns : n <= cursor[s] => status'[<<s, n>>] # "absent"
      BY <1>1, <3>1 DEF OrderInv, OrderOf
    <3>3. \A n \in 1..MaxRuns : n > next => status'[<<s, n>>] = "absent"
      BY <1>1, <3>1 DEF OrderInv, OrderOf
    <3>4. ASSUME NEW m \in 1..MaxRuns, NEW n \in 1..MaxRuns, m < n,
                 status'[<<s, n>>] # "absent"
          PROVE  status'[<<s, m>>] \in Lifecycle!Final
      <4>1. n <= next
        BY <1>1, <3>3, <3>4
      <4>2. m < next /\ m # next
        BY <1>1, <3>4, <4>1
      <4> QED
        BY <1>2, <3>1, <4>2
    <3> QED
      BY <1>1, <1>3, <1>5, <2>2, <3>2, <3>3, <3>4 DEF OrderOf
  <2> QED
    BY <2>1, <2>2
<1> QED
  BY <1>4, <1>6 DEF OrderInv

LEMMA AdvanceKeepsOrder ==
  ASSUME OrderInv, NEW s \in Specs, Advance(s)
  PROVE  OrderInv'
<1> USE MaxRunsAssumption
<1>1. cursor[s] \in Nat /\ cursor[s] < MaxRuns
  <2>1. s \in seeded
    BY DEF Advance
  <2>2. OrderOf(s) /\ cursor[s] \in 0..MaxRuns
    BY DEF OrderInv, Typed
  <2> QED
    BY <2>1, <2>2 DEF OrderOf
<1>2. /\ cursor' = [cursor EXCEPT ![s] = cursor[s] + 1]
      /\ status' = status /\ seeded' = {}
  BY DEF Advance
<1>3. Typed'
  BY <1>1, <1>2 DEF OrderInv, Typed
<1>4. ASSUME NEW q \in Specs PROVE OrderOf(q)'
  <2>1. CASE q # s
    BY <1>2, <2>1 DEF OrderInv, Typed, OrderOf
  <2>2. CASE q = s
    <3>1. cursor'[s] = cursor[s] + 1
      BY <1>2 DEF OrderInv, Typed
    <3>2. status[<<s, cursor[s] + 1>>] # "absent"
      <4>1. s \in seeded /\ OrderOf(s)
        BY DEF OrderInv, Advance
      <4> QED
        BY <4>1 DEF OrderOf
    <3>3. \A n \in 1..MaxRuns : n <= cursor[s] + 1 => status[<<s, n>>] # "absent"
      BY <1>1, <3>2 DEF OrderInv, OrderOf
    <3>4. ASSUME NEW n \in 1..MaxRuns, n > cursor[s] + 2 PROVE status[<<s, n>>] = "absent"
      <4>1. n > cursor[s] + 1
        BY <1>1, <3>4
      <4> QED
        BY <4>1 DEF OrderInv, OrderOf
    <3>5. \A m, n \in 1..MaxRuns :
            m < n /\ status[<<s, n>>] # "absent" => status[<<s, m>>] \in Lifecycle!Final
      BY DEF OrderInv, OrderOf
    <3> QED
      BY <1>1, <1>2, <2>2, <3>1, <3>3, <3>4, <3>5 DEF OrderOf
  <2> QED
    BY <2>1, <2>2
<1> QED
  BY <1>3, <1>4 DEF OrderInv

\* Work on a run neither makes a row nor takes an end back.
LEMMA WorkKeepsOrder ==
  ASSUME OrderInv, Worked
  PROVE  OrderInv'
<1> USE MaxRunsAssumption
<1>1. PICK r \in Runs, new \in Active \cup Lifecycle!Final :
        /\ status[r] \in Active
        /\ status' = [status EXCEPT ![r] = new]
  BY DEF Worked
<1>2. cursor' = cursor /\ seeded' = seeded
  BY DEF Worked, process
<1>3. Typed'
  BY <1>1, <1>2 DEF OrderInv, Typed
<1>4. \A q \in Runs : /\ status'[q] = "absent" <=> status[q] = "absent"
                      /\ status[q] \in Lifecycle!Final => status'[q] \in Lifecycle!Final
  BY <1>1 DEF OrderInv, Typed, Active, Lifecycle!Final
<1>5. ASSUME NEW q \in Specs PROVE OrderOf(q)'
  <2>1. OrderOf(q) /\ cursor[q] \in 0..MaxRuns
    BY DEF OrderInv, Typed
  <2>2. \A n \in 1..MaxRuns : <<q, n>> \in Runs
    BY DEF Runs
  <2>3. q \in seeded => cursor[q] + 1 \in 1..MaxRuns
    BY <2>1 DEF OrderOf
  <2> QED
    BY <1>2, <1>4, <2>1, <2>2, <2>3 DEF OrderOf
<1> QED
  BY <1>3, <1>5 DEF OrderInv

LEMMA OrderStep == OrderInv /\ [Next]_vars => OrderInv'
<1> SUFFICES ASSUME OrderInv, [Next]_vars PROVE OrderInv'
  OBVIOUS
<1>1. ASSUME UNCHANGED <<status, cursor>>, seeded' \subseteq seeded PROVE OrderInv'
  BY <1>1 DEF OrderInv, Typed, OrderOf
<1>2. ASSUME Pass \/ PassEnds \/ TickRaises \/ Boot \/ Crash \/ Elapse PROVE OrderInv'
  BY <1>1, <1>2 DEF Pass, PassEnds, TickRaises, Boot, Crash, Elapse, process
<1>3. ASSUME NEW s \in Specs, NotDue(s) \/ Postpone(s) \/ Exhausted(s) PROVE OrderInv'
  BY <1>1, <1>3 DEF NotDue, Postpone, Exhausted
<1>4. CASE UNCHANGED vars
  BY <1>1, <1>4 DEF vars, process
<1> QED
  BY <1>2, <1>3, <1>4, SeedKeepsOrder, AdvanceKeepsOrder, WorkKeepsOrder
  DEF Next, Tick

-----------------------------------------------------------------------------

LEMMA AtMostOne ==
  ASSUME NEW S, \A x, y \in S : x = y
  PROVE  Cardinality(S) <= 1
<1>1. CASE S = {}
  <2>1. Cardinality({}) = 0
    BY FS_EmptySet
  <2> QED
    BY <1>1, <2>1
<1>2. CASE S # {}
  <2>1. PICK x \in S : S = {x}
    BY <1>2
  <2>2. Cardinality({x}) = 1
    BY FS_Singleton
  <2> QED
    BY <2>1, <2>2
<1> QED
  BY <1>1, <1>2

LEMMA OrderSafe == OrderInv => NoOverlap /\ CursorFollowsRuns
<1> SUFFICES ASSUME OrderInv, NEW s \in Specs
             PROVE  /\ Cardinality({n \in 1..MaxRuns : status[<<s, n>>] \in Active}) <= 1
                    /\ \E n \in {cursor[s], cursor[s] + 1} : Present(s) = 1..n
  BY DEF NoOverlap, CursorFollowsRuns
<1> USE MaxRunsAssumption
<1>1. Cardinality({n \in 1..MaxRuns : status[<<s, n>>] \in Active}) <= 1
  <2> DEFINE open == {n \in 1..MaxRuns : status[<<s, n>>] \in Active}
  <2>1. ASSUME NEW m \in open, NEW n \in open, m < n PROVE FALSE
    BY <2>1 DEF OrderInv, OrderOf, Active, Lifecycle!Final
  <2>2. \A m, n \in open : m = n
    BY <2>1
  <2>3. Cardinality(open) <= 1
    <3> HIDE DEF open
    <3> QED
      BY <2>2, AtMostOne
  <2> QED
    BY <2>3
<1>2. \E n \in {cursor[s], cursor[s] + 1} : Present(s) = 1..n
  <2>1. cursor[s] \in 0..MaxRuns
    BY DEF OrderInv, Typed
  <2>2. CASE cursor[s] < MaxRuns /\ status[<<s, cursor[s] + 1>>] # "absent"
    <3>1. \A n \in 1..MaxRuns : status[<<s, n>>] # "absent" <=> n <= cursor[s] + 1
      BY <2>1, <2>2 DEF OrderInv, OrderOf
    <3>2. Present(s) = 1..(cursor[s] + 1)
      BY <2>1, <2>2, <3>1 DEF Present
    <3> QED
      BY <3>2
  <2>3. CASE ~(cursor[s] < MaxRuns /\ status[<<s, cursor[s] + 1>>] # "absent")
    <3>1. \A n \in 1..MaxRuns : status[<<s, n>>] # "absent" <=> n <= cursor[s]
      BY <2>1, <2>3 DEF OrderInv, OrderOf
    <3>2. Present(s) = 1..cursor[s]
      BY <2>1, <3>1 DEF Present
    <3> QED
      BY <3>2
  <2> QED
    BY <2>2, <2>3
<1> QED
  BY <1>1, <1>2

\* A template never has two runs open, and its cursor agrees with the rows,
\* whatever is lost between the insert and the cursor.
THEOREM RunsNeverOverlap == Spec => [](NoOverlap /\ CursorFollowsRuns)
BY OrderInit, OrderStep, OrderSafe, PTL DEF Spec
-----------------------------------------------------------------------------
(* The distance of two runs.  While a template waits, with the cursor at   *)
(* its last run, what has passed since that run and what is left to wait   *)
(* make an interval, or an interval has passed.                            *)

Rests(s) == cursor[s] > 0 /\ (cursor[s] < MaxRuns => status[<<s, cursor[s] + 1>>] = "absent")

Paced(s) == Rests(s) => age[s] = Interval \/ age[s] + wait[s] >= Interval

PaceInv ==
  /\ wait \in [Specs -> -Interval..Interval]
  /\ age \in [Specs -> 0..Interval]
  /\ \A s \in Specs : Paced(s)

LEMMA PaceInit == Init => PaceInv
BY IntervalAssumption DEF Init, PaceInv, Paced, Rests

LEMMA PaceStep == OrderInv /\ OrderInv' /\ PaceInv /\ [Next]_vars => PaceInv'
<1> SUFFICES ASSUME OrderInv, OrderInv', PaceInv, [Next]_vars PROVE PaceInv'
  OBVIOUS
<1> USE IntervalAssumption, MaxRunsAssumption
<1>1. ASSUME UNCHANGED <<status, cursor, wait, age>> PROVE PaceInv'
  BY <1>1 DEF PaceInv, Paced, Rests
<1>2. ASSUME Pass \/ PassEnds \/ TickRaises \/ Boot \/ Crash \/ UNCHANGED vars PROVE PaceInv'
  BY <1>1, <1>2 DEF Pass, PassEnds, TickRaises, Boot, Crash, vars
<1>3. ASSUME NEW s \in Specs, NotDue(s) \/ Exhausted(s) PROVE PaceInv'
  BY <1>1, <1>3 DEF NotDue, Exhausted
<1>4. ASSUME NEW s \in Specs, Postpone(s) PROVE PaceInv'
  <2>1. /\ wait[s] <= 0 /\ wait' = [wait EXCEPT ![s] = Backoff]
        /\ UNCHANGED <<status, cursor, age>>
    BY <1>4 DEF Postpone, Due
  <2> QED
    BY <2>1 DEF PaceInv, Paced, Rests
<1>5. ASSUME NEW s \in Specs, Seed(s) PROVE PaceInv'
  <2>1. /\ UNCHANGED <<cursor, wait>> /\ cursor[s] < MaxRuns
        /\ cursor[s] \in Nat
        /\ status' = [status EXCEPT ![<<s, cursor[s] + 1>>] = IF @ = "absent" THEN "QUEUED" ELSE @]
        /\ age' = [age EXCEPT ![s] = IF status[<<s, cursor[s] + 1>>] = "absent" THEN 0 ELSE @]
    BY <1>5 DEF Seed, Inserted, OrderInv, Typed
  <2>2. ~Rests(s)'
    <3>1. <<s, cursor[s] + 1>> \in Runs
      BY <2>1 DEF Runs
    <3>2. status'[<<s, cursor[s] + 1>>] # "absent"
      BY <2>1, <3>1 DEF OrderInv, Typed
    <3> QED
      BY <2>1, <3>2 DEF Rests
  <2>3. ASSUME NEW q \in Specs, q # s PROVE Rests(q)' => Rests(q)
    <3>1. \A n : status'[<<q, n>>] = status[<<q, n>>] \/ <<q, n>> \notin Runs
      BY <2>1, <2>3 DEF OrderInv, Typed
    <3>2. cursor[q] \in Nat /\ (cursor[q] < MaxRuns => <<q, cursor[q] + 1>> \in Runs)
      BY DEF OrderInv, Typed, Runs
    <3> QED
      BY <2>1, <3>1, <3>2 DEF Rests
  <2> QED
    BY <2>1, <2>2, <2>3 DEF PaceInv, Paced
<1>6. ASSUME NEW s \in Specs, Advance(s) PROVE PaceInv'
  <2>1. /\ UNCHANGED <<status, age>>
        /\ cursor' = [cursor EXCEPT ![s] = @ + 1]
        /\ wait' = [wait EXCEPT ![s] = Interval]
    BY <1>6 DEF Advance, NextDue
  <2>2. wait'[s] = Interval /\ age'[s] \in 0..Interval
    BY <2>1 DEF PaceInv
  <2>3. ASSUME NEW q \in Specs, q # s PROVE Paced(q)'
    BY <2>1, <2>3 DEF PaceInv, Paced, Rests, OrderInv, Typed
  <2> QED
    BY <2>1, <2>2, <2>3 DEF PaceInv, Paced
<1>7. CASE Worked
  <2>1. PICK r \in Runs, new \in Active \cup Lifecycle!Final :
          /\ status[r] \in Active
          /\ status' = [status EXCEPT ![r] = new]
    BY <1>7 DEF Worked
  <2>2. UNCHANGED <<cursor, wait, age>>
    BY <1>7 DEF Worked
  <2>3. \A q \in Runs : status'[q] = "absent" => status[q] = "absent"
    BY <2>1 DEF OrderInv, Typed, Active, Lifecycle!Final
  <2>4. ASSUME NEW s \in Specs PROVE Rests(s)' => Rests(s)
    <3>1. cursor[s] \in Nat /\ (cursor[s] < MaxRuns => <<s, cursor[s] + 1>> \in Runs)
      BY DEF OrderInv, Typed, Runs
    <3> QED
      BY <2>2, <2>3, <3>1 DEF Rests
  <2> QED
    BY <2>2, <2>4 DEF PaceInv, Paced
<1>8. CASE Elapse
  <2>1. /\ UNCHANGED <<status, cursor>>
        /\ wait' = [s \in Specs |-> IF wait[s] > -Interval THEN wait[s] - 1 ELSE wait[s]]
        /\ age' = [s \in Specs |-> IF age[s] < Interval THEN age[s] + 1 ELSE age[s]]
    BY <1>8 DEF Elapse
  <2> QED
    BY <2>1 DEF PaceInv, Paced, Rests
<1> QED
  BY <1>2, <1>3, <1>4, <1>5, <1>6, <1>7, <1>8 DEF Next, Tick

\* A new row is that of the cursor's next run, and comes when the wait is over.
LEMMA PaceSafe ==
  ASSUME OrderInv, PaceInv, [Next]_vars, NEW s \in Specs,
         Present(s)' # Present(s), Present(s) # {}
  PROVE  age[s] >= Interval
<1> USE IntervalAssumption, MaxRunsAssumption
<1>1. \E n \in 1..MaxRuns : (status'[<<s, n>>] = "absent") # (status[<<s, n>>] = "absent")
  BY DEF Present
<1>2. ~UNCHANGED status
  BY <1>1
<1>3. CASE Worked
  <2>1. PICK r \in Runs, new \in Active \cup Lifecycle!Final :
          /\ status[r] \in Active
          /\ status' = [status EXCEPT ![r] = new]
    BY <1>3 DEF Worked
  <2>2. \A q \in Runs : status'[q] = "absent" <=> status[q] = "absent"
    BY <2>1 DEF OrderInv, Typed, Active, Lifecycle!Final
  <2> QED
    BY <1>1, <2>2 DEF Runs
<1>4. CASE \E q \in Specs : Seed(q)
  <2>1. PICK q \in Specs : Seed(q)
    BY <1>4
  <2>2. /\ cursor[q] \in Nat /\ cursor[q] < MaxRuns /\ wait[q] <= 0
        /\ status' = [status EXCEPT ![<<q, cursor[q] + 1>>] = IF @ = "absent" THEN "QUEUED" ELSE @]
    BY <2>1 DEF Seed, Due, Inserted, OrderInv, Typed
  <2>3. q = s /\ status[<<s, cursor[s] + 1>>] = "absent"
    <3>1. \A n \in 1..MaxRuns : <<s, n>> \in Runs
      BY DEF Runs
    <3> QED
      BY <1>1, <2>2, <3>1 DEF OrderInv, Typed
  <2>4. cursor[s] > 0
    <3>1. PICK n \in 1..MaxRuns : status[<<s, n>>] # "absent"
      BY DEF Present
    <3>2. n <= cursor[s] + 1
      BY <2>2, <2>3, <3>1 DEF OrderInv, OrderOf
    <3>3. n # cursor[s] + 1
      BY <2>3, <3>1
    <3> QED
      BY <2>2, <2>3, <3>2, <3>3
  <2> QED
    BY <2>2, <2>3, <2>4 DEF PaceInv, Paced, Rests
<1> QED
  BY <1>2, <1>3, <1>4
  DEF Next, Tick, Pass, PassEnds, TickRaises, NotDue, Postpone, Advance, Exhausted, Boot, Crash,
      Elapse, vars

\* However long the manager was down, and whatever it lost, two runs of a
\* template are enqueued an interval apart.
THEOREM NoCatchUpBurst == Spec => NoBurst
<1>1. OrderInv /\ PaceInv /\ [Next]_vars => OrderInv' /\ PaceInv'
  BY OrderStep, PaceStep
<1>2. OrderInv /\ PaceInv /\ [Next]_vars =>
        [\A s \in Specs :
           Present(s)' # Present(s) /\ Present(s) # {} => age[s] >= Interval]_vars
  BY PaceSafe
<1> QED
  BY OrderInit, PaceInit, <1>1, <1>2, PTL DEF Spec, NoBurst
================================================================================
