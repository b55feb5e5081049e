------------------------------ MODULE AgentsProofs ------------------------------
(***************************************************************************)
(* For any agents and any number of reviews: the life cycle of a review    *)
(* whatever call to the store raises, and the types; one open review per   *)
(* agent and exact counts, but for what calls that raised have left; and,  *)
(* as long as none has, no review done twice.                              *)
(***************************************************************************)
EXTENDS Agents, FiniteSetTheorems, TLAPS

-----------------------------------------------------------------------------
(* Who holds a review.                                                     *)

PCs == {"down", "idle", "collect", "agents", "start", "submit", "persist", "stopping", "closing"}

Typed ==
  /\ status \in [Reviews -> Statuses]
  /\ DOMAIN task = Agents
  /\ pending \subseteq Agents /\ hand \subseteq Agents /\ todo \subseteq Agents
  /\ raises \in Nat
  /\ pc \in PCs

\* A review that somebody works on, if it has a row.
Has(a, st) == task[a] # None /\ Review(a) \in Reviews => status[Review(a)] = st

HandInv ==
  /\ pc \in {"down", "idle", "collect", "agents", "persist"} => hand = {}
  /\ hand \cap pending = {}
  /\ \A a \in hand : hand = {a}
  /\ pc = "down" => pending = {}
  /\ pc = "collect" => todo \subseteq pending
  /\ \A a \in Agents : task[a] # None => a \in pending \cup hand
  /\ pc # "closing" => \A a \in pending : Has(a, "RUNNING")
  /\ pc = "closing" => \A a \in todo : a \in pending /\ Has(a, "RUNNING")
  /\ pc = "start" => \A a \in hand : Has(a, "QUEUED")
  /\ pc = "submit" => \A a \in hand : Has(a, "RUNNING")

LEMMA Constants ==
  /\ {"absent", "QUEUED", "RUNNING", "COMPLETE", "FAILED"} \subseteq Statuses
  /\ None = 0
BY DEF Statuses, Terminal, None

\* Reviews of different agents are different.
LEMMA ReviewsDiffer ==
  \A a, b \in Agents : a # b => Review(a) # Review(b)
BY DEF Review

LEMMA TypedStep == Typed /\ [Next]_vars => Typed'
<1> SUFFICES ASSUME Typed, [Next]_vars PROVE Typed'
  OBVIOUS
<1> USE Constants, BoundsAssumption, AsyncAssumption
    DEF Typed, PCs, queue, work, control, aside, ledger
<1>1. CASE Pass \/ CollectEnds \/ TurnsEnd \/ Persist \/ StopPersists \/ StopRaises \/ Closed
  BY <1>1 DEF Pass, CollectEnds, TurnsEnd, Persist, StopPersists, StopRaises, StoreRaises,
              Closed, Idle
<1>2. ASSUME NEW a \in Agents, CollectSkips(a) \/ NotDue(a) \/ FindRaises(a) \/ Exhausted(a)
      PROVE  Typed'
  BY <1>2 DEF CollectSkips, NotDue, FindRaises, Turn, StoreRaises, Exhausted
<1>3. ASSUME NEW a \in Agents, Collect(a) \/ AskInline(a) PROVE Typed'
  BY <1>3 DEF Collect, AskInline, AnswerTaken, Record, Completed, Finish, TaskForgotten,
              StoreRaises
<1>4. ASSUME NEW a \in Agents, Adopt(a) \/ EnqueueFresh(a) \/ EnqueueRaises(a) PROVE Typed'
  <2>1. CASE Adopt(a) \/ EnqueueRaises(a)
    BY <2>1 DEF Adopt, EnqueueRaises, Turn, StoreRaises
  <2>2. CASE EnqueueFresh(a)
    BY <2>2 DEF EnqueueFresh, Turn, Enqueue
  <2> QED
    BY <1>4, <2>1, <2>2
<1>5. ASSUME NEW a \in Agents, StartReview(a) \/ StartRaises(a) PROVE Typed'
  BY <1>5 DEF StartReview, StartRaises, StartTask, ClaimDue, Finish, StoreRaises
<1>6. ASSUME NEW a \in Agents, Submit(a) \/ Requeue(a) PROVE Typed'
  BY <1>6 DEF Submit, Requeue, FinishNow, StoreRaises
<1>7. CASE Stop \/ Crash \/ Boot
  BY <1>7 DEF Stop, Crash, Boot, RequeueRunning, StoreRaises, Idle
<1>8. ASSUME NEW a \in Agents, Answer(a) \/ Elapse(a) PROVE Typed'
  BY <1>8 DEF Answer, Elapse
<1>9. CASE UNCHANGED vars
  BY <1>9 DEF vars
<1> QED
  BY <1>1, <1>2, <1>3, <1>4, <1>5, <1>6, <1>7, <1>8, <1>9 DEF Next, Loop

\* What becomes of the row of one review.
Only(r, st) ==
  /\ \A q \in Reviews : q # r => status'[q] = status[q]
  /\ r \in Reviews => status'[r] = st

LEMMA LedgerMoves ==
  ASSUME Typed, NEW r
  PROVE  /\ \A st : Finish(r, st) => Only(r, st)
         /\ FinishNow(r) => Only(r, "QUEUED")
         /\ StartTask(r) => status[r] = "QUEUED" /\ Only(r, "RUNNING")
         /\ Enqueue(r) => \/ status' = status
                          \/ status[r] = "absent" /\ Only(r, "QUEUED")
BY DEF Typed, Finish, FinishNow, StartTask, ClaimDue, Enqueue, ledger, Only

LEMMA HandStep == Typed /\ HandInv /\ [Next]_vars => HandInv'
<1> SUFFICES ASSUME Typed, HandInv, [Next]_vars PROVE HandInv'
  OBVIOUS
<1> USE DEF Typed, HandInv, Has, queue, work, control, aside, ledger
<1>1. CASE Pass \/ CollectEnds \/ TurnsEnd \/ Persist \/ StopPersists \/ StopRaises \/ Closed
  BY <1>1 DEF Pass, CollectEnds, TurnsEnd, Persist, StopPersists, StopRaises, Closed, Idle, Review
<1>2. ASSUME NEW a \in Agents, CollectSkips(a) \/ NotDue(a) \/ FindRaises(a) \/ Exhausted(a)
      PROVE  HandInv'
  BY <1>2 DEF CollectSkips, NotDue, FindRaises, Turn, Exhausted, Review
<1>3. ASSUME NEW a \in Agents, Collect(a) \/ AskInline(a) PROVE HandInv'
  <2>1. task' = [task EXCEPT ![a] = None]
    BY <1>3 DEF Collect, AskInline, Record, TaskForgotten
  <2>2. \A b \in Agents : b # a =>
          /\ task'[b] = task[b] /\ Review(b)' = Review(b)
          /\ Review(b) \in Reviews => status'[Review(b)] = status[Review(b)]
    BY <1>3, <2>1, ReviewsDiffer, LedgerMoves
    DEF Collect, AskInline, Record, Completed, Only, Review
  <2>3. \A b \in Agents : b # a /\ Has(b, "RUNNING") => Has(b, "RUNNING")'
    BY <2>2 DEF Review
  <2>4. task'[a] = None /\ \A b \in Agents : task'[b] # None => b # a /\ task[b] # None
    BY <2>1, <2>2
  <2>5. CASE Collect(a)
    BY <2>3, <2>4, <2>5 DEF Collect, AnswerTaken
  <2>6. CASE AskInline(a)
    BY <2>3, <2>4, <2>6 DEF AskInline
  <2> QED
    BY <1>3, <2>5, <2>6
<1>4. ASSUME NEW a \in Agents, Adopt(a) \/ EnqueueFresh(a) \/ EnqueueRaises(a) PROVE HandInv'
  <2>1. /\ pc = "agents" /\ hand' = {a} /\ pending' = pending /\ a \notin pending
        /\ pc' \in {"start", "submit"} /\ hand = {} /\ task[a] = None
    BY <1>4 DEF Adopt, EnqueueFresh, EnqueueRaises, Turn
  <2>2. \A b \in Agents : b # a => task'[b] = task[b] /\ Review(b)' = Review(b)
    BY <1>4 DEF Adopt, EnqueueFresh, EnqueueRaises, Review
  <2>3. \A r \in Reviews : status[r] = "RUNNING" => status'[r] = "RUNNING"
    BY <1>4, LedgerMoves DEF Adopt, EnqueueFresh, EnqueueRaises, Only
  <2>4. \A b \in pending : Has(b, "RUNNING")'
    BY <2>1, <2>2, <2>3
  <2>5. pc' = "start" => Has(a, "QUEUED")'
    <3>1. CASE Adopt(a)
      BY <3>1 DEF Adopt, Oldest, Queued, Review
    <3>2. CASE EnqueueFresh(a)
      <4>1. PICK n \in Unused(a) : Enqueue(<<a, n>>) /\ task' = [task EXCEPT ![a] = n]
        BY <3>2 DEF EnqueueFresh
      <4>2. <<a, n>> \in Reviews /\ status[<<a, n>>] = "absent" /\ Review(a)' = <<a, n>>
        BY <4>1 DEF Unused, Reviews, Review
      <4>3. status' = [status EXCEPT ![<<a, n>>] = "QUEUED"]
        BY <4>1, <4>2 DEF Enqueue
      <4> QED
        BY <4>2, <4>3
    <3> QED
      BY <1>4, <3>1, <3>2 DEF EnqueueRaises
  <2>6. pc' = "submit" => task'[a] = None
    BY <1>4, <2>1 DEF Adopt, EnqueueFresh, EnqueueRaises
  <2> QED
    BY <2>1, <2>2, <2>4, <2>5, <2>6
<1>5. ASSUME NEW a \in Agents, StartReview(a) \/ StartRaises(a) PROVE HandInv'
  <2>1. /\ pc = "start" /\ pc' = "submit" /\ hand = {a} /\ hand' = hand
        /\ pending' = pending
    BY <1>5 DEF StartReview, StartRaises
  <2>2. \A b \in Agents : b # a => task'[b] = task[b] /\ Review(b)' = Review(b)
    BY <1>5 DEF StartReview, StartRaises, Review
  <2>3. \A b \in pending : Has(b, "RUNNING")'
    <3>1. \A b \in Agents : b # a /\ Review(b) \in Reviews
                              => status'[Review(b)] = status[Review(b)]
      BY <1>5, LedgerMoves, ReviewsDiffer DEF StartReview, StartRaises, Only
    <3> QED
      BY <2>1, <2>2, <3>1
  <2>4. Has(a, "RUNNING")'
    BY <1>5, LedgerMoves DEF StartReview, StartRaises, Only, Review
  <2>5. task'[a] # None => task[a] # None
    BY <1>5 DEF StartReview, StartRaises
  <2> QED
    BY <2>1, <2>2, <2>3, <2>4, <2>5
<1>6. ASSUME NEW a \in Agents, Submit(a) \/ Requeue(a) PROVE HandInv'
  <2>1. CASE Submit(a)
    BY <2>1 DEF Submit, Review
  <2>2. CASE Requeue(a)
    <3>1. \A b \in Agents : /\ Review(b)' = Review(b)
                           /\ b # a /\ Review(b) \in Reviews
                                => status'[Review(b)] = status[Review(b)]
      BY <2>2, LedgerMoves, ReviewsDiffer DEF Requeue, Only, Review
    <3>2. \A b \in Agents : b # a /\ Has(b, "RUNNING") => Has(b, "RUNNING")'
      BY <2>2, <3>1 DEF Requeue, Review
    <3>3. /\ pc = "closing" /\ pc' = "closing" /\ todo' = todo \ {a}
          /\ hand' = hand /\ pending' = pending /\ task' = task
      BY <2>2 DEF Requeue
    <3>4. \A b \in todo' : b \in pending' /\ Has(b, "RUNNING")'
      BY <3>2, <3>3
    <3> HIDE DEF Has
    <3> QED
      BY <3>3, <3>4
  <2> QED
    BY <1>6, <2>1, <2>2
<1>7. CASE Stop \/ Crash \/ Boot
  BY <1>7 DEF Stop, Crash, Boot, Idle, Review
<1>8. ASSUME NEW a \in Agents, Answer(a) \/ Elapse(a) PROVE HandInv'
  BY <1>8 DEF Answer, Elapse, Review
<1>9. CASE UNCHANGED vars
  BY <1>9 DEF vars, Review
<1> QED
  BY <1>1, <1>2, <1>3, <1>4, <1>5, <1>6, <1>7, <1>8, <1>9 DEF Next, Loop

-----------------------------------------------------------------------------
(* The life cycle.                                                         *)

LEMMA MoveIsAllowed ==
  ASSUME Typed', NEW r, NEW st, Only(r, st),
         r \in Reviews => status[r] = st \/ Lifecycle!Moves(status[r], st)
  PROVE  Lifecycle!Next
BY DEF Typed, Only, Lifecycle!Next, Lifecycle!Final, Statuses, Terminal

LEMMA LifecycleStep == Typed /\ Typed' /\ HandInv /\ [Next]_vars => [Lifecycle!Next]_status
<1> SUFFICES ASSUME Typed, Typed', HandInv, [Next]_vars PROVE [Lifecycle!Next]_status
  OBVIOUS
<1> USE DEF HandInv, Has, queue, ledger
<1>1. CASE UNCHANGED status
  BY <1>1
<1>2. ASSUME NEW a \in Agents, Collect(a) \/ AskInline(a) PROVE [Lifecycle!Next]_status
  <2>1. CASE task[a] # None /\ Finish(Review(a), "COMPLETE")
    <3>1. Review(a) \in Reviews => status[Review(a)] = "RUNNING"
      BY <1>2, <2>1 DEF Collect, AskInline, Typed
    <3> QED
      BY <2>1, <3>1, LedgerMoves, MoveIsAllowed DEF Lifecycle!Moves, Lifecycle!Final
  <2> QED
    BY <1>1, <1>2, <2>1 DEF Collect, AskInline, Record, Completed
<1>3. ASSUME NEW a \in Agents, EnqueueFresh(a) PROVE [Lifecycle!Next]_status
  BY <1>1, <1>3, LedgerMoves, MoveIsAllowed DEF EnqueueFresh, Lifecycle!Moves
<1>4. ASSUME NEW a \in Agents, StartReview(a) PROVE [Lifecycle!Next]_status
  BY <1>4, LedgerMoves, MoveIsAllowed DEF StartReview, Lifecycle!Moves
<1>5. ASSUME NEW a \in Agents, StartRaises(a) PROVE [Lifecycle!Next]_status
  <2>1. CASE task[a] # None /\ Finish(Review(a), "FAILED")
    <3>1. Review(a) \in Reviews => status[Review(a)] = "QUEUED"
      BY <1>5, <2>1 DEF StartRaises
    <3> QED
      BY <2>1, <3>1, LedgerMoves, MoveIsAllowed DEF Lifecycle!Moves
  <2>2. CASE task[a] = None /\ Finish(Review(a), "FAILED")
    <3>1. Review(a) \notin Reviews
      BY <2>2, Constants DEF Review, Reviews
    <3> QED
      BY <2>2, <3>1, LedgerMoves, MoveIsAllowed
  <2> QED
    BY <1>1, <1>5, <2>1, <2>2 DEF StartRaises
<1>6. ASSUME NEW a \in Agents, Requeue(a) PROVE [Lifecycle!Next]_status
  <2>1. CASE task[a] # None /\ FinishNow(Review(a))
    <3>1. Review(a) \in Reviews => status[Review(a)] = "RUNNING"
      BY <1>6, <2>1 DEF Requeue
    <3> QED
      BY <2>1, <3>1, LedgerMoves, MoveIsAllowed DEF Lifecycle!Moves
  <2>2. CASE task[a] = None /\ FinishNow(Review(a))
    <3>1. Review(a) \notin Reviews
      BY <2>2, Constants DEF Review, Reviews
    <3> QED
      BY <2>2, <3>1, LedgerMoves, MoveIsAllowed
  <2> QED
    BY <1>1, <1>6, <2>1, <2>2 DEF Requeue
<1>7. CASE Boot
  BY <1>7 DEF Boot, RequeueRunning, Typed, Lifecycle!Next, Lifecycle!Moves, Lifecycle!Final,
              Statuses, Terminal
<1> QED
  BY <1>1, <1>2, <1>3, <1>4, <1>5, <1>6, <1>7 DEF Next, Loop, Pass, CollectEnds, TurnsEnd,
     Persist, StopPersists, StopRaises, Closed, CollectSkips, NotDue, Adopt, EnqueueRaises,
     FindRaises, Submit, Exhausted, Stop, Crash, Answer, Elapse, vars

LEMMA Initially == Init => Typed /\ HandInv /\ Lifecycle!Init
BY Constants DEF Init, LedgerInit, Typed, PCs, HandInv, Has, Lifecycle!Init

\* AgentCoordinator: wherever the manager ends and whatever raises, a completed
\* review stays completed, and only a claimed one is completed.
THEOREM LifecycleImplemented == Spec => ImplementsLifecycle
<1> DEFINE Inv == Typed /\ HandInv
<1>1. Inv /\ [Next]_vars => Inv'
  BY TypedStep, HandStep
<1>2. Inv /\ Inv' /\ [Next]_vars => [Lifecycle!Next]_status
  BY LifecycleStep
<1> QED
  BY Initially, <1>1, <1>2, PTL DEF Spec, ImplementsLifecycle, Lifecycle!Spec

-----------------------------------------------------------------------------
(* While no call to the store has raised.                                  *)

Clean ==
  /\ task \in [Agents -> 0..MaxReviews]
  /\ \A a \in pending : task[a] # None
  /\ pc \in {"start", "submit"} => \A a \in hand : task[a] # None
  /\ pc \notin {"down", "closing"} =>
       \A a \in Agents, n \in 1..MaxReviews : status[<<a, n>>] = "RUNNING" => task[a] = n
  /\ \A a \in Agents : \A m, n \in Open(a) : m = n
  /\ finished \subseteq Reviews /\ \A r \in finished : status[r] = "COMPLETE"

CleanInv == raises = 0 => Clean

\* An answer is the completion of a RUNNING review.
Answered(a) ==
  /\ Review(a) \in Reviews /\ status[Review(a)] = "RUNNING"
  /\ Finish(Review(a), "COMPLETE") /\ Only(Review(a), "COMPLETE")
  /\ task' = [task EXCEPT ![a] = None]
  /\ count' = [count EXCEPT ![a] = Increment(@)]
  /\ finished' = finished \cup {Review(a)}

LEMMA RaisesStep == Typed /\ [Next]_vars => raises' \in {raises, raises + 1}
<1> SUFFICES ASSUME Typed, [Next]_vars PROVE raises' = raises \/ raises' = raises + 1
  OBVIOUS
<1> USE DEF StoreRaises, aside
<1>1. CASE Pass \/ CollectEnds \/ TurnsEnd \/ Persist \/ StopPersists \/ StopRaises \/ Closed
  BY <1>1 DEF Pass, CollectEnds, TurnsEnd, Persist, StopPersists, StopRaises, Closed
<1>2. ASSUME NEW a \in Agents,
             \/ CollectSkips(a) \/ Collect(a) \/ NotDue(a) \/ Adopt(a) \/ EnqueueFresh(a)
             \/ EnqueueRaises(a) \/ FindRaises(a) \/ StartReview(a) \/ StartRaises(a)
             \/ Submit(a) \/ AskInline(a) \/ Exhausted(a) \/ Requeue(a)
      PROVE  raises' = raises \/ raises' = raises + 1
  BY <1>2 DEF CollectSkips, Collect, AskInline, Record, NotDue, Adopt, EnqueueFresh,
     EnqueueRaises, FindRaises, StartReview, StartRaises, Submit, Exhausted, Requeue
<1>3. CASE Stop \/ Crash \/ Boot \/ UNCHANGED vars \/ \E a \in Agents : Answer(a) \/ Elapse(a)
  BY <1>3 DEF Stop, Crash, Boot, Answer, Elapse, vars
<1> QED
  BY <1>1, <1>2, <1>3 DEF Next, Loop

LEMMA CleanStays == Typed /\ [Next]_vars /\ raises' = 0 => raises = 0
BY RaisesStep DEF Typed

LEMMA CleanAnswer ==
  ASSUME Typed, HandInv, Clean, NEW a \in Agents, Collect(a) \/ AskInline(a), UNCHANGED raises
  PROVE  Answered(a)
<1>1. raises' = raises /\ raises \in Nat
  BY DEF Typed
<1>2. task[a] # None /\ status[Review(a)] = "RUNNING" /\ Review(a) \in Reviews
  <2>1. task[a] # None
    BY DEF Collect, AskInline, HandInv, Clean
  <2>2. Review(a) \in Reviews
    BY <2>1, Constants DEF Clean, Review, Reviews
  <2> QED
    BY <2>1, <2>2 DEF Collect, AskInline, HandInv, Has
<1>3. Record(a)
  BY DEF Collect, AskInline
<1>4. Finish(Review(a), "COMPLETE")
  BY <1>1, <1>2, <1>3 DEF Record, Completed, StoreRaises
<1> QED
  BY <1>2, <1>3, <1>4, LedgerMoves DEF Record, TaskForgotten, Answered

LEMMA OpenUnmoved ==
  ASSUME Clean, NEW r, \A q \in Reviews : q # r => status'[q] = status[q],
         r \in Reviews => \/ status[r] \in {"QUEUED", "RUNNING"}
                          \/ status'[r] \notin {"QUEUED", "RUNNING"}
  PROVE  \A a \in Agents : Open(a)' \subseteq Open(a) /\ \A m, n \in Open(a)' : m = n
BY DEF Clean, Open, Reviews

LEMMA CleanStep == Typed /\ HandInv /\ CleanInv /\ [Next]_vars => CleanInv'
<1> SUFFICES ASSUME Typed, HandInv, Clean, [Next]_vars, UNCHANGED raises, raises = 0
             PROVE  Clean'
  BY CleanStays DEF CleanInv
<1> USE Constants DEF Clean, queue, work, control, aside, ledger
<1>1. CASE Pass \/ CollectEnds \/ TurnsEnd \/ Persist \/ StopPersists \/ Closed
  <2>1. CASE Closed
    BY <2>1, BoundsAssumption DEF Closed, Idle, Open
  <2>2. CASE Pass \/ CollectEnds \/ TurnsEnd \/ Persist \/ StopPersists
    BY <2>2 DEF Pass, CollectEnds, TurnsEnd, Persist, StopPersists, Open
  <2> QED
    BY <1>1, <2>1, <2>2
<1>2. ASSUME NEW a \in Agents, CollectSkips(a) \/ NotDue(a) \/ Exhausted(a) \/ Submit(a)
      PROVE  Clean'
  BY <1>2 DEF CollectSkips, NotDue, Exhausted, Submit, Open
<1>3. ASSUME NEW a \in Agents, Collect(a) \/ AskInline(a) PROVE Clean'
  <2>1. Answered(a) /\ Review(a) = <<a, task[a]>> /\ None \in 0..MaxReviews
    BY <1>3, CleanAnswer, BoundsAssumption DEF Review
  <2>2. \A b \in Agents : \A m, n \in Open(b)' : m = n
    BY <2>1, OpenUnmoved DEF Answered, Only
  <2>3. \A b \in Agents, n \in 1..MaxReviews : status'[<<b, n>>] = "RUNNING" => task'[b] = n
    <3>1. pc \notin {"down", "closing"}
      BY <1>3 DEF Collect, AskInline
    <3>2. ASSUME NEW b \in Agents, NEW n \in 1..MaxReviews, status'[<<b, n>>] = "RUNNING"
          PROVE  task'[b] = n
      <4>1. <<b, n>> # Review(a) /\ status[<<b, n>>] = "RUNNING"
        BY <2>1, <3>2 DEF Answered, Only, Reviews
      <4>2. task[b] = n /\ b # a
        BY <2>1, <3>1, <4>1
      <4> QED
        BY <2>1, <4>2 DEF Answered
    <3> QED
      BY <3>2
  <2>4. finished' \subseteq Reviews /\ \A r \in finished' : status'[r] = "COMPLETE"
    BY <2>1 DEF Answered, Only
  <2>5. task' \in [Agents -> 0..MaxReviews]
    BY <2>1 DEF Answered
  <2>6. /\ \A b \in pending' : task'[b] # None
        /\ pc' \in {"start", "submit"} => \A b \in hand' : task'[b] # None
    BY <1>3, <2>1 DEF Collect, AskInline, AnswerTaken, Answered, HandInv, Typed
  <2> QED
    BY <2>2, <2>3, <2>4, <2>5, <2>6
<1>4. ASSUME NEW a \in Agents, Adopt(a) PROVE Clean'
  <2>1. PICK n \in Oldest(a) : task' = [task EXCEPT ![a] = n]
    BY <1>4 DEF Adopt
  <2>2. n \in 1..MaxReviews /\ n # None /\ n \in 0..MaxReviews
    BY <2>1, BoundsAssumption DEF Oldest, Queued
  <2>3. /\ pc = "agents" /\ pc' = "start" /\ a \notin pending /\ task[a] = None
        /\ status' = status /\ hand' = {a} /\ pending' = pending /\ finished' = finished
    BY <1>4 DEF Adopt, Turn, HandInv
  <2> QED
    BY <2>1, <2>2, <2>3 DEF Typed, Open
<1>5. ASSUME NEW a \in Agents, EnqueueFresh(a) PROVE Clean'
  <2>1. PICK n \in Unused(a) : Enqueue(<<a, n>>) /\ task' = [task EXCEPT ![a] = n]
    BY <1>5 DEF EnqueueFresh
  <2>2. /\ n \in 1..MaxReviews /\ n # None /\ n \in 0..MaxReviews /\ <<a, n>> \in Reviews
        /\ status' = [status EXCEPT ![<<a, n>>] = "QUEUED"] /\ status[<<a, n>>] = "absent"
    BY <2>1, BoundsAssumption DEF Unused, Enqueue, Reviews
  <2>3. /\ pc = "agents" /\ pc' = "start" /\ a \notin pending /\ task[a] = None
        /\ hand' = {a} /\ pending' = pending /\ finished' = finished /\ Queued(a) = {}
    BY <1>5 DEF EnqueueFresh, Turn, HandInv
  <2>4. Open(a) = {}
    BY <2>3 DEF Open, Queued
  <2>5. Open(a)' \subseteq {n} /\ \A b \in Agents : b # a => Open(b)' = Open(b)
    BY <2>2, <2>4 DEF Open, Typed, Reviews
  <2>6. \A r \in finished : status'[r] = "COMPLETE"
    BY <2>2 DEF Typed
  <2>7. \A b \in Agents, k \in 1..MaxReviews : status'[<<b, k>>] = "RUNNING" => task'[b] = k
    BY <2>1, <2>2, <2>3 DEF Typed, Reviews
  <2> QED
    BY <2>1, <2>2, <2>3, <2>5, <2>6, <2>7 DEF Typed
<1>6. ASSUME NEW a \in Agents, StartReview(a) PROVE Clean'
  <2>1. /\ Review(a) = <<a, task[a]>> /\ Only(Review(a), "RUNNING") /\ task' = task
        /\ status[Review(a)] = "QUEUED" /\ finished' = finished /\ pending' = pending
        /\ hand' = hand /\ pc = "start" /\ pc' = "submit"
    BY <1>6, LedgerMoves DEF StartReview, Review
  <2>2. \A b \in Agents : \A m, n \in Open(b)' : m = n
    BY <2>1, OpenUnmoved DEF Only
  <2>3. \A r \in finished : status'[r] = "COMPLETE"
    BY <2>1 DEF Only
  <2> QED
    BY <2>1, <2>2, <2>3 DEF Only, Reviews
<1>7. ASSUME NEW a \in Agents, Requeue(a) PROVE Clean'
  <2>1. /\ pc = "closing" /\ pc' = "closing" /\ task' = task /\ finished' = finished
        /\ pending' = pending /\ Only(Review(a), "QUEUED") /\ Review(a) \in Reviews
        /\ status[Review(a)] = "RUNNING"
    BY <1>7, LedgerMoves DEF Requeue, StoreRaises, HandInv, Has, Review, Reviews
  <2>2. \A b \in Agents : \A m, n \in Open(b)' : m = n
    BY <2>1, OpenUnmoved DEF Only
  <2>3. \A r \in finished : status'[r] = "COMPLETE"
    BY <2>1 DEF Only
  <2> QED
    BY <2>1, <2>2, <2>3
<1>8. CASE Stop \/ Crash
  <2>1. CASE Stop
    BY <2>1 DEF Stop, Open
  <2>2. CASE Crash
    BY <2>2, BoundsAssumption DEF Crash, Idle, Open
  <2> QED
    BY <1>8, <2>1, <2>2
<1>9. CASE Boot
  BY <1>9, BoundsAssumption DEF Boot, RequeueRunning, Idle, Open, Typed, Reviews
<1>10. ASSUME NEW a \in Agents, Answer(a) \/ Elapse(a) PROVE Clean'
  BY <1>10 DEF Answer, Elapse, Open
<1>11. CASE UNCHANGED vars
  BY <1>11 DEF vars, Open
<1>12. ASSUME StopRaises \/ \E a \in Agents : EnqueueRaises(a) \/ FindRaises(a) \/ StartRaises(a)
       PROVE  FALSE
  BY <1>12 DEF EnqueueRaises, FindRaises, StartRaises, StopRaises, StoreRaises
<1> QED
  BY <1>1, <1>2, <1>3, <1>4, <1>5, <1>6, <1>7, <1>8, <1>9, <1>10, <1>11, <1>12 DEF Next, Loop

-----------------------------------------------------------------------------
(* Counts.                                                                 *)

CountsHold ==
  \A a \in Agents :
    saved[a] <= CompletedRows(a) /\ (pc # "down" => count[a] = CompletedRows(a))

CountsInv ==
  /\ saved \in [Agents -> Nat] /\ count \in [Agents -> Nat]
  /\ raises = 0 => CountsHold

LEMMA RowsAreCounted ==
  \A S \in SUBSET (1..MaxReviews) :
    IsFiniteSet(S) /\ Cardinality(S) \in Nat /\ Cardinality(S) <= MaxReviews
<1> TAKE S \in SUBSET (1..MaxReviews)
<1>1. IsFiniteSet(1..MaxReviews) /\ Cardinality(1..MaxReviews) = MaxReviews
  BY FS_Interval, BoundsAssumption
<1> QED
  BY <1>1, FS_Subset, FS_CardinalityType

LEMMA RowsUnmoved ==
  ASSUME NEW a \in Agents,
         \A n \in 1..MaxReviews : status'[<<a, n>>] = "COMPLETE" <=> status[<<a, n>>] = "COMPLETE"
  PROVE  CompletedRows(a)' = CompletedRows(a)
<1>1. {n \in 1..MaxReviews : status'[<<a, n>>] = "COMPLETE"}
        = {n \in 1..MaxReviews : status[<<a, n>>] = "COMPLETE"}
  OBVIOUS
<1> QED
  BY <1>1 DEF CompletedRows

LEMMA CompletedIsNat == \A a \in Agents : CompletedRows(a) \in Nat
<1> TAKE a \in Agents
<1>1. {n \in 1..MaxReviews : status[<<a, n>>] = "COMPLETE"} \in SUBSET (1..MaxReviews)
  OBVIOUS
<1> QED
  BY <1>1, RowsAreCounted DEF CompletedRows

LEMMA RowsAreNat == \A a \in Agents : CompletedRows(a)' \in Nat
<1> TAKE a \in Agents
<1>1. {n \in 1..MaxReviews : status'[<<a, n>>] = "COMPLETE"} \in SUBSET (1..MaxReviews)
  OBVIOUS
<1> QED
  BY <1>1, RowsAreCounted DEF CompletedRows

LEMMA OneMoreRow ==
  ASSUME NEW a \in Agents, Review(a) \in Reviews, status[Review(a)] = "RUNNING",
         Only(Review(a), "COMPLETE")
  PROVE  CompletedRows(a)' = CompletedRows(a) + 1 /\ CompletedRows(a)' <= MaxReviews
<1> DEFINE k == task[a]
           rows == {n \in 1..MaxReviews : status[<<a, n>>] = "COMPLETE"}
           newRows == {n \in 1..MaxReviews : status'[<<a, n>>] = "COMPLETE"}
<1>1. k \in 1..MaxReviews /\ Review(a) = <<a, k>>
  BY DEF Review, Reviews
<1>2. k \notin rows /\ newRows = rows \cup {k}
  BY <1>1 DEF Only, Reviews
<1>3. CompletedRows(a) = Cardinality(rows) /\ CompletedRows(a)' = Cardinality(newRows)
  BY DEF CompletedRows
<1>4. /\ IsFiniteSet(rows) /\ Cardinality(rows) \in Nat
      /\ Cardinality(newRows) \in Nat /\ Cardinality(newRows) <= MaxReviews
  <2>1. rows \in SUBSET (1..MaxReviews) /\ newRows \in SUBSET (1..MaxReviews)
    OBVIOUS
  <2> QED
    BY <2>1, RowsAreCounted
<1> HIDE DEF k, rows, newRows
<1> QED
  BY <1>2, <1>3, <1>4, FS_AddElement

\* An answer is one more completed row, and counts one more.
LEMMA AnswerCounts ==
  ASSUME Typed, Clean, CountsInv, NEW a \in Agents, Answered(a), raises = 0, pc # "down",
         UNCHANGED saved
  PROVE  /\ count' \in [Agents -> Nat]
         /\ \A b \in Agents : /\ saved'[b] <= CompletedRows(b)'
                              /\ count'[b] = CompletedRows(b)'
<1>1. /\ CompletedRows(a)' = CompletedRows(a) + 1 /\ CompletedRows(a)' <= MaxReviews
      /\ CompletedRows(a) \in Nat
  BY OneMoreRow, CompletedIsNat DEF Answered
<1>2. /\ count' \in [Agents -> Nat] /\ count'[a] = CompletedRows(a)'
      /\ \A b \in Agents : b # a => count'[b] = count[b]
  BY <1>1, BoundsAssumption DEF CountsInv, CountsHold, Answered, Increment
<1>3. saved'[a] <= CompletedRows(a)'
  BY <1>1 DEF CountsInv, CountsHold
<1>4. ASSUME NEW b \in Agents, b # a PROVE CompletedRows(b)' = CompletedRows(b)
  <2>1. \A n \in 1..MaxReviews : status'[<<b, n>>] = status[<<b, n>>]
    BY <1>4 DEF Answered, Only, Review, Reviews
  <2> QED
    BY <2>1, RowsUnmoved
<1> QED
  BY <1>2, <1>3, <1>4 DEF CountsInv, CountsHold

LEMMA CountsTyped == CountsInv /\ [Next]_vars => saved' \in [Agents -> Nat] /\ count' \in [Agents -> Nat]
<1> SUFFICES ASSUME CountsInv, [Next]_vars
             PROVE  saved' \in [Agents -> Nat] /\ count' \in [Agents -> Nat]
  OBVIOUS
<1> USE BoundsAssumption DEF CountsInv, CountsHold
<1>1. CASE UNCHANGED <<saved, count>>
  BY <1>1
<1>2. ASSUME NEW a \in Agents, Collect(a) \/ AskInline(a)
      PROVE  saved' \in [Agents -> Nat] /\ count' \in [Agents -> Nat]
  BY <1>2 DEF Collect, AskInline, Record, Increment
<1>3. CASE Persist \/ StopPersists \/ StopRaises
  BY <1>3 DEF Persist, StopPersists, StopRaises
<1>4. CASE Boot
  <2>1. \A a \in Agents : PriorCount(a) \in Nat
    BY CompletedIsNat DEF PriorCount, Larger
  <2> QED
    BY <1>4, <2>1 DEF Boot, Counts
<1> QED
  BY <1>1, <1>2, <1>3, <1>4 DEF Next, Loop, Pass, CollectEnds, TurnsEnd, Closed, CollectSkips,
     NotDue, Adopt, EnqueueFresh, EnqueueRaises, FindRaises, Turn, StartReview, StartRaises,
     Submit, Exhausted, Requeue, Stop, Crash, Answer, Elapse, vars

LEMMA CountsHeld ==
  Typed /\ HandInv /\ Clean /\ CountsInv /\ [Next]_vars /\ UNCHANGED raises /\ raises = 0
    => CountsHold'
<1> SUFFICES ASSUME Typed, HandInv, Clean, CountsInv, [Next]_vars, UNCHANGED raises, raises = 0
             PROVE  CountsHold'
  OBVIOUS
<1> USE DEF CountsHold
<1>1. ASSUME \A a \in Agents, n \in 1..MaxReviews :
                status'[<<a, n>>] = "COMPLETE" <=> status[<<a, n>>] = "COMPLETE"
      PROVE  \A a \in Agents : CompletedRows(a)' = CompletedRows(a)
  BY <1>1, RowsUnmoved
<1>2. ASSUME NEW a \in Agents, Collect(a) \/ AskInline(a) PROVE CountsHold'
  <2>1. pc # "down" /\ UNCHANGED saved
    BY <1>2 DEF Collect, AskInline
  <2> QED
    BY <1>2, <2>1, CleanAnswer, AnswerCounts
<1>3. ASSUME NEW a \in Agents, EnqueueFresh(a) \/ StartReview(a) \/ Requeue(a) PROVE CountsHold'
  <2>1. UNCHANGED <<saved, count>> /\ pc # "down"
    BY <1>3 DEF EnqueueFresh, Turn, StartReview, Requeue
  <2>2. CASE EnqueueFresh(a)
    BY <1>1, <2>1, <2>2, LedgerMoves DEF EnqueueFresh, Only, Reviews, CountsInv, CountsHold
  <2>3. CASE StartReview(a)
    BY <1>1, <2>1, <2>3, LedgerMoves DEF StartReview, Only, Reviews, CountsInv, CountsHold
  <2>4. CASE Requeue(a)
    <3>1. status[Review(a)] = "RUNNING" /\ Only(Review(a), "QUEUED")
      BY <2>4, LedgerMoves, Constants
      DEF Requeue, StoreRaises, HandInv, Has, Clean, Review, Reviews
    <3> QED
      BY <1>1, <2>1, <3>1 DEF Only, Reviews, CountsInv, CountsHold
  <2> QED
    BY <1>3, <2>2, <2>3, <2>4
<1>4. CASE Boot
  <2>1. \A a \in Agents : CompletedRows(a)' = CompletedRows(a)
    BY <1>1, <1>4 DEF Boot, RequeueRunning, Typed, Reviews
  <2>2. \A a \in Agents : count'[a] = PriorCount(a) /\ saved'[a] = saved[a]
    BY <1>4 DEF Boot, StoreRaises
  <2>3. \A a \in Agents : PriorCount(a) = CompletedRows(a)
    BY CompletedIsNat DEF PriorCount, Larger, CountsInv, CountsHold
  <2> QED
    BY <2>1, <2>2, <2>3 DEF CountsInv, CountsHold
<1>5. CASE Persist \/ StopPersists
  <2>1. UNCHANGED <<status, count>> /\ saved' = count /\ pc # "down"
    BY <1>5 DEF Persist, StopPersists, queue
  <2> QED
    BY <1>1, <2>1, CompletedIsNat DEF CountsInv, CountsHold
<1>6. ASSUME status' = status, saved' = saved, count' = count, pc = "down" => pc' = "down"
      PROVE  CountsHold'
  BY <1>1, <1>6 DEF CountsInv, CountsHold
<1>7. ASSUME StopRaises \/ \E a \in Agents : EnqueueRaises(a) \/ FindRaises(a) \/ StartRaises(a)
      PROVE  FALSE
  BY <1>7 DEF EnqueueRaises, FindRaises, StartRaises, StopRaises, StoreRaises
<1> HIDE DEF CountsHold
<1>8. CASE Loop
  <2>1. CASE Pass \/ CollectEnds \/ TurnsEnd \/ Closed
    BY <1>6, <2>1 DEF Pass, CollectEnds, TurnsEnd, Closed, Idle, queue
  <2>2. ASSUME NEW a \in Agents,
               CollectSkips(a) \/ NotDue(a) \/ Adopt(a) \/ Submit(a) \/ Exhausted(a)
        PROVE  CountsHold'
    BY <1>6, <2>2 DEF CollectSkips, NotDue, Adopt, Turn, Submit, Exhausted, queue
  <2> QED
    BY <1>2, <1>3, <1>5, <1>7, <1>8, <2>1, <2>2 DEF Loop
<1>9. CASE Stop \/ Crash \/ UNCHANGED vars \/ \E a \in Agents : Answer(a) \/ Elapse(a)
  BY <1>6, <1>9 DEF Stop, Crash, Idle, Answer, Elapse, queue, control, vars
<1> QED
  BY <1>4, <1>8, <1>9 DEF Next

LEMMA CountsStep ==
  Typed /\ HandInv /\ CleanInv /\ CountsInv /\ [Next]_vars => CountsInv'
<1> SUFFICES ASSUME Typed, HandInv, CleanInv, CountsInv, [Next]_vars PROVE CountsInv'
  OBVIOUS
<1>1. raises' = 0 => CountsHold'
  BY CleanStays, CountsHeld DEF CleanInv
<1> QED
  BY <1>1, CountsTyped DEF CountsInv, CountsHold

-----------------------------------------------------------------------------
(* The other fields.  An agent that close() goes over holds a review, so   *)
(* that its task is one that can be due again; the RUNNING reviews, which  *)
(* the next manager makes due as a sequence, are finitely many.            *)

\* Each place that is kept has a number of its own, from one up to how many
\* are kept: so each number has its place, and the CHOOSE of Without finds it.
LEMMA WithoutTyped ==
  ASSUME NEW T, NEW seq \in Seq(T), NEW S
  PROVE  Without(seq, S) \in Seq(T)
<1> DEFINE kept == {i \in DOMAIN seq : seq[i] \notin S}
           upto(i) == kept \cap (1..i)
           number == [i \in kept |-> Cardinality(upto(i))]
           numbers == 1..Cardinality(kept)
<1>1. /\ Len(seq) \in Nat /\ DOMAIN seq = 1..Len(seq)
      /\ \A i \in DOMAIN seq : seq[i] \in T
  OBVIOUS
<1>2. /\ kept \in SUBSET (1..Len(seq))
      /\ \A i : upto(i) \in SUBSET kept
      /\ \A i \in kept : i \in upto(i)
      /\ \A i, j \in kept : i < j => upto(i) \cup {j} \in SUBSET upto(j) /\ j \notin upto(i)
  BY <1>1
<1> HIDE DEF upto, kept
<1>3. /\ IsFiniteSet(kept) /\ Cardinality(kept) \in Nat
      /\ \A i : /\ IsFiniteSet(upto(i)) /\ Cardinality(upto(i)) \in Nat
                /\ Cardinality(upto(i)) <= Cardinality(kept)
  <2>1. IsFiniteSet(1..Len(seq))
    BY <1>1, FS_Interval
  <2>2. IsFiniteSet(kept)
    BY <1>2, <2>1, FS_Subset
  <2> QED
    BY <1>2, <2>2, FS_Subset, FS_CardinalityType
<1>4. ASSUME NEW i \in kept, NEW j \in kept, i < j
      PROVE  Cardinality(upto(i)) < Cardinality(upto(j))
  <2>1. upto(i) \cup {j} \in SUBSET upto(j) /\ j \notin upto(i)
    BY <1>2, <1>4
  <2>2. Cardinality(upto(i) \cup {j}) = Cardinality(upto(i)) + 1
    BY <1>3, <2>1, FS_AddElement
  <2>3. Cardinality(upto(i) \cup {j}) <= Cardinality(upto(j))
    BY <1>3, <2>1, FS_Subset
  <2> QED
    BY <1>3, <2>2, <2>3
<1>5. ASSUME NEW i \in kept PROVE Cardinality(upto(i)) \in numbers
  <2>1. Cardinality(upto(i)) # 0
    BY <1>2, <1>3, FS_EmptySet
  <2>2. /\ Cardinality(upto(i)) \in Nat /\ Cardinality(kept) \in Nat
        /\ Cardinality(upto(i)) <= Cardinality(kept)
    BY <1>3
  <2> QED
    BY <2>1, <2>2
<1>6. number \in [kept -> numbers]
  BY <1>5
<1>7. \A i, j \in kept : number[i] = number[j] => i = j
  <2> SUFFICES ASSUME NEW i \in kept, NEW j \in kept,
                      Cardinality(upto(i)) = Cardinality(upto(j)), i # j
               PROVE  FALSE
    OBVIOUS
  <2>1. i < j \/ j < i
    BY <1>1, <1>2
  <2> QED
    BY <1>3, <1>4, <2>1
<1>8. number \in Injection(kept, numbers)
  <2> HIDE DEF number, numbers
  <2> QED
    BY <1>6, <1>7 DEF Injection, IsInjective
<1>9. IsFiniteSet(numbers) /\ Cardinality(numbers) = Cardinality(kept)
  BY <1>3, FS_Interval
<1>10. number \in Surjection(kept, numbers)
  <2> HIDE DEF number, numbers
  <2> QED
    BY <1>8, <1>9, FS_Injection
<1>11. ASSUME NEW k \in numbers
       PROVE  seq[CHOOSE i \in kept : Cardinality(upto(i)) = k] \in T
  <2>1. \E i \in kept : number[i] = k
    BY <1>10 DEF Surjection
  <2>2. \E i \in kept : Cardinality(upto(i)) = k
    BY <2>1
  <2>3. (CHOOSE i \in kept : Cardinality(upto(i)) = k) \in kept
    BY <2>2
  <2>4. kept \in SUBSET (DOMAIN seq)
    BY DEF kept
  <2> QED
    BY <1>1, <2>3, <2>4
<1>12. Without(seq, S) = [k \in numbers |-> seq[CHOOSE i \in kept : Cardinality(upto(i)) = k]]
  BY DEF Without, kept, upto
<1> HIDE DEF numbers
<1>13. Without(seq, S) \in [numbers -> T]
  BY <1>11, <1>12
<1> QED
  BY <1>3, <1>13 DEF numbers

LEMMA SequenceOfSet ==
  ASSUME NEW S, IsFiniteSet(S)
  PROVE  SetToSeq(S) \in Seq(S)
<1>1. PICK n \in Nat : ExistsBijection(1..n, S)
  BY FS_NatBijection
<1>2. n = Cardinality(S)
  BY <1>1, FS_CountingElements
<1>3. \E f \in [1..Cardinality(S) -> S] : IsInjective(f)
  BY <1>1, <1>2 DEF ExistsBijection, Bijection, Injection
<1>4. SetToSeq(S) \in [1..Cardinality(S) -> S]
  BY <1>3 DEF SetToSeq
<1> QED
  BY <1>1, <1>2, <1>4

RunningReviews == {r \in Reviews : status[r] = "RUNNING"}

QueueInv ==
  /\ attempts \in [Reviews -> 0..1]
  /\ ready \in Seq(Reviews)
  /\ IsFiniteSet(RunningReviews)

FieldInv ==
  /\ saved \in Counts /\ count \in Counts
  /\ task \in [Agents -> 0..MaxReviews]
  /\ pending \subseteq Async /\ done \subseteq pending
  /\ waiting \subseteq Agents
  /\ finished \subseteq Reviews
  /\ raises \in 0..MaxRaises
  /\ pc = "closing" => \A a \in todo : task[a] # None

LEMMA ReviewExists ==
  ASSUME FieldInv, NEW a \in Agents, task[a] # None
  PROVE  Review(a) \in Reviews
BY BoundsAssumption DEF FieldInv, Review, Reviews, None

\* What each operation of the ledger makes of the reviews that are due and of
\* those that are RUNNING.
LEMMA QueueMoves ==
  ASSUME Typed, QueueInv, NEW r
  PROVE  /\ UNCHANGED queue => QueueInv'
         /\ \A st : st # "RUNNING" /\ Finish(r, st) => QueueInv'
         /\ r \in Reviews /\ FinishNow(r) => QueueInv'
         /\ StartTask(r) => QueueInv'
         /\ r \in Reviews /\ Enqueue(r) => QueueInv'
<1> USE DEF Typed, QueueInv
<1>1. \A S : Without(ready, S) \in Seq(Reviews)
  BY WithoutTyped
<1>2. r \in Reviews => /\ Append(ready, r) \in Seq(Reviews)
                       /\ Append(Without(ready, {r}), r) \in Seq(Reviews)
  BY <1>1
<1>3. ASSUME attempts' = attempts, ready' \in Seq(Reviews),
             \A q \in Reviews : status'[q] = "RUNNING" => status[q] = "RUNNING"
      PROVE  QueueInv'
  <2>1. RunningReviews' \in SUBSET RunningReviews
    BY <1>3 DEF RunningReviews
  <2> QED
    BY <1>3, <2>1, FS_Subset
<1>4. UNCHANGED queue => QueueInv'
  BY <1>3 DEF queue
<1>5. ASSUME NEW st, st # "RUNNING", Finish(r, st) PROVE QueueInv'
  BY <1>1, <1>3, <1>5 DEF Finish
<1>6. r \in Reviews /\ FinishNow(r) => QueueInv'
  BY <1>2, <1>3 DEF FinishNow
<1>7. ASSUME StartTask(r) PROVE QueueInv'
  <2>1. RunningReviews' \in SUBSET (RunningReviews \cup {r})
    BY <1>7 DEF RunningReviews, StartTask, ClaimDue
  <2>2. IsFiniteSet(RunningReviews')
    BY <2>1, FS_Singleton, FS_Union, FS_Subset
  <2>3. attempts' \in [Reviews -> 0..1]
    BY <1>7 DEF StartTask, ClaimDue, CountAttempt
  <2> QED
    BY <1>1, <1>7, <2>2, <2>3 DEF StartTask, ClaimDue
<1>8. r \in Reviews /\ Enqueue(r) => QueueInv'
  BY <1>2, <1>3 DEF Enqueue, ledger
<1> QED
  BY <1>4, <1>5, <1>6, <1>7, <1>8

LEMMA QueueStep == Typed /\ FieldInv /\ QueueInv /\ [Next]_vars => QueueInv'
<1> SUFFICES ASSUME Typed, FieldInv, QueueInv, [Next]_vars PROVE QueueInv'
  OBVIOUS
<1>1. ASSUME UNCHANGED queue PROVE QueueInv'
  BY <1>1, QueueMoves
<1>2. CASE Pass \/ CollectEnds \/ TurnsEnd \/ Persist \/ StopPersists \/ StopRaises \/ Closed
  BY <1>1, <1>2 DEF Pass, CollectEnds, TurnsEnd, Persist, StopPersists, StopRaises, Closed
<1>3. ASSUME NEW a \in Agents,
             \/ CollectSkips(a) \/ NotDue(a) \/ Adopt(a) \/ EnqueueRaises(a) \/ FindRaises(a)
             \/ Submit(a) \/ Exhausted(a) \/ Answer(a) \/ Elapse(a)
      PROVE  QueueInv'
  BY <1>1, <1>3 DEF CollectSkips, NotDue, Adopt, EnqueueRaises, FindRaises, Submit, Exhausted,
                    Answer, Elapse
<1>4. ASSUME NEW a \in Agents, Collect(a) \/ AskInline(a) PROVE QueueInv'
  <2>1. UNCHANGED queue \/ Finish(Review(a), "COMPLETE")
    BY <1>4 DEF Collect, AskInline, Record, Completed
  <2> QED
    BY <1>1, <2>1, QueueMoves
<1>5. ASSUME NEW a \in Agents, EnqueueFresh(a) PROVE QueueInv'
  <2>1. PICK n \in Unused(a) : Enqueue(<<a, n>>)
    BY <1>5 DEF EnqueueFresh
  <2>2. <<a, n>> \in Reviews
    BY <2>1 DEF Unused, Reviews
  <2> QED
    BY <2>1, <2>2, QueueMoves
<1>6. ASSUME NEW a \in Agents, StartReview(a) \/ StartRaises(a) PROVE QueueInv'
  BY <1>1, <1>6, QueueMoves DEF StartReview, StartRaises
<1>7. ASSUME NEW a \in Agents, Requeue(a) PROVE QueueInv'
  <2>1. Review(a) \in Reviews
    BY <1>7, ReviewExists DEF Requeue, FieldInv
  <2> QED
    BY <1>1, <1>7, <2>1, QueueMoves DEF Requeue
<1>8. CASE Boot
  <2>1. /\ ready' = ready \o SetToSeq(RunningReviews)
        /\ RunningReviews' = {} /\ attempts' = attempts
    BY <1>8 DEF Boot, RequeueRunning, RunningReviews
  <2>2. SetToSeq(RunningReviews) \in Seq(Reviews)
    BY SequenceOfSet DEF QueueInv, RunningReviews
  <2> QED
    BY <2>1, <2>2, FS_EmptySet DEF QueueInv
<1>9. CASE Stop \/ Crash \/ UNCHANGED vars
  BY <1>1, <1>9 DEF Stop, Crash, vars
<1> QED
  BY <1>2, <1>3, <1>4, <1>5, <1>6, <1>7, <1>8, <1>9 DEF Next, Loop

LEMMA CountFacts ==
  /\ \A n \in 0..MaxReviews : Increment(n) \in 0..MaxReviews
  /\ \A a : CompletedRows(a) \in 0..MaxReviews
<1>1. \A n \in 0..MaxReviews : Increment(n) \in 0..MaxReviews
  BY BoundsAssumption DEF Increment
<1>2. ASSUME NEW a PROVE CompletedRows(a) \in 0..MaxReviews
  <2> DEFINE rows == {n \in 1..MaxReviews : status[<<a, n>>] = "COMPLETE"}
  <2>1. IsFiniteSet(1..MaxReviews) /\ Cardinality(1..MaxReviews) = MaxReviews
    BY BoundsAssumption, FS_Interval
  <2>2. /\ IsFiniteSet(rows) /\ Cardinality(rows) \in Nat
        /\ Cardinality(rows) <= Cardinality(1..MaxReviews)
    <3>1. rows \in SUBSET (1..MaxReviews)
      OBVIOUS
    <3> HIDE DEF rows
    <3> QED
      BY <2>1, <3>1, FS_Subset, FS_CardinalityType
  <2> QED
    BY <2>1, <2>2, BoundsAssumption DEF CompletedRows
<1> QED
  BY <1>1, <1>2

LEMMA FieldStep == Typed /\ FieldInv /\ [Next]_vars => FieldInv'
<1> SUFFICES ASSUME Typed, FieldInv, [Next]_vars PROVE FieldInv'
  OBVIOUS
<1> USE BoundsAssumption, AsyncAssumption
    DEF Typed, FieldInv, Counts, None, queue, work, control, aside
<1>1. CASE Pass \/ CollectEnds \/ TurnsEnd \/ Persist \/ StopPersists
  BY <1>1 DEF Pass, CollectEnds, TurnsEnd, Persist, StopPersists
<1>2. CASE StopRaises \/ Closed
  BY <1>2 DEF StopRaises, StoreRaises, Closed, Idle
<1>3. ASSUME NEW a \in Agents,
             \/ CollectSkips(a) \/ NotDue(a) \/ Submit(a) \/ Exhausted(a) \/ StartReview(a)
             \/ Answer(a) \/ Elapse(a)
      PROVE  FieldInv'
  BY <1>3 DEF CollectSkips, NotDue, Submit, Exhausted, StartReview, Answer, Elapse
<1>4. ASSUME NEW a \in Agents, Collect(a) \/ AskInline(a) PROVE FieldInv'
  <2>1. /\ raises' \in 0..MaxRaises
        /\ task' = [task EXCEPT ![a] = None]
        /\ count' = [count EXCEPT ![a] = Increment(@)]
        /\ finished' = finished \cup (IF task[a] = None THEN {} ELSE {Review(a)})
    BY <1>4 DEF Collect, AskInline, Record, TaskForgotten, StoreRaises
  <2>2. count' \in Counts /\ task' \in [Agents -> 0..MaxReviews]
    BY <2>1, CountFacts
  <2>3. finished' \subseteq Reviews
    BY <2>1, ReviewExists
  <2>4. /\ saved' = saved /\ waiting' = waiting
        /\ pc' # "closing" /\ pending' \subseteq pending /\ done' \subseteq pending'
    BY <1>4 DEF Collect, AskInline, AnswerTaken
  <2> QED
    BY <2>1, <2>2, <2>3, <2>4
<1>5. ASSUME NEW a \in Agents, Adopt(a) \/ EnqueueFresh(a) PROVE FieldInv'
  <2>1. PICK n \in 1..MaxReviews : task' = [task EXCEPT ![a] = n]
    BY <1>5 DEF Adopt, EnqueueFresh, Oldest, Queued, Unused
  <2> QED
    BY <1>5, <2>1 DEF Adopt, EnqueueFresh, Turn
<1>6. ASSUME NEW a \in Agents, EnqueueRaises(a) \/ FindRaises(a) \/ StartRaises(a)
      PROVE  FieldInv'
  BY <1>6 DEF EnqueueRaises, FindRaises, StartRaises, StoreRaises, Turn
<1>7. ASSUME NEW a \in Agents, Requeue(a) PROVE FieldInv'
  BY <1>7 DEF Requeue, StoreRaises
<1>8. CASE Stop \/ Crash
  BY <1>8 DEF Stop, Crash, Idle
<1>9. CASE Boot
  <2>1. \A a \in Agents : PriorCount(a) \in 0..MaxReviews
    BY CountFacts DEF PriorCount, Larger
  <2>2. count' \in Counts /\ raises' \in 0..MaxRaises
    BY <1>9, <2>1 DEF Boot, StoreRaises
  <2> QED
    BY <1>9, <2>2 DEF Boot, Idle
<1>10. CASE UNCHANGED vars
  BY <1>10 DEF vars
<1> QED
  BY <1>1, <1>2, <1>3, <1>4, <1>5, <1>6, <1>7, <1>8, <1>9, <1>10 DEF Next, Loop

LEMMA FieldsInitially == Init => QueueInv /\ FieldInv
<1> SUFFICES ASSUME Init PROVE QueueInv /\ FieldInv
  OBVIOUS
<1>1. RunningReviews = {}
  BY DEF Init, LedgerInit, RunningReviews
<1>2. QueueInv
  BY <1>1, FS_EmptySet DEF Init, LedgerInit, QueueInv
<1>3. FieldInv
  BY BoundsAssumption DEF Init, FieldInv, Counts, None
<1> QED
  BY <1>2, <1>3

-----------------------------------------------------------------------------
(* After calls that raise.  A call that raises can leave one review behind  *)
(* that nobody works on, or one answer that no row tells of; what an agent  *)
(* has open or counts beyond its rows is never more than that.              *)

\* One open review is no debt: the agent works on it or will adopt it, or the
\* next manager will queue it.
Covered(a) == pc = "down" \/ task[a] # None \/ Queued(a) # {}

\* A review without a row is out, and its answer will count.
Rowless(a) == task[a] = None /\ (a \in pending \/ (pc = "submit" /\ a \in hand))

OpenDebt(a) == Cardinality(Open(a)) <= raises + (IF Covered(a) THEN 1 ELSE 0)
CountDebt(a) ==
  /\ saved[a] <= CompletedRows(a) + raises
  /\ pc # "down" =>
       count[a] + (IF Rowless(a) THEN 1 ELSE 0) <= CompletedRows(a) + raises

DebtInv ==
  /\ pc = "start" => \A a \in hand : task[a] # None
  /\ \A a \in Agents : OpenDebt(a) /\ CountDebt(a)

LEMMA OpenIsFinite ==
  \A a \in Agents : IsFiniteSet(Open(a)) /\ Cardinality(Open(a)) \in Nat
<1> TAKE a \in Agents
<1>1. Open(a) \in SUBSET (1..MaxReviews)
  BY DEF Open
<1> QED
  BY <1>1, RowsAreCounted

\* What an agent has open does not grow, and the cover of one is only lost
\* with the review, or for a call that raised.
LEMMA OpenDebtKept ==
  ASSUME Typed, NEW a \in Agents, OpenDebt(a), raises' \in {raises, raises + 1},
         Open(a)' \subseteq Open(a),
         Covered(a) => \/ Covered(a)' \/ raises' = raises + 1
                       \/ Open(a)' # Open(a) \/ Open(a)' = {}
  PROVE  OpenDebt(a)'
<1> DEFINE new == Open(a)'
<1>1. IsFiniteSet(Open(a)) /\ Cardinality(Open(a)) \in Nat /\ raises \in Nat
  BY OpenIsFinite DEF Typed
<1>2. /\ IsFiniteSet(new) /\ Cardinality(new) \in Nat
      /\ Cardinality(new) <= Cardinality(Open(a))
      /\ new # Open(a) => Cardinality(new) < Cardinality(Open(a))
      /\ new = {} => Cardinality(new) = 0
  <2> HIDE DEF new
  <2>1. new \in SUBSET Open(a)
    BY DEF new
  <2>2. IsFiniteSet(new) /\ Cardinality(new) <= Cardinality(Open(a))
    BY <1>1, <2>1, FS_Subset
  <2>3. new # Open(a) => Cardinality(new) # Cardinality(Open(a))
    BY <1>1, <2>1, FS_Subset
  <2>4. Cardinality(new) \in Nat
    BY <2>2, FS_CardinalityType
  <2> QED
    BY <1>1, <2>2, <2>3, <2>4, FS_EmptySet
<1> HIDE DEF new
<1>3. Cardinality(new) <= raises' + (IF Covered(a)' THEN 1 ELSE 0)
  BY <1>1, <1>2 DEF OpenDebt, new
<1> QED
  BY <1>3 DEF OpenDebt, new

\* The operations that leave the rows alone.
LEMMA RowsAlone ==
  ASSUME Typed, HandInv, NEW b \in Agents, OpenDebt(b), raises' \in {raises, raises + 1},
         status' = status, pc = "down" => pc' = "down",
         task'[b] # None \/ task[b] = None \/ pc' = "down" \/ raises' = raises + 1
  PROVE  OpenDebt(b)'
<1>1. Open(b)' = Open(b) /\ Queued(b)' = Queued(b)
  BY DEF Open, Queued
<1> QED
  BY <1>1, OpenDebtKept DEF Covered

LEMMA OpenStep ==
  ASSUME Typed, HandInv, FieldInv, [Next]_vars, NEW b \in Agents, OpenDebt(b)
  PROVE  OpenDebt(b)'
<1>1. raises' \in {raises, raises + 1} /\ raises \in Nat
  BY RaisesStep DEF Typed
<1> USE DEF queue, work, control, aside
<1>2. CASE Pass \/ CollectEnds \/ TurnsEnd \/ Persist \/ StopPersists \/ StopRaises \/ Closed
  BY <1>1, <1>2, RowsAlone
  DEF Pass, CollectEnds, TurnsEnd, Persist, StopPersists, StopRaises, Closed, Idle
<1>3. ASSUME NEW a \in Agents,
             \/ CollectSkips(a) \/ NotDue(a) \/ Exhausted(a) \/ Submit(a) \/ Answer(a) \/ Elapse(a)
      PROVE  OpenDebt(b)'
  <2>1. /\ status' = status /\ task' = task
        /\ pc = "down" => pc' = "down"
    BY <1>3 DEF CollectSkips, NotDue, Exhausted, Submit, Answer, Elapse
  <2> QED
    BY <1>1, <2>1, RowsAlone
<1>4. ASSUME NEW a \in Agents, EnqueueRaises(a) \/ FindRaises(a) \/ Adopt(a)
      PROVE  OpenDebt(b)'
  <2>1. status' = status /\ pc # "down"
    BY <1>4 DEF EnqueueRaises, FindRaises, Adopt, Turn
  <2>2. task' = task \/ \E n \in 1..MaxReviews : task' = [task EXCEPT ![a] = n]
    BY <1>4 DEF EnqueueRaises, FindRaises, Adopt, Oldest, Queued
  <2>3. task'[b] = task[b] \/ task'[b] # None
    BY <2>2, Constants, BoundsAssumption DEF Typed
  <2> QED
    BY <1>1, <2>1, <2>3, RowsAlone
<1>5. ASSUME NEW a \in Agents, Collect(a) \/ AskInline(a) PROVE OpenDebt(b)'
  <2>1. Record(a) /\ pc # "down" /\ pc' # "down" /\ task' = [task EXCEPT ![a] = None]
    BY <1>5 DEF Collect, AskInline, Record, TaskForgotten
  <2>2. CASE UNCHANGED queue /\ (task[a] = None \/ raises' = raises + 1)
    <3>1. task[b] = None \/ task'[b] # None \/ raises' = raises + 1
      BY <2>1, <2>2 DEF Typed
    <3> QED
      BY <1>1, <2>1, <2>2, <3>1, RowsAlone
  <2>3. CASE task[a] # None /\ Finish(Review(a), "COMPLETE")
    <3>1. Review(a) \in Reviews /\ Review(a) = <<a, task[a]>>
      BY <2>3, ReviewExists DEF Review
    <3>2. status[Review(a)] = "RUNNING"
      BY <1>5, <2>3, <3>1 DEF Collect, AskInline, HandInv, Has
    <3>3. Only(Review(a), "COMPLETE")
      BY <2>3, LedgerMoves
    <3>4. Open(b)' \subseteq Open(b) /\ (b = a => Open(b)' # Open(b))
      BY <3>1, <3>2, <3>3 DEF Only, Open, Reviews
    <3>5. b # a => task'[b] = task[b] /\ Queued(b)' = Queued(b)
      BY <2>1, <3>1, <3>3 DEF Typed, Only, Queued, Reviews
    <3> QED
      BY <1>1, <2>1, <3>4, <3>5, OpenDebtKept DEF Covered
  <2> QED
    BY <2>1, <2>2, <2>3 DEF Record, Completed, StoreRaises
<1>6. ASSUME NEW a \in Agents, EnqueueFresh(a) PROVE OpenDebt(b)'
  <2>1. PICK n \in Unused(a) : Enqueue(<<a, n>>) /\ task' = [task EXCEPT ![a] = n]
    BY <1>6 DEF EnqueueFresh
  <2>2. /\ n \in 1..MaxReviews /\ n # None /\ <<a, n>> \in Reviews
        /\ status' = [status EXCEPT ![<<a, n>>] = "QUEUED"] /\ status[<<a, n>>] = "absent"
    BY <2>1, BoundsAssumption DEF Unused, Enqueue, Reviews, None
  <2>3. /\ pc = "agents" /\ pc' = "start" /\ a \notin pending /\ hand = {}
        /\ Queued(a) = {} /\ raises' = raises
    BY <1>6 DEF EnqueueFresh, Turn, HandInv
  <2>4. CASE b = a
    <3>1. ~Covered(a) /\ Covered(a)'
      BY <2>1, <2>2, <2>3 DEF Covered, HandInv, Typed
    <3>2. Open(a)' = Open(a) \cup {n} /\ n \notin Open(a)
      BY <2>2 DEF Open, Typed, Reviews
    <3>3. Cardinality(Open(a) \cup {n}) = Cardinality(Open(a)) + 1
      BY <3>2, OpenIsFinite, FS_AddElement
    <3>4. Cardinality(Open(a)) <= raises /\ Cardinality(Open(a)) \in Nat
      BY <1>1, <2>4, <3>1, OpenIsFinite DEF OpenDebt
    <3> QED
      BY <1>1, <2>3, <2>4, <3>1, <3>2, <3>3, <3>4 DEF OpenDebt
  <2>5. CASE b # a
    <3>1. Open(b)' = Open(b) /\ Queued(b)' = Queued(b)
      BY <2>2, <2>5 DEF Open, Queued, Typed, Reviews
    <3>2. task'[b] = task[b]
      BY <2>1, <2>5 DEF Typed
    <3> QED
      BY <1>1, <2>3, <3>1, <3>2, OpenDebtKept DEF Covered
  <2> QED
    BY <2>4, <2>5
<1>7. ASSUME NEW a \in Agents, StartReview(a) PROVE OpenDebt(b)'
  <2>1. /\ Only(Review(a), "RUNNING") /\ status[Review(a)] = "QUEUED"
        /\ task' = task /\ pc = "start" /\ raises' = raises
    BY <1>7, LedgerMoves DEF StartReview
  <2>2. Open(b)' \subseteq Open(b)
    BY <2>1 DEF Only, Open, Reviews
  <2>3. Covered(b) => Covered(b)'
    <3>1. CASE b = a /\ task[a] # None
      BY <2>1, <3>1 DEF Covered
    <3>2. CASE b # a \/ task[a] = None
      <4>1. \A n \in 1..MaxReviews : Review(a) # <<b, n>>
        BY <3>2, BoundsAssumption DEF Review, None
      <4>2. Queued(b)' = Queued(b)
        BY <2>1, <4>1 DEF Only, Queued, Reviews
      <4> QED
        BY <2>1, <4>2 DEF Covered
    <3> QED
      BY <3>1, <3>2
  <2> QED
    BY <1>1, <2>2, <2>3, OpenDebtKept
<1>8. ASSUME NEW a \in Agents, StartRaises(a) PROVE OpenDebt(b)'
  <2>1. raises' = raises + 1 /\ (Finish(Review(a), "FAILED") \/ UNCHANGED queue)
    BY <1>8 DEF StartRaises, StoreRaises
  <2>2. CASE UNCHANGED queue
    BY <1>1, <2>1, <2>2, OpenDebtKept DEF Open
  <2>3. CASE Finish(Review(a), "FAILED")
    <3>1. Only(Review(a), "FAILED")
      BY <2>3, LedgerMoves
    <3>2. Open(b)' \subseteq Open(b)
      BY <3>1 DEF Only, Open, Reviews
    <3> QED
      BY <1>1, <2>1, <3>2, OpenDebtKept
  <2> QED
    BY <2>1, <2>2, <2>3
<1>9. ASSUME NEW a \in Agents, Requeue(a) PROVE OpenDebt(b)'
  <2>1. task' = task /\ pc = "closing" /\ pc' = "closing"
    BY <1>9 DEF Requeue
  <2>2. CASE UNCHANGED queue
    BY <1>1, <2>1, <2>2, RowsAlone
  <2>3. CASE FinishNow(Review(a))
    <3>1. Only(Review(a), "QUEUED") /\ (Review(a) \in Reviews => status[Review(a)] = "RUNNING")
      BY <1>9, <2>3, LedgerMoves DEF Requeue, HandInv, Has, FieldInv
    <3>2. Open(b)' \subseteq Open(b) /\ Queued(b) \subseteq Queued(b)'
      BY <3>1 DEF Only, Open, Queued, Reviews
    <3> QED
      BY <1>1, <2>1, <3>2, OpenDebtKept DEF Covered
  <2> QED
    BY <1>9, <2>2, <2>3 DEF Requeue
<1>10. CASE Boot
  <2>1. status' = [r \in Reviews |-> IF status[r] = "RUNNING" THEN "QUEUED" ELSE status[r]]
    BY <1>10 DEF Boot, RequeueRunning, Typed
  <2>2. Open(b)' \subseteq Open(b) /\ Open(b)' \subseteq Queued(b)'
    BY <2>1 DEF Open, Queued, Reviews
  <2> QED
    BY <1>1, <2>2, OpenDebtKept DEF Covered
<1>11. CASE Stop \/ Crash \/ UNCHANGED vars
  BY <1>1, <1>11, RowsAlone DEF Stop, Crash, Idle, vars
<1> QED
  BY <1>2, <1>3, <1>4, <1>5, <1>6, <1>7, <1>8, <1>9, <1>10, <1>11 DEF Next, Loop

\* A completed row is not lost.
LEMMA CompletedGrows ==
  ASSUME Typed, Typed', HandInv, [Next]_vars, NEW b \in Agents
  PROVE  CompletedRows(b) <= CompletedRows(b)'
<1>1. \A n \in 1..MaxReviews : status[<<b, n>>] = "COMPLETE" => status'[<<b, n>>] = "COMPLETE"
  BY LifecycleStep DEF Lifecycle!Next, Lifecycle!Moves, Lifecycle!Final, Typed, Reviews
<1> DEFINE rows == {n \in 1..MaxReviews : status[<<b, n>>] = "COMPLETE"}
           newRows == {n \in 1..MaxReviews : status'[<<b, n>>] = "COMPLETE"}
<1>2. rows \in SUBSET newRows /\ newRows \in SUBSET (1..MaxReviews)
  BY <1>1
<1>3. CompletedRows(b) = Cardinality(rows) /\ CompletedRows(b)' = Cardinality(newRows)
  BY DEF CompletedRows
<1> HIDE DEF rows, newRows
<1> QED
  BY <1>2, <1>3, RowsAreCounted, FS_Subset

\* A count only moves with an answer, when it is saved, and when it is read
\* back.
LEMMA CountDebtKept ==
  ASSUME Typed, CountsInv, NEW b \in Agents, CountDebt(b), raises' \in {raises, raises + 1},
         CompletedRows(b) <= CompletedRows(b)', count' = count, (pc # "down" \/ pc' = "down"),
         saved' = saved \/ (saved'[b] \in {saved[b], count[b]} /\ pc # "down"),
         Rowless(b)' => Rowless(b) \/ raises' = raises + 1
  PROVE  CountDebt(b)'
<1>1. /\ CompletedRows(b) \in Nat /\ CompletedRows(b)' \in Nat /\ raises \in Nat
      /\ saved[b] \in Nat /\ count[b] \in Nat
  BY CompletedIsNat, RowsAreNat DEF Typed, CountsInv
<1> QED
  BY <1>1 DEF CountDebt

LEMMA CountStep ==
  ASSUME Typed, Typed', HandInv, FieldInv, CountsInv, DebtInv, [Next]_vars, NEW b \in Agents
  PROVE  CountDebt(b)'
<1>1. /\ raises' \in {raises, raises + 1} /\ raises \in Nat
      /\ CompletedRows(b) <= CompletedRows(b)'
      /\ CompletedRows(b) \in Nat /\ CompletedRows(b)' \in Nat
      /\ CountDebt(b) /\ saved[b] \in Nat /\ count[b] \in Nat
  BY RaisesStep, CompletedGrows, CompletedIsNat, RowsAreNat DEF Typed, CountsInv, DebtInv
<1> USE DEF queue, work, control, aside
<1>2. CASE \/ Pass \/ CollectEnds \/ TurnsEnd \/ Persist \/ StopPersists \/ StopRaises \/ Closed
           \/ Stop \/ Crash \/ UNCHANGED vars
  <2>1. /\ count' = count
        /\ pc # "down" \/ pc' = "down"
        /\ \/ UNCHANGED <<task, pending>> /\ (pc' # "submit" \/ UNCHANGED <<pc, hand>>)
           \/ pending' = {} /\ hand' = {}
    BY <1>2 DEF Pass, CollectEnds, TurnsEnd, Persist, StopPersists, StopRaises, Closed, Stop,
       Crash, Idle, vars
  <2>2. saved' = saved \/ (saved'[b] \in {saved[b], count[b]} /\ pc # "down")
    BY <1>2 DEF Pass, CollectEnds, TurnsEnd, Persist, StopPersists, StopRaises, Closed, Stop,
       Crash, vars
  <2> QED
    BY <1>1, <2>1, <2>2, CountDebtKept DEF Rowless
<1>3. ASSUME NEW a \in Agents,
             \/ CollectSkips(a) \/ NotDue(a) \/ Exhausted(a) \/ Submit(a) \/ Answer(a)
             \/ Elapse(a) \/ Requeue(a) \/ FindRaises(a) \/ StartReview(a)
      PROVE  CountDebt(b)'
  <2>1. /\ count' = count /\ saved' = saved /\ task' = task
        /\ pc # "down" \/ pc' = "down"
    BY <1>3 DEF CollectSkips, NotDue, Exhausted, Submit, Answer, Elapse, Requeue, FindRaises,
       Turn, StartReview
  <2>2. Rowless(b)' => Rowless(b)
    BY <1>3, <2>1 DEF Rowless, CollectSkips, NotDue, Exhausted, Submit, Answer, Elapse, Requeue,
       FindRaises, Turn, StartReview, DebtInv
  <2> QED
    BY <1>1, <2>1, <2>2, CountDebtKept
<1>4. ASSUME NEW a \in Agents,
             EnqueueRaises(a) \/ StartRaises(a) \/ Adopt(a) \/ EnqueueFresh(a)
      PROVE  CountDebt(b)'
  <2>1. count' = count /\ saved' = saved /\ pc # "down" /\ pending' = pending
    BY <1>4 DEF EnqueueRaises, StartRaises, Adopt, EnqueueFresh, Turn
  <2>2. CASE EnqueueRaises(a) \/ StartRaises(a)
    BY <1>1, <2>1, <2>2, CountDebtKept DEF EnqueueRaises, StartRaises, StoreRaises
  <2>3. CASE Adopt(a) \/ EnqueueFresh(a)
    <3>1. \E n \in 1..MaxReviews : task' = [task EXCEPT ![a] = n]
      BY <2>3 DEF Adopt, EnqueueFresh, Oldest, Queued, Unused
    <3>2. a \notin pending /\ pc' = "start"
      BY <2>3 DEF Adopt, EnqueueFresh, Turn
    <3>3. Rowless(b)' => Rowless(b)
      BY <2>1, <3>1, <3>2 DEF Rowless, Typed
    <3> QED
      BY <1>1, <2>1, <3>3, CountDebtKept
  <2> QED
    BY <1>4, <2>2, <2>3
<1>5. ASSUME NEW a \in Agents, Collect(a) \/ AskInline(a) PROVE CountDebt(b)'
  <2>1. /\ Record(a) /\ pc # "down" /\ saved' = saved
        /\ task' = [task EXCEPT ![a] = None] /\ count' = [count EXCEPT ![a] = Increment(@)]
    BY <1>5 DEF Collect, AskInline, Record, TaskForgotten
  <2>2. /\ a \in pending \/ (pc = "submit" /\ a \in hand)
        /\ pending' \subseteq pending \ {a} \/ (pending' = pending /\ a \notin pending)
        /\ pc' # "submit"
    BY <1>5 DEF Collect, AskInline, AnswerTaken, HandInv
  <2>3. CASE b # a
    <3>1. count'[b] = count[b] /\ (Rowless(b)' => Rowless(b))
      BY <2>1, <2>2, <2>3 DEF Rowless, Typed, CountsInv
    <3> QED
      BY <1>1, <2>1, <3>1 DEF CountDebt
  <2>4. CASE b = a
    <3>1. ~Rowless(a)' /\ count'[a] <= count[a] + 1 /\ count'[a] \in Nat
      <4>1. ~Rowless(a)'
        BY <2>2 DEF Rowless
      <4> QED
        BY <1>1, <2>1, <2>4, <4>1 DEF Increment, CountsInv
    <3>2. CASE raises' = raises + 1 \/ task[a] = None
      BY <1>1, <2>1, <2>2, <2>4, <3>1, <3>2 DEF CountDebt, Rowless
    <3>3. CASE task[a] # None /\ raises' = raises
      <4>1. Finish(Review(a), "COMPLETE")
        BY <1>1, <2>1, <3>3 DEF Record, Completed, StoreRaises
      <4>2. Review(a) \in Reviews /\ Only(Review(a), "COMPLETE")
        BY <3>3, <4>1, ReviewExists, LedgerMoves
      <4>3. status[Review(a)] = "RUNNING"
        BY <1>5, <3>3, <4>2 DEF Collect, AskInline, HandInv, Has
      <4>4. CompletedRows(a)' = CompletedRows(a) + 1
        BY <4>2, <4>3, OneMoreRow
      <4> QED
        BY <1>1, <2>1, <2>4, <3>1, <3>3, <4>4 DEF CountDebt
    <3> QED
      BY <1>1, <3>2, <3>3
  <2> QED
    BY <2>3, <2>4
<1>6. CASE Boot
  <2>1. /\ saved' = saved /\ pc' # "submit" /\ pending' = {}
        /\ count'[b] \in {0, saved[b], CompletedRows(b)}
    BY <1>6 DEF Boot, Idle, PriorCount, Larger
  <2>2. ~Rowless(b)'
    BY <2>1 DEF Rowless
  <2> QED
    BY <1>1, <2>1, <2>2 DEF CountDebt
<1> QED
  BY <1>2, <1>3, <1>4, <1>5, <1>6 DEF Next, Loop

\* An agent that is being started has a review.
LEMMA DebtStep ==
  Typed /\ Typed' /\ HandInv /\ FieldInv /\ CountsInv /\ DebtInv /\ [Next]_vars => DebtInv'
<1> SUFFICES ASSUME Typed, Typed', HandInv, FieldInv, CountsInv, DebtInv, [Next]_vars
             PROVE  DebtInv'
  OBVIOUS
<1>1. \A a \in Agents : OpenDebt(a)' /\ CountDebt(a)'
  BY OpenStep, CountStep DEF DebtInv
<1>2. ASSUME pc' = "start" PROVE \A a \in hand' : task'[a] # None
  <2>1. ASSUME pc = "start", UNCHANGED <<task, hand>> PROVE \A a \in hand' : task'[a] # None
    BY <2>1 DEF DebtInv
  <2>2. ASSUME NEW a \in Agents, Adopt(a) \/ EnqueueFresh(a)
        PROVE  \A c \in hand' : task'[c] # None
    <3>1. \E n \in 1..MaxReviews : task' = [task EXCEPT ![a] = n]
      BY <2>2 DEF Adopt, EnqueueFresh, Oldest, Queued, Unused
    <3>2. hand' = {a}
      BY <2>2 DEF Adopt, EnqueueFresh, Turn
    <3> QED
      BY <3>1, <3>2, BoundsAssumption DEF Typed, None
  <2> QED
    BY <1>2, <2>1, <2>2 DEF Next, Loop, Pass, CollectEnds, TurnsEnd, Persist, StopPersists,
       StopRaises, Closed, CollectSkips, Collect, NotDue, EnqueueRaises, FindRaises,
       StartReview, StartRaises, Submit, AskInline, Exhausted, Requeue, Stop, Crash, Boot,
       Answer, Elapse, Idle, vars, work, control
<1> QED
  BY <1>1, <1>2 DEF DebtInv

-----------------------------------------------------------------------------
(* The theorems.                                                           *)

IInv ==
  Typed /\ QueueInv /\ FieldInv /\ HandInv /\ DebtInv /\ CleanInv /\ CountsInv

LEMMA CleanInitially == Init => DebtInv /\ CleanInv /\ CountsInv
<1> SUFFICES ASSUME Init PROVE DebtInv /\ CleanInv /\ CountsInv
  OBVIOUS
<1> USE Constants, BoundsAssumption DEF Init, LedgerInit
<1>1. \A a \in Agents : Open(a) = {}
  BY DEF Open, Reviews
<1>2. \A a \in Agents : CompletedRows(a) \in Nat
  BY CompletedIsNat
<1>3. DebtInv
  <2>1. pc = "down" /\ raises = 0 /\ hand = {} /\ \A a \in Agents : saved[a] = 0
    OBVIOUS
  <2>2. ASSUME NEW a \in Agents PROVE OpenDebt(a) /\ CountDebt(a)
    <3>1. Cardinality(Open(a)) = 0
      BY <1>1, FS_EmptySet
    <3> QED
      BY <1>2, <2>1, <3>1 DEF OpenDebt, CountDebt
  <2> QED
    BY <2>1, <2>2 DEF DebtInv
<1> QED
  BY <1>1, <1>2, <1>3 DEF CleanInv, Clean, CountsInv, CountsHold, Reviews

THEOREM Safety == Spec => []IInv
<1>1. Init => IInv
  BY Initially, FieldsInitially, CleanInitially DEF IInv
<1>2. IInv /\ [Next]_vars => IInv'
  BY TypedStep, QueueStep, FieldStep, HandStep, DebtStep, CleanStep, CountsStep DEF IInv
<1> QED
  BY <1>1, <1>2, PTL DEF Spec

\* _start_task, recover_interrupted: an agent never has two open reviews,
\* beyond those that a call which raised left behind.
THEOREM OneReviewIsOpen == Spec => []OneOpenReview
<1>1. IInv => OneOpenReview
  <2> SUFFICES ASSUME IInv, NEW a \in Agents PROVE Cardinality(Open(a)) <= 1 + raises
    BY DEF OneOpenReview
  <2>1. raises \in Nat /\ Cardinality(Open(a)) \in Nat
    BY OpenIsFinite DEF IInv, Typed
  <2> QED
    BY <2>1 DEF IInv, DebtInv, OpenDebt
<1> QED
  BY <1>1, Safety, PTL

\* prior_count, _record: wherever a manager ends, the next one counts every
\* completed review once, and nothing else but answers whose call raised.
THEOREM CountsStayExact == Spec => []CountsAreExact
<1>1. IInv => CountsAreExact
  <2> SUFFICES ASSUME IInv, pc # "down", NEW a \in Agents
               PROVE  /\ count[a] <= CompletedRows(a) + raises
                      /\ raises = 0 => count[a] = CompletedRows(a)
    BY DEF CountsAreExact
  <2>1. raises \in Nat /\ CompletedRows(a) \in Nat /\ count[a] \in Nat
    BY CompletedIsNat DEF IInv, Typed, CountsInv
  <2> QED
    BY <2>1 DEF IInv, DebtInv, CountDebt, CountsInv, CountsHold
<1> QED
  BY <1>1, Safety, PTL

\* A review whose answer has been recorded is not done again.
THEOREM NothingIsRedone == Spec => NoRework
<1>1. IInv /\ IInv' /\ [Next]_vars
        => [raises = 0 => \A r \in finished : status[r] # "RUNNING" => status'[r] # "RUNNING"]_vars
  <2> SUFFICES ASSUME IInv, IInv', [Next]_vars, raises = 0, NEW r \in finished
               PROVE  status'[r] # "RUNNING"
    OBVIOUS
  <2>1. r \in Reviews /\ status[r] = "COMPLETE"
    BY DEF IInv, CleanInv, Clean
  <2>2. [Lifecycle!Next]_status
    BY LifecycleStep DEF IInv
  <2> QED
    BY <2>1, <2>2 DEF Lifecycle!Next, Lifecycle!Moves, Lifecycle!Final
<1> QED
  BY <1>1, Safety, PTL DEF Spec, NoRework

\* Whatever call raises and wherever a manager ends, what the coordinator and
\* the ledger keep is of the types their columns and fields have.
THEOREM TypeCorrect == Spec => []TypeOK
<1>1. IInv => TypeOK
  BY DEF IInv, Typed, PCs, QueueInv, FieldInv, TypeOK, LedgerTypeOK
<1> QED
  BY <1>1, Safety, PTL

================================================================================
