------------------------------ MODULE ManagerProofs ------------------------------
(***************************************************************************)
(* For any number of processes, streams, acknowledgements, reboots and     *)
(* kills: the lock has one holder and the row is the holder's; an          *)
(* acknowledgement or a reboot clears the budget of one worker only; the   *)
(* newest event about a stream tells its row; what is shown is the newest  *)
(* of all events there ever were; and the types and limits hold.           *)
(*                                                                         *)
(* On the way: the newest n of a set of numbered events, the sequence that *)
(* lists a set in order, and what merge_public_events makes of two such    *)
(* sequences.  None of these needs an induction: ranks are compared by     *)
(* counting.                                                               *)
(***************************************************************************)
EXTENDS Manager, SequenceTheorems, FiniteSetTheorems, FunctionTheorems, TLAPS

-----------------------------------------------------------------------------
(* The holder of the lock.                                                 *)

Waiting == {"down", "launched"}

\* The mind of every process has the fields of Fresh.
Shape ==
  /\ DOMAIN pc = Managers /\ DOMAIN me = Managers
  /\ \A m \in Managers : DOMAIN me[m] = DOMAIN Fresh

HolderInv ==
  /\ Shape
  /\ \A m \in Managers : pc[m] \notin Waiting => lock = m
  /\ \A m \in Managers : pc[m] \in {"publish", "events", "idle"} => row = me[m].job

\* What a process does that is past the lock and leaves the row alone.
Proceeds(m) ==
  /\ m \in Managers
  /\ UNCHANGED <<lock, row>>
  /\ pc[m] \notin Waiting
  /\ DOMAIN pc' = Managers /\ DOMAIN me' = Managers /\ DOMAIN me'[m] = DOMAIN Fresh
  /\ \A k \in Managers \ {m} : pc'[k] = pc[k] /\ me'[k] = me[k]
  /\ pc'[m] \in {"publish", "events", "idle"} => row = me'[m].job

LEMMA ProceedKeepsHolder ==
  ASSUME HolderInv, NEW m \in Managers, Proceeds(m)
  PROVE  HolderInv'
BY DEF HolderInv, Shape, Proceeds

LEMMA FreshFields ==
  DOMAIN Fresh = {"ack", "changed", "resume", "job", "pending", "unsent", "todo", "heard",
                  "window", "ending"}
BY DEF Fresh

LEMMA Proceeding ==
  ASSUME HolderInv, NEW m \in Managers,
         \/ UpdateMarker(m) \/ Build(m) \/ Consume(m) \/ AnnounceResume(m)
         \/ NothingToConsume(m) \/ StartAll(m) \/ Tick(m) \/ SyncStream(m) \/ TellStream(m)
         \/ PersistEvent(m) \/ PublishLatest(m) \/ PublishEvents(m) \/ PublishFails(m)
         \/ Wake(m) \/ FailEarly(m) \/ Fail(m) \/ Interrupt(m)
  PROVE  Proceeds(m)
<1> USE FreshFields DEF HolderInv, Shape, Proceeds, Waiting, Goes, rows, Starting, Running,
                        Fallible
<1>1. CASE UpdateMarker(m) \/ Consume(m) \/ AnnounceResume(m) \/ NothingToConsume(m)
  BY <1>1 DEF UpdateMarker, Consume, AnnounceResume, NothingToConsume
<1>2. CASE Build(m)
  BY <1>2 DEF Build
<1>3. CASE StartAll(m)
  BY <1>3 DEF StartAll
<1>4. CASE Tick(m)
  BY <1>4 DEF Tick, Heard
<1>5. CASE SyncStream(m)
  BY <1>5 DEF SyncStream
<1>6. CASE TellStream(m)
  BY <1>6 DEF TellStream
<1>7. CASE PersistEvent(m)
  BY <1>7 DEF PersistEvent
<1>8. CASE PublishLatest(m)
  BY <1>8 DEF PublishLatest, WindowMerged
<1>9. CASE PublishEvents(m)
  BY <1>9 DEF PublishEvents, AfterPublish
<1>10. CASE PublishFails(m)
  BY <1>10 DEF PublishFails, WindowMerged, AfterPublish
<1>11. CASE Wake(m) \/ FailEarly(m)
  BY <1>11 DEF Wake, FailEarly
<1>12. CASE Fail(m)
  BY <1>12 DEF Fail
<1>13. CASE Interrupt(m)
  BY <1>13 DEF Interrupt
<1> QED
  BY <1>1, <1>2, <1>3, <1>4, <1>5, <1>6, <1>7, <1>8, <1>9, <1>10, <1>11, <1>12, <1>13

LEMMA HolderStep == HolderInv /\ [Next]_vars => HolderInv'
<1> SUFFICES ASSUME HolderInv, [Next]_vars PROVE HolderInv'
  OBVIOUS
<1> USE ManagerAssumption, FreshFields DEF HolderInv, Shape, Waiting, Goes, rows
<1>1. ASSUME NEW m \in Managers, Launched(m) \/ Acquire(m) \/ Refused(m) PROVE HolderInv'
  <2>1. CASE Launched(m)
    <3>1. DOMAIN [Fresh EXCEPT !.ack = ack] = DOMAIN Fresh
      OBVIOUS
    <3> QED
      BY <2>1, <3>1 DEF Launched
  <2>2. CASE Acquire(m)
    BY <2>2 DEF Acquire, LockFree
  <2>3. CASE Refused(m)
    BY <2>3 DEF Refused
  <2> QED
    BY <1>1, <2>1, <2>2, <2>3
<1>2. ASSUME NEW m \in Managers, PersistRow(m) PROVE HolderInv'
  BY <1>2 DEF PersistRow
<1>3. ASSUME NEW m \in Managers, Release(m) PROVE HolderInv'
  BY <1>3 DEF Release
<1>4. ASSUME NEW m \in Managers, Crash(m) PROVE HolderInv'
  BY <1>4 DEF Crash
<1>5. CASE Reboot
  BY <1>5 DEF Reboot
<1>6. CASE Acknowledge \/ SourceMoves \/ UNCHANGED vars
  BY <1>6 DEF Acknowledge, SourceMoves, vars
<1>7. ASSUME NEW m \in Managers, StartUp(m) \/ Loop(m) \/ PublishFails(m) \/ End(m)
      PROVE  HolderInv'
  <2>1. \/ Acquire(m) \/ Refused(m) \/ PersistRow(m) \/ Crash(m)
        \/ UpdateMarker(m) \/ Build(m) \/ Consume(m) \/ AnnounceResume(m)
        \/ NothingToConsume(m) \/ StartAll(m) \/ Tick(m) \/ SyncStream(m) \/ TellStream(m)
        \/ PersistEvent(m) \/ PublishLatest(m) \/ PublishEvents(m) \/ PublishFails(m)
        \/ Wake(m) \/ FailEarly(m) \/ Fail(m) \/ Interrupt(m)
    BY <1>7 DEF StartUp, Loop, End
  <2> QED
    BY <2>1, <1>1, <1>2, <1>4, Proceeding, ProceedKeepsHolder
<1> QED
  BY <1>1, <1>3, <1>5, <1>6, <1>7 DEF Next, Relaunch, LaunchBeside, Runs

LEMMA HolderInitially == Init => HolderInv
BY DEF Init, HolderInv, Shape, Waiting

THEOREM OneHolder == Spec => []HolderInv
BY HolderInitially, HolderStep, PTL DEF Spec

\* InstanceLock.acquire: the row of the job is what the sleeping manager knows.
THEOREM RowIsTheHolders == Spec => []RowFollowsHolder
<1>1. HolderInv => RowFollowsHolder
  BY DEF HolderInv, RowFollowsHolder
<1> QED
  BY <1>1, OneHolder, PTL

-----------------------------------------------------------------------------
(* What has been granted.                                                  *)

Ground == {"ack", "boot"} \X Nat
Distinct(seq) == \A i, j \in DOMAIN seq : seq[i] = seq[j] => i = j
Holds(seq, g) == \E i \in DOMAIN seq : seq[i] = g
Granted(g) == Holds(granted, g)

\* A process that is about to grant something is the first to do so.
GrantInv ==
  /\ granted \in Seq(Ground)
  /\ GrantedOnce
  /\ boot \in Nat \ {0} /\ ack \in Nat /\ marker \in 0..boot
  /\ \A n \in Nat : Granted(<<"ack", n>>) => n \in consumed
  /\ \A n \in Nat : Granted(<<"boot", n>>) => n <= marker
  /\ \A m \in Managers :
       /\ me[m].ack \in Nat
       /\ pc[m] \in {"built", "consumed", "ready"} /\ me[m].resume
            => ~Granted(<<"ack", me[m].ack>>)
       /\ pc[m] \in {"consumed", "ready"} /\ me[m].resume => me[m].ack \in consumed
       /\ pc[m] \in {"marked", "built", "consumed", "ready"} /\ me[m].changed
            => marker = boot /\ ~Granted(<<"boot", boot>>)

LEMMA OneMore ==
  ASSUME NEW S, NEW seq \in Seq(S), NEW e \in S, Distinct(seq), ~Holds(seq, e)
  PROVE  /\ seq \o <<e>> \in Seq(S)
         /\ Distinct(seq \o <<e>>)
         /\ \A g : Holds(seq \o <<e>>, g) => g = e \/ Holds(seq, g)
<1> DEFINE longer == seq \o <<e>>
<1>1. longer \in Seq(S) /\ DOMAIN longer = 1..(Len(seq) + 1) /\ DOMAIN seq = 1..Len(seq)
      /\ Len(seq) \in Nat
  OBVIOUS
<1>2. longer[Len(seq) + 1] = e /\ \A i \in 1..Len(seq) : longer[i] = seq[i]
  OBVIOUS
<1> HIDE DEF longer
<1>3. \A i \in DOMAIN longer : i = Len(seq) + 1 \/ i \in DOMAIN seq
  BY <1>1
<1>4. Distinct(longer)
  BY <1>1, <1>2, <1>3 DEF Distinct, Holds
<1>5. \A g : Holds(longer, g) => g = e \/ Holds(seq, g)
  BY <1>1, <1>2, <1>3 DEF Holds
<1> QED
  BY <1>1, <1>4, <1>5 DEF longer

Awaiting == {"marked", "built", "consumed", "ready"}
Ledger == <<boot, marker, consumed, granted>>

\* A step about m that touches nothing of what grants depend on.
LEMMA UngrantingStep ==
  ASSUME GrantInv, UNCHANGED Ledger, ack' \in Nat,
         \A k \in Managers :
           \/ pc'[k] = pc[k] /\ me'[k] = me[k]
           \/ pc'[k] \notin Awaiting /\ me'[k].ack \in Nat
  PROVE  GrantInv'
<1>1. /\ boot' = boot /\ marker' = marker /\ consumed' = consumed /\ granted' = granted
  BY DEF Ledger
<1>2. \A g : Granted(g)' = Granted(g)
  BY <1>1 DEF Granted
<1> QED
  BY <1>1, <1>2 DEF GrantInv, GrantedOnce, Awaiting

LEMMA OthersWait ==
  ASSUME HolderInv, NEW m \in Managers, pc[m] \notin Waiting,
         NEW k \in Managers, k # m
  PROVE  pc[k] \in Waiting
BY DEF HolderInv

\* A step of the holder m between the marker and the start of its worker.
LEMMA HolderGrants ==
  ASSUME HolderInv, GrantInv, NEW m \in Managers, pc[m] \notin Waiting,
         UNCHANGED <<boot, ack>>,
         \A k \in Managers \ {m} : pc'[k] = pc[k] /\ me'[k] = me[k],
         granted' \in Seq(Ground), GrantedOnce', marker' \in 0..boot,
         \A n \in Nat : Granted(<<"ack", n>>)' => n \in consumed',
         \A n \in Nat : Granted(<<"boot", n>>)' => n <= marker',
         me'[m].ack \in Nat,
         pc'[m] \in {"built", "consumed", "ready"} /\ me'[m].resume
           => ~Granted(<<"ack", me[m].ack>>)',
         pc'[m] \in {"consumed", "ready"} /\ me'[m].resume => me'[m].ack \in consumed',
         pc'[m] \in Awaiting /\ me'[m].changed
           => marker' = boot /\ ~Granted(<<"boot", boot>>)'
  PROVE  GrantInv'
<1>1. \A k \in Managers \ {m} : pc'[k] \in Waiting /\ me'[k].ack \in Nat
  BY OthersWait DEF GrantInv
<1>2. \A k \in Managers \ {m} : pc'[k] \notin Awaiting
  BY <1>1 DEF Awaiting, Waiting
<1> QED
  BY <1>1, <1>2 DEF GrantInv, Awaiting

LEMMA MarkerGrants ==
  ASSUME HolderInv, GrantInv, NEW m \in Managers, UpdateMarker(m)
  PROVE  GrantInv'
<1>1. /\ pc[m] = "locked" /\ pc' = [pc EXCEPT ![m] = "marked"] /\ marker' = boot
      /\ me' = [me EXCEPT ![m].changed = (marker \notin {0, boot})]
      /\ boot' = boot /\ ack' = ack /\ consumed' = consumed /\ granted' = granted
  BY DEF UpdateMarker, Goes, host
<1>2. \A g : Granted(g)' = Granted(g)
  BY <1>1 DEF Granted
<1>3. /\ pc'[m] = "marked" /\ me'[m].ack = me[m].ack
      /\ me'[m].changed = (marker \notin {0, boot})
      /\ \A k \in Managers \ {m} : pc'[k] = pc[k] /\ me'[k] = me[k]
  BY <1>1, FreshFields DEF HolderInv, Shape
<1>4. marker \notin {0, boot} => marker < boot
  BY DEF GrantInv
<1>5. marker \notin {0, boot} => ~Granted(<<"boot", boot>>)
  BY <1>4 DEF GrantInv
<1>6. GrantedOnce' /\ granted' \in Seq(Ground) /\ marker' \in 0..boot
  BY <1>1 DEF GrantInv, GrantedOnce
<1>7. \A n \in Nat : Granted(<<"boot", n>>)' => n <= marker'
  BY <1>1, <1>2 DEF GrantInv
<1>8. \A n \in Nat : Granted(<<"ack", n>>)' => n \in consumed'
  BY <1>1, <1>2 DEF GrantInv
<1>9. me'[m].changed => marker' = boot /\ ~Granted(<<"boot", boot>>)'
  BY <1>1, <1>2, <1>3, <1>5
<1>10. me'[m].ack \in Nat /\ pc[m] \notin Waiting
  BY <1>1, <1>3 DEF GrantInv, Waiting
<1>11. pc'[m] \notin {"built", "consumed", "ready"}
  BY <1>3
<1> HIDE DEF GrantInv
<1> QED
  BY <1>1, <1>3, <1>6, <1>7, <1>8, <1>9, <1>10, <1>11, HolderGrants

LEMMA BuildGrants ==
  ASSUME HolderInv, GrantInv, NEW m \in Managers,
         Build(m) \/ Consume(m) \/ AnnounceResume(m) \/ NothingToConsume(m)
  PROVE  GrantInv'
<1>1. /\ boot' = boot /\ ack' = ack /\ marker' = marker /\ granted' = granted
      /\ consumed \subseteq consumed'
      /\ pc[m] \notin Waiting
  BY DEF Build, Consume, Consumed, AnnounceResume, NothingToConsume, Goes, host, meta, Waiting
<1>2. /\ \A k \in Managers \ {m} : pc'[k] = pc[k] /\ me'[k] = me[k]
      /\ me'[m].ack = me[m].ack /\ me'[m].changed = me[m].changed
  BY FreshFields DEF Build, Consume, AnnounceResume, NothingToConsume, Goes, HolderInv, Shape
<1>3. \A g : Granted(g)' = Granted(g)
  BY <1>1 DEF Granted
<1>4. /\ granted' \in Seq(Ground) /\ GrantedOnce' /\ marker' \in 0..boot /\ me'[m].ack \in Nat
      /\ \A n \in Nat : Granted(<<"ack", n>>)' => n \in consumed'
      /\ \A n \in Nat : Granted(<<"boot", n>>)' => n <= marker'
  BY <1>1, <1>2, <1>3 DEF GrantInv, GrantedOnce
<1>5. pc[m] \in {"marked", "built", "consumed"}
  BY DEF Build, Consume, AnnounceResume, NothingToConsume, Goes
<1>6. pc'[m] \in Awaiting /\ me'[m].changed => marker' = boot /\ ~Granted(<<"boot", boot>>)'
  BY <1>1, <1>2, <1>3, <1>5 DEF GrantInv
<1>7. me'[m].resume => ~Granted(<<"ack", me[m].ack>>)'
  <2>1. CASE Build(m)
    <3>1. me'[m].resume = ResumePending(m)
      BY <2>1, FreshFields DEF Build, HolderInv, Shape
    <3>2. ResumePending(m) => me[m].ack \notin consumed
      BY DEF ResumePending
    <3> QED
      BY <3>1, <3>2, <1>2, <1>3 DEF GrantInv
  <2>2. CASE Consume(m) \/ AnnounceResume(m) \/ NothingToConsume(m)
    <3>1. me' = me /\ pc[m] \in {"built", "consumed"}
      BY <2>2 DEF Consume, AnnounceResume, NothingToConsume, Goes
    <3> QED
      BY <3>1, <1>3 DEF GrantInv
  <2> QED
    BY <2>1, <2>2
<1>8. pc'[m] \in {"consumed", "ready"} /\ me'[m].resume => me'[m].ack \in consumed'
  <2>1. CASE Build(m)
    BY <2>1 DEF Build, Goes, HolderInv, Shape
  <2>2. CASE Consume(m)
    BY <2>2, <1>2 DEF Consume, Consumed
  <2>3. CASE AnnounceResume(m)
    BY <2>3, <1>1 DEF AnnounceResume, Goes, GrantInv
  <2>4. CASE NothingToConsume(m)
    BY <2>4 DEF NothingToConsume
  <2> QED
    BY <2>1, <2>2, <2>3, <2>4
<1> QED
  BY <1>1, <1>2, <1>4, <1>6, <1>7, <1>8, HolderGrants

\* What is granted is new, so nothing is granted twice.
LEMMA StartGrants ==
  ASSUME HolderInv, GrantInv, NEW m \in Managers, StartAll(m)
  PROVE  GrantInv'
<1>1. /\ boot' = boot /\ ack' = ack /\ marker' = marker /\ consumed' = consumed
      /\ granted' = granted \o Grounds(m)
      /\ pc[m] = "ready" /\ pc' = [pc EXCEPT ![m] = "tick"]
  BY DEF StartAll, Goes, host, meta
<1>2. /\ pc'[m] = "tick" /\ me'[m].ack = me[m].ack
      /\ \A k \in Managers \ {m} : pc'[k] = pc[k] /\ me'[k] = me[k]
  BY <1>1, FreshFields DEF StartAll, HolderInv, Shape
<1>3. /\ boot \in Nat /\ marker \in Nat /\ me[m].ack \in Nat
      /\ me[m].resume => ~Granted(<<"ack", me[m].ack>>) /\ me[m].ack \in consumed
      /\ me[m].changed => marker = boot /\ ~Granted(<<"boot", boot>>)
  BY <1>1 DEF GrantInv, Awaiting
<1> DEFINE ackGround == <<"ack", me[m].ack>>
           bootGround == <<"boot", boot>>
           acks == IF me[m].resume THEN granted \o <<ackGround>> ELSE granted
<1>4. granted \in Seq(Ground) /\ Distinct(granted)
  BY DEF GrantInv, GrantedOnce, Distinct
<1>5. ackGround \in Ground /\ bootGround \in Ground /\ ackGround # bootGround
  BY <1>3 DEF Ground
<1> HIDE DEF ackGround, bootGround
<1>6. /\ acks \in Seq(Ground) /\ Distinct(acks)
      /\ \A g : Holds(acks, g) => Holds(granted, g) \/ (me[m].resume /\ g = ackGround)
  <2>1. me[m].resume => ~Holds(granted, ackGround)
    BY <1>3 DEF Granted, ackGround
  <2>2. CASE me[m].resume
    <3>1. acks = granted \o <<ackGround>>
      BY <2>2
    <3> HIDE DEF acks
    <3>2. ~Holds(granted, ackGround)
      BY <2>1, <2>2
    <3>3. /\ granted \o <<ackGround>> \in Seq(Ground) /\ Distinct(granted \o <<ackGround>>)
          /\ \A g : Holds(granted \o <<ackGround>>, g) => g = ackGround \/ Holds(granted, g)
      BY <1>4, <1>5, <3>2, OneMore
    <3> QED
      BY <3>1, <3>3, <2>2
  <2>3. CASE ~me[m].resume
    BY <1>4, <2>3
  <2> QED
    BY <2>2, <2>3
<1>7. granted' = IF me[m].changed THEN acks \o <<bootGround>> ELSE acks
  <2>1. Grounds(m) = (IF me[m].resume THEN <<ackGround>> ELSE <<>>)
                       \o (IF me[m].changed THEN <<bootGround>> ELSE <<>>)
    BY DEF Grounds, ackGround, bootGround
  <2>2. <<ackGround>> \in Seq(Ground) /\ <<bootGround>> \in Seq(Ground) /\ <<>> \in Seq(Ground)
    BY <1>5
  <2>3. granted \o (<<ackGround>> \o <<bootGround>>) = (granted \o <<ackGround>>) \o <<bootGround>>
    BY <2>2, <1>4, ConcatAssociative
  <2>4. /\ <<>> \o <<bootGround>> = <<bootGround>> /\ <<ackGround>> \o <<>> = <<ackGround>>
        /\ granted \o (<<>> \o <<>>) = granted
    BY <2>2, <1>4, ConcatEmptySeq
  <2>5. CASE me[m].resume /\ me[m].changed
    BY <2>1, <2>3, <2>5, <1>1
  <2>6. CASE me[m].resume /\ ~me[m].changed
    BY <2>1, <2>4, <2>6, <1>1
  <2>7. CASE ~me[m].resume
    BY <2>1, <2>4, <2>7, <1>1
  <2> QED
    BY <2>5, <2>6, <2>7
<1> HIDE DEF acks
<1>8. /\ granted' \in Seq(Ground) /\ Distinct(granted')
      /\ \A g : Holds(granted', g) => Holds(acks, g) \/ (me[m].changed /\ g = bootGround)
  <2>1. me[m].changed => ~Holds(acks, bootGround)
    BY <1>3, <1>5, <1>6 DEF Granted, bootGround
  <2>2. CASE me[m].changed
    <3>1. ~Holds(acks, bootGround)
      BY <2>1, <2>2
    <3>2. /\ acks \o <<bootGround>> \in Seq(Ground) /\ Distinct(acks \o <<bootGround>>)
          /\ \A g : Holds(acks \o <<bootGround>>, g) => g = bootGround \/ Holds(acks, g)
      BY <1>5, <1>6, <3>1, OneMore
    <3> QED
      BY <3>2, <2>2, <1>7
  <2>3. CASE ~me[m].changed
    BY <1>6, <1>7, <2>3
  <2> QED
    BY <2>2, <2>3
<1>9. /\ GrantedOnce'
      /\ \A n \in Nat : Granted(<<"ack", n>>)' => n \in consumed'
      /\ \A n \in Nat : Granted(<<"boot", n>>)' => n <= marker'
  <2>1. \A n \in Nat : Granted(<<"ack", n>>) => n \in consumed
    BY DEF GrantInv
  <2>2. \A n \in Nat : Granted(<<"boot", n>>) => n <= marker
    BY DEF GrantInv
  <2>3. \A g : Granted(g)' => Granted(g) \/ (me[m].resume /\ g = ackGround)
                                       \/ (me[m].changed /\ g = bootGround)
    BY <1>6, <1>8 DEF Granted
  <2> QED
    BY <1>1, <1>3, <1>8, <2>1, <2>2, <2>3 DEF GrantedOnce, Distinct, ackGround, bootGround
<1>10. marker' \in 0..boot /\ pc[m] \notin Waiting /\ pc'[m] \notin Awaiting
  BY <1>1, <1>2 DEF GrantInv, Waiting, Awaiting
<1>11. pc'[m] \notin {"built", "consumed", "ready"} /\ me'[m].ack \in Nat
  BY <1>2, <1>3
<1> QED
  BY <1>1, <1>2, <1>8, <1>9, <1>10, <1>11, HolderGrants

LEMMA GrantStep == HolderInv /\ GrantInv /\ [Next]_vars => GrantInv'
<1> SUFFICES ASSUME HolderInv, GrantInv, [Next]_vars PROVE GrantInv'
  OBVIOUS
<1>1. ASSUME NEW m \in Managers,
             \/ Launched(m) \/ Acquire(m) \/ Refused(m) \/ Tick(m) \/ SyncStream(m)
             \/ TellStream(m) \/ PersistEvent(m) \/ PersistRow(m) \/ PublishLatest(m)
             \/ PublishEvents(m) \/ PublishFails(m) \/ Wake(m) \/ Release(m) \/ FailEarly(m)
             \/ Fail(m) \/ Interrupt(m) \/ Crash(m)
      PROVE  GrantInv'
  <2>1. UNCHANGED Ledger /\ ack' = ack
    BY <1>1 DEF Launched, Acquire, Refused, Tick, SyncStream, TellStream, PersistEvent,
       PersistRow, PublishLatest, PublishEvents, PublishFails, Wake, Release, FailEarly, Fail,
       Interrupt, Crash, host, meta, Ledger
  <2>2. ack \in Nat /\ \A k \in Managers : me[k].ack \in Nat
    BY DEF GrantInv
  <2>3. Fresh.ack = 0 /\ [Fresh EXCEPT !.ack = ack].ack = ack
    BY DEF Fresh
  <2>4. pc'[m] \notin Awaiting /\ me'[m].ack \in Nat
    <3> USE FreshFields DEF HolderInv, Shape, Goes, Awaiting
    <3>1. CASE Launched(m) \/ Refused(m) \/ Release(m) \/ Crash(m)
      BY <3>1, <2>2, <2>3 DEF Launched, Refused, Release, Crash
    <3>2. CASE Acquire(m) \/ Wake(m) \/ FailEarly(m)
      BY <3>2, <2>2 DEF Acquire, Wake, FailEarly
    <3>3. CASE Tick(m)
      BY <3>3, <2>2 DEF Tick, Heard
    <3>4. CASE SyncStream(m)
      BY <3>4, <2>2 DEF SyncStream
    <3>5. CASE TellStream(m)
      BY <3>5, <2>2 DEF TellStream
    <3>6. CASE PersistEvent(m) \/ PersistRow(m)
      BY <3>6, <2>2 DEF PersistEvent, PersistRow
    <3>7. CASE PublishLatest(m) \/ PublishEvents(m)
      BY <3>7, <2>2 DEF PublishLatest, PublishEvents, WindowMerged, AfterPublish
    <3>8. CASE PublishFails(m)
      BY <3>8, <2>2 DEF PublishFails, WindowMerged, AfterPublish
    <3>9. CASE Fail(m) \/ Interrupt(m)
      BY <3>9, <2>2 DEF Fail, Interrupt
    <3> QED
      BY <1>1, <3>1, <3>2, <3>3, <3>4, <3>5, <3>6, <3>7, <3>8, <3>9
  <2>5. \A k \in Managers \ {m} : pc'[k] = pc[k] /\ me'[k] = me[k]
    BY <1>1 DEF Launched, Acquire, Refused, Tick, Heard, SyncStream, TellStream, PersistEvent,
       PersistRow, PublishLatest, PublishEvents, PublishFails, WindowMerged, Wake, Release,
       FailEarly, Fail, Interrupt, Crash, Goes, HolderInv, Shape
  <2> QED
    BY <2>1, <2>2, <2>4, <2>5, UngrantingStep
<1>2. CASE Reboot
  <2>1. /\ boot' = boot + 1 /\ ack' = ack /\ marker' = marker /\ consumed' = consumed
        /\ granted' = granted
        /\ \A k \in Managers : pc'[k] = "down" /\ me'[k] = Fresh
    BY <1>2 DEF Reboot, meta
  <2>2. Fresh.ack = 0
    BY DEF Fresh
  <2>3. \A g : Granted(g)' = Granted(g)
    BY <2>1 DEF Granted
  <2> QED
    BY <2>1, <2>2, <2>3 DEF GrantInv, GrantedOnce
<1>3. CASE Acknowledge \/ SourceMoves \/ UNCHANGED vars
  <2>1. UNCHANGED Ledger /\ ack' \in Nat /\ pc' = pc /\ me' = me
    BY <1>3 DEF Acknowledge, SourceMoves, vars, host, meta, Ledger, GrantInv
  <2> QED
    BY <2>1, UngrantingStep
<1>4. ASSUME NEW m \in Managers, StartUp(m) \/ Loop(m) \/ End(m) PROVE GrantInv'
  BY <1>1, <1>4, MarkerGrants, BuildGrants, StartGrants DEF StartUp, Loop, End
<1> QED
  BY <1>1, <1>2, <1>3, <1>4, ManagerAssumption DEF Next, Relaunch, LaunchBeside, Runs

LEMMA GrantInitially == Init => GrantInv
<1> SUFFICES ASSUME Init PROVE GrantInv
  OBVIOUS
<1>1. /\ granted = <<>> /\ boot = 1 /\ ack = 0 /\ marker = 0
      /\ \A m \in Managers : pc[m] = "down" /\ me[m] = Fresh
  BY DEF Init
<1>2. Fresh.ack = 0
  BY DEF Fresh
<1> QED
  BY <1>1, <1>2 DEF GrantInv, GrantedOnce, Granted, Holds

\* _pending_operator_resume, update_host_boot_marker: an acknowledgement or a
\* reboot clears the retry budget of one started worker at most.
THEOREM GrantsAreUnique == Spec => []GrantedOnce
<1>1. GrantInv => GrantedOnce
  BY DEF GrantInv
<1> QED
  BY <1>1, HolderInitially, GrantInitially, HolderStep, GrantStep, PTL DEF Spec

-----------------------------------------------------------------------------
(* Natural numbers and finite orders.                                      *)

\* A set of naturals that is not empty has a least and, when it is bounded, a
\* greatest member.
LEMMA LeastOf ==
  ASSUME NEW T \in SUBSET Nat, T # {}
  PROVE  \E n \in T : \A k \in T : n <= k
<1> DEFINE Less == {ss \in Nat \X Nat : ss[1] < ss[2]}
<1>1. IsWellFoundedOn(Less, Nat)
  BY NatLessThanWellFounded, Zenon DEF OpToRel
<1> HIDE DEF Less
<1>2. PICK n \in T : \A k \in T : ~(<<k, n>> \in Less)
  BY <1>1, WFMin
<1>3. ASSUME NEW k \in T PROVE n <= k
  <2>1. ~(<<k, n>> \in Less) /\ k \in Nat /\ n \in Nat
    BY <1>2
  <2> QED
    BY <2>1 DEF Less
<1> QED
  BY <1>3

LEMMA GreatestOf ==
  ASSUME NEW bound \in Nat, NEW T \in SUBSET (0..bound), T # {}
  PROVE  \E n \in T : \A k \in T : k <= n
<1> DEFINE flipped == {k \in Nat : \E n \in T : k = bound - n}
<1>1. flipped \in SUBSET Nat /\ flipped # {}
  <2>1. PICK n \in T : TRUE
    OBVIOUS
  <2>2. bound - n \in flipped
    BY <2>1
  <2> QED
    BY <2>2
<1>2. PICK k \in flipped : \A j \in flipped : k <= j
  BY <1>1, LeastOf
<1>3. PICK n \in T : k = bound - n
  BY <1>2
<1>4. ASSUME NEW i \in T PROVE i <= n
  <2>1. bound - i \in flipped /\ i \in 0..bound /\ n \in 0..bound
    OBVIOUS
  <2> HIDE DEF flipped
  <2> QED
    BY <1>2, <1>3, <2>1
<1> QED
  BY <1>4

\* In a finite set with a strict total order every place is taken by one member.
Before(S, R, e) == {d \in S : <<d, e>> \in R}
StrictOrder(S, R) ==
  /\ \A d \in S : <<d, d>> \notin R
  /\ \A c, d, e \in S : <<c, d>> \in R /\ <<d, e>> \in R => <<c, e>> \in R
  /\ \A d, e \in S : d = e \/ <<d, e>> \in R \/ <<e, d>> \in R

LEMMA PlacesTaken ==
  ASSUME NEW S, NEW R, IsFiniteSet(S), StrictOrder(S, R)
  PROVE  /\ Cardinality(S) \in Nat
         /\ \A e \in S : Cardinality(Before(S, R, e)) \in 0..(Cardinality(S) - 1)
         /\ \A d, e \in S : <<d, e>> \in R
              => Cardinality(Before(S, R, d)) < Cardinality(Before(S, R, e))
         /\ \A d, e \in S : Cardinality(Before(S, R, d)) = Cardinality(Before(S, R, e)) => d = e
         /\ \A k \in 0..(Cardinality(S) - 1) : \E e \in S : Cardinality(Before(S, R, e)) = k
<1>1. Cardinality(S) \in Nat
  BY FS_CardinalityType
<1>2. ASSUME NEW e \in S
      PROVE  /\ IsFiniteSet(Before(S, R, e)) /\ Cardinality(Before(S, R, e)) \in Nat
             /\ Cardinality(Before(S, R, e)) <= Cardinality(S) - 1
  <2>1. e \notin Before(S, R, e)
    BY DEF Before, StrictOrder
  <2>2. Before(S, R, e) \in SUBSET (S \ {e})
    BY <2>1 DEF Before
  <2>3. IsFiniteSet(S \ {e}) /\ Cardinality(S \ {e}) = Cardinality(S) - 1
    BY FS_RemoveElement
  <2>4. IsFiniteSet(Before(S, R, e)) /\ Cardinality(Before(S, R, e)) <= Cardinality(S \ {e})
    BY <2>2, <2>3, FS_Subset
  <2> QED
    BY <2>3, <2>4, FS_CardinalityType
<1>3. ASSUME NEW d \in S, NEW e \in S, <<d, e>> \in R
      PROVE  Cardinality(Before(S, R, d)) < Cardinality(Before(S, R, e))
  <2>1. d \notin Before(S, R, d) /\ Before(S, R, d) \cup {d} \in SUBSET Before(S, R, e)
    BY <1>3 DEF Before, StrictOrder
  <2>2. Cardinality(Before(S, R, d) \cup {d}) = Cardinality(Before(S, R, d)) + 1
    BY <1>2, <2>1, FS_AddElement
  <2>3. Cardinality(Before(S, R, d) \cup {d}) <= Cardinality(Before(S, R, e))
    BY <1>2, <2>1, FS_Subset
  <2> QED
    BY <1>2, <2>2, <2>3
<1>4. ASSUME NEW d \in S, NEW e \in S, Cardinality(Before(S, R, d)) = Cardinality(Before(S, R, e))
      PROVE  d = e
  <2>1. d = e \/ <<d, e>> \in R \/ <<e, d>> \in R
    BY DEF StrictOrder
  <2> QED
    BY <2>1, <1>2, <1>3, <1>4
<1> DEFINE place == [e \in S |-> Cardinality(Before(S, R, e))]
           T == 0..(Cardinality(S) - 1)
<1>5. place \in [S -> T]
  BY <1>1, <1>2
<1>6. place \in Injection(S, T)
  BY <1>4, <1>5, Fun_IsInj
<1>7. IsFiniteSet(T) /\ Cardinality(T) = Cardinality(S)
  BY <1>1, FS_Interval
<1> HIDE DEF T
<1>8. place \in Surjection(S, T)
  BY <1>6, <1>7, FS_Injection
<1>9. \A k \in T : \E e \in S : place[e] = k
  BY <1>8, Fun_SurjectionProperties
<1>10. \A e \in S : Cardinality(Before(S, R, e)) \in 0..(Cardinality(S) - 1)
  BY <1>1, <1>2
<1> QED
  BY <1>1, <1>3, <1>4, <1>9, <1>10 DEF T

-----------------------------------------------------------------------------
(* Sets of numbered events.                                                *)

Numbered(S) ==
  /\ IsFiniteSet(S)
  /\ \A e \in S : e.number \in Nat
  /\ \A d, e \in S : d.number = e.number => d = e

LEMMA Ranks ==
  ASSUME NEW S, Numbered(S)
  PROVE  /\ Cardinality(S) \in Nat
         /\ \A e \in S : Newer(S, e) \in 0..(Cardinality(S) - 1)
         /\ \A d, e \in S : d.number > e.number => Newer(S, d) < Newer(S, e)
         /\ \A d, e \in S : Newer(S, d) = Newer(S, e) => d = e
         /\ \A k \in 0..(Cardinality(S) - 1) : \E e \in S : Newer(S, e) = k
<1> DEFINE ByAge == {ss \in S \X S : ss[1].number > ss[2].number}
<1>1. \A d, e \in S : <<d, e>> \in ByAge <=> d.number > e.number
  OBVIOUS
<1> HIDE DEF ByAge
<1>2. StrictOrder(S, ByAge)
  BY <1>1 DEF StrictOrder, Numbered
<1>3. ASSUME NEW e \in S PROVE Newer(S, e) = Cardinality(Before(S, ByAge, e))
  <2>1. {d \in S : d.number > e.number} = Before(S, ByAge, e)
    BY <1>1 DEF Before
  <2> QED
    BY <2>1 DEF Newer
<1>4. IsFiniteSet(S)
  BY DEF Numbered
<1> DEFINE place(e) == Cardinality(Before(S, ByAge, e))
<1>5. /\ Cardinality(S) \in Nat
      /\ \A e \in S : place(e) \in 0..(Cardinality(S) - 1)
      /\ \A d, e \in S : <<d, e>> \in ByAge => place(d) < place(e)
      /\ \A d, e \in S : place(d) = place(e) => d = e
      /\ \A k \in 0..(Cardinality(S) - 1) : \E e \in S : place(e) = k
  BY <1>2, <1>4, PlacesTaken
<1> HIDE DEF place
<1>6. \A e \in S : Newer(S, e) = place(e)
  BY <1>3 DEF place
<1> QED
  BY <1>1, <1>5, <1>6

LEMMA NumberedSubset ==
  ASSUME NEW S, Numbered(S), NEW K \in SUBSET S
  PROVE  Numbered(K)
BY FS_Subset DEF Numbered

LEMMA FewerAreNewer ==
  ASSUME NEW S, Numbered(S), NEW K \in SUBSET S, NEW e
  PROVE  /\ Newer(K, e) \in Nat /\ Newer(S, e) \in Nat /\ Newer(K, e) <= Newer(S, e)
         /\ (\A d \in S : d.number > e.number => d \in K) => Newer(K, e) = Newer(S, e)
<1>1. {d \in S : d.number > e.number} \in SUBSET S
  OBVIOUS
<1>2. {d \in K : d.number > e.number} \in SUBSET {d \in S : d.number > e.number}
  OBVIOUS
<1>3. (\A d \in S : d.number > e.number => d \in K)
        => {d \in K : d.number > e.number} = {d \in S : d.number > e.number}
  OBVIOUS
<1>4. IsFiniteSet(S)
  BY DEF Numbered
<1>5. IsFiniteSet({d \in S : d.number > e.number})
  BY <1>1, <1>4, FS_Subset
<1> QED
  BY <1>2, <1>3, <1>5, FS_Subset, FS_CardinalityType DEF Newer

LEMMA NewestAreFew ==
  ASSUME NEW S, Numbered(S), NEW n \in Nat
  PROVE  /\ NewestOf(S, n) \subseteq S /\ IsFiniteSet(NewestOf(S, n))
         /\ Cardinality(NewestOf(S, n)) \in Nat /\ Cardinality(NewestOf(S, n)) <= n
         /\ n <= Cardinality(S) => Cardinality(NewestOf(S, n)) = n
         /\ Cardinality(S) <= n => NewestOf(S, n) = S
<1> DEFINE K == NewestOf(S, n)
           T == 0..(n - 1)
           rank == [e \in K |-> Newer(S, e)]
<1>1. K \in SUBSET S /\ \A e \in K : Newer(S, e) < n
  BY DEF NewestOf
<1>2. Cardinality(S) \in Nat /\ \A e \in S : Newer(S, e) \in 0..(Cardinality(S) - 1)
  BY Ranks
<1>3. IsFiniteSet(K) /\ Cardinality(K) \in Nat
  BY <1>1, FS_Subset, FS_CardinalityType DEF Numbered
<1>4. IsFiniteSet(T) /\ Cardinality(T) = n
  BY FS_Interval
<1> HIDE DEF K
<1>5. rank \in [K -> T]
  BY <1>1, <1>2
<1>6. \A d, e \in K : rank[d] = rank[e] => d = e
  BY <1>1, Ranks
<1> HIDE DEF T
<1>7. rank \in Injection(K, T)
  BY <1>5, <1>6, Fun_IsInj
<1>8. Cardinality(K) <= n /\ (Cardinality(K) = n <=> rank \in Surjection(K, T))
  BY <1>4, <1>7, FS_Injection
<1>9. ASSUME n <= Cardinality(S) PROVE Cardinality(K) = n
  <2>1. ASSUME NEW k \in T PROVE \E e \in K : rank[e] = k
    <3>1. k \in 0..(Cardinality(S) - 1) /\ k < n
      BY <1>2, <1>9, <2>1 DEF T
    <3>2. PICK e \in S : Newer(S, e) = k
      BY <3>1, Ranks
    <3>3. e \in K
      BY <3>1, <3>2 DEF K, NewestOf
    <3> QED
      BY <3>2, <3>3
  <2> QED
    BY <1>5, <1>8, <2>1, Fun_IsSurj
<1>10. ASSUME Cardinality(S) <= n PROVE K = S
  BY <1>2, <1>10 DEF K, NewestOf
<1> QED
  BY <1>1, <1>3, <1>8, <1>9, <1>10 DEF K

\* The newest of a set are the newest of every part that holds them.
LEMMA NewestSuffice ==
  ASSUME NEW S, Numbered(S), NEW n \in Nat, NEW K \in SUBSET S, NewestOf(S, n) \subseteq K
  PROVE  NewestOf(K, n) = NewestOf(S, n)
<1>1. ASSUME NEW e \in NewestOf(S, n) PROVE e \in NewestOf(K, n)
  BY <1>1, FewerAreNewer DEF NewestOf
<1>2. ASSUME NEW e \in K, Newer(K, e) < n, e \notin NewestOf(S, n) PROVE FALSE
  <2>1. Newer(S, e) \in Nat /\ Newer(S, e) >= n /\ Newer(K, e) \in Nat
    BY <1>2, FewerAreNewer DEF NewestOf
  <2>2. Cardinality(NewestOf(S, n)) = n
    BY <2>1, Ranks, NewestAreFew
  <2>3. ASSUME NEW d \in NewestOf(S, n) PROVE d.number > e.number
    <3>1. d \in S /\ e \in S /\ d # e /\ Newer(S, d) < n /\ Newer(S, d) \in Nat
      BY <1>2, <2>3, FewerAreNewer DEF NewestOf
    <3>2. d.number \in Nat /\ e.number \in Nat /\ d.number # e.number
      BY <3>1 DEF Numbered
    <3>3. ~(e.number > d.number)
      BY <2>1, <3>1, Ranks
    <3> QED
      BY <3>2, <3>3
  <2>4. NewestOf(S, n) \in SUBSET {d \in K : d.number > e.number}
    BY <2>3
  <2>5. IsFiniteSet(K)
    BY NumberedSubset DEF Numbered
  <2>6. {d \in K : d.number > e.number} \in SUBSET K
    OBVIOUS
  <2>7. IsFiniteSet({d \in K : d.number > e.number})
    BY <2>5, <2>6, FS_Subset
  <2>8. Cardinality(NewestOf(S, n)) <= Newer(K, e)
    BY <2>4, <2>7, FS_Subset DEF Newer
  <2> QED
    BY <1>2, <2>1, <2>2, <2>8
<1> QED
  BY <1>1, <1>2 DEF NewestOf

-----------------------------------------------------------------------------
(* Windows: sequences of events in the order of their numbers.             *)

Ordered(w) == \A i, j \in DOMAIN w : i < j => w[i].number < w[j].number
Lists(w, K) ==
  /\ w \in [1..Cardinality(K) -> K]
  /\ Ordered(w)
  /\ \A e \in K : \E i \in DOMAIN w : w[i] = e

LEMMA OrderedRanks ==
  ASSUME NEW K, Numbered(K), NEW n \in Nat, NEW w \in [1..n -> K], Ordered(w),
         \A e \in K : \E i \in 1..n : w[i] = e
  PROVE  /\ Lists(w, K) /\ Cardinality(K) = n
         /\ \A i \in 1..n : Newer(K, w[i]) = n - i
<1>1. \A i, j \in 1..n : w[i].number < w[j].number <=> i < j
  BY DEF Ordered, Numbered
<1>2. \A i, j \in 1..n : w[i] = w[j] => i = j
  BY <1>1
<1>3. Cardinality(K) = n
  <2>1. w \in Bijection(1..n, K)
    BY <1>2, Fun_IsBij
  <2> QED
    BY <2>1, FS_CountingElements, Fun_ExistsBij
<1>4. ASSUME NEW i \in 1..n PROVE Newer(K, w[i]) = n - i
  <2> DEFINE later == (i + 1)..n
             newer == {d \in K : d.number > w[i].number}
             onto == [j \in later |-> w[j]]
  <2>1. IsFiniteSet(later) /\ Cardinality(later) = n - i
    BY FS_Interval
  <2>2. \A j \in 1..n : w[j] \in newer <=> j \in later
    BY <1>1 DEF Numbered
  <2>3. later \subseteq 1..n
    OBVIOUS
  <2> HIDE DEF newer, later
  <2>4. onto \in [later -> newer] /\ \A j \in later : onto[j] = w[j]
    BY <2>2, <2>3
  <2>5. ASSUME NEW d \in newer PROVE \E j \in later : onto[j] = d
    <3>1. PICK j \in 1..n : w[j] = d
      BY DEF newer
    <3> QED
      BY <3>1, <2>2, <2>4
  <2> HIDE DEF onto
  <2>6. onto \in Bijection(later, newer)
    BY <2>3, <2>4, <2>5, <1>2, Fun_IsBij
  <2>7. Cardinality(newer) = n - i
    BY <2>1, <2>6, FS_Bijection, Fun_ExistsBij
  <2> QED
    BY <2>7 DEF Newer, newer
<1> QED
  BY <1>3, <1>4 DEF Lists

LEMMA ListsRanks ==
  ASSUME NEW K, Numbered(K), NEW w, Lists(w, K)
  PROVE  /\ Cardinality(K) \in Nat /\ w \in Seq(K) /\ Len(w) = Cardinality(K)
         /\ DOMAIN w = 1..Len(w)
         /\ \A i \in 1..Len(w) : w[i] \in K /\ Newer(K, w[i]) = Len(w) - i
<1>1. Cardinality(K) \in Nat
  BY Ranks
<1>2. w \in [1..Cardinality(K) -> K] /\ Ordered(w) /\ \A e \in K : \E i \in DOMAIN w : w[i] = e
  BY DEF Lists
<1>3. w \in Seq(K) /\ Len(w) = Cardinality(K) /\ DOMAIN w = 1..Len(w)
  BY <1>1, <1>2
<1>4. \A i \in 1..Cardinality(K) : Newer(K, w[i]) = Cardinality(K) - i
  <2>1. \A e \in K : \E i \in 1..Cardinality(K) : w[i] = e
    BY <1>2
  <2> QED
    BY <1>1, <1>2, <2>1, OrderedRanks
<1> QED
  BY <1>1, <1>2, <1>3, <1>4

LEMMA ListedEvents ==
  ASSUME NEW E, NEW K \in SUBSET E, Numbered(K), NEW w, Lists(w, K)
  PROVE  /\ w \in Seq(E) /\ Len(w) \in Nat /\ \A i \in 1..Len(w) : w[i] \in K
         /\ \A e \in K : \E i \in 1..Len(w) : w[i] = e
         /\ \A i, j \in 1..Len(w) : i < j => w[i].number < w[j].number
<1>1. w \in Seq(K) /\ Len(w) \in Nat /\ DOMAIN w = 1..Len(w)
  BY ListsRanks
<1>2. w \in Seq(E) /\ \A i \in 1..Len(w) : w[i] \in K
  BY <1>1, SeqMonotonic, ElementOfSeq
<1>3. \A e \in K : \E i \in DOMAIN w : w[i] = e
  BY DEF Lists
<1>4. \A i, j \in DOMAIN w : i < j => w[i].number < w[j].number
  BY DEF Lists, Ordered
<1> QED
  BY <1>1, <1>2, <1>3, <1>4

\* There is one listing of a set of numbered events.
LEMMA OneListing ==
  ASSUME NEW K, Numbered(K), NEW v, NEW w, Lists(v, K), Lists(w, K)
  PROVE  v = w
<1>1. /\ v \in Seq(K) /\ w \in Seq(K) /\ Len(v) = Len(w)
      /\ \A i \in 1..Len(v) : v[i] \in K /\ w[i] \in K /\ Newer(K, v[i]) = Newer(K, w[i])
  BY ListsRanks
<1>2. \A i \in 1..Len(v) : v[i] = w[i]
  BY <1>1, Ranks
<1> QED
  BY <1>1, <1>2, SeqEqual

LEMMA NewestIsListing ==
  ASSUME NEW S, Numbered(S), NEW n \in Nat
  PROVE  Lists(Newest(S, n), NewestOf(S, n))
<1> DEFINE kept == NewestOf(S, n)
           w == Newest(S, n)
<1>1. Numbered(kept) /\ Cardinality(kept) \in Nat
  BY NewestAreFew, NumberedSubset
<1>2. w = [i \in 1..Cardinality(kept) |->
             CHOOSE e \in kept : Newer(kept, e) = Cardinality(kept) - i]
  BY DEF Newest
<1> HIDE DEF kept, w
<1>3. ASSUME NEW i \in 1..Cardinality(kept)
      PROVE  w[i] \in kept /\ Newer(kept, w[i]) = Cardinality(kept) - i
  <2>1. \E e \in kept : Newer(kept, e) = Cardinality(kept) - i
    <3>1. Cardinality(kept) - i \in 0..(Cardinality(kept) - 1)
      BY <1>1
    <3> QED
      BY <1>1, <3>1, Ranks
  <2> QED
    BY <1>2, <2>1
<1>4. w \in [1..Cardinality(kept) -> kept] /\ DOMAIN w = 1..Cardinality(kept)
  BY <1>2, <1>3
<1>5. Ordered(w)
  <2> SUFFICES ASSUME NEW i \in DOMAIN w, NEW j \in DOMAIN w, i < j
               PROVE  w[i].number < w[j].number
    BY DEF Ordered
  <2>1. Newer(kept, w[j]) < Newer(kept, w[i]) /\ w[i] \in kept /\ w[j] \in kept
    BY <1>1, <1>3, <1>4
  <2>2. /\ w[i].number \in Nat /\ w[j].number \in Nat
        /\ Newer(kept, w[i]) \in Nat /\ Newer(kept, w[j]) \in Nat
    BY <1>1, <1>3, <1>4, <2>1 DEF Numbered
  <2>3. w[i].number # w[j].number
    BY <1>1, <2>1, <2>2 DEF Numbered
  <2>4. ~(w[i].number > w[j].number)
    BY <1>1, <2>1, <2>2, Ranks
  <2> QED
    BY <2>2, <2>3, <2>4
<1>6. ASSUME NEW e \in kept PROVE \E i \in DOMAIN w : w[i] = e
  <2>1. Newer(kept, e) \in 0..(Cardinality(kept) - 1)
    BY <1>1, Ranks
  <2> DEFINE i == Cardinality(kept) - Newer(kept, e)
  <2>2. i \in 1..Cardinality(kept) /\ Newer(kept, e) = Cardinality(kept) - i
    BY <1>1, <2>1
  <2> HIDE DEF i
  <2>3. w[i] \in kept /\ Newer(kept, w[i]) = Newer(kept, e)
    BY <1>3, <2>2
  <2> QED
    BY <1>1, <1>4, <2>2, <2>3, Ranks
<1> QED
  BY <1>4, <1>5, <1>6 DEF Lists, kept, w

\* The end of a listing is the listing of the newest.
LEMMA LastOfListing ==
  ASSUME NEW K, Numbered(K), NEW w, Lists(w, K), NEW n \in Nat
  PROVE  Lists(LastOf(w, n), NewestOf(K, n))
<1>1. /\ w \in Seq(K) /\ Len(w) \in Nat /\ DOMAIN w = 1..Len(w)
      /\ \A i \in 1..Len(w) : w[i] \in K /\ Newer(K, w[i]) = Len(w) - i
      /\ Ordered(w) /\ \A e \in K : \E i \in DOMAIN w : w[i] = e
  BY ListsRanks DEF Lists
<1> DEFINE first == IF Len(w) > n THEN Len(w) - n + 1 ELSE 1
           last == LastOf(w, n)
           kept == NewestOf(K, n)
           count == Len(w) - first + 1
<1>2. /\ first \in Nat \ {0} /\ first <= Len(w) + 1 /\ count \in Nat
      /\ \A i \in 1..Len(w) : i >= first <=> Newer(K, w[i]) < n
  BY <1>1
<1>3. last = SubSeq(w, first, Len(w))
  BY DEF LastOf
<1> HIDE DEF first, last
<1>4. /\ last \in Seq(K) /\ Len(last) = count /\ DOMAIN last = 1..count
      /\ \A i \in 1..count : last[i] = w[first + i - 1]
  <2>1. \A i \in first..Len(w) : w[i] \in K
    BY <1>1, <1>2
  <2>2. first \in Int /\ Len(w) \in Int
    BY <1>1, <1>2
  <2>3. /\ last \in Seq(K)
        /\ Len(last) = IF first <= Len(w) THEN Len(w) - first + 1 ELSE 0
        /\ \A i \in 1..(Len(w) - first + 1) : last[i] = w[first + i - 1]
    BY <2>1, <2>2, <1>3, SubSeqProperties
  <2> QED
    BY <1>1, <1>2, <2>3, LenProperties
<1>5. \A i \in 1..count : first + i - 1 \in 1..Len(w) /\ first + i - 1 >= first
  BY <1>1, <1>2
<1>6. \A i \in 1..count : last[i] \in kept
  BY <1>1, <1>2, <1>4, <1>5 DEF NewestOf
<1>7. Ordered(last)
  <2> SUFFICES ASSUME NEW i \in 1..count, NEW j \in 1..count, i < j
               PROVE  last[i].number < last[j].number
    BY <1>4 DEF Ordered
  <2>1. first + i - 1 \in DOMAIN w /\ first + j - 1 \in DOMAIN w
    BY <1>1, <1>5
  <2>2. first + i - 1 < first + j - 1
    BY <1>2
  <2> HIDE DEF count
  <2> QED
    BY <1>1, <1>4, <2>1, <2>2 DEF Ordered
<1>8. ASSUME NEW e \in kept PROVE \E i \in 1..count : last[i] = e
  <2>1. PICK j \in 1..Len(w) : w[j] = e
    BY <1>1 DEF NewestOf
  <2>2. j >= first
    BY <1>2, <2>1 DEF NewestOf
  <2>3. j - first + 1 \in 1..count /\ first + (j - first + 1) - 1 = j
    BY <1>1, <1>2, <2>2
  <2> QED
    BY <1>4, <2>1, <2>3
<1>9. last \in [1..count -> kept]
  BY <1>4, <1>6
<1>10. Numbered(kept)
  BY NewestAreFew, NumberedSubset
<1> HIDE DEF count, kept
<1> QED
  BY <1>2, <1>7, <1>8, <1>9, <1>10, OrderedRanks DEF last, kept

-----------------------------------------------------------------------------
(* merge_public_events.                                                    *)

LEMMA PlacesInOrder ==
  ASSUME NEW S, NEW all \in Seq(S)
  PROVE  /\ Cardinality(Places(all)) \in Nat /\ Places(all) \subseteq 1..Len(all)
         /\ \A k \in 1..Cardinality(Places(all)) : Place(all, k) \in Places(all)
         /\ \A k, l \in 1..Cardinality(Places(all)) : k < l => Place(all, k) < Place(all, l)
         /\ \A p \in Places(all) : \E k \in 1..Cardinality(Places(all)) : Place(all, k) = p
<1> DEFINE P == Places(all)
           R == {ss \in P \X P : ss[1] < ss[2]}
           count == Cardinality(P)
<1>1. P \in SUBSET (1..Len(all)) /\ Len(all) \in Nat
  BY LenProperties DEF Places
<1>2. IsFiniteSet(P)
  <2>1. IsFiniteSet(1..Len(all))
    BY <1>1, FS_Interval
  <2> QED
    BY <1>1, <2>1, FS_Subset
<1> HIDE DEF P
<1>3. \A i, j \in P : <<i, j>> \in R <=> i < j
  OBVIOUS
<1> HIDE DEF R
<1>4. StrictOrder(P, R)
  BY <1>1, <1>3 DEF StrictOrder
<1> DEFINE before(i) == {j \in P : j < i}
<1>5. \A i \in P : Before(P, R, i) = before(i)
  BY <1>3 DEF Before
<1> HIDE DEF before
<1>6. /\ count \in Nat
      /\ \A i \in P : Cardinality(before(i)) \in 0..(count - 1)
      /\ \A i, j \in P : <<i, j>> \in R => Cardinality(before(i)) < Cardinality(before(j))
      /\ \A i, j \in P : Cardinality(before(i)) = Cardinality(before(j)) => i = j
      /\ \A k \in 0..(count - 1) : \E i \in P : Cardinality(before(i)) = k
  <2> HIDE DEF count
  <2>1. /\ count \in Nat
        /\ \A i \in P : Cardinality(Before(P, R, i)) \in 0..(count - 1)
        /\ \A i, j \in P : <<i, j>> \in R
             => Cardinality(Before(P, R, i)) < Cardinality(Before(P, R, j))
        /\ \A i, j \in P : Cardinality(Before(P, R, i)) = Cardinality(Before(P, R, j)) => i = j
        /\ \A k \in 0..(count - 1) : \E i \in P : Cardinality(Before(P, R, i)) = k
    BY <1>2, <1>4, PlacesTaken DEF count
  <2> QED
    BY <2>1, <1>5
<1> HIDE DEF count
<1>7. ASSUME NEW k \in 1..count
      PROVE  Place(all, k) \in P /\ Cardinality(before(Place(all, k))) = k - 1
  <2>1. k - 1 \in 0..(count - 1)
    BY <1>6
  <2>2. \E i \in P : Cardinality(before(i)) = k - 1
    BY <1>6, <2>1
  <2>3. Place(all, k) = CHOOSE i \in P : Cardinality(before(i)) = k - 1
    BY DEF Place, P, before
  <2> QED
    BY <2>2, <2>3
<1>8. ASSUME NEW k \in 1..count, NEW l \in 1..count, k < l
      PROVE  Place(all, k) < Place(all, l)
  <2> DEFINE p == Place(all, k)
             q == Place(all, l)
  <2>1. /\ p \in P /\ q \in P
        /\ Cardinality(before(p)) = k - 1 /\ Cardinality(before(q)) = l - 1
    BY <1>7
  <2> HIDE DEF p, q
  <2>2. p \in Nat /\ q \in Nat
    BY <1>1, <2>1
  <2>3. ~(q < p)
    <3>1. <<q, p>> \in R => Cardinality(before(q)) < Cardinality(before(p))
      BY <1>6, <2>1
    <3>2. ~(l - 1 < k - 1)
      BY <1>6, <1>8
    <3> QED
      BY <1>3, <2>1, <3>1, <3>2
  <2>4. p # q
    BY <1>8, <2>1
  <2> QED
    BY <2>2, <2>3, <2>4 DEF p, q
<1>9. ASSUME NEW p \in P PROVE \E k \in 1..count : Place(all, k) = p
  <2> DEFINE k == Cardinality(before(p)) + 1
  <2>1. k \in 1..count /\ Cardinality(before(p)) = k - 1
    BY <1>6
  <2> HIDE DEF k
  <2> QED
    BY <1>6, <1>7, <2>1
<1> QED
  BY <1>1, <1>6, <1>7, <1>8, <1>9 DEF P, count

\* What stands last under an id, and where it stands first.
LEMMA PlacesOfId ==
  ASSUME NEW S, NEW all \in Seq(S), NEW i \in DOMAIN all
  PROVE  /\ LastWith(all, all[i].id) \in DOMAIN all
         /\ all[LastWith(all, all[i].id)].id = all[i].id
         /\ \E j \in Places(all) : all[j].id = all[i].id
<1> DEFINE under == {j \in 1..Len(all) : all[j].id = all[i].id}
<1>1. DOMAIN all = 1..Len(all) /\ Len(all) \in Nat
  BY LenProperties
<1>2. under \in SUBSET (0..Len(all)) /\ i \in under
  BY <1>1
<1>3. PICK last \in under : \A k \in under : k <= last
  BY <1>1, <1>2, GreatestOf
<1>4. last \in DOMAIN all /\ all[last].id = all[i].id
  BY <1>1, <1>3
<1>5. \A j \in (last + 1)..Len(all) : all[j].id # all[i].id
  <2> SUFFICES ASSUME NEW j \in (last + 1)..Len(all), all[j].id = all[i].id PROVE FALSE
    OBVIOUS
  <2>1. last \in Nat
    BY <1>1, <1>4
  <2>2. j \in under /\ j > last
    BY <1>1, <2>1
  <2> QED
    BY <1>3, <2>1, <2>2
<1>6. LastWith(all, all[i].id) \in DOMAIN all /\ all[LastWith(all, all[i].id)].id = all[i].id
  BY <1>4, <1>5 DEF LastWith
<1>7. under \in SUBSET Nat
  BY <1>1
<1>8. PICK first \in under : \A k \in under : first <= k
  BY <1>2, <1>7, LeastOf
<1>9. first \in DOMAIN all /\ all[first].id = all[i].id
  BY <1>1, <1>8
<1>10. \A j \in 1..(first - 1) : all[j].id # all[first].id
  <2> SUFFICES ASSUME NEW j \in 1..(first - 1), all[j].id = all[first].id PROVE FALSE
    OBVIOUS
  <2>1. first \in 1..Len(all)
    BY <1>1, <1>9
  <2>2. j \in under /\ j < first
    BY <1>1, <1>9, <2>1
  <2> QED
    BY <1>8, <2>1, <2>2
<1>11. first \in Places(all)
  BY <1>9, <1>10 DEF Places, FirstPlace
<1> QED
  BY <1>6, <1>9, <1>11

MergedWhole(all) ==
  [k \in 1..Cardinality(Places(all)) |-> all[LastWith(all, all[Place(all, k)].id)]]

LEMMA MergedWholeTyped ==
  ASSUME NEW S, NEW all \in Seq(S)
  PROVE  /\ MergedWhole(all) \in Seq(S)
         /\ Len(MergedWhole(all)) = Cardinality(Places(all))
<1>1. /\ Cardinality(Places(all)) \in Nat
      /\ \A k \in 1..Cardinality(Places(all)) : Place(all, k) \in DOMAIN all
  BY PlacesInOrder DEF Places
<1>2. \A k \in 1..Cardinality(Places(all)) : all[LastWith(all, all[Place(all, k)].id)] \in S
  BY <1>1, PlacesOfId
<1>3. MergedWhole(all) \in [1..Cardinality(Places(all)) -> S]
  BY <1>2 DEF MergedWhole
<1> QED
  BY <1>1, <1>3, SeqDef

\* The window holds what was there, and no more than the limit.
LEMMA MergedTyped ==
  ASSUME Limit \in Nat, NEW S, NEW all \in Seq(S)
  PROVE  Merged(all) \in Seq(S) /\ Len(Merged(all)) <= Limit
<1> DEFINE whole == MergedWhole(all)
           first == IF Len(whole) > Limit THEN Len(whole) - Limit + 1 ELSE 1
<1>1. whole \in Seq(S) /\ Len(whole) \in Nat /\ Merged(all) = SubSeq(whole, first, Len(whole))
  BY MergedWholeTyped, LenProperties DEF Merged, MergedWhole, LastOf
<1> HIDE DEF whole
<1>2. first \in Int /\ first >= 1 /\ Len(whole) - first + 1 <= Limit
  BY <1>1
<1> HIDE DEF first
<1>3. \A i \in first..Len(whole) : whole[i] \in S
  BY <1>1, <1>2, ElementOfSeq
<1> QED
  BY <1>1, <1>2, <1>3, SubSeqProperties

\* Two windows are merged into the listing of the newest in them, if what the
\* second adds is newer than the first and every id has one event.
LEMMA MergedIsListing ==
  ASSUME Limit \in Nat,
         NEW E, Numbered(E), \A d, e \in E : d.id = e.id => d = e,
         NEW old \in SUBSET E, NEW new \in SUBSET E,
         \A e \in new \ old : \A d \in old : d.number < e.number,
         NEW v, NEW w, Lists(v, old), Lists(w, new)
  PROVE  Lists(Merged(v \o w), NewestOf(old \cup new, Limit))
<1> DEFINE all == v \o w
           whole == MergedWhole(all)
           both == old \cup new
           count == Cardinality(Places(all))
<1>1. Numbered(old) /\ Numbered(new) /\ Numbered(both)
  BY NumberedSubset
<1>2. /\ v \in Seq(E) /\ Len(v) \in Nat /\ \A i \in 1..Len(v) : v[i] \in old
      /\ \A e \in old : \E i \in 1..Len(v) : v[i] = e
      /\ \A i, j \in 1..Len(v) : i < j => v[i].number < v[j].number
  BY <1>1, ListedEvents
<1>3. /\ w \in Seq(E) /\ Len(w) \in Nat /\ \A i \in 1..Len(w) : w[i] \in new
      /\ \A e \in new : \E i \in 1..Len(w) : w[i] = e
      /\ \A i, j \in 1..Len(w) : i < j => w[i].number < w[j].number
  BY <1>1, ListedEvents
<1>4. /\ all \in Seq(E) /\ Len(all) = Len(v) + Len(w) /\ DOMAIN all = 1..Len(all)
      /\ \A i \in 1..Len(v) : all[i] = v[i]
      /\ \A i \in 1..Len(all) : i > Len(v) => all[i] = w[i - Len(v)]
  BY <1>2, <1>3, ConcatProperties, LenProperties
<1> HIDE DEF all
<1>5. ASSUME NEW i \in 1..Len(all) PROVE all[i] \in both /\ all[i] \in E
  <2>1. CASE i <= Len(v)
    BY <1>2, <1>4, <2>1
  <2>2. CASE i > Len(v)
    <3>1. i - Len(v) \in 1..Len(w)
      BY <1>2, <1>3, <1>4, <2>2
    <3> QED
      BY <1>3, <1>4, <2>2, <3>1
  <2> QED
    BY <1>2, <1>4, <2>1, <2>2
<1>6. ASSUME NEW e \in both PROVE \E i \in 1..Len(all) : all[i] = e
  <2>1. CASE e \in old
    BY <1>2, <1>3, <1>4, <2>1
  <2>2. CASE e \in new
    <3>1. PICK i \in 1..Len(w) : w[i] = e
      BY <1>3, <2>2
    <3>2. i + Len(v) \in 1..Len(all) /\ i + Len(v) > Len(v) /\ (i + Len(v)) - Len(v) = i
      BY <1>2, <1>3, <1>4
    <3> QED
      BY <1>4, <3>1, <3>2
  <2> QED
    BY <2>1, <2>2
<1>7. /\ count \in Nat /\ Places(all) \subseteq 1..Len(all)
      /\ \A k \in 1..count : Place(all, k) \in Places(all)
      /\ \A k, l \in 1..count : k < l => Place(all, k) < Place(all, l)
      /\ \A p \in Places(all) : \E k \in 1..count : Place(all, k) = p
  BY <1>4, PlacesInOrder
<1>8. ASSUME NEW p \in Places(all), NEW q \in Places(all), p < q
      PROVE  all[p].number < all[q].number
  <2>1. p \in 1..Len(all) /\ q \in 1..Len(all) /\ Len(all) \in Nat
    BY <1>2, <1>3, <1>4, <1>7
  <2>2. CASE q <= Len(v)
    <3>1. p \in 1..Len(v) /\ q \in 1..Len(v)
      BY <1>2, <1>8, <2>1, <2>2
    <3>2. all[p] = v[p] /\ all[q] = v[q]
      BY <1>4, <3>1
    <3> QED
      BY <1>2, <1>8, <3>1, <3>2
  <2>3. CASE p > Len(v)
    <3>1. p - Len(v) \in 1..Len(w) /\ q - Len(v) \in 1..Len(w) /\ p - Len(v) < q - Len(v)
      BY <1>2, <1>3, <1>4, <1>8, <2>1, <2>3
    <3>2. all[p] = w[p - Len(v)] /\ all[q] = w[q - Len(v)]
      BY <1>2, <1>4, <1>8, <2>1, <2>3
    <3> QED
      BY <1>3, <3>1, <3>2
  <2>4. CASE p <= Len(v) /\ q > Len(v)
    <3>1. all[p] \in old /\ q - Len(v) \in 1..Len(w) /\ all[q] = w[q - Len(v)]
      BY <1>2, <1>3, <1>4, <2>1, <2>4
    <3>2. all[q] \in new
      BY <1>3, <3>1
    <3>3. all[q] \notin old
      <4>1. ASSUME all[q] \in old PROVE FALSE
        <5>1. PICK i \in 1..Len(v) : v[i] = all[q]
          BY <1>2, <4>1
        <5>2. i \in 1..(q - 1) /\ all[i] = all[q]
          BY <1>2, <1>4, <2>1, <2>4, <5>1
        <5> QED
          BY <5>2 DEF Places, FirstPlace
      <4> QED
        BY <4>1
    <3> QED
      BY <3>1, <3>2, <3>3
  <2> QED
    BY <1>2, <2>1, <2>2, <2>3, <2>4
<1>9. whole \in Seq(E) /\ Len(whole) = count
  BY <1>4, MergedWholeTyped
<1>10. ASSUME NEW k \in 1..count PROVE whole[k] = all[Place(all, k)]
  <2> DEFINE p == Place(all, k)
             l == LastWith(all, all[p].id)
  <2>1. whole[k] = all[l]
    BY DEF MergedWhole
  <2>2. p \in DOMAIN all
    BY <1>4, <1>7
  <2> HIDE DEF p
  <2>3. l \in DOMAIN all /\ all[l].id = all[p].id
    BY <1>4, <2>2, PlacesOfId
  <2>4. all[l] = all[p]
    BY <1>4, <1>5, <2>2, <2>3
  <2> QED
    BY <2>1, <2>4 DEF p
<1>11. whole \in [1..count -> both]
  <2>1. whole \in [1..count -> E]
    BY <1>9, LenProperties
  <2>2. \A k \in 1..count : whole[k] \in both
    BY <1>5, <1>7, <1>10
  <2> HIDE DEF whole, count, both
  <2> QED
    BY <2>1, <2>2
<1>12. Ordered(whole)
  <2> SUFFICES ASSUME NEW k \in 1..count, NEW l \in 1..count, k < l
               PROVE  whole[k].number < whole[l].number
    BY <1>11 DEF Ordered
  <2> QED
    BY <1>7, <1>8, <1>10
<1>13. ASSUME NEW e \in both PROVE \E k \in 1..count : whole[k] = e
  <2>1. PICK i \in DOMAIN all : all[i] = e
    BY <1>4, <1>6
  <2>2. PICK j \in Places(all) : all[j].id = all[i].id
    BY <1>4, PlacesOfId
  <2>3. all[j] = e
    BY <1>4, <1>5, <1>7, <2>1, <2>2
  <2>4. PICK k \in 1..count : Place(all, k) = j
    BY <1>7
  <2> QED
    BY <1>10, <2>3, <2>4
<1>14. Lists(whole, both)
  <2> HIDE DEF whole, both, count
  <2> QED
    BY <1>1, <1>7, <1>11, <1>12, <1>13, OrderedRanks
<1>15. Merged(all) = LastOf(whole, Limit)
  BY DEF Merged, MergedWhole
<1> HIDE DEF whole, both
<1> QED
  BY <1>1, <1>14, <1>15, LastOfListing DEF all, both

-----------------------------------------------------------------------------
(* What there is beside the events.                                        *)

Pcs == {"down", "launched", "leaving"} \cup Starting \cup Running
MindInv(m) ==
  /\ pc[m] \in Pcs
  /\ me[m].job \in JobRecord
  /\ me[m].ending \in {"no", "fail", "stop"}
  /\ me[m].heard \in [Streams -> SourceValues] /\ me[m].todo \subseteq Streams
StateInv ==
  /\ lock \in Managers \cup {None}
  /\ row \in JobRecord
  /\ source \in [Streams -> SourceValues]
  /\ streamRow \in [Streams -> StreamStates \cup {"absent"}]
  /\ latest \in [Streams -> StreamStates \cup {"absent"}]
  /\ left \in [Trouble -> Nat]
TypeInv == StateInv /\ \A m \in Managers : MindInv(m)

LEMMA ResolvedTyped ==
  ASSUME NEW s \in Streams, NEW value
  PROVE  Resolved(KindOf[s], value) \in StreamStates
<1>1. /\ AgentState(value) \in StreamStates /\ AuditState(value) \in StreamStates
      /\ ProfileState(value) \in StreamStates
  BY DEF AgentState, AuditState, ProfileState, StreamStates
<1>2. KindOf[s] \in {"agent", "constraint_audit", "worker_profile"}
  BY ManagerAssumption
<1> QED
  BY <1>1, <1>2 DEF Resolved

LEMMA ValuesTyped ==
  ASSUME NEW s \in Streams
  PROVE  ValuesOf(KindOf[s]) \subseteq SourceValues
<1>1. KindOf[s] \in {"agent", "constraint_audit", "worker_profile"}
  BY ManagerAssumption
<1> QED
  BY <1>1 DEF ValuesOf, SourceValues

LEMMA TickedTyped ==
  ASSUME NEW job \in JobRecord, NEW next \in Ticked(job)
  PROVE  next \in JobRecord
<1>1. MaxRestarts \in Nat /\ job.state \in JobStates /\ job.count \in 0..MaxRestarts
  BY ManagerAssumption DEF JobRecord
<1>2. \/ next = job
      \/ next.count \in {0, job.count} /\ next = [state |-> "RUNNING", count |-> next.count]
      \/ job.count < MaxRestarts /\ next = [state |-> "RETRYING", count |-> job.count + 1]
      \/ next = [job EXCEPT !.state = "ESCALATED"]
  BY DEF Ticked
<1>3. {"RUNNING", "RETRYING", "ESCALATED"} \subseteq JobStates
  BY DEF JobStates
<1> QED
  BY <1>1, <1>2, <1>3 DEF JobRecord

LEMMA SpentTyped ==
  ASSUME NEW trouble \in Trouble, left \in [Trouble -> Nat], Spend(trouble)
  PROVE  left' \in [Trouble -> Nat]
BY DEF Spend

LEMMA FreshTyped ==
  /\ Fresh.job \in JobRecord /\ Fresh.ending \in {"no", "fail", "stop"}
  /\ Fresh.heard \in [Streams -> SourceValues] /\ Fresh.todo \subseteq Streams
BY ManagerAssumption DEF Fresh, JobRecord, JobStates, SourceValues, AgentValues

\* A process keeps its job, its sources and its list.
LEMMA Kept ==
  ASSUME TypeInv, NEW m \in Managers, HolderInv,
         \A k \in Managers \ {m} : pc'[k] = pc[k] /\ me'[k] = me[k],
         MindInv(m)', StateInv'
  PROVE  TypeInv'
BY DEF TypeInv, MindInv

LEMMA TypeOfSteps ==
  ASSUME HolderInv, TypeInv, NEW m \in Managers,
         \/ (Launched(m) /\ left' \in [Trouble -> Nat]) \/ StartUp(m) \/ Loop(m) \/ PublishFails(m)
         \/ End(m) \/ Release(m)
  PROVE  TypeInv'
<1> USE FreshFields DEF HolderInv, Shape, Goes, Pcs, Starting, Running, Fallible
<1>1. StateInv /\ MindInv(m)
  BY DEF TypeInv
<1>2. "ends" \in Trouble /\ "writes" \in Trouble /\ "jobs" \in Trouble
  BY DEF Trouble
<1>3. ASSUME Launched(m), left' \in [Trouble -> Nat] PROVE TypeInv'
  <2>1. \A k \in Managers \ {m} : pc'[k] = pc[k] /\ me'[k] = me[k]
    BY <1>3 DEF Launched
  <2>2. MindInv(m)'
    BY <1>3, FreshTyped DEF Launched, MindInv
  <2>3. StateInv'
    BY <1>1, <1>3 DEF Launched, StateInv, host, rows, public
  <2> QED
    BY <2>1, <2>2, <2>3, Kept
<1>4. ASSUME Acquire(m) \/ Consume(m) \/ NothingToConsume(m) \/ AnnounceResume(m) \/ UpdateMarker(m)
      PROVE  TypeInv'
  <2>1. \A k \in Managers \ {m} : pc'[k] = pc[k] /\ me'[k] = me[k]
    BY <1>4 DEF Acquire, Consume, NothingToConsume, AnnounceResume, UpdateMarker
  <2>2. MindInv(m)'
    BY <1>1, <1>4 DEF Acquire, Consume, NothingToConsume, AnnounceResume, UpdateMarker, MindInv
  <2>3. StateInv'
    BY <1>1, <1>4 DEF Acquire, Consume, NothingToConsume, AnnounceResume, UpdateMarker,
       StateInv, host, rows, public
  <2> QED
    BY <2>1, <2>2, <2>3, Kept
<1>5. ASSUME Refused(m) \/ Release(m) PROVE TypeInv'
  <2>1. \A k \in Managers \ {m} : pc'[k] = pc[k] /\ me'[k] = me[k]
    BY <1>5 DEF Refused, Release
  <2>2. MindInv(m)'
    BY <1>1, <1>5, FreshTyped DEF Refused, Release, MindInv
  <2>3. StateInv'
    BY <1>1, <1>5 DEF Refused, Release, StateInv, host, rows, public
  <2> QED
    BY <2>1, <2>2, <2>3, Kept
<1>6. ASSUME Build(m) PROVE TypeInv'
  <2>1. \A k \in Managers \ {m} : pc'[k] = pc[k] /\ me'[k] = me[k]
    BY <1>6 DEF Build
  <2>2. /\ pc'[m] = "built" /\ me'[m].ending = me[m].ending /\ me'[m].heard = me[m].heard
        /\ me'[m].todo = me[m].todo
    BY <1>6 DEF Build
  <2>3. row.count \in 0..MaxRestarts /\ 0 \in 0..MaxRestarts
    BY <1>1, ManagerAssumption DEF StateInv, JobRecord
  <2>4. \E count \in 0..MaxRestarts : me'[m].job = [me[m].job EXCEPT !.count = count]
    <3>1. me[m].job \in JobRecord
      BY <1>1 DEF MindInv
    <3> DEFINE count == IF me[m].changed \/ ResumePending(m) THEN 0 ELSE row.count
    <3>2. count \in 0..MaxRestarts
      BY <2>3
    <3>3. me'[m].job = [me[m].job EXCEPT !.count = count]
      BY <1>6 DEF Build
    <3> QED
      BY <3>2, <3>3
  <2>5. me'[m].job \in JobRecord
    BY <1>1, <2>4 DEF MindInv, JobRecord
  <2>6. MindInv(m)'
    BY <1>1, <2>2, <2>5 DEF MindInv
  <2>7. StateInv'
    BY <1>1, <1>6 DEF Build, StateInv, host, rows, public
  <2> QED
    BY <2>1, <2>6, <2>7, Kept
<1>7. ASSUME StartAll(m) \/ Fail(m) \/ Interrupt(m) PROVE TypeInv'
  <2>1. \A k \in Managers \ {m} : pc'[k] = pc[k] /\ me'[k] = me[k]
    BY <1>7 DEF StartAll, Fail, Interrupt
  <2>2. /\ pc'[m] \in Pcs /\ me'[m].heard = me[m].heard /\ me'[m].todo = me[m].todo
        /\ me'[m].ending \in {me[m].ending, "fail", "stop"}
    BY <1>7 DEF StartAll, Fail, Interrupt
  <2>3. \E state \in JobStates : me'[m].job \in {me[m].job, [me[m].job EXCEPT !.state = state]}
    <3>1. "RUNNING" \in JobStates /\ "CANCELLED" \in JobStates
      BY DEF JobStates
    <3>2. CASE StartAll(m)
      BY <3>1, <3>2 DEF StartAll
    <3>3. CASE Interrupt(m)
      BY <3>1, <3>3 DEF Interrupt
    <3>4. CASE Fail(m)
      BY <3>1, <3>4 DEF Fail
    <3> QED
      BY <1>7, <3>2, <3>3, <3>4
  <2>4. me'[m].job \in JobRecord
    BY <1>1, <2>3 DEF MindInv, JobRecord
  <2>5. MindInv(m)'
    BY <1>1, <2>2, <2>4 DEF MindInv
  <2>6. left' \in [Trouble -> Nat]
    BY <1>1, <1>2, <1>7, SpentTyped DEF StartAll, Fail, Interrupt, StateInv
  <2>7. StateInv'
    BY <1>1, <1>7, <2>6 DEF StartAll, Fail, Interrupt, StateInv, host, rows, public
  <2> QED
    BY <2>1, <2>5, <2>7, Kept
<1>8. ASSUME Tick(m) PROVE TypeInv'
  <2>1. \A k \in Managers \ {m} : pc'[k] = pc[k] /\ me'[k] = me[k]
    BY <1>8 DEF Tick, Heard
  <2>2. pc'[m] = "sync"
    BY <1>8 DEF Tick
  <2>3. PICK job \in Ticked(me[m].job) :
          /\ me'[m].job = job /\ me'[m].heard = source /\ me'[m].todo = Streams
          /\ me'[m].ending = me[m].ending /\ (left' = left \/ Spend("jobs"))
    <3>1. PICK job \in Ticked(me[m].job) :
            /\ \E pending : Heard(m, job, pending)
            /\ left' = left \/ Spend("jobs")
      BY <1>8 DEF Tick
    <3> QED
      BY <3>1 DEF Heard
  <2>4. me'[m].job \in JobRecord
    BY <1>1, <2>3, TickedTyped DEF MindInv
  <2>5. MindInv(m)'
    BY <1>1, <2>2, <2>3, <2>4 DEF MindInv, StateInv
  <2>6. left' \in [Trouble -> Nat]
    BY <1>1, <1>2, <2>3, SpentTyped DEF StateInv
  <2>7. StateInv'
    BY <1>1, <1>8, <2>6 DEF Tick, StateInv, host, rows, public
  <2> QED
    BY <2>1, <2>5, <2>7, Kept
<1>9. ASSUME SyncStream(m) PROVE TypeInv'
  <2>1. \A k \in Managers \ {m} : pc'[k] = pc[k] /\ me'[k] = me[k]
    BY <1>9 DEF SyncStream
  <2>2. /\ pc'[m] \in Pcs /\ me'[m].job = me[m].job /\ me'[m].ending = me[m].ending
        /\ me'[m].heard = me[m].heard /\ me'[m].todo \subseteq me[m].todo
    BY <1>9 DEF SyncStream
  <2>3. MindInv(m)'
    BY <1>1, <2>2 DEF MindInv
  <2>4. PICK s \in me[m].todo :
          streamRow' \in {streamRow,
                          [streamRow EXCEPT ![s] = Resolved(KindOf[s], me[m].heard[s])]}
    BY <1>9 DEF SyncStream
  <2>5. s \in Streams
    BY <1>1 DEF MindInv
  <2>6. streamRow' \in [Streams -> StreamStates \cup {"absent"}]
    BY <1>1, <2>4, <2>5, ResolvedTyped DEF StateInv
  <2>7. StateInv'
    BY <1>1, <1>9, <2>6 DEF SyncStream, StateInv, host, rows, public
  <2> QED
    BY <2>1, <2>3, <2>7, Kept
<1>10. ASSUME TellStream(m) \/ PersistEvent(m) PROVE TypeInv'
  <2>1. \A k \in Managers \ {m} : pc'[k] = pc[k] /\ me'[k] = me[k]
    BY <1>10 DEF TellStream, PersistEvent
  <2>2. MindInv(m)'
    BY <1>1, <1>10 DEF TellStream, PersistEvent, MindInv
  <2>3. StateInv'
    BY <1>1, <1>10 DEF TellStream, PersistEvent, StateInv, host, rows, public
  <2> QED
    BY <2>1, <2>2, <2>3, Kept
<1>11. ASSUME PersistRow(m) \/ Wake(m) \/ PublishEvents(m) PROVE TypeInv'
  <2>1. \A k \in Managers \ {m} : pc'[k] = pc[k] /\ me'[k] = me[k]
    BY <1>11 DEF PersistRow, Wake, PublishEvents
  <2>2. MindInv(m)'
    BY <1>1, <1>11 DEF PersistRow, Wake, PublishEvents, AfterPublish, MindInv
  <2>3. StateInv'
    BY <1>1, <1>11 DEF PersistRow, Wake, PublishEvents, StateInv, MindInv, host, rows, public
  <2> QED
    BY <2>1, <2>2, <2>3, Kept
<1>12. ASSUME PublishLatest(m) \/ PublishFails(m) PROVE TypeInv'
  <2>1. \A k \in Managers \ {m} : pc'[k] = pc[k] /\ me'[k] = me[k]
    BY <1>12 DEF PublishLatest, PublishFails, WindowMerged
  <2>2. MindInv(m)'
    BY <1>1, <1>12 DEF PublishLatest, PublishFails, WindowMerged, AfterPublish, MindInv
  <2>3. latest' \in [Streams -> StreamStates \cup {"absent"}]
    <3>1. CASE PublishLatest(m)
      <4>1. \A s \in Streams : (IF me[m].ending = "no" THEN streamRow[s] ELSE "absent")
                                 \in StreamStates \cup {"absent"}
        BY <1>1 DEF StateInv
      <4> QED
        BY <3>1, <4>1 DEF PublishLatest
    <3>2. CASE PublishFails(m)
      BY <1>1, <3>2 DEF PublishFails, public, StateInv
    <3> QED
      BY <1>12, <3>1, <3>2
  <2>4. left' \in [Trouble -> Nat]
    BY <1>1, <1>2, <1>12, SpentTyped DEF PublishLatest, PublishFails, StateInv
  <2>5. StateInv'
    BY <1>1, <1>12, <2>3, <2>4 DEF PublishLatest, PublishFails, StateInv, host, rows, public
  <2> QED
    BY <2>1, <2>2, <2>5, Kept
<1>13. ASSUME FailEarly(m) PROVE TypeInv'
  <2>1. \A k \in Managers \ {m} : pc'[k] = pc[k] /\ me'[k] = me[k]
    BY <1>13 DEF FailEarly
  <2>2. MindInv(m)'
    BY <1>1, <1>13 DEF FailEarly, MindInv
  <2>3. left' \in [Trouble -> Nat]
    BY <1>1, <1>2, <1>13, SpentTyped DEF FailEarly, StateInv
  <2>4. StateInv'
    BY <1>1, <1>13, <2>3 DEF FailEarly, StateInv, host, rows, public
  <2> QED
    BY <2>1, <2>2, <2>4, Kept
<1>14. ASSUME Crash(m) PROVE TypeInv'
  <2>1. \A k \in Managers \ {m} : pc'[k] = pc[k] /\ me'[k] = me[k]
    BY <1>14 DEF Crash
  <2>2. MindInv(m)'
    BY <1>14, FreshTyped DEF Crash, MindInv
  <2>3. left' \in [Trouble -> Nat]
    BY <1>1, <1>2, <1>14, SpentTyped DEF Crash, StateInv
  <2>4. StateInv'
    BY <1>1, <1>14, <2>3 DEF Crash, StateInv, host, rows, public
  <2> QED
    BY <2>1, <2>2, <2>4, Kept
<1> HIDE DEF HolderInv, Shape, Goes
<1> QED
  BY <1>3, <1>4, <1>5, <1>6, <1>7, <1>8, <1>9, <1>10, <1>11, <1>12, <1>13, <1>14
     DEF StartUp, Loop, End

LEMMA TypeStep == HolderInv /\ TypeInv /\ [Next]_vars => TypeInv'
<1> SUFFICES ASSUME HolderInv, TypeInv, [Next]_vars PROVE TypeInv'
  OBVIOUS
<1>1. ASSUME NEW m \in Managers, Launched(m), left' = left \/ Spend("overlaps")
      PROVE  TypeInv'
  <2>1. left' \in [Trouble -> Nat]
    BY <1>1, SpentTyped DEF TypeInv, StateInv, Trouble
  <2> QED
    BY <1>1, <2>1, TypeOfSteps
<1>2. CASE Reboot
  <2>1. left' \in [Trouble -> Nat]
    BY <1>2, SpentTyped DEF Reboot, TypeInv, StateInv, Trouble
  <2> QED
    BY <1>2, <2>1, FreshTyped DEF Reboot, TypeInv, StateInv, MindInv, Pcs, rows, public
<1>3. CASE Acknowledge
  <2>1. left' \in [Trouble -> Nat]
    BY <1>3, SpentTyped DEF Acknowledge, TypeInv, StateInv, Trouble
  <2> QED
    BY <1>3, <2>1 DEF Acknowledge, TypeInv, StateInv, MindInv, rows, public
<1>4. CASE SourceMoves
  <2>1. left' \in [Trouble -> Nat]
    BY <1>4, SpentTyped DEF SourceMoves, TypeInv, StateInv, Trouble
  <2>2. source' \in [Streams -> SourceValues]
    <3>1. PICK s \in Streams :
            \E value \in ValuesOf(KindOf[s]) : source' = [source EXCEPT ![s] = value]
      BY <1>4 DEF SourceMoves
    <3>2. ValuesOf(KindOf[s]) \subseteq SourceValues
      BY ValuesTyped
    <3> QED
      BY <3>1, <3>2 DEF TypeInv, StateInv
  <2> QED
    BY <1>4, <2>1, <2>2 DEF SourceMoves, TypeInv, StateInv, MindInv, rows, public
<1>5. CASE UNCHANGED vars
  BY <1>5 DEF vars, host, rows, public, TypeInv, StateInv, MindInv
<1>6. ASSUME NEW m \in Managers, StartUp(m) \/ Loop(m) \/ PublishFails(m) \/ End(m) \/ Release(m)
      PROVE  TypeInv'
  BY <1>6, TypeOfSteps
<1> QED
  BY <1>1, <1>2, <1>3, <1>4, <1>5, <1>6, ManagerAssumption
     DEF Next, Relaunch, LaunchBeside, Runs

LEMMA TypeInitially == Init => TypeInv
<1> SUFFICES ASSUME Init PROVE TypeInv
  OBVIOUS
<1>1. row \in JobRecord
  BY ManagerAssumption DEF Init, JobRecord, JobStates
<1>2. /\ source \in [Streams -> SourceValues] /\ streamRow \in [Streams -> StreamStates \cup {"absent"}]
      /\ latest \in [Streams -> StreamStates \cup {"absent"}]
  BY DEF Init, SourceValues, AgentValues
<1>3. left \in [Trouble -> Nat]
  BY ManagerAssumption DEF Init
<1>4. \A m \in Managers : MindInv(m)
  BY FreshTyped DEF Init, MindInv, Pcs
<1> QED
  BY <1>1, <1>2, <1>3, <1>4 DEF Init, TypeInv, StateInv

-----------------------------------------------------------------------------
(* The events there are, in the table and on their way to it.              *)

Abouts == Streams \cup {"job", "past"}
Events == {Event(a, state, n) : a \in Abouts, state \in JobStates \cup StreamStates, n \in Nat}
JobEvents == {Event("job", state, n) : state \in JobStates, n \in Nat}
StreamEvents == {Event(s, state, n) : s \in Streams, state \in StreamStates, n \in Nat}

LEMMA EventFields ==
  /\ \A a, state, n : LET e == Event(a, state, n)
                      IN e.id = <<a, n>> /\ e.about = a /\ e.state = state /\ e.number = n
  /\ JobEvents \subseteq Events /\ StreamEvents \subseteq Events
  /\ \A e \in Events : /\ e.number \in Nat /\ e.id = <<e.about, e.number>>
                       /\ [e EXCEPT !.id = e.id] = e
  /\ \A e \in JobEvents : e.about = "job" /\ e.number \in Nat
  /\ \A e \in StreamEvents : e.about \in Streams /\ e.number \in Nat
<1>1. \A a, state, n : LET e == Event(a, state, n)
                       IN e.id = <<a, n>> /\ e.about = a /\ e.state = state /\ e.number = n
  BY DEF Event
<1>2. JobEvents \subseteq Events /\ StreamEvents \subseteq Events
  BY DEF JobEvents, StreamEvents, Events, Abouts
<1>3. ASSUME NEW e \in Events
      PROVE  e.number \in Nat /\ e.id = <<e.about, e.number>> /\ [e EXCEPT !.id = e.id] = e
  <2>1. PICK a \in Abouts, state \in JobStates \cup StreamStates, n \in Nat : e = Event(a, state, n)
    BY DEF Events
  <2>2. e = [id |-> <<a, n>>, about |-> a, state |-> state, number |-> n]
    BY <2>1 DEF Event
  <2> QED
    BY <2>2
<1>4. \A e \in JobEvents : e.about = "job" /\ e.number \in Nat
  BY <1>1 DEF JobEvents
<1>5. \A e \in StreamEvents : e.about \in Streams /\ e.number \in Nat
  BY <1>1 DEF StreamEvents
<1> QED
  BY <1>1, <1>2, <1>3, <1>4, <1>5

LEMMA JobEvent ==
  ASSUME NEW state \in JobStates, NEW n \in Nat
  PROVE  /\ Event("job", state, n) \in JobEvents /\ Event("job", state, n) \in Events
         /\ Event("job", state, n).number = n /\ Event("job", state, n).about = "job"
<1>1. Event("job", state, n) \in JobEvents
  BY DEF JobEvents
<1> QED
  BY <1>1, EventFields

LEMMA StreamEvent ==
  ASSUME NEW s \in Streams, NEW state \in StreamStates, NEW n \in Nat
  PROVE  /\ Event(s, state, n) \in StreamEvents /\ Event(s, state, n) \in Events
         /\ Event(s, state, n).number = n /\ Event(s, state, n).about = s
         /\ Event(s, state, n).state = state
<1>1. Event(s, state, n) \in StreamEvents
  BY DEF StreamEvents
<1> QED
  BY <1>1, EventFields

\* A queue of events that have a number and are not in the log yet.
Waits(q, log, top) ==
  /\ Ordered(q)
  /\ \A i \in DOMAIN q : q[i].number \in 1..top /\ \A e \in log : e.number # q[i].number

Elsewhere == {"leaving", "publish", "events", "idle"} \cup Waiting \cup Starting

LogInv ==
  /\ stamp \in Nat /\ Past <= stamp
  /\ ever \subseteq Events /\ Numbered(ever) /\ \A e \in ever : e.number \in 1..stamp
QueueInv(m) ==
  /\ me[m].pending \in Seq(JobEvents) /\ Waits(me[m].pending, ever, stamp)
  /\ me[m].unsent \in Seq(StreamEvents) /\ Waits(me[m].unsent, ever, stamp)
  /\ \A i \in DOMAIN me[m].pending, j \in DOMAIN me[m].unsent :
       me[m].pending[i].number # me[m].unsent[j].number
  /\ pc[m] \in Elsewhere => me[m].pending = <<>>
  /\ pc[m] \in Elsewhere \cup {"tick", "persist"} => me[m].unsent = <<>>
  /\ pc[m] = "tell" => me[m].unsent # <<>>
EventInv == LogInv /\ \A m \in Managers : QueueInv(m)

LEMMA NothingWaits == \A S, log, top : <<>> \in Seq(S) /\ Waits(<<>>, log, top)
BY DEF Waits, Ordered

LEMMA Logged ==
  ASSUME NEW log \in SUBSET Events, Numbered(log), NEW e \in Events,
         \A d \in log : d.number # e.number
  PROVE  log \cup {e} \in SUBSET Events /\ Numbered(log \cup {e})
<1>1. IsFiniteSet(log \cup {e})
  BY FS_AddElement DEF Numbered
<1> QED
  BY <1>1, EventFields DEF Numbered

LEMMA Queued ==
  ASSUME NEW T \in SUBSET Events, NEW q \in Seq(T), NEW e \in T, NEW log, NEW top \in Nat,
         Waits(q, log, top), e.number = top + 1, \A d \in log : d.number \in 1..top
  PROVE  Append(q, e) \in Seq(T) /\ Waits(Append(q, e), log, top + 1)
<1> DEFINE longer == Append(q, e)
<1>1. /\ longer \in Seq(T) /\ Len(q) \in Nat /\ DOMAIN q = 1..Len(q)
      /\ DOMAIN longer = 1..(Len(q) + 1)
      /\ longer[Len(q) + 1] = e /\ \A i \in 1..Len(q) : longer[i] = q[i]
  BY AppendProperties, LenProperties
<1> HIDE DEF longer
<1>2. \A i \in DOMAIN longer : i = Len(q) + 1 \/ i \in DOMAIN q
  BY <1>1
<1>3. Ordered(longer)
  <2> SUFFICES ASSUME NEW i \in DOMAIN longer, NEW j \in DOMAIN longer, i < j
               PROVE  longer[i].number < longer[j].number
    BY DEF Ordered
  <2>1. i \in DOMAIN q
    BY <1>1
  <2>2. CASE j \in DOMAIN q
    BY <1>1, <2>1, <2>2 DEF Waits, Ordered
  <2>3. CASE j = Len(q) + 1
    <3>1. longer[i] = q[i] /\ longer[j] = e /\ q[i].number \in 1..top
      BY <1>1, <2>1, <2>3 DEF Waits
    <3> QED
      BY <3>1
  <2> QED
    BY <1>2, <2>2, <2>3
<1>4. ASSUME NEW i \in DOMAIN longer
      PROVE  longer[i].number \in 1..(top + 1) /\ \A d \in log : d.number # longer[i].number
  <2>1. CASE i \in DOMAIN q
    <3>1. longer[i] = q[i] /\ q[i].number \in 1..top /\ \A d \in log : d.number # q[i].number
      BY <1>1, <2>1 DEF Waits
    <3> QED
      BY <3>1
  <2>2. CASE i = Len(q) + 1
    BY <1>1, <2>2
  <2> QED
    BY <1>2, <2>1, <2>2
<1> QED
  BY <1>1, <1>3, <1>4 DEF Waits, longer

LEMMA Dequeued ==
  ASSUME NEW T \in SUBSET Events, NEW q \in Seq(T), q # <<>>, NEW log, NEW top \in Nat,
         Waits(q, log, top)
  PROVE  /\ Head(q) \in T /\ Tail(q) \in Seq(T) /\ Head(q) = q[1] /\ 1 \in DOMAIN q
         /\ \A i \in DOMAIN Tail(q) : i + 1 \in DOMAIN q /\ Tail(q)[i] = q[i + 1] /\ i \in Nat \ {0}
         /\ Head(q).number \in 1..top /\ \A d \in log : d.number # Head(q).number
         /\ Waits(Tail(q), log \cup {Head(q)}, top)
<1> DEFINE rest == Tail(q)
<1>1. /\ Head(q) \in T /\ rest \in Seq(T) /\ Len(q) \in Nat \ {0} /\ DOMAIN q = 1..Len(q)
      /\ DOMAIN rest = 1..(Len(q) - 1) /\ \A i \in 1..(Len(q) - 1) : rest[i] = q[i + 1]
  BY HeadTailProperties, LenProperties, EmptySeq
<1>2. Head(q) = q[1]
  OBVIOUS
<1> HIDE DEF rest
<1>3. \A i \in DOMAIN rest : i + 1 \in DOMAIN q /\ rest[i] = q[i + 1] /\ i \in Nat \ {0}
  BY <1>1
<1>4. 1 \in DOMAIN q
  BY <1>1
<1>5. Ordered(rest)
  <2> SUFFICES ASSUME NEW i \in DOMAIN rest, NEW j \in DOMAIN rest, i < j
               PROVE  rest[i].number < rest[j].number
    BY DEF Ordered
  <2>1. i + 1 < j + 1
    BY <1>3
  <2> QED
    BY <1>3, <2>1 DEF Waits, Ordered
<1>6. Head(q).number \in 1..top /\ \A d \in log : d.number # Head(q).number
  BY <1>2, <1>4 DEF Waits
<1>7. ASSUME NEW i \in DOMAIN rest
      PROVE  /\ rest[i].number \in 1..top
             /\ \A d \in log \cup {Head(q)} : d.number # rest[i].number
  <2>1. q[i + 1].number \in 1..top /\ \A d \in log : d.number # q[i + 1].number
    BY <1>3 DEF Waits
  <2>2. q[1].number < q[i + 1].number
    <3>1. 1 < i + 1
      BY <1>3
    <3> QED
      BY <1>3, <1>4, <3>1 DEF Waits, Ordered
  <2>3. Head(q).number # rest[i].number
    BY <1>2, <1>3, <1>6, <2>1, <2>2
  <2> QED
    BY <1>3, <2>1, <2>3
<1> QED
  BY <1>1, <1>2, <1>3, <1>4, <1>5, <1>6, <1>7 DEF Waits, rest

\* A process says nothing new, though what waits may be dropped.
Calm(k) ==
  \/ me'[k].pending = <<>> /\ me'[k].unsent = <<>> /\ pc'[k] # "tell"
  \/ /\ me'[k].pending = me[k].pending /\ me'[k].unsent \in {me[k].unsent, <<>>}
     /\ pc'[k] \in Elsewhere => me[k].pending = <<>>
     /\ pc'[k] \in Elsewhere \cup {"tick", "persist"} => me'[k].unsent = <<>>
     /\ pc'[k] = "tell" => me'[k].unsent # <<>>

LEMMA CalmKeepsEvents ==
  ASSUME EventInv, UNCHANGED record, \A k \in Managers : Calm(k)
  PROVE  EventInv'
<1>1. ever' = ever /\ stamp' = stamp /\ LogInv'
  BY DEF record, EventInv, LogInv
<1>2. ASSUME NEW k \in Managers PROVE QueueInv(k)'
  <2>1. QueueInv(k) /\ Calm(k)
    BY DEF EventInv
  <2>2. CASE me'[k].pending = <<>> /\ me'[k].unsent = <<>> /\ pc'[k] # "tell"
    BY <2>2, NothingWaits DEF QueueInv
  <2>3. CASE me'[k].pending = me[k].pending /\ me'[k].unsent \in {me[k].unsent, <<>>}
    <3>1. /\ pc'[k] \in Elsewhere => me'[k].pending = <<>>
          /\ pc'[k] \in Elsewhere \cup {"tick", "persist"} => me'[k].unsent = <<>>
          /\ pc'[k] = "tell" => me'[k].unsent # <<>>
      BY <2>1, <2>3 DEF Calm
    <3>2. CASE me'[k].unsent = me[k].unsent
      BY <1>1, <2>1, <2>3, <3>1, <3>2 DEF QueueInv
    <3>3. CASE me'[k].unsent = <<>>
      BY <1>1, <2>1, <2>3, <3>1, <3>3, NothingWaits DEF QueueInv
    <3> QED
      BY <2>3, <3>2, <3>3
  <2> QED
    BY <2>1, <2>2, <2>3 DEF Calm
<1> QED
  BY <1>1, <1>2 DEF EventInv

LEMMA CalmSteps ==
  ASSUME HolderInv, EventInv, NEW m \in Managers,
         \/ Launched(m) \/ Acquire(m) \/ Refused(m) \/ UpdateMarker(m) \/ Consume(m)
         \/ NothingToConsume(m) \/ PersistRow(m) \/ PublishLatest(m) \/ PublishEvents(m)
         \/ PublishFails(m) \/ Wake(m) \/ FailEarly(m) \/ Fail(m) \/ Release(m) \/ Crash(m)
  PROVE  UNCHANGED record /\ \A k \in Managers : Calm(k)
<1> USE FreshFields DEF HolderInv, Shape, Goes
<1>1. ASSUME NEW k \in Managers \ {m} PROVE pc'[k] = pc[k] /\ me'[k] = me[k]
  BY DEF Launched, Acquire, Refused, UpdateMarker, Consume, NothingToConsume, PersistRow,
     PublishLatest, PublishEvents, PublishFails, WindowMerged, Wake, FailEarly, Fail, Release,
     Crash
<1>2. ASSUME NEW k \in Managers, pc'[k] = pc[k], me'[k] = me[k] PROVE Calm(k)
  BY <1>2 DEF Calm, EventInv, QueueInv
<1>3. UNCHANGED record
  BY DEF Launched, Acquire, Refused, UpdateMarker, Consume, NothingToConsume, PersistRow,
     PublishLatest, PublishEvents, PublishFails, Wake, FailEarly, Fail, Release, Crash
<1>4. /\ pc[m] \in Elsewhere => me[m].pending = <<>>
      /\ pc[m] \in Elsewhere \cup {"tick", "persist"} => me[m].unsent = <<>>
  BY DEF EventInv, QueueInv
<1>5. Fresh.pending = <<>> /\ Fresh.unsent = <<>>
  BY DEF Fresh
<1>6. Calm(m)
  <2>1. CASE Launched(m)
    BY <2>1, <1>5 DEF Launched, Calm
  <2>2. CASE Refused(m) \/ Release(m) \/ Crash(m)
    BY <2>2, <1>5 DEF Refused, Release, Crash, Calm
  <2>3. CASE Acquire(m) \/ Consume(m) \/ NothingToConsume(m)
    BY <2>3, <1>4 DEF Acquire, Consume, NothingToConsume, Calm, Elsewhere, Waiting, Starting
  <2>4. CASE UpdateMarker(m)
    BY <2>4, <1>4 DEF UpdateMarker, Calm, Elsewhere, Starting
  <2>5. CASE PersistRow(m)
    BY <2>5, <1>4 DEF PersistRow, Calm
  <2>6. CASE PublishLatest(m)
    BY <2>6, <1>4 DEF PublishLatest, WindowMerged, Calm, Elsewhere
  <2>7. CASE PublishEvents(m)
    BY <2>7, <1>4 DEF PublishEvents, AfterPublish, Calm, Elsewhere
  <2>8. CASE PublishFails(m)
    BY <2>8, <1>4 DEF PublishFails, WindowMerged, AfterPublish, Calm, Elsewhere
  <2>9. CASE Wake(m)
    BY <2>9, <1>4 DEF Wake, Calm, Elsewhere
  <2>10. CASE FailEarly(m)
    BY <2>10, <1>4 DEF FailEarly, Calm, Elsewhere
  <2>11. CASE Fail(m)
    BY <2>11, <1>4 DEF Fail, Calm, Elsewhere, Waiting, Starting
  <2> QED
    BY <2>1, <2>2, <2>3, <2>4, <2>5, <2>6, <2>7, <2>8, <2>9, <2>10, <2>11
<1> QED
  BY <1>1, <1>2, <1>3, <1>6

LEMMA CalmHost ==
  ASSUME HolderInv, EventInv, Reboot \/ Acknowledge \/ SourceMoves \/ UNCHANGED vars
  PROVE  UNCHANGED record /\ \A k \in Managers : Calm(k)
<1>1. UNCHANGED record
  BY DEF Reboot, Acknowledge, SourceMoves, vars
<1>2. CASE Reboot
  BY <1>1, <1>2 DEF Reboot, Fresh, Calm
<1>3. CASE Acknowledge \/ SourceMoves \/ UNCHANGED vars
  <2>1. pc' = pc /\ me' = me
    BY <1>3 DEF Acknowledge, SourceMoves, vars
  <2> QED
    BY <1>1, <2>1 DEF Calm, EventInv, QueueInv
<1> QED
  BY <1>2, <1>3

\* A step of the holder: nobody else has anything that waits.
LEMMA HolderKeepsEvents ==
  ASSUME HolderInv, EventInv, NEW m \in Managers, pc[m] \notin Waiting,
         \A k \in Managers \ {m} : pc'[k] = pc[k] /\ me'[k] = me[k],
         LogInv', QueueInv(m)'
  PROVE  EventInv'
<1>1. ASSUME NEW k \in Managers \ {m} PROVE QueueInv(k)'
  <2>1. me'[k].pending = <<>> /\ me'[k].unsent = <<>> /\ pc'[k] # "tell"
    BY OthersWait DEF EventInv, QueueInv, Elsewhere, Waiting
  <2>2. DOMAIN me'[k].pending = {}
    BY <2>1
  <2> QED
    BY <2>1, <2>2, NothingWaits DEF QueueInv
<1> QED
  BY <1>1 DEF EventInv

LEMMA LogGrows ==
  ASSUME LogInv, NEW e \in Events, ever' = ever \cup {e}, stamp' \in {stamp, stamp + 1},
         e.number \in 1..stamp', \A d \in ever : d.number # e.number
  PROVE  LogInv'
<1>1. stamp \in Nat /\ ever \in SUBSET Events /\ Numbered(ever) /\ Past \in Nat
  BY ManagerAssumption DEF LogInv
<1>2. ever' \in SUBSET Events /\ Numbered(ever')
  BY <1>1, Logged
<1> QED
  BY <1>1, <1>2 DEF LogInv

\* Build, AnnounceResume: an event goes to the table at once.
LEMMA AnnouncedKeepsEvents ==
  ASSUME HolderInv, EventInv, NEW m \in Managers, Build(m) \/ AnnounceResume(m)
  PROVE  EventInv'
<1> USE FreshFields DEF HolderInv, Shape, Goes
<1>1. /\ pc[m] \in Elsewhere /\ pc'[m] \in Elsewhere /\ pc[m] \notin Waiting
      /\ me'[m].pending = me[m].pending /\ me'[m].unsent = me[m].unsent
      /\ \A k \in Managers \ {m} : pc'[k] = pc[k] /\ me'[k] = me[k]
  BY DEF Build, AnnounceResume, Elsewhere, Starting, Waiting
<1>2. me[m].pending = <<>> /\ me[m].unsent = <<>>
  BY <1>1 DEF EventInv, QueueInv
<1>3. QueueInv(m)'
  <2>1. me'[m].pending = <<>> /\ me'[m].unsent = <<>> /\ pc'[m] # "tell"
    BY <1>1, <1>2 DEF Elsewhere, Starting, Waiting
  <2>2. DOMAIN me'[m].pending = {}
    BY <2>1
  <2> QED
    BY <2>1, <2>2, NothingWaits DEF QueueInv
<1>4. LogInv'
  <2>1. CASE Announced("QUEUED")
    <3> DEFINE e == Event("job", "QUEUED", stamp + 1)
    <3>1. ever' = ever \cup {e} /\ stamp' = stamp + 1 /\ stamp \in Nat
      BY <2>1 DEF Announced, Appended, EventInv, LogInv
    <3>2. e \in Events /\ e.number = stamp + 1
      <4>1. "QUEUED" \in JobStates /\ stamp + 1 \in Nat
        BY <3>1 DEF JobStates
      <4> QED
        BY <4>1, JobEvent
    <3> HIDE DEF e
    <3>3. \A d \in ever : d.number # e.number
      BY <3>1, <3>2 DEF EventInv, LogInv
    <3> QED
      BY <3>1, <3>2, <3>3, LogGrows DEF EventInv
  <2>2. CASE UNCHANGED record
    BY <2>2 DEF record, EventInv, LogInv
  <2> QED
    BY <2>1, <2>2 DEF Build, AnnounceResume
<1> HIDE DEF HolderInv, Shape
<1> QED
  BY <1>1, <1>3, <1>4, HolderKeepsEvents

\* StartAll, Tick, Interrupt: an event about the job waits at the end.
LEMMA SpokenKeepsEvents ==
  ASSUME HolderInv, EventInv, NEW m \in Managers, pc[m] \notin Waiting,
         \A k \in Managers \ {m} : pc'[k] = pc[k] /\ me'[k] = me[k],
         ever' = ever, stamp' = stamp + 1,
         NEW state \in JobStates,
         me'[m].pending = Append(me[m].pending, Event("job", state, stamp + 1)),
         me'[m].unsent \in {me[m].unsent, <<>>},
         pc'[m] \notin Elsewhere \cup {"tell"},
         pc'[m] \in {"tick", "persist"} => me'[m].unsent = <<>>
  PROVE  EventInv'
<1> DEFINE e == Event("job", state, stamp + 1)
<1>1. LogInv /\ QueueInv(m) /\ stamp \in Nat /\ Past \in Nat
  BY ManagerAssumption DEF EventInv, LogInv
<1>2. /\ e \in JobEvents /\ e.number = stamp + 1 /\ \A d \in ever : d.number \in 1..stamp
      /\ me[m].pending \in Seq(JobEvents) /\ JobEvents \in SUBSET Events
      /\ StreamEvents \in SUBSET Events
  BY <1>1, JobEvent, EventFields DEF LogInv, QueueInv
<1> HIDE DEF e
<1>3. LogInv'
  BY <1>1 DEF LogInv
<1>4. /\ me'[m].pending \in Seq(JobEvents) /\ Waits(me'[m].pending, ever', stamp')
      /\ \A i \in DOMAIN me'[m].pending : \/ me'[m].pending[i] = e
                                          \/ i \in DOMAIN me[m].pending
                                             /\ me'[m].pending[i] = me[m].pending[i]
  <2>1. me'[m].pending = Append(me[m].pending, e)
    BY DEF e
  <2>2. Waits(me[m].pending, ever, stamp)
    BY <1>1 DEF QueueInv
  <2>3. /\ Append(me[m].pending, e) \in Seq(JobEvents)
        /\ Waits(Append(me[m].pending, e), ever, stamp + 1)
    BY <1>1, <1>2, <2>2, Queued
  <2> QED
    BY <1>2, <2>1, <2>3, AppendProperties, LenProperties
<1>5. /\ me'[m].unsent \in Seq(StreamEvents) /\ Waits(me'[m].unsent, ever', stamp')
      /\ \A j \in DOMAIN me'[m].unsent : j \in DOMAIN me[m].unsent
                                         /\ me'[m].unsent[j] = me[m].unsent[j]
  <2>1. CASE me'[m].unsent = me[m].unsent
    <3>1. me[m].unsent \in Seq(StreamEvents) /\ Waits(me[m].unsent, ever, stamp)
      BY <1>1 DEF QueueInv
    <3> QED
      BY <1>1, <2>1, <3>1 DEF Waits
  <2>2. CASE me'[m].unsent = <<>>
    <3>1. DOMAIN me'[m].unsent = {}
      BY <2>2
    <3> QED
      BY <2>2, <3>1, NothingWaits
  <2> QED
    BY <2>1, <2>2
<1>6. ASSUME NEW i \in DOMAIN me'[m].pending, NEW j \in DOMAIN me'[m].unsent
      PROVE  me'[m].pending[i].number # me'[m].unsent[j].number
  <2>1. me'[m].unsent[j].number \in 1..stamp
    BY <1>1, <1>5 DEF QueueInv, Waits
  <2>2. CASE me'[m].pending[i] = e
    BY <1>1, <1>2, <2>1, <2>2
  <2> QED
    BY <1>1, <1>4, <1>5, <2>2 DEF QueueInv
<1>7. QueueInv(m)'
  BY <1>4, <1>5, <1>6 DEF QueueInv
<1> QED
  BY <1>3, <1>7, HolderKeepsEvents

LEMMA SpeakingSteps ==
  ASSUME HolderInv, TypeInv, EventInv, NEW m \in Managers, StartAll(m) \/ Tick(m) \/ Interrupt(m)
  PROVE  EventInv'
<1> USE FreshFields DEF HolderInv, Shape, Goes
<1>1. QueueInv(m) /\ \A k \in Managers \ {m} : pc'[k] = pc[k] /\ me'[k] = me[k]
  BY DEF EventInv, StartAll, Tick, Heard, Interrupt
<1>2. ever' = ever /\ pc[m] \notin Waiting
  BY DEF StartAll, Tick, Interrupt, Waiting, Running, Fallible
<1>3. CASE StartAll(m)
  <2>1. me[m].pending = <<>> /\ me[m].unsent = <<>>
    BY <1>1, <1>3 DEF StartAll, QueueInv, Elsewhere, Starting
  <2>2. /\ me'[m].pending = <<Event("job", "RUNNING", stamp + 1)>>
        /\ me'[m].unsent = me[m].unsent /\ pc'[m] = "tick" /\ stamp' = stamp + 1
    BY <1>3 DEF StartAll
  <2>3. me'[m].pending = Append(me[m].pending, Event("job", "RUNNING", stamp + 1))
    BY <2>1, <2>2
  <2>4. pc'[m] \notin Elsewhere \cup {"tell"} /\ "RUNNING" \in JobStates
    BY <2>2 DEF Elsewhere, Starting, Waiting, JobStates
  <2> HIDE DEF HolderInv, Shape
  <2> QED
    BY <1>1, <1>2, <2>1, <2>2, <2>3, <2>4, SpokenKeepsEvents
<1>4. CASE Interrupt(m)
  <2>1. /\ me'[m].pending = Append(me[m].pending, Event("job", "CANCELLED", stamp + 1))
        /\ me'[m].unsent = <<>> /\ pc'[m] = "persist" /\ stamp' = stamp + 1
    BY <1>4 DEF Interrupt
  <2>2. pc'[m] \notin Elsewhere \cup {"tell"} /\ "CANCELLED" \in JobStates
    BY <2>1 DEF Elsewhere, Starting, Waiting, JobStates
  <2> HIDE DEF HolderInv, Shape
  <2> QED
    BY <1>1, <1>2, <2>1, <2>2, SpokenKeepsEvents
<1>5. CASE Tick(m)
  <2>1. pc[m] = "tick" /\ pc'[m] = "sync" /\ me'[m].unsent = me[m].unsent
    <3>1. pc[m] = "tick" /\ pc'[m] = "sync" /\ \E job, pending : Heard(m, job, pending)
      BY <1>5 DEF Tick
    <3>2. \A job, pending : Heard(m, job, pending) => me'[m].unsent = me[m].unsent
      BY DEF Heard
    <3> QED
      BY <3>1, <3>2
  <2>2. pc'[m] \notin Elsewhere \cup {"tell"} /\ pc'[m] \notin {"tick", "persist"}
    BY <2>1 DEF Elsewhere, Starting, Waiting
  <2>3. PICK job \in Ticked(me[m].job) :
          IF job = me[m].job
            THEN me'[m].pending = me[m].pending /\ stamp' = stamp
            ELSE /\ me'[m].pending = Append(me[m].pending, Event("job", job.state, stamp + 1))
                 /\ stamp' = stamp + 1
    <3>1. PICK job \in Ticked(me[m].job) :
            IF job = me[m].job
              THEN Heard(m, job, me[m].pending) /\ stamp' = stamp
              ELSE /\ stamp' = stamp + 1
                   /\ Heard(m, job, Append(me[m].pending, Event("job", job.state, stamp')))
      BY <1>5 DEF Tick
    <3>2. \A pending : Heard(m, job, pending) => me'[m].pending = pending
      BY DEF Heard
    <3> QED
      BY <3>1, <3>2
  <2>4. CASE job = me[m].job
    <3>1. QueueInv(m)'
      BY <1>1, <1>2, <2>1, <2>2, <2>3, <2>4 DEF QueueInv
    <3>2. LogInv'
      BY <1>2, <2>3, <2>4 DEF EventInv, LogInv
    <3> HIDE DEF HolderInv, Shape
    <3> QED
      BY <1>1, <1>2, <3>1, <3>2, HolderKeepsEvents
  <2>5. CASE job # me[m].job
    <3>1. job.state \in JobStates
      BY TickedTyped DEF TypeInv, MindInv, JobRecord
    <3> DEFINE state == job.state
    <3>2. me'[m].pending = Append(me[m].pending, Event("job", state, stamp + 1))
      BY <2>3, <2>5
    <3>3. stamp' = stamp + 1
      BY <2>3, <2>5
    <3> HIDE DEF HolderInv, Shape, state
    <3> QED
      BY <1>1, <1>2, <2>1, <2>2, <3>1, <3>2, <3>3, SpokenKeepsEvents DEF state
  <2> QED
    BY <2>4, <2>5
<1> QED
  BY <1>3, <1>4, <1>5

\* SyncStream: an event about a stream waits at the end.
LEMMA SyncKeepsEvents ==
  ASSUME HolderInv, TypeInv, EventInv, NEW m \in Managers, SyncStream(m)
  PROVE  EventInv'
<1>1. /\ LogInv /\ QueueInv(m) /\ stamp \in Nat /\ Past \in Nat
      /\ me[m].todo \subseteq Streams /\ pc[m] = "sync"
  BY ManagerAssumption DEF EventInv, LogInv, TypeInv, MindInv, SyncStream
<1>2. PICK s \in me[m].todo :
        LET state == Resolved(KindOf[s], me[m].heard[s])
            due == RowDue(streamRow[s], state) /\ EventDue(streamRow[s], state)
            unsent == IF due THEN Append(me[m].unsent, Event(s, state, stamp + 1))
                      ELSE me[m].unsent
        IN /\ stamp' = IF due THEN stamp + 1 ELSE stamp
           /\ me' = [me EXCEPT ![m].todo = @ \ {s}, ![m].unsent = unsent]
           /\ pc' = [pc EXCEPT ![m] = IF me'[m].todo # {} THEN "sync"
                                      ELSE IF unsent # <<>> THEN "tell" ELSE "persist"]
  BY DEF SyncStream
<1> DEFINE state == Resolved(KindOf[s], me[m].heard[s])
           e == Event(s, state, stamp + 1)
<1>3. /\ state \in StreamStates /\ e \in StreamEvents /\ e.number = stamp + 1
      /\ \A d \in ever : d.number \in 1..stamp
      /\ me[m].unsent \in Seq(StreamEvents) /\ StreamEvents \in SUBSET Events
      /\ JobEvents \in SUBSET Events
  <2>1. s \in Streams /\ state \in StreamStates
    BY <1>1, ResolvedTyped
  <2> HIDE DEF state
  <2>2. e \in StreamEvents /\ e.number = stamp + 1
    BY <1>1, <2>1, StreamEvent
  <2> HIDE DEF e
  <2> QED
    BY <1>1, <2>1, <2>2, EventFields DEF LogInv, QueueInv
<1>4. /\ \A k \in Managers \ {m} : pc'[k] = pc[k] /\ me'[k] = me[k]
      /\ me'[m].pending = me[m].pending /\ ever' = ever
      /\ \/ stamp' = stamp /\ me'[m].unsent = me[m].unsent
         \/ stamp' = stamp + 1 /\ me'[m].unsent = Append(me[m].unsent, e)
      /\ \/ pc'[m] = "sync"
         \/ pc'[m] = "tell" /\ me'[m].unsent # <<>>
         \/ pc'[m] = "persist" /\ me'[m].unsent = <<>>
  <2> HIDE DEF state
  <2>1. ever' = ever
    BY DEF SyncStream
  <2>2. DOMAIN me = Managers /\ DOMAIN pc = Managers /\ DOMAIN me[m] = DOMAIN Fresh
    BY DEF HolderInv, Shape
  <2> QED
    BY <1>2, <2>1, <2>2, FreshFields DEF state
<1> HIDE DEF e, state
<1>5. LogInv'
  BY <1>1, <1>4 DEF LogInv
<1>6. Waits(me[m].unsent, ever, stamp) /\ Waits(me[m].pending, ever, stamp)
  BY <1>1 DEF QueueInv
<1>7. Waits(me'[m].pending, ever', stamp')
  BY <1>1, <1>4, <1>6 DEF Waits
<1>8. /\ me'[m].unsent \in Seq(StreamEvents) /\ Waits(me'[m].unsent, ever', stamp')
      /\ \A j \in DOMAIN me'[m].unsent : \/ me'[m].unsent[j].number = stamp + 1
                                         \/ j \in DOMAIN me[m].unsent
                                            /\ me'[m].unsent[j] = me[m].unsent[j]
  <2>1. CASE stamp' = stamp /\ me'[m].unsent = me[m].unsent
    BY <1>3, <1>4, <1>6, <2>1
  <2>2. CASE stamp' = stamp + 1 /\ me'[m].unsent = Append(me[m].unsent, e)
    <3>1. /\ Append(me[m].unsent, e) \in Seq(StreamEvents)
          /\ Waits(Append(me[m].unsent, e), ever, stamp + 1)
      BY <1>1, <1>3, <1>6, Queued
    <3> QED
      BY <1>3, <1>4, <2>2, <3>1, AppendProperties, LenProperties
  <2> QED
    BY <1>4, <2>1, <2>2
<1>9. ASSUME NEW i \in DOMAIN me'[m].pending, NEW j \in DOMAIN me'[m].unsent
      PROVE  me'[m].pending[i].number # me'[m].unsent[j].number
  <2>1. i \in DOMAIN me[m].pending /\ me[m].pending[i].number \in 1..stamp
    BY <1>4, <1>6 DEF Waits
  <2> QED
    BY <1>1, <1>4, <1>8, <2>1 DEF QueueInv
<1>10. QueueInv(m)'
  BY <1>1, <1>4, <1>7, <1>8, <1>9 DEF QueueInv, Elsewhere, Waiting, Starting
<1>11. pc[m] \notin Waiting
  BY <1>1 DEF Waiting
<1> QED
  BY <1>4, <1>5, <1>10, <1>11, HolderKeepsEvents

\* TellStream, PersistEvent: the first that waits goes to the table.
LEMMA AppendedKeepsEvents ==
  ASSUME HolderInv, EventInv, NEW m \in Managers, TellStream(m) \/ PersistEvent(m)
  PROVE  EventInv'
<1>1. /\ LogInv /\ QueueInv(m) /\ stamp \in Nat
      /\ pc[m] \in {"tell", "persist"} /\ pc[m] \notin Waiting /\ stamp' = stamp
  BY DEF EventInv, LogInv, TellStream, PersistEvent, Waiting
<1>2. /\ JobEvents \in SUBSET Events /\ StreamEvents \in SUBSET Events
      /\ me[m].pending \in Seq(JobEvents) /\ me[m].unsent \in Seq(StreamEvents)
      /\ Waits(me[m].pending, ever, stamp) /\ Waits(me[m].unsent, ever, stamp)
  BY <1>1, EventFields DEF QueueInv
<1>3. \A k \in Managers \ {m} : pc'[k] = pc[k] /\ me'[k] = me[k]
  BY DEF TellStream, PersistEvent, HolderInv, Shape
<1>4. DOMAIN me = Managers /\ DOMAIN pc = Managers /\ DOMAIN me[m] = DOMAIN Fresh
  BY DEF HolderInv, Shape
<1>5. ASSUME NEW e, e \in Events, e.number \in 1..stamp, \A d \in ever : d.number # e.number,
             ever' = ever \cup {e}
      PROVE  LogInv'
  BY <1>1, <1>5, LogGrows
<1>6. CASE TellStream(m)
  <2> DEFINE q == me[m].unsent
             e == Head(q)
  <2>1. q # <<>>
    BY <1>1, <1>6 DEF QueueInv, TellStream
  <2>2. /\ ever' = ever \cup {e} /\ me'[m].unsent = Tail(q) /\ me'[m].pending = me[m].pending
        /\ pc'[m] = IF me'[m].unsent = <<>> THEN "persist" ELSE "tell"
    BY <1>4, <1>6, FreshFields DEF TellStream, Appended
  <2>3. /\ e \in StreamEvents /\ Tail(q) \in Seq(StreamEvents) /\ e = q[1] /\ 1 \in DOMAIN q
        /\ \A i \in DOMAIN Tail(q) : i + 1 \in DOMAIN q /\ Tail(q)[i] = q[i + 1]
        /\ e.number \in 1..stamp /\ \A d \in ever : d.number # e.number
        /\ Waits(Tail(q), ever \cup {e}, stamp)
    <3> HIDE DEF q
    <3>1. q \in Seq(StreamEvents) /\ Waits(q, ever, stamp) /\ q # <<>>
      BY <1>2, <2>1 DEF q
    <3> QED
      BY <1>1, <1>2, <3>1, Dequeued
  <2>4. LogInv'
    BY <1>2, <1>5, <2>2, <2>3
  <2>5. Waits(me'[m].pending, ever', stamp')
    BY <1>1, <1>2, <2>2, <2>3 DEF QueueInv, Waits
  <2>6. ASSUME NEW i \in DOMAIN me'[m].pending, NEW j \in DOMAIN me'[m].unsent
        PROVE  me'[m].pending[i].number # me'[m].unsent[j].number
    <3>1. /\ i \in DOMAIN me[m].pending /\ me'[m].pending[i] = me[m].pending[i]
          /\ j + 1 \in DOMAIN me[m].unsent /\ me'[m].unsent[j] = me[m].unsent[j + 1]
      BY <2>2, <2>3
    <3> HIDE DEF q, e
    <3> QED
      BY <1>1, <3>1 DEF QueueInv
  <2>7. QueueInv(m)'
    BY <1>1, <1>2, <2>2, <2>3, <2>5, <2>6 DEF QueueInv, Elsewhere, Waiting, Starting
  <2> HIDE DEF q, e
  <2> QED
    BY <1>1, <1>3, <2>4, <2>7, HolderKeepsEvents
<1>7. CASE PersistEvent(m)
  <2> DEFINE q == me[m].pending
             e == Head(q)
  <2>1. q # <<>> /\ pc[m] = "persist" /\ me[m].unsent = <<>>
    BY <1>1, <1>7 DEF QueueInv, PersistEvent
  <2>2. /\ ever' = ever \cup {e} /\ me'[m].pending = Tail(q) /\ me'[m].unsent = me[m].unsent
        /\ pc'[m] = "persist"
    BY <1>1, <1>4, <1>7, <2>1, FreshFields DEF PersistEvent, Appended
  <2>3. /\ e \in JobEvents /\ Tail(q) \in Seq(JobEvents)
        /\ e.number \in 1..stamp /\ \A d \in ever : d.number # e.number
        /\ Waits(Tail(q), ever \cup {e}, stamp)
    <3> HIDE DEF q
    <3>1. q \in Seq(JobEvents) /\ Waits(q, ever, stamp) /\ q # <<>>
      BY <1>2, <2>1 DEF q
    <3> QED
      BY <1>1, <1>2, <3>1, Dequeued
  <2>4. LogInv'
    BY <1>2, <1>5, <2>2, <2>3
  <2>5. me'[m].unsent = <<>> /\ DOMAIN me'[m].unsent = {}
    BY <2>1, <2>2
  <2>6. QueueInv(m)'
    BY <1>1, <2>2, <2>3, <2>5, NothingWaits DEF QueueInv, Elsewhere, Waiting, Starting
  <2> HIDE DEF q, e
  <2> QED
    BY <1>1, <1>3, <2>4, <2>6, HolderKeepsEvents
<1> QED
  BY <1>6, <1>7

LEMMA EventStep == HolderInv /\ TypeInv /\ EventInv /\ [Next]_vars => EventInv'
<1> SUFFICES ASSUME HolderInv, TypeInv, EventInv, [Next]_vars PROVE EventInv'
  OBVIOUS
<1>1. CASE Reboot \/ Acknowledge \/ SourceMoves \/ UNCHANGED vars
  BY <1>1, CalmHost, CalmKeepsEvents
<1>2. ASSUME NEW m \in Managers,
             \/ Launched(m) \/ Acquire(m) \/ Refused(m) \/ UpdateMarker(m) \/ Consume(m)
             \/ NothingToConsume(m) \/ PersistRow(m) \/ PublishLatest(m) \/ PublishEvents(m)
             \/ PublishFails(m) \/ Wake(m) \/ FailEarly(m) \/ Fail(m) \/ Release(m) \/ Crash(m)
      PROVE  EventInv'
  BY <1>2, CalmSteps, CalmKeepsEvents
<1>3. ASSUME NEW m \in Managers,
             \/ Build(m) \/ AnnounceResume(m) \/ StartAll(m) \/ Tick(m) \/ Interrupt(m)
             \/ SyncStream(m) \/ TellStream(m) \/ PersistEvent(m)
      PROVE  EventInv'
  BY <1>3, AnnouncedKeepsEvents, SpeakingSteps, SyncKeepsEvents, AppendedKeepsEvents
<1> QED
  BY <1>1, <1>2, <1>3, ManagerAssumption
     DEF Next, Relaunch, LaunchBeside, Runs, StartUp, Loop, End

LEMMA EventsInitially == Init => EventInv
<1> SUFFICES ASSUME Init PROVE EventInv
  OBVIOUS
<1> DEFINE p(n) == Event("past", "RUNNING", n)
<1>1. Past \in Nat /\ stamp = Past /\ ever = {Published[n] : n \in 1..Past}
  BY ManagerAssumption DEF Init
<1>2. \A n \in 1..Past : Published[n] = p(n)
  BY DEF Published
<1>3. \A n \in 1..Past : p(n) \in Events /\ p(n).number = n
  <2>1. "past" \in Abouts /\ "RUNNING" \in JobStates \cup StreamStates
    BY DEF Abouts, JobStates
  <2>2. \A n \in 1..Past : n \in Nat
    BY <1>1
  <2> QED
    BY <2>1, <2>2, EventFields DEF Events
<1> HIDE DEF p
<1>4. ever = {p(n) : n \in 1..Past}
  BY <1>1, <1>2
<1>5. IsFiniteSet(ever)
  <2>1. IsFiniteSet(1..Past)
    BY <1>1, FS_Interval
  <2>2. [n \in 1..Past |-> p(n)] \in Surjection(1..Past, ever)
    BY <1>4, Fun_IsSurj
  <2> QED
    BY <2>1, <2>2, FS_Surjection
<1>6. \A e \in ever : e \in Events /\ e.number \in 1..Past /\ e = p(e.number)
  BY <1>3, <1>4
<1>7. LogInv
  <2>1. \A e \in ever : e.number \in Nat
    BY <1>1, <1>6
  <2>2. \A d, e \in ever : d.number = e.number => d = e
    BY <1>6
  <2> QED
    BY <1>1, <1>5, <1>6, <2>1, <2>2 DEF LogInv, Numbered
<1>8. ASSUME NEW m \in Managers PROVE QueueInv(m)
  <2>1. me[m].pending = <<>> /\ me[m].unsent = <<>> /\ pc[m] = "down"
    BY DEF Init, Fresh
  <2>2. DOMAIN me[m].pending = {}
    BY <2>1
  <2> QED
    BY <2>1, <2>2, NothingWaits DEF QueueInv
<1> QED
  BY <1>7, <1>8 DEF EventInv

-----------------------------------------------------------------------------
(* The rows of the streams and the events about them.                      *)

Seen(m) ==
  /\ pc[m] = "idle" => me[m].ending = "no"
  /\ pc[m] = "sync" => \A s \in Streams \ me[m].todo : streamRow[s] # "absent"
  /\ pc[m] \in {"tell", "persist", "publish", "events", "idle"} /\ me[m].ending = "no"
       => \A s \in Streams : streamRow[s] # "absent"
SeenInv == \A m \in Managers : Seen(m)

\* Events that are about to be told tell the row, once, and are the newest.
UnsentInv(m) ==
  \A i \in DOMAIN me[m].unsent :
    LET e == me[m].unsent[i]
    IN /\ e.state = streamRow[e.about]
       /\ \A d \in ever : d.about = e.about => d.number < e.number
       /\ \A j \in DOMAIN me[m].unsent : me[m].unsent[j].about = e.about => i = j
       /\ pc[m] = "sync" => e.about \notin me[m].todo
ToTell(s) == \E m \in Managers : \E i \in DOMAIN me[m].unsent : me[m].unsent[i].about = s
Told(s) == \E e \in ever : Tells(e, s)
RowsInv ==
  /\ \A m \in Managers : UnsentInv(m)
  /\ \A s \in Streams \ torn : streamRow[s] = "absent" \/ ToTell(s) \/ Told(s)
  /\ \A s \in Streams : streamRow[s] = "absent" => \A e \in ever : e.about # s
StreamInv == SeenInv /\ RowsInv

\* Others stay where they are, and no row disappears.
LEMMA SeenKept ==
  ASSUME SeenInv, NEW m \in Managers,
         \A k \in Managers \ {m} : pc'[k] = pc[k] /\ me'[k] = me[k],
         \A s \in Streams : streamRow[s] # "absent" => streamRow'[s] # "absent",
         Seen(m)'
  PROVE  SeenInv'
BY DEF SeenInv, Seen

\* One stream at a time: its row is there afterwards.
LEMMA RowWritten ==
  ASSUME HolderInv, TypeInv, NEW m \in Managers, SyncStream(m)
  PROVE  \E s \in me[m].todo :
           LET state == Resolved(KindOf[s], me[m].heard[s])
               e == Event(s, state, stamp + 1)
           IN /\ s \in Streams /\ state \in StreamStates /\ state # "absent"
              /\ streamRow'[s] = state
              /\ \A r \in Streams \ {s} : streamRow'[r] = streamRow[r]
              /\ \/ streamRow[s] = state /\ me'[m].unsent = me[m].unsent
                 \/ streamRow[s] # state /\ me'[m].unsent = Append(me[m].unsent, e)
              /\ me'[m].todo = me[m].todo \ {s} /\ me'[m].ending = me[m].ending
              /\ pc'[m] = IF me'[m].todo # {} THEN "sync"
                          ELSE IF me'[m].unsent # <<>> THEN "tell" ELSE "persist"
              /\ \A k \in Managers \ {m} : pc'[k] = pc[k] /\ me'[k] = me[k]
<1>1. /\ me[m].todo \subseteq Streams /\ pc[m] = "sync"
      /\ streamRow \in [Streams -> StreamStates \cup {"absent"}]
  BY DEF TypeInv, MindInv, StateInv, SyncStream
<1>2. PICK s \in me[m].todo :
        LET state == Resolved(KindOf[s], me[m].heard[s])
            due == RowDue(streamRow[s], state) /\ EventDue(streamRow[s], state)
            unsent == IF due THEN Append(me[m].unsent, Event(s, state, stamp + 1))
                      ELSE me[m].unsent
        IN /\ streamRow' = IF RowDue(streamRow[s], state)
                             THEN [streamRow EXCEPT ![s] = state] ELSE streamRow
           /\ me' = [me EXCEPT ![m].todo = @ \ {s}, ![m].unsent = unsent]
           /\ pc' = [pc EXCEPT ![m] = IF me'[m].todo # {} THEN "sync"
                                      ELSE IF unsent # <<>> THEN "tell" ELSE "persist"]
  BY DEF SyncStream
<1> DEFINE state == Resolved(KindOf[s], me[m].heard[s])
           longer == Append(me[m].unsent, Event(s, state, stamp + 1))
<1>3. s \in Streams /\ state \in StreamStates /\ state # "absent"
  <2>1. s \in Streams /\ state \in StreamStates
    BY <1>1, ResolvedTyped
  <2> HIDE DEF state
  <2> QED
    BY <2>1 DEF StreamStates
<1> HIDE DEF state, longer
<1>4. \E unsent :
        /\ unsent = IF RowDue(streamRow[s], state) /\ EventDue(streamRow[s], state)
                      THEN longer ELSE me[m].unsent
        /\ streamRow' = IF RowDue(streamRow[s], state)
                             THEN [streamRow EXCEPT ![s] = state] ELSE streamRow
        /\ me' = [me EXCEPT ![m].todo = @ \ {s}, ![m].unsent = unsent]
        /\ pc' = [pc EXCEPT ![m] = IF me'[m].todo # {} THEN "sync"
                                   ELSE IF unsent # <<>> THEN "tell" ELSE "persist"]
  BY <1>2 DEF state, longer
<1>5. DOMAIN me = Managers /\ DOMAIN pc = Managers /\ DOMAIN me[m] = DOMAIN Fresh
  BY DEF HolderInv, Shape
<1>6. /\ me'[m].unsent = IF streamRow[s] # state THEN longer ELSE me[m].unsent
      /\ me'[m].todo = me[m].todo \ {s} /\ me'[m].ending = me[m].ending
      /\ pc'[m] = IF me'[m].todo # {} THEN "sync"
                  ELSE IF me'[m].unsent # <<>> THEN "tell" ELSE "persist"
      /\ \A k \in Managers \ {m} : pc'[k] = pc[k] /\ me'[k] = me[k]
  BY <1>4, <1>5, FreshFields DEF RowDue, EventDue
<1>7. streamRow'[s] = state /\ \A r \in Streams \ {s} : streamRow'[r] = streamRow[r]
  BY <1>1, <1>3, <1>4 DEF RowDue
<1> QED
  BY <1>3, <1>6, <1>7 DEF state, longer

LEMMA SeenSteps ==
  ASSUME HolderInv, TypeInv, SeenInv, NEW m \in Managers,
         \/ Launched(m) \/ StartUp(m) \/ Loop(m) \/ PublishFails(m) \/ End(m) \/ Release(m)
  PROVE  SeenInv'
<1> USE FreshFields DEF HolderInv, Shape, Goes
<1>1. Seen(m) /\ streamRow \in [Streams -> StreamStates \cup {"absent"}]
  BY DEF SeenInv, TypeInv, StateInv
<1>2. ASSUME \A k \in Managers \ {m} : pc'[k] = pc[k] /\ me'[k] = me[k],
             streamRow' = streamRow, pc'[m] \notin {"sync", "tell", "persist", "publish", "events", "idle"}
      PROVE  SeenInv'
  <2>1. Seen(m)'
    BY <1>2 DEF Seen
  <2> QED
    BY <1>2, <2>1, SeenKept
<1>3. ASSUME \A k \in Managers \ {m} : pc'[k] = pc[k] /\ me'[k] = me[k],
             streamRow' = streamRow, me'[m].ending # "no", pc'[m] \notin {"sync", "idle"}
      PROVE  SeenInv'
  <2>1. Seen(m)'
    BY <1>3 DEF Seen
  <2> QED
    BY <1>3, <2>1, SeenKept
<1>4. ASSUME \A k \in Managers \ {m} : pc'[k] = pc[k] /\ me'[k] = me[k],
             streamRow' = streamRow, me'[m].ending = me[m].ending,
             pc[m] \in {"tell", "persist", "publish", "events", "idle"},
             pc'[m] # "sync", pc'[m] = "idle" => me[m].ending = "no"
      PROVE  SeenInv'
  <2>1. Seen(m)'
    BY <1>1, <1>4 DEF Seen
  <2> QED
    BY <1>4, <2>1, SeenKept
<1>5. CASE Launched(m) \/ Acquire(m) \/ Refused(m) \/ UpdateMarker(m) \/ Build(m)
  BY <1>2, <1>5 DEF Launched, Acquire, Refused, UpdateMarker, Build, rows
<1>6. CASE Consume(m) \/ AnnounceResume(m) \/ NothingToConsume(m) \/ StartAll(m)
  BY <1>2, <1>6 DEF Consume, AnnounceResume, NothingToConsume, StartAll, rows
<1>7. CASE Wake(m) \/ FailEarly(m) \/ Crash(m) \/ Release(m)
  BY <1>2, <1>7 DEF Wake, FailEarly, Crash, Release, rows
<1>8. CASE Fail(m) \/ Interrupt(m)
  BY <1>3, <1>8 DEF Fail, Interrupt, rows
<1>9. CASE TellStream(m) \/ PersistEvent(m) \/ PersistRow(m)
  BY <1>4, <1>9 DEF TellStream, PersistEvent, PersistRow, rows
<1>10. CASE PublishLatest(m) \/ PublishEvents(m) \/ PublishFails(m)
  BY <1>4, <1>10 DEF PublishLatest, PublishEvents, PublishFails, WindowMerged, AfterPublish, rows
<1>11. CASE Tick(m)
  <2>1. /\ \A k \in Managers \ {m} : pc'[k] = pc[k] /\ me'[k] = me[k]
        /\ pc'[m] = "sync" /\ me'[m].todo = Streams /\ streamRow' = streamRow
    <3>1. pc'[m] = "sync" /\ streamRow' = streamRow /\ \E job, pending : Heard(m, job, pending)
      BY <1>11 DEF Tick, rows
    <3>2. \A k \in Managers \ {m} : pc'[k] = pc[k]
      BY <1>11 DEF Tick
    <3>3. \A job, pending : Heard(m, job, pending)
            => me'[m].todo = Streams /\ \A k \in Managers \ {m} : me'[k] = me[k]
      BY DEF Heard
    <3> QED
      BY <3>1, <3>2, <3>3
  <2>2. Seen(m)'
    BY <2>1 DEF Seen
  <2> QED
    BY <2>1, <2>2, SeenKept
<1>12. CASE SyncStream(m)
  <2>1. PICK s \in me[m].todo :
          /\ s \in Streams /\ streamRow'[s] # "absent"
          /\ \A r \in Streams \ {s} : streamRow'[r] = streamRow[r]
          /\ me'[m].todo = me[m].todo \ {s}
          /\ pc'[m] = IF me'[m].todo # {} THEN "sync"
                      ELSE IF me'[m].unsent # <<>> THEN "tell" ELSE "persist"
          /\ \A k \in Managers \ {m} : pc'[k] = pc[k] /\ me'[k] = me[k]
    BY <1>12, RowWritten
  <2>2. pc[m] = "sync" /\ \A r \in Streams \ me[m].todo : streamRow[r] # "absent"
    BY <1>1, <1>12 DEF SyncStream, Seen
  <2>3. \A r \in Streams \ me'[m].todo : streamRow'[r] # "absent"
    BY <2>1, <2>2
  <2>4. Seen(m)'
    BY <2>1, <2>3 DEF Seen
  <2> QED
    BY <2>1, <2>4, SeenKept
<1> HIDE DEF HolderInv, Shape, Goes
<1> QED
  BY <1>5, <1>6, <1>7, <1>8, <1>9, <1>10, <1>11, <1>12 DEF StartUp, Loop, End

LEMMA SeenStep == HolderInv /\ TypeInv /\ SeenInv /\ [Next]_vars => SeenInv'
<1> SUFFICES ASSUME HolderInv, TypeInv, SeenInv, [Next]_vars PROVE SeenInv'
  OBVIOUS
<1>1. CASE Reboot
  BY <1>1 DEF Reboot, SeenInv, Seen
<1>2. CASE Acknowledge \/ SourceMoves \/ UNCHANGED vars
  BY <1>2 DEF Acknowledge, SourceMoves, vars, rows, SeenInv, Seen
<1> QED
  BY <1>1, <1>2, SeenSteps, ManagerAssumption DEF Next, Relaunch, LaunchBeside, Runs

\* Steps that write no row and tell of no stream; what waited may be dropped,
\* and then is torn.
LEMMA RowsKept ==
  ASSUME RowsInv, streamRow' = streamRow, torn \subseteq torn', ever \subseteq ever',
         \A e \in ever' \ ever : e.about \notin Streams,
         \A k \in Managers :
           \/ /\ me'[k].unsent = me[k].unsent
              /\ pc'[k] = "sync" => pc[k] = "sync" /\ me'[k].todo = me[k].todo
           \/ /\ me'[k].unsent = <<>>
              /\ \A i \in DOMAIN me[k].unsent : me[k].unsent[i].about \in torn',
         \A k \in Managers : \A i \in DOMAIN me[k].unsent : me[k].unsent[i].about \in Streams
  PROVE  RowsInv'
<1>1. ASSUME NEW k \in Managers PROVE UnsentInv(k)'
  <2>1. UnsentInv(k)
    BY DEF RowsInv
  <2>2. CASE me'[k].unsent = <<>>
    <3>1. DOMAIN me'[k].unsent = {}
      BY <2>2
    <3> QED
      BY <3>1 DEF UnsentInv
  <2>3. CASE me'[k].unsent = me[k].unsent
             /\ (pc'[k] = "sync" => pc[k] = "sync" /\ me'[k].todo = me[k].todo)
    <3> SUFFICES ASSUME NEW i \in DOMAIN me[k].unsent
                 PROVE  LET e == me[k].unsent[i]
                        IN /\ e.state = streamRow[e.about]
                           /\ \A d \in ever' : d.about = e.about => d.number < e.number
                           /\ \A j \in DOMAIN me[k].unsent :
                                me[k].unsent[j].about = e.about => i = j
                           /\ pc'[k] = "sync" => e.about \notin me'[k].todo
      BY <2>3 DEF UnsentInv
    <3> DEFINE e == me[k].unsent[i]
    <3>1. /\ e.state = streamRow[e.about]
          /\ \A d \in ever : d.about = e.about => d.number < e.number
          /\ \A j \in DOMAIN me[k].unsent : me[k].unsent[j].about = e.about => i = j
          /\ pc[k] = "sync" => e.about \notin me[k].todo
      BY <2>1 DEF UnsentInv
    <3>2. e.about \in Streams
      OBVIOUS
    <3> HIDE DEF e
    <3>3. \A d \in ever' : d.about = e.about => d.number < e.number
      BY <3>1, <3>2
    <3> QED
      BY <2>3, <3>1, <3>3 DEF e
  <2> QED
    BY <2>2, <2>3
<1>2. ASSUME NEW s \in Streams \ torn'
      PROVE  streamRow'[s] = "absent" \/ ToTell(s)' \/ Told(s)'
  <2>1. streamRow[s] = "absent" \/ ToTell(s) \/ Told(s)
    BY DEF RowsInv
  <2>2. CASE ToTell(s)
    <3>1. PICK k \in Managers : \E i \in DOMAIN me[k].unsent : me[k].unsent[i].about = s
      BY <2>2 DEF ToTell
    <3>2. me'[k].unsent = me[k].unsent
      BY <3>1
    <3> QED
      BY <3>1, <3>2 DEF ToTell
  <2>3. CASE Told(s)
    <3>1. PICK e \in ever : Tells(e, s)
      BY <2>3 DEF Told
    <3>2. \A other \in ever' : other.about = s => other \in ever
      OBVIOUS
    <3>3. e \in ever' /\ Tells(e, s)'
      BY <3>1, <3>2 DEF Tells
    <3> QED
      BY <3>3 DEF Told
  <2> QED
    BY <2>1, <2>2, <2>3
<1>3. ASSUME NEW s \in Streams, streamRow'[s] = "absent", NEW e \in ever' PROVE e.about # s
  BY <1>3 DEF RowsInv
<1> QED
  BY <1>1, <1>2, <1>3 DEF RowsInv

\* SyncStream: the new event is the newest and the only one about its stream.
LEMMA RowsSync ==
  ASSUME HolderInv, TypeInv, EventInv, RowsInv, NEW m \in Managers, SyncStream(m)
  PROVE  RowsInv'
<1>1. PICK s \in me[m].todo :
        LET state == Resolved(KindOf[s], me[m].heard[s])
            e == Event(s, state, stamp + 1)
        IN /\ s \in Streams /\ state \in StreamStates /\ state # "absent"
           /\ streamRow'[s] = state
           /\ \A r \in Streams \ {s} : streamRow'[r] = streamRow[r]
           /\ \/ streamRow[s] = state /\ me'[m].unsent = me[m].unsent
              \/ streamRow[s] # state /\ me'[m].unsent = Append(me[m].unsent, e)
           /\ me'[m].todo = me[m].todo \ {s} /\ me'[m].ending = me[m].ending
           /\ pc'[m] = IF me'[m].todo # {} THEN "sync"
                       ELSE IF me'[m].unsent # <<>> THEN "tell" ELSE "persist"
           /\ \A k \in Managers \ {m} : pc'[k] = pc[k] /\ me'[k] = me[k]
  BY RowWritten
<1> DEFINE state == Resolved(KindOf[s], me[m].heard[s])
           e == Event(s, state, stamp + 1)
<1>2. /\ s \in Streams /\ state \in StreamStates /\ state # "absent" /\ streamRow'[s] = state
      /\ \A r \in Streams \ {s} : streamRow'[r] = streamRow[r]
      /\ \/ streamRow[s] = state /\ me'[m].unsent = me[m].unsent
         \/ streamRow[s] # state /\ me'[m].unsent = Append(me[m].unsent, e)
      /\ me'[m].todo = me[m].todo \ {s}
      /\ \A k \in Managers \ {m} : pc'[k] = pc[k] /\ me'[k] = me[k]
  BY <1>1
<1>3. /\ ever' = ever /\ torn' = torn /\ pc[m] = "sync" /\ stamp \in Nat
      /\ me[m].unsent \in Seq(StreamEvents) /\ \A d \in ever : d.number \in 1..stamp
  BY DEF SyncStream, EventInv, LogInv, QueueInv
<1> HIDE DEF state
<1>4. e.about = s /\ e.state = state /\ e.number = stamp + 1
  BY EventFields
<1> HIDE DEF e
<1>5. ASSUME NEW k \in Managers \ {m}
      PROVE  DOMAIN me[k].unsent = {} /\ DOMAIN me'[k].unsent = {}
  <2>1. me[k].unsent = <<>> /\ me'[k].unsent = <<>>
    <3>1. pc[m] \notin Waiting
      BY <1>3 DEF Waiting
    <3> QED
      BY <1>2, <3>1, OthersWait DEF EventInv, QueueInv, Elsewhere
  <2> QED
    BY <2>1
<1>6. ASSUME NEW i \in DOMAIN me[m].unsent
      PROVE  LET d == me[m].unsent[i]
             IN /\ d.about # s /\ d.about \in Streams /\ d.state = streamRow[d.about]
                /\ d.about \notin me[m].todo
                /\ \A b \in ever : b.about = d.about => b.number < d.number
                /\ \A j \in DOMAIN me[m].unsent : me[m].unsent[j].about = d.about => i = j
  <2>1. me[m].unsent[i] \in StreamEvents
    BY <1>3, ElementOfSeq, LenProperties
  <2> QED
    BY <1>1, <1>3, <2>1, EventFields DEF RowsInv, UnsentInv
<1>7. \/ me'[m].unsent = me[m].unsent /\ streamRow' [s] = streamRow[s]
      \/ \A i \in DOMAIN me'[m].unsent : \/ me'[m].unsent[i] = e /\ i = Len(me[m].unsent) + 1
                                         \/ i \in DOMAIN me[m].unsent
                                            /\ me'[m].unsent[i] = me[m].unsent[i]
  BY <1>2, <1>3, AppendProperties, LenProperties
<1>8. UnsentInv(m)'
  <2> SUFFICES ASSUME NEW i \in DOMAIN me'[m].unsent
               PROVE  LET d == me'[m].unsent[i]
                      IN /\ d.state = streamRow'[d.about]
                         /\ \A b \in ever : b.about = d.about => b.number < d.number
                         /\ \A j \in DOMAIN me'[m].unsent : me'[m].unsent[j].about = d.about => i = j
                         /\ d.about \notin me'[m].todo
    BY <1>3 DEF UnsentInv
  <2>1. CASE i \in DOMAIN me[m].unsent /\ me'[m].unsent[i] = me[m].unsent[i]
    <3> DEFINE d == me[m].unsent[i]
    <3>1. /\ d.about # s /\ d.about \in Streams /\ d.state = streamRow[d.about]
          /\ d.about \notin me[m].todo
          /\ \A b \in ever : b.about = d.about => b.number < d.number
          /\ \A j \in DOMAIN me[m].unsent : me[m].unsent[j].about = d.about => i = j
      BY <1>6, <2>1
    <3> HIDE DEF d
    <3>2. \A j \in DOMAIN me'[m].unsent : me'[m].unsent[j].about = d.about => i = j
      BY <1>4, <1>7, <3>1
    <3> QED
      BY <1>2, <2>1, <3>1, <3>2 DEF d
  <2>2. CASE me'[m].unsent[i] = e /\ i = Len(me[m].unsent) + 1
             /\ ~(me'[m].unsent = me[m].unsent /\ streamRow'[s] = streamRow[s])
    <3>1. \A b \in ever : b.number < e.number
      BY <1>3, <1>4
    <3>2. \A j \in DOMAIN me'[m].unsent : me'[m].unsent[j].about = s => i = j
      BY <1>6, <1>7, <2>2
    <3> QED
      BY <1>2, <1>4, <2>2, <3>1, <3>2
  <2> QED
    BY <1>7, <2>1, <2>2
<1>9. \A k \in Managers : UnsentInv(k)'
  BY <1>5, <1>8 DEF UnsentInv
<1>10. ASSUME NEW r \in Streams \ torn'
       PROVE  streamRow'[r] = "absent" \/ ToTell(r)' \/ Told(r)'
  <2>1. CASE r = s /\ streamRow[s] # state
    <3>1. /\ Len(me[m].unsent) + 1 \in DOMAIN me'[m].unsent
          /\ me'[m].unsent[Len(me[m].unsent) + 1] = e
      BY <1>2, <1>3, <2>1, AppendProperties, LenProperties
    <3> QED
      BY <1>4, <2>1, <3>1 DEF ToTell
  <2>2. CASE ~(r = s /\ streamRow[s] # state)
    <3>1. streamRow'[r] = streamRow[r]
      BY <1>2, <2>2
    <3>2. streamRow[r] = "absent" \/ ToTell(r) \/ Told(r)
      BY <1>3 DEF RowsInv
    <3>3. CASE ToTell(r)
      <4>1. PICK i \in DOMAIN me[m].unsent : me[m].unsent[i].about = r
        BY <1>5, <3>3 DEF ToTell
      <4>2. i \in DOMAIN me'[m].unsent /\ me'[m].unsent[i] = me[m].unsent[i]
        BY <1>2, <1>3, AppendProperties, LenProperties
      <4> QED
        BY <4>1, <4>2 DEF ToTell
    <3>4. CASE Told(r)
      BY <1>3, <3>1, <3>4 DEF Told, Tells
    <3> QED
      BY <3>1, <3>2, <3>3, <3>4
  <2> QED
    BY <2>1, <2>2
<1>11. ASSUME NEW r \in Streams, streamRow'[r] = "absent", NEW b \in ever' PROVE b.about # r
  <2>1. streamRow[r] = "absent"
    BY <1>2, <1>11
  <2> QED
    BY <1>3, <2>1 DEF RowsInv
<1> QED
  BY <1>9, <1>10, <1>11 DEF RowsInv

\* TellStream: the event is the newest about its stream, and tells its row.
LEMMA RowsTell ==
  ASSUME HolderInv, TypeInv, EventInv, RowsInv, NEW m \in Managers, TellStream(m)
  PROVE  RowsInv'
<1> DEFINE q == me[m].unsent
           e == Head(q)
<1>1. /\ q \in Seq(StreamEvents) /\ q # <<>> /\ Waits(q, ever, stamp) /\ stamp \in Nat
      /\ StreamEvents \in SUBSET Events /\ pc[m] = "tell" /\ pc[m] \notin Waiting
  BY EventFields DEF EventInv, LogInv, QueueInv, TellStream, Waiting
<1>2. /\ ever' = ever \cup {e} /\ torn' = torn \ {e.about} /\ streamRow' = streamRow
      /\ me'[m].unsent = Tail(q) /\ pc'[m] # "sync"
      /\ \A k \in Managers \ {m} : pc'[k] = pc[k] /\ me'[k] = me[k]
  <2>1. DOMAIN me = Managers /\ DOMAIN pc = Managers /\ DOMAIN me[m] = DOMAIN Fresh
    BY DEF HolderInv, Shape
  <2> QED
    BY <2>1, FreshFields DEF TellStream, Appended, rows
<1>3. UnsentInv(m)
  BY DEF RowsInv
<1> HIDE DEF q
<1>4. /\ e \in StreamEvents /\ Tail(q) \in Seq(StreamEvents) /\ e = q[1] /\ 1 \in DOMAIN q
      /\ \A i \in DOMAIN Tail(q) : i + 1 \in DOMAIN q /\ Tail(q)[i] = q[i + 1] /\ i \in Nat \ {0}
  BY <1>1, Dequeued
<1>5. \A i \in DOMAIN q : i \in Nat /\ (i = 1 \/ (i - 1 \in DOMAIN Tail(q) /\ Tail(q)[i - 1] = q[i]))
  BY <1>1, HeadTailProperties, LenProperties
<1>6. /\ e.about \in Streams /\ e.state = streamRow[e.about] /\ e.number \in Nat
      /\ \A d \in ever : d.about = e.about => d.number < e.number
      /\ \A j \in DOMAIN q : q[j].about = e.about => j = 1
  BY <1>3, <1>4, EventFields DEF UnsentInv, q
<1> HIDE DEF e
<1>7. ASSUME NEW k \in Managers \ {m}
      PROVE  DOMAIN me[k].unsent = {} /\ DOMAIN me'[k].unsent = {}
  <2>1. me[k].unsent = <<>> /\ me'[k].unsent = <<>>
    BY <1>1, <1>2, OthersWait DEF EventInv, QueueInv, Elsewhere
  <2> QED
    BY <2>1
<1>8. UnsentInv(m)'
  <2> SUFFICES ASSUME NEW i \in DOMAIN Tail(q)
               PROVE  LET d == Tail(q)[i]
                      IN /\ d.state = streamRow[d.about]
                         /\ \A b \in ever' : b.about = d.about => b.number < d.number
                         /\ \A j \in DOMAIN Tail(q) : Tail(q)[j].about = d.about => i = j
    BY <1>2 DEF UnsentInv
  <2> DEFINE d == q[i + 1]
  <2>1. i + 1 \in DOMAIN q /\ Tail(q)[i] = d /\ i \in Nat \ {0}
    BY <1>4
  <2>2. /\ d.state = streamRow[d.about]
        /\ \A b \in ever : b.about = d.about => b.number < d.number
        /\ \A j \in DOMAIN q : q[j].about = d.about => i + 1 = j
    BY <1>3, <2>1 DEF UnsentInv, q
  <2>3. d.about # e.about
    BY <1>6, <2>1
  <2> HIDE DEF d
  <2>4. \A j \in DOMAIN Tail(q) : Tail(q)[j].about = d.about => i = j
    BY <1>4, <2>1, <2>2
  <2> QED
    BY <1>2, <2>1, <2>2, <2>3, <2>4
<1>9. \A k \in Managers : UnsentInv(k)'
  BY <1>7, <1>8 DEF UnsentInv
<1>10. ASSUME NEW r \in Streams \ torn'
       PROVE  streamRow'[r] = "absent" \/ ToTell(r)' \/ Told(r)'
  <2>1. CASE r = e.about
    <3>1. /\ e \in ever' /\ e.about = r /\ e.state = streamRow'[r]
          /\ \A other \in ever' : other.about = r => other.number <= e.number
      <4>1. \A d \in ever : d.number \in Nat
        BY DEF EventInv, LogInv
      <4>2. \A d \in ever : d.about = r => d.number <= e.number
        BY <1>6, <2>1, <4>1
      <4> QED
        BY <1>2, <1>6, <2>1, <4>2
    <3> QED
      BY <3>1 DEF Told, Tells
  <2>2. CASE r # e.about
    <3>1. streamRow[r] = "absent" \/ ToTell(r) \/ Told(r)
      BY <1>2, <2>2 DEF RowsInv
    <3>2. CASE ToTell(r)
      <4>1. PICK i \in DOMAIN q : q[i].about = r
        BY <1>7, <3>2 DEF ToTell, q
      <4>2. i # 1
        BY <1>4, <2>2, <4>1
      <4>3. i - 1 \in DOMAIN Tail(q) /\ Tail(q)[i - 1].about = r
        BY <1>5, <4>1, <4>2
      <4> QED
        BY <1>2, <4>3 DEF ToTell
    <3>3. CASE Told(r)
      BY <1>2, <2>2, <3>3 DEF Told, Tells
    <3> QED
      BY <1>2, <3>1, <3>2, <3>3
  <2> QED
    BY <2>1, <2>2
<1>11. ASSUME NEW r \in Streams, streamRow'[r] = "absent", NEW b \in ever' PROVE b.about # r
  <2>1. CASE b = e
    <3>1. streamRow[e.about] # "absent"
      <4>1. e.state # "absent"
        BY <1>4, EventFields DEF StreamEvents, StreamStates
      <4> QED
        BY <1>6, <4>1
    <3> QED
      BY <1>2, <1>11, <2>1, <3>1
  <2>2. CASE b \in ever
    BY <1>2, <1>11, <2>2 DEF RowsInv
  <2> QED
    BY <1>2, <2>1, <2>2
<1> QED
  BY <1>9, <1>10, <1>11 DEF RowsInv

LEMMA RowsSteps ==
  ASSUME HolderInv, TypeInv, EventInv, RowsInv, NEW m \in Managers,
         \/ Launched(m) \/ StartUp(m) \/ Loop(m) \/ PublishFails(m) \/ End(m) \/ Release(m)
  PROVE  RowsInv'
<1> USE FreshFields DEF Goes
<1>1. \A k \in Managers : \A i \in DOMAIN me[k].unsent : me[k].unsent[i].about \in Streams
  <2> SUFFICES ASSUME NEW k \in Managers, NEW i \in DOMAIN me[k].unsent
               PROVE  me[k].unsent[i].about \in Streams
    OBVIOUS
  <2>1. me[k].unsent \in Seq(StreamEvents)
    BY DEF EventInv, QueueInv
  <2>2. me[k].unsent[i] \in StreamEvents
    BY <2>1, ElementOfSeq, LenProperties
  <2> QED
    BY <2>2, EventFields
<1>2. /\ DOMAIN me = Managers /\ DOMAIN pc = Managers /\ DOMAIN me[m] = DOMAIN Fresh
      /\ QueueInv(m) /\ Fresh.unsent = <<>>
  BY DEF HolderInv, Shape, EventInv, Fresh
\* Nothing about what waits changes.
<1>3. ASSUME \A k \in Managers \ {m} : pc'[k] = pc[k] /\ me'[k] = me[k],
             me'[m].unsent = me[m].unsent, pc'[m] # "sync",
             streamRow' = streamRow, torn' = torn, ever \subseteq ever',
             \A e \in ever' \ ever : e.about \notin Streams
      PROVE  RowsInv'
  BY <1>1, <1>3, RowsKept
\* What waits is dropped.
<1>4. ASSUME \A k \in Managers \ {m} : pc'[k] = pc[k] /\ me'[k] = me[k],
             me'[m].unsent = <<>>, torn \subseteq torn',
             \A i \in DOMAIN me[m].unsent : me[m].unsent[i].about \in torn',
             streamRow' = streamRow, ever' = ever
      PROVE  RowsInv'
  BY <1>1, <1>4, RowsKept
<1>5. CASE UpdateMarker(m) \/ Acquire(m) \/ Consume(m) \/ NothingToConsume(m) \/ StartAll(m)
  BY <1>2, <1>3, <1>5
     DEF UpdateMarker, Acquire, Consume, NothingToConsume, StartAll, rows, record
<1>6. CASE Build(m) \/ AnnounceResume(m)
  <2>1. ever \subseteq ever' /\ \A e \in ever' \ ever : e.about = "job"
    <3>1. CASE UNCHANGED record
      BY <3>1 DEF record
    <3>2. CASE Announced("QUEUED")
      BY <3>2, EventFields DEF Announced, Appended
    <3> QED
      BY <1>6, <3>1, <3>2 DEF Build, AnnounceResume
  <2>2. /\ \A k \in Managers \ {m} : pc'[k] = pc[k] /\ me'[k] = me[k]
        /\ me'[m].unsent = me[m].unsent /\ pc'[m] # "sync"
        /\ streamRow' = streamRow /\ torn' = torn
    BY <1>2, <1>6 DEF Build, AnnounceResume, rows
  <2> QED
    BY <1>3, <2>1, <2>2, NamesAssumption
<1>7. CASE Launched(m) \/ Refused(m) \/ Release(m)
  <2>1. me[m].unsent = <<>>
    BY <1>2, <1>7 DEF Launched, Refused, Release, QueueInv, Elsewhere, Waiting
  <2>2. DOMAIN me[m].unsent = {}
    BY <2>1
  <2> QED
    BY <1>2, <1>4, <1>7, <2>2 DEF Launched, Refused, Release, rows, record
<1>8. CASE Fail(m) \/ Interrupt(m) \/ Crash(m)
  <2>1. \A i \in DOMAIN me[m].unsent : me[m].unsent[i].about \in Unsaid(m)
    BY DEF Unsaid
  <2> QED
    BY <1>2, <1>4, <1>8, <2>1 DEF Fail, Interrupt, Crash, rows, record
<1>9. CASE FailEarly(m) \/ Wake(m) \/ PersistRow(m)
  BY <1>2, <1>3, <1>9 DEF FailEarly, Wake, PersistRow, rows, record
<1>10. CASE PublishLatest(m) \/ PublishEvents(m) \/ PublishFails(m)
  BY <1>2, <1>3, <1>10
     DEF PublishLatest, PublishEvents, PublishFails, WindowMerged, AfterPublish, rows, record
<1>11. CASE PersistEvent(m)
  <2>1. /\ me[m].pending \in Seq(JobEvents) /\ me[m].pending # <<>> /\ pc[m] = "persist"
    BY <1>2, <1>11 DEF QueueInv, PersistEvent
  <2>2. Head(me[m].pending) \in JobEvents
    BY <2>1, HeadTailProperties
  <2>3. Head(me[m].pending).about = "job" /\ ever' = ever \cup {Head(me[m].pending)}
    BY <1>11, <2>2, EventFields DEF PersistEvent, Appended
  <2>4. /\ \A k \in Managers \ {m} : pc'[k] = pc[k] /\ me'[k] = me[k]
        /\ me'[m].unsent = me[m].unsent /\ pc'[m] # "sync"
        /\ streamRow' = streamRow /\ torn' = torn
    BY <1>2, <1>11, <2>1 DEF PersistEvent, rows
  <2> QED
    BY <1>3, <2>3, <2>4, NamesAssumption
<1>12. CASE Tick(m)
  <2>1. me[m].unsent = <<>>
    BY <1>2, <1>12 DEF Tick, QueueInv
  <2>2. DOMAIN me[m].unsent = {}
    BY <2>1
  <2>3. /\ \A k \in Managers \ {m} : pc'[k] = pc[k] /\ me'[k] = me[k]
        /\ me'[m].unsent = me[m].unsent
    <3>1. \E job, pending : Heard(m, job, pending)
      BY <1>12 DEF Tick
    <3>2. \A k \in Managers \ {m} : pc'[k] = pc[k]
      BY <1>2, <1>12 DEF Tick
    <3>3. \A job, pending : Heard(m, job, pending)
            => me'[m].unsent = me[m].unsent /\ \A k \in Managers \ {m} : me'[k] = me[k]
      BY <1>2 DEF Heard
    <3> QED
      BY <3>1, <3>2, <3>3
  <2>4. streamRow' = streamRow /\ torn' = torn /\ ever' = ever
    BY <1>12 DEF Tick, rows
  <2> QED
    BY <1>4, <2>1, <2>2, <2>3, <2>4
<1> QED
  BY <1>5, <1>6, <1>7, <1>8, <1>9, <1>10, <1>11, <1>12, RowsSync, RowsTell DEF StartUp, Loop, End

LEMMA RowsStep == HolderInv /\ TypeInv /\ EventInv /\ RowsInv /\ [Next]_vars => RowsInv'
<1> SUFFICES ASSUME HolderInv, TypeInv, EventInv, RowsInv, [Next]_vars PROVE RowsInv'
  OBVIOUS
<1>1. \A k \in Managers : \A i \in DOMAIN me[k].unsent : me[k].unsent[i].about \in Streams
  <2> SUFFICES ASSUME NEW k \in Managers, NEW i \in DOMAIN me[k].unsent
               PROVE  me[k].unsent[i].about \in Streams
    OBVIOUS
  <2>1. me[k].unsent \in Seq(StreamEvents)
    BY DEF EventInv, QueueInv
  <2>2. me[k].unsent[i] \in StreamEvents
    BY <2>1, ElementOfSeq, LenProperties
  <2> QED
    BY <2>2, EventFields
<1>2. CASE Reboot
  <2>1. \A k \in Managers : me'[k].unsent = <<>>
    BY <1>2 DEF Reboot, Fresh
  <2>2. \A k \in Managers : \A i \in DOMAIN me[k].unsent : me[k].unsent[i].about \in torn'
    BY <1>2 DEF Reboot, Unsaid
  <2>3. streamRow' = streamRow /\ torn \subseteq torn' /\ ever' = ever
    BY <1>2 DEF Reboot, rows, record
  <2> QED
    BY <1>1, <2>1, <2>2, <2>3, RowsKept
<1>3. CASE Acknowledge \/ SourceMoves \/ UNCHANGED vars
  <2>1. me' = me /\ pc' = pc /\ streamRow' = streamRow /\ torn' = torn /\ ever' = ever
    BY <1>3 DEF Acknowledge, SourceMoves, vars, rows, record
  <2> QED
    BY <1>1, <2>1, RowsKept
<1> QED
  BY <1>2, <1>3, RowsSteps, ManagerAssumption DEF Next, Relaunch, LaunchBeside, Runs

LEMMA StreamsInitially == Init => StreamInv
<1> SUFFICES ASSUME Init PROVE StreamInv
  OBVIOUS
<1>1. \A m \in Managers : pc[m] = "down" /\ me[m].unsent = <<>>
  BY DEF Init, Fresh
<1>2. SeenInv
  BY <1>1 DEF SeenInv, Seen
<1>3. ASSUME NEW m \in Managers PROVE UnsentInv(m)
  <2>1. DOMAIN me[m].unsent = {}
    BY <1>1
  <2> QED
    BY <2>1 DEF UnsentInv
<1>4. \A e \in ever : e.about = "past"
  BY EventFields DEF Init, Published
<1>5. RowsInv
  BY <1>3, <1>4, NamesAssumption DEF Init, RowsInv
<1> QED
  BY <1>2, <1>5 DEF StreamInv

\* Holder, types, events: what every later invariant needs.
THEOREM EventsInOrder == Spec => [](HolderInv /\ TypeInv /\ EventInv)
<1>1. Init => HolderInv /\ TypeInv /\ EventInv
  BY HolderInitially, TypeInitially, EventsInitially
<1>2. HolderInv /\ TypeInv /\ EventInv /\ [Next]_vars => (HolderInv /\ TypeInv /\ EventInv)'
  BY HolderStep, TypeStep, EventStep
<1> QED
  BY <1>1, <1>2, PTL DEF Spec

\* WorkstreamRegistry.sync
THEOREM EventsTellRows == Spec => []StreamEventsMatch
<1>1. StreamInv /\ HolderInv /\ TypeInv /\ EventInv /\ [Next]_vars => StreamInv'
  BY SeenStep, RowsStep DEF StreamInv
<1>2. HolderInv /\ EventInv /\ StreamInv => StreamEventsMatch
  <2> SUFFICES ASSUME HolderInv, EventInv, StreamInv, NEW m \in Managers, pc[m] = "idle",
                      NEW s \in Streams \ torn
               PROVE  \E event \in ever : Tells(event, s)
    BY DEF StreamEventsMatch
  <2>1. streamRow[s] # "absent"
    BY DEF StreamInv, SeenInv, Seen
  <2>2. ASSUME NEW k \in Managers PROVE DOMAIN me[k].unsent = {}
    <3>1. me[k].unsent = <<>>
      <4>1. CASE k = m
        BY <4>1 DEF EventInv, QueueInv, Elsewhere
      <4>2. CASE k # m
        BY <4>2, OthersWait DEF EventInv, QueueInv, Elsewhere, Waiting
      <4> QED
        BY <4>1, <4>2
    <3> QED
      BY <3>1
  <2> QED
    BY <2>1, <2>2 DEF StreamInv, RowsInv, ToTell, Told
<1> QED
  BY <1>1, <1>2, StreamsInitially, EventsInOrder, PTL DEF Spec

-----------------------------------------------------------------------------
(* The history of events, the table and the windows made of it.            *)

UpTo(cut) == {e \in ever : e.number <= cut}
Says(m, e) == (\E i \in DOMAIN me[m].pending : me[m].pending[i] = e)
              \/ (\E i \in DOMAIN me[m].unsent : me[m].unsent[i] = e)

\* A window that has all it should of the events up to a cut, when everything
\* that is still to be told is later than that.
CutAt(w, cut) ==
  /\ cut \in Past..stamp
  /\ \E W \in SUBSET UpTo(cut) : Lists(w, W) /\ NewestOf(UpTo(cut), Limit) \subseteq W
  /\ \A m \in Managers, e \in Events : Says(m, e) => e.number > cut
Settled(w) == \E cut \in Nat : CutAt(w, cut)

TableInv ==
  /\ table = NewestOf({e \in ever : e.number > Past}, Retention)
  /\ \A n \in 1..Past : \E e \in ever : e.number = n
WindowInv ==
  /\ Settled(shown)
  /\ \A m \in Managers :
       /\ pc[m] \in Running => Settled(me[m].window)
       /\ pc[m] = "events" => me[m].window = Newest(ever, Limit)

\* What a step adds to the log was said before, or is later than all there is.
Grows ==
  /\ stamp' \in {stamp, stamp + 1} /\ ever \subseteq ever'
  /\ \A e \in ever' \ ever : e.number > stamp \/ \E m \in Managers : Says(m, e)
  /\ \A k \in Managers, e \in Events :
       Says(k, e)' => e.number > stamp \/ \E m \in Managers : Says(m, e)

LEMMA SettledStays ==
  ASSUME EventInv, EventInv', Grows, NEW w, Settled(w), NEW v, v = w
  PROVE  \E cut \in Nat :
           /\ cut \in Past..stamp'
           /\ \E W \in SUBSET UpTo(cut)' : Lists(v, W) /\ NewestOf(UpTo(cut)', Limit) \subseteq W
           /\ \A m \in Managers, e \in Events : Says(m, e)' => e.number > cut
<1>1. PICK cut \in Nat : CutAt(w, cut)
  BY DEF Settled
<1>2. stamp \in Nat /\ Past \in Nat /\ ever' \subseteq Events /\ \A e \in Events : e.number \in Nat
  BY ManagerAssumption, EventFields DEF EventInv, LogInv
<1>3. cut \in Past..stamp /\ stamp' >= stamp
  BY <1>1, <1>2 DEF CutAt, Grows
<1>4. UpTo(cut)' = UpTo(cut)
  <2>1. ASSUME NEW e \in ever' \ ever PROVE e.number > cut
    <3>1. e \in Events /\ e.number \in Nat
      BY <1>2
    <3> QED
      BY <1>1, <1>2, <1>3, <2>1, <3>1 DEF CutAt, Grows
  <2>2. \A e \in ever' \ ever : ~(e.number <= cut)
    BY <1>2, <2>1
  <2> QED
    BY <2>2 DEF UpTo, Grows
<1>5. ASSUME NEW k \in Managers, NEW e \in Events, Says(k, e)' PROVE e.number > cut
  <2>1. e.number > stamp \/ \E m \in Managers : Says(m, e)
    BY <1>5 DEF Grows
  <2> QED
    BY <1>1, <1>2, <1>3, <2>1 DEF CutAt
<1>6. \E W \in SUBSET UpTo(cut)' : Lists(v, W) /\ NewestOf(UpTo(cut)', Limit) \subseteq W
  BY <1>1, <1>4 DEF CutAt
<1>7. cut \in Past..stamp'
  BY <1>2, <1>3 DEF Grows
<1> QED
  BY <1>5, <1>6, <1>7

\* What process m says after the step it said before, or is later.
Adds(m) ==
  /\ \A i \in DOMAIN me'[m].pending :
       me'[m].pending[i].number > stamp \/ Says(m, me'[m].pending[i])
  /\ \A i \in DOMAIN me'[m].unsent :
       me'[m].unsent[i].number > stamp \/ Says(m, me'[m].unsent[i])

LEMMA GrowsIf ==
  ASSUME NEW m \in Managers, \A k \in Managers \ {m} : me'[k] = me[k], Adds(m),
         stamp' \in {stamp, stamp + 1}, ever \subseteq ever',
         \A e \in ever' \ ever : e.number > stamp \/ Says(m, e)
  PROVE  Grows
<1>1. ASSUME NEW k \in Managers, NEW e \in Events, Says(k, e)'
      PROVE  e.number > stamp \/ \E n \in Managers : Says(n, e)
  <2>1. CASE k = m
    BY <1>1, <2>1 DEF Says, Adds
  <2>2. CASE k # m
    BY <1>1, <2>2 DEF Says
  <2> QED
    BY <2>1, <2>2
<1> QED
  BY <1>1 DEF Grows

LEMMA EventsGrow ==
  ASSUME HolderInv, TypeInv, EventInv, [Next]_vars
  PROVE  Grows
<1> USE FreshFields
<1>1. ASSUME UNCHANGED record, \A k \in Managers : Calm(k) PROVE Grows
  <2>1. ASSUME NEW k \in Managers, NEW e \in Events, Says(k, e)' PROVE Says(k, e)
    <3>1. \/ me'[k].pending = <<>> /\ me'[k].unsent = <<>>
          \/ me'[k].pending = me[k].pending /\ me'[k].unsent \in {me[k].unsent, <<>>}
      BY <1>1 DEF Calm
    <3>2. DOMAIN <<>> = {}
      OBVIOUS
    <3> QED
      BY <2>1, <3>1, <3>2 DEF Says
  <2>2. stamp' = stamp /\ ever' = ever
    BY <1>1 DEF record
  <2> QED
    BY <2>1, <2>2 DEF Grows
<1>2. CASE Reboot \/ Acknowledge \/ SourceMoves \/ UNCHANGED vars
  BY <1>1, <1>2, CalmHost
<1>3. ASSUME NEW m \in Managers,
             \/ Launched(m) \/ Acquire(m) \/ Refused(m) \/ UpdateMarker(m) \/ Consume(m)
             \/ NothingToConsume(m) \/ PersistRow(m) \/ PublishLatest(m) \/ PublishEvents(m)
             \/ PublishFails(m) \/ Wake(m) \/ FailEarly(m) \/ Fail(m) \/ Release(m) \/ Crash(m)
      PROVE  Grows
  BY <1>1, <1>3, CalmSteps
<1>4. ASSUME NEW m \in Managers
      PROVE  /\ DOMAIN me = Managers /\ DOMAIN me[m] = DOMAIN Fresh /\ stamp \in Nat
             /\ me[m].pending \in Seq(JobEvents) /\ me[m].unsent \in Seq(StreamEvents)
             /\ QueueInv(m)
  BY DEF HolderInv, Shape, EventInv, LogInv, QueueInv
<1>5. ASSUME NEW m \in Managers, me'[m].pending = me[m].pending, me'[m].unsent = me[m].unsent
      PROVE  Adds(m)
  BY <1>5 DEF Adds, Says
<1>6. ASSUME NEW m \in Managers, Build(m) \/ AnnounceResume(m) PROVE Grows
  <2>1. \/ stamp' = stamp + 1 /\ ever' = ever \cup {Event("job", "QUEUED", stamp + 1)}
        \/ stamp' = stamp /\ ever' = ever
    BY <1>6 DEF Build, AnnounceResume, Announced, Appended, record
  <2>2. Event("job", "QUEUED", stamp + 1).number > stamp
    BY <1>4, EventFields
  <2>3. /\ \A k \in Managers \ {m} : me'[k] = me[k]
        /\ me'[m].pending = me[m].pending /\ me'[m].unsent = me[m].unsent
    BY <1>4, <1>6 DEF Build, AnnounceResume
  <2> QED
    BY <1>5, <2>1, <2>2, <2>3, GrowsIf
\* An event is queued behind what waits.
<1>7. ASSUME NEW m \in Managers, \A k \in Managers \ {m} : me'[k] = me[k], NEW state,
             me'[m].pending = Append(me[m].pending, Event("job", state, stamp + 1)),
             me'[m].unsent \in {me[m].unsent, <<>>},
             stamp' = stamp + 1, ever' = ever
      PROVE  Grows
  <2> DEFINE e == Event("job", state, stamp + 1)
  <2>1. e.number > stamp
    BY <1>4, EventFields
  <2>2. me'[m].pending = Append(me[m].pending, e)
    BY <1>7
  <2> HIDE DEF e
  <2>3. \A i \in DOMAIN me'[m].pending : \/ me'[m].pending[i] = e
                                         \/ i \in DOMAIN me[m].pending
                                            /\ me'[m].pending[i] = me[m].pending[i]
    BY <1>4, <2>2, AppendProperties, LenProperties
  <2>4. DOMAIN <<>> = {}
    OBVIOUS
  <2>5. Adds(m)
    BY <1>7, <2>1, <2>3, <2>4 DEF Adds, Says
  <2> QED
    BY <1>7, <2>5, GrowsIf
<1>8. ASSUME NEW m \in Managers, StartAll(m) \/ Interrupt(m) PROVE Grows
  <2>1. CASE StartAll(m)
    <3>1. me[m].pending = <<>>
      BY <1>4, <2>1 DEF StartAll, Goes, QueueInv, Elsewhere, Starting
    <3>2. /\ \A k \in Managers \ {m} : me'[k] = me[k]
          /\ me'[m].pending = <<Event("job", "RUNNING", stamp + 1)>>
          /\ me'[m].unsent = me[m].unsent /\ stamp' = stamp + 1 /\ ever' = ever
      BY <1>4, <2>1 DEF StartAll
    <3>3. me'[m].pending = Append(me[m].pending, Event("job", "RUNNING", stamp + 1))
      BY <3>1, <3>2
    <3> QED
      BY <1>7, <3>2, <3>3
  <2>2. CASE Interrupt(m)
    <3>1. /\ \A k \in Managers \ {m} : me'[k] = me[k]
          /\ me'[m].pending = Append(me[m].pending, Event("job", "CANCELLED", stamp + 1))
          /\ me'[m].unsent = <<>> /\ stamp' = stamp + 1 /\ ever' = ever
      BY <1>4, <2>2 DEF Interrupt
    <3> QED
      BY <1>7, <3>1
  <2> QED
    BY <1>8, <2>1, <2>2
<1>9. ASSUME NEW m \in Managers, Tick(m) PROVE Grows
  <2>1. PICK job \in Ticked(me[m].job) :
          IF job = me[m].job
            THEN Heard(m, job, me[m].pending) /\ stamp' = stamp
            ELSE /\ stamp' = stamp + 1
                 /\ Heard(m, job, Append(me[m].pending, Event("job", job.state, stamp')))
    BY <1>9 DEF Tick
  <2>2. \A pending : Heard(m, job, pending)
          => /\ me'[m].pending = pending /\ me'[m].unsent = me[m].unsent
             /\ \A k \in Managers \ {m} : me'[k] = me[k]
    BY <1>4 DEF Heard
  <2>3. ever' = ever
    BY <1>9 DEF Tick
  <2>4. CASE job = me[m].job
    <3>1. Adds(m)
      BY <1>5, <2>1, <2>2, <2>4
    <3> QED
      BY <2>1, <2>2, <2>3, <2>4, <3>1, GrowsIf
  <2>5. CASE job # me[m].job
    <3> DEFINE state == job.state
    <3>1. me'[m].pending = Append(me[m].pending, Event("job", state, stamp + 1))
      BY <2>1, <2>2, <2>5
    <3>2. stamp' = stamp + 1 /\ me'[m].unsent = me[m].unsent /\ \A k \in Managers \ {m} : me'[k] = me[k]
      BY <2>1, <2>2, <2>5
    <3> HIDE DEF state
    <3> QED
      BY <1>7, <2>3, <3>1, <3>2
  <2> QED
    BY <2>4, <2>5
<1>10. ASSUME NEW m \in Managers, SyncStream(m) PROVE Grows
  <2>1. PICK s \in me[m].todo :
          \/ me'[m].unsent = me[m].unsent
          \/ me'[m].unsent = Append(me[m].unsent,
                                    Event(s, Resolved(KindOf[s], me[m].heard[s]), stamp + 1))
    BY <1>10, RowWritten
  <2> DEFINE e == Event(s, Resolved(KindOf[s], me[m].heard[s]), stamp + 1)
  <2>2. e.number > stamp
    BY <1>4, EventFields
  <2> HIDE DEF e
  <2>3. /\ \A k \in Managers \ {m} : me'[k] = me[k]
        /\ me'[m].pending = me[m].pending /\ stamp' \in {stamp, stamp + 1} /\ ever' = ever
    BY <1>4, <1>10 DEF SyncStream
  <2>4. \A i \in DOMAIN me'[m].unsent : \/ me'[m].unsent[i] = e
                                        \/ i \in DOMAIN me[m].unsent
                                           /\ me'[m].unsent[i] = me[m].unsent[i]
    <3>1. CASE me'[m].unsent = me[m].unsent
      BY <3>1
    <3>2. CASE me'[m].unsent = Append(me[m].unsent, e)
      BY <1>4, <3>2, AppendProperties, LenProperties
    <3> QED
      BY <2>1, <3>1, <3>2 DEF e
  <2>5. Adds(m)
    BY <2>2, <2>3, <2>4 DEF Adds, Says
  <2> QED
    BY <2>3, <2>5, GrowsIf
<1>11. ASSUME NEW m \in Managers, TellStream(m) \/ PersistEvent(m) PROVE Grows
  <2>1. \A k \in Managers \ {m} : me'[k] = me[k]
    BY <1>4, <1>11 DEF TellStream, PersistEvent
  <2>2. stamp' = stamp
    BY <1>11 DEF TellStream, PersistEvent
  <2>3. ASSUME NEW q, NEW T, q \in Seq(T), q # <<>>
        PROVE  /\ 1 \in DOMAIN q /\ Head(q) = q[1]
               /\ \A i \in DOMAIN Tail(q) : i + 1 \in DOMAIN q /\ Tail(q)[i] = q[i + 1]
    BY <2>3, HeadTailProperties, LenProperties, EmptySeq
  <2>4. CASE TellStream(m)
    <3>1. me[m].unsent # <<>>
      BY <1>4, <2>4 DEF QueueInv, TellStream
    <3>2. /\ ever' = ever \cup {Head(me[m].unsent)} /\ me'[m].unsent = Tail(me[m].unsent)
          /\ me'[m].pending = me[m].pending
      BY <1>4, <2>4 DEF TellStream, Appended
    <3>3. /\ 1 \in DOMAIN me[m].unsent /\ Head(me[m].unsent) = me[m].unsent[1]
          /\ \A i \in DOMAIN me'[m].unsent :
               i + 1 \in DOMAIN me[m].unsent /\ me'[m].unsent[i] = me[m].unsent[i + 1]
      BY <1>4, <2>3, <3>1, <3>2
    <3>4. Says(m, Head(me[m].unsent)) /\ Adds(m)
      BY <3>2, <3>3 DEF Says, Adds
    <3> QED
      BY <2>1, <2>2, <3>2, <3>4, GrowsIf
  <2>5. CASE PersistEvent(m)
    <3>1. me[m].pending # <<>>
      BY <2>5 DEF PersistEvent
    <3>2. /\ ever' = ever \cup {Head(me[m].pending)} /\ me'[m].pending = Tail(me[m].pending)
          /\ me'[m].unsent = me[m].unsent
      BY <1>4, <2>5 DEF PersistEvent, Appended
    <3>3. /\ 1 \in DOMAIN me[m].pending /\ Head(me[m].pending) = me[m].pending[1]
          /\ \A i \in DOMAIN me'[m].pending :
               i + 1 \in DOMAIN me[m].pending /\ me'[m].pending[i] = me[m].pending[i + 1]
      BY <1>4, <2>3, <3>1, <3>2
    <3>4. Says(m, Head(me[m].pending)) /\ Adds(m)
      BY <3>2, <3>3 DEF Says, Adds
    <3> QED
      BY <2>1, <2>2, <3>2, <3>4, GrowsIf
  <2> QED
    BY <1>11, <2>4, <2>5
<1> QED
  BY <1>2, <1>3, <1>6, <1>8, <1>9, <1>10, <1>11, ManagerAssumption
     DEF Next, Relaunch, LaunchBeside, Runs, StartUp, Loop, End

LEMMA TableGrows ==
  ASSUME EventInv, EventInv', TableInv, NEW e \in Events, Appended(e), e.number > Past
  PROVE  TableInv'
<1> DEFINE S == {d \in ever : d.number > Past}
           T == {d \in ever' : d.number > Past}
<1>1. Numbered(ever') /\ Retention \in Nat /\ ever' = ever \cup {e}
  BY ManagerAssumption DEF EventInv, LogInv, Appended
<1>2. T = S \cup {e} /\ Numbered(T)
  <2>1. T = S \cup {e}
    BY <1>1
  <2>2. T \in SUBSET ever'
    OBVIOUS
  <2> HIDE DEF T
  <2> QED
    BY <1>1, <2>1, <2>2, NumberedSubset
<1>3. table = NewestOf(S, Retention) /\ table' = NewestOf(table \cup {e}, Retention)
  BY DEF TableInv, Appended, Stored
<1> HIDE DEF S, T
<1>4. table \cup {e} \in SUBSET T
  BY <1>2, <1>3 DEF NewestOf
<1>5. ASSUME NEW d \in NewestOf(T, Retention) PROVE d \in table \cup {e}
  <2>1. d \in T /\ Newer(T, d) < Retention
    BY DEF NewestOf
  <2>2. S \in SUBSET T
    BY <1>2
  <2>3. Newer(S, d) \in Nat /\ Newer(T, d) \in Nat /\ Newer(S, d) <= Newer(T, d)
    BY <1>2, <2>2, FewerAreNewer
  <2> QED
    BY <1>1, <1>2, <1>3, <2>1, <2>3 DEF NewestOf
<1>6. NewestOf(table \cup {e}, Retention) = NewestOf(T, Retention)
  BY <1>1, <1>2, <1>4, <1>5, NewestSuffice
<1>7. \A n \in 1..Past : \E d \in ever' : d.number = n
  BY <1>1 DEF TableInv
<1> QED
  BY <1>3, <1>6, <1>7 DEF TableInv, T

LEMMA TableStep ==
  ASSUME HolderInv, TypeInv, EventInv, EventInv', TableInv, [Next]_vars
  PROVE  TableInv'
<1>1. stamp \in Nat /\ Past \in Nat /\ Past <= stamp
  BY ManagerAssumption DEF EventInv, LogInv
<1>2. ASSUME table' = table, ever' = ever PROVE TableInv'
  BY <1>2 DEF TableInv
<1>3. CASE Reboot \/ Acknowledge \/ SourceMoves \/ UNCHANGED vars
  BY <1>2, <1>3 DEF Reboot, Acknowledge, SourceMoves, vars, record
<1>4. ASSUME NEW m \in Managers,
             \/ Launched(m) \/ Acquire(m) \/ Refused(m) \/ UpdateMarker(m) \/ Consume(m)
             \/ NothingToConsume(m) \/ PersistRow(m) \/ PublishLatest(m) \/ PublishEvents(m)
             \/ PublishFails(m) \/ Wake(m) \/ FailEarly(m) \/ Fail(m) \/ Release(m) \/ Crash(m)
      PROVE  TableInv'
  <2>1. UNCHANGED record
    BY <1>4, CalmSteps
  <2> QED
    BY <1>2, <2>1 DEF record
<1>5. ASSUME NEW m \in Managers, StartAll(m) \/ Tick(m) \/ Interrupt(m) \/ SyncStream(m)
      PROVE  TableInv'
  BY <1>2, <1>5 DEF StartAll, Tick, Interrupt, SyncStream
<1>6. ASSUME NEW m \in Managers, Build(m) \/ AnnounceResume(m) PROVE TableInv'
  <2>1. CASE UNCHANGED record
    BY <1>2, <2>1 DEF record
  <2>2. CASE Announced("QUEUED")
    <3> DEFINE e == Event("job", "QUEUED", stamp + 1)
    <3>1. Appended(e)
      BY <2>2 DEF Announced
    <3>2. e \in Events /\ e.number = stamp + 1
      <4>1. "QUEUED" \in JobStates /\ stamp + 1 \in Nat
        BY <1>1 DEF JobStates
      <4> QED
        BY <4>1, JobEvent
    <3> HIDE DEF e
    <3> QED
      BY <1>1, <3>1, <3>2, TableGrows
  <2> QED
    BY <1>6, <2>1, <2>2 DEF Build, AnnounceResume
<1>7. ASSUME NEW q, NEW T \in SUBSET Events, q \in Seq(T), q # <<>>, Waits(q, ever, stamp),
             Appended(Head(q))
      PROVE  TableInv'
  <2>1. /\ Head(q) \in Events /\ Head(q).number \in 1..stamp
        /\ \A d \in ever : d.number # Head(q).number
    BY <1>1, <1>7, Dequeued
  <2>2. Head(q).number > Past
    BY <1>1, <2>1 DEF TableInv
  <2> QED
    BY <1>7, <2>1, <2>2, TableGrows
<1>8. ASSUME NEW m \in Managers, TellStream(m) PROVE TableInv'
  <2>1. /\ me[m].unsent \in Seq(StreamEvents) /\ Waits(me[m].unsent, ever, stamp)
        /\ me[m].unsent # <<>> /\ Appended(Head(me[m].unsent)) /\ StreamEvents \in SUBSET Events
    BY <1>8, EventFields DEF EventInv, QueueInv, TellStream
  <2> QED
    BY <1>7, <2>1
<1>9. ASSUME NEW m \in Managers, PersistEvent(m) PROVE TableInv'
  <2>1. /\ me[m].pending \in Seq(JobEvents) /\ Waits(me[m].pending, ever, stamp)
        /\ me[m].pending # <<>> /\ Appended(Head(me[m].pending)) /\ JobEvents \in SUBSET Events
    BY <1>9, EventFields DEF EventInv, QueueInv, PersistEvent
  <2> QED
    BY <1>7, <2>1
<1> QED
  BY <1>3, <1>4, <1>5, <1>6, <1>8, <1>9, ManagerAssumption
     DEF Next, Relaunch, LaunchBeside, Runs, StartUp, Loop, End

LEMMA TableInitially == Init => TableInv
<1> SUFFICES ASSUME Init PROVE TableInv
  OBVIOUS
<1> DEFINE p(n) == Event("past", "RUNNING", n)
<1>1. Past \in Nat /\ ever = {p(n) : n \in 1..Past}
  BY ManagerAssumption DEF Init, Published
<1>2. \A n \in 1..Past : p(n).number = n
  BY EventFields
<1> HIDE DEF p
<1>3. {e \in ever : e.number > Past} = {}
  BY <1>1, <1>2
<1>4. NewestOf({}, Retention) = {}
  BY DEF NewestOf
<1>5. table = NewestOf({e \in ever : e.number > Past}, Retention)
  BY <1>3, <1>4 DEF Init
<1>6. \A n \in 1..Past : \E e \in ever : e.number = n
  BY <1>1, <1>2
<1> QED
  BY <1>5, <1>6 DEF TableInv

\* merge_public_events on what a process knows and what the store has: the
\* newest of all events there ever were.
LEMMA MergedWindow ==
  ASSUME EventInv, TableInv, NEW w, NEW cut \in Nat, CutAt(w, cut)
  PROVE  Merged(w \o Recent(table)) = Newest(ever, Limit)
<1> DEFINE S == {d \in ever : d.number > Past}
           new == NewestOf(S, Limit)
           U == UpTo(cut)
<1>1. /\ Numbered(ever) /\ ever \subseteq Events /\ \A e \in ever : e.number \in 1..stamp
      /\ Limit \in Nat /\ Retention \in Nat /\ Limit <= Retention /\ stamp \in Nat /\ Past \in Nat
  BY ManagerAssumption DEF EventInv, LogInv
<1>2. PICK old \in SUBSET U : Lists(w, old) /\ NewestOf(U, Limit) \subseteq old
  BY DEF CutAt
<1>3. cut \in Past..stamp
  BY DEF CutAt
<1>4. S \in SUBSET ever /\ U \in SUBSET ever
  BY DEF UpTo
<1>5. Numbered(S) /\ Numbered(U)
  <2> HIDE DEF S, U
  <2> QED
    BY <1>1, <1>4, NumberedSubset
<1>6. \A e : e \in S <=> e \in ever /\ e.number > Past
  OBVIOUS
<1>7. \A e : e \in U <=> e \in ever /\ e.number <= cut
  BY DEF UpTo
<1>8. table = NewestOf(S, Retention)
  BY DEF TableInv
<1> HIDE DEF S, U
<1>9. NewestOf(table, Limit) = new
  <2>1. NewestOf(S, Limit) \subseteq table /\ table \in SUBSET S
    <3>1. \A e \in S : Newer(S, e) \in 0..(Cardinality(S) - 1) /\ Cardinality(S) \in Nat
      BY <1>5, Ranks
    <3> QED
      BY <1>1, <1>8, <3>1 DEF NewestOf
  <2> QED
    BY <1>1, <1>5, <2>1, NewestSuffice
<1>10. new \in SUBSET S /\ old \in SUBSET ever /\ new \in SUBSET ever
  BY <1>2, <1>4 DEF NewestOf
<1>11. ASSUME NEW e \in ever, e.number > Past
       PROVE  e \in new <=> e \in NewestOf(ever, Limit)
  <2>1. Newer(S, e) = Newer(ever, e)
    <3>1. \A d \in ever : d.number > e.number => d \in S
      BY <1>1, <1>6, <1>11
    <3> QED
      BY <1>1, <1>4, <3>1, FewerAreNewer
  <2> QED
    BY <1>6, <1>11, <2>1 DEF NewestOf
<1>12. ASSUME NEW e \in NewestOf(ever, Limit), e.number <= cut
       PROVE  e \in old
  <2>1. e \in ever /\ Newer(ever, e) < Limit
    BY <1>12 DEF NewestOf
  <2>2. Newer(U, e) \in Nat /\ Newer(ever, e) \in Nat /\ Newer(U, e) <= Newer(ever, e)
    BY <1>1, <1>4, FewerAreNewer
  <2>3. e \in NewestOf(U, Limit)
    BY <1>1, <1>7, <1>12, <2>1, <2>2 DEF NewestOf
  <2> QED
    BY <1>2, <2>3
<1>13. ASSUME NEW e \in new \ old, NEW d \in old PROVE d.number < e.number
  <2>1. e \in ever /\ e.number > Past /\ e.number \in Nat
    BY <1>1, <1>6, <1>10
  <2>2. e \in NewestOf(ever, Limit)
    BY <1>11, <2>1
  <2>3. ~(e.number <= cut)
    BY <1>12, <2>2
  <2>4. d.number <= cut /\ d.number \in Nat
    BY <1>1, <1>2, <1>7
  <2> QED
    BY <2>1, <2>3, <2>4
<1>14. \A d, e \in ever : d.id = e.id => d = e
  <2> SUFFICES ASSUME NEW d \in ever, NEW e \in ever, d.id = e.id PROVE d = e
    OBVIOUS
  <2>1. d.id = <<d.about, d.number>> /\ e.id = <<e.about, e.number>>
    BY <1>1, EventFields
  <2>2. \A a, b, n, k : <<a, n>> = <<b, k>> => n = k
    OBVIOUS
  <2>3. d.number = e.number
    BY <2>1, <2>2
  <2> QED
    BY <1>1, <2>3 DEF Numbered
<1>15. Lists(Recent(table), new)
  <2>1. Numbered(table)
    <3>1. table \in SUBSET S
      BY <1>8 DEF NewestOf
    <3> QED
      BY <1>5, <3>1, NumberedSubset
  <2> QED
    BY <1>1, <1>9, <2>1, NewestIsListing DEF Recent
<1> HIDE DEF new
<1>16. Lists(Merged(w \o Recent(table)), NewestOf(old \cup new, Limit))
  BY <1>1, <1>2, <1>10, <1>13, <1>14, <1>15, MergedIsListing
<1>17. NewestOf(old \cup new, Limit) = NewestOf(ever, Limit)
  <2>1. \A e \in NewestOf(ever, Limit) : e \in ever /\ e.number \in Nat
    BY <1>1 DEF NewestOf
  <2>2. NewestOf(ever, Limit) \subseteq old \cup new
    <3> SUFFICES ASSUME NEW e \in NewestOf(ever, Limit), e \notin old PROVE e \in new
      OBVIOUS
    <3>1. ~(e.number <= cut)
      BY <1>12
    <3>2. e.number > Past
      BY <1>1, <1>3, <2>1, <3>1
    <3> QED
      BY <1>11, <2>1, <3>2
  <2>3. old \cup new \in SUBSET ever
    BY <1>10
  <2> QED
    BY <1>1, <2>2, <2>3, NewestSuffice
<1>18. Lists(Newest(ever, Limit), NewestOf(ever, Limit)) /\ Numbered(NewestOf(ever, Limit))
  <2>1. NewestOf(ever, Limit) \in SUBSET ever
    BY DEF NewestOf
  <2> QED
    BY <1>1, <2>1, NewestIsListing, NumberedSubset
<1> QED
  BY <1>16, <1>17, <1>18, OneListing

LEMMA WindowInitially == Init => WindowInv
<1> SUFFICES ASSUME Init PROVE WindowInv
  OBVIOUS
<1>1. EventInv /\ stamp = Past /\ Past \in Nat
  BY EventsInitially, ManagerAssumption DEF Init
<1>2. /\ shown = Published /\ ever = {Published[n] : n \in 1..Past}
      /\ \A m \in Managers : pc[m] = "down" /\ me[m] = Fresh
  BY DEF Init
<1>3. \A n \in 1..Past : Published[n].number = n
  BY EventFields DEF Published
<1>4. UpTo(Past) = ever
  BY <1>1 DEF EventInv, LogInv, UpTo
<1>5. Lists(Published, ever)
  <2>1. Published \in [1..Past -> ever]
    BY <1>2 DEF Published
  <2>2. Ordered(Published)
    BY <1>1, <1>3, <2>1 DEF Ordered
  <2>3. \A e \in ever : \E i \in 1..Past : Published[i] = e
    BY <1>2
  <2>4. Numbered(ever)
    BY <1>1 DEF EventInv, LogInv
  <2> QED
    BY <1>1, <2>1, <2>2, <2>3, <2>4, OrderedRanks
<1>6. \A m \in Managers : \A e : ~Says(m, e)
  <2>1. Fresh.pending = <<>> /\ Fresh.unsent = <<>> /\ DOMAIN <<>> = {}
    BY DEF Fresh
  <2> QED
    BY <1>2, <2>1 DEF Says
<1>7. CutAt(shown, Past)
  <2>1. NewestOf(ever, Limit) \subseteq ever
    BY DEF NewestOf
  <2> QED
    BY <1>1, <1>2, <1>4, <1>5, <1>6, <2>1 DEF CutAt
<1> QED
  BY <1>1, <1>2, <1>7 DEF WindowInv, Settled, Running, Fallible

\* Steps that leave the public file alone, and every window there is to a
\* process that has one.
LEMMA WindowKept ==
  ASSUME EventInv, EventInv', Grows, WindowInv, shown' = shown, NEW m \in Managers,
         \A k \in Managers \ {m} : pc'[k] = pc[k] /\ me'[k] = me[k],
         \A k \in Managers \ {m} : pc[k] \notin Running,
         \/ pc'[m] \notin Running
         \/ pc[m] \in Running /\ me'[m].window = me[m].window
         \/ me'[m].window = shown,
         pc'[m] # "events"
  PROVE  WindowInv'
<1>1. Settled(shown)'
  BY SettledStays DEF WindowInv, Settled, CutAt
<1>2. ASSUME NEW k \in Managers, pc'[k] \in Running PROVE k = m /\ Settled(me[k].window)'
  <2>1. k = m
    BY <1>2
  <2>2. CASE pc[m] \in Running /\ me'[m].window = me[m].window
    <3>1. Settled(me[m].window)
      BY <2>2 DEF WindowInv
    <3> QED
      BY <2>1, <2>2, <3>1, SettledStays DEF Settled, CutAt
  <2>3. CASE me'[m].window = shown
    BY <2>1, <2>3, SettledStays DEF WindowInv, Settled, CutAt
  <2> QED
    BY <1>2, <2>1, <2>2, <2>3
<1>3. "events" \in Running
  BY DEF Running
<1> QED
  BY <1>1, <1>2, <1>3 DEF WindowInv

\* Steps that append nothing and leave the windows alone.
LEMMA WindowsQuiet ==
  ASSUME EventInv, EventInv', Grows, WindowInv, shown' = shown, ever' = ever,
         \A k \in Managers :
           \/ pc'[k] \notin Running
           \/ /\ pc[k] \in Running /\ me'[k].window = me[k].window
              /\ pc'[k] = "events" => pc[k] = "events"
  PROVE  WindowInv'
<1>1. Settled(shown)'
  BY SettledStays DEF WindowInv, Settled, CutAt
<1>2. ASSUME NEW k \in Managers, pc'[k] \in Running PROVE Settled(me[k].window)'
  <2>1. pc[k] \in Running /\ me'[k].window = me[k].window /\ Settled(me[k].window)
    BY <1>2 DEF WindowInv
  <2> QED
    BY <2>1, SettledStays DEF Settled, CutAt
<1>3. ASSUME NEW k \in Managers, pc'[k] = "events" PROVE me'[k].window = Newest(ever', Limit)
  <2>1. pc'[k] \in Running
    BY <1>3 DEF Running
  <2> QED
    BY <1>3, <2>1 DEF WindowInv
<1> QED
  BY <1>1, <1>2, <1>3 DEF WindowInv

\* TelemetryPublisher.publish, the first half: the window is whole.
LEMMA WindowIsMerged ==
  ASSUME HolderInv, EventInv, EventInv', Grows, TableInv, WindowInv, NEW m \in Managers,
         pc[m] = "publish", WindowMerged(m), UNCHANGED record, shown' = shown,
         \A k \in Managers \ {m} : pc'[k] = pc[k]
  PROVE  WindowInv'
<1>1. /\ DOMAIN me = Managers /\ DOMAIN me[m] = DOMAIN Fresh /\ ever' = ever /\ stamp' = stamp
      /\ stamp \in Nat /\ Past \in Nat /\ Past <= stamp
      /\ Numbered(ever) /\ \A e \in ever : e.number \in 1..stamp
  BY ManagerAssumption DEF HolderInv, Shape, record, EventInv, LogInv
<1>2. /\ me'[m].window = Merged(me[m].window \o Recent(table))
      /\ \A k \in Managers \ {m} : me'[k] = me[k]
      /\ me'[m].pending = me[m].pending /\ me'[m].unsent = me[m].unsent
  BY <1>1, FreshFields DEF WindowMerged
<1>3. Settled(me[m].window)
  BY DEF WindowInv, Running, Fallible
<1>4. me'[m].window = Newest(ever, Limit)
  BY <1>2, <1>3, MergedWindow DEF Settled
<1>5. ASSUME NEW k \in Managers, NEW e, Says(k, e)' PROVE FALSE
  <2>1. me'[k].pending = <<>> /\ me'[k].unsent = <<>>
    <3>1. CASE k = m
      BY <1>2, <3>1 DEF EventInv, QueueInv, Elsewhere
    <3>2. CASE k # m
      BY <1>2, <3>2, OthersWait DEF EventInv, QueueInv, Elsewhere, Waiting
    <3> QED
      BY <3>1, <3>2
  <2>2. DOMAIN <<>> = {}
    OBVIOUS
  <2> QED
    BY <1>5, <2>1, <2>2 DEF Says
<1>6. UpTo(stamp)' = ever
  BY <1>1 DEF UpTo
<1>7. \E W \in SUBSET ever : Lists(me'[m].window, W) /\ NewestOf(ever, Limit) \subseteq W
  <2>1. NewestOf(ever, Limit) \in SUBSET ever
    BY DEF NewestOf
  <2>2. Lists(Newest(ever, Limit), NewestOf(ever, Limit))
    BY <1>1, ManagerAssumption, NewestIsListing
  <2> QED
    BY <1>4, <2>1, <2>2
<1>8. Settled(me[m].window)'
  BY <1>1, <1>5, <1>6, <1>7 DEF Settled, CutAt
<1>9. Settled(shown)'
  BY SettledStays DEF WindowInv, Settled, CutAt
<1>10. \A k \in Managers \ {m} : pc'[k] \notin Running
  BY OthersWait DEF Waiting, Running, Fallible
<1>11. "events" \in Running
  BY DEF Running
<1> QED
  BY <1>1, <1>4, <1>8, <1>9, <1>10, <1>11 DEF WindowInv

\* TelemetryPublisher.publish, the second half: what is shown is the window.
LEMMA WindowIsShown ==
  ASSUME LongNames = {}, HolderInv, EventInv, WindowInv, NEW m \in Managers,
         PublishEvents(m)
  PROVE  shown' = me[m].window /\ shown' = Newest(ever, Limit)
<1>1. me[m].window = Newest(ever, Limit) /\ shown' = Projected(me[m].window)
  BY DEF PublishEvents, Goes, WindowInv
<1> DEFINE w == Newest(ever, Limit)
<1>2. w \in Seq(Events)
  <2>1. Numbered(ever) /\ ever \in SUBSET Events /\ Limit \in Nat
    BY ManagerAssumption DEF EventInv, LogInv
  <2>2. Lists(w, NewestOf(ever, Limit))
    BY <2>1, NewestIsListing
  <2>3. NewestOf(ever, Limit) \in SUBSET Events /\ NewestOf(ever, Limit) \in SUBSET ever
    BY <2>1 DEF NewestOf
  <2> HIDE DEF w
  <2> QED
    BY <2>1, <2>2, <2>3, NumberedSubset, ListedEvents
<1> HIDE DEF w
<1>3. ASSUME NEW i \in DOMAIN w PROVE [w[i] EXCEPT !.id = PublicId(w[i])] = w[i]
  <2>1. w[i] \in Events
    BY <1>2, ElementOfSeq, LenProperties
  <2>2. PublicId(w[i]) = w[i].id
    BY DEF PublicId
  <2> QED
    BY <2>1, <2>2, EventFields
<1>4. Projected(w) = [i \in DOMAIN w |-> w[i]]
  BY <1>3 DEF Projected
<1>5. Projected(w) = w
  BY <1>2, <1>4
<1> QED
  BY <1>1, <1>5 DEF w

LEMMA WindowStep ==
  ASSUME LongNames = {}, HolderInv, TypeInv, EventInv, EventInv', TableInv, WindowInv,
         [Next]_vars
  PROVE  WindowInv'
<1> USE FreshFields
<1>1. Grows
  BY EventsGrow
<1>2. CASE Reboot
  <2>1. shown' = shown /\ ever' = ever /\ \A k \in Managers : pc'[k] = "down"
    BY <1>2 DEF Reboot, public, record
  <2> QED
    BY <1>1, <2>1, WindowsQuiet DEF Running, Fallible
<1>3. CASE Acknowledge \/ SourceMoves \/ UNCHANGED vars
  <2>1. shown' = shown /\ ever' = ever /\ pc' = pc /\ me' = me
    BY <1>3 DEF Acknowledge, SourceMoves, vars, public, record
  <2> QED
    BY <1>1, <2>1, WindowsQuiet
<1>4. DOMAIN pc = Managers /\ DOMAIN me = Managers /\ \A m \in Managers : DOMAIN me[m] = DOMAIN Fresh
  BY DEF HolderInv, Shape
<1>5. ASSUME NEW m \in Managers, shown' = shown, ever' = ever,
             \A k \in Managers \ {m} : pc'[k] = pc[k] /\ me'[k] = me[k],
             \/ pc'[m] \notin Running
             \/ pc[m] \in Running /\ me'[m].window = me[m].window /\ pc'[m] # "events"
      PROVE  WindowInv'
  BY <1>1, <1>5, WindowsQuiet
<1>6. ASSUME NEW m \in Managers,
             \/ Launched(m) \/ Acquire(m) \/ Refused(m) \/ UpdateMarker(m) \/ Consume(m)
             \/ NothingToConsume(m) \/ FailEarly(m) \/ Release(m) \/ Crash(m)
      PROVE  WindowInv'
  <2>1. /\ shown' = shown /\ ever' = ever
        /\ pc'[m] \in {"launched", "locked", "down", "marked", "consumed", "ready", "leaving"}
        /\ \A k \in Managers \ {m} : pc'[k] = pc[k] /\ me'[k] = me[k]
    BY <1>4, <1>6 DEF Launched, Acquire, Refused, UpdateMarker, Consume, NothingToConsume,
       FailEarly, Release, Crash, Goes, public, record
  <2>2. pc'[m] \notin Running
    BY <2>1 DEF Running, Fallible
  <2> QED
    BY <1>5, <2>1, <2>2
<1>7. ASSUME NEW m \in Managers,
             PersistRow(m) \/ Wake(m) \/ Fail(m) \/ Interrupt(m) \/ SyncStream(m)
      PROVE  WindowInv'
  <2>1. /\ shown' = shown /\ ever' = ever /\ pc[m] \in Running /\ pc'[m] # "events"
        /\ \A k \in Managers \ {m} : pc'[k] = pc[k] /\ me'[k] = me[k]
        /\ me'[m].window = me[m].window
    <3> USE DEF Goes, public, record, Running, Fallible
    <3>1. CASE PersistRow(m) \/ Wake(m)
      BY <1>4, <3>1 DEF PersistRow, Wake
    <3>2. CASE Fail(m)
      BY <1>4, <3>2 DEF Fail
    <3>3. CASE Interrupt(m)
      BY <1>4, <3>3 DEF Interrupt
    <3>4. CASE SyncStream(m)
      BY <1>4, <3>4 DEF SyncStream
    <3> QED
      BY <1>7, <3>1, <3>2, <3>3, <3>4
  <2> QED
    BY <1>5, <2>1
<1>8. ASSUME NEW m \in Managers, Tick(m) PROVE WindowInv'
  <2>1. /\ shown' = shown /\ ever' = ever /\ pc[m] \in Running /\ pc'[m] = "sync"
        /\ \A k \in Managers \ {m} : pc'[k] = pc[k]
        /\ \E job, pending : Heard(m, job, pending)
    BY <1>4, <1>8 DEF Tick, Goes, public, Running, Fallible
  <2>2. \A job, pending : Heard(m, job, pending)
          => me'[m].window = me[m].window /\ \A k \in Managers \ {m} : me'[k] = me[k]
    BY <1>4 DEF Heard
  <2> QED
    BY <1>5, <2>1, <2>2
<1>9. ASSUME NEW m \in Managers, PublishLatest(m) \/ PublishFails(m) PROVE WindowInv'
  <2>1. /\ UNCHANGED record /\ shown' = shown /\ ever' = ever
        /\ \A k \in Managers \ {m} : pc'[k] = pc[k]
    BY <1>4, <1>9 DEF PublishLatest, PublishFails, Goes, public, record
  <2>2. CASE pc[m] = "publish" /\ WindowMerged(m)
    BY <1>1, <2>1, <2>2, WindowIsMerged
  <2>3. CASE pc[m] = "events" /\ UNCHANGED me /\ pc'[m] \in {"idle", "leaving"}
    <3>1. pc[m] \in Running /\ pc'[m] # "events" /\ me' = me
      BY <2>3 DEF Running
    <3> QED
      BY <1>5, <2>1, <3>1
  <2> QED
    BY <1>4, <1>9, <2>2, <2>3 DEF PublishLatest, PublishFails, Goes, AfterPublish
<1>10. ASSUME NEW m \in Managers, pc[m] \notin Waiting
       PROVE  \A k \in Managers \ {m} : pc[k] \notin Running
  BY <1>10, OthersWait DEF Waiting, Running, Fallible
<1>11. ASSUME NEW m \in Managers,
              \/ Build(m) \/ AnnounceResume(m) \/ StartAll(m) \/ TellStream(m) \/ PersistEvent(m)
       PROVE  WindowInv'
  <2>1. pc[m] \notin Waiting /\ shown' = shown /\ pc'[m] # "events"
    <3>1. CASE PersistEvent(m)
      BY <3>1 DEF PersistEvent, public, Waiting
    <3>2. CASE ~PersistEvent(m)
      BY <1>4, <1>11, <3>2 DEF Build, AnnounceResume, StartAll, TellStream, Goes, public, Waiting
    <3> QED
      BY <3>1, <3>2
  <2>2. \A k \in Managers \ {m} : pc'[k] = pc[k] /\ me'[k] = me[k]
    BY <1>4, <1>11 DEF Build, AnnounceResume, StartAll, TellStream, PersistEvent, Goes
  <2>3. \/ pc'[m] \notin Running
        \/ pc[m] \in Running /\ me'[m].window = me[m].window
        \/ me'[m].window = shown
    BY <1>4, <1>11 DEF Build, AnnounceResume, StartAll, TellStream, PersistEvent, Goes, Running,
       Fallible, LoadedHistory
  <2> QED
    BY <1>1, <1>10, <2>1, <2>2, <2>3, WindowKept
<1>12. ASSUME NEW m \in Managers, PublishEvents(m) PROVE WindowInv'
  <2>1. /\ shown' = me[m].window /\ me' = me /\ pc[m] = "events" /\ pc'[m] \in {"idle", "leaving"}
        /\ \A k \in Managers \ {m} : pc'[k] = pc[k]
    BY <1>4, <1>12, WindowIsShown DEF PublishEvents, Goes, AfterPublish
  <2>2. Settled(me[m].window) /\ \A k \in Managers \ {m} : pc[k] \notin Running
    BY <1>10, <2>1 DEF WindowInv, Running, Waiting
  <2>3. Settled(shown)' /\ Settled(me[m].window)'
    BY <1>1, <2>1, <2>2, SettledStays DEF Settled, CutAt
  <2>4. "events" \in Running
    BY DEF Running
  <2> QED
    BY <2>1, <2>2, <2>3, <2>4 DEF WindowInv
<1> QED
  BY <1>2, <1>3, <1>6, <1>7, <1>8, <1>9, <1>11, <1>12, ManagerAssumption
     DEF Next, Relaunch, LaunchBeside, Runs, StartUp, Loop, End

LEMMA OnlyPublishing ==
  ASSUME [Next]_vars, shown' # shown
  PROVE  \E m \in Managers : PublishEvents(m)
BY ManagerAssumption
   DEF Next, vars, public, Relaunch, LaunchBeside, Runs, StartUp, Loop, End, Launched, Acquire,
       Refused, UpdateMarker, Build, Consume, AnnounceResume, NothingToConsume, StartAll, Tick,
       SyncStream, TellStream, PersistEvent, PersistRow, PublishLatest, PublishFails, Wake,
       FailEarly, Fail, Interrupt, Crash, Release, Reboot, Acknowledge, SourceMoves

\* load_public_records, merge_public_events
THEOREM HistoryStaysWhole == ASSUME LongNames = {} PROVE Spec => HistoryIsWhole
<1>1. Init => TableInv /\ WindowInv
  BY TableInitially, WindowInitially
<1>2. /\ HolderInv /\ TypeInv /\ EventInv /\ (HolderInv /\ TypeInv /\ EventInv)'
      /\ TableInv /\ WindowInv /\ [Next]_vars
      => (TableInv /\ WindowInv)'
  BY TableStep, WindowStep
<1>3. HolderInv /\ EventInv /\ WindowInv /\ [Next]_vars
        => (shown' # shown => shown' = Newest(ever, Limit))
  BY OnlyPublishing, WindowIsShown
<1>4. HolderInv /\ EventInv /\ WindowInv /\ [Next]_vars
        => [shown' # shown => shown' = Newest(ever, Limit)]_vars
  BY <1>3
<1> QED
  BY <1>1, <1>2, <1>4, EventsInOrder, PTL DEF Spec, HistoryIsWhole

\* merge_public_events: what the run on WithoutDuplicates shows takes an id
\* that is cut; with ids that fit no event is in the public window twice.
THEOREM NothingTwice == ASSUME LongNames = {} PROVE Spec => []WithoutDuplicates
<1>1. Init => TableInv /\ WindowInv
  BY TableInitially, WindowInitially
<1>2. /\ HolderInv /\ TypeInv /\ EventInv /\ (HolderInv /\ TypeInv /\ EventInv)'
      /\ TableInv /\ WindowInv /\ [Next]_vars
      => (TableInv /\ WindowInv)'
  BY TableStep, WindowStep
<1>3. EventInv /\ WindowInv => WithoutDuplicates
  <2> SUFFICES ASSUME EventInv, WindowInv PROVE WithoutDuplicates
    OBVIOUS
  <2>1. PICK cut \in Nat : CutAt(shown, cut)
    BY DEF WindowInv, Settled
  <2>2. PICK W \in SUBSET UpTo(cut) : Lists(shown, W)
    BY <2>1 DEF CutAt
  <2>3. \A e \in W : e.number \in Nat
    BY DEF EventInv, LogInv, Numbered, UpTo
  <2> QED
    BY <2>2, <2>3 DEF Lists, Ordered, WithoutDuplicates
<1> QED
  BY <1>1, <1>2, <1>3, EventsInOrder, PTL DEF Spec

-----------------------------------------------------------------------------
(* Types, and the limits of the table and of the window.                   *)

Listed(w) == \E S : w \in Seq(S)
LengthInv ==
  /\ Listed(shown) /\ (shown = Published \/ Len(shown) <= Limit)
  /\ \A m \in Managers :
       /\ pc[m] \in Running => Listed(me[m].window)
       /\ pc[m] = "events" => Len(me[m].window) <= Limit

LEMMA MergedFits ==
  ASSUME EventInv, TableInv, NEW w, Listed(w)
  PROVE  LET merged == Merged(w \o Recent(table)) IN Listed(merged) /\ Len(merged) <= Limit
<1>1. PICK S : w \in Seq(S)
  BY DEF Listed
<1>2. Numbered(ever) /\ Limit \in Nat /\ Retention \in Nat
  BY ManagerAssumption DEF EventInv, LogInv
<1>3. table \in SUBSET ever
  BY DEF TableInv, NewestOf
<1>4. Numbered(table)
  BY <1>2, <1>3, NumberedSubset
<1>5. Lists(Recent(table), NewestOf(table, Limit)) /\ NewestOf(table, Limit) \in SUBSET table
  BY <1>2, <1>4, NewestIsListing DEF Recent, NewestOf
<1>6. Recent(table) \in Seq(table)
  BY <1>4, <1>5, NumberedSubset, ListedEvents
<1> DEFINE v == Recent(table)
           T == S \cup table
<1>7. w \in Seq(T) /\ v \in Seq(T)
  <2> HIDE DEF v
  <2>1. S \subseteq T /\ table \subseteq T
    OBVIOUS
  <2> HIDE DEF T
  <2> QED
    BY <1>1, <1>6, <2>1, SeqMonotonic DEF v
<1> HIDE DEF v, T
<1>8. w \o v \in Seq(T)
  BY <1>7, ConcatProperties
<1>9. Merged(w \o v) \in Seq(T) /\ Len(Merged(w \o v)) <= Limit
  BY <1>2, <1>8, MergedTyped
<1> QED
  BY <1>9 DEF Listed, v

LEMMA ProjectedFits ==
  ASSUME NEW w, Listed(w)
  PROVE  Listed(Projected(w)) /\ Len(Projected(w)) = Len(w)
<1>1. PICK S : w \in Seq(S)
  BY DEF Listed
<1> DEFINE item(i) == [w[i] EXCEPT !.id = PublicId(w[i])]
           T == {item(i) : i \in 1..Len(w)}
<1>2. DOMAIN w = 1..Len(w) /\ Len(w) \in Nat
  BY <1>1, LenProperties
<1>3. Projected(w) = [i \in 1..Len(w) |-> item(i)]
  BY <1>2 DEF Projected
<1> HIDE DEF item
<1>4. Projected(w) \in [1..Len(w) -> T]
  BY <1>3
<1> HIDE DEF T
<1>5. Projected(w) \in Seq(T)
  BY <1>2, <1>4, SeqDef
<1>6. Len(Projected(w)) = Len(w)
  BY <1>2, <1>4, <1>5, LenProperties
<1> QED
  BY <1>5, <1>6 DEF Listed

LEMMA LengthStep ==
  ASSUME HolderInv, TypeInv, EventInv, TableInv, LengthInv, [Next]_vars
  PROVE  LengthInv'
<1> USE FreshFields
<1>1. DOMAIN pc = Managers /\ DOMAIN me = Managers /\ \A m \in Managers : DOMAIN me[m] = DOMAIN Fresh
  BY DEF HolderInv, Shape
\* The public file stays, and every process keeps its window or takes the file.
<1>2. ASSUME shown' = shown,
             \A k \in Managers :
               \/ pc'[k] \notin Running
               \/ pc'[k] = pc[k] /\ me'[k] = me[k]
               \/ pc'[k] # "events" /\ (pc[k] \in Running /\ me'[k].window = me[k].window)
               \/ pc'[k] # "events" /\ me'[k].window = shown
      PROVE  LengthInv'
  <2>1. ASSUME NEW k \in Managers, pc'[k] \in Running PROVE Listed(me'[k].window)
    BY <1>2, <2>1 DEF LengthInv
  <2>2. ASSUME NEW k \in Managers, pc'[k] = "events" PROVE Len(me'[k].window) <= Limit
    <3>1. "events" \in Running
      BY DEF Running
    <3> QED
      BY <1>2, <2>2, <3>1 DEF LengthInv
  <2>3. Listed(shown') /\ (shown' = Published \/ Len(shown') <= Limit)
    BY <1>2 DEF LengthInv
  <2> QED
    BY <2>1, <2>2, <2>3 DEF LengthInv, Listed
<1>3. CASE Reboot \/ Acknowledge \/ SourceMoves \/ UNCHANGED vars
  <2>1. CASE Reboot
    BY <1>2, <2>1 DEF Reboot, public, Running, Fallible
  <2>2. CASE Acknowledge \/ SourceMoves \/ UNCHANGED vars
    BY <1>2, <2>2 DEF Acknowledge, SourceMoves, vars, public
  <2> QED
    BY <1>3, <2>1, <2>2
<1>4. ASSUME NEW m \in Managers, shown' = shown,
             \A k \in Managers \ {m} : pc'[k] = pc[k] /\ me'[k] = me[k],
             \/ pc'[m] \notin Running
             \/ pc'[m] # "events" /\ (pc[m] \in Running /\ me'[m].window = me[m].window)
             \/ pc'[m] # "events" /\ me'[m].window = shown
      PROVE  LengthInv'
  BY <1>2, <1>4
<1>5. ASSUME NEW m \in Managers,
             \/ Launched(m) \/ Acquire(m) \/ Refused(m) \/ UpdateMarker(m) \/ Build(m)
             \/ Consume(m) \/ AnnounceResume(m) \/ NothingToConsume(m) \/ FailEarly(m)
             \/ Release(m) \/ Crash(m)
      PROVE  LengthInv'
  <2>1. /\ shown' = shown
        /\ pc'[m] \in {"launched", "locked", "down", "marked", "built", "consumed", "ready", "leaving"}
        /\ \A k \in Managers \ {m} : pc'[k] = pc[k] /\ me'[k] = me[k]
    BY <1>1, <1>5 DEF Launched, Acquire, Refused, UpdateMarker, Build, Consume, AnnounceResume,
       NothingToConsume, FailEarly, Release, Crash, Goes, public
  <2>2. pc'[m] \notin Running
    BY <2>1 DEF Running, Fallible
  <2> QED
    BY <1>4, <2>1, <2>2
<1>6. ASSUME NEW m \in Managers,
             \/ StartAll(m) \/ PersistRow(m) \/ Wake(m) \/ Fail(m) \/ Interrupt(m)
             \/ SyncStream(m) \/ TellStream(m) \/ PersistEvent(m)
      PROVE  LengthInv'
  <2>1. /\ shown' = shown /\ pc'[m] # "events"
        /\ \A k \in Managers \ {m} : pc'[k] = pc[k] /\ me'[k] = me[k]
        /\ me'[m].window = shown \/ (pc[m] \in Running /\ me'[m].window = me[m].window)
    <3> USE DEF Goes, public, Running, Fallible
    <3>1. CASE PersistRow(m) \/ Wake(m)
      BY <1>1, <3>1 DEF PersistRow, Wake
    <3>2. CASE Fail(m)
      BY <1>1, <3>2 DEF Fail
    <3>3. CASE Interrupt(m)
      BY <1>1, <3>3 DEF Interrupt
    <3>4. CASE SyncStream(m)
      BY <1>1, <3>4 DEF SyncStream
    <3>5. CASE StartAll(m)
      BY <1>1, <3>5 DEF StartAll, LoadedHistory
    <3>6. CASE TellStream(m)
      BY <1>1, <3>6 DEF TellStream
    <3>7. CASE PersistEvent(m)
      BY <1>1, <3>7 DEF PersistEvent
    <3> QED
      BY <1>6, <3>1, <3>2, <3>3, <3>4, <3>5, <3>6, <3>7
  <2> QED
    BY <1>4, <2>1
<1>7. ASSUME NEW m \in Managers, Tick(m) PROVE LengthInv'
  <2>1. /\ shown' = shown /\ pc[m] \in Running /\ pc'[m] = "sync"
        /\ \A k \in Managers \ {m} : pc'[k] = pc[k]
        /\ \E job, pending : Heard(m, job, pending)
    BY <1>1, <1>7 DEF Tick, Goes, public, Running, Fallible
  <2>2. \A job, pending : Heard(m, job, pending)
          => me'[m].window = me[m].window /\ \A k \in Managers \ {m} : me'[k] = me[k]
    BY <1>1 DEF Heard
  <2> QED
    BY <1>4, <2>1, <2>2
<1>8. ASSUME NEW m \in Managers, PublishLatest(m) \/ PublishFails(m) PROVE LengthInv'
  <2>1. shown' = shown /\ \A k \in Managers \ {m} : pc'[k] = pc[k]
    BY <1>1, <1>8 DEF PublishLatest, PublishFails, Goes, public
  <2>2. CASE pc[m] = "publish" /\ WindowMerged(m)
    <3>1. /\ me'[m].window = Merged(me[m].window \o Recent(table))
          /\ \A k \in Managers \ {m} : me'[k] = me[k]
      <4>1. DOMAIN me = Managers /\ "window" \in DOMAIN me[m]
        BY <1>1
      <4>2. PICK all \in {me[m].window \o Recent(table)} :
              me' = [me EXCEPT ![m].window = Merged(all)]
        BY <2>2 DEF WindowMerged
      <4> QED
        BY <4>1, <4>2
    <3>2. Listed(me'[m].window) /\ Len(me'[m].window) <= Limit
      <4>1. Listed(me[m].window)
        BY <2>2 DEF LengthInv, Running, Fallible
      <4> QED
        BY <3>1, <4>1, MergedFits
    <3>3. \A k \in Managers : /\ pc'[k] \in Running => Listed(me'[k].window)
                              /\ pc'[k] = "events" => Len(me'[k].window) <= Limit
      BY <2>1, <3>1, <3>2 DEF LengthInv
    <3>4. Listed(shown') /\ (shown' = Published \/ Len(shown') <= Limit)
      BY <2>1 DEF LengthInv
    <3> QED
      BY <3>3, <3>4 DEF LengthInv, Listed
  <2>3. CASE pc[m] = "events" /\ UNCHANGED me /\ pc'[m] \in {"idle", "leaving"}
    <3>1. pc[m] \in Running /\ pc'[m] # "events" /\ me' = me
      BY <2>3 DEF Running
    <3> QED
      BY <1>4, <2>1, <3>1
  <2> QED
    BY <1>1, <1>8, <2>2, <2>3 DEF PublishLatest, PublishFails, Goes, AfterPublish
<1>9. ASSUME NEW m \in Managers, PublishEvents(m) PROVE LengthInv'
  <2>1. /\ shown' = Projected(me[m].window) /\ me' = me /\ pc[m] = "events"
        /\ pc'[m] \in {"idle", "leaving"} /\ \A k \in Managers \ {m} : pc'[k] = pc[k]
    BY <1>1, <1>9 DEF PublishEvents, Goes, AfterPublish
  <2>2. Listed(me[m].window) /\ Len(me[m].window) <= Limit
    BY <2>1 DEF LengthInv, Running
  <2>3. Listed(shown') /\ Len(shown') <= Limit
    BY <2>1, <2>2, ProjectedFits
  <2>4. \A k \in Managers : /\ pc'[k] \in Running => Listed(me'[k].window)
                            /\ pc'[k] = "events" => Len(me'[k].window) <= Limit
    BY <2>1, <2>2 DEF LengthInv
  <2> QED
    BY <2>3, <2>4 DEF LengthInv, Listed
<1> QED
  BY <1>3, <1>5, <1>6, <1>7, <1>8, <1>9, ManagerAssumption
     DEF Next, Relaunch, LaunchBeside, Runs, StartUp, Loop, End

LEMMA LengthInitially == Init => LengthInv
<1> SUFFICES ASSUME Init PROVE LengthInv
  OBVIOUS
<1>1. shown = Published /\ \A m \in Managers : pc[m] = "down"
  BY DEF Init
<1>2. Published \in Seq({Event("past", "RUNNING", n) : n \in 1..Past})
  <2>1. Past \in Nat
    BY ManagerAssumption
  <2> QED
    BY <2>1, SeqDef DEF Published
<1> QED
  BY <1>1, <1>2 DEF LengthInv, Listed, Running, Fallible

\* Streams that are torn are streams: what waits to be told is about one.
LEMMA TornStep ==
  ASSUME EventInv, torn \subseteq Streams, [Next]_vars
  PROVE  torn' \subseteq Streams
<1>1. ASSUME NEW m \in Managers PROVE Unsaid(m) \subseteq Streams
  <2>1. me[m].unsent \in Seq(StreamEvents)
    BY DEF EventInv, QueueInv
  <2>2. \A i \in DOMAIN me[m].unsent : me[m].unsent[i] \in StreamEvents
    BY <2>1, ElementOfSeq, LenProperties
  <2> QED
    BY <2>2, EventFields DEF Unsaid
<1>2. CASE Reboot
  BY <1>1, <1>2 DEF Reboot
<1>3. ASSUME NEW m \in Managers, Fail(m) \/ Interrupt(m) \/ Crash(m) PROVE torn' \subseteq Streams
  BY <1>1, <1>3 DEF Fail, Interrupt, Crash
<1>4. ASSUME NEW m \in Managers, TellStream(m) PROVE torn' \subseteq Streams
  BY <1>4 DEF TellStream
<1>5. ASSUME ~Reboot, \A m \in Managers : ~Fail(m) /\ ~Interrupt(m) /\ ~Crash(m) /\ ~TellStream(m)
      PROVE  torn' = torn
  BY <1>5, ManagerAssumption
     DEF Next, vars, Relaunch, LaunchBeside, Runs, StartUp, Loop, End, Launched, Acquire,
         Refused, UpdateMarker, Build, Consume, AnnounceResume, NothingToConsume, StartAll, Tick,
         SyncStream, PersistEvent, PersistRow, PublishLatest, PublishEvents, PublishFails, Wake,
         FailEarly, Release, Acknowledge, SourceMoves
<1> QED
  BY <1>2, <1>3, <1>4, <1>5

\* The types of what the store, the files and the processes hold.
THEOREM TypeCorrect == Spec => []TypeOK
<1>1. Init => TableInv /\ LengthInv /\ torn \subseteq Streams
  BY TableInitially, LengthInitially DEF Init
<1>2. /\ HolderInv /\ TypeInv /\ EventInv /\ (HolderInv /\ TypeInv /\ EventInv)'
      /\ TableInv /\ LengthInv /\ torn \subseteq Streams /\ [Next]_vars
      => (TableInv /\ LengthInv /\ torn \subseteq Streams)'
  BY TableStep, LengthStep, TornStep
<1>3. HolderInv /\ TypeInv /\ EventInv /\ TableInv /\ LengthInv /\ torn \subseteq Streams => TypeOK
  <2> SUFFICES ASSUME HolderInv, TypeInv, EventInv, TableInv, LengthInv, torn \subseteq Streams
               PROVE  TypeOK
    OBVIOUS
  <2>1. Cardinality(table) <= Retention /\ table \subseteq ever
    <3> DEFINE late == {e \in ever : e.number > Past}
    <3>1. late \in SUBSET ever /\ Numbered(ever) /\ Retention \in Nat
      BY ManagerAssumption DEF EventInv, LogInv
    <3>2. table = NewestOf(late, Retention)
      BY DEF TableInv
    <3> HIDE DEF late
    <3> QED
      BY <3>1, <3>2, NumberedSubset, NewestAreFew
  <2>2. \A m \in Managers :
          /\ pc[m] \in {"down", "launched", "leaving"} \cup Starting \cup Running
          /\ me[m].job \in JobRecord
          /\ me[m].ending \in {"no", "fail", "stop"}
          /\ me[m].heard \in [Streams -> SourceValues]
    BY DEF TypeInv, MindInv, Pcs
  <2> QED
    BY <2>1, <2>2 DEF TypeOK, TypeInv, StateInv, LengthInv
<1> QED
  BY <1>1, <1>2, <1>3, EventsInOrder, PTL DEF Spec

================================================================================
