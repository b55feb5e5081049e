-------------------------------- MODULE Manager --------------------------------
(***************************************************************************)
(* The manager process (run.main), from its launch by the watchdog to the  *)
(* release of its lock, with what outlives it: the store (markers, consumed *)
(* acknowledgements, the job's row, the rows of the streams, the events)   *)
(* and the public files.  Several processes may be up at once; the one     *)
(* that holds the lock runs.                                               *)
(*                                                                         *)
(* The worker is reduced to what its supervisor reports in a tick (module  *)
(* Supervisor), the sources of the streams to values that change.          *)
(***************************************************************************)
EXTENDS PublicEvents, Workstreams

CONSTANTS Managers,     \* processes that may be launched
          Watched,      \* the one the watchdog launches
          None,         \* nobody
          Streams,      \* configured workstreams
          KindOf,       \* the kind of source of each
          MaxRestarts,  \* max_restarts of the job
          Past,         \* events the public file held before the store was new
          Budgets       \* bounds: how often each thing of Trouble may happen

Trouble == {"ends", "boots", "acks", "jobs", "moves", "overlaps", "writes"}

ASSUME ManagerAssumption ==
  /\ None \notin Managers /\ Watched \in Managers
  /\ KindOf \in [Streams -> {"agent", "constraint_audit", "worker_profile"}]
  /\ MaxRestarts \in Nat /\ Past \in Nat
  /\ Limit \in Nat \ {0} /\ Retention \in Nat /\ Retention >= Limit
  /\ Budgets \subseteq [Trouble -> Nat]

\* What an event is about is a stream or the job, never both.
ASSUME NamesAssumption == Streams \cap {"job", "past"} = {}

VARIABLES
  boot, ack,        \* the host's boot, the acknowledgement in the config (0: none)
  source,           \* what the source of each stream says
  lock,             \* the process that holds manager.lock
  marker, consumed, \* meta: host_boot_marker (0: none) and operator_resume:*
  row, streamRow,   \* the job's row and the streams' rows
  table,            \* the events table
  latest, shown,    \* latest.json (its workstreams) and events.json
  pc, me,           \* where each process is and what it has in memory
  stamp, left,      \* events made so far, what is left of the budget
  ever,             \* history: all events that ever reached the table
  granted,          \* history: budgets cleared, per acknowledgement and boot
  torn              \* history: streams whose last event was lost with a process

host == <<boot, ack, source>>
meta == <<marker, consumed>>
rows == <<row, streamRow>>
record == <<table, ever, stamp>>
public == <<latest, shown>>
vars == <<host, lock, meta, rows, record, public, pc, me, left, granted, torn>>

JobStates == {"UNKNOWN", "QUEUED", "RUNNING", "RETRYING", "ESCALATED", "CANCELLED"}
JobRecord == [state : JobStates, count : 0..MaxRestarts]

Fresh == [ack |-> 0, changed |-> FALSE, resume |-> FALSE,
          job |-> [state |-> "QUEUED", count |-> 0],
          pending |-> <<>>, unsent |-> <<>>, todo |-> {},
          heard |-> [s \in Streams |-> "none"], window |-> <<>>, ending |-> "no"]

Starting == {"locked", "marked", "built", "consumed", "ready"}
Fallible == {"tick", "sync", "tell", "persist", "publish"}
Running == Fallible \cup {"events", "idle"}

\* load_public_records finds these before there is a store.
Published == [n \in 1..Past |-> Event("past", "RUNNING", n)]

TypeOK ==
  /\ lock \in Managers \cup {None}
  /\ row \in JobRecord
  /\ streamRow \in [Streams -> StreamStates \cup {"absent"}]
  /\ latest \in [Streams -> StreamStates \cup {"absent"}]
  /\ Cardinality(table) <= Retention /\ table \subseteq ever
  /\ shown = Published \/ Len(shown) <= Limit
  /\ \A m \in Managers :
       /\ pc[m] \in {"down", "launched", "leaving"} \cup Starting \cup Running
       /\ me[m].job \in JobRecord
       /\ me[m].ending \in {"no", "fail", "stop"}
       /\ me[m].heard \in [Streams -> SourceValues]
  /\ torn \subseteq Streams
  /\ left \in [Trouble -> Nat]

Init ==
  /\ boot = 1 /\ ack = 0
  /\ source = [s \in Streams |-> "none"]
  /\ lock = None
  /\ marker = 0 /\ consumed = {}
  /\ row = [state |-> "UNKNOWN", count |-> 0]
  /\ streamRow = [s \in Streams |-> "absent"]
  /\ table = {} /\ ever = {Published[n] : n \in 1..Past} /\ stamp = Past
  /\ latest = [s \in Streams |-> "absent"] /\ shown = Published
  /\ pc = [m \in Managers |-> "down"] /\ me = [m \in Managers |-> Fresh]
  /\ left \in Budgets
  /\ granted = <<>>
  /\ torn = {}

-----------------------------------------------------------------------------
(* Helpers.                                                                *)

Goes(m, from, to) == pc[m] = from /\ pc' = [pc EXCEPT ![m] = to]
Spend(trouble) == left[trouble] > 0 /\ left' = [left EXCEPT ![trouble] = @ - 1]

\* append_event
Appended(event) == table' = Stored(table, event) /\ ever' = ever \cup {event}
Announced(state) == stamp' = stamp + 1 /\ Appended(Event("job", state, stamp'))

\* What a process that ends takes with it.
Unsaid(m) == {me[m].unsent[i].about : i \in DOMAIN me[m].unsent}

-----------------------------------------------------------------------------
(* From the launch to start_all.                                           *)

\* load_config, before anything else.
Launched(m) ==
  /\ Goes(m, "down", "launched")
  /\ me' = [me EXCEPT ![m] = [Fresh EXCEPT !.ack = ack]]
  /\ UNCHANGED <<host, lock, meta, rows, record, public, granted, torn>>

\* The watchdog launches a process whenever its last one has ended, and the
\* operator may launch others beside it.
Relaunch == Launched(Watched) /\ UNCHANGED left
LaunchBeside(m) == m # Watched /\ Launched(m) /\ Spend("overlaps")

\* InstanceLock.acquire
LockIgnored == TRUE                      \* faulty variant
LockFree == lock = None

Acquire(m) ==
  /\ Goes(m, "launched", "locked")
  /\ LockFree
  /\ lock' = m
  /\ UNCHANGED <<host, meta, rows, record, public, me, left, granted, torn>>

Refused(m) ==
  /\ Goes(m, "launched", "down")
  /\ ~LockFree
  /\ me' = [me EXCEPT ![m] = Fresh]
  /\ UNCHANGED <<host, lock, meta, rows, record, public, left, granted, torn>>

\* update_host_boot_marker
UpdateMarker(m) ==
  /\ Goes(m, "locked", "marked")
  /\ marker' = boot
  /\ me' = [me EXCEPT ![m].changed = (marker \notin {0, boot})]
  /\ UNCHANGED <<host, lock, consumed, rows, record, public, left, granted, torn>>

\* _pending_operator_resume
ResumePending(m) ==
  me[m].ack # 0 /\ row.state = "ESCALATED" /\ me[m].ack \notin consumed

\* manager_from_config: the count of the row, or zero after an acknowledgement
\* or a reboot.  A reboot is told in an event.
Build(m) ==
  /\ Goes(m, "marked", "built")
  /\ LET clears == me[m].changed \/ ResumePending(m)
     IN me' = [me EXCEPT ![m].resume = ResumePending(m),
                         ![m].job.count = IF clears THEN 0 ELSE row.count]
  /\ IF me[m].changed THEN Announced("QUEUED") ELSE UNCHANGED record
  /\ UNCHANGED <<host, lock, meta, rows, public, left, granted, torn>>

\* set_meta("operator_resume:...")
NotConsumed(m) == UNCHANGED consumed     \* faulty variant
Consumed(m) == consumed' = consumed \cup {me[m].ack}

Consume(m) ==
  /\ me[m].resume
  /\ Goes(m, "built", "consumed")
  /\ Consumed(m)
  /\ UNCHANGED <<host, lock, marker, rows, record, public, me, left, granted, torn>>

AnnounceResume(m) ==
  /\ Goes(m, "consumed", "ready")
  /\ Announced("QUEUED")
  /\ UNCHANGED <<host, lock, meta, rows, public, me, left, granted, torn>>

NothingToConsume(m) ==
  /\ ~me[m].resume
  /\ Goes(m, "built", "ready")
  /\ UNCHANGED <<host, lock, meta, rows, record, public, me, left, granted, torn>>

\* load_public_records
HistoryForgotten == <<>>                 \* faulty variant
LoadedHistory == shown

Grounds(m) == (IF me[m].resume THEN << <<"ack", me[m].ack>> >> ELSE <<>>)
                \o (IF me[m].changed THEN << <<"boot", boot>> >> ELSE <<>>)

\* start_all: from here on the worker runs with the count there is.
StartAll(m) ==
  /\ Goes(m, "ready", "tick")
  /\ stamp' = stamp + 1
  /\ me' = [me EXCEPT ![m].window = LoadedHistory,
                      ![m].job.state = "RUNNING",
                      ![m].pending = <<Event("job", "RUNNING", stamp')>>]
  /\ granted' = granted \o Grounds(m)
  /\ UNCHANGED <<host, lock, meta, rows, table, ever, public, left, torn>>

-----------------------------------------------------------------------------
(* One pass of the loop.                                                   *)

\* What tick_all may find of the job.
Ticked(job) ==
  IF job.state \in {"ESCALATED", "CANCELLED"} THEN {job}
  ELSE {[state |-> "RUNNING", count |-> c] : c \in {0, job.count}}
       \cup IF job.count < MaxRestarts
            THEN {[state |-> "RETRYING", count |-> job.count + 1]}
            ELSE {[job EXCEPT !.state = "ESCALATED"]}

Heard(m, job, pending) ==
  me' = [me EXCEPT ![m].todo = Streams, ![m].heard = source,
                   ![m].job = job, ![m].pending = pending]

Tick(m) ==
  /\ Goes(m, "tick", "sync")
  /\ \E job \in Ticked(me[m].job) :
       IF job = me[m].job
         THEN Heard(m, job, me[m].pending) /\ UNCHANGED <<stamp, left>>
         ELSE /\ IF job.state = "RUNNING" THEN UNCHANGED left ELSE Spend("jobs")
              /\ stamp' = stamp + 1
              /\ Heard(m, job, Append(me[m].pending, Event("job", job.state, stamp')))
  /\ UNCHANGED <<host, lock, meta, rows, table, ever, public, granted, torn>>

\* WorkstreamRegistry.sync, one stream: the row is written at once, its event
\* is only handed to the loop.
SyncStream(m) ==
  /\ pc[m] = "sync"
  /\ \E s \in me[m].todo :
       LET state == Resolved(KindOf[s], me[m].heard[s])
           event == Event(s, state, stamp + 1)
           due == RowDue(streamRow[s], state) /\ EventDue(streamRow[s], state)
           unsent == IF due THEN Append(me[m].unsent, event) ELSE me[m].unsent
       IN /\ streamRow' = IF RowDue(streamRow[s], state)
                            THEN [streamRow EXCEPT ![s] = state] ELSE streamRow
          /\ stamp' = IF due THEN stamp + 1 ELSE stamp
          /\ me' = [me EXCEPT ![m].todo = @ \ {s}, ![m].unsent = unsent]
          /\ pc' = [pc EXCEPT ![m] =
               IF me'[m].todo # {} THEN "sync" ELSE IF unsent # <<>> THEN "tell" ELSE "persist"]
  /\ UNCHANGED <<host, lock, meta, row, table, ever, public, left, granted, torn>>

TellStream(m) ==
  /\ pc[m] = "tell"
  /\ LET event == Head(me[m].unsent)
     IN Appended(event) /\ torn' = torn \ {event.about}
  /\ me' = [me EXCEPT ![m].unsent = Tail(@)]
  /\ pc' = [pc EXCEPT ![m] = IF me'[m].unsent = <<>> THEN "persist" ELSE "tell"]
  /\ UNCHANGED <<host, lock, meta, rows, stamp, public, left, granted>>

\* _persist_runtime: the events that are not in the table yet, then the row.
PersistEvent(m) ==
  /\ pc[m] = "persist" /\ me[m].pending # <<>>
  /\ Appended(Head(me[m].pending))
  /\ me' = [me EXCEPT ![m].pending = Tail(@)]
  /\ UNCHANGED <<host, lock, meta, rows, stamp, public, pc, left, granted, torn>>

PersistRow(m) ==
  /\ me[m].pending = <<>>
  /\ Goes(m, "persist", IF me[m].ending = "fail" THEN "leaving" ELSE "publish")
  /\ row' = me[m].job
  /\ UNCHANGED <<host, lock, meta, streamRow, record, public, me, left, granted, torn>>

\* merge_public_events, then TelemetryPublisher.publish: latest.json before
\* events.json.  The last snapshot of a stopped manager has no workstreams.
WindowMerged(m) ==
  \E all \in {me[m].window \o Recent(table)} :
    me' = [me EXCEPT ![m].window = Merged(all)]
AfterPublish(m) == IF me[m].ending = "no" THEN "idle" ELSE "leaving"

PublishLatest(m) ==
  /\ Goes(m, "publish", "events")
  /\ WindowMerged(m)
  /\ latest' = [s \in Streams |-> IF me[m].ending = "no" THEN streamRow[s] ELSE "absent"]
  /\ UNCHANGED <<host, lock, meta, rows, record, shown, left, granted, torn>>

PublishEvents(m) ==
  /\ Goes(m, "events", AfterPublish(m))
  /\ shown' = Projected(me[m].window)
  /\ UNCHANGED <<host, lock, meta, rows, record, latest, me, left, granted, torn>>

\* A file cannot be replaced: the rest of the publish is left out.
PublishFails(m) ==
  /\ \/ Goes(m, "publish", AfterPublish(m)) /\ WindowMerged(m)
     \/ Goes(m, "events", AfterPublish(m)) /\ UNCHANGED me
  /\ Spend("writes")
  /\ UNCHANGED <<host, lock, meta, rows, record, public, granted, torn>>

Wake(m) ==
  /\ Goes(m, "idle", "tick")
  /\ UNCHANGED <<host, lock, meta, rows, record, public, me, left, granted, torn>>

-----------------------------------------------------------------------------
(* Ends of the process.                                                    *)

\* An exception, or Ctrl-C, before there is anything to persist.
FailEarly(m) ==
  /\ pc[m] \in Starting
  /\ Spend("ends")
  /\ pc' = [pc EXCEPT ![m] = "leaving"]
  /\ UNCHANGED <<host, lock, meta, rows, record, public, me, granted, torn>>

\* An exception in the loop: what is known is persisted, nothing is published.
\* Events of streams that have not been appended are lost.
Fail(m) ==
  /\ pc[m] \in Fallible /\ me[m].ending = "no"
  /\ Spend("ends")
  /\ me' = [me EXCEPT ![m].ending = "fail", ![m].unsent = <<>>]
  /\ torn' = torn \cup Unsaid(m)
  /\ pc' = [pc EXCEPT ![m] = "persist"]
  /\ UNCHANGED <<host, lock, meta, rows, record, public, granted>>

\* Ctrl-C: cancel_all, then the same and a last publish.
Interrupt(m) ==
  /\ pc[m] \in Running /\ me[m].ending = "no"
  /\ Spend("ends")
  /\ stamp' = stamp + 1
  /\ me' = [me EXCEPT ![m].ending = "stop", ![m].unsent = <<>>,
                      ![m].job.state = "CANCELLED",
                      ![m].pending = Append(@, Event("job", "CANCELLED", stamp'))]
  /\ torn' = torn \cup Unsaid(m)
  /\ pc' = [pc EXCEPT ![m] = "persist"]
  /\ UNCHANGED <<host, lock, meta, rows, table, ever, public, granted>>

\* InstanceLock.release, at the end of the finally block.
Release(m) ==
  /\ Goes(m, "leaving", "down")
  /\ lock' = None
  /\ me' = [me EXCEPT ![m] = Fresh]
  /\ UNCHANGED <<host, meta, rows, record, public, left, granted, torn>>

\* The process is killed: the system releases its lock.
Crash(m) ==
  /\ pc[m] # "down"
  /\ Spend("ends")
  /\ pc' = [pc EXCEPT ![m] = "down"] /\ me' = [me EXCEPT ![m] = Fresh]
  /\ lock' = IF lock = m THEN None ELSE lock
  /\ torn' = torn \cup Unsaid(m)
  /\ UNCHANGED <<host, meta, rows, record, public, granted>>

-----------------------------------------------------------------------------
(* The host, the operator and the sources of the streams.                  *)

Reboot ==
  /\ Spend("boots")
  /\ boot' = boot + 1
  /\ pc' = [m \in Managers |-> "down"] /\ me' = [m \in Managers |-> Fresh]
  /\ lock' = None
  /\ torn' = torn \cup UNION {Unsaid(m) : m \in Managers}
  /\ UNCHANGED <<ack, source, meta, rows, record, public, granted>>

\* A new operator_resume id in the config, read at the next launch.
Acknowledge ==
  /\ Spend("acks")
  /\ ack' = ack + 1
  /\ UNCHANGED <<boot, source, lock, meta, rows, record, public, pc, me, granted, torn>>

SourceMoves ==
  /\ Spend("moves")
  /\ \E s \in Streams : \E value \in ValuesOf(KindOf[s]) \ {source[s]} :
       source' = [source EXCEPT ![s] = value]
  /\ UNCHANGED <<boot, ack, lock, meta, rows, record, public, pc, me, granted, torn>>

StartUp(m) ==
  \/ Acquire(m) \/ Refused(m) \/ UpdateMarker(m) \/ Build(m) \/ Consume(m)
  \/ AnnounceResume(m) \/ NothingToConsume(m) \/ StartAll(m)
Loop(m) ==
  \/ Tick(m) \/ SyncStream(m) \/ TellStream(m) \/ PersistEvent(m) \/ PersistRow(m)
  \/ PublishLatest(m) \/ PublishEvents(m) \/ Wake(m)
End(m) == FailEarly(m) \/ Fail(m) \/ Interrupt(m) \/ Crash(m)
Runs(m) == StartUp(m) \/ Loop(m) \/ Release(m)

Next ==
  \/ Relaunch \/ \E m \in Managers : LaunchBeside(m) \/ Runs(m) \/ PublishFails(m) \/ End(m)
  \/ Reboot \/ Acknowledge \/ SourceMoves

Spec == Init /\ [][Next]_vars

\* A process goes on until it ends, and the watchdog launches the next one.
LiveSpec ==
  /\ Spec
  /\ WF_vars(Relaunch)
  /\ \A m \in Managers : WF_vars(Runs(m))

-----------------------------------------------------------------------------
(* What is true of it.                                                     *)

\* _pending_operator_resume, update_host_boot_marker: one acknowledgement, or
\* one reboot, clears the retry budget of at most one worker that is started,
\* wherever processes end, and whatever they leave behind.
GrantedOnce == \A i, j \in DOMAIN granted : granted[i] = granted[j] => i = j

\* InstanceLock: while a manager sleeps the job's row is what it knows of its
\* worker; the last words of a manager that ends never replace those of the
\* next one.
RowFollowsHolder == \A m \in Managers : pc[m] = "idle" => row = me[m].job

\* WorkstreamRegistry.sync: while a manager sleeps the newest event about a
\* stream tells the state of its row, unless the event was lost with a process
\* that ended between the row and the event.
Tells(event, s) ==
  /\ event.about = s /\ event.state = streamRow[s]
  /\ \A other \in ever : other.about = s => other.number <= event.number
StreamEventsMatch ==
  \A m \in Managers : pc[m] = "idle" =>
    \A s \in Streams \ torn : \E event \in ever : Tells(event, s)

\* load_public_records, merge_public_events: what is written to events.json is
\* the newest of all events there ever were, in their order, those that were
\* public before the store was new among them.
HistoryIsWhole == [][shown' # shown => shown' = Newest(ever, Limit)]_vars

\* "Keep a bounded chronological public event window without duplicates"
\* (run.py:150): no event is in the window twice.
WithoutDuplicates ==
  \A i, j \in DOMAIN shown : shown[i].number = shown[j].number => i = j

\* run.main, the watchdog: what the sources of the streams say in the end is
\* what latest.json shows in the end, through failures, kills and reboots.
SourcesShown ==
  \A s \in Streams : <>[](latest[s] = Resolved(KindOf[s], source[s]))
================================================================================
