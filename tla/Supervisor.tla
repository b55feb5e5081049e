------------------------------ MODULE Supervisor ------------------------------
(***************************************************************************)
(* One supervised worker of the Machine Manager: WorkerSupervisor          *)
(* (manager/supervisor.py) driven by the loop of manager/run.py, over the  *)
(* table of processes of the host, the worker's PID lease on disk and the  *)
(* job's row in the state store.                                           *)
(*                                                                         *)
(* The manager process may be killed between any two steps, raise, or be   *)
(* interrupted with Ctrl-C; the watchdog starts it again.  Workers die,    *)
(* the host reboots, process ids are given to unrelated processes, and     *)
(* every health reading of a live process may come out either way (a stale *)
(* heartbeat, a failing resource probe).  Time is an uptime counted in     *)
(* abstract units and capped at UptimeCap, past which the code cannot tell *)
(* two uptimes apart.                                                      *)
(***************************************************************************)
EXTENDS Integers

CONSTANTS Pids,             \* process ids of the host
          NoPid,            \* Python's None where a pid is expected
          MaxRestarts,      \* max_restarts
          StartupGrace,     \* startup_grace_s
          RetryResetAfter,  \* retry_reset_after_s
          FaultSets         \* the sets of faults a behaviour may be subject to

(***************************************************************************)
(*   spawn_fails        Popen raises                                       *)
(*   lease_write_fails  the PID lease cannot be written after Popen        *)
(*   kill_fails         a process outlives terminate() and kill()          *)
(*   unreadable_image   the image name of a live pid cannot be read        *)
(*   lookalike          an unrelated process has the worker's image name   *)
(*   reuse_held         a pid the manager adopted dies and is given to     *)
(*                      another process                                    *)
(*   lease_gap          the manager is killed between Popen and the lease  *)
(*   interrupt_start    Ctrl-C before the supervisor has a process handle  *)
(***************************************************************************)
AllFaults == {"spawn_fails", "lease_write_fails", "kill_fails",
              "unreadable_image", "lookalike", "reuse_held", "lease_gap",
              "interrupt_start"}

\* Those that leave the lease and the kill of a process to be relied on, and
\* those that leave a pid to mean what it meant when it was recorded.
LeaseFaults == {"spawn_fails", "lease_write_fails", "lookalike", "reuse_held"}
IdentityFaults == AllFaults \ {"lookalike", "reuse_held"}

ASSUME NoPidAssumption == NoPid \notin Pids
ASSUME MaxRestartsAssumption == MaxRestarts \in Nat
ASSUME StartupGraceAssumption == StartupGrace \in Nat
ASSUME RetryResetAfterAssumption == RetryResetAfter \in Nat \ {0}
ASSUME FaultSetsAssumption == \A F \in FaultSets : F \subseteq AllFaults

VARIABLES
  \* the host
  os,                  \* what runs under each pid
  pid_file,            \* the pid in the worker's lease, NoPid if there is none
  \* the supervisor's fields (memory of the manager process)
  process,             \* the pid of self.process, NoPid for None
  handle,              \* what self.process is
  state,
  restart_count,       \* kept while the manager is down, as a history
  retry_budget_reset,
  uptime,              \* time since _started_monotonic, NotStarted for None
  last_healthy,        \* last_health.healthy
  pc,                  \* where the manager process is
  after_start,         \* where start() returns to
  \* durable state
  row,                 \* the job's row in the state store
  host_changed,        \* the stored boot marker is not this boot's
  resume,              \* the config holds an unconsumed operator_resume
  \* fixed at the start of a behaviour
  faults               \* the faults that may happen in it

supervisor == <<process, handle, state, restart_count, retry_budget_reset,
                uptime, last_healthy>>
control == <<pc, after_start>>
host == <<os, pid_file>>
durable == <<row, host_changed, resume>>
vars == <<host, supervisor, control, durable, faults>>

Images == {"worker", "lookalike", "stranger"}
Foreign == {"lookalike", "stranger"}
JobState == {"QUEUED", "STARTING", "RUNNING", "VERIFYING", "COMPLETE",
             "STALLED", "FAILED", "RETRYING", "ESCALATED", "CANCELLED"}
Final == {"COMPLETE", "CANCELLED", "ESCALATED"}
Unhealthy == {"FAILED", "STALLED"}
NotStarted == -1
UptimeCap == IF StartupGrace > RetryResetAfter THEN StartupGrace
                                               ELSE RetryResetAfter
PCs == {"down", "start", "spawn", "lease", "observe", "recover", "persist",
        "idle", "stopping"}

TypeOK ==
  /\ os \in [Pids -> Images \cup {"free"}]
  /\ pid_file \in Pids \cup {NoPid}
  /\ process \in Pids \cup {NoPid}
  /\ handle \in {"none", "child", "exited", "adopted"}
  /\ state \in JobState
  /\ restart_count \in 0..MaxRestarts
  /\ retry_budget_reset \in BOOLEAN
  /\ uptime \in NotStarted..UptimeCap
  /\ last_healthy \in BOOLEAN
  /\ pc \in PCs
  /\ after_start \in {"observe", "persist"}
  /\ row \in [state : JobState \cup {"UNKNOWN"}, restart_count : 0..MaxRestarts]
  /\ host_changed \in BOOLEAN
  /\ resume \in BOOLEAN
  /\ faults \subseteq AllFaults

Init ==
  /\ os = [p \in Pids |-> "free"]
  /\ pid_file = NoPid
  /\ process = NoPid /\ handle = "none"
  /\ state = "QUEUED" /\ restart_count = 0 /\ retry_budget_reset = TRUE
  /\ uptime = NotStarted /\ last_healthy = FALSE
  /\ pc = "down" /\ after_start = "observe"
  /\ row = [state |-> "UNKNOWN", restart_count |-> 0]
  /\ host_changed = FALSE /\ resume = FALSE
  /\ faults \in FaultSets

-----------------------------------------------------------------------------
(* Helpers of the supervisor.                                              *)

\* self.process.poll() is None.  A Popen handle knows its own child; an
\* adopted one only asks whether its pid is in use.
HandleAlive ==
  /\ process # NoPid
  /\ handle \in {"child", "adopted"}
  /\ os[process] # "free"

InGrace == uptime # NotStarted /\ uptime < StartupGrace

\* What _read_health().healthy may return: heartbeat and probe may say
\* either thing of a live process, and nothing else is healthy.
HealthReadings == IF HandleAlive THEN {TRUE, FALSE} ELSE {FALSE}

\* _maybe_reset_retry_budget
BudgetResets(healthy) ==
  /\ healthy
  /\ ~retry_budget_reset
  /\ restart_count > 0
  /\ uptime # NotStarted
  /\ uptime >= RetryResetAfter

\* Faulty variant: observe() without its early return for final states.
ClassifiedAnyState(healthy) ==
  IF healthy THEN "RUNNING"
  ELSE IF ~HandleAlive THEN "FAILED"
  ELSE IF InGrace THEN "VERIFYING"
  ELSE "STALLED"

\* The state observe() moves to.
Classified(healthy) ==
  IF state \in Final THEN state
  ELSE IF healthy THEN "RUNNING"
  ELSE IF ~HandleAlive THEN "FAILED"
  ELSE IF InGrace THEN "VERIFYING"
  ELSE "STALLED"

\* What observe() changes besides state.
Observe(healthy) ==
  /\ last_healthy' = healthy
  /\ retry_budget_reset' = (retry_budget_reset \/ BudgetResets(healthy))
  /\ restart_count' = IF BudgetResets(healthy) THEN 0 ELSE restart_count

\* _clear_pid_file(pid): only a record that names pid is removed.
ClearLease(pid) == IF pid_file = pid THEN NoPid ELSE pid_file

\* _terminate_process() returns True.
Terminated ==
  /\ os' = IF HandleAlive THEN [os EXCEPT ![process] = "free"] ELSE os
  /\ handle' = IF handle = "child" THEN "exited" ELSE handle
  /\ pid_file' = IF process = NoPid THEN NoPid ELSE ClearLease(process)

\* _terminate_process() returns False: the process is still there.
NotTerminated ==
  /\ "kill_fails" \in faults
  /\ HandleAlive
  /\ UNCHANGED <<os, handle, pid_file>>

\* The end of the manager process.  Its memory goes; restart_count is kept
\* as a history of what the process knew when it ended.
Down ==
  /\ pc' = "down" /\ after_start' = "observe"
  /\ process' = NoPid /\ handle' = "none"
  /\ state' = "QUEUED" /\ retry_budget_reset' = TRUE
  /\ uptime' = NotStarted /\ last_healthy' = FALSE
  /\ UNCHANGED <<restart_count, faults>>

JobRow == [state |-> state, restart_count |-> restart_count]

-----------------------------------------------------------------------------
(* Starting the manager process and the worker.                            *)

\* _pending_operator_resume
ResumePending == resume /\ row.state = "ESCALATED"

\* manager_from_config: the count comes from the row unless this boot of the
\* host or an acknowledged escalation clears it.
ClearsBudget == host_changed \/ ResumePending
InitialRestarts == IF ClearsBudget THEN 0 ELSE row.restart_count

\* main() up to the supervisor's start(): the job starts over as QUEUED, and
\* the boot marker and the acknowledgement are consumed.
Boot ==
  /\ pc = "down"
  /\ restart_count' = InitialRestarts
  /\ retry_budget_reset' = (restart_count' = 0)
  /\ host_changed' = FALSE
  /\ resume' = (resume /\ ~ResumePending)
  /\ pc' = "start" /\ after_start' = "observe"
  /\ UNCHANGED <<host, process, handle, state, uptime, last_healthy, row,
                 faults>>

\* start() fails: the exception is caught and the job is FAILED.
StartFailed ==
  /\ state' = "FAILED"
  /\ pc' = after_start
  /\ UNCHANGED <<restart_count, retry_budget_reset, uptime, last_healthy,
                 after_start, durable, faults>>

\* _adopt_existing returns False and _spawn comes next.
NothingToAdopt ==
  /\ state' = "STARTING"
  /\ pc' = "spawn"
  /\ UNCHANGED <<restart_count, retry_budget_reset, uptime, last_healthy,
                 after_start, durable, faults>>

\* No lease.
AdoptNone ==
  /\ pc = "start"
  /\ pid_file = NoPid
  /\ NothingToAdopt
  /\ UNCHANGED <<host, process, handle>>

\* The lease names a dead pid, or one that runs another image.
AdoptStale ==
  /\ pc = "start"
  /\ pid_file # NoPid
  /\ os[pid_file] \in {"free", "stranger"}
  /\ pid_file' = NoPid
  /\ NothingToAdopt
  /\ UNCHANGED <<os, process, handle>>

\* The image name of a live pid cannot be read: the record is kept.
AdoptUnverifiable ==
  /\ pc = "start"
  /\ "unreadable_image" \in faults
  /\ pid_file # NoPid
  /\ os[pid_file] # "free"
  /\ StartFailed
  /\ UNCHANGED <<host, process, handle>>

\* Faulty variant: any live pid of the lease is taken for the worker.
LeaseUnchecked ==
  /\ pid_file # NoPid
  /\ os[pid_file] # "free"

LeaseVerified ==
  /\ pid_file # NoPid
  /\ os[pid_file] \in {"worker", "lookalike"}

AdoptHealthy ==
  /\ pc = "start"
  /\ LeaseVerified
  /\ process' = pid_file /\ handle' = "adopted"
  /\ retry_budget_reset' = (restart_count = 0)
  /\ uptime' = 0
  /\ state' = "VERIFYING"
  /\ pc' = after_start
  /\ UNCHANGED <<host, restart_count, last_healthy, after_start, durable,
                 faults>>

\* An unhealthy one is terminated first; its lease goes with it.
CandidateAbandoned == UNCHANGED os     \* faulty variant: it is left running
CandidateTerminated == os' = [os EXCEPT ![pid_file] = "free"]

AdoptUnhealthy ==
  /\ pc = "start"
  /\ LeaseVerified
  /\ CandidateTerminated
  /\ pid_file' = NoPid
  /\ process' = NoPid /\ handle' = "none"
  /\ NothingToAdopt

AdoptUnkillable ==
  /\ pc = "start"
  /\ "kill_fails" \in faults
  /\ LeaseVerified
  /\ process' = pid_file /\ handle' = "adopted"
  /\ StartFailed
  /\ UNCHANGED host

\* _spawn: Popen.
Spawn ==
  /\ pc = "spawn"
  /\ \E p \in Pids :
       /\ os[p] = "free"
       /\ os' = [os EXCEPT ![p] = "worker"]
       /\ process' = p
  /\ handle' = "child"
  /\ pc' = "lease"
  /\ UNCHANGED <<pid_file, state, restart_count, retry_budget_reset, uptime,
                 last_healthy, after_start, durable, faults>>

SpawnFails ==
  /\ pc = "spawn"
  /\ "spawn_fails" \in faults
  /\ StartFailed
  /\ UNCHANGED <<host, process, handle>>

\* _spawn: _write_pid_file and the fields set after it.
LeaseNotWritten == UNCHANGED pid_file  \* faulty variant
LeaseWritten == pid_file' = process

WriteLease ==
  /\ pc = "lease"
  /\ LeaseWritten
  /\ retry_budget_reset' = (restart_count = 0)
  /\ uptime' = 0
  /\ state' = "VERIFYING"
  /\ pc' = after_start
  /\ UNCHANGED <<os, process, handle, restart_count, last_healthy, after_start,
                 durable, faults>>

LeaseWriteFails ==
  /\ pc = "lease"
  /\ "lease_write_fails" \in faults
  /\ Terminated \/ NotTerminated
  /\ StartFailed
  /\ UNCHANGED process

-----------------------------------------------------------------------------
(* One pass of the manager's loop.                                         *)

\* tick_job's condition for recover().
NeedsRecoveryIfStalled(healthy) ==     \* faulty variant: an exit is no reason
  ~healthy /\ ~InGrace /\ Classified(healthy) = "STALLED"
NeedsRecovery(healthy) ==
  ~healthy /\ ~InGrace /\ Classified(healthy) \in Unhealthy

\* tick_job: observe, and recover when that found the worker unhealthy.
Tick ==
  /\ pc = "observe"
  /\ \E healthy \in HealthReadings :
       /\ Observe(healthy)
       /\ state' = Classified(healthy)
       /\ pc' = IF NeedsRecovery(healthy) THEN "recover" ELSE "persist"
  /\ UNCHANGED <<host, process, handle, uptime, after_start, durable, faults>>

\* recover() observes again, and the worker is healthy now.
RecoverNotNeeded ==
  /\ pc = "recover"
  /\ TRUE \in HealthReadings
  /\ Observe(TRUE)
  /\ state' = Classified(TRUE)
  /\ pc' = "persist"
  /\ UNCHANGED <<host, process, handle, uptime, after_start, durable, faults>>

\* recover()'s test of the retry budget, and what it does to the old process
\* before it escalates, before it retries, and to the count.
BudgetIgnored == TRUE                  \* faulty variant
WithinBudget == restart_count < MaxRestarts
WorkerLeft == UNCHANGED host /\ UNCHANGED handle      \* faulty variant
WorkerStopped == Terminated \/ NotTerminated
OldProcessMayLive == Terminated \/ NotTerminated      \* faulty variant
OldProcessGone == Terminated
RetryNotCounted == UNCHANGED restart_count            \* faulty variant
RetryCounted == restart_count' = restart_count + 1

\* The budget is spent: escalate, and try to terminate whatever is left.
RecoverEscalates ==
  /\ pc = "recover"
  /\ Classified(FALSE) \in Unhealthy
  /\ ~WithinBudget
  /\ Observe(FALSE)
  /\ state' = "ESCALATED"
  /\ WorkerStopped
  /\ pc' = "persist"
  /\ UNCHANGED <<process, uptime, after_start, durable, faults>>

\* The old process does not die: escalate rather than start a second one.
RecoverUnconfirmed ==
  /\ pc = "recover"
  /\ Classified(FALSE) \in Unhealthy
  /\ WithinBudget
  /\ Observe(FALSE)
  /\ NotTerminated
  /\ state' = "ESCALATED"
  /\ pc' = "persist"
  /\ UNCHANGED <<process, uptime, after_start, durable, faults>>

RecoverRetries ==
  /\ pc = "recover"
  /\ Classified(FALSE) \in Unhealthy
  /\ WithinBudget
  /\ OldProcessGone
  /\ last_healthy' = FALSE
  /\ RetryCounted
  /\ state' = "RETRYING"
  /\ pc' = "start" /\ after_start' = "persist"
  /\ UNCHANGED <<process, retry_budget_reset, uptime, durable, faults>>

\* _persist_runtime, then the sleep to the next pass.
Persist ==
  /\ pc = "persist"
  /\ row' = JobRow
  /\ pc' = "idle"
  /\ UNCHANGED <<host, supervisor, after_start, host_changed, resume,
                 faults>>

Wake ==
  /\ pc = "idle"
  /\ pc' = "observe"
  /\ UNCHANGED <<host, supervisor, after_start, durable, faults>>

-----------------------------------------------------------------------------
(* Ends of the manager process.                                            *)

\* Ctrl-C: the finally block of main() cancels the job and then persists.
\* cancel() ignores whether the process could be terminated.
Interrupt ==
  /\ pc \notin {"down", "stopping"}
  /\ (pc = "start" /\ process = NoPid) => "interrupt_start" \in faults
  /\ state' = IF state \in {"COMPLETE", "CANCELLED"} THEN state ELSE "CANCELLED"
  /\ Terminated \/ NotTerminated
  /\ pc' = "stopping"
  /\ UNCHANGED <<process, restart_count, retry_budget_reset, uptime,
                 last_healthy, after_start, durable, faults>>

Stopped ==
  /\ pc = "stopping"
  /\ row' = JobRow
  /\ Down
  /\ UNCHANGED <<host, host_changed, resume>>

\* An exception that main() does not catch: the worker is left running, and
\* the finally block persists the row.
Raise ==
  /\ pc \in {"observe", "recover", "persist"}
  /\ row' = JobRow
  /\ Down
  /\ UNCHANGED <<host, host_changed, resume>>

\* The process is killed: nothing more is written.
Crash ==
  /\ pc # "down"
  /\ pc = "lease" => "lease_gap" \in faults
  /\ Down
  /\ UNCHANGED <<host, durable>>

-----------------------------------------------------------------------------
(* The host, the operator and time.                                        *)

WorkerDies ==
  /\ \E p \in Pids :
       /\ os[p] = "worker"
       /\ os' = [os EXCEPT ![p] = "free"]
       /\ handle' = IF handle = "child" /\ process = p THEN "exited" ELSE handle
  /\ UNCHANGED <<pid_file, process, state, restart_count, retry_budget_reset,
                 uptime, last_healthy, control, durable, faults>>

\* The bound: the host always has another pid to give to a new worker.
PidReuse ==
  /\ \E p \in Pids :
       /\ os[p] = "free"
       /\ \E q \in Pids \ {p} : os[q] = "free"
       /\ (handle = "adopted" /\ process = p) => "reuse_held" \in faults
       /\ \E image \in Foreign :
            /\ image = "lookalike" => "lookalike" \in faults
            /\ os' = [os EXCEPT ![p] = image]
  /\ UNCHANGED <<pid_file, supervisor, control, durable, faults>>

ForeignExits ==
  /\ \E p \in Pids :
       /\ os[p] \in Foreign
       /\ os' = [os EXCEPT ![p] = "free"]
  /\ UNCHANGED <<pid_file, supervisor, control, durable, faults>>

HostReboot ==
  /\ os' = [p \in Pids |-> "free"]
  /\ Down
  /\ host_changed' = TRUE
  /\ UNCHANGED <<pid_file, row, resume>>

\* The operator writes a new operator_resume identifier into the config.
Acknowledge ==
  /\ ~resume
  /\ resume' = TRUE
  /\ UNCHANGED <<host, supervisor, control, row, host_changed, faults>>

Elapse ==
  /\ pc # "down"
  /\ uptime # NotStarted
  /\ uptime < UptimeCap
  /\ uptime' = uptime + 1
  /\ UNCHANGED <<host, process, handle, state, restart_count,
                 retry_budget_reset, last_healthy, control, durable, faults>>

-----------------------------------------------------------------------------

Start ==
  \/ AdoptNone \/ AdoptStale \/ AdoptUnverifiable
  \/ AdoptHealthy \/ AdoptUnhealthy \/ AdoptUnkillable
  \/ Spawn \/ SpawnFails \/ WriteLease \/ LeaseWriteFails

Loop ==
  \/ Tick \/ RecoverNotNeeded \/ RecoverEscalates \/ RecoverUnconfirmed
  \/ RecoverRetries \/ Persist \/ Wake

End == Interrupt \/ Stopped \/ Raise \/ Crash

Environment ==
  WorkerDies \/ PidReuse \/ ForeignExits \/ HostReboot \/ Acknowledge \/ Elapse

Next == Boot \/ Start \/ Loop \/ End \/ Environment

Spec == Init /\ [][Next]_vars

\* The manager process is sequential: while it runs, its next step is taken,
\* and time passes.  Nothing forces a fault, a boot or a change on the host.
Fairness == WF_vars(Start \/ Loop \/ Stopped) /\ WF_vars(Elapse)

LiveSpec == Spec /\ Fairness

-----------------------------------------------------------------------------
(* Properties.                                                             *)

SpawnStep == pc = "spawn" /\ pc' = "lease"

\* The lease does its work: the host never runs two workers of one job,
\* however the manager ends and starts again.
AtMostOneWorker ==
  faults \subseteq LeaseFaults =>
    \A p, q \in Pids : os[p] = "worker" /\ os[q] = "worker" => p = q

\* While the manager sleeps, a live worker is the one its supervisor holds:
\* no worker runs unsupervised.
NoOrphan ==
  faults \subseteq LeaseFaults /\ pc \in {"persist", "idle", "observe"} =>
    \A p \in Pids : os[p] = "worker" => process = p /\ HandleAlive

\* Escalation stops the job: recover() leaves no worker behind.
EscalationStopsWorker ==
  faults \subseteq LeaseFaults /\ state = "ESCALATED" =>
    \A p \in Pids : os[p] # "worker"

\* Within one manager process an escalated job is neither started nor
\* brought back to a running state; only an interrupt cancels it.
EscalationSticks ==
  [][state = "ESCALATED" /\ pc' # "down" =>
       /\ state' \in {"ESCALATED", "CANCELLED"}
       /\ \A p \in Pids : os'[p] = "worker" => os[p] = "worker"]_vars

\* No step of the manager ends a process that is not a worker of the job
\* (supervisor.py:469-470).
InnocentSpared ==
  [][faults \subseteq IdentityFaults =>
       \A p \in Pids :
         os[p] \in Foreign /\ pc' \notin {pc, "down"} => os'[p] = os[p]]_vars

\* A worker that would not die is never replaced: when recover() or start()
\* calls Popen, the process the supervisor held before is gone.
SpawnReplacesDead ==
  [][SpawnStep => process = NoPid \/ os[process] # "worker"]_vars

\* "A live but unverifiable PID must never be killed or shadowed by a second
\* worker" (supervisor.py:465-466): none is started while one runs.
NeverShadowed ==
  [][SpawnStep => \A p \in Pids : os[p] # "worker"]_vars

\* A failure found by the manager is answered: the worker is up again, the
\* job is escalated, or the manager has ended.
FailureAnswered ==
  (pc = "idle" /\ state \in Unhealthy) ~>
    (\/ state \in {"VERIFYING", "RUNNING", "ESCALATED"}
     \/ pc \in {"stopping", "down"})

\* A worker that is never found healthy again ends up escalated: retries are
\* bounded.
HopelessEscalates ==
  <>[](~last_healthy /\ pc \notin {"stopping", "down"}) =>
    <>(state = "ESCALATED")

=============================================================================
