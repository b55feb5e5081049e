# Machine Manager: TLA+ models, checks and proofs

Machine Manager is a small Python program that keeps one machine working. A
manager process supervises long-running workers, keeps a durable queue of tasks
in SQLite, asks a few advisory agents for reviews, and publishes sanitised
status. A watchdog script starts the manager again whenever it ends. What is
hard about it is what happens between two writes: the manager may be killed,
interrupted, or made to raise at any point, and the next manager has to carry on
from a PID file and a database.

This directory holds TLA+ modules translated from the code, TLC configurations
that check them on small instances, and proofs checked by TLAPS for every value
of the constants. `PROJECT.json` maps each definition to its lines of code.

## The system

| Component | State | Operations | Interacts with |
| --- | --- | --- | --- |
| Worker supervision (`supervisor.py`, `machine_manager.py`) | process handle, state, restart count, PID lease on disk, job row | start, adopt, spawn, observe, recover, cancel, tick | host processes, job row, manager's loop |
| Manager process (`run.py`, `instance_lock.py`) | the lock file, the boot marker, consumed acknowledgements, the job's row | launch, start-up, loop, shutdown | everything, in one sequential loop; the watchdog; other managers |
| Task ledger (`state_store.py`, `scheduler.py`) | the tasks table | enqueue, claim, start, finish, requeue | dispatchers, agents, recurring tasks |
| Queue dispatchers (`dispatcher.py`) | pending items and their futures | dispatch, collect, close | ledger, handler threads |
| Recurring tasks (`recurring.py`) | a cursor per template in the meta table | tick | ledger |
| Agent coordinator (`agents.py`) | reviews in flight, counts | tick, close | ledger, agent rows, agent threads |
| Outreach registry (`autonomy.py`) | contacts table | prepare, record_sent, record_opt_out | whoever sends messages |
| Constraint audits (`evidence.py`) | a cursor and last report per target | tick, run | audit threads, store |
| Workstreams (`workstreams.py`) | a row per stream | sync | agents, audits, events |
| Public files (`telemetry.py`) | three JSON files, a window of events | publish, merge | events table, upload |
| Public upload (`public_upload.py`) | last digest, last publish, local branch | publish, mirror | GitHub, git, whoever works in the checkout |
| Probes, handlers, redaction, capabilities, dashboard | none of their own | read, format | |

Where it is hard, by component:

- *Supervision*: who owns a pid, across kills, reboots and pid reuse; the order
  of Popen and lease; Ctrl-C inside start(); a kill that does not work; counts
  that are in memory only; escalation that must hold.
- *Ledger and dispatchers*: handlers run concurrently with the loop, outlive it,
  and end in any order; a task is RUNNING in the database while its owner is a
  variable in memory; a store failure at any call; attempt budgets over restarts.
- *Recurring tasks and agents*: two transactions that belong together; durable
  and in-memory counts.
- *Outreach*: drafts in flight while a recipient opts out.
- *Audits*: a cursor into a listing that changes under it; scans that are lost,
  cut short or carried over to another strategy.
- *Start-up and end*: budgets that are cleared for a reboot or an acknowledgement,
  in several writes; managers that are launched while another one still ends.
- *Streams and public events*: a row and its event are written apart; the public
  window is put together from a file and a table that each outlive the process.
- *Public upload*: a branch that others push to between two requests, a lost
  answer, and a checkout that somebody works in between two git commands.

The full list, line by line, is under `hazards` in `PROJECT.json`.

## Modules

| Module | Models |
| --- | --- |
| `Supervisor` | one worker, its lease, its job row, the manager's loop, the host |
| `TaskLedger` | the operations of the tasks table, one transaction each |
| `TaskLifecycle` | abstract: what the ledger promises about one task |
| `Dispatcher` | extends `TaskLedger`: both dispatchers, handlers, restarts |
| `Recurring` | the seeder; its environment works on runs as `TaskLifecycle` allows |
| `Agents` | instantiates `TaskLedger`: the coordinator, counts, restarts |
| `Outreach` | drafts, sends, opt-outs |
| `Audits` | the scan of one target, window by window, and its row |
| `PublicUpload` | the three files of a pass, the branch on GitHub, the local mirror |
| `PublicEvents` | the events table, its projection and the merge of the public window |
| `Workstreams` | what a stream shows, and when its row and its event are due |
| `Manager` | extends the last two: processes, lock, start-up, one pass, every end |
| `MC*` | instances for TLC: symmetry sets; the cfg files give the constants |
| `*Proofs` | theorems about the module they extend |

Some definitions have a neighbour marked *faulty variant*: a plausible bug in
the same piece of code, with which a property of that module fails. They are not
used by the specification.

### Supervisor

The host is a function `os` from pids to what runs there: nothing, a worker of
this job, or an unrelated process, with the worker's image (`lookalike`) or
another (`stranger`). `pid_file` is the lease, `process`/`handle` are
`self.process` and whether it is a Popen child or an adopted pid. One action per
step of `start()` (`Adopt*`, `Spawn`, `WriteLease`, and their failures), `Tick`
and `Recover*` for `tick_job` and `recover`, `Persist` for the end of a pass,
and `Interrupt`, `Raise`, `Crash`, `Stopped`, `Boot` for the life of the manager.

Abstractions:

- Health readings are nondeterministic for a live process: heartbeat and probe
  may say anything. A liveness query of a pid is exact, as with `os.kill(pid, 0)`.
- `uptime` counts units from the start of a worker and stops at `UptimeCap`,
  past which no comparison of the code can tell two values apart. `StartupGrace`
  and `RetryResetAfter` are in the same unit.
- Supervisors share nothing, so one job is enough. A PID file is configured.
- Ending an adopted process and clearing its lease is one step.
- `PidReuse` leaves one pid free: the bound that the host never runs out.
- The calls of `mark_complete` and `complete_job` are left out: `run.py` makes
  none, so no state COMPLETE is reached.
- What may go wrong is listed in `AllFaults`. The variable `faults` is the set of
  those that may happen in a behaviour; it is chosen from `FaultSets` in the
  initial state and never changes, so that one run covers several sets and a
  property can say under which of them it is promised (`LeaseFaults`,
  `IdentityFaults`; the others hold under all). Crashes, reboots, worker deaths, reuse of unheld pids and
  operator acknowledgements are always admitted.

The `restart_count` kept while the manager is down is history: no guard of the
code's actions reads it.

### TaskLedger, TaskLifecycle, Dispatcher

Of `scheduled_at` only "has it passed" and "which is older" matter, so `ready`
is the sequence of due tasks; a QUEUED task outside it is scheduled for later
and `FallDue` appends it. `attempts` saturates at `MaxAttempts`. `pc` walks
through `dispatch()`: collect each pending item, claim a batch, defer or submit
each item; `await` is the in-loop handler; `closing`/`requeue` are `close()`.
`running` and `detached` are handler threads of this manager and of ended ones.
`background` and `storeFails` are chosen in the initial state and never change:
which dispatcher it is, and whether every write may raise, before or, where an
event follows the row, after it is made; `Caught` and `ApplyError` are the two handlers of such an
exception. `failures` is a history variable.

### Recurring

Time is relative: `wait[s]` is `next_at - now`, no less than `-Interval`, below
which nothing changes. `tick()` reads the clock once, so `Elapse` happens between
passes only. The wall clock is assumed not to go back. `MaxRuns` bounds the runs;
`Exhausted` stands for the bound. `age` is history. `storeFails` is chosen in the
initial state, as in `Dispatcher`.

### Agents

A review is `<<agent, n>>`, of which only its agent touches the row, because the
dispatcher reserves the kind. `task[a]` is the id in `_pending_task_ids`, or in
the hand of `_start_task`. An answer, an error and a timeout of an agent are the
same event to the ledger. `start()` never returns False here, since nothing else
claims reviews, and that branch is left out. `MaxReviews` bounds the reviews and
is where counts saturate; `Exhausted` stands for the bound. `finished` is history,
and so is `raises`, the number of calls to the store that have raised, bounded by
`MaxRaises`: what a raise breaks is promised up to the number of those that have
happened (`OneOpenReview`, `CountsAreExact`) or while `raises = 0` (`NoRework`).

### Outreach

`Spellings` is how callers write the channel; rows are written under the
normalised spelling, and looked up under the one given. Opt-outs are honoured by
the charter (the default). Drafts to a recipient that do not differ in
`first_contact` are one element. The registry has no caller in the repository but
its tests, so calls are taken as atomic, in any order.

### Audits

A file is its place in the listing sorted by casefolded path, and `Key` the path
that the cursor is compared with: that of a twin is the key of the file before it.
The thread's scan is one step for the listing and one per file (`Begin`, `Read`,
`Report`), so files change in between. Whether a file's findings reach
`max_findings` is a choice (`cut`). `strategy` stands for the whole signature and
is `max_files`, the part of it that the scan's course depends on. `tick()` is
`CollectFailed`, `Collect` or `Unfinished`, then `Schedule` or `NotDue`. Targets
share only the thread, which takes them in turn, so one is modelled, and its wait
for the thread is the delay of `Begin`. A store that raises in `tick()` ends the
manager, as `Down` does. `seen`, `owed` and `owing` are history.

### PublicUpload

A tree is the version of each public file and one version for everything else; a
commit is its tree, who made it, and the set of commits behind it. `Pass`,
`WriteFile` and `WriteFails` are `TelemetryPublisher.publish`, one atomic
replacement per file; `ReadBranch`, `UpdateBranch` and `Rejected` are the
requests of `publish()` that others can see (blobs, tree and commit are objects
that nobody reads before the branch points to them); `ReadHead`, `ReadStatus`,
`ReadTree`, `MoveBranch` and `Defer` are the git commands of `_mirror_local_ref`.
`Others` push to GitHub and edit, stage, commit and push in the checkout.
`quiet`, fixed in a behaviour, says that they leave the checkout alone while the
mirror runs: one promise needs it. `recent` and `excused` are history.

### PublicEvents, Workstreams, Manager

An event is what it is about, the state it tells and its number, which stands for
its timestamp and for the unique end of its id; `LongNames` are the names whose
ids are cut off before that end when they are written to the public file.

`Manager` has a program counter per process: `Launched` (read the config),
`Acquire` or `Refused`, `UpdateMarker`, `Build`, `Consume`, `AnnounceResume`,
`StartAll`, and then the pass: `Tick`, `SyncStream` per stream (row), `TellStream`
(event), `PersistEvent`, `PersistRow`, `PublishLatest`, `PublishEvents`, `Wake`.
Each write is an action. `Fail` is an exception in the loop, `Interrupt` is Ctrl-C
(both go through the `finally` block, and only the second publishes), `FailEarly`
an exception before there is anything to persist, `Crash` a kill, which releases
the lock as the system does, and `Reboot` ends them all. What a tick finds of the
job is any step of the supervisor (`Ticked`), and sources of streams change at
will. `Budgets` bounds how often each trouble may happen; the initial state
chooses one of them. `ever`, `granted` and `torn` are history.

## Runs

Bounds: three pids are a worker, the one that replaces it and an unrelated
process; one or two retries let a budget be spent and, with a reset, refilled;
two handled tasks compete for one slot while a third has no handler; a limit and
an attempt budget of two are spent and left over; two or three runs or reviews
show a lost one, a repeated one and one after; three files, one a twin, with
windows of one and two make a window end before, at and behind each. Two
snapshots with two faults are a publish that fails and a later one that may mix
with it; four commits are one of each side and one more of each to race them.
Two managers are one that ends and the next, or one beside it; two streams of
different kinds, a window of three events and a table of four, with two events
public before, let a window lose the oldest, and the budgets of `MCManager` let
those troubles meet that act on the same state (ends with moved sources; ends
with acknowledgements and escalations; ends with reboots; failed writes; overlapping
processes). Pids and recipients are interchangeable, so the safety runs over them
use symmetry; runs with liveness use none.

| Run | Question | Result |
| --- | --- | --- |
| `SupervisorSafety` | with the lease faults: is there one worker, always supervised, none after escalation? with the identity faults: is an unrelated process ever ended? with all: does escalation hold, and is a live worker never replaced? | holds, never, holds |
| `SupervisorLive` | are failures answered and is a hopeless worker escalated? | holds |
| `DispatcherAll` | both dispatchers, working and failing store: ownership of RUNNING rows, slots, budget, life cycle, and is every task settled? | hold; ownership, life cycle and settling with a working store |
| `RecurringRuns` | overlap, cursor, bursts, with crashes and failures between the two writes, and does the next run come? | hold |
| `AgentsReviews` | duplicates, counts, life cycle, rework, across restarts, and is every queued review done? | hold; the life cycle whatever raises, duplicates and counts but for one for each call that raised |
| `OutreachSafety` | disclosure, settled opt-outs | hold |
| `AuditsCoverage` | does the cursor pass a file that stays, and is every such file scanned again and again? | no; yes, twins excepted |
| `PublicUploadRuns` | is what is published whole, does any commit get lost on GitHub or in the checkout, do publishes keep their distance, and does the newest whole snapshot get out? | hold; the distance but for a lost answer or a restart |
| `ManagerRuns` | does an acknowledgement or a reboot count once, is the row the holder's, do rows and events of streams agree, is the public window the newest of all events, and is what the sources say shown in the end? | hold; events but for those lost with a process |

Deadlock is checked in every run.

Runs that expect a violation, each a disagreement between the code and a
sentence of its documentation, comments or docstrings, quoted in `PROJECT.json`:

| Run | What happens |
| --- | --- |
| `SupervisorUnverifiable` | a live worker whose image cannot be read is shadowed by the recovery of the same pass |
| `DispatcherOverlap` | a handler outlives its manager and the instance lock |
| `PublicHistory` | after a restart one event of a stream with a long name is in the public window twice |

The conditions of the passing properties name what else the code does not
survive, each seen as a counterexample when its condition is dropped:

- `AtMostOneWorker`, `NoOrphan`: a kill of the manager between Popen and the
  lease, an unreadable image, a Ctrl-C before the supervisor has a handle and a
  kill that fails each lead to a second worker or to one without supervision.
- `InnocentSpared`: a leased pid that now belongs to another process with the
  worker's image (that of any Python process) is terminated.
- `RunningIsOwned`: a store failure in a claimed batch leaves the rest of the
  batch RUNNING until the next start. `ImplementsLifecycle`: a failure to record
  an escalation hands the task to the error path, which may queue it again.
- `NoRework`: a review whose completion could not be written is counted, and done
  again after a restart.
- `SettledOptOutHolds`: prepare() looks a contact up under the channel as it is
  spelled, so another spelling misses the suppression. The run gives `Spellings`
  the normal form only, and the theorem assumes it.
- `NothingSkipped`, `EveryFileAudited`: two files whose paths differ in case only
  share a cursor, and the second is missed whenever a window ends between them.
- `LocalWorkKept`: with somebody staging between `git status` and `git read-tree`
  the staged state is lost (`quiet` leaves this out). `Cadence`: a lost answer or
  a restart forgets the last publish (`excused`).
- `StreamEventsMatch`: a process that ends between the row of a stream and its
  event takes the event with it (`torn`).
- `HistoryIsWhole`: `ManagerRuns` has no long names, of which `PublicHistory`
  shows the effect.

### Known differences

Besides the findings of `PROJECT.json`, the code differs here from what its
sentences say or a reader would expect. The models have the behaviour; no
property states the expectation.

- `_maybe_reset_retry_budget` says "a continuous, verified healthy interval"
  (supervisor.py:309), but measures the time since the worker started, unhealthy
  readings included.
- A plain restart of the manager starts an ESCALATED job again, with its spent
  budget: the state of the row is read for a pending acknowledgement only
  (run.py:249 on).
- `record_sent` writes ACTIVE over an opt-out that came while the draft was in
  flight (autonomy.py:139).
- The boot marker and the acknowledgement are stored before the cleared count is
  in the row. A process that ends in between loses the reset: `GrantedOnce` says
  at most once.
- The mirror moves index and branch and leaves the working tree alone, so files
  that others changed on GitHub read as edits in the checkout, after which the
  mirror defers until somebody restores them.
- `publish` reads the files outside its `try` (public_upload.py:243): a missing
  or too large file leaves the pass without an entry in `last_error`.
- On Windows the boot marker is the clock minus the tick count, rounded to
  minutes (run.py:66), so a clock that is set may look like a reboot. The model's
  marker is exact, as on POSIX.

### Fairness

`Supervisor`: the manager is one sequential thread, so its next step is taken
while it runs, and time passes. `Dispatcher`, `Agents`: besides, every handler
and every request to an agent returns (each has a timeout), and delays pass.
The loop of `Agents` is fair in the steps in which the store does not raise.
`Recurring`: `Elapse` is strongly fair, since in the model it is disabled during
a pass while real time is not. `Audits`: the loop and the scanning thread go on
and intervals pass. In these no boot, crash, arrival of work or action of the
operator is fair, so liveness is stated up to the end of the manager.

`PublicUpload`: the publisher's next step is taken and the cooldown passes; the
faults and what others do are not fair. `Manager`: the steps of each process are
fair, and so is `Relaunch`, because the watchdog is an endless loop around the
process (run_machine_manager_watchdog.ps1:39-52); its delay is no matter of
order. So `SourcesShown` goes past the end of a process. It needs that troubles
end, which `Budgets` says.

## Proofs

| Theorem | For every | Argument |
| --- | --- | --- |
| `SupervisorProofs!TypeCorrect` | constants, faults | one lemma for flags and one for values |
| `SupervisorProofs!OneSupervisedWorker` | constants; the properties are conditional on `LeaseFaults` | see below |
| `SupervisorProofs!InnocentsAreSpared` | constants; conditional on `IdentityFaults` | the supervisor's handle never names an unrelated process |
| `SupervisorProofs!OthersShadowNothing` | constants, the faults of `LeaseFaults` | the same `LeaseInv` as `OneSupervisedWorker` |
| `DispatcherProofs!TypeCorrect` | tasks, limits, both dispatchers, store faults | see below |
| `DispatcherProofs!ForegroundNeverOverlaps` | the same, for a `WorkDispatcher` | it never closes, so no handler is left behind |
| `DispatcherProofs!BudgetHonoured` | tasks, limits, budgets, both dispatchers, with and without store faults | see below |
| `DispatcherProofs!NothingStranded` | the same; conditional on a working store | every RUNNING row is pending, in the error path or in the claimed batch |
| `DispatcherProofs!LifecycleImplemented` | the same | each step moves each row as `TaskLifecycle` allows |
| `RecurringProofs!RunsNeverOverlap` | templates, intervals, bounds, store faults | see below |
| `SupervisorProofs!OldWorkerIsGone`, `EscalationIsFinal` | constants, all faults | a live worker is never behind a handle that was let go; an escalated job is past `start()` |
| `DispatcherProofs!SlotsHonoured` | the same as `BudgetHonoured` | what is held or claimed fits the slots; `Due` is the image of at most `limit` places |
| `RecurringProofs!NoCatchUpBurst` | the same as `RunsNeverOverlap` | age and wait of a resting template make an interval |
| `AgentsProofs!LifecycleImplemented` | agents, bounds, whatever raises | who holds a review in which state (`HandInv`) |
| `AgentsProofs!TypeCorrect` | the same | see below |
| `AgentsProofs!OneReviewIsOpen`, `CountsStayExact` | the same | see below |
| `AgentsProofs!NothingIsRedone` | the same, while nothing has raised | see below |
| `OutreachProofs!DisclosureComesFirst` | recipients, spellings | a row with a first contact belongs to a recipient that has been told |
| `OutreachProofs!SettledOptOutsHold` | recipients, one spelling | the row of a settled recipient suppresses until a send, and there is none |
| `AuditsProofs!AuditSkipsNothing` | files, twins, window sizes | see below |
| `PublicUploadProofs!TypeCorrect`, `PublishedWhole`, `RemoteForward`, `MirrorKeepsWork`, `CadenceKept` | bounds on snapshots, sources, commits, faults | see below |
| `ManagerProofs!RowIsTheHolders`, `GrantsAreUnique`, `TypeCorrect`, `EventsInOrder`, `EventsTellRows` | processes, streams, limits, budgets, earlier histories | see below |
| `ManagerProofs!HistoryStaysWhole`, `NothingTwice` | the same, when every id fits (`LongNames = {}`) | see below |

- *OneSupervisedWorker.* That there is one worker is not inductive: one must know
  where it is recorded. `LeaseInv` says for each place of the manager's program
  that a live worker is the one the lease names, or, between Popen and the lease,
  the one the handle names; and that after an escalation there is none.
- *BudgetHonoured.* `PendingInv` ties the memory of the dispatcher to the rows:
  an item in hand is RUNNING and in one place. `BudgetInv` adds that attempts are
  ahead of failures while an item is in hand, so a failure that reaches the budget
  finds the attempts there too and escalates.
- *RunsNeverOverlap.* `OrderInv`: the rows of a template are the first `cursor`
  or `cursor + 1` numbers, and wherever there is a row all earlier runs have ended.
- *AuditSkipsNothing.* `CoverInv` says what a scan in progress still owes: a file
  of the rest of its window, or one behind everything in it. That a window is the
  first files of its listing needs the well-foundedness of the natural numbers.
- *Types of `Dispatcher` and `Agents`.* What needs an argument is `ready`. That
  `Without` gives a sequence is a matter of counting (`WithoutTyped`): each place
  that is kept has a number of its own. A manager that starts appends the RUNNING
  tasks as a sequence, so they must be finitely many: a claim adds as many as it
  asked for, and `SlotsInv` says that it asks for a natural number.
- *Agents.* `DebtInv` holds whatever raises: an agent has no more open reviews than
  calls have raised, and one more if somebody will see to it (the agent works on
  it, or one is queued for it to adopt, or the next manager will queue it); and its
  count, with a review that is out and has no row, is ahead of its rows by the
  calls that raised at most. While nothing has raised, a RUNNING review is the one its agent works
  on and an agent has one open review (`Clean`); then a new one is only queued when
  there is none, and a count is the number of completed rows (`CountsInv`), with
  the saved count behind it.
- *PublicUpload.* `HistoryInv` is about the commits: what is behind a commit comes
  before it, and commits are never changed (`Kept`). On it rest `WholeInv` (past
  the writing the three files are of one pass, and so is every commit of the
  manager), `MirrorInv` (when the branch is to be moved, what was read is behind
  the new commit, and nothing is staged if nobody stages) and `CadenceInv` (a
  publish that took effect is either known, or on its way to be, or excused).
- *RowIsTheHolders.* `HolderInv`: a process past `Acquire` is the one that the lock
  names, so nobody else writes the row between its persist and its sleep.
- *GrantsAreUnique.* `GrantInv`: an acknowledgement that was granted is consumed
  and a granted boot is not newer than the marker; a process on its way to grant
  one has consumed or marked it itself and is the first.
- *EventsInOrder, EventsTellRows.* `EventInv` says that events are numbered in the
  order in which they are made, wherever they are: logged, waiting to be appended
  or waiting to be told. On it rests `StreamInv`: what a stream's newest event
  says is what its row says, or the event still waits in the process that wrote
  the row, or that process ended with it (`torn`).
- *HistoryStaysWhole, NothingTwice.* That `shown` is the newest of all events when
  it is written is not inductive, because what is written is merged from an old
  window, which may stem from before a restart, and a table that forgets.
  `TableInv` says that the table holds the newest of the events since the store
  was new, and `WindowInv` that each window, read back or in memory, lists some of
  the events up to a cut, the newest of them included, and that whatever is still
  to be logged is behind the cut. Both need `LongNames = {}`, since a cut id is
  another event to the merge. That an event's rank is the number of newer ones, and
  that each rank is taken, is proved by counting (`PlacesTaken`, `Ranks`).
- *ManagerProofs!TypeCorrect.* The length of the window needs `LengthInv`, which
  holds with cut ids too, as a merge takes no more than `Limit`; only the file that
  was there before the first pass may be longer (`Published`).

Assumptions are the named `ASSUME`s of the modules: budgets and intervals are
natural numbers, handled and reserved tasks are disjoint, the sets of faults hold
faults of the list, the retention of events is no less than the window, and a
stream is not called as the events about jobs or the events from before are
(`NamesAssumption`).

Every safety and action property that a passing run checks is stated by one of
these theorems. Three theorems say what the runs that expect a violation need: a
fault outside `LeaseFaults`, a `BackgroundWorkDispatcher`, an id that is cut.

Model-checked only: liveness (fairness and ENABLED are beyond the prover), that is
`FailureAnswered`, `HopelessEscalates`, `EveryTaskSettles`, `NextRunComes`,
`ReviewSettles`, `EveryFileAudited`, `LatestReachesRemote` and `SourcesShown`. No
property is stated of the order in which due tasks are claimed.

## Not modelled

- The inside of the work handlers, probes and requests to agents: single calls,
  of which the models take any result.
- Redaction and the projection of snapshots to text, the dashboard and the
  capability registry: formatting and static data.
- `mark_complete`, `complete_job` and `queue_objective_change`: the manager's loop
  calls none of them (the last is an `Enqueue` of `TaskLedger` and leaves the job
  alone).
- Of the manager: `--once`, `--resume-after-host-boot`, the hint taken from the
  public state when the store is new, the status file; several jobs, which share
  nothing but the loop. The order of dispatchers, agents and audits in one pass,
  which each module leaves open: they share the ledger, but under kinds that are
  reserved.
- Streams of kind static, metrics of streams, worker profiles, installation.
- A lease that cannot be read for a moment (supervisor.py:448), a wall clock that
  goes back, and casefolded twins but for their effect on a cursor.

## Left to do

- An abstract restart budget, refined by `Supervisor` and by the job of `Manager`.
- One composition of dispatcher, agents and recurring tasks over one ledger, which
  would check that reserved kinds keep them apart rather than assume it.
