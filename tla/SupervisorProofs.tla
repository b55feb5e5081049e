--------------------------- MODULE SupervisorProofs ---------------------------
(***************************************************************************)
(* Proofs about Supervisor, for any set of pids, any restart budget and    *)
(* any grace and reset intervals.                                          *)
(***************************************************************************)
EXTENDS Supervisor, TLAPS

-----------------------------------------------------------------------------
(* Type correctness, whatever faults happen.                               *)

LEMMA CapType == UptimeCap \in Nat /\ RetryResetAfter <= UptimeCap
BY StartupGraceAssumption, RetryResetAfterAssumption DEF UptimeCap

\* The typing of the Boolean variables is first-order, that of the others
\* needs arithmetic: each has a lemma of its own.
FlagsTyped ==
  /\ retry_budget_reset \in BOOLEAN
  /\ last_healthy \in BOOLEAN
  /\ host_changed \in BOOLEAN
  /\ resume \in BOOLEAN

ValuesTyped ==
  /\ os \in [Pids -> Images \cup {"free"}]
  /\ pid_file \in Pids \cup {NoPid}
  /\ process \in Pids \cup {NoPid}
  /\ handle \in {"none", "child", "exited", "adopted"}
  /\ state \in JobState
  /\ restart_count \in 0..MaxRestarts
  /\ uptime \in NotStarted..UptimeCap
  /\ pc \in PCs
  /\ after_start \in {"observe", "persist"}
  /\ row \in [state : JobState \cup {"UNKNOWN"}, restart_count : 0..MaxRestarts]

\* The faults are chosen once.
LEMMA FaultsFixed == [Next]_vars => faults' = faults
<1> SUFFICES ASSUME [Next]_vars PROVE faults' = faults
  OBVIOUS
<1>1. CASE Boot
  BY <1>1 DEF Boot
<1>2. CASE Start
  BY <1>2 DEF Start, AdoptNone, AdoptStale, AdoptUnverifiable, AdoptHealthy,
     AdoptUnhealthy, AdoptUnkillable, Spawn, SpawnFails, WriteLease,
     LeaseWriteFails, NothingToAdopt, StartFailed
<1>3. CASE Loop
  BY <1>3 DEF Loop, Tick, RecoverNotNeeded, RecoverEscalates,
     RecoverUnconfirmed, RecoverRetries, Persist, Wake
<1>4. CASE End
  BY <1>4 DEF End, Interrupt, Stopped, Raise, Crash, Down
<1>5. CASE Environment
  BY <1>5 DEF Environment, WorkerDies, PidReuse, ForeignExits, HostReboot,
     Acknowledge, Elapse, Down
<1>6. CASE UNCHANGED vars
  BY <1>6 DEF vars
<1> QED
  BY <1>1, <1>2, <1>3, <1>4, <1>5, <1>6 DEF Next

LEMMA FlagsStep == TypeOK /\ [Next]_vars => FlagsTyped'
<1> SUFFICES ASSUME TypeOK, [Next]_vars PROVE FlagsTyped'
  OBVIOUS
<1> USE DEF TypeOK, FlagsTyped
<1>1. CASE Boot
  BY <1>1 DEF Boot, ResumePending
<1>2. CASE Start
  BY <1>2 DEF Start, AdoptNone, AdoptStale, AdoptUnverifiable, AdoptHealthy,
     AdoptUnhealthy, CandidateTerminated, AdoptUnkillable, Spawn, SpawnFails, WriteLease,
     LeaseWritten, LeaseWriteFails, NothingToAdopt, StartFailed, durable
<1>3. CASE Loop
  BY <1>3 DEF Loop, Tick, NeedsRecovery, RecoverNotNeeded, RecoverEscalates,
     RecoverUnconfirmed, RecoverRetries, WorkerStopped, OldProcessGone,
     RetryCounted, Persist, Wake, Observe,
     HealthReadings, supervisor, durable
<1>4. CASE End
  BY <1>4 DEF End, Interrupt, Stopped, Raise, Crash, Down, durable
<1>5. CASE Environment
  BY <1>5 DEF Environment, WorkerDies, PidReuse, ForeignExits, HostReboot,
     Acknowledge, Elapse, Down, supervisor, durable
<1>6. CASE UNCHANGED vars
  BY <1>6 DEF vars, supervisor, durable
<1> QED
  BY <1>1, <1>2, <1>3, <1>4, <1>5, <1>6 DEF Next

LEMMA ValuesStep == TypeOK /\ [Next]_vars => ValuesTyped'
<1> USE NoPidAssumption, MaxRestartsAssumption, RetryResetAfterAssumption, CapType
<1> SUFFICES ASSUME TypeOK, [Next]_vars PROVE ValuesTyped'
  OBVIOUS
<1> USE DEF TypeOK, ValuesTyped
<1>1. CASE Boot
  BY <1>1 DEF Boot, InitialRestarts, host, PCs
<1>2. CASE Start
  <2> USE DEF NothingToAdopt, StartFailed, host, durable, JobState, PCs
  <2>1. CASE AdoptNone  BY <2>1 DEF AdoptNone
  <2>2. CASE AdoptStale  BY <2>2 DEF AdoptStale
  <2>3. CASE AdoptUnverifiable  BY <2>3 DEF AdoptUnverifiable
  <2>4. CASE AdoptHealthy
    BY <2>4 DEF AdoptHealthy, LeaseVerified, NotStarted
  <2>5. CASE AdoptUnhealthy
    BY <2>5 DEF AdoptUnhealthy, CandidateTerminated, LeaseVerified
  <2>6. CASE AdoptUnkillable
    BY <2>6 DEF AdoptUnkillable, LeaseVerified
  <2>7. CASE Spawn  BY <2>7 DEF Spawn, Images
  <2>8. CASE SpawnFails  BY <2>8 DEF SpawnFails
  <2>9. CASE WriteLease  BY <2>9 DEF WriteLease, LeaseWritten, NotStarted
  <2>10. CASE LeaseWriteFails
    BY <2>10 DEF LeaseWriteFails, Terminated, NotTerminated, ClearLease
  <2> QED
    BY <1>2, <2>1, <2>2, <2>3, <2>4, <2>5, <2>6, <2>7, <2>8, <2>9, <2>10
    DEF Start
<1>3. CASE Loop
  <2> USE DEF host, durable, JobState, PCs
  <2>1. CASE Tick
    <3>1. restart_count' \in 0..MaxRestarts
      BY <2>1 DEF Tick, NeedsRecovery, Observe
    <3>2. state' \in JobState /\ pc' \in PCs
      BY <2>1 DEF Tick, NeedsRecovery, Classified
    <3> QED  BY <2>1, <3>1, <3>2 DEF Tick, NeedsRecovery
  <2>2. CASE RecoverNotNeeded
    <3>1. restart_count' \in 0..MaxRestarts
      <4>1. restart_count' = 0 \/ restart_count' = restart_count
        BY <2>2 DEF RecoverNotNeeded, Observe
      <4> QED  BY <4>1
    <3>2. state' \in JobState /\ pc' \in PCs
      <4>1. state' = state \/ state' \in JobState
        BY <2>2 DEF RecoverNotNeeded, Classified
      <4> QED  BY <2>2, <4>1 DEF RecoverNotNeeded
    <3> QED  BY <2>2, <3>1, <3>2 DEF RecoverNotNeeded
  <2>3. CASE RecoverEscalates
    <3>1. restart_count' = restart_count
      BY <2>3 DEF RecoverEscalates, WithinBudget, WorkerStopped, Observe, BudgetResets
    <3>2. /\ os' \in [Pids -> Images \cup {"free"}]
          /\ pid_file' \in Pids \cup {NoPid}
          /\ handle' \in {"none", "child", "exited", "adopted"}
      BY <2>3 DEF RecoverEscalates, WithinBudget, WorkerStopped, Terminated, NotTerminated, ClearLease
    <3> QED  BY <2>3, <3>1, <3>2 DEF RecoverEscalates, WithinBudget, WorkerStopped
  <2>4. CASE RecoverUnconfirmed
    <3>1. restart_count' = restart_count
      BY <2>4 DEF RecoverUnconfirmed, WithinBudget, Observe, BudgetResets
    <3> QED  BY <2>4, <3>1 DEF RecoverUnconfirmed, WithinBudget, NotTerminated
  <2>5. CASE RecoverRetries
    <3>1. restart_count' \in 0..MaxRestarts
      BY <2>5 DEF RecoverRetries, WithinBudget, OldProcessGone, RetryCounted
    <3>2. /\ os' \in [Pids -> Images \cup {"free"}]
          /\ pid_file' \in Pids \cup {NoPid}
          /\ handle' \in {"none", "child", "exited", "adopted"}
      BY <2>5 DEF RecoverRetries, WithinBudget, OldProcessGone, RetryCounted, Terminated, ClearLease
    <3> QED  BY <2>5, <3>1, <3>2 DEF RecoverRetries, WithinBudget, OldProcessGone, RetryCounted
  <2>6. CASE Persist
    BY <2>6 DEF Persist, JobRow, supervisor
  <2>7. CASE Wake
    BY <2>7 DEF Wake, supervisor
  <2> QED
    BY <1>3, <2>1, <2>2, <2>3, <2>4, <2>5, <2>6, <2>7 DEF Loop
<1>4. CASE End
  <2> USE DEF Down, JobRow, host, durable, JobState, PCs, NotStarted
  <2>1. CASE Interrupt
    BY <2>1 DEF Interrupt, Terminated, NotTerminated, ClearLease
  <2>2. CASE Stopped  BY <2>2 DEF Stopped
  <2>3. CASE Raise  BY <2>3 DEF Raise
  <2>4. CASE Crash  BY <2>4 DEF Crash
  <2> QED  BY <1>4, <2>1, <2>2, <2>3, <2>4 DEF End
<1>5. CASE Environment
  <2> USE DEF host, supervisor, control, durable
  <2>1. CASE WorkerDies  BY <2>1 DEF WorkerDies
  <2>2. CASE PidReuse  BY <2>2 DEF PidReuse, Images, Foreign
  <2>3. CASE ForeignExits  BY <2>3 DEF ForeignExits
  <2>4. CASE HostReboot
    BY <2>4 DEF HostReboot, Down, JobState, PCs, NotStarted
  <2>5. CASE Acknowledge  BY <2>5 DEF Acknowledge
  <2>6. CASE Elapse  BY <2>6 DEF Elapse, NotStarted
  <2> QED
    BY <1>5, <2>1, <2>2, <2>3, <2>4, <2>5, <2>6 DEF Environment
<1>6. CASE UNCHANGED vars
  BY <1>6 DEF vars, host, supervisor, control, durable
<1> QED
  BY <1>1, <1>2, <1>3, <1>4, <1>5, <1>6 DEF Next

\* Every variable keeps its type in every reachable state, and in particular
\* the restart count, in memory and in the row, never passes max_restarts.
THEOREM TypeCorrect == Spec => []TypeOK
<1>1. Init => FlagsTyped
  BY DEF Init, FlagsTyped
<1>2. Init => ValuesTyped
  BY NoPidAssumption, MaxRestartsAssumption, RetryResetAfterAssumption, CapType
  DEF Init, ValuesTyped, Images, JobState, NotStarted, PCs
<1>3. Init => faults \subseteq AllFaults
  BY FaultSetsAssumption DEF Init
<1>4. FlagsTyped /\ ValuesTyped /\ faults \subseteq AllFaults <=> TypeOK
  BY DEF FlagsTyped, ValuesTyped, TypeOK
<1>5. TypeOK /\ [Next]_vars => TypeOK'
  BY FlagsStep, ValuesStep, FaultsFixed DEF FlagsTyped, ValuesTyped, TypeOK
<1> QED
  BY <1>1, <1>2, <1>3, <1>4, <1>5, PTL DEF Spec

-----------------------------------------------------------------------------
(***************************************************************************)
(* No duplicate worker.  The invariant says what the lease is for: a live  *)
(* worker is named by the lease, except between Popen and the lease's      *)
(* write, when the manager holds it.  It is inductive only with the facts  *)
(* that surround it: no lease is on disk when Popen is called, the handle  *)
(* of the running manager is the process of the lease, and a handle that   *)
(* was seen to exit is not a worker.  The assumption leaves out the four   *)
(* faults under which the runs show a duplicate: a failed kill (an         *)
(* interrupted start then leaves a worker without a lease), an unreadable  *)
(* image, a kill of the manager inside the gap, and an interrupt before    *)
(* there is a handle.                                                      *)
(***************************************************************************)
WorkerIsLeased ==
  \A p \in Pids : os[p] = "worker" => pid_file = p \/ (pc = "lease" /\ process = p)

NoLeaseAtSpawn == pc \in {"spawn", "lease"} => pid_file = NoPid

WorkerHandleIsLive ==
  process # NoPid /\ os[process] = "worker" => handle \in {"child", "adopted"}

HandleIsLeased ==
  pc \in {"observe", "recover", "persist", "idle"} /\ pid_file # NoPid =>
    process = pid_file

EscalatedIsStopped ==
  state = "ESCALATED" =>
    /\ pc \notin {"down", "start", "spawn", "lease"}
    /\ \A p \in Pids : os[p] # "worker"

LeaseInv ==
  /\ WorkerIsLeased
  /\ NoLeaseAtSpawn
  /\ WorkerHandleIsLive
  /\ HandleIsLeased
  /\ EscalatedIsStopped

LEMMA LeaseInit == Init => LeaseInv
BY NoPidAssumption
DEF Init, LeaseInv, WorkerIsLeased, NoLeaseAtSpawn, WorkerHandleIsLive,
    HandleIsLeased, EscalatedIsStopped

LEMMA LeaseStep ==
  ASSUME faults \subseteq LeaseFaults, TypeOK, LeaseInv, [Next]_vars
  PROVE  LeaseInv'
<1> USE NoPidAssumption
    DEF TypeOK, LeaseInv, LeaseFaults, WorkerIsLeased, NoLeaseAtSpawn,
        WorkerHandleIsLive, HandleIsLeased, EscalatedIsStopped, Images, Foreign,
        Final
<1>1. CASE Boot
  BY <1>1 DEF Boot, host
<1>2. CASE AdoptNone
  BY <1>2 DEF AdoptNone, NothingToAdopt, host
<1>3. CASE AdoptStale
  BY <1>3 DEF AdoptStale, NothingToAdopt
<1>4. CASE AdoptUnverifiable
  BY <1>4 DEF AdoptUnverifiable, StartFailed, host
<1>5. CASE AdoptHealthy
  BY <1>5 DEF AdoptHealthy, LeaseVerified, host
<1>6. CASE AdoptUnhealthy
  BY <1>6 DEF AdoptUnhealthy, CandidateTerminated, NothingToAdopt, LeaseVerified
<1>7. CASE AdoptUnkillable
  BY <1>7 DEF AdoptUnkillable, StartFailed, LeaseVerified, host
<1>8. CASE Spawn
  BY <1>8 DEF Spawn
<1>9. CASE SpawnFails
  BY <1>9 DEF SpawnFails, StartFailed, host
<1>10. CASE WriteLease
  BY <1>10 DEF WriteLease, LeaseWritten
<1>11. CASE LeaseWriteFails
  BY <1>11 DEF LeaseWriteFails, StartFailed, Terminated, NotTerminated, HandleAlive, ClearLease
<1>12. CASE Tick
  BY <1>12 DEF Tick, NeedsRecovery, Classified, host
<1>13. CASE RecoverNotNeeded
  BY <1>13 DEF RecoverNotNeeded, Classified, host
<1>14. CASE RecoverEscalates
  BY <1>14 DEF RecoverEscalates, WithinBudget, WorkerStopped, Terminated, NotTerminated, HandleAlive, ClearLease
<1>15. CASE RecoverUnconfirmed
  BY <1>15 DEF RecoverUnconfirmed, WithinBudget, NotTerminated
<1>16. CASE RecoverRetries
  BY <1>16 DEF RecoverRetries, WithinBudget, OldProcessGone, RetryCounted, Terminated, HandleAlive, ClearLease
<1>17. CASE Persist
  BY <1>17 DEF Persist, host, supervisor
<1>18. CASE Wake
  BY <1>18 DEF Wake, host, supervisor
<1>19. CASE Interrupt
  <2>1. Terminated /\ process' = process /\ pc' = "stopping" /\ state' # "ESCALATED"
    BY <1>19 DEF Interrupt, NotTerminated
  <2>2. process = NoPid => \A p \in Pids : os[p] # "worker"
    BY <1>19 DEF Interrupt, PCs
  <2>3. \A p \in Pids : os'[p] = "worker" => p # process /\ os[p] = "worker"
    BY <2>1 DEF Terminated, HandleAlive
  <2>4. WorkerIsLeased'
    BY <2>1, <2>2, <2>3 DEF Terminated, ClearLease
  <2> QED  BY <2>1, <2>3, <2>4
<1>20. CASE Stopped
  BY <1>20 DEF Stopped, Down, host
<1>21. CASE Raise
  BY <1>21 DEF Raise, Down, host
<1>22. CASE Crash
  BY <1>22 DEF Crash, Down, host
<1>23. CASE WorkerDies
  BY <1>23 DEF WorkerDies, control
<1>24. CASE PidReuse
  BY <1>24 DEF PidReuse, Foreign, supervisor, control
<1>25. CASE ForeignExits
  BY <1>25 DEF ForeignExits, Foreign, supervisor, control
<1>26. CASE HostReboot
  BY <1>26 DEF HostReboot, Down
<1>27. CASE Acknowledge
  BY <1>27 DEF Acknowledge, host, supervisor, control
<1>28. CASE Elapse
  BY <1>28 DEF Elapse, host, control
<1>29. CASE UNCHANGED vars
  BY <1>29 DEF vars, host, supervisor, control
<1> QED
  BY <1>1, <1>2, <1>3, <1>4, <1>5, <1>6, <1>7, <1>8, <1>9,
     <1>10, <1>11, <1>12, <1>13, <1>14, <1>15, <1>16, <1>17, <1>18,
     <1>19, <1>20, <1>21, <1>22, <1>23, <1>24, <1>25, <1>26, <1>27,
     <1>28, <1>29
  DEF Next, Start, Loop, End, Environment

\* However the manager ends and starts again, the host never runs two
\* workers of the job, and no worker runs that a sleeping manager does not
\* supervise; and an escalated job has no worker left.
THEOREM OneSupervisedWorker ==
  Spec => [](AtMostOneWorker /\ NoOrphan /\ EscalationStopsWorker)
<1> DEFINE Inv == TypeOK /\ (faults \subseteq LeaseFaults => LeaseInv)
<1>1. Inv /\ TypeOK' /\ [Next]_vars => Inv'
  BY LeaseStep, FaultsFixed
<1>2. Inv => AtMostOneWorker
  BY NoPidAssumption
  DEF TypeOK, LeaseInv, WorkerIsLeased, NoLeaseAtSpawn, AtMostOneWorker
<1>3. Inv => NoOrphan
  BY NoPidAssumption
  DEF TypeOK, LeaseInv, WorkerIsLeased, WorkerHandleIsLive, HandleIsLeased,
      NoOrphan, HandleAlive
<1>4. Inv => EscalationStopsWorker
  BY DEF LeaseInv, EscalatedIsStopped, EscalationStopsWorker
<1> QED
  BY TypeCorrect, LeaseInit, <1>1, <1>2, <1>3, <1>4, PTL DEF Spec

\* start(): no worker is started beside a live one, verifiable or not, unless
\* a fault outside LeaseFaults comes in, as the run on NeverShadowed has it.
THEOREM OthersShadowNothing ==
  Spec => [][faults \subseteq LeaseFaults /\ SpawnStep => \A p \in Pids : os[p] # "worker"]_vars
<1> DEFINE Inv == TypeOK /\ (faults \subseteq LeaseFaults => LeaseInv)
<1>1. Inv /\ TypeOK' /\ [Next]_vars => Inv'
  BY LeaseStep, FaultsFixed
<1>2. Inv /\ [Next]_vars =>
        [faults \subseteq LeaseFaults /\ SpawnStep => \A p \in Pids : os[p] # "worker"]_vars
  BY NoPidAssumption DEF TypeOK, LeaseInv, WorkerIsLeased, NoLeaseAtSpawn, SpawnStep
<1> QED
  BY TypeCorrect, LeaseInit, <1>1, <1>2, PTL DEF Spec

-----------------------------------------------------------------------------
(***************************************************************************)
(* Unrelated processes.  What is inductive is that the manager never holds *)
(* a handle to one: a child handle is the worker it started, and an        *)
(* adopted pid runs the worker or nothing.  The assumption leaves out the  *)
(* two faults under which a run shows an unrelated process killed: another *)
(* process with the worker's image name, and a pid given away while held.  *)
(***************************************************************************)
HandleIsOurs ==
  /\ handle = "child" => process # NoPid /\ os[process] = "worker"
  /\ handle = "adopted" => process # NoPid /\ os[process] \in {"worker", "free"}
  /\ \A p \in Pids : os[p] # "lookalike"

LEMMA HandleStep ==
  ASSUME faults \subseteq IdentityFaults, TypeOK, HandleIsOurs, [Next]_vars
  PROVE  HandleIsOurs'
<1> USE NoPidAssumption
    DEF TypeOK, HandleIsOurs, IdentityFaults, Images, Foreign
<1>1. CASE Boot
  BY <1>1 DEF Boot, host
<1>2. CASE AdoptNone
  BY <1>2 DEF AdoptNone, host
<1>3. CASE AdoptStale
  BY <1>3 DEF AdoptStale
<1>4. CASE AdoptUnverifiable
  BY <1>4 DEF AdoptUnverifiable, host
<1>5. CASE AdoptHealthy
  BY <1>5 DEF AdoptHealthy, LeaseVerified, host
<1>6. CASE AdoptUnhealthy
  BY <1>6 DEF AdoptUnhealthy, CandidateTerminated, LeaseVerified
<1>7. CASE AdoptUnkillable
  BY <1>7 DEF AdoptUnkillable, LeaseVerified, host
<1>8. CASE Spawn
  BY <1>8 DEF Spawn
<1>9. CASE SpawnFails
  BY <1>9 DEF SpawnFails, host
<1>10. CASE WriteLease
  BY <1>10 DEF WriteLease, LeaseWritten
<1>11. CASE LeaseWriteFails
  BY <1>11 DEF LeaseWriteFails, Terminated, NotTerminated, HandleAlive
<1>12. CASE Tick
  BY <1>12 DEF Tick, NeedsRecovery, host
<1>13. CASE RecoverNotNeeded
  BY <1>13 DEF RecoverNotNeeded, host
<1>14. CASE RecoverEscalates
  BY <1>14 DEF RecoverEscalates, WithinBudget, WorkerStopped, Terminated, NotTerminated, HandleAlive
<1>15. CASE RecoverUnconfirmed
  BY <1>15 DEF RecoverUnconfirmed, WithinBudget, NotTerminated
<1>16. CASE RecoverRetries
  BY <1>16 DEF RecoverRetries, WithinBudget, OldProcessGone, RetryCounted, Terminated, NotTerminated, HandleAlive
<1>17. CASE Persist
  BY <1>17 DEF Persist, host, supervisor
<1>18. CASE Wake
  BY <1>18 DEF Wake, host, supervisor
<1>19. CASE Interrupt
  BY <1>19 DEF Interrupt, Terminated, NotTerminated, HandleAlive
<1>20. CASE Stopped
  BY <1>20 DEF Stopped, Down, host
<1>21. CASE Raise
  BY <1>21 DEF Raise, Down, host
<1>22. CASE Crash
  BY <1>22 DEF Crash, Down, host
<1>23. CASE WorkerDies
  BY <1>23 DEF WorkerDies
<1>24. CASE PidReuse
  BY <1>24 DEF PidReuse, supervisor
<1>25. CASE ForeignExits
  BY <1>25 DEF ForeignExits, supervisor
<1>26. CASE HostReboot
  BY <1>26 DEF HostReboot, Down
<1>27. CASE Acknowledge
  BY <1>27 DEF Acknowledge, host, supervisor
<1>28. CASE Elapse
  BY <1>28 DEF Elapse, host
<1>29. CASE UNCHANGED vars
  BY <1>29 DEF vars, host, supervisor, control
<1> QED
  BY <1>1, <1>2, <1>3, <1>4, <1>5, <1>6, <1>7, <1>8, <1>9,
     <1>10, <1>11, <1>12, <1>13, <1>14, <1>15, <1>16, <1>17, <1>18,
     <1>19, <1>20, <1>21, <1>22, <1>23, <1>24, <1>25, <1>26, <1>27,
     <1>28, <1>29
  DEF Next, Start, Loop, End, Environment

\* A step of the manager touches only the process it holds or the one its
\* lease names.
LEMMA SparedStep ==
  ASSUME TypeOK, HandleIsOurs, [Next]_vars, pc' # pc, pc' # "down"
  PROVE  \A p \in Pids : os[p] \in Foreign => os'[p] = os[p]
<1> USE DEF TypeOK, HandleIsOurs, Images, Foreign
<1>1. CASE Boot
  BY <1>1 DEF Boot, host
<1>2. CASE Start
  BY <1>2 DEF Start, AdoptNone, AdoptStale, AdoptUnverifiable, AdoptHealthy,
     AdoptUnhealthy, CandidateTerminated, AdoptUnkillable, LeaseVerified, Spawn, SpawnFails,
     WriteLease, LeaseWritten, LeaseWriteFails, Terminated, NotTerminated, HandleAlive, host
<1>3. CASE Loop
  BY <1>3 DEF Loop, Tick, NeedsRecovery, RecoverNotNeeded, RecoverEscalates,
     RecoverUnconfirmed, RecoverRetries, WorkerStopped, OldProcessGone,
     RetryCounted, Persist, Wake, Terminated,
     NotTerminated, HandleAlive, host
<1>4. CASE End
  BY <1>4 DEF End, Interrupt, Stopped, Raise, Crash, Down, Terminated,
     NotTerminated, HandleAlive, host
<1>5. CASE Environment
  BY <1>5 DEF Environment, WorkerDies, PidReuse, ForeignExits, HostReboot,
     Acknowledge, Elapse, Down, control
<1>6. CASE UNCHANGED vars
  BY <1>6 DEF vars, control
<1> QED
  BY <1>1, <1>2, <1>3, <1>4, <1>5, <1>6 DEF Next

\* The manager never ends a process that is not a worker of the job.
THEOREM InnocentsAreSpared == Spec => InnocentSpared
<1> DEFINE Inv == faults \subseteq IdentityFaults => HandleIsOurs
<1>1. Init => Inv
  BY DEF Init, HandleIsOurs
<1>2. TypeOK /\ Inv /\ [Next]_vars => Inv'
  BY HandleStep, FaultsFixed
<1>3. TypeOK /\ Inv /\ [Next]_vars =>
        [faults \subseteq IdentityFaults =>
           \A p \in Pids :
             os[p] \in Foreign /\ pc' \notin {pc, "down"} => os'[p] = os[p]]_vars
  BY SparedStep
<1> QED
  BY TypeCorrect, <1>1, <1>2, <1>3, PTL DEF Spec, InnocentSpared

-----------------------------------------------------------------------------
(***************************************************************************)
(* Escalation and replacement, whatever faults happen.  An escalated job   *)
(* is past start(), and recover() turns back on it before it does anything *)
(* (Final).  When start() is on its way to Popen, the process it held      *)
(* before is gone: a live worker is never behind a handle that was let go. *)
(***************************************************************************)
EscalatedIsPastStart ==
  state = "ESCALATED" => pc \notin {"down", "start", "spawn", "lease"}

Replaceable == process = NoPid \/ os[process] # "worker"

HandInv ==
  /\ EscalatedIsPastStart
  /\ WorkerHandleIsLive
  /\ pc = "down" => process = NoPid
  /\ pc \in {"start", "spawn"} => Replaceable

LEMMA HandStep == TypeOK /\ HandInv /\ [Next]_vars => HandInv'
<1> SUFFICES ASSUME TypeOK, HandInv, [Next]_vars PROVE HandInv'
  OBVIOUS
<1> USE NoPidAssumption
    DEF TypeOK, HandInv, EscalatedIsPastStart, WorkerHandleIsLive, Replaceable,
        Images, Foreign, Final
<1>1. CASE Boot
  BY <1>1 DEF Boot, host
<1>2. CASE Start
  <2>1. CASE AdoptNone \/ AdoptStale \/ AdoptUnverifiable
    BY <2>1 DEF AdoptNone, AdoptStale, AdoptUnverifiable, NothingToAdopt, StartFailed, host
  <2>2. CASE AdoptHealthy \/ AdoptUnkillable
    BY <2>2 DEF AdoptHealthy, AdoptUnkillable, LeaseVerified, StartFailed, host
  <2>3. CASE AdoptUnhealthy
    BY <2>3 DEF AdoptUnhealthy, CandidateTerminated, NothingToAdopt, LeaseVerified
  <2>4. CASE Spawn \/ SpawnFails
    BY <2>4 DEF Spawn, SpawnFails, StartFailed, host
  <2>5. CASE WriteLease
    BY <2>5 DEF WriteLease, LeaseWritten
  <2>6. CASE LeaseWriteFails
    BY <2>6 DEF LeaseWriteFails, StartFailed, Terminated, NotTerminated, HandleAlive
  <2> QED
    BY <1>2, <2>1, <2>2, <2>3, <2>4, <2>5, <2>6 DEF Start
<1>3. CASE Loop
  <2>1. CASE Tick
    BY <2>1 DEF Tick, NeedsRecovery, Classified, host
  <2>2. CASE RecoverNotNeeded
    BY <2>2 DEF RecoverNotNeeded, Classified, host
  <2>3. CASE RecoverEscalates \/ RecoverUnconfirmed
    BY <2>3 DEF RecoverEscalates, RecoverUnconfirmed, WithinBudget, WorkerStopped,
       Terminated, NotTerminated, HandleAlive
  <2>4. CASE RecoverRetries
    BY <2>4 DEF RecoverRetries, WithinBudget, OldProcessGone, RetryCounted, Terminated,
       HandleAlive
  <2>5. CASE Persist \/ Wake
    BY <2>5 DEF Persist, Wake, host, supervisor
  <2> QED
    BY <1>3, <2>1, <2>2, <2>3, <2>4, <2>5 DEF Loop
<1>4. CASE End
  BY <1>4 DEF End, Interrupt, Stopped, Raise, Crash, Down, Terminated, NotTerminated,
     HandleAlive, host
<1>5. CASE Environment
  <2>1. CASE WorkerDies
    BY <2>1 DEF WorkerDies, control
  <2>2. CASE PidReuse \/ ForeignExits
    BY <2>2 DEF PidReuse, ForeignExits, supervisor, control
  <2>3. CASE HostReboot \/ Acknowledge \/ Elapse
    BY <2>3 DEF HostReboot, Acknowledge, Elapse, Down, host, supervisor, control
  <2> QED
    BY <1>5, <2>1, <2>2, <2>3 DEF Environment
<1>6. CASE UNCHANGED vars
  BY <1>6 DEF vars, host, supervisor, control
<1> QED
  BY <1>1, <1>2, <1>3, <1>4, <1>5, <1>6 DEF Next

LEMMA HandHolds == Spec => [](TypeOK /\ HandInv)
<1>1. Init => HandInv
  BY NoPidAssumption
  DEF Init, HandInv, EscalatedIsPastStart, WorkerHandleIsLive, Replaceable
<1> QED
  BY TypeCorrect, HandStep, <1>1, PTL DEF Spec

\* recover() and start() never call Popen while the process that the
\* supervisor held before still runs, whichever kills and writes fail.
THEOREM OldWorkerIsGone == Spec => SpawnReplacesDead
<1>1. TypeOK /\ HandInv /\ [Next]_vars =>
        [SpawnStep => process = NoPid \/ os[process] # "worker"]_vars
  BY DEF HandInv, Replaceable, SpawnStep
<1> QED
  BY HandHolds, <1>1, PTL DEF Spec, SpawnReplacesDead

\* What a step of a manager may do to an escalated job.
LEMMA StaysEscalated ==
  ASSUME TypeOK, HandInv, [Next]_vars, state = "ESCALATED", pc' # "down"
  PROVE  /\ state' \in {"ESCALATED", "CANCELLED"}
         /\ \A p \in Pids : os'[p] = "worker" => os[p] = "worker"
<1> USE DEF TypeOK, HandInv, EscalatedIsPastStart, Final, Images, Foreign
<1>1. CASE Boot \/ Start
  BY <1>1 DEF Boot, Start, AdoptNone, AdoptStale, AdoptUnverifiable, AdoptHealthy,
     AdoptUnhealthy, AdoptUnkillable, Spawn, SpawnFails, WriteLease, LeaseWriteFails
<1>2. CASE Loop
  BY <1>2 DEF Loop, Tick, RecoverNotNeeded, RecoverEscalates, RecoverUnconfirmed,
     RecoverRetries, Classified, Unhealthy, NeedsRecovery, Persist, Wake, host, supervisor
<1>3. CASE End
  BY <1>3 DEF End, Interrupt, Stopped, Raise, Crash, Down, Terminated, NotTerminated
<1>4. CASE Environment
  BY <1>4 DEF Environment, WorkerDies, PidReuse, ForeignExits, HostReboot, Acknowledge,
     Elapse, Down, host, supervisor
<1>5. CASE UNCHANGED vars
  BY <1>5 DEF vars, host, supervisor
<1> QED
  BY <1>1, <1>2, <1>3, <1>4, <1>5 DEF Next

\* Within one manager process nothing but an interrupt ends an escalation, and
\* no worker is started under it, whatever the probes say afterwards.
THEOREM EscalationIsFinal == Spec => EscalationSticks
<1>1. TypeOK /\ HandInv /\ [Next]_vars =>
        [state = "ESCALATED" /\ pc' # "down" =>
           /\ state' \in {"ESCALATED", "CANCELLED"}
           /\ \A p \in Pids : os'[p] = "worker" => os[p] = "worker"]_vars
  BY StaysEscalated
<1> QED
  BY HandHolds, <1>1, PTL DEF Spec, EscalationSticks

=============================================================================
