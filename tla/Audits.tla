-------------------------------- MODULE Audits --------------------------------
(***************************************************************************)
(* Constraint audits (manager/evidence.py): EvidenceCoordinator scans a    *)
(* target's source files on a thread, a window of them at a time, and      *)
(* keeps in the target's row of constraint_audits where the next window    *)
(* begins.  Meanwhile files come and go, the manager is killed, and it is  *)
(* started with another scan strategy.                                     *)
(*                                                                         *)
(* A file is its place in the listing, which is sorted by casefolded path; *)
(* a twin differs in case only from the file before it.  Targets share     *)
(* nothing but the thread, so one is modelled.                             *)
(***************************************************************************)
EXTENDS Naturals, FiniteSets

CONSTANTS Last,        \* bound: the files are 1..Last
          Twins,       \* files that equal their predecessor, casefolded
          Strategies   \* max_files, as configured now or later

Files == 1..Last

ASSUME LastAssumption == Last \in Nat
ASSUME TwinsAssumption == Twins \subseteq 2..Last /\ \A f \in Twins : f + 1 \notin Twins
ASSUME StrategiesAssumption == Strategies \subseteq Nat \ {0}

VARIABLES
  present, readable,  \* the files there are, those that can be scanned
  root,       \* whether the target is there
  strategy,   \* max_files, and so the signature, of this manager
  pc,         \* where the manager's thread is
  recorded,   \* the row: the strategy, 0 for no row,
  cursor,     \*   and next_cursor, casefolded, 0 for ""
  recent,     \* whether scanned_at is less than an interval ago
  audit,      \* the pending audit, "none" for none
  from,       \* its start_after
  window,     \* files of its window that it has not reached
  beyond,     \* whether its listing goes on behind the window
  last,       \* last_processed, casefolded
  seen,       \* files it has scanned
  \* history: files present ever since the cycle began and not scanned in it
  owed,       \*   according to the row,
  owing       \*   according to the pending audit

filesystem == <<present, readable, root>>
row == <<recorded, cursor, owed>>
scan == <<window, beyond, last, seen>>
vars == <<filesystem, strategy, pc, row, recent, audit, from, scan, owing>>

Key(f) == IF f \in Twins THEN f - 1 ELSE f

TypeOK ==
  /\ readable \subseteq present /\ present \subseteq Files
  /\ root \in BOOLEAN
  /\ strategy \in Strategies
  /\ pc \in {"down", "idle", "collect", "schedule"}
  /\ recorded \in Strategies \cup {0}
  /\ cursor \in 0..Last /\ from \in 0..Last /\ last \in 0..Last
  /\ seen \subseteq Files /\ window \subseteq Files
  /\ recent \in BOOLEAN /\ beyond \in BOOLEAN
  /\ audit \in {"none", "queued", "scanning", "reported", "failed"}
  /\ owed \subseteq Files /\ owing \subseteq Files

NoAudit ==
  /\ audit' = "none" /\ from' = 0
  /\ window' = {} /\ beyond' = FALSE /\ last' = 0 /\ seen' = {} /\ owing' = {}

Init ==
  /\ present \in SUBSET Files /\ readable = present
  /\ root = TRUE
  /\ strategy \in Strategies
  /\ pc = "down"
  /\ recorded = 0 /\ cursor = 0 /\ owed = {}
  /\ recent = FALSE
  /\ audit = "none" /\ from = 0
  /\ window = {} /\ beyond = FALSE /\ last = 0 /\ seen = {} /\ owing = {}

-----------------------------------------------------------------------------
(* ConstraintAuditor.run, on the thread.                                   *)

\* The files after start_after; all of them when none is left.
FromCursor(f) == Key(f) >= from        \* faulty variant
AfterCursor(f) == Key(f) > from
Remaining == {f \in present : AfterCursor(f)}
Wraps == Remaining = {}
Listing == IF Wraps THEN present ELSE Remaining

Begin ==
  /\ audit = "queued" /\ root
  /\ audit' = "scanning"
  /\ window' = {f \in Listing : Cardinality({g \in Listing : g < f}) < strategy}
  /\ beyond' = (Cardinality(Listing) > strategy)
  /\ last' = 0 /\ seen' = {}
  /\ owing' = IF from = 0 \/ Wraps THEN present ELSE owed
  /\ UNCHANGED <<filesystem, strategy, pc, row, recent, from>>

RootMissing ==
  /\ audit = "queued" /\ ~root
  /\ audit' = "failed"
  /\ UNCHANGED <<filesystem, strategy, pc, row, recent, from, scan, owing>>

\* The next file, which is skipped when it cannot be read.  Its findings may
\* be the last that the report takes.
CutAsComplete(cut) == FALSE            \* faulty variant
CutShort(cut) == cut

Read ==
  /\ audit = "scanning"
  /\ \E f \in window, cut \in BOOLEAN :
       /\ \A g \in window : f <= g
       /\ cut => f \in readable
       /\ last' = Key(f)
       /\ seen' = IF f \in readable THEN seen \cup {f} ELSE seen
       /\ owing' = owing \ {f}
       /\ window' = IF cut THEN {} ELSE window \ {f}
       /\ beyond' = (beyond \/ CutShort(cut))
  /\ UNCHANGED <<filesystem, strategy, pc, row, recent, audit, from>>

Report ==
  /\ audit = "scanning" /\ window = {}
  /\ audit' = "reported"
  /\ UNCHANGED <<filesystem, strategy, pc, row, recent, from, scan, owing>>

-----------------------------------------------------------------------------
(* EvidenceCoordinator.tick, once per pass of the manager's loop.          *)

Pass ==
  /\ pc = "idle"
  /\ pc' = "collect"
  /\ UNCHANGED <<filesystem, strategy, row, recent, audit, from, scan, owing>>

Unfinished ==
  /\ pc = "collect" /\ audit \in {"none", "queued", "scanning"}
  /\ pc' = "schedule"
  /\ UNCHANGED <<filesystem, strategy, row, recent, audit, from, scan, owing>>

\* A failed audit leaves no trace in the row.
CollectFailed ==
  /\ pc = "collect" /\ audit = "failed"
  /\ NoAudit
  /\ pc' = "schedule"
  /\ UNCHANGED <<filesystem, strategy, row, recent>>

NextCursor == IF beyond THEN last ELSE 0

\* The interval counts from the report, not from here.
Collect ==
  /\ pc = "collect" /\ audit = "reported"
  /\ recorded' = strategy /\ cursor' = NextCursor
  /\ owed' = owing
  /\ recent' \in BOOLEAN
  /\ NoAudit
  /\ pc' = "schedule"
  /\ UNCHANGED <<filesystem, strategy>>

\* _audit_due
Due == audit = "none" /\ (recorded = 0 \/ recorded # strategy \/ ~recent)

Schedule ==
  /\ pc = "schedule" /\ Due
  /\ audit' = "queued" /\ from' = cursor
  /\ pc' = "idle"
  /\ UNCHANGED <<filesystem, strategy, row, recent, scan, owing>>

NotDue ==
  /\ pc = "schedule" /\ ~Due
  /\ pc' = "idle"
  /\ UNCHANGED <<filesystem, strategy, row, recent, audit, from, scan, owing>>

-----------------------------------------------------------------------------

\* The manager ends: it is killed, or close() drops the pending audit, as
\* when the store raises in tick().
Down ==
  /\ pc # "down"
  /\ pc' = "down"
  /\ NoAudit
  /\ UNCHANGED <<filesystem, strategy, row, recent>>

\* It is started, perhaps with another configuration.
Boot ==
  /\ pc = "down"
  /\ pc' = "idle"
  /\ strategy' \in Strategies
  /\ UNCHANGED <<filesystem, row, recent, audit, from, scan, owing>>

Elapse ==
  /\ recent
  /\ recent' = FALSE
  /\ UNCHANGED <<filesystem, strategy, pc, row, audit, from, scan, owing>>

\* The project is worked on, moved away and brought back.
FilesChange ==
  /\ \/ /\ root /\ root' = root
        /\ \E f \in Files :
             \/ present' = present \cup {f} /\ readable' = readable \cup {f}
             \/ present' = present \cup {f} /\ readable' = readable \ {f}
             \/ present' = present \ {f} /\ readable' = readable \ {f}
     \/ root /\ root' = FALSE /\ present' = {} /\ readable' = {}
     \/ ~root /\ root' = TRUE /\ UNCHANGED <<present, readable>>
  /\ owed' = owed \cap present' /\ owing' = owing \cap present'
  /\ UNCHANGED <<strategy, pc, recorded, cursor, recent, audit, from, scan>>

Thread == Begin \/ RootMissing \/ Read \/ Report
Tick == Pass \/ Unfinished \/ CollectFailed \/ Collect \/ Schedule \/ NotDue

Next == Thread \/ Tick \/ Down \/ Boot \/ Elapse \/ FilesChange

Spec == Init /\ [][Next]_vars

\* The thread and the loop go on, and intervals pass.
Fairness == WF_vars(Thread) /\ WF_vars(Tick) /\ WF_vars(Elapse)

LiveSpec == Spec /\ Fairness

-----------------------------------------------------------------------------
(* Properties.                                                             *)

\* "resumes after the last local source file it processed. It wraps to the
\* beginning only after the full target has been covered"
\* (CAPABILITY_EVIDENCE.md:115-117): a file that was there throughout is
\* still ahead of the row's cursor or has been dealt with, whatever reports
\* are lost or cut short and whatever files come and go.  Twins are missed.
NothingSkipped == \A f \in owed \ Twins : cursor # 0 /\ Key(f) > cursor

\* Every file that stays, readable, is scanned and its report stored again and
\* again while a manager is up, whatever happens to the other files.
Kept(f) == f \in readable /\ pc # "down"
EveryFileAudited ==
  \A f \in Files \ Twins : <>[]Kept(f) => []<><<Collect /\ f \in seen>>_vars
=============================================================================
