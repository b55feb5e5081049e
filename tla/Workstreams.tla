------------------------------ MODULE Workstreams ------------------------------
(***************************************************************************)
(* WorkstreamRegistry (manager/workstreams.py) without its store: what a   *)
(* stream's source says becomes one of the states a stream may show, and   *)
(* a record that differs from the stored one is written and, when its      *)
(* state differs, told in an event.  Titles, summaries and metrics are     *)
(* left out.                                                               *)
(***************************************************************************)

\* What the sources of a stream can say.  A missing source says "none".
AgentValues == {"none", "WORKING", "READY", "WAITING", "DEGRADED"}
AuditValues == {"none", "RUNNING", "NEEDS_EVIDENCE_REVIEW", "NO_CANDIDATES", "FAILED"}
ProfileValues == {"none", "READY", "RETEST_REQUIRED"}
SourceValues == AgentValues \cup AuditValues \cup ProfileValues

StreamStates == {"RUNNING", "WAITING", "REVIEW", "DEGRADED", "UNKNOWN"}

AgentState(value) ==
  CASE value = "WORKING" -> "RUNNING"
    [] value \in {"READY", "WAITING"} -> "WAITING"
    [] value = "DEGRADED" -> "DEGRADED"
    [] OTHER -> "UNKNOWN"

\* An audit that has not been recorded yet is waiting.
AuditState(value) ==
  CASE value = "RUNNING" -> "RUNNING"
    [] value = "NEEDS_EVIDENCE_REVIEW" -> "REVIEW"
    [] value \in {"NO_CANDIDATES", "none"} -> "WAITING"
    [] value = "FAILED" -> "DEGRADED"
    [] OTHER -> "UNKNOWN"

ProfileState(value) ==
  CASE value = "RETEST_REQUIRED" -> "REVIEW"
    [] value = "READY" -> "WAITING"
    [] OTHER -> "UNKNOWN"

\* The values a source of this kind can have, and the state shown for one.
ValuesOf(kind) ==
  CASE kind = "agent" -> AgentValues
    [] kind = "constraint_audit" -> AuditValues
    [] kind = "worker_profile" -> ProfileValues

Resolved(kind, value) ==
  CASE kind = "agent" -> AgentState(value)
    [] kind = "constraint_audit" -> AuditState(value)
    [] kind = "worker_profile" -> ProfileState(value)

\* sync: a record is written when there is none like it yet.
KeptIfKnown(prior, state) == prior = "absent"  \* faulty variant
RowDue(prior, state) == prior # state

\* An event is due when the stream is new or its state is another one.
DiffersIfKnown(prior, state) == prior # "absent" /\ prior # state  \* faulty variant
EventDue(prior, state) == prior # state
================================================================================
