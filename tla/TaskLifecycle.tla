----------------------------- MODULE TaskLifecycle -----------------------------
(***************************************************************************)
(* What the queue promises about one task, whoever works on it: its row    *)
(* appears QUEUED, is claimed, and from RUNNING goes back to the queue or  *)
(* to a final status it keeps for ever.  The dispatcher and the agent      *)
(* coordinator are shown to implement it.                                  *)
(***************************************************************************)
CONSTANTS Tasks,
          GivenUp    \* final statuses of a task that was never claimed
VARIABLE status

Final == {"COMPLETE", "FAILED", "ESCALATED"}

Init == status = [t \in Tasks |-> "absent"]

Moves(old, new) ==
  \/ old = "absent" /\ new = "QUEUED"
  \/ old = "QUEUED" /\ new \in {"RUNNING"} \cup GivenUp
  \/ old = "RUNNING" /\ new \in {"QUEUED"} \cup Final

\* A batch of tasks is claimed, or requeued, in one transaction.
Next ==
  /\ status' \in [Tasks -> {"absent", "QUEUED", "RUNNING"} \cup Final]
  /\ \A t \in Tasks : status'[t] # status[t] => Moves(status[t], status'[t])

Spec == Init /\ [][Next]_status
=============================================================================
