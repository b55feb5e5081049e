------------------------------ MODULE MCAgents ------------------------------
(* Model-checking instance of Agents: one agent asked on a thread and one  *)
(* that answers inside the loop, so there is no symmetry.                  *)
EXTENDS Agents
=============================================================================
