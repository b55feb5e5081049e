----------------------------- MODULE MCSupervisor -----------------------------
(* Model-checking instance of Supervisor: the cfg files give the constants *)
(* their values.  Pids are interchangeable, so safety runs use symmetry;   *)
(* the run with liveness properties does not.                              *)
EXTENDS Supervisor, TLC

PidSymmetry == Permutations(Pids)
=============================================================================
