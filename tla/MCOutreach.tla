------------------------------ MODULE MCOutreach ------------------------------
(* Model-checking instance of Outreach.  Recipients are interchangeable.   *)
EXTENDS Outreach, TLC

RecipientSymmetry == Permutations(Recipients)
=============================================================================
