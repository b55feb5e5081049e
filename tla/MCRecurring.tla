------------------------------ MODULE MCRecurring ------------------------------
(* Model-checking instance of Recurring.  The templates are interchangeable, *)
(* but liveness is checked in the same run, so there is no symmetry.         *)
EXTENDS Recurring
================================================================================
