------------------------------- MODULE MCManager -------------------------------
(* Model-checking instance of Manager: two streams of different kinds, and   *)
(* what may happen in one behaviour, a few troubles that meet at a time.     *)
EXTENDS Manager, TLC

CONSTANTS lane, scan

MCKindOf == lane :> "agent" @@ scan :> "constraint_audit"

May(happens) == [t \in Trouble |-> IF t \in DOMAIN happens THEN happens[t] ELSE 0]
MCBudgets ==
  { May([ends |-> 2, moves |-> 1]),
    May([ends |-> 1, moves |-> 1, writes |-> 1]),
    May([ends |-> 2, acks |-> 1, jobs |-> 2]),
    May([ends |-> 1, boots |-> 2]),
    May([ends |-> 1, overlaps |-> 1, jobs |-> 1]) }
================================================================================
