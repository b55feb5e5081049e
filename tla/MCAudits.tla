------------------------------- MODULE MCAudits -------------------------------
(* Model-checking instance of Audits: small numbers of files, one of them a *)
(* twin, and of window sizes.                                               *)
EXTENDS Audits
=============================================================================
