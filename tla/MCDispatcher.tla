----------------------------- MODULE MCDispatcher -----------------------------
(* Model-checking instance of Dispatcher.                                  *)
EXTENDS Dispatcher
=============================================================================
