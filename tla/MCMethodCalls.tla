----------------------------- MODULE MCMethodCalls -----------------------------
(* The instance is given by MethodCalls_App.cfg. *)
EXTENDS MethodCalls
===============================================================================
