--------------------------- MODULE MCServiceBinder ----------------------------
(* The instances are given by the ServiceBinder_*.cfg files. *)
EXTENDS ServiceBinder, TLC

\* Clients differ in nothing but their name.
ClientSymmetry == Permutations(Clients)
===============================================================================
