------------------------------ MODULE MCProfiles ------------------------------
(* The instances are given by the Profiles_*.cfg files. *)
EXTENDS Profiles
===============================================================================
