------------------------------- MODULE MCScreens -------------------------------
(* The instances are given by the Screens_*.cfg files. *)
EXTENDS Screens
===============================================================================
