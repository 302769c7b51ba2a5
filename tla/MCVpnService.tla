----------------------------- MODULE MCVpnService -----------------------------
(* The instances are given by the VpnService_*.cfg files. *)
EXTENDS VpnServiceInv
===============================================================================
