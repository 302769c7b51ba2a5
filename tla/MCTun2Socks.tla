----------------------------- MODULE MCTun2Socks ------------------------------
(* The instance is given by Tun2Socks_LateRelay.cfg; that of TunPath_Tun checks
   the other properties. *)
EXTENDS Tun2Socks
===============================================================================
