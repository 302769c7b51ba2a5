-------------------------------- MODULE TunPath -------------------------------
(***************************************************************************)
(* What passes the TUN: the run of tun2socks over several sessions         *)
(* (Tun2Socks), the queries with the names they leave behind (DnsPath),    *)
(* the packets they come and go in, and the handshake with the engine's    *)
(* listener of each connection (TunPackets).  A packet's bytes depend      *)
(* neither on the names nor on the run that carries them, so each          *)
(* behaviour follows one of the four.                                      *)
(***************************************************************************)
EXTENDS Tun2Socks, DnsPath, TunPackets

VARIABLE part  \* what is followed
pathVars == <<part, loopVars, vars, packetVars>>

PathInit ==
    /\ part \in {"sessions", "names", "packet", "handshake"}
    /\ LoopInit /\ Init /\ PacketInit

Only(p) ==
    /\ part = p /\ UNCHANGED part
    /\ p # "sessions" => UNCHANGED loopVars
    /\ p # "names" => UNCHANGED vars
    /\ p \notin {"packet", "handshake"} => UNCHANGED packetVars

PathNext ==
    \/ Only("sessions") /\ LoopNext
    \/ Only("names") /\ Next
    \/ Only("packet") /\ UdpNext
    \/ Only("handshake") /\ SocksNext

\* The fairness of Tun2Socks.
PathFairness ==
    /\ \A r \in Sessions :
           WF_pathVars(Only("sessions") /\ Reader(r)) /\ WF_pathVars(Only("sessions") /\ Drive(r))
    /\ WF_pathVars(Only("sessions") /\ NativeStartTun2Socks)
    /\ WF_pathVars(Only("sessions") /\ StopEngine) /\ WF_pathVars(Only("sessions") /\ CloseFd)

PathSpec == PathInit /\ [][PathNext]_pathVars /\ PathFairness
===============================================================================
