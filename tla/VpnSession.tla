------------------------------ MODULE VpnSession ------------------------------
(***************************************************************************)
(* What the VPN service promises: one session at a time over a chain of    *)
(* resources.  Each resource needs the ones before it (the engine dials    *)
(* through the protect reference, which needs the TUN; tun2socks needs the *)
(* engine's listener), so a session takes them up in this order and gives  *)
(* them back in the opposite one, and it is open only with all of them.    *)
(***************************************************************************)
EXTENDS Naturals

VARIABLES
    phase,  \* of the session
    held    \* the resources it holds

vars == <<phase, held>>

Rank == [r \in {"network", "tun", "protect", "engine", "tun2socks"} |->
            CASE r = "network" -> 1 [] r = "tun" -> 2 [] r = "protect" -> 3
              [] r = "engine" -> 4 [] r = "tun2socks" -> 5]
All == DOMAIN Rank

\* Whatever is held, everything it needs is held.
Chain(H) == \A r \in H, s \in All : Rank[s] < Rank[r] => s \in H

Init == phase = "down" /\ held = {}

Open    == phase = "down" /\ phase' = "opening" /\ UNCHANGED held
Acquire == phase = "opening" /\ held \subseteq held' /\ Chain(held') /\ UNCHANGED phase
Serve   == phase = "opening" /\ held = All /\ phase' = "open" /\ UNCHANGED held
Close   == phase' = "closing" /\ UNCHANGED held
Release == phase \in {"opening", "closing"} /\ held' \subseteq held /\ Chain(held')
           /\ UNCHANGED phase
Done    == phase = "closing" /\ held = {} /\ phase' = "down" /\ UNCHANGED held
Die     == phase' = "down" /\ held' = {}

Next == Open \/ Acquire \/ Serve \/ Close \/ Release \/ Done \/ Die

Spec == Init /\ [][Next]_vars
===============================================================================
