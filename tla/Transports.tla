------------------------------ MODULE Transports ------------------------------
(***************************************************************************)
(* The three sides of mihomo-proxy-patched: the way to a WebSocket         *)
(* (V2rayPlugin), the lengths of the one frame that nests several          *)
(* (ClientHello), and the streams as they are polled (Obfs).  They share   *)
(* no state - a stream starts where the dialling ends - so each behaviour  *)
(* follows one.                                                            *)
(***************************************************************************)
EXTENDS Obfs, ClientHello, V2rayPlugin

VARIABLE side  \* the one that is followed
transportVars == <<side, vars, helloVars, pluginVars>>

\* What is not followed stands still in one of its initial states.
TransportInit ==
    /\ side \in {"stream", "hello", "dial"}
    /\ Init /\ (side # "stream" => layer = CHOOSE l \in Layers : TRUE)
    /\ (side # "stream" => script = CHOOSE s \in Scripts(layer) : TRUE)
    /\ HelloInit /\ (side # "hello" => offered = CHOOSE n \in WriteSizes : TRUE)
    /\ (side # "hello" => server_len = CHOOSE n \in HostLengths : TRUE)
    /\ PluginInit /\ (side # "dial" => opts = <<>>)

Only(s) ==
    /\ side = s /\ UNCHANGED side
    /\ s # "stream" => UNCHANGED vars
    /\ s # "hello" => UNCHANGED helloVars
    /\ s # "dial" => UNCHANGED pluginVars

TransportNext ==
    \/ Only("stream") /\ Next
    \/ Only("hello") /\ HelloNext
    \/ Only("dial") /\ PluginNext

\* The fairness of Obfs, for the side that is followed.
TransportSpec ==
    TransportInit /\ [][TransportNext]_transportVars
        /\ WF_transportVars(Only("stream") /\ PollRead)
===============================================================================
