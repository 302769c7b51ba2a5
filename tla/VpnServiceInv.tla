---------------------------- MODULE VpnServiceInv -----------------------------
(***************************************************************************)
(* The inductive invariants behind the safety properties of VpnService and *)
(* its refinement of VpnSession.  TLC checks them on the instance of the   *)
(* run Crossing; VpnService_proofs proves them inductive for every value   *)
(* of the constants.                                                       *)
(***************************************************************************)
EXTENDS VpnService

\* The connecting job and the main thread: who of them is where, and what the
\* job implies about the rest of the service object.
JobInv ==
    /\ job = "running" <=> pc \in Startup
    /\ job \in {"loading", "cancelling"} =>
          pc = "idle" /\ ~conn /\ state \in {"Connecting", "Stopping"}
    /\ waiter => job = "cancelling"

\* What the start sequence has put in place when it gets to a step.
StartInv ==
    /\ pc \in Startup \ {"failed"} => instance /\ receiver /\ notif
    /\ pc \in {"startVpn", "startEngine", "booting", "startTun2Socks", "connected"} => netCb
    /\ pc \in {"startEngine", "booting", "startTun2Socks", "connected"} => conn
    /\ pc = "booting" => engine = "booting"
    /\ pc \in {"startTun2Socks", "connected"} => engine = "on"
    /\ pc = "connected" => t2s

\* What the stop sequence has released, and what it may find in the state.
StopInv ==
    /\ pc = "clearProtect" => engine = "off"
    /\ pc \in {"changeState", "leave"} => ~conn
    /\ pc = "leave" => state = "Stopped" \/ (state = "Stopping" /\ Queued("stop"))
    /\ pc = "idle" /\ alive /\ state = "Stopped" => ~conn

\* The parts, and the properties themselves.
IInv ==
    /\ TypeOK
    /\ JobInv /\ StartInv /\ StopInv
    /\ ProtectedDials /\ ConnectedIsServing
    /\ StoppingHasOwner /\ ConnectingHasOwner /\ RevokedIsNoticed

-----------------------------------------------------------------------------
(* What holds besides as long as users are patient. *)

\* Nothing of a session is there.
Down == ~Held /\ ~instance /\ ~receiver /\ ~notif

\* The activity manager keeps up whatever is started or bound.
KeptUp == started \/ uiBound \/ sysBound => up

\* The message m is in the queue q.
Has(q, m) == \E i \in DOMAIN q : q[i] = m

\* No message of the lifecycle is queued behind a start.
Lifecycle == {"create", "start", "destroy"}
StartIsLast(q) ==
    \A i, j \in DOMAIN q : i < j /\ q[i] = "start" => q[j] \notin Lifecycle

\* A start finds the service at rest and is the last message of its lifecycle: the
\* session it opens ends before the service can be destroyed.
LastStartInv ==
    /\ Has(mainQ, "start") =>
          Down /\ started /\ state = "Stopped" /\ pc = "idle" /\ revoke = "idle"
    /\ Has(mainQ, "start") => \A m \in {"close", "reload", "resume", "stop"} : ~Has(mainQ, m)
    /\ StartIsLast(mainQ)

\* Where nothing may be held.
RestInv ==
    /\ ~alive => Down /\ pc = "idle"
    /\ ~started \/ Has(mainQ, "create") \/ Has(mainQ, "destroy") =>
          Down /\ job = "none" /\ state \in {"Stopped", "Stopping"}
    /\ job \in {"loading", "cancelling"} => Down
    /\ pc = "idle" /\ state = "Stopped" => Down

\* The resources are a chain, and the stop sequence takes it apart from its end.
ChainInv ==
    /\ (conn => netCb) /\ (protect => conn) /\ (engine # "off" => protect)
    /\ (hook => protect) /\ (t2s => engine # "off")
    /\ ~instance => ~protect
    /\ pc \in {"preInit", "startVpn", "startEngine"} => ~protect
    /\ pc = "preInit" \/ (pc = "failed" /\ ~instance) => ~netCb
    /\ pc = "startVpn" => ~conn
    /\ pc \in {"booting", "startTun2Socks"} => ~t2s
    /\ pc = "stopEngine" => ~t2s
    /\ pc = "clearProtect" => engine = "off" /\ ~hook
    /\ pc = "release" => ~instance
    /\ pc \in {"changeState", "leave"} => Down

PatientInv ==
    /\ ~restart /\ ~Has(mainQ, "reload")
    /\ LastStartInv /\ RestInv /\ ChainInv

RInv == IInv /\ KeptUp /\ (patient => PatientInv)
===============================================================================
