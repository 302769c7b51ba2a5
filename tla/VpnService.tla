------------------------------ MODULE VpnService ------------------------------
(***************************************************************************)
(* The VPN service of the ":vpn" process: the lifecycle state machine of   *)
(* BaseService.kt, the start and stop sequences of VpnService.kt and       *)
(* MihomoInstance.kt, and the native switches they turn (the Go engine     *)
(* with its dialer hook and protect reference, the tun2socks flag).        *)
(*                                                                         *)
(* Three threads meet here.  The main thread takes one message at a time   *)
(* from its looper queue and runs it to the end; the coroutines of the     *)
(* service are dispatched to it.  An I/O thread answers the one query the  *)
(* connecting coroutine suspends on.  A binder thread runs onRevoke, and a *)
(* goroutine of the engine has a socket protected: both may interleave     *)
(* with every step of the main thread.  The activity manager (external)    *)
(* counts starts and bindings and posts the lifecycle messages.            *)
(***************************************************************************)
EXTENDS Naturals, Sequences

CONSTANTS
    MaxQueue,   \* no outside message is posted to a longer main queue
    Broadcasts  \* the actions somebody broadcasts: "close", "reload"

ASSUME QueueAssumption == MaxQueue \in Nat
ASSUME BroadcastAssumption == Broadcasts \subseteq {"close", "reload"}

VARIABLES
    \* the service object (lost when the system destroys it)
    alive,      \* the object exists: between onCreate and onDestroy
    state,      \* Data.state
    job,        \* Data.connectingJob and how far it is
    waiter,     \* a stop coroutine is suspended in cancelAndJoin
    restart,    \* the restart argument of the stop coroutine in progress
    instance,   \* Data.mihomoInstance is not null
    receiver,   \* Data.closeReceiverRegistered
    notif,      \* Data.notification is not null
    conn,       \* VpnService.conn is not null: the TUN descriptor is open
    \* statics of the process (they outlive the service object)
    netCb,      \* DefaultNetworkListener.callback is registered
    engine,     \* engineRunning, with hub.Parse in progress told apart
    hook,       \* dialer.DefaultSocketHook is set
    protect,    \* g_vpnService is set
    t2s,        \* TUN2SOCKS_RUNNING
    \* threads
    pc,         \* what the main thread is in the middle of
    mainQ,      \* the main looper's queue
    revoke,     \* the binder thread in onRevoke
    dial,       \* a goroutine of the engine in meow_jni_protect
    \* the activity manager's record of the service
    up, started, uiBound, sysBound,
    patient     \* (history) since the process began, users have waited for Stopped
                \* before they started the service again, and reloaded nothing

objVars  == <<alive, state, job, waiter, restart, instance, receiver, notif, conn>>
procVars == <<netCb, engine, hook, protect, t2s>>
threads  == <<revoke, dial>>
amVars   == <<up, started, uiBound, sysBound, patient>>
vars == <<objVars, procVars, pc, mainQ, threads, amVars>>

State   == {"Stopped", "Connecting", "Connected", "Stopping"}
Message == {"create", "start", "close", "reload", "resume", "stop", "destroy", "void"}
Startup == {"preInit", "startVpn", "startEngine", "booting", "startTun2Socks",
            "connected", "failed"}
Kill    == {"stopTun2Socks", "stopEngine", "clearProtect", "release", "changeState",
            "leave"}

FlagsOK ==
    /\ alive \in BOOLEAN /\ waiter \in BOOLEAN /\ restart \in BOOLEAN
    /\ instance \in BOOLEAN /\ receiver \in BOOLEAN /\ notif \in BOOLEAN
    /\ conn \in BOOLEAN /\ netCb \in BOOLEAN
    /\ hook \in BOOLEAN /\ protect \in BOOLEAN /\ t2s \in BOOLEAN
    /\ up \in BOOLEAN /\ started \in BOOLEAN
    /\ uiBound \in BOOLEAN /\ sysBound \in BOOLEAN /\ patient \in BOOLEAN

ControlOK ==
    /\ state \in State
    /\ job \in {"none", "loading", "cancelling", "running"}
    /\ engine \in {"off", "booting", "on"}
    /\ pc \in {"idle"} \cup Startup \cup Kill
    /\ revoke \in {"idle", "called", "stopping"}
    /\ dial \in {"idle", "reading", "calling"}

TypeOK == FlagsOK /\ ControlOK /\ mainQ \in Seq(Message)

Init ==
    /\ alive = FALSE /\ state = "Stopped" /\ job = "none"
    /\ waiter = FALSE /\ restart = FALSE
    /\ instance = FALSE /\ receiver = FALSE /\ notif = FALSE /\ conn = FALSE
    /\ netCb = FALSE /\ engine = "off"
    /\ hook = FALSE /\ protect = FALSE /\ t2s = FALSE
    /\ pc = "idle" /\ mainQ = <<>> /\ revoke = "idle" /\ dial = "idle"
    /\ up = FALSE /\ started = FALSE /\ uiBound = FALSE /\ sysBound = FALSE
    /\ patient = TRUE

-----------------------------------------------------------------------------
(* The activity manager (external). *)

\* A service nobody started and nobody is bound to is brought down: onDestroy
\* is posted behind what is already queued.
BringDown(q, s, u, y) ==
    IF up /\ ~s /\ ~u /\ ~y
    THEN up' = FALSE /\ mainQ' = Append(q, "destroy")
    ELSE mainQ' = q /\ UNCHANGED up

\* startService(): onStartCommand is posted, after onCreate when the service is down.
StartService(q) ==
    /\ started' = TRUE /\ up' = TRUE
    /\ mainQ' = (IF up THEN q ELSE Append(q, "create")) \o <<"start">>

\* bindService() with BIND_AUTO_CREATE
BindService(q) ==
    /\ up' = TRUE
    /\ mainQ' = (IF up THEN q ELSE Append(q, "create"))

Room == Len(mainQ) < MaxQueue
Queued(m) == \E i \in DOMAIN mainQ : mainQ[i] = m

\* Nothing of an earlier session is left to be run.
Settled ==
    /\ state = "Stopped" /\ pc = "idle" /\ revoke = "idle"
    /\ \A m \in {"start", "close", "reload", "resume", "stop"} : ~Queued(m)

\* MainActivity.startVpn
UiStart ==
    /\ uiBound /\ Room
    /\ StartService(mainQ)
    /\ patient' = (patient /\ Settled)
    /\ UNCHANGED <<objVars, procVars, pc, threads, uiBound, sysBound>>

\* A broadcast reaches the process only while closeReceiver is registered.
UiBroadcast(a) ==
    /\ uiBound /\ receiver /\ Room
    /\ mainQ' = Append(mainQ, a)
    /\ patient' = (patient /\ a # "reload")
    /\ UNCHANGED <<objVars, procVars, pc, threads, up, started, uiBound, sysBound>>

\* MihomoConnection.connect
UiBind ==
    /\ ~uiBound /\ Room
    /\ uiBound' = TRUE
    /\ BindService(mainQ)
    /\ UNCHANGED <<objVars, procVars, pc, threads, started, sysBound, patient>>

\* MihomoConnection.disconnect, or the death of the activity's process
UiUnbind ==
    /\ uiBound
    /\ uiBound' = FALSE
    /\ BringDown(mainQ, started, FALSE, sysBound)
    /\ UNCHANGED <<objVars, procVars, pc, threads, started, sysBound, patient>>

\* The interface went away with its descriptor: the system unbinds.
SysUnbind ==
    /\ sysBound /\ ~conn
    /\ sysBound' = FALSE
    /\ BringDown(mainQ, started, uiBound, FALSE)
    /\ UNCHANGED <<objVars, procVars, pc, threads, started, uiBound, patient>>

\* Another VPN takes over: the system calls onRevoke on a binder thread and unbinds.
SysRevoke ==
    /\ sysBound /\ conn /\ revoke = "idle"
    /\ sysBound' = FALSE /\ revoke' = "called"
    /\ BringDown(mainQ, started, uiBound, FALSE)
    /\ UNCHANGED <<objVars, procVars, pc, dial, started, uiBound, patient>>

\* What a new service object starts from.
FreshObject ==
    /\ state' = "Stopped" /\ job' = "none" /\ waiter' = FALSE /\ restart' = FALSE
    /\ instance' = FALSE /\ receiver' = FALSE /\ notif' = FALSE /\ conn' = FALSE

\* The ":vpn" process dies; a binding of the activity brings a new one up.
\* The service is START_NOT_STICKY: a start is not repeated.
Crash ==
    /\ up \/ alive
    /\ alive' = FALSE /\ FreshObject
    /\ netCb' = FALSE /\ engine' = "off" /\ hook' = FALSE /\ protect' = FALSE /\ t2s' = FALSE
    /\ pc' = "idle" /\ revoke' = "idle" /\ dial' = "idle" /\ patient' = TRUE
    /\ mainQ' = (IF uiBound THEN <<"create">> ELSE <<>>)
    /\ up' = uiBound /\ started' = FALSE /\ sysBound' = FALSE
    /\ UNCHANGED uiBound

-----------------------------------------------------------------------------
(* Stopping: BaseService.stopRunner and the sequence of killProcesses. *)

\* The stop coroutine, from where the connecting job is known to be over.
EnterKill(r) ==
    /\ restart' = r
    /\ pc' = (IF instance THEN "stopTun2Socks" ELSE "release")

\* Mutant: the job is cancelled and not joined.
StopCoroutineNoJoin(r) ==
    IF job \in {"loading", "cancelling"}
    THEN job' = "cancelling" /\ restart' = r /\ pc' = "idle" /\ UNCHANGED waiter
    ELSE job' = "none" /\ EnterKill(r) /\ UNCHANGED waiter

\* The stop coroutine up to the end of cancelAndJoin.
StopCoroutine(r) ==
    IF job \in {"loading", "cancelling"}
    THEN job' = "cancelling" /\ waiter' = TRUE /\ restart' = r /\ pc' = "idle"
    ELSE job' = "none" /\ EnterKill(r) /\ UNCHANGED waiter

\* stopRunner(restart) called on the main thread, where the coroutine it
\* launches starts at once.
StopRunner(r) ==
    \/ /\ state = "Stopping"
       /\ pc' = "idle" /\ job' = (IF job = "running" THEN "none" ELSE job)
       /\ UNCHANGED <<state, waiter, restart>>
    \/ /\ state # "Stopping" /\ state' = "Stopping"
       /\ StopCoroutine(r)

\* One step of the kill sequence: from pc = at to pc = to.
KillStep(at, to) ==
    /\ pc = at /\ pc' = to
    /\ UNCHANGED <<alive, job, waiter, restart, threads>>

\* Mutant: the engine is stopped before tun2socks.
StopEngineFirst ==
    /\ KillStep("stopTun2Socks", "stopEngine")
    /\ engine' = "off" /\ hook' = FALSE
    /\ UNCHANGED <<state, instance, receiver, notif, conn, netCb, protect, t2s, mainQ, amVars>>

\* mihomoInstance?.stop(), in its order: tun2socks, engine, protect reference.
StopTun2Socks ==
    /\ KillStep("stopTun2Socks", "stopEngine")
    /\ t2s' = FALSE
    /\ UNCHANGED <<state, instance, receiver, notif, conn, netCb, engine, hook, protect,
                   mainQ, amVars>>

\* Mutant: the hook is cleared only after a shutdown.
StopEngineHookStays ==
    /\ KillStep("stopEngine", "clearProtect")
    /\ engine' = "off" /\ hook' = (hook /\ engine # "on")
    /\ UNCHANGED <<state, instance, receiver, notif, conn, netCb, protect, t2s, mainQ, amVars>>

\* meowStopEngine: stopEngine returns early when nothing runs; the hook goes in any case.
StopEngine ==
    /\ KillStep("stopEngine", "clearProtect")
    /\ engine' = "off" /\ hook' = FALSE
    /\ UNCHANGED <<state, instance, receiver, notif, conn, netCb, protect, t2s, mainQ, amVars>>

ClearProtect ==
    /\ KillStep("clearProtect", "release")
    /\ protect' = FALSE /\ instance' = FALSE
    /\ UNCHANGED <<state, receiver, notif, conn, netCb, engine, hook, t2s, mainQ, amVars>>

\* Tasks that will find their receiver unregistered or their scope cancelled.
Discard(q, kinds) == [i \in DOMAIN q |-> IF q[i] \in kinds THEN "void" ELSE q[i]]

\* The rest of killProcesses and of the stop coroutine's clean-up.
Release ==
    /\ KillStep("release", "changeState")
    /\ netCb' = FALSE /\ conn' = FALSE /\ receiver' = FALSE /\ notif' = FALSE
    /\ mainQ' = Discard(mainQ, {"close", "reload"})
    /\ UNCHANGED <<state, instance, engine, hook, protect, t2s, amVars>>

ChangeStateStopped ==
    /\ KillStep("changeState", "leave")
    /\ state' = "Stopped"
    /\ UNCHANGED <<instance, receiver, notif, conn, procVars, mainQ, amVars>>

\* if (restart) startRunner() else stopSelf()
Leave ==
    /\ KillStep("leave", "idle")
    /\ \/ restart /\ StartService(mainQ)
       \/ ~restart /\ started' = FALSE /\ BringDown(mainQ, FALSE, uiBound, sysBound)
    /\ UNCHANGED <<state, instance, receiver, notif, conn, procVars, uiBound, sysBound, patient>>

-----------------------------------------------------------------------------
(* The main thread takes a message. *)

Take(m) ==
    /\ pc = "idle" /\ mainQ # <<>> /\ Head(mainQ) = m

\* A message for the service object: the system sends none before onCreate.
Receive(m) == Take(m) /\ alive /\ mainQ' = Tail(mainQ)

OnCreate ==
    /\ Take("create") /\ mainQ' = Tail(mainQ)
    /\ alive' = TRUE /\ FreshObject
    /\ UNCHANGED <<procVars, pc, threads, amVars>>

OnStartCommand ==
    /\ Receive("start")
    /\ \/ state # "Stopped" /\ UNCHANGED <<state, job>>
       \/ state = "Stopped" /\ state' = "Connecting" /\ job' = "loading"
    /\ UNCHANGED <<alive, waiter, restart, instance, receiver, notif, conn, procVars, pc,
                   threads, amVars>>

\* The connecting coroutine goes on with the selected profile ...
WithProfile ==
    /\ Receive("resume") /\ job = "loading"
    /\ job' = "running" /\ pc' = "preInit"
    /\ instance' = TRUE /\ receiver' = TRUE /\ notif' = TRUE
    /\ UNCHANGED <<alive, state, waiter, restart, conn, procVars, threads, amVars>>

\* ... or finds that none is selected and calls stopRunner ...
NoProfile ==
    /\ Receive("resume") /\ job = "loading"
    /\ job' = "running" /\ pc' = "failed" /\ notif' = TRUE
    /\ UNCHANGED <<alive, state, waiter, restart, instance, receiver, conn, procVars,
                   threads, amVars>>

\* Mutant: the end of the cancelled job does not resume the stop coroutine.
CancelledUnnoticed ==
    /\ Receive("resume") /\ job = "cancelling"
    /\ job' = "none" /\ pc' = "idle"
    /\ UNCHANGED <<alive, state, waiter, restart, instance, receiver, notif, conn, procVars,
                   threads, amVars>>

\* ... or ends because it was cancelled, and the stop coroutine joins it.
Cancelled ==
    /\ Receive("resume") /\ job = "cancelling"
    /\ job' = "none" /\ waiter' = FALSE
    /\ EnterKill(restart)
    /\ UNCHANGED <<alive, state, instance, receiver, notif, conn, procVars, threads, amVars>>

OnClose ==
    /\ Receive("close")
    /\ StopRunner(FALSE)
    /\ UNCHANGED <<alive, instance, receiver, notif, conn, procVars, threads, amVars>>

\* forceLoad
OnReload ==
    /\ Take("reload") /\ alive
    /\ \/ /\ state = "Stopped"
          /\ StartService(Tail(mainQ))
          /\ UNCHANGED <<state, job, waiter, restart, pc>>
       \/ /\ state \in {"Connecting", "Connected"}
          /\ StopRunner(TRUE)
          /\ mainQ' = Tail(mainQ) /\ UNCHANGED <<up, started>>
       \/ /\ state = "Stopping"
          /\ mainQ' = Tail(mainQ) /\ UNCHANGED <<state, job, waiter, restart, pc, up, started>>
    /\ UNCHANGED <<alive, instance, receiver, notif, conn, procVars, threads, uiBound, sysBound,
                   patient>>

\* The stop coroutine launched by the binder thread begins.
OnStop ==
    /\ Receive("stop")
    /\ StopCoroutine(FALSE)
    /\ UNCHANGED <<alive, state, instance, receiver, notif, conn, procVars, threads, amVars>>

\* onDestroy cancels the scope of the service and does not stop anything: the
\* descriptor and the statics stay as they are.
OnDestroy ==
    /\ Take("destroy") /\ alive
    /\ mainQ' = Discard(Tail(mainQ), {"stop", "resume", "close", "reload"})
    /\ alive' = FALSE /\ revoke' = "idle"
    /\ state' = "Stopped" /\ job' = "none" /\ waiter' = FALSE /\ restart' = FALSE
    /\ instance' = FALSE /\ receiver' = FALSE /\ notif' = FALSE
    /\ UNCHANGED <<conn, procVars, pc, dial, amVars>>

DropVoid ==
    /\ Take("void") /\ mainQ' = Tail(mainQ)
    /\ UNCHANGED <<objVars, procVars, pc, threads, amVars>>

-----------------------------------------------------------------------------
(* Starting: the rest of the connecting coroutine.  It does not suspend, but
   the binder thread may run between its steps. *)

\* One step of the start sequence: on to the next one, or to the catch clause.
StartStep(at, ok, to) ==
    /\ pc = at
    /\ pc' = IF ok THEN to ELSE "failed"
    /\ UNCHANGED <<alive, state, job, waiter, restart, instance, receiver, notif,
                   threads, started, uiBound, patient>>

\* prepare() may report that consent was lost
PreInit == \E ok \in BOOLEAN :
    /\ StartStep("preInit", ok, "startVpn")
    /\ netCb' = IF ok THEN TRUE ELSE netCb
    /\ UNCHANGED <<conn, engine, hook, protect, t2s, sysBound, mainQ, up>>

\* establish() may return null; the system binds the service when it succeeds.
StartVpn == \E ok \in BOOLEAN :
    /\ StartStep("startVpn", ok, "startEngine")
    /\ \/ ok /\ conn' = TRUE /\ sysBound' = TRUE /\ BindService(mainQ)
       \/ ~ok /\ UNCHANGED <<conn, sysBound, mainQ, up>>
    /\ UNCHANGED procVars

\* Mutant: the engine is started before nativeSetProtect.
StartEngineUnprotected ==
    /\ StartStep("startEngine", engine = "off", "booting")
    /\ \/ engine = "off" /\ engine' = "booting" /\ hook' = TRUE
       \/ engine # "off" /\ UNCHANGED <<engine, hook>>
    /\ UNCHANGED <<conn, netCb, protect, t2s, sysBound, mainQ, up>>

\* nativeSetProtect, then startEngine up to hub.Parse.
StartEngine ==
    /\ StartStep("startEngine", engine = "off", "booting")
    /\ protect' = TRUE
    /\ \/ engine = "off" /\ engine' = "booting" /\ hook' = TRUE
       \/ engine # "off" /\ UNCHANGED <<engine, hook>>
    /\ UNCHANGED <<conn, netCb, t2s, sysBound, mainQ, up>>

\* Mutant: the answer of nativeStartEngine is not checked.
BootedUnchecked == \E ok \in BOOLEAN :
    /\ StartStep("booting", TRUE, "startTun2Socks")
    /\ engine' = IF ok THEN "on" ELSE "off"
    /\ UNCHANGED <<conn, netCb, hook, protect, t2s, sysBound, mainQ, up>>

\* hub.Parse returns
Booted == \E ok \in BOOLEAN :
    /\ StartStep("booting", ok, "startTun2Socks")
    /\ engine' = IF ok THEN "on" ELSE "off"
    /\ UNCHANGED <<conn, netCb, hook, protect, t2s, sysBound, mainQ, up>>

\* nativeStartTun2Socks fails when the flag is already set
StartTun2Socks ==
    /\ StartStep("startTun2Socks", ~t2s, "connected")
    /\ t2s' = TRUE
    /\ UNCHANGED <<conn, netCb, engine, hook, protect, sysBound, mainQ, up>>

ChangeStateConnected ==
    /\ pc = "connected" /\ pc' = "idle"
    /\ state' = "Connected" /\ job' = "none"
    /\ UNCHANGED <<alive, waiter, restart, instance, receiver, notif, conn, procVars,
                   mainQ, threads, amVars>>

\* Mutant: the failure is logged and nothing is stopped.
FailedIsLogged ==
    /\ pc = "failed" /\ pc' = "idle" /\ job' = "none"
    /\ UNCHANGED <<alive, state, waiter, restart, instance, receiver, notif, conn, procVars,
                   mainQ, threads, amVars>>

\* catch (exc: Throwable), and the branch without a profile: stopRunner, then
\* the job ends.
Failed ==
    /\ pc = "failed"
    /\ StopRunner(FALSE)
    /\ UNCHANGED <<alive, instance, receiver, notif, conn, procVars, mainQ, threads, amVars>>

-----------------------------------------------------------------------------
(* The other threads. *)

\* getSelected() answers: the connecting coroutine is dispatched to the main thread.
QueryDone ==
    /\ job \in {"loading", "cancelling"}
    /\ ~Queued("resume")
    /\ mainQ' = Append(mainQ, "resume")
    /\ UNCHANGED <<objVars, procVars, pc, threads, amVars>>

\* Mutant: only a connected service is stopped.
RevokeReadsConnected ==
    /\ revoke = "called"
    /\ revoke' = IF state # "Connected" THEN "idle" ELSE "stopping"
    /\ UNCHANGED <<objVars, procVars, pc, dial, mainQ, amVars>>

\* onRevoke calls stopRunner on a binder thread: it reads the state ...
RevokeReads ==
    /\ revoke = "called"
    /\ revoke' = IF state = "Stopping" THEN "idle" ELSE "stopping"
    /\ UNCHANGED <<objVars, procVars, pc, dial, mainQ, amVars>>

\* ... assigns it, and posts the stop coroutine to the main thread.
RevokeWrites ==
    /\ revoke = "stopping" /\ revoke' = "idle"
    /\ state' = "Stopping"
    /\ mainQ' = Append(mainQ, "stop")
    /\ UNCHANGED <<alive, job, waiter, restart, instance, receiver, notif, conn, procVars,
                   pc, dial, amVars>>

\* The engine dials (external): its hook goes through meow_jni_protect.
Dial ==
    /\ engine # "off" /\ hook /\ dial = "idle" /\ dial' = "reading"
    /\ UNCHANGED <<objVars, procVars, pc, mainQ, revoke, amVars>>

\* meow_jni_protect tests g_vpnService ...
ProtectReads ==
    /\ dial = "reading" /\ dial' = IF protect THEN "calling" ELSE "idle"
    /\ UNCHANGED <<objVars, procVars, pc, mainQ, revoke, amVars>>

\* ... and, with its thread attached to the virtual machine, calls through it.
ProtectCalls ==
    /\ dial = "calling" /\ dial' = "idle"
    /\ UNCHANGED <<objVars, procVars, pc, mainQ, revoke, amVars>>

-----------------------------------------------------------------------------
MainThread ==
    \/ OnCreate \/ OnStartCommand \/ WithProfile \/ NoProfile \/ Cancelled
    \/ OnClose \/ OnReload \/ OnStop \/ OnDestroy \/ DropVoid
    \/ PreInit \/ StartVpn \/ StartEngine \/ Booted \/ StartTun2Socks
    \/ ChangeStateConnected \/ Failed
    \/ StopTun2Socks \/ StopEngine \/ ClearProtect \/ Release \/ ChangeStateStopped \/ Leave
BinderThread == RevokeReads \/ RevokeWrites
Dialer == Dial \/ ProtectReads \/ ProtectCalls
User   == UiStart \/ (\E a \in Broadcasts : UiBroadcast(a)) \/ UiBind \/ UiUnbind
System == SysUnbind \/ SysRevoke \/ Crash

Next == MainThread \/ BinderThread \/ Dialer \/ QueryDone \/ User \/ System

\* Threads run and queries are answered; users and the system owe nothing.
Fairness == WF_vars(MainThread) /\ WF_vars(BinderThread) /\ WF_vars(QueryDone)

Spec == Init /\ [][Next]_vars /\ Fairness

-----------------------------------------------------------------------------
(* Properties. *)

\* Something outside the service object is still switched on.
Held == conn \/ netCb \/ engine # "off" \/ hook \/ protect \/ t2s

\* "The hook must already be able to reach VpnService.protect() by then": as
\* long as the engine may dial - from hub.Parse to the end of
\* executor.Shutdown - the dialer hook and the reference it calls are in place,
\* whatever starts, failures, revocations and restarts interleave.
ProtectedDials == engine # "off" => hook /\ protect

\* When the main thread is idle in Connected, the whole chain is in place: the
\* profile's instance, the close receiver, the TUN, the running engine with its
\* protection, and tun2socks.  onRevoke writes the state from another thread,
\* so no handler's own sequence implies it.
ConnectedIsServing ==
    pc = "idle" /\ state = "Connected" =>
        /\ instance /\ receiver /\ notif
        /\ conn /\ netCb /\ engine = "on" /\ hook /\ protect /\ t2s

\* A live service whose main thread is idle in Stopped holds nothing: the next
\* start finds the engine off and the tun2socks flag clear.
StoppedIsReleased ==
    pc = "idle" /\ alive /\ state = "Stopped" => ~Held /\ ~instance /\ ~receiver /\ ~notif

\* onDestroy stops nothing, so a service must not be destroyed before its stop
\* sequence has run: without a service object nothing is left switched on.
DestroyedIsReleased == ~alive => ~Held

\* No session outlives its end - as long as users wait for Stopped before they start
\* again and do not reload: a start that crosses a stop opens a session in a
\* service that is about to be destroyed (stopSelf without the startId).
ReleasedWhenOver == patient => StoppedIsReleased /\ DestroyedIsReleased

\* Stopping is never left without somebody to finish it: a stop coroutine is
\* running, waiting for the connecting job, or queued.
StoppingHasOwner == state = "Stopping" => Queued("stop") \/ waiter \/ pc \in Kill

\* Connecting is never left without a connecting job or a stop under way.
ConnectingHasOwner == state = "Connecting" => job # "none" \/ pc \in Kill

\* jni_bridge_android.c:39: "Returns 1 on success, 0 on any JNI failure or if the
\* VpnService ref is absent": what the test found is still there at the call, although
\* nativeSetProtect(null) runs on the main thread and a dial may outlive the engine.
CallsLiveReference == dial = "calling" => protect

\* No transition is abandoned in the middle.
TransitionsHaveOwner == StoppingHasOwner /\ ConnectingHasOwner

\* A tunnel the system has revoked is never kept: the revocation is still being
\* reported, or a stop is queued or running.
RevokedIsNoticed ==
    alive /\ conn /\ ~sysBound => revoke # "idle" \/ Queued("stop") \/ pc \in Kill

\* Every stop and every start ends: Stopping leads to Stopped, Connecting to Connected
\* or, with an error, to Stopped - or the service is destroyed.
TransitionsSettle ==
    /\ state = "Stopping" ~> (state = "Stopped" \/ ~alive)
    /\ state = "Connecting" ~> (state \in {"Connected", "Stopped"} \/ ~alive)

-----------------------------------------------------------------------------
(* Refinement of VpnSession: what is held, and the phase of the session. *)

Resources ==
    (IF netCb THEN {"network"} ELSE {}) \cup (IF conn THEN {"tun"} ELSE {})
    \cup (IF protect THEN {"protect"} ELSE {})
    \cup (IF engine # "off" THEN {"engine"} ELSE {})
    \cup (IF t2s THEN {"tun2socks"} ELSE {})

Phase ==
    IF pc \in Startup THEN "opening"
    ELSE IF pc \in Kill \ {"leave"} THEN "closing"
    ELSE IF ~instance THEN "down"
    ELSE IF state = "Connected" THEN "open" ELSE "closing"

\* Where users have crossed the session nothing is promised: it counts as dead.
Session == INSTANCE VpnSession
    WITH phase <- IF patient THEN Phase ELSE "down",
         held  <- IF patient THEN Resources ELSE {}

\* Under patient users the service implements the abstract session: one session at
\* a time, the chain acquired link by link from the network callback up to tun2socks
\* and released from tun2socks down, and open only when complete.
ImplementsSession == Session!Spec
=============================================================================
