---------------------------- MODULE ServiceBinder -----------------------------
(***************************************************************************)
(* The binder between the VPN service and the activity: BaseService.Binder *)
(* with Data.changeState on the side of the service, MihomoConnection and  *)
(* MainActivity.stateChanged on the side of the activity.                  *)
(*                                                                         *)
(* A call of the activity runs on a binder thread of the ":vpn" process.   *)
(* What it launches is queued for the main thread, which also changes the  *)
(* state: it first broadcasts the new state to the registered callbacks    *)
(* and then assigns it.  onRevoke does both from a binder thread, where    *)
(* the broadcast is queued.  Either process may die.  Of the lifecycle     *)
(* (VpnService) only the order of the states is kept.                      *)
(***************************************************************************)
EXTENDS Naturals, Sequences, FiniteSets

CONSTANTS
    Clients,   \* MihomoConnection objects, one for each activity
    MaxTasks,  \* tasks waiting for the main thread of the service
    MaxCrash   \* deaths of the ":vpn" process

ASSUME BoundAssumption == MaxTasks \in Nat /\ MaxCrash \in Nat

VARIABLES
    state,      \* Data.state
    announced,  \* the state broadcast by a changeState that has not assigned it yet
    stopping,   \* a stop coroutine is at work
    revoke,     \* the binder thread in onRevoke
    tasks,      \* launched to the main thread and not yet begun
    callbacks,  \* clients in Binder.callbacks
    listeners,  \* keys of Binder.bandwidthListeners
    loops,      \* loop() coroutines that run
    conn,       \* client -> how far its connection is
    read,       \* client -> the state it got from the service
    shown,      \* client -> MainActivity.state
    crashes,    \* of the ":vpn" process so far
    raced       \* (history) clients whose connecting coincided with a change of state

service == <<state, announced, stopping, revoke>>
bandwidth == <<listeners, loops>>
client == <<conn, read, shown, raced>>
vars == <<service, tasks, callbacks, bandwidth, client, crashes>>

State == {"Stopped", "Connecting", "Connected", "Stopping"}
Task == [kind : {"listen", "unlisten"}, of : Clients]
        \cup [kind : {"notify"}, of : State] \cup [kind : {"stop"}, of : {"service"}]

TypeOK ==
    /\ state \in State /\ announced \in State \cup {"none"}
    /\ stopping \in BOOLEAN /\ revoke \in {"idle", "launched", "assigned"}
    /\ tasks \in Seq(Task)
    /\ callbacks \subseteq Clients /\ listeners \subseteq Clients /\ loops \in Nat
    /\ conn \in [Clients -> {"new", "bound", "registered", "read", "up", "lost", "gone"}]
    /\ read \in [Clients -> State \cup {"Idle"}] /\ shown \in [Clients -> State \cup {"Idle"}]
    /\ crashes \in 0..MaxCrash /\ raced \subseteq Clients

Init ==
    /\ state = "Stopped" /\ announced = "none" /\ stopping = FALSE /\ revoke = "idle"
    /\ tasks = <<>> /\ callbacks = {} /\ listeners = {} /\ loops = 0
    /\ conn = [c \in Clients |-> "new"]
    /\ read = [c \in Clients |-> "Idle"] /\ shown = [c \in Clients |-> "Idle"]
    /\ crashes = 0 /\ raced = {}

Room == Len(tasks) < MaxTasks
At(c, s) == conn[c] = s
Goto(c, s) == conn' = [conn EXCEPT ![c] = s]
Connecting == {c \in Clients : conn[c] \in {"registered", "read"}}

\* broadcast { it.stateChanged(s) }: the callback of MihomoConnection hands the
\* state to the activity, which stores it.
Broadcast(s) == shown' = [c \in Clients |-> IF c \in callbacks THEN s ELSE shown[c]]

\* What onRevoke launched is still to be run.
Revoking == \E i \in DOMAIN tasks : tasks[i].kind \in {"notify", "stop"}

\* The clients a change to state s may leave with another one: those that are
\* connecting, or all of them when a stop and onRevoke cross.
Disturbed(s) ==
    IF s = "Stopping" /\ (revoke # "idle" \/ Revoking) THEN Clients ELSE Connecting

-----------------------------------------------------------------------------
(* The main thread of the service. *)

\* changeState(s): returns early in state s; else broadcasts ...
Announce(s) ==
    /\ announced = "none" /\ state # s
    /\ announced' = s /\ Broadcast(s) /\ raced' = raced \cup Disturbed(s)
    /\ UNCHANGED <<state, revoke, callbacks, bandwidth, conn, read, crashes>>

\* ... and assigns.
Assign ==
    /\ announced # "none"
    /\ state' = announced /\ announced' = "none"
    /\ UNCHANGED <<stopping, revoke, tasks, callbacks, bandwidth, client, crashes>>

\* onStartCommand, the end of the start sequence, stopRunner, the end of the
\* stop coroutine
Start   == state = "Stopped" /\ ~stopping /\ Announce("Connecting")
           /\ UNCHANGED <<stopping, tasks>>
Serve   == state = "Connecting" /\ ~stopping /\ Announce("Connected")
           /\ UNCHANGED <<stopping, tasks>>
Stop    == state \in {"Connecting", "Connected"} /\ ~stopping /\ Announce("Stopping")
           /\ stopping' = TRUE /\ UNCHANGED tasks
Stopped == stopping /\ stopping' = FALSE /\ Announce("Stopped") /\ UNCHANGED tasks

\* A task of the queue begins: the main thread is not in changeState.
Take(kind) == announced = "none" /\ tasks # <<>> /\ Head(tasks).kind = kind
              /\ tasks' = Tail(tasks)

\* Mutant: the guard against a second listener is gone, its loop is not.
TaskListenMany ==
    LET c == Head(tasks).of
    IN  /\ Take("listen")
        /\ listeners' = listeners \cup {c} /\ loops' = loops + 1
        /\ UNCHANGED <<service, callbacks, client, crashes>>

\* startListeningForBandwidth: only while there is no listener
TaskListen ==
    LET c == Head(tasks).of
    IN  /\ Take("listen")
        /\ \/ listeners = {} /\ listeners' = {c} /\ loops' = loops + 1
           \/ listeners # {} /\ UNCHANGED bandwidth
        /\ UNCHANGED <<service, callbacks, client, crashes>>

\* stopListeningForBandwidth
TaskUnlisten ==
    LET c == Head(tasks).of
    IN  /\ Take("unlisten")
        /\ listeners' = listeners \ {c}
        /\ loops' = (IF listeners = {c} THEN loops - 1 ELSE loops)
        /\ UNCHANGED <<service, callbacks, client, crashes>>

\* The broadcast onRevoke launched
TaskNotify ==
    /\ Take("notify") /\ Broadcast(Head(tasks).of) /\ raced' = raced \cup Connecting
    /\ UNCHANGED <<service, callbacks, bandwidth, conn, read, crashes>>

\* The stop coroutine onRevoke launched; in Stopped its changeState returns early.
TaskStop ==
    /\ Take("stop")
    /\ stopping' = (state # "Stopped")
    /\ UNCHANGED <<state, announced, revoke, callbacks, bandwidth, client, crashes>>

\* onRevoke on a binder thread: stopRunner calls changeState(Stopping), which
\* launches the broadcast and assigns, and launches the stop coroutine.
RevokeLaunch ==
    /\ revoke = "idle" /\ state \in {"Connecting", "Connected"} /\ Room
    /\ ~Revoking /\ announced # "Stopped" \* the TUN is open and was not taken away yet
    /\ revoke' = "launched"
    /\ tasks' = Append(tasks, [kind |-> "notify", of |-> "Stopping"])
    /\ raced' = (IF stopping \/ announced = "Stopping" THEN Clients ELSE raced)
    /\ UNCHANGED <<state, announced, stopping, callbacks, bandwidth, conn, read, shown, crashes>>

RevokeAssign ==
    /\ revoke = "launched" /\ revoke' = "assigned"
    /\ state' = "Stopping" /\ raced' = raced \cup Connecting
    /\ UNCHANGED <<announced, stopping, tasks, callbacks, bandwidth, conn, read, shown, crashes>>

RevokeStop ==
    /\ revoke = "assigned" /\ revoke' = "idle"
    /\ tasks' = Append(tasks, [kind |-> "stop", of |-> "service"])
    /\ UNCHANGED <<state, announced, stopping, callbacks, bandwidth, client, crashes>>

-----------------------------------------------------------------------------
(* The activity. *)

\* MihomoConnection.connect
Bind(c) ==
    /\ At(c, "new") /\ Goto(c, "bound")
    /\ UNCHANGED <<service, tasks, callbacks, bandwidth, read, shown, raced, crashes>>

\* onServiceConnected: registerCallback, startListeningForBandwidth; ...
Register(c) ==
    /\ At(c, "bound") /\ Room /\ Goto(c, "registered")
    /\ raced' = IF announced # "none" \/ revoke # "idle" \/ Revoking
                THEN raced \cup {c} ELSE raced \ {c}
    /\ callbacks' = callbacks \cup {c}
    /\ tasks' = Append(tasks, [kind |-> "listen", of |-> c])
    /\ UNCHANGED <<service, bandwidth, read, shown, crashes>>

\* ... getState on a binder thread of the service; ...
ReadState(c) ==
    /\ At(c, "registered") /\ Goto(c, "read")
    /\ read' = [read EXCEPT ![c] = state]
    /\ UNCHANGED <<service, tasks, callbacks, bandwidth, shown, raced, crashes>>

\* Mutant: the state is left to the next broadcast.
ShowNothing(c) ==
    /\ At(c, "read") /\ Goto(c, "up")
    /\ UNCHANGED <<service, tasks, callbacks, bandwidth, read, shown, raced, crashes>>

\* ... callback.stateChanged with what was read
ShowState(c) ==
    /\ At(c, "read") /\ Goto(c, "up")
    /\ shown' = [shown EXCEPT ![c] = read[c]]
    /\ UNCHANGED <<service, tasks, callbacks, bandwidth, read, raced, crashes>>

\* disconnect: unregisterCallback also stops the listening.
Disconnect(c) ==
    /\ At(c, "up") /\ Room /\ Goto(c, "gone")
    /\ callbacks' = callbacks \ {c}
    /\ tasks' = Append(tasks, [kind |-> "unlisten", of |-> c])
    /\ UNCHANGED <<service, bandwidth, read, shown, raced, crashes>>

\* The process of the activity dies: callbacks notices, bandwidthListeners does not.
ClientDies(c) ==
    /\ conn[c] \notin {"new", "gone"} /\ Goto(c, "gone")
    /\ callbacks' = callbacks \ {c}
    /\ UNCHANGED <<service, tasks, bandwidth, read, shown, raced, crashes>>

\* onServiceDisconnected: the activity keeps showing the last state until the
\* system has brought the service up again for the binding.
Lost(c) ==
    /\ At(c, "lost") /\ Goto(c, "bound")
    /\ UNCHANGED <<service, tasks, callbacks, bandwidth, read, shown, raced, crashes>>

\* Nobody is bound to a stopped service: it is destroyed, and Binder.close ends
\* what was launched.
Fresh ==
    /\ state' = "Stopped" /\ announced' = "none" /\ stopping' = FALSE /\ revoke' = "idle"
    /\ tasks' = <<>> /\ callbacks' = {} /\ listeners' = {} /\ loops' = 0

Destroy ==
    /\ state = "Stopped" /\ announced = "none" /\ revoke = "idle"
    /\ \A c \in Clients : conn[c] \in {"new", "gone"}
    /\ Fresh /\ UNCHANGED <<client, crashes>>

\* The ":vpn" process dies.  In the middle of onServiceConnected the activity
\* dies with it: the call of getProfileName is outside of its try.
Crash ==
    /\ crashes < MaxCrash /\ crashes' = crashes + 1
    /\ Fresh
    /\ conn' = [c \in Clients |-> IF conn[c] = "up" THEN "lost"
                                  ELSE IF c \in Connecting THEN "gone" ELSE conn[c]]
    /\ UNCHANGED <<read, shown, raced>>

-----------------------------------------------------------------------------
MainThread ==
    \/ Assign \/ Start \/ Serve \/ Stop \/ Stopped
    \/ TaskListen \/ TaskUnlisten \/ TaskNotify \/ TaskStop
BinderThread == RevokeLaunch \/ RevokeAssign \/ RevokeStop
Activity(c) ==
    \/ Bind(c) \/ Register(c) \/ ReadState(c) \/ ShowState(c) \/ Disconnect(c)
    \/ ClientDies(c) \/ Lost(c)

Next == MainThread \/ BinderThread \/ (\E c \in Clients : Activity(c)) \/ Destroy \/ Crash

Spec == Init /\ [][Next]_vars

-----------------------------------------------------------------------------
(* Properties. *)

Quiet == tasks = <<>> /\ announced = "none" /\ ~stopping /\ revoke = "idle"

\* When the service has nothing left to do, a connected activity shows the
\* state it is in - also when onRevoke's broadcast is queued behind another
\* change, and after a death of the service - unless the activity connected
\* while the state changed, or a stop crossed onRevoke.
InSync == Quiet => \A c \in Clients : At(c, "up") /\ c \notin raced => shown[c] = state

\* There is one loop while somebody listens and none otherwise, whoever comes,
\* goes or dies: never two rates of updates, never one for nobody.
LoopsMatchListeners == loops = IF listeners = {} THEN 0 ELSE 1
===============================================================================
