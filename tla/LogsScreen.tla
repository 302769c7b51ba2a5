------------------------------ MODULE LogsScreen -------------------------------
(***************************************************************************)
(* The log screen (logs_screen.dart) and the stream it listens to          *)
(* (mihomo_api.dart, _streamJsonLines): a WebSocket of the engine that is  *)
(* opened again, after a delay that doubles, whenever it fails or ends.    *)
(* Entries are numbered as the engine emits them; the engine filters them  *)
(* by the level of the socket, which an entry is stamped with.             *)
(***************************************************************************)
EXTENDS EngineApi

CONSTANTS
    Levels,      \* levels the user can choose; DefaultLevel is the first shown
    DefaultLevel,
    MaxEntries,  \* _kMaxEntries
    MaxEmitted   \* entries the engine emits

ASSUME LogsAssumption == /\ DefaultLevel \in Levels
                         /\ MaxEntries \in Nat \ {0} /\ MaxEmitted \in Nat

VARIABLES
    logOpen,     \* the route is on the navigator: mounted
    level, paused,
    logs,        \* _logs, what is shown
    pendingLogs, \* _pending
    flushTimer,  \* _flushTimer: null, armed, or cancelled and not null
    socket,      \* the channel of the present subscription
    backoffMs,
    wire,        \* entries sent on it and not yet received
    emitted,     \* entries emitted so far
    flushLost    \* history: a level was chosen while a flush was due

screenVars == <<logOpen, level, paused, logs, pendingLogs, flushTimer, flushLost>>
streamVars == <<socket, backoffMs, wire>>
logVars == <<screenVars, streamVars, emitted>>

FirstBackoff == 500
LastBackoff  == 30000

LogsInit ==
    /\ logOpen = FALSE /\ level = DefaultLevel /\ paused = FALSE
    /\ logs = <<>> /\ pendingLogs = <<>> /\ flushTimer = "null" /\ flushLost = FALSE
    /\ socket = "none" /\ backoffMs = FirstBackoff /\ wire = <<>> /\ emitted = 0

-----------------------------------------------------------------------------
(* The stream. *)

\* A new StreamController whose connect() is about to run; what the old channel
\* still holds is not heard.
Listen == socket' = "connecting" /\ backoffMs' = FirstBackoff /\ wire' = <<>>

\* WebSocketChannel.connect
Connect ==
    /\ socket = "connecting" /\ socket' = Answer("open", "waiting")
    /\ UNCHANGED <<screenVars, backoffMs, wire, emitted>>

\* The engine stopped under the stream: it ends, which resets the delay, or fails.
SocketEnds ==
    /\ socket = "closed" /\ socket' = "waiting"
    /\ \/ wire = <<>> /\ backoffMs' = FirstBackoff /\ UNCHANGED wire
       \/ wire' = <<>> /\ UNCHANGED backoffMs
    /\ UNCHANGED <<screenVars, emitted>>

Clamp30s(ms) == IF ms > LastBackoff THEN LastBackoff ELSE ms

\* The delay is over.
Retry ==
    /\ socket = "waiting" /\ socket' = "connecting"
    /\ backoffMs' = Clamp30s(2 * backoffMs)
    /\ UNCHANGED <<screenVars, wire, emitted>>

\* The engine logs something of the socket's level or above.
Emit ==
    /\ up /\ socket = "open" /\ emitted < MaxEmitted
    /\ emitted' = emitted + 1
    /\ wire' = Append(wire, [n |-> emitted', level |-> level])
    /\ UNCHANGED <<screenVars, socket, backoffMs>>

LogsEngineStops ==
    /\ socket' = IF socket = "open" THEN "closed" ELSE socket
    /\ UNCHANGED <<screenVars, backoffMs, wire, emitted>>

-----------------------------------------------------------------------------
(* The screen. *)

\* initState
OpenLogs ==
    /\ ~logOpen /\ logOpen' = TRUE
    /\ Listen
    /\ UNCHANGED <<level, paused, logs, pendingLogs, flushTimer, flushLost, emitted>>

\* dispose: the state goes with the route.
CloseLogs ==
    /\ logOpen /\ logOpen' = FALSE
    /\ level' = DefaultLevel /\ paused' = FALSE
    /\ logs' = <<>> /\ pendingLogs' = <<>> /\ flushTimer' = "null" /\ flushLost' = FALSE
    /\ socket' = "none" /\ backoffMs' = FirstBackoff /\ wire' = <<>>
    /\ UNCHANGED emitted

\* An entry arrives: dropped while paused, else kept for the next flush.
Receive ==
    /\ wire # <<>> /\ wire' = Tail(wire)
    /\ IF paused
       THEN UNCHANGED <<pendingLogs, flushTimer>>
       ELSE /\ pendingLogs' = Append(pendingLogs, Head(wire))
            /\ flushTimer' = IF flushTimer = "null" THEN "armed" ELSE flushTimer
    /\ UNCHANGED <<logOpen, level, paused, logs, flushLost, socket, backoffMs, emitted>>

LastEntries(s) ==
    IF Len(s) > MaxEntries THEN SubSeq(s, Len(s) - MaxEntries + 1, Len(s)) ELSE s

\* Mutant: the timer that fired is kept.
FlushTimerKept ==
    /\ flushTimer = "armed" /\ flushTimer' = "cancelled"
    /\ logs' = LastEntries(logs \o pendingLogs) /\ pendingLogs' = <<>>
    /\ UNCHANGED <<logOpen, level, paused, flushLost, streamVars, emitted>>

\* The timer fires: _flushPending
Flush ==
    /\ flushTimer = "armed" /\ flushTimer' = "null"
    /\ logs' = LastEntries(logs \o pendingLogs) /\ pendingLogs' = <<>>
    /\ UNCHANGED <<logOpen, level, paused, flushLost, streamVars, emitted>>

TogglePause ==
    /\ logOpen /\ paused' = ~paused
    /\ UNCHANGED <<logOpen, level, logs, pendingLogs, flushTimer, flushLost, streamVars, emitted>>

Clear ==
    /\ logOpen /\ logs' = <<>>
    /\ UNCHANGED <<logOpen, level, paused, pendingLogs, flushTimer, flushLost, streamVars, emitted>>

\* _onLevelChanged and _subscribe: the timer is cancelled and not set to null,
\* and what was pending stays.
OnLevelChanged == \E l \in Levels \ {level} :
    /\ logOpen /\ level' = l /\ logs' = <<>>
    /\ flushTimer' = IF flushTimer = "null" THEN "null" ELSE "cancelled"
    /\ flushLost' = (flushLost \/ flushTimer # "null")
    /\ Listen
    /\ UNCHANGED <<logOpen, paused, pendingLogs, emitted>>

-----------------------------------------------------------------------------
LogsDart == Connect \/ SocketEnds \/ Retry \/ Receive \/ Flush
LogsUser == OpenLogs \/ CloseLogs \/ TogglePause \/ Clear \/ OnLevelChanged
LogsNext == (LogsDart \/ LogsUser \/ Emit) /\ UNCHANGED apiVars

Entry == [n : 1..MaxEmitted, level : Levels]
LogsTypeOK ==
    /\ logOpen \in BOOLEAN /\ level \in Levels /\ paused \in BOOLEAN /\ flushLost \in BOOLEAN
    /\ logs \in Seq(Entry) /\ Len(logs) <= MaxEntries /\ pendingLogs \in Seq(Entry)
    /\ flushTimer \in {"null", "armed", "cancelled"}
    /\ socket \in {"none", "connecting", "open", "closed", "waiting"}
    /\ backoffMs \in {500, 1000, 2000, 4000, 8000, 16000, LastBackoff}
    /\ wire \in Seq(Entry) /\ emitted \in 0..MaxEmitted

-----------------------------------------------------------------------------
(* Properties. *)

\* What has been received comes on the screen, whatever the user pauses, clears
\* and reopens and however often the engine restarts - unless a level was chosen
\* while a flush was due: from then on nothing is shown.
LogsShown == pendingLogs # <<>> ~> (pendingLogs = <<>> \/ flushLost)

\* refactor-plan.md: "accumulate log entries in a buffer; flush to `setState` at
\* most every 200 ms": the buffer is flushed in the end.
LogsFlushed == pendingLogs # <<>> ~> pendingLogs = <<>>
===============================================================================
