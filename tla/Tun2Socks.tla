------------------------------ MODULE Tun2Socks -------------------------------
(***************************************************************************)
(* The tun2socks layer (tun2socks.rs) over several VPN sessions.           *)
(*                                                                         *)
(* A session of the Kotlin side opens a TUN descriptor, starts a run of    *)
(* run_tun2socks on the Tokio runtime, and later stops it and closes the   *)
(* descriptor.  stop() only clears the static TUN2SOCKS_RUNNING: nobody    *)
(* waits for the run, whose tasks end in their own time, and the number of *)
(* a closed descriptor is given out again.  Packets are counted; what is   *)
(* in them is left out.                                                    *)
(***************************************************************************)
EXTENDS Naturals, FiniteSets

CONSTANTS
    MaxLoops,     \* VPN sessions of a behaviour
    MaxFd,        \* descriptor numbers the TUN may get are 1..MaxFd
    Capacity,     \* of the ingress channel (256 in the code)
    MaxRelay      \* relay tasks of a run that are followed

ASSUME LoopAssumption ==
    /\ MaxLoops \in Nat /\ MaxFd \in Nat
    /\ Capacity \in Nat \ {0} /\ MaxRelay \in Nat

VARIABLES
    running,   \* TUN2SOCKS_RUNNING
    lastError, \* LAST_ERROR of the main thread
    fdOwner,   \* descriptor number -> the session it is open for, 0 if closed
    latest,    \* number of the latest session
    kotlin,    \* how far that session is
    fd,        \* run -> the descriptor number it was started with
    reader,    \* run -> the TUN reader task (and the task that awaits it)
    driver,    \* run -> the stack driver task is alive
    ingress,   \* run -> packets in the ingress channel
    relays,    \* run -> handle_tcp_stream tasks at work
    crowded    \* (history) an earlier run had not ended when this one was started

loopVars == <<running, lastError, fdOwner, latest, kotlin, fd, reader, driver, ingress, relays,
              crowded>>

Sessions == 1..MaxLoops
Fds      == 1..MaxFd

LoopTypeOK ==
    /\ running \in BOOLEAN
    /\ fdOwner \in [Fds -> 0..MaxLoops]
    /\ latest \in 0..MaxLoops
    /\ kotlin \in {"down", "established", "up", "failed", "refused", "stopped", "engineDown"}
    /\ lastError \in {"", "already running"}
    /\ fd \in [Sessions -> 0..MaxFd]
    /\ reader \in [Sessions -> {"none", "spawned", "check", "drain", "blocked",
                                "exited", "aborted", "finished"}]
    /\ driver \in [Sessions -> BOOLEAN]
    /\ ingress \in [Sessions -> 0..Capacity]
    /\ relays \in [Sessions -> 0..MaxRelay]
    /\ crowded \in BOOLEAN

LoopInit ==
    /\ running = FALSE /\ lastError = ""
    /\ fdOwner = [f \in Fds |-> 0]
    /\ latest = 0 /\ kotlin = "down"
    /\ fd = [r \in Sessions |-> 0]
    /\ reader = [r \in Sessions |-> "none"]
    /\ driver = [r \in Sessions |-> FALSE]
    /\ ingress = [r \in Sessions |-> 0]
    /\ relays = [r \in Sessions |-> 0]
    /\ crowded = FALSE

Ended(r) == reader[r] \in {"none", "finished"}

-----------------------------------------------------------------------------
(* The Kotlin side: VpnService.startVpn, MihomoInstance.startTun2Socks and
   stop, VpnService.killProcesses. *)

\* establish() returns the lowest free descriptor number.
Establish ==
    /\ kotlin = "down" /\ latest < MaxLoops
    /\ \E f \in Fds :
        /\ fdOwner[f] = 0 /\ \A g \in Fds : g < f => fdOwner[g] # 0
        /\ fdOwner' = [fdOwner EXCEPT ![f] = latest + 1]
        /\ fd' = [fd EXCEPT ![latest + 1] = f]
    /\ latest' = latest + 1 /\ kotlin' = "established"
    /\ UNCHANGED <<running, lastError, reader, driver, ingress, relays, crowded>>

\* Mutant: the swap of the flag is forgotten.
StartUnmarked ==
    /\ UNCHANGED running
    /\ reader' = IF running THEN reader ELSE [reader EXCEPT ![latest] = "spawned"]

\* start(): refused while the flag is set, else the run is spawned.
Start ==
    /\ running' = TRUE
    /\ reader' = IF running THEN reader ELSE [reader EXCEPT ![latest] = "spawned"]

\* The entry point keeps the reason of a refusal for the thread that called it.
NativeStartTun2Socks ==
    /\ kotlin = "established"
    /\ Start
    /\ kotlin' = IF running THEN "failed" ELSE "up"
    /\ lastError' = IF running THEN "already running" ELSE lastError
    /\ crowded' = \E r \in Sessions : ~Ended(r)
    /\ UNCHANGED <<fdOwner, latest, fd, driver, ingress, relays>>

\* startTun2Socks asks why and throws; all of this is on the main thread.
NativeGetLastError ==
    /\ kotlin = "failed" /\ kotlin' = "refused"
    /\ UNCHANGED <<running, lastError, fdOwner, latest, fd, reader, driver, ingress, relays, crowded>>

\* stop(), with nobody waiting for the run.
Stop == running' = FALSE

NativeStopTun2Socks ==
    /\ kotlin \in {"up", "refused"} /\ kotlin' = "stopped"
    /\ Stop
    /\ UNCHANGED <<lastError, fdOwner, latest, fd, reader, driver, ingress, relays, crowded>>

\* nativeStopEngine, then the rest of killProcesses: conn.close()
StopEngine ==
    /\ kotlin = "stopped" /\ kotlin' = "engineDown"
    /\ UNCHANGED <<running, lastError, fdOwner, latest, fd, reader, driver, ingress, relays, crowded>>

CloseFd ==
    /\ kotlin = "engineDown" /\ kotlin' = "down"
    /\ fdOwner' = [fdOwner EXCEPT ![fd[latest]] = 0]
    /\ UNCHANGED <<running, lastError, latest, fd, reader, driver, ingress, relays, crowded>>

\* VpnService.onDestroy: a service destroyed while connected stops nothing; the
\* descriptor stays open.
Abandon ==
    /\ kotlin = "up" /\ kotlin' = "down"
    /\ UNCHANGED <<running, lastError, fdOwner, latest, fd, reader, driver, ingress, relays, crowded>>

-----------------------------------------------------------------------------
(* A run. *)

kotlinVars == <<lastError, fdOwner, latest, kotlin, fd, crowded>>
At(r, s) == reader[r] = s
Goto(r, s) == reader' = [reader EXCEPT ![r] = s]

\* The spawned task begins: the stack is built and the tasks are spawned ...
BuildStack(r) ==
    /\ At(r, "spawned") /\ Goto(r, "check")
    /\ driver' = [driver EXCEPT ![r] = TRUE]
    /\ UNCHANGED <<running, kotlinVars, ingress, relays>>

\* ... or build() fails.
BuildStackFails(r) ==
    /\ At(r, "spawned") /\ Goto(r, "aborted")
    /\ UNCHANGED <<running, kotlinVars, driver, ingress, relays>>

\* The head of the reader's loop.
CheckFlag(r) ==
    /\ At(r, "check") /\ Goto(r, IF running THEN "drain" ELSE "exited")
    /\ UNCHANGED <<running, kotlinVars, driver, ingress, relays>>

\* read() finds nothing: no packet, or the descriptor is closed.
ReadNothing(r) ==
    /\ At(r, "drain") /\ Goto(r, "check")
    /\ UNCHANGED <<running, kotlinVars, driver, ingress, relays>>

\* read() takes a packet off whatever is open under the number.  A DNS query
\* would go to a task of its own; the others go into the channel.
ReadPacket(r) ==
    /\ At(r, "drain") /\ fdOwner[fd[r]] # 0
    /\ \/ /\ driver[r] /\ ingress[r] < Capacity
          /\ ingress' = [ingress EXCEPT ![r] = @ + 1] /\ UNCHANGED reader
       \/ driver[r] /\ ingress[r] = Capacity /\ Goto(r, "blocked") /\ UNCHANGED ingress
       \/ ~driver[r] /\ Goto(r, "check") /\ UNCHANGED ingress
    /\ UNCHANGED <<running, kotlinVars, driver, relays>>

\* Mutant: a receiver that is gone does not wake the sender.
UnblockOnlyRoom(r) ==
    /\ At(r, "blocked") /\ Goto(r, "drain")
    /\ driver[r] /\ ingress[r] < Capacity /\ ingress' = [ingress EXCEPT ![r] = @ + 1]
    /\ UNCHANGED <<running, kotlinVars, driver, relays>>

\* ingress_tx.send(frame).await returns: there is room, or the receiver is gone.
Unblock(r) ==
    /\ At(r, "blocked") /\ Goto(r, "drain")
    /\ \/ driver[r] /\ ingress[r] < Capacity /\ ingress' = [ingress EXCEPT ![r] = @ + 1]
       \/ ~driver[r] /\ UNCHANGED ingress
    /\ UNCHANGED <<running, kotlinVars, driver, relays>>

\* The stack driver takes a packet, which may open a connection: the accept
\* task spawns a relay.
Drive(r) ==
    /\ driver[r] /\ ingress[r] > 0
    /\ ingress' = [ingress EXCEPT ![r] = @ - 1]
    /\ \/ UNCHANGED relays
       \/ relays[r] < MaxRelay /\ relays' = [relays EXCEPT ![r] = @ + 1]
    /\ UNCHANGED <<running, kotlinVars, reader, driver>>

\* The stack driver breaks out of its loop on an error of the stack.
DriverDies(r) ==
    /\ driver[r] /\ driver' = [driver EXCEPT ![r] = FALSE]
    /\ ingress' = [ingress EXCEPT ![r] = 0]
    /\ UNCHANGED <<running, kotlinVars, reader, relays>>

\* The reader has ended: the other tasks are aborted, the relays are not.
Abort(r) ==
    /\ At(r, "exited") /\ Goto(r, "aborted")
    /\ driver' = [driver EXCEPT ![r] = FALSE]
    /\ ingress' = [ingress EXCEPT ![r] = 0]
    /\ UNCHANGED <<running, kotlinVars, relays>>

\* TUN2SOCKS_RUNNING.store(false) at the end of the spawned task
Finish(r) ==
    /\ At(r, "aborted") /\ Goto(r, "finished")
    /\ running' = FALSE
    /\ UNCHANGED <<kotlinVars, driver, ingress, relays>>

\* copy_bidirectional returns, or the SOCKS5 handshake fails
RelayEnds(r) ==
    /\ relays[r] > 0 /\ relays' = [relays EXCEPT ![r] = @ - 1]
    /\ UNCHANGED <<running, kotlinVars, reader, driver, ingress>>

-----------------------------------------------------------------------------
Kotlin ==
    \/ Establish \/ NativeStartTun2Socks \/ NativeGetLastError \/ NativeStopTun2Socks
    \/ StopEngine \/ CloseFd \/ Abandon
Reader(r) ==
    BuildStack(r) \/ BuildStackFails(r) \/ CheckFlag(r) \/ ReadNothing(r) \/ ReadPacket(r)
    \/ Unblock(r) \/ Abort(r) \/ Finish(r)

LoopNext ==
    \/ Kotlin
    \/ \E r \in Sessions : Reader(r) \/ Drive(r) \/ DriverDies(r) \/ RelayEnds(r)

\* Tasks are scheduled, and a start or a stop once begun is carried through.
LoopFairness ==
    /\ \A r \in Sessions : WF_loopVars(Reader(r)) /\ WF_loopVars(Drive(r))
    /\ WF_loopVars(NativeStartTun2Socks) /\ WF_loopVars(StopEngine) /\ WF_loopVars(CloseFd)

LoopSpec == LoopInit /\ [][LoopNext]_loopVars /\ LoopFairness

-----------------------------------------------------------------------------
(* Properties. *)

\* "Starts the tun2socks loop": when no earlier run was left at that time, the
\* loop is not told to end before stop() is called, unless its stack could not
\* be built.  Without the condition the end of an old run may end a new loop.
\* And a start is refused only for a session that was abandoned with its TUN open
\* (TUN2SOCKS_RUNNING, swap), which is what the user is told.
StartedLoopRuns ==
    /\ kotlin = "up" /\ ~crowded /\ reader[latest] \notin {"aborted", "finished"} =>
           running /\ reader[latest] # "exited"
    /\ kotlin = "refused" =>
           /\ lastError = "already running"
           /\ \E f \in Fds : fdOwner[f] \notin {0, latest}

\* MihomoInstance.kt:65: "Shut tun2socks down first so no more packets are flowing
\* into mihomo's mixed listener": when nativeStopTun2Socks has returned no relay is
\* fed by a stack that still runs.
NothingFlowsIn ==
    kotlin \in {"stopped", "engineDown"} => \A r \in Sessions : driver[r] => relays[r] = 0

\* After a stop all runs end - also one whose reader waits for room in the
\* channel while the stack driver dies - unless the next one is started before,
\* or an abandoned session left its TUN open, whose traffic need not pause.
LeftOpen == kotlin = "down" /\ \E f \in Fds : fdOwner[f] # 0
StoppedRunsEnd ==
    kotlin = "stopped" ~> ((\A r \in Sessions : Ended(r)) \/ kotlin = "up" \/ LeftOpen)
===============================================================================
