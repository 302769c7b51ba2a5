--------------------------- MODULE VpnService_proofs --------------------------
(***************************************************************************)
(* IInv is an invariant of VpnService, and with it the safety properties   *)
(* it is made of, for every value of MaxQueue and Broadcasts.              *)
(*                                                                         *)
(* The queue is dealt with first: QueueStep says that it stays a sequence  *)
(* of messages and that a queued stop coroutine stays queued unless it is  *)
(* run, the object is destroyed or the process dies.  After that no proof  *)
(* looks into the queue: TypeStep and InvStep take one action after the    *)
(* other.  The last part proves RInv, and the refinement of VpnSession.    *)
(***************************************************************************)
EXTENDS VpnServiceInv, TLAPS

\* What an assignment of TRUE or FALSE is.
LEMMA Flag == \A x : x = FALSE \/ x = TRUE => x \in BOOLEAN
    BY Zenon

\* What the main queue may be.
Queues == Seq(Message)

\* The operations on a queue, where Message need not be expanded.
LEMMA QueueOps ==
    ASSUME NEW q \in Queues, NEW m \in Message
    PROVE  /\ <<m>> \in Queues
           /\ Append(q, m) \in Queues
           /\ \A r \in Queues : q \o r \in Queues
           /\ q # <<>> => Tail(q) \in Queues
    BY DEF Queues

\* Discard replaces some messages by another one.
LEMMA DiscardType ==
    ASSUME NEW q \in Queues, NEW kinds
    PROVE  Discard(q, kinds) \in Queues
<1>1. PICK n \in Nat : q \in [1..n -> Message]
    BY DEF Queues
<1>2. DOMAIN q = 1..n /\ \A i \in 1..n : q[i] \in Message
    BY <1>1
<1>3. "void" \in Message
    BY DEF Message
<1>4. Discard(q, kinds) \in [1..n -> Message]
    BY <1>2, <1>3 DEF Discard
<1> QED
    BY <1>4 DEF Queues

\* The queue holds a stop coroutine that has not begun.
HoldsStop(q) == \E i \in DOMAIN q : q[i] = "stop"

\* Adding to a queue, or taking another message off it, keeps a stop in it.
LEMMA HoldsStopOps ==
    ASSUME NEW q \in Queues
    PROVE  /\ \A m \in Message : HoldsStop(q) => HoldsStop(Append(q, m))
           /\ HoldsStop(Append(q, "stop"))
           /\ \A r \in Queues : HoldsStop(q) => HoldsStop(q \o r)
           /\ q # <<>> /\ Head(q) # "stop" /\ HoldsStop(q) => HoldsStop(Tail(q))
           /\ \A kinds : "stop" \notin kinds /\ HoldsStop(q) => HoldsStop(Discard(q, kinds))
<1>1. ASSUME NEW m, HoldsStop(q) PROVE HoldsStop(Append(q, m))
    <2>1. PICK i \in DOMAIN q : q[i] = "stop"
        BY <1>1 DEF HoldsStop
    <2>2. i \in DOMAIN Append(q, m) /\ Append(q, m)[i] = "stop"
        BY <2>1 DEF Queues
    <2> QED
        BY <2>2 DEF HoldsStop
<1>2. HoldsStop(Append(q, "stop"))
    <2>1. Len(q) + 1 \in DOMAIN Append(q, "stop") /\ Append(q, "stop")[Len(q) + 1] = "stop"
        BY DEF Queues
    <2> QED
        BY <2>1 DEF HoldsStop
<1>3. ASSUME NEW r \in Queues, HoldsStop(q) PROVE HoldsStop(q \o r)
    <2>1. PICK i \in DOMAIN q : q[i] = "stop"
        BY <1>3 DEF HoldsStop
    <2>2. i \in DOMAIN (q \o r) /\ (q \o r)[i] = "stop"
        BY <2>1, <1>3 DEF Queues
    <2> QED
        BY <2>2 DEF HoldsStop
<1>4. ASSUME q # <<>>, Head(q) # "stop", HoldsStop(q) PROVE HoldsStop(Tail(q))
    <2>1. PICK i \in DOMAIN q : q[i] = "stop"
        BY <1>4 DEF HoldsStop
    <2>2. i # 1 /\ i \in 1..Len(q)
        BY <1>4, <2>1 DEF Queues
    <2>3. i - 1 \in DOMAIN Tail(q) /\ Tail(q)[i - 1] = "stop"
        BY <1>4, <2>1, <2>2 DEF Queues
    <2> QED
        BY <2>3 DEF HoldsStop
<1>5. ASSUME NEW kinds, "stop" \notin kinds, HoldsStop(q) PROVE HoldsStop(Discard(q, kinds))
    <2>1. PICK i \in DOMAIN q : q[i] = "stop"
        BY <1>5 DEF HoldsStop
    <2>2. i \in DOMAIN Discard(q, kinds) /\ Discard(q, kinds)[i] = "stop"
        BY <1>5, <2>1 DEF Discard
    <2> QED
        BY <2>2 DEF HoldsStop
<1> QED
    BY <1>1, <1>2, <1>3, <1>4, <1>5

\* The calls of the activity manager only add to the queue.
LEMMA AmCalls ==
    ASSUME NEW q \in Queues, NEW s, NEW u, NEW y
    PROVE  /\ StartService(q) => mainQ' \in Queues /\ (HoldsStop(q) => HoldsStop(mainQ'))
           /\ BindService(q)  => mainQ' \in Queues /\ (HoldsStop(q) => HoldsStop(mainQ'))
           /\ BringDown(q, s, u, y) =>
                  mainQ' \in Queues /\ (HoldsStop(q) => HoldsStop(mainQ'))
<1>m. {"create", "start", "destroy"} \subseteq Message
    BY DEF Message
<1>1. /\ <<"start">> \in Queues
      /\ Append(q, "create") \in Queues /\ Append(q, "destroy") \in Queues
    BY <1>m, QueueOps
<1>2. /\ HoldsStop(q) => HoldsStop(Append(q, "create"))
      /\ HoldsStop(q) => HoldsStop(Append(q, "destroy"))
    BY <1>m, HoldsStopOps
<1>3. StartService(q) => mainQ' \in Queues /\ (HoldsStop(q) => HoldsStop(mainQ'))
    <2>1. PICK p \in {q, Append(q, "create")} : StartService(q) => mainQ' = p \o <<"start">>
        BY DEF StartService
    <2>2. p \in Queues /\ (HoldsStop(q) => HoldsStop(p))
        BY <1>1, <1>2
    <2>3. p \o <<"start">> \in Queues /\ (HoldsStop(p) => HoldsStop(p \o <<"start">>))
        BY <1>1, <1>m, <2>2, QueueOps, HoldsStopOps
    <2> QED
        BY <2>1, <2>2, <2>3
<1>4. BindService(q) => mainQ' \in Queues /\ (HoldsStop(q) => HoldsStop(mainQ'))
    BY <1>1, <1>2 DEF BindService
<1>5. BringDown(q, s, u, y) => mainQ' \in Queues /\ (HoldsStop(q) => HoldsStop(mainQ'))
    BY <1>1, <1>2 DEF BringDown
<1> QED
    BY <1>3, <1>4, <1>5

\* What a step does to the queue: a stop coroutine leaves it by being run, or with
\* the service object or the process.
QueueKept ==
    /\ mainQ' \in Queues
    /\ HoldsStop(mainQ) => HoldsStop(mainQ') \/ OnStop \/ OnDestroy \/ Crash

\* What every step does to the queue.
LEMMA QueueStep == TypeOK /\ [Next]_vars => QueueKept
<1> SUFFICES ASSUME TypeOK, [Next]_vars PROVE QueueKept
    OBVIOUS
<1> USE DEF QueueKept
<1>0. mainQ \in Queues
    BY DEF TypeOK, Queues
<1>t. ASSUME NEW m \in Message, Take(m)
      PROVE  /\ Tail(mainQ) \in Queues
             /\ m # "stop" => (HoldsStop(mainQ) => HoldsStop(Tail(mainQ)))
    <2>1. mainQ # <<>> /\ Head(mainQ) = m
        BY <1>t DEF Take
    <2> QED
        BY <1>0, <2>1, QueueOps, HoldsStopOps
<1>1. CASE OnCreate
    BY <1>1, <1>t DEF OnCreate, Message
<1>2. CASE OnStartCommand
    BY <1>2, <1>t DEF OnStartCommand, Message, Receive
<1>3. CASE WithProfile
    BY <1>3, <1>t DEF WithProfile, Message, Receive
<1>4. CASE NoProfile
    BY <1>4, <1>t DEF NoProfile, Message, Receive
<1>5. CASE Cancelled
    BY <1>5, <1>t DEF Cancelled, Message, Receive
<1>6. CASE OnClose
    BY <1>6, <1>t DEF OnClose, Message, Receive
<1>7. CASE OnReload
    <2>1. Take("reload") /\ (mainQ' = Tail(mainQ) \/ StartService(Tail(mainQ)))
        BY <1>7 DEF OnReload
    <2>2. Tail(mainQ) \in Queues /\ (HoldsStop(mainQ) => HoldsStop(Tail(mainQ)))
        BY <1>t, <2>1 DEF Message
    <2> QED
        BY <2>1, <2>2, AmCalls
<1>8. CASE OnStop
    BY <1>8, <1>t DEF OnStop, Message, Receive
<1>9. CASE OnDestroy
    <2>1. Tail(mainQ) \in Queues
        BY <1>9, <1>t DEF OnDestroy, Message
    <2> QED
        BY <1>9, <2>1, DiscardType DEF OnDestroy
<1>10. CASE DropVoid
    BY <1>10, <1>t DEF DropVoid, Message
<1>11. CASE PreInit
    BY <1>11, <1>0 DEF PreInit
<1>12. CASE StartVpn
    BY <1>12, <1>0, AmCalls DEF StartVpn
<1>13. CASE StartEngine
    BY <1>13, <1>0 DEF StartEngine
<1>14. CASE Booted
    BY <1>14, <1>0 DEF Booted
<1>15. CASE StartTun2Socks
    BY <1>15, <1>0 DEF StartTun2Socks
<1>16. CASE ChangeStateConnected
    BY <1>16, <1>0 DEF ChangeStateConnected
<1>17. CASE Failed
    BY <1>17, <1>0 DEF Failed
<1>18. CASE StopTun2Socks
    BY <1>18, <1>0 DEF StopTun2Socks, KillStep
<1>19. CASE StopEngine
    BY <1>19, <1>0 DEF StopEngine, KillStep
<1>20. CASE ClearProtect
    BY <1>20, <1>0 DEF ClearProtect, KillStep
<1>21. CASE Release
    BY <1>21, <1>0, DiscardType, HoldsStopOps DEF Release
<1>22. CASE ChangeStateStopped
    BY <1>22, <1>0 DEF ChangeStateStopped, KillStep
<1>23. CASE Leave
    BY <1>23, <1>0, AmCalls DEF Leave
<1>24. CASE RevokeReads
    BY <1>24, <1>0 DEF RevokeReads
<1>25. CASE RevokeWrites
    BY <1>25, <1>0, QueueOps, HoldsStopOps DEF RevokeWrites, Message
<1>26. CASE QueryDone
    BY <1>26, <1>0, QueueOps, HoldsStopOps DEF QueryDone, Message
<1>27. CASE UiStart
    BY <1>27, <1>0, AmCalls DEF UiStart
<1>28. ASSUME NEW a \in Broadcasts, UiBroadcast(a) PROVE QueueKept
    BY <1>28, <1>0, QueueOps, HoldsStopOps, BroadcastAssumption DEF UiBroadcast, Message
<1>29. CASE UiBind
    BY <1>29, <1>0, AmCalls DEF UiBind
<1>30. CASE UiUnbind
    BY <1>30, <1>0, AmCalls DEF UiUnbind
<1>31. CASE SysUnbind
    BY <1>31, <1>0, AmCalls DEF SysUnbind
<1>32. CASE SysRevoke
    BY <1>32, <1>0, AmCalls DEF SysRevoke
<1>33. CASE Crash
    <2>1. <<>> \in Queues /\ <<"create">> \in Queues
        BY DEF Queues, Message
    <2> QED
        BY <1>33, <2>1 DEF Crash
<1>34. CASE UNCHANGED vars
    BY <1>0, <1>34 DEF vars
<1>35. CASE Dialer
    BY <1>35, <1>0 DEF Dialer, Dial, ProtectReads, ProtectCalls
<1> QED
    BY <1>1, <1>2, <1>3, <1>4, <1>5, <1>6, <1>7, <1>8, <1>9, <1>10, <1>11, <1>12,
       <1>13, <1>14, <1>15, <1>16, <1>17, <1>18, <1>19, <1>20, <1>21, <1>22, <1>23, <1>24,
       <1>25, <1>26, <1>27, <1>28, <1>29, <1>30, <1>31, <1>32, <1>33, <1>34, <1>35
    DEF Next, MainThread, BinderThread, User, System

\* Every step keeps the types.
LEMMA TypeStep == TypeOK /\ [Next]_vars => TypeOK'
<1> SUFFICES ASSUME TypeOK, [Next]_vars PROVE FlagsOK' /\ ControlOK'
    BY QueueStep DEF QueueKept, Queues, TypeOK
<1>t. FlagsOK /\ ControlOK
    BY DEF TypeOK
<1> USE DEF FlagsOK, ControlOK, State, Startup, Kill, objVars, procVars, threads, amVars
<1>1. CASE OnCreate
    BY <1>1, <1>t, Flag DEF OnCreate, Take, FreshObject
<1>2. CASE OnStartCommand
    BY <1>2, <1>t, Flag DEF OnStartCommand, Receive, Take
<1>3. CASE WithProfile
    BY <1>3, <1>t, Flag DEF WithProfile, Receive, Take
<1>4. CASE NoProfile
    BY <1>4, <1>t, Flag DEF NoProfile, Receive, Take
<1>5. CASE Cancelled
    BY <1>5, <1>t, Flag DEF Cancelled, Receive, Take, EnterKill
<1>6. CASE OnClose
    BY <1>6, <1>t, Flag DEF OnClose, Receive, Take, StopRunner, StopCoroutine, EnterKill
<1>7. CASE OnReload
    BY <1>7, <1>t, Flag DEF OnReload, Take, StopRunner, StopCoroutine, EnterKill,
        StartService
<1>8. CASE OnStop
    BY <1>8, <1>t, Flag DEF OnStop, Receive, Take, StopCoroutine, EnterKill
<1>9. CASE OnDestroy
    BY <1>9, <1>t, Flag DEF OnDestroy, Take
<1>10. CASE DropVoid
    BY <1>10, <1>t, Flag DEF DropVoid, Take
<1>11. CASE PreInit
    BY <1>11, <1>t, Flag DEF PreInit, StartStep
<1>12. CASE StartVpn
    BY <1>12, <1>t, Flag DEF StartVpn, StartStep, BindService
<1>13. CASE StartEngine
    BY <1>13, <1>t, Flag DEF StartEngine, StartStep
<1>14. CASE Booted
    BY <1>14, <1>t, Flag DEF Booted, StartStep
<1>15. CASE StartTun2Socks
    BY <1>15, <1>t, Flag DEF StartTun2Socks, StartStep
<1>16. CASE ChangeStateConnected
    BY <1>16, <1>t, Flag DEF ChangeStateConnected
<1>17. CASE Failed
    BY <1>17, <1>t, Flag DEF Failed, StopRunner, StopCoroutine, EnterKill
<1>18. CASE StopTun2Socks
    BY <1>18, <1>t, Flag DEF StopTun2Socks, KillStep
<1>19. CASE StopEngine
    BY <1>19, <1>t, Flag DEF StopEngine, KillStep
<1>20. CASE ClearProtect
    BY <1>20, <1>t, Flag DEF ClearProtect, KillStep
<1>21. CASE Release
    BY <1>21, <1>t, Flag DEF Release, KillStep
<1>22. CASE ChangeStateStopped
    BY <1>22, <1>t, Flag DEF ChangeStateStopped, KillStep
<1>23. CASE Leave
    BY <1>23, <1>t, Flag DEF Leave, KillStep, StartService, BringDown
<1>24. CASE RevokeReads
    BY <1>24, <1>t, Flag DEF RevokeReads
<1>25. CASE RevokeWrites
    BY <1>25, <1>t, Flag DEF RevokeWrites
<1>26. CASE QueryDone
    BY <1>26, <1>t, Flag DEF QueryDone
<1>27. CASE UiStart
    BY <1>27, <1>t, Flag DEF UiStart, StartService
<1>28. ASSUME NEW a \in Broadcasts, UiBroadcast(a) PROVE FlagsOK' /\ ControlOK'
    BY <1>28, <1>t, Flag DEF UiBroadcast
<1>29. CASE UiBind
    BY <1>29, <1>t, Flag DEF UiBind, BindService
<1>30. CASE UiUnbind
    BY <1>30, <1>t, Flag DEF UiUnbind, BringDown
<1>31. CASE SysUnbind
    BY <1>31, <1>t, Flag DEF SysUnbind, BringDown
<1>32. CASE SysRevoke
    BY <1>32, <1>t, Flag DEF SysRevoke, BringDown
<1>33. CASE Crash
    BY <1>33, <1>t, Flag DEF Crash, FreshObject
<1>34. CASE UNCHANGED vars
    BY <1>t, <1>34 DEF vars
<1>35. CASE Dialer
    BY <1>35, <1>t, Flag DEF Dialer, Dial, ProtectReads, ProtectCalls
<1> QED
    BY <1>1, <1>2, <1>3, <1>4, <1>5, <1>6, <1>7, <1>8, <1>9, <1>10, <1>11, <1>12,
       <1>13, <1>14, <1>15, <1>16, <1>17, <1>18, <1>19, <1>20, <1>21, <1>22, <1>23, <1>24,
       <1>25, <1>26, <1>27, <1>28, <1>29, <1>30, <1>31, <1>32, <1>33, <1>34, <1>35
    DEF Next, MainThread, BinderThread, User, System

-----------------------------------------------------------------------------
(* The inductive step. *)

\* Nothing but the queue, the dialer, the starts and the binding of the activity changes.
Outside == UNCHANGED <<objVars, procVars, pc, revoke, sysBound>>

\* A stop coroutine that is queued stays queued.
StopStays == Queued("stop") => Queued("stop")'

\* Every step keeps the invariant.
LEMMA InvStep == IInv /\ [Next]_vars => IInv'
<1> SUFFICES ASSUME IInv, [Next]_vars PROVE IInv'
    OBVIOUS
<1>t. TypeOK /\ TypeOK'
    BY TypeStep DEF IInv
<1>q. StopStays \/ OnStop \/ OnDestroy \/ Crash
    BY <1>t, QueueStep DEF QueueKept, HoldsStop, Queued, StopStays
<1> USE DEF IInv, JobInv, StartInv, StopInv, ProtectedDials, ConnectedIsServing,
        StoppingHasOwner, ConnectingHasOwner, RevokedIsNoticed, Startup, Kill,
        objVars, procVars, threads, amVars
<1>f. ASSUME Outside, StopStays PROVE IInv'
    BY <1>f, <1>t DEF Outside, StopStays
<1>1. CASE OnCreate /\ StopStays
    BY <1>1, <1>t DEF OnCreate, Take, FreshObject, StopStays
<1>2. CASE OnStartCommand /\ StopStays
    BY <1>2, <1>t DEF OnStartCommand, Receive, Take, StopStays
<1>3. CASE WithProfile /\ StopStays
    BY <1>3, <1>t DEF WithProfile, Receive, Take, StopStays
<1>4. CASE NoProfile /\ StopStays
    BY <1>4, <1>t DEF NoProfile, Receive, Take, StopStays
<1>5. CASE Cancelled /\ StopStays
    BY <1>5, <1>t DEF Cancelled, Receive, Take, EnterKill, StopStays
<1>6. CASE OnClose /\ StopStays
    BY <1>6, <1>t DEF OnClose, Receive, Take, StopRunner, StopCoroutine, EnterKill,
        StopStays
<1>7. CASE OnReload /\ StopStays
    BY <1>7, <1>t DEF OnReload, Take, StopRunner, StopCoroutine, EnterKill, StopStays
<1>8. CASE OnStop
    BY <1>8, <1>t DEF OnStop, Receive, Take, StopCoroutine, EnterKill
<1>9. CASE OnDestroy
    BY <1>9, <1>t DEF OnDestroy, Take
<1>10. CASE DropVoid /\ StopStays
    BY <1>10, <1>f DEF DropVoid, Outside, Take
<1>11. CASE PreInit /\ StopStays
    BY <1>11, <1>t DEF PreInit, StartStep, StopStays
<1>12. CASE StartVpn /\ StopStays
    BY <1>12, <1>t DEF StartVpn, StartStep, StopStays
<1>13. CASE StartEngine /\ StopStays
    BY <1>13, <1>t DEF StartEngine, StartStep, StopStays
<1>14. CASE Booted /\ StopStays
    BY <1>14, <1>t DEF Booted, StartStep, StopStays
<1>15. CASE StartTun2Socks /\ StopStays
    BY <1>15, <1>t DEF StartTun2Socks, StartStep, StopStays
<1>16. CASE ChangeStateConnected /\ StopStays
    BY <1>16, <1>t DEF ChangeStateConnected, StopStays
<1>17. CASE Failed /\ StopStays
    BY <1>17, <1>t DEF Failed, StopRunner, StopCoroutine, EnterKill, StopStays
<1>18. CASE StopTun2Socks /\ StopStays
    BY <1>18, <1>t DEF StopTun2Socks, KillStep, StopStays
<1>19. CASE StopEngine /\ StopStays
    BY <1>19, <1>t DEF StopEngine, KillStep, StopStays
<1>20. CASE ClearProtect /\ StopStays
    BY <1>20, <1>t DEF ClearProtect, KillStep, StopStays
<1>21. CASE Release /\ StopStays
    BY <1>21, <1>t DEF Release, KillStep, StopStays
<1>22. CASE ChangeStateStopped /\ StopStays
    BY <1>22, <1>t DEF ChangeStateStopped, KillStep, StopStays
<1>23. CASE Leave /\ StopStays
    BY <1>23, <1>t DEF Leave, KillStep, StopStays
<1>24. CASE RevokeReads /\ StopStays
    BY <1>24, <1>t DEF RevokeReads, StopStays
<1>25. CASE RevokeWrites
    <2>1. Queued("stop")'
        BY <1>25, <1>t, HoldsStopOps DEF RevokeWrites, TypeOK, Queues, HoldsStop, Queued
    <2> QED
        BY <1>25, <1>t, <2>1 DEF RevokeWrites
<1>26. CASE QueryDone /\ StopStays
    BY <1>26, <1>f DEF QueryDone, Outside
<1>27. CASE UiStart /\ StopStays
    BY <1>27, <1>f DEF UiStart, Outside
<1>28. ASSUME NEW a \in Broadcasts, UiBroadcast(a), StopStays PROVE IInv'
    BY <1>28, <1>f DEF UiBroadcast, Outside
<1>29. CASE UiBind /\ StopStays
    BY <1>29, <1>f DEF UiBind, Outside
<1>30. CASE UiUnbind /\ StopStays
    BY <1>30, <1>f DEF UiUnbind, Outside
<1>31. CASE SysUnbind /\ StopStays
    BY <1>31, <1>t DEF SysUnbind, StopStays
<1>32. CASE SysRevoke /\ StopStays
    BY <1>32, <1>t DEF SysRevoke, StopStays
<1>33. CASE Crash
    BY <1>33, <1>t DEF Crash, FreshObject
<1>34. CASE UNCHANGED vars
    BY <1>f, <1>34 DEF vars, Outside, StopStays, Queued
<1>35. CASE Dialer /\ StopStays
    BY <1>35, <1>f DEF Dialer, Dial, ProtectReads, ProtectCalls, Outside
<1> QED
    BY <1>q, <1>1, <1>2, <1>3, <1>4, <1>5, <1>6, <1>7, <1>8, <1>9, <1>10, <1>11, <1>12,
       <1>13, <1>14, <1>15, <1>16, <1>17, <1>18, <1>19, <1>20, <1>21, <1>22, <1>23, <1>24,
       <1>25, <1>26, <1>27, <1>28, <1>29, <1>30, <1>31, <1>32, <1>33, <1>34, <1>35
    DEF Next, MainThread, BinderThread, User, System

\* The initial state satisfies the invariant.
LEMMA InvInit == Init => IInv
<1> SUFFICES ASSUME Init PROVE IInv
    OBVIOUS
<1>1. TypeOK
    BY Flag DEF Init, TypeOK, FlagsOK, ControlOK, State, Startup, Kill
<1> QED
    BY <1>1 DEF Init, IInv, JobInv, StartInv, StopInv, ProtectedDials, ConnectedIsServing,
        StoppingHasOwner, ConnectingHasOwner, RevokedIsNoticed, Startup, Kill

-----------------------------------------------------------------------------
(* The theorems. *)

\* IInv holds in every state, for every queue bound and set of broadcasts,
\* and however the users behave.
THEOREM Invariance == Spec => []IInv
<1>1. Init => IInv
    BY InvInit
<1>2. IInv /\ [Next]_vars => IInv'
    BY InvStep
<1> QED
    BY <1>1, <1>2, PTL DEF Spec

\* Every variable keeps its type.
THEOREM TypeCorrect == Spec => []TypeOK
<1>1. IInv => TypeOK
    BY DEF IInv
<1> QED
    BY <1>1, Invariance, PTL

\* Whenever the engine may dial, its sockets are protected (MihomoInstance.start and
\* stop, engine.go).
THEOREM DialsAreProtected == Spec => []ProtectedDials
<1>1. IInv => ProtectedDials
    BY DEF IInv
<1> QED
    BY <1>1, Invariance, PTL

\* Whenever the main thread rests in Connected, the whole chain serves, although
\* onRevoke writes the state from another thread (BaseService, VpnService).
THEOREM ConnectedServes == Spec => []ConnectedIsServing
<1>1. IInv => ConnectedIsServing
    BY DEF IInv
<1> QED
    BY <1>1, Invariance, PTL

\* The service is never in Stopping with nobody to stop it, nor in Connecting with
\* nobody connecting it (BaseService.stopRunner, onStartCommand).
THEOREM TransitionsAreOwned == Spec => []TransitionsHaveOwner
<1>1. IInv => TransitionsHaveOwner
    BY DEF IInv, TransitionsHaveOwner
<1> QED
    BY <1>1, Invariance, PTL

\* A revoked tunnel is always on its way to be closed (VpnService.onRevoke).
THEOREM RevocationIsNoticed == Spec => []RevokedIsNoticed
<1>1. IInv => RevokedIsNoticed
    BY DEF IInv
<1> QED
    BY <1>1, Invariance, PTL

-----------------------------------------------------------------------------
(* Under patient users no session outlives its end, and the service
   implements VpnSession: RInv is an invariant of VpnService, and every step
   of the service is a step of the abstract session or stutters.

   Again the queue comes first: for every operation on it, which messages it
   may add (Gains) and that a start stays behind the other messages of the
   lifecycle. *)


\* What the operations on a queue do to its messages.
LEMMA HasOps ==
    ASSUME NEW q \in Queues
    PROVE  /\ \A m \in Message : \A n : Has(Append(q, m), n) => Has(q, n) \/ n = m
           /\ q # <<>> => \A n : Has(Tail(q), n) => Has(q, n)
           /\ q # <<>> => Has(q, Head(q))
           /\ \A kinds, n : n # "void" /\ Has(Discard(q, kinds), n) =>
                 Has(q, n) /\ n \notin kinds
           /\ \A m \in Message : q \o <<m>> = Append(q, m)
<1>1. ASSUME NEW m \in Message, NEW n, Has(Append(q, m), n) PROVE Has(q, n) \/ n = m
    <2>1. PICK i \in DOMAIN Append(q, m) : Append(q, m)[i] = n
        BY <1>1 DEF Has
    <2>2. i \in 1..(Len(q) + 1)
        BY <2>1 DEF Queues
    <2>3. CASE i = Len(q) + 1
        BY <2>1, <2>3 DEF Queues
    <2>4. CASE i # Len(q) + 1
        <3>1. i \in DOMAIN q /\ q[i] = n
            BY <2>1, <2>2, <2>4 DEF Queues
        <3> QED
            BY <3>1 DEF Has
    <2> QED
        BY <2>3, <2>4
<1>2. ASSUME q # <<>>, NEW n, Has(Tail(q), n) PROVE Has(q, n)
    <2>1. PICK i \in DOMAIN Tail(q) : Tail(q)[i] = n
        BY <1>2 DEF Has
    <2>2. i + 1 \in DOMAIN q /\ q[i + 1] = n
        BY <1>2, <2>1 DEF Queues
    <2> QED
        BY <2>2 DEF Has
<1>3. ASSUME q # <<>> PROVE Has(q, Head(q))
    <2>1. 1 \in DOMAIN q /\ q[1] = Head(q)
        BY <1>3 DEF Queues
    <2> QED
        BY <2>1 DEF Has
<1>4. ASSUME NEW kinds, NEW n, n # "void", Has(Discard(q, kinds), n)
      PROVE  Has(q, n) /\ n \notin kinds
    <2>1. PICK i \in DOMAIN Discard(q, kinds) : Discard(q, kinds)[i] = n
        BY <1>4 DEF Has
    <2>2. i \in DOMAIN q /\ n = IF q[i] \in kinds THEN "void" ELSE q[i]
        BY <2>1 DEF Discard
    <2>3. q[i] = n /\ n \notin kinds
        BY <1>4, <2>2
    <2> QED
        BY <2>2, <2>3 DEF Has
<1>5. ASSUME NEW m \in Message PROVE q \o <<m>> = Append(q, m)
    BY DEF Queues
<1> QED
    BY <1>1, <1>2, <1>3, <1>4, <1>5

\* What they do to the order of its messages.
LEMMA OrderOps ==
    ASSUME NEW q \in Queues, StartIsLast(q)
    PROVE  /\ \A m \in Message :
                 m \notin Lifecycle \/ ~Has(q, "start") => StartIsLast(Append(q, m))
           /\ q # <<>> => StartIsLast(Tail(q))
           /\ q # <<>> /\ Head(q) = "start" => \A m \in Lifecycle : ~Has(Tail(q), m)
           /\ \A kinds : StartIsLast(Discard(q, kinds))
<1>1. ASSUME NEW m \in Message, m \notin Lifecycle \/ ~Has(q, "start")
      PROVE  StartIsLast(Append(q, m))
    <2> SUFFICES ASSUME NEW i \in DOMAIN Append(q, m), NEW j \in DOMAIN Append(q, m),
                        i < j, Append(q, m)[i] = "start"
                 PROVE  Append(q, m)[j] \notin Lifecycle
        BY DEF StartIsLast
    <2>1. i \in 1..Len(q) /\ j \in 1..(Len(q) + 1)
        BY DEF Queues
    <2>2. i \in DOMAIN q /\ q[i] = "start"
        BY <2>1 DEF Queues
    <2>3. CASE j = Len(q) + 1
        <3>1. Append(q, m)[j] = m
            BY <2>3 DEF Queues
        <3> QED
            BY <1>1, <2>2, <3>1 DEF Has
    <2>4. CASE j # Len(q) + 1
        <3>1. j \in DOMAIN q /\ q[j] = Append(q, m)[j]
            BY <2>1, <2>4 DEF Queues
        <3> QED
            BY <2>2, <3>1 DEF StartIsLast
    <2> QED
        BY <2>3, <2>4
<1>2. ASSUME q # <<>> PROVE StartIsLast(Tail(q))
    <2> SUFFICES ASSUME NEW i \in DOMAIN Tail(q), NEW j \in DOMAIN Tail(q),
                        i < j, Tail(q)[i] = "start"
                 PROVE  Tail(q)[j] \notin Lifecycle
        BY DEF StartIsLast
    <2>1. /\ i + 1 \in DOMAIN q /\ q[i + 1] = "start" /\ i + 1 < j + 1
          /\ j + 1 \in DOMAIN q /\ q[j + 1] = Tail(q)[j]
        BY <1>2 DEF Queues
    <2> QED
        BY <2>1 DEF StartIsLast
<1>3. ASSUME q # <<>>, Head(q) = "start", NEW m \in Lifecycle, Has(Tail(q), m) PROVE FALSE
    <2>1. PICK j \in DOMAIN Tail(q) : Tail(q)[j] = m
        BY <1>3 DEF Has
    <2>2. /\ 1 \in DOMAIN q /\ q[1] = "start" /\ 1 < j + 1
          /\ j + 1 \in DOMAIN q /\ q[j + 1] = m
        BY <1>3, <2>1 DEF Queues
    <2> QED
        BY <1>3, <2>2 DEF StartIsLast
<1>4. ASSUME NEW kinds PROVE StartIsLast(Discard(q, kinds))
    <2>v. "void" \notin Lifecycle /\ "void" # "start"
        BY DEF Lifecycle
    <2> SUFFICES ASSUME NEW i \in DOMAIN q, NEW j \in DOMAIN q, i < j,
                        Discard(q, kinds)[i] = "start", Discard(q, kinds)[j] \in Lifecycle
                 PROVE  FALSE
        BY DEF StartIsLast, Discard
    <2>1. q[i] = "start" /\ q[j] \in Lifecycle
        BY <2>v DEF Discard
    <2> QED
        BY <2>1 DEF StartIsLast
<1> QED
    BY <1>1, <1>2, <1>3, <1>4

\* A step adds to the queue nothing but messages of S.
Gains(S) == \A n : n # "void" /\ Has(mainQ', n) => Has(mainQ, n) \/ n \in S

\* A step keeps the starts behind the other messages of the lifecycle.
Ordered == StartIsLast(mainQ) => StartIsLast(mainQ')

\* Taking a message, and leaving the queue alone.
LEMMA TakeEffect ==
    ASSUME mainQ \in Queues
    PROVE  /\ mainQ' = mainQ => Gains({}) /\ Ordered
           /\ mainQ # <<>> /\ mainQ' = Tail(mainQ) => Gains({}) /\ Ordered
           /\ \A kinds : mainQ' = Discard(mainQ, kinds) =>
                 Gains({}) /\ Ordered /\ \A n \in kinds : n # "void" => ~Has(mainQ', n)
           /\ mainQ # <<>> => \A kinds : mainQ' = Discard(Tail(mainQ), kinds) =>
                 Gains({}) /\ Ordered /\ \A n \in kinds : n # "void" => ~Has(mainQ', n)
<1> USE DEF Gains, Ordered
<1>1. mainQ' = mainQ => Gains({}) /\ Ordered
    OBVIOUS
<1>2. mainQ # <<>> /\ mainQ' = Tail(mainQ) => Gains({}) /\ Ordered
    BY HasOps, OrderOps
<1>3. ASSUME NEW kinds, mainQ' = Discard(mainQ, kinds)
      PROVE  Gains({}) /\ Ordered /\ \A n \in kinds : n # "void" => ~Has(mainQ', n)
    BY <1>3, HasOps, OrderOps
<1>4. ASSUME mainQ # <<>>, NEW kinds, mainQ' = Discard(Tail(mainQ), kinds)
      PROVE  Gains({}) /\ Ordered /\ \A n \in kinds : n # "void" => ~Has(mainQ', n)
    <2>1. Tail(mainQ) \in Queues
        BY <1>4 DEF Queues
    <2>2. \A n : n # "void" /\ Has(mainQ', n) => Has(Tail(mainQ), n) /\ n \notin kinds
        BY <1>4, <2>1, HasOps
    <2>3. StartIsLast(mainQ) => StartIsLast(Tail(mainQ))
        BY <1>4, OrderOps
    <2>4. StartIsLast(mainQ) => StartIsLast(mainQ')
        BY <1>4, <2>1, <2>3, OrderOps
    <2>5. \A n : Has(Tail(mainQ), n) => Has(mainQ, n)
        BY <1>4, HasOps
    <2> QED
        BY <2>2, <2>4, <2>5
<1> QED
    BY <1>1, <1>2, <1>3, <1>4

\* Posting a message.
LEMMA PostEffect ==
    ASSUME mainQ \in Queues, NEW m \in Message, mainQ' = Append(mainQ, m)
    PROVE  Gains({m}) /\ (m \notin Lifecycle \/ ~Has(mainQ, "start") => Ordered)
<1>1. Gains({m})
    BY HasOps DEF Gains
<1>2. m \notin Lifecycle \/ ~Has(mainQ, "start") => Ordered
    BY OrderOps DEF Ordered
<1> QED
    BY <1>1, <1>2

\* The calls of the activity manager.
LEMMA AmEffect ==
    ASSUME mainQ \in Queues
    PROVE  /\ StartService(mainQ) /\ ~Has(mainQ, "start") =>
                 Gains({"create", "start"}) /\ Ordered /\ (up => Gains({"start"}))
           /\ BindService(mainQ) =>
                 /\ Gains({"create"}) /\ (up => Gains({}))
                 /\ ~Has(mainQ, "start") \/ up => Ordered
           /\ \A s, u, y : BringDown(mainQ, s, u, y) =>
                 /\ Gains({"destroy"}) /\ (s => Gains({}))
                 /\ ~Has(mainQ, "start") \/ s => Ordered
<1>m. {"create", "start", "destroy"} \subseteq Message /\ "start" # "create"
    BY DEF Message
<1>1. ASSUME StartService(mainQ), ~Has(mainQ, "start")
      PROVE  Gains({"create", "start"}) /\ Ordered /\ (up => Gains({"start"}))
    <2>1. CASE up
        <3>1. mainQ' = Append(mainQ, "start")
            BY <1>1, <1>m, <2>1, HasOps DEF StartService
        <3> QED
            BY <1>1, <1>m, <3>1, PostEffect DEF Gains
    <2>2. CASE ~up
        <3> DEFINE p == Append(mainQ, "create")
        <3>1. p \in Queues /\ mainQ' = Append(p, "start")
            BY <1>1, <1>m, <2>2, HasOps, QueueOps DEF StartService
        <3>2. \A n : Has(p, n) => Has(mainQ, n) \/ n = "create"
            BY <1>m, HasOps
        <3>3. ~Has(p, "start")
            BY <1>1, <1>m, <3>2
        <3>4. StartIsLast(mainQ) => StartIsLast(p)
            BY <1>1, <1>m, OrderOps
        <3>5. StartIsLast(p) => StartIsLast(mainQ')
            BY <1>m, <3>1, <3>3, OrderOps
        <3>6. \A n : Has(mainQ', n) => Has(p, n) \/ n = "start"
            BY <1>m, <3>1, HasOps
        <3> QED
            BY <2>2, <3>2, <3>4, <3>5, <3>6 DEF Gains, Ordered
    <2> QED
        BY <2>1, <2>2
<1>2. ASSUME BindService(mainQ)
      PROVE  /\ Gains({"create"}) /\ (up => Gains({}))
             /\ ~Has(mainQ, "start") \/ up => Ordered
    <2>1. CASE up
        BY <1>2, <2>1 DEF BindService, Gains, Ordered
    <2>2. CASE ~up
        BY <1>2, <1>m, <2>2, PostEffect DEF BindService
    <2> QED
        BY <2>1, <2>2
<1>3. ASSUME NEW s, NEW u, NEW y, BringDown(mainQ, s, u, y)
      PROVE  /\ Gains({"destroy"}) /\ (s => Gains({}))
             /\ ~Has(mainQ, "start") \/ s => Ordered
    <2>1. CASE up /\ ~s /\ ~u /\ ~y
        BY <1>3, <1>m, <2>1, PostEffect DEF BringDown
    <2>2. CASE ~(up /\ ~s /\ ~u /\ ~y)
        BY <1>3, <2>2 DEF BringDown, Gains, Ordered
    <2> QED
        BY <2>1, <2>2
<1> QED
    BY <1>1, <1>2, <1>3

-----------------------------------------------------------------------------
(* The inductive step. *)

\* What is started or bound is up, whatever the users do.
LEMMA KeptUpStep == KeptUp /\ [Next]_vars => KeptUp'
<1> USE DEF KeptUp, procVars, objVars, threads, amVars, vars
<1>1. ASSUME KeptUp, StartVpn PROVE KeptUp'
    BY <1>1 DEF StartVpn, StartStep, BindService
<1>2. ASSUME KeptUp, Leave PROVE KeptUp'
    BY <1>2 DEF Leave, KillStep, StartService, BringDown
<1>3. ASSUME KeptUp, OnReload PROVE KeptUp'
    BY <1>3 DEF OnReload, StartService
<1>4. ASSUME KeptUp, UiStart \/ UiBind \/ UiUnbind PROVE KeptUp'
    BY <1>4 DEF UiStart, UiBind, UiUnbind, StartService, BindService, BringDown
<1>5. ASSUME KeptUp, System PROVE KeptUp'
    BY <1>5 DEF System, SysUnbind, SysRevoke, Crash, BringDown
<1>6. ASSUME KeptUp, MainThread, ~StartVpn, ~Leave, ~OnReload PROVE KeptUp'
    BY <1>6 DEF MainThread, OnCreate, OnStartCommand, WithProfile, NoProfile, Cancelled,
        OnClose, OnStop, OnDestroy, DropVoid, PreInit, StartEngine, Booted, StartTun2Socks,
        StartStep, ChangeStateConnected, Failed, StopTun2Socks, StopEngine, ClearProtect,
        Release, ChangeStateStopped
<1>7. ASSUME KeptUp, BinderThread \/ Dialer \/ QueryDone \/ (\E a \in Broadcasts : UiBroadcast(a))
      PROVE  KeptUp'
    BY <1>7 DEF BinderThread, RevokeReads, RevokeWrites, Dialer, Dial, ProtectReads,
        ProtectCalls, QueryDone, UiBroadcast
<1> QED
    BY <1>1, <1>2, <1>3, <1>4, <1>5, <1>6, <1>7 DEF Next, User

\* Patience is regained only in a new process.
LEMMA PatienceLost == [Next]_vars /\ patient' => patient \/ Crash
<1> USE DEF procVars, objVars, threads, amVars, vars
<1>1. MainThread => (patient' => patient)
    BY DEF MainThread, OnCreate, OnStartCommand, WithProfile, NoProfile, Cancelled, OnReload,
        OnClose, OnStop, OnDestroy, DropVoid, PreInit, StartVpn, StartEngine, Booted,
        StartTun2Socks, StartStep, ChangeStateConnected, Failed, StopTun2Socks, StopEngine,
        ClearProtect, Release, ChangeStateStopped, Leave
<1>2. BinderThread \/ Dialer \/ QueryDone => (patient' => patient)
    BY DEF BinderThread, RevokeReads, RevokeWrites, Dialer, Dial, ProtectReads, ProtectCalls,
        QueryDone
<1>3. User => (patient' => patient)
    BY DEF User, UiStart, UiBroadcast, UiBind, UiUnbind
<1>4. System => (patient' => patient) \/ Crash
    BY DEF System, SysUnbind, SysRevoke
<1> QED
    BY <1>1, <1>2, <1>3, <1>4 DEF Next

\* Every step keeps what holds under patient users.
LEMMA PatientStep == RInv /\ [Next]_vars /\ patient' => PatientInv'
<1> SUFFICES ASSUME RInv, [Next]_vars, patient' PROVE PatientInv'
    OBVIOUS
<1>t. TypeOK /\ TypeOK' /\ mainQ \in Queues
    BY TypeStep DEF RInv, IInv, TypeOK, Queues
<1>j. JobInv /\ JobInv' /\ StartInv /\ StopInv /\ ProtectedDials
    BY InvStep DEF RInv, IInv
<1>p. patient \/ Crash
    BY PatienceLost
<1>k. KeptUp
    BY DEF RInv
<1>i. patient => PatientInv
    BY DEF RInv
<1> USE DEF PatientInv, LastStartInv, RestInv, ChainInv, Down, Held, KeptUp, Lifecycle,
        JobInv, StartInv, Startup, Kill, objVars, procVars, threads, amVars
<1>c. job \in {"none", "loading", "cancelling", "running"}
    BY <1>t DEF TypeOK, ControlOK
<1>1. CASE OnCreate
    <2>1. Gains({}) /\ Ordered /\ Has(mainQ, "create")
        BY <1>1, <1>t, TakeEffect, HasOps DEF OnCreate, Take
    <2> QED
        BY <1>1, <1>t, <1>i, <1>j, <1>p, <2>1 DEF OnCreate, Take, FreshObject, Gains, Ordered
<1>2. CASE OnStartCommand
    <2>1. Gains({}) /\ Ordered /\ Has(mainQ, "start")
        BY <1>2, <1>t, TakeEffect, HasOps DEF OnStartCommand, Receive, Take
    <2>2. patient => \A m \in Lifecycle : ~Has(mainQ', m)
        BY <1>2, <1>t, <1>i, OrderOps DEF OnStartCommand, Receive, Take
    <2> QED
        BY <1>2, <1>t, <1>i, <1>j, <1>p, <2>1, <2>2
        DEF OnStartCommand, Receive, Take, Gains, Ordered
<1>3. CASE WithProfile
    <2>1. Gains({}) /\ Ordered /\ Has(mainQ, "resume")
        BY <1>3, <1>t, TakeEffect, HasOps DEF WithProfile, Receive, Take
    <2> QED
        BY <1>3, <1>t, <1>i, <1>j, <1>k, <1>p, <2>1 DEF WithProfile, Receive, Take, Gains, Ordered
<1>4. CASE NoProfile
    <2>1. Gains({}) /\ Ordered /\ Has(mainQ, "resume")
        BY <1>4, <1>t, TakeEffect, HasOps DEF NoProfile, Receive, Take
    <2> QED
        BY <1>4, <1>t, <1>i, <1>j, <1>k, <1>p, <2>1 DEF NoProfile, Receive, Take, Gains, Ordered
<1>5. CASE Cancelled
    <2>1. Gains({}) /\ Ordered /\ Has(mainQ, "resume")
        BY <1>5, <1>t, TakeEffect, HasOps DEF Cancelled, Receive, Take
    <2> QED
        BY <1>5, <1>t, <1>i, <1>j, <1>k, <1>p, <2>1 DEF Cancelled, EnterKill, Receive, Take, Gains, Ordered
<1>6. CASE OnClose
    <2>1. Gains({}) /\ Ordered /\ Has(mainQ, "close")
        BY <1>6, <1>t, TakeEffect, HasOps DEF OnClose, Receive, Take
    <2> QED
        BY <1>6, <1>t, <1>i, <1>j, <1>k, <1>p, <2>1 DEF OnClose, StopRunner, StopCoroutine, EnterKill, Receive, Take, Gains, Ordered
<1>7. CASE OnReload
    <2>1. patient'=patient /\ Has(mainQ, "reload")
        BY <1>7, <1>t, HasOps DEF OnReload, Take
    <2> QED
        BY <1>7, <1>i, <1>p, <2>1 DEF OnReload, Crash, Take
<1>8. CASE OnStop
    <2>1. Gains({}) /\ Ordered /\ Has(mainQ, "stop")
        BY <1>8, <1>t, TakeEffect, HasOps DEF OnStop, Receive, Take
    <2> QED
        BY <1>8, <1>t, <1>i, <1>j, <1>k, <1>p, <2>1 DEF OnStop, StopCoroutine, EnterKill, Receive, Take, Gains, Ordered
<1>9. CASE OnDestroy
    <2>1. Gains({}) /\ Ordered /\ Has(mainQ, "destroy")
        BY <1>9, <1>t, TakeEffect, HasOps DEF OnDestroy, Take
    <2> QED
        BY <1>9, <1>t, <1>i, <1>j, <1>k, <1>p, <2>1 DEF OnDestroy, Take, Gains, Ordered
<1>10. CASE DropVoid
    <2>1. Gains({}) /\ Ordered
        BY <1>10, <1>t, TakeEffect, HasOps DEF DropVoid, Receive, Take
    <2> QED
        BY <1>10, <1>t, <1>i, <1>j, <1>k, <1>p, <2>1 DEF DropVoid, Receive, Take, Gains, Ordered
<1>11. CASE PreInit
    <2>1. Gains({}) /\ Ordered
        BY <1>11, <1>t, TakeEffect DEF PreInit, StartStep
    <2> QED
        BY <1>11, <1>t, <1>i, <1>j, <1>k, <1>p, <2>1 DEF PreInit, StartStep, Gains, Ordered
<1>12. CASE StartVpn
    <2>1. patient /\ up /\ Gains({}) /\ Ordered
        BY <1>12, <1>t, <1>i, <1>j, <1>k, <1>p, TakeEffect, AmEffect
        DEF StartVpn, StartStep, Crash
    <2> QED
        BY <1>12, <1>t, <1>i, <1>j, <2>1 DEF StartVpn, StartStep, Gains, Ordered
<1>13. CASE StartEngine
    <2>1. Gains({}) /\ Ordered
        BY <1>13, <1>t, TakeEffect DEF StartEngine, StartStep
    <2> QED
        BY <1>13, <1>t, <1>i, <1>j, <1>k, <1>p, <2>1 DEF StartEngine, StartStep, Gains, Ordered
<1>14. CASE Booted
    <2>1. Gains({}) /\ Ordered
        BY <1>14, <1>t, TakeEffect DEF Booted, StartStep
    <2> QED
        BY <1>14, <1>t, <1>i, <1>j, <1>k, <1>p, <2>1 DEF Booted, StartStep, Gains, Ordered
<1>15. CASE StartTun2Socks
    <2>1. Gains({}) /\ Ordered
        BY <1>15, <1>t, TakeEffect DEF StartTun2Socks, StartStep
    <2> QED
        BY <1>15, <1>t, <1>i, <1>j, <1>k, <1>p, <2>1 DEF StartTun2Socks, StartStep, Gains, Ordered
<1>16. CASE ChangeStateConnected
    <2>1. Gains({}) /\ Ordered
        BY <1>16, <1>t, TakeEffect DEF ChangeStateConnected
    <2> QED
        BY <1>16, <1>t, <1>i, <1>j, <1>k, <1>p, <2>1 DEF ChangeStateConnected, Gains, Ordered
<1>17. CASE Failed
    <2>1. Gains({}) /\ Ordered
        BY <1>17, <1>t, TakeEffect DEF Failed, StopRunner, StopCoroutine, EnterKill
    <2> QED
        BY <1>17, <1>t, <1>i, <1>j, <1>k, <1>p, <2>1 DEF Failed, StopRunner, StopCoroutine, EnterKill, Gains, Ordered
<1>18. CASE StopTun2Socks
    <2>1. Gains({}) /\ Ordered
        BY <1>18, <1>t, TakeEffect DEF StopTun2Socks, KillStep
    <2> QED
        BY <1>18, <1>t, <1>i, <1>j, <1>k, <1>p, <2>1 DEF StopTun2Socks, KillStep, Gains, Ordered
<1>19. CASE StopEngine
    <2>1. Gains({}) /\ Ordered
        BY <1>19, <1>t, TakeEffect DEF StopEngine, KillStep
    <2> QED
        BY <1>19, <1>t, <1>i, <1>j, <1>k, <1>p, <2>1 DEF StopEngine, KillStep, Gains, Ordered
<1>20. CASE ClearProtect
    <2>1. Gains({}) /\ Ordered
        BY <1>20, <1>t, TakeEffect DEF ClearProtect, KillStep
    <2> QED
        BY <1>20, <1>t, <1>i, <1>j, <1>k, <1>p, <2>1 DEF ClearProtect, KillStep, Gains, Ordered
<1>21. CASE Release
    <2>1. Gains({}) /\ Ordered
        BY <1>21, <1>t, TakeEffect DEF Release
    <2> QED
        BY <1>21, <1>t, <1>i, <1>j, <1>k, <1>p, <2>1 DEF Release, KillStep, Gains, Ordered
<1>22. CASE ChangeStateStopped
    <2>1. Gains({}) /\ Ordered
        BY <1>22, <1>t, TakeEffect DEF ChangeStateStopped, KillStep
    <2> QED
        BY <1>22, <1>t, <1>i, <1>j, <1>k, <1>p, <2>1 DEF ChangeStateStopped, KillStep, Gains, Ordered
<1>23. CASE Leave
    <2>1. patient /\ Down /\ ~restart /\ ~Has(mainQ, "start")
        BY <1>23, <1>i, <1>p DEF Leave, KillStep, Crash
    <2>2. Gains({"destroy"}) /\ Ordered
        BY <1>23, <1>t, <2>1, AmEffect DEF Leave
    <2> QED
        BY <1>23, <1>c, <1>i, <1>j, <2>1, <2>2 DEF Leave, KillStep, StopInv, Gains, Ordered
<1>24. CASE RevokeReads
    <2>1. Gains({}) /\ Ordered
        BY <1>24, <1>t, TakeEffect DEF RevokeReads
    <2> QED
        BY <1>24, <1>t, <1>i, <1>j, <1>k, <1>p, <2>1 DEF RevokeReads, Gains, Ordered
<1>25. CASE RevokeWrites
    <2>1. Gains({"stop"}) /\ Ordered
        BY <1>25, <1>t, PostEffect DEF RevokeWrites, Message
    <2> QED
        BY <1>25, <1>t, <1>i, <1>j, <1>p, <2>1 DEF RevokeWrites, Gains, Ordered
<1>26. CASE QueryDone
    <2>1. Gains({"resume"}) /\ Ordered
        BY <1>26, <1>t, PostEffect DEF QueryDone, Message
    <2> QED
        BY <1>26, <1>t, <1>i, <1>j, <1>p, <2>1 DEF QueryDone, Gains, Ordered
<1>27. CASE UiStart
    <2>1. patient /\ Settled
        BY <1>27, <1>t, <1>p DEF UiStart, Crash
    <2>2. \A m \in {"start", "close", "reload", "resume", "stop"} : ~Has(mainQ, m)
        BY <2>1 DEF Settled, Queued, Has
    <2>3. Gains({"create", "start"}) /\ Ordered
        BY <1>27, <1>t, <2>2, AmEffect DEF UiStart
    <2> QED
        BY <1>27, <1>c, <1>i, <1>j, <1>k, <2>1, <2>2, <2>3
        DEF UiStart, StartService, Settled, Gains, Ordered
<1>28. ASSUME NEW a \in Broadcasts, UiBroadcast(a) PROVE PatientInv'
    <2>1. a \in {"close", "reload"} /\ a \in Message
        BY BroadcastAssumption DEF Message
    <2>2. Gains({a}) /\ Ordered
        BY <1>28, <1>t, <2>1, PostEffect DEF UiBroadcast
    <2>3. patient /\ a # "reload"
        BY <1>28, <1>t, <1>p DEF UiBroadcast, Crash
    <2> QED
        BY <1>28, <1>t, <1>i, <1>j, <2>1, <2>2, <2>3 DEF UiBroadcast, Gains, Ordered
<1>29. CASE UiBind
    <2>1. patient /\ (~up \/ Gains({})) /\ Gains({"create"}) /\ Ordered
        BY <1>29, <1>t, <1>i, <1>k, <1>p, AmEffect DEF UiBind, Crash
    <2> QED
        BY <1>29, <1>t, <1>i, <1>j, <1>k, <2>1 DEF UiBind, BindService, Gains, Ordered
<1>30. CASE UiUnbind
    <2>1. patient /\ Gains({"destroy"}) /\ (started => Gains({})) /\ Ordered
        BY <1>30, <1>t, <1>i, <1>p, AmEffect DEF UiUnbind, Crash
    <2> QED
        BY <1>30, <1>t, <1>i, <1>j, <2>1 DEF UiUnbind, BringDown, Gains, Ordered
<1>31. CASE SysUnbind
    <2>1. patient /\ Gains({"destroy"}) /\ (started => Gains({})) /\ Ordered
        BY <1>31, <1>t, <1>i, <1>p, AmEffect DEF SysUnbind, Crash
    <2> QED
        BY <1>31, <1>t, <1>i, <1>j, <2>1 DEF SysUnbind, BringDown, Gains, Ordered
<1>32. CASE SysRevoke
    <2>1. patient /\ Gains({"destroy"}) /\ (started => Gains({})) /\ Ordered
        BY <1>32, <1>t, <1>i, <1>p, AmEffect DEF SysRevoke, Crash
    <2> QED
        BY <1>32, <1>t, <1>i, <1>j, <2>1 DEF SysRevoke, BringDown, Gains, Ordered
<1>33. CASE Crash
    <2>1. \A n : Has(mainQ', n) => n = "create"
        BY <1>33 DEF Crash, Has
    <2>2. StartIsLast(mainQ')
        BY <1>33 DEF Crash, StartIsLast
    <2> QED
        BY <1>33, <1>t, <2>1, <2>2 DEF Crash, FreshObject
<1>34. CASE UNCHANGED vars
    BY <1>34, <1>i, <1>p DEF vars, Crash
<1>35. CASE Dialer
    <2>1. Gains({}) /\ Ordered
        BY <1>35, <1>t, TakeEffect DEF Dialer, Dial, ProtectReads, ProtectCalls
    <2>2. UNCHANGED <<objVars, procVars, pc, revoke, amVars>>
        BY <1>35 DEF Dialer, Dial, ProtectReads, ProtectCalls
    <2>3. patient
        BY <2>2
    <2> QED
        BY <1>i, <2>1, <2>2, <2>3 DEF Gains, Ordered
<1> QED
    BY <1>1, <1>2, <1>3, <1>4, <1>5, <1>6, <1>7, <1>8, <1>9, <1>10, <1>11, <1>12,
       <1>13, <1>14, <1>15, <1>16, <1>17, <1>18, <1>19, <1>20, <1>21, <1>22, <1>23, <1>24,
       <1>25, <1>26, <1>27, <1>28, <1>29, <1>30, <1>31, <1>32, <1>33, <1>34, <1>35
    DEF Next, MainThread, BinderThread, User, System

\* The initial state satisfies the invariant, and every step keeps it.
LEMMA RInvInit == Init => RInv
<1> SUFFICES ASSUME Init PROVE RInv
    OBVIOUS
<1>1. IInv
    BY InvInit
<1>2. (\A m : ~Has(mainQ, m)) /\ StartIsLast(mainQ)
    BY DEF Init, Has, StartIsLast
<1> QED
    BY <1>1, <1>2 DEF Init, RInv, KeptUp, PatientInv, LastStartInv, RestInv, ChainInv, Down, Held

LEMMA RInvStep == RInv /\ [Next]_vars => RInv'
    BY InvStep, KeptUpStep, PatientStep DEF RInv

-----------------------------------------------------------------------------
(* The refinement. *)

\* When a set of resources is a chain.
LEMMA ChainOf ==
    ASSUME NEW H \in SUBSET {"network", "tun", "protect", "engine", "tun2socks"},
           "tun" \in H => "network" \in H, "protect" \in H => "tun" \in H,
           "engine" \in H => "protect" \in H, "tun2socks" \in H => "engine" \in H
    PROVE  Session!Chain(H)
<1> DEFINE R == Session!Rank
<1>1. R["network"] = 1 /\ R["tun"] = 2 /\ R["protect"] = 3 /\ R["engine"] = 4 /\ R["tun2socks"] = 5
    BY DEF Session!Rank
<1>2. Session!All = {"network", "tun", "protect", "engine", "tun2socks"}
    BY DEF Session!All, Session!Rank
<1>3. ASSUME NEW r \in H, NEW s \in Session!All, R[s] < R[r] PROVE s \in H
    BY <1>1, <1>2, <1>3
<1> QED
    BY <1>3 DEF Session!Chain

\* The resources of the next state are a chain.
LEMMA ResourcesChain == PatientInv' => Session!Chain(Resources')
<1>1. /\ Resources' \in SUBSET {"network", "tun", "protect", "engine", "tun2socks"}
      /\ "network" \in Resources' <=> netCb'
      /\ "tun" \in Resources' <=> conn'
      /\ "protect" \in Resources' <=> protect'
      /\ "engine" \in Resources' <=> engine' # "off"
      /\ "tun2socks" \in Resources' <=> t2s'
    BY DEF Resources
<1> QED
    BY <1>1, ChainOf DEF PatientInv, ChainInv

\* What a step of the service may do to the phase of the session and its resources.
Move ==
    \/ UNCHANGED <<Phase, Resources>>
    \/ Phase = "down" /\ Phase' = "opening" /\ UNCHANGED Resources
    \/ Phase = "opening" /\ UNCHANGED Phase
       /\ (Resources \subseteq Resources' \/ Resources' \subseteq Resources)
    \/ Phase = "opening" /\ Phase' = "open" /\ UNCHANGED Resources
       /\ conn /\ netCb /\ protect /\ engine # "off" /\ t2s
    \/ Phase' = "closing" /\ UNCHANGED Resources
    \/ Phase = "closing" /\ UNCHANGED Phase /\ Resources' \subseteq Resources
    \/ Phase' = "down" /\ Resources' = {}

\* A move is a step of the abstract session.
LEMMA MoveIsStep ==
    ASSUME patient, patient', PatientInv', Move
    PROVE  [Session!Next]_(Session!vars)
<1>1. Session!Chain(Resources')
    BY ResourcesChain
<1>2. conn /\ netCb /\ protect /\ engine # "off" /\ t2s => Resources = Session!All
    BY DEF Resources, Session!All, Session!Rank
<1> QED
    BY <1>1, <1>2 DEF Move, Session!Next, Session!vars, Session!Open, Session!Acquire,
       Session!Serve, Session!Close, Session!Release, Session!Done, Session!Die

\* Every step of the service under patient users is a move.
LEMMA StepIsMove == RInv /\ [Next]_vars /\ patient /\ patient' => Move
<1> SUFFICES ASSUME RInv, [Next]_vars, patient, patient' PROVE Move
    OBVIOUS
<1>i. PatientInv /\ JobInv /\ StartInv /\ mainQ \in Queues
    BY DEF RInv, IInv, TypeOK, Queues
<1>r. PatientInv' /\ JobInv' /\ StartInv'
    BY RInvStep DEF RInv, IInv
<1>h. ASSUME NEW m, Take(m) PROVE Has(mainQ, m)
    BY <1>h, <1>i, HasOps DEF Take
<1>f. Down => Resources = {} /\ ~instance
    BY DEF Down, Held, Resources
<1> USE DEF Move, Phase, Startup, Kill, objVars, procVars, threads, amVars
<1>s. ASSUME UNCHANGED <<state, instance, conn, procVars, pc>> PROVE Move
    BY <1>s DEF Resources
<1>1. CASE OnCreate
    <2>1. Has(mainQ, "create") /\ pc = "idle" /\ Down
        BY <1>1, <1>h, <1>i DEF OnCreate, Take, PatientInv, RestInv
    <2>2. Down'
        BY <1>1, <2>1 DEF OnCreate, FreshObject, Down, Held
    <2>3. Resources' = {} /\ ~instance'
        BY <2>2 DEF Down, Held, Resources
    <2> QED
        BY <1>1, <2>1, <2>3 DEF OnCreate
<1>2. CASE OnStartCommand
    <2>1. pc = "idle" /\ pc' = "idle" /\ UNCHANGED <<instance, Resources>>
        BY <1>2 DEF OnStartCommand, Receive, Take, Resources
    <2>2. state = "Stopped" => ~instance
        BY <2>1, <1>i DEF PatientInv, RestInv, Down
    <2> QED
        BY <1>2, <2>1, <2>2 DEF OnStartCommand
<1>3. CASE WithProfile
    BY <1>3, <1>i DEF WithProfile, Receive, Take, Resources, PatientInv, RestInv, Down
<1>4. CASE NoProfile
    BY <1>4, <1>i DEF NoProfile, Receive, Take, Resources, PatientInv, RestInv, Down
<1>5. CASE Cancelled
    BY <1>5, <1>i DEF Cancelled, EnterKill, Receive, Take, Resources
<1>6. CASE OnClose
    BY <1>6, <1>i DEF OnClose, StopRunner, StopCoroutine, EnterKill, Receive, Take, Resources,
       PatientInv, RestInv, Down
<1>7. CASE OnReload
    BY <1>7, <1>h, <1>i DEF OnReload, PatientInv
<1>8. CASE OnStop
    BY <1>8, <1>i DEF OnStop, StopCoroutine, EnterKill, Receive, Take, Resources,
       PatientInv, RestInv, Down
<1>9. CASE OnDestroy
    <2>1. Has(mainQ, "destroy") /\ pc = "idle" /\ Down
        BY <1>9, <1>h, <1>i DEF OnDestroy, Take, PatientInv, RestInv
    <2>2. Down'
        BY <1>9, <2>1 DEF OnDestroy, Down, Held
    <2>3. Resources' = {} /\ ~instance'
        BY <2>2 DEF Down, Held, Resources
    <2> QED
        BY <1>9, <2>1, <2>3 DEF OnDestroy
<1>10. CASE DropVoid
    BY <1>10, <1>s DEF DropVoid
<1>11. CASE PreInit
    BY <1>11 DEF PreInit, StartStep, Resources
<1>12. CASE StartVpn
    BY <1>12 DEF StartVpn, StartStep, Resources
<1>13. CASE StartEngine
    BY <1>13 DEF StartEngine, StartStep, Resources
<1>14. CASE Booted
    BY <1>14 DEF Booted, StartStep, Resources
<1>15. CASE StartTun2Socks
    BY <1>15 DEF StartTun2Socks, StartStep, Resources
<1>16. CASE ChangeStateConnected
    BY <1>16, <1>i DEF ChangeStateConnected, Resources, StartInv, PatientInv, ChainInv
<1>17. CASE Failed
    <2>1. pc = "failed" /\ UNCHANGED <<instance, Resources>>
        BY <1>17 DEF Failed, Resources
    <2>2. ~instance => Resources = {}
        BY <1>i, <2>1 DEF PatientInv, ChainInv, Resources
    <2>3. pc' \in {"idle", "stopTun2Socks", "release"} /\ state' = "Stopping"
        BY <1>17, <1>i, <2>1 DEF Failed, StopRunner, StopCoroutine, EnterKill, JobInv
    <2> QED
        BY <2>1, <2>2, <2>3
<1>18. CASE StopTun2Socks
    BY <1>18 DEF StopTun2Socks, KillStep, Resources
<1>19. CASE StopEngine
    BY <1>19 DEF StopEngine, KillStep, Resources
<1>20. CASE ClearProtect
    BY <1>20 DEF ClearProtect, KillStep, Resources
<1>21. CASE Release
    BY <1>21 DEF Release, KillStep, Resources
<1>22. CASE ChangeStateStopped
    BY <1>22, <1>i, <1>f DEF ChangeStateStopped, KillStep, Resources, PatientInv, ChainInv
<1>23. CASE Leave
    BY <1>23, <1>i, <1>f DEF Leave, KillStep, Resources, PatientInv, ChainInv
<1>25. CASE RevokeWrites
    BY <1>25 DEF RevokeWrites, Resources
<1>33. CASE Crash
    BY <1>33 DEF Crash, FreshObject, Resources
<1>36. CASE RevokeReads \/ QueryDone \/ Dialer
    BY <1>36, <1>s DEF RevokeReads, QueryDone, Dialer, Dial, ProtectReads, ProtectCalls
<1>37. CASE User \/ SysUnbind \/ SysRevoke
    BY <1>37, <1>s DEF User, UiStart, UiBroadcast, UiBind, UiUnbind, SysUnbind, SysRevoke
<1>34. CASE UNCHANGED vars
    BY <1>34, <1>s DEF vars
<1> QED
    BY <1>1, <1>2, <1>3, <1>4, <1>5, <1>6, <1>7, <1>8, <1>9, <1>10, <1>11, <1>12,
       <1>13, <1>14, <1>15, <1>16, <1>17, <1>18, <1>19, <1>20, <1>21, <1>22, <1>23, <1>25,
       <1>33, <1>34, <1>36, <1>37
    DEF Next, MainThread, BinderThread, System

\* Every step of the service is a step of the abstract session, or none.
LEMMA SessionStep == RInv /\ [Next]_vars => [Session!Next]_(Session!vars)
<1> SUFFICES ASSUME RInv, [Next]_vars PROVE [Session!Next]_(Session!vars)
    OBVIOUS
<1>1. CASE patient /\ patient'
    <2>1. PatientInv' /\ Move
        BY <1>1, PatientStep, StepIsMove
    <2> QED
        BY <1>1, <2>1, MoveIsStep
<1>2. CASE ~patient'
    BY <1>2 DEF Session!Next, Session!Die
<1>3. CASE ~patient /\ patient'
    <2>1. Crash
        BY <1>3, PatienceLost
    <2>2. Phase' = "down" /\ Resources' = {}
        BY <2>1 DEF Crash, FreshObject, Phase, Resources, Startup, Kill
    <2> QED
        BY <2>2 DEF Session!Next, Session!Die
<1> QED
    BY <1>1, <1>2, <1>3

-----------------------------------------------------------------------------
(* The theorems. *)

\* RInv holds in every state, for every queue bound and set of broadcasts.
THEOREM PatientInvariance == Spec => []RInv
<1>1. Init => RInv
    BY RInvInit
<1>2. RInv /\ [Next]_vars => RInv'
    BY RInvStep
<1> QED
    BY <1>1, <1>2, PTL DEF Spec

\* No session outlives its end while users wait for Stopped before they start again
\* and reload nothing: a service at rest in Stopped, or gone, holds nothing
\* (BaseService.stopRunner and onDestroy, VpnService.killProcesses).
THEOREM SessionsAreReleased == Spec => []ReleasedWhenOver
<1>1. RInv => ReleasedWhenOver
    BY DEF RInv, PatientInv, RestInv, Down, ReleasedWhenOver, StoppedIsReleased,
       DestroyedIsReleased
<1> QED
    BY <1>1, PatientInvariance, PTL

\* The service implements the abstract session: the chain of resources is taken up
\* link by link, given back from its end, and complete whenever a session is open.
THEOREM Refinement == Spec => ImplementsSession
<1>1. Init => Session!Init
    BY DEF Init, Session!Init, Phase, Resources, Startup, Kill
<1>2. RInv /\ [Next]_vars => [Session!Next]_(Session!vars)
    BY SessionStep
<1> QED
    BY <1>1, <1>2, PatientInvariance, PTL DEF Spec, ImplementsSession, Session!Spec
=============================================================================
