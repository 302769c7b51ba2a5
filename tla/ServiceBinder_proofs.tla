-------------------------- MODULE ServiceBinder_proofs -------------------------
(***************************************************************************)
(* What the binder of the VPN service promises to the activities, for any  *)
(* number of them, of queued tasks and of deaths of the service: one loop  *)
(* while somebody listens, and a connected activity that shows the state   *)
(* the service rests in.                                                   *)
(*                                                                         *)
(* InSync needs to know what is going on while the service does not rest:  *)
(* why an activity that shows something else is sure to be told again      *)
(* (UpInv), how far a connecting one can rely on what it has read          *)
(* (ConnectingInv), and that a revocation under way has met no stop that   *)
(* would answer it too early (CalmInv).                                    *)
(***************************************************************************)
EXTENDS ServiceBinder, TLAPS

\* A task of this kind is queued.
Pending(q, k) == \E i \in DOMAIN q : q[i].kind = k

\* The broadcast onRevoke launched comes before its stop coroutine, and there is one of
\* each at most.
RevokeOrder(q) ==
    \A i, j \in DOMAIN q :
        /\ q[i].kind = "stop" /\ q[j].kind = "stop" => i = j
        /\ q[i].kind = "stop" /\ q[j].kind = "notify" => j < i

QueueInv ==
    /\ RevokeOrder(tasks)
    /\ Pending(tasks, "stop") => revoke = "idle"
    /\ Pending(tasks, "notify") => revoke # "idle" \/ Pending(tasks, "stop")

\* A revocation is under way whose stop coroutine has not begun.
RevokePending == revoke # "idle" \/ Pending(tasks, "stop")

\* The clients the service talks to, and those that nothing has disturbed.
Registered == {c \in Clients : conn[c] \in {"registered", "read", "up"}}
Calm == Registered \ raced

\* The revocation has met no stop: what will answer it is its own stop coroutine.
CalmInv ==
    Calm # {} /\ RevokePending =>
        ~stopping /\ state # "Stopped" /\ announced \notin {"Stopping", "Stopped"}

\* While a client connects undisturbed nothing is announced, and what it read is current.
ConnectingInv ==
    \A c \in Calm : conn[c] # "up" =>
        /\ announced = "none" /\ revoke # "assigned" /\ ~Pending(tasks, "stop")
        /\ conn[c] = "read" => read[c] = state

\* A connected client shows what was announced last, or will be told of Stopped.
Shows(c) == shown[c] = IF announced = "none" THEN state ELSE announced
UpInv == \A c \in Calm : conn[c] = "up" => Shows(c) \/ RevokePending \/ stopping

BInv ==
    /\ TypeOK /\ LoopsMatchListeners
    /\ Registered \subseteq callbacks
    /\ QueueInv /\ CalmInv /\ ConnectingInv /\ UpInv

-----------------------------------------------------------------------------
(* The queue of the main thread. *)

\* What the queue may be.
Queues == Seq(Task)

\* The operations on a queue keep its type.
LEMMA QueueOps ==
    ASSUME NEW q \in Queues
    PROVE  /\ \A t \in Task : Append(q, t) \in Queues
           /\ q # <<>> => Tail(q) \in Queues /\ Head(q) \in Task
    BY DEF Queues

\* Posting a task of kind k.
LEMMA PostOps ==
    ASSUME NEW q \in Queues, NEW t \in Task
    PROVE  /\ \A k : Pending(q, k) => Pending(Append(q, t), k)
           /\ \A k : Pending(Append(q, t), k) => Pending(q, k) \/ t.kind = k
           /\ Pending(Append(q, t), t.kind)
           /\ RevokeOrder(q) /\ t.kind \in {"listen", "unlisten"} => RevokeOrder(Append(q, t))
           /\ RevokeOrder(q) /\ ~Pending(q, "stop") => RevokeOrder(Append(q, t))
<1> DEFINE p == Append(q, t)
<1>d. /\ DOMAIN p = 1..(Len(q) + 1) /\ DOMAIN q = 1..Len(q) /\ Len(q) \in Nat
      /\ p[Len(q) + 1] = t /\ \A i \in DOMAIN q : p[i] = q[i]
    BY DEF Queues
<1> HIDE DEF p
<1>1. \A i \in DOMAIN p : i = Len(q) + 1 \/ i \in DOMAIN q
    BY <1>d
<1>2. \A k : Pending(q, k) => Pending(p, k)
    BY <1>d DEF Pending
<1>3. \A k : Pending(p, k) => Pending(q, k) \/ t.kind = k
    BY <1>d, <1>1 DEF Pending
<1>4. Pending(p, t.kind)
    BY <1>d DEF Pending
<1>5. RevokeOrder(q) /\ (t.kind \in {"listen", "unlisten"} \/ ~Pending(q, "stop")) => RevokeOrder(p)
    BY <1>d, <1>1 DEF RevokeOrder, Pending
<1> QED
    BY <1>2, <1>3, <1>4, <1>5 DEF p

\* Taking the first task.
LEMMA TakeOps ==
    ASSUME NEW q \in Queues, q # <<>>
    PROVE  /\ Pending(q, Head(q).kind)
           /\ \A k : Pending(Tail(q), k) => Pending(q, k)
           /\ \A k : Pending(q, k) => Pending(Tail(q), k) \/ Head(q).kind = k
           /\ RevokeOrder(q) => RevokeOrder(Tail(q))
           /\ RevokeOrder(q) /\ Head(q).kind = "stop" =>
                 ~Pending(Tail(q), "stop") /\ ~Pending(Tail(q), "notify")
<1> DEFINE p == Tail(q)
<1>d. /\ DOMAIN p = 1..(Len(q) - 1) /\ DOMAIN q = 1..Len(q) /\ Len(q) \in Nat \ {0}
      /\ q[1] = Head(q) /\ \A i \in DOMAIN p : p[i] = q[i + 1]
    BY DEF Queues
<1> HIDE DEF p
<1>1. \A i \in DOMAIN p : i + 1 \in DOMAIN q /\ i \in Nat \ {0}
    BY <1>d
<1>2. Pending(q, Head(q).kind)
    BY <1>d DEF Pending
<1>3. ASSUME NEW k, Pending(p, k) PROVE Pending(q, k)
    BY <1>d, <1>1, <1>3 DEF Pending
<1>4. ASSUME NEW k, Pending(q, k), Head(q).kind # k PROVE Pending(p, k)
    <2>1. PICK i \in DOMAIN q : q[i].kind = k
        BY <1>4 DEF Pending
    <2>2. i - 1 \in DOMAIN p /\ p[i - 1] = q[i]
        BY <1>d, <1>4, <2>1
    <2> QED
        BY <2>1, <2>2 DEF Pending
<1>5. ASSUME RevokeOrder(q) PROVE RevokeOrder(p)
    <2> SUFFICES ASSUME NEW i \in DOMAIN p, NEW j \in DOMAIN p, p[i].kind = "stop"
                 PROVE  /\ p[j].kind = "stop" => i = j
                        /\ p[j].kind = "notify" => j < i
        BY DEF RevokeOrder
    <2>1. i + 1 \in DOMAIN q /\ j + 1 \in DOMAIN q /\ i \in Nat /\ j \in Nat
        BY <1>1
    <2>2. p[i] = q[i + 1] /\ p[j] = q[j + 1]
        BY <1>d
    <2> QED
        BY <1>5, <2>1, <2>2 DEF RevokeOrder
<1>6. ASSUME RevokeOrder(q), Head(q).kind = "stop", NEW j \in DOMAIN p,
             p[j].kind \in {"stop", "notify"}
      PROVE  FALSE
    <2>1. j + 1 \in DOMAIN q /\ j \in Nat \ {0} /\ p[j] = q[j + 1]
        BY <1>d, <1>1
    <2>2. 1 \in DOMAIN q /\ q[1].kind = "stop"
        BY <1>d, <1>6
    <2> QED
        BY <1>6, <2>1, <2>2 DEF RevokeOrder
<1> QED
    BY <1>2, <1>3, <1>4, <1>5, <1>6 DEF p, Pending

-----------------------------------------------------------------------------
(* The types. *)

\* Which tasks there are.
LEMMA Tasks ==
    /\ \A c \in Clients : [kind |-> "listen", of |-> c] \in Task
    /\ \A c \in Clients : [kind |-> "unlisten", of |-> c] \in Task
    /\ [kind |-> "notify", of |-> "Stopping"] \in Task
    /\ [kind |-> "stop", of |-> "service"] \in Task
    BY DEF Task, State

\* What they are about.
LEMMA TaskOf ==
    ASSUME NEW t \in Task
    PROVE  /\ t.kind \in {"listen", "unlisten"} => t.of \in Clients
           /\ t.kind = "notify" => t.of \in State
    BY DEF Task

\* Every step keeps the types, and one loop while somebody listens.
LEMMA TypeStep ==
    TypeOK /\ LoopsMatchListeners /\ [Next]_vars => TypeOK' /\ LoopsMatchListeners'
<1> SUFFICES ASSUME TypeOK, LoopsMatchListeners, [Next]_vars
             PROVE  TypeOK' /\ LoopsMatchListeners'
    OBVIOUS
<1>q. tasks \in Queues
    BY DEF TypeOK, Queues
<1>n. MaxCrash \in Nat /\ <<>> \in Queues
    BY BoundAssumption DEF Queues
<1> DEFINE Rest ==
        /\ state \in State /\ announced \in State \cup {"none"}
        /\ stopping \in BOOLEAN /\ revoke \in {"idle", "launched", "assigned"}
        /\ callbacks \subseteq Clients /\ listeners \subseteq Clients /\ loops \in Nat
        /\ conn \in [Clients -> {"new", "bound", "registered", "read", "up", "lost", "gone"}]
        /\ read \in [Clients -> State \cup {"Idle"}] /\ shown \in [Clients -> State \cup {"Idle"}]
        /\ crashes \in 0..MaxCrash /\ raced \subseteq Clients
<1>t. Rest /\ LoopsMatchListeners
    BY DEF TypeOK
<1> SUFFICES Rest' /\ tasks' \in Queues /\ LoopsMatchListeners'
    BY DEF TypeOK, Queues
<1> USE DEF LoopsMatchListeners, service, bandwidth, client, Connecting, Disturbed
<1>1. CASE Assign
    BY <1>1, <1>q, <1>t DEF Assign
<1>2. CASE Start \/ Serve \/ Stop \/ Stopped
    BY <1>2, <1>q, <1>t DEF Start, Serve, Stop, Stopped, Announce, Broadcast, State
<1>3. ASSUME NEW k, Take(k)
      PROVE  tasks' \in Queues /\ Head(tasks) \in Task /\ Head(tasks).kind = k
    BY <1>3, <1>q, QueueOps DEF Take
<1>4. CASE TaskListen
    <2>t. Take("listen")
        BY <1>4 DEF TaskListen
    <2>h. tasks' \in Queues /\ Head(tasks) \in Task /\ Head(tasks).kind = "listen"
        BY <1>3, <2>t
    <2>1. Head(tasks).of \in Clients /\ tasks' \in Queues
        BY <2>h, TaskOf
    <2>2. LoopsMatchListeners' /\ loops' \in Nat /\ listeners' \subseteq Clients
        BY <1>4, <1>t, <2>1 DEF TaskListen
    <2> QED
        BY <1>4, <1>t, <2>1, <2>2 DEF TaskListen
<1>5. CASE TaskUnlisten
    BY <1>5, <1>3, <1>t DEF TaskUnlisten
<1>6. CASE TaskNotify
    <2>t. Take("notify")
        BY <1>6 DEF TaskNotify
    <2>h. tasks' \in Queues /\ Head(tasks) \in Task /\ Head(tasks).kind = "notify"
        BY <1>3, <2>t
    <2>1. Head(tasks).of \in State /\ tasks' \in Queues
        BY <2>h, TaskOf
    <2>2. shown' \in [Clients -> State \cup {"Idle"}]
        BY <1>6, <1>t, <2>1 DEF TaskNotify, Broadcast
    <2> QED
        BY <1>6, <1>t, <2>1, <2>2 DEF TaskNotify
<1>7. CASE TaskStop
    BY <1>7, <1>3, <1>t DEF TaskStop
<1>8. CASE RevokeLaunch
    BY <1>8, <1>q, <1>t, Tasks, QueueOps DEF RevokeLaunch
<1>9. CASE RevokeAssign
    BY <1>9, <1>q, <1>t DEF RevokeAssign, State
<1>10. CASE RevokeStop
    BY <1>10, <1>q, <1>t, Tasks, QueueOps DEF RevokeStop
<1>11. ASSUME NEW c \in Clients, Activity(c)
       PROVE  Rest' /\ tasks' \in Queues /\ LoopsMatchListeners'
    <2>1. CASE Register(c)
        BY <2>1, <1>q, <1>t, Tasks, QueueOps DEF Register, Goto
    <2>2. CASE Disconnect(c)
        BY <2>2, <1>q, <1>t, Tasks, QueueOps DEF Disconnect, Goto
    <2>3. CASE ReadState(c) \/ ShowState(c)
        BY <2>3, <1>q, <1>t DEF ReadState, ShowState, Goto
    <2>4. CASE Bind(c) \/ ClientDies(c) \/ Lost(c)
        BY <2>4, <1>q, <1>t DEF Bind, ClientDies, Lost, Goto
    <2> QED
        BY <1>11, <2>1, <2>2, <2>3, <2>4 DEF Activity
<1>12. CASE Destroy
    BY <1>12, <1>n, <1>t DEF Destroy, Fresh, State
<1>13. CASE Crash
    <2>1. crashes' \in 0..MaxCrash
        BY <1>13, <1>n, <1>t DEF Crash
    <2> QED
        BY <1>13, <1>n, <1>t, <2>1 DEF Crash, Fresh, State
<1>14. CASE UNCHANGED vars
    BY <1>14, <1>q, <1>t DEF vars
<1> QED
    BY <1>1, <1>2, <1>4, <1>5, <1>6, <1>7, <1>8, <1>9, <1>10, <1>11, <1>12, <1>13, <1>14
    DEF Next, MainThread, BinderThread

-----------------------------------------------------------------------------
(* The inductive step. *)

\* Every step keeps the invariant.
LEMMA InvStep == BInv /\ [Next]_vars => BInv'
<1> SUFFICES ASSUME BInv, [Next]_vars PROVE BInv'
    OBVIOUS
<1>t. TypeOK /\ TypeOK' /\ LoopsMatchListeners'
    BY TypeStep DEF BInv
<1>q. tasks \in Queues
    BY <1>t DEF TypeOK, Queues
<1>c. conn \in [Clients -> {"new", "bound", "registered", "read", "up", "lost", "gone"}]
      /\ shown \in [Clients -> State \cup {"Idle"}] /\ read \in [Clients -> State \cup {"Idle"}]
    BY <1>t DEF TypeOK
<1> DEFINE Parts ==
        Registered \subseteq callbacks /\ QueueInv /\ CalmInv /\ ConnectingInv /\ UpInv
<1>p. Parts
    BY DEF BInv
<1> SUFFICES Parts'
    BY <1>t DEF BInv
<1>r. Revoking <=> Pending(tasks, "notify") \/ Pending(tasks, "stop")
    BY DEF Revoking, Pending
<1>k. \A m, n : Pending(<<>>, m) = FALSE /\ RevokeOrder(<<>>)
    BY DEF Pending, RevokeOrder
<1> USE DEF QueueInv, CalmInv, ConnectingInv, UpInv, Registered, Calm, Shows, RevokePending,
        service, bandwidth, client, Connecting, Disturbed
<1>1. CASE Assign
    BY <1>1, <1>p DEF Assign
<1>2. CASE Start
    BY <1>2, <1>p, <1>c, <1>r DEF Start, Announce, Broadcast
<1>3. CASE Serve
    BY <1>3, <1>p, <1>c, <1>r DEF Serve, Announce, Broadcast
<1>4. CASE Stop
    BY <1>4, <1>p, <1>c, <1>r DEF Stop, Announce, Broadcast
<1>5. CASE Stopped
    BY <1>5, <1>p, <1>c, <1>r DEF Stopped, Announce, Broadcast
<1>6. CASE TaskListen
    BY <1>6, <1>p, <1>q, TakeOps DEF TaskListen, Take
<1>7. CASE TaskUnlisten
    BY <1>7, <1>p, <1>q, TakeOps DEF TaskUnlisten, Take
<1>8. CASE TaskNotify
    BY <1>8, <1>p, <1>q, <1>c, TakeOps DEF TaskNotify, Take, Broadcast
<1>9. CASE TaskStop
    BY <1>9, <1>p, <1>q, TakeOps DEF TaskStop, Take
<1>10. CASE RevokeLaunch
    BY <1>10, <1>p, <1>q, <1>r, PostOps, Tasks DEF RevokeLaunch
<1>11. CASE RevokeAssign
    BY <1>11, <1>p DEF RevokeAssign
<1>12. CASE RevokeStop
    BY <1>12, <1>p, <1>q, PostOps, Tasks DEF RevokeStop
<1>13. ASSUME NEW c \in Clients, Activity(c) PROVE Parts'
    <2>1. CASE Bind(c)
        BY <2>1, <1>p, <1>c DEF Bind, At, Goto
    <2>2. CASE Register(c)
        BY <2>2, <1>p, <1>q, <1>c, <1>r, PostOps, Tasks DEF Register, At, Goto
    <2>3. CASE ReadState(c)
        BY <2>3, <1>p, <1>c DEF ReadState, At, Goto
    <2>4. CASE ShowState(c)
        BY <2>4, <1>p, <1>c DEF ShowState, At, Goto
    <2>5. CASE Disconnect(c)
        BY <2>5, <1>p, <1>q, <1>c, PostOps, Tasks DEF Disconnect, At, Goto
    <2>6. CASE ClientDies(c)
        BY <2>6, <1>p, <1>c DEF ClientDies, At, Goto
    <2>7. CASE Lost(c)
        BY <2>7, <1>p, <1>c DEF Lost, At, Goto
    <2> QED
        BY <1>13, <2>1, <2>2, <2>3, <2>4, <2>5, <2>6, <2>7 DEF Activity
<1>14. CASE Destroy
    BY <1>14, <1>k, <1>c DEF Destroy, Fresh
<1>15. CASE Crash
    BY <1>15, <1>k, <1>c DEF Crash, Fresh
<1>16. CASE UNCHANGED vars
    BY <1>16, <1>p DEF vars
<1> QED
    BY <1>1, <1>2, <1>3, <1>4, <1>5, <1>6, <1>7, <1>8, <1>9, <1>10, <1>11, <1>12, <1>13, <1>14,
       <1>15, <1>16
    DEF Next, MainThread, BinderThread

\* The initial state satisfies the invariant.
LEMMA InvInit == Init => BInv
<1> SUFFICES ASSUME Init PROVE BInv
    OBVIOUS
<1>1. <<>> \in Seq(Task) /\ 0 \in 0..MaxCrash
    BY BoundAssumption
<1>2. TypeOK
    BY <1>1 DEF Init, TypeOK, State
<1>3. Registered = {}
    BY DEF Init, Registered
<1> QED
    BY <1>2, <1>3 DEF Init, BInv, LoopsMatchListeners, QueueInv, RevokeOrder, Pending, CalmInv,
       ConnectingInv, UpInv, Calm

-----------------------------------------------------------------------------
(* The theorems. *)

\* BInv holds in every state, for every set of activities and every bound.
THEOREM BinderInvariance == Spec => []BInv
<1>1. Init => BInv
    BY InvInit
<1>2. BInv /\ [Next]_vars => BInv'
    BY InvStep
<1> QED
    BY <1>1, <1>2, PTL DEF Spec

\* There is one loop while somebody listens and none otherwise, whoever comes, goes
\* or dies (BaseService.Binder, startListeningForBandwidth and its counterpart).
THEOREM OneLoop == Spec => []LoopsMatchListeners
<1>1. BInv => LoopsMatchListeners
    BY DEF BInv
<1> QED
    BY <1>1, BinderInvariance, PTL

\* A connected activity shows the state the service rests in, although its
\* callbacks, its reads and onRevoke are not ordered (Data.changeState,
\* MihomoConnection, MainActivity.stateChanged).
THEOREM ActivitiesInSync == Spec => []InSync
<1>1. BInv => InSync
    <2> SUFFICES ASSUME BInv, Quiet, NEW c \in Clients, At(c, "up"), c \notin raced
                 PROVE  shown[c] = state
        BY DEF InSync
    <2>1. c \in Calm
        BY DEF At, Calm, Registered
    <2>2. ~RevokePending /\ ~stopping /\ announced = "none"
        BY DEF Quiet, RevokePending, Pending
    <2> QED
        BY <2>1, <2>2 DEF BInv, UpInv, Shows, At
<1> QED
    BY <1>1, BinderInvariance, PTL
=============================================================================
