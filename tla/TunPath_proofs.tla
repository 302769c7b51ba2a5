----------------------------- MODULE TunPath_proofs ----------------------------
(***************************************************************************)
(* What passes the TUN, for every value of the constants: the runs of      *)
(* tun2socks over the sessions, the packets and the handshake with the     *)
(* engine's listener, and the names the engine is given.  The specification*)
(* is PathSpec, which the run TunPath_Tun checks.                          *)
(***************************************************************************)
EXTENDS TunPath, SequenceTheorems, WellFoundedInduction, TLAPS

-----------------------------------------------------------------------------
(* Induction over the natural numbers, in terms of sets of them. *)

\* A set of numbers that is not empty has a smallest one.
LEMMA SmallestNumber ==
    ASSUME NEW T \in SUBSET Nat, T # {}
    PROVE  \E m \in T : \A k \in T : m <= k
<1>1. PICK m \in T : \A k \in T : ~ (<<k, m>> \in OpToRel(<, Nat))
    BY NatLessThanWellFounded, WFMin, Zenon
<1>2. ASSUME NEW k \in T PROVE m <= k
    <2>1. ~ (<<k, m>> \in OpToRel(<, Nat))
        BY <1>1
    <2>2. ~ (k < m)
        BY <2>1, SMT DEF OpToRel
    <2> QED
        BY <2>2
<1> QED
    BY <1>1, <1>2

\* Induction over the numbers up to a limit: what holds of the first, and of a next
\* one whenever it holds of the one before, holds of all.
LEMMA Induction ==
    ASSUME NEW n \in Nat, NEW T, 0 \in T, \A k \in 1..n : k - 1 \in T => k \in T
    PROVE  \A k \in 0..n : k \in T
<1> SUFFICES ASSUME (0..n) \ T # {} PROVE FALSE
    BY Zenon
<1>1. (0..n) \ T \in SUBSET Nat
    OBVIOUS
<1>2. PICK m \in (0..n) \ T : \A k \in (0..n) \ T : m <= k
    BY <1>1, SmallestNumber
<1>3. m \in 1..n
    BY <1>2
<1>4. m - 1 \in 0..n /\ ~ (m <= m - 1)
    BY <1>3
<1>5. m - 1 \in T
    BY <1>2, <1>4
<1> QED
    BY <1>2, <1>3, <1>5

-----------------------------------------------------------------------------
(* The runs of tun2socks. *)

\* What an abandoned session, or none, has to do with the flag.
SomeOpen == \E f \in Fds : fdOwner[f] # 0
OthersOpen == \E f \in Fds : fdOwner[f] \notin {0, latest}

\* From establish() to close() the session owns its descriptor.
FdInv ==
    /\ \A f \in Fds : fdOwner[f] <= latest
    /\ kotlin # "down" =>
          latest \in Sessions /\ fd[latest] \in Fds /\ fdOwner[fd[latest]] = latest

\* The flag is set between sessions only for one that was abandoned.
FlagInv ==
    /\ running /\ kotlin = "down" => SomeOpen
    /\ running /\ kotlin = "established" => OthersOpen
    /\ kotlin \in {"stopped", "engineDown"} => ~running
    /\ kotlin \in {"failed", "refused"} => lastError = "already running" /\ OthersOpen

\* A run that was started alone is alone, and what its reader has seen of the flag.
RunInv ==
    kotlin = "up" /\ ~crowded =>
        /\ \A r \in Sessions : r # latest => Ended(r)
        /\ reader[latest] \notin {"aborted", "finished"} => running /\ reader[latest] # "exited"

LoopInv == LoopTypeOK /\ FdInv /\ FlagInv /\ RunInv

\* A counter of an array goes up below its limit, and down above zero.
LEMMA CountUp ==
    ASSUME NEW S, NEW n \in Nat, NEW f \in [S -> 0..n], NEW s \in S, f[s] < n
    PROVE  [f EXCEPT ![s] = @ + 1] \in [S -> 0..n]
<1>1. f[s] + 1 \in 0..n
    OBVIOUS
<1> QED
    BY <1>1

LEMMA CountDown ==
    ASSUME NEW S, NEW n \in Nat, NEW f \in [S -> 0..n], NEW s \in S, f[s] > 0
    PROVE  [f EXCEPT ![s] = @ - 1] \in [S -> 0..n]
<1>1. f[s] - 1 \in 0..n
    OBVIOUS
<1> QED
    BY <1>1

\* Every step of the runs and of the Kotlin side keeps the types.
LEMMA LoopTypeStep == LoopTypeOK /\ FdInv /\ [LoopNext]_loopVars => LoopTypeOK'
<1> SUFFICES ASSUME LoopTypeOK, FdInv, [LoopNext]_loopVars PROVE LoopTypeOK'
    OBVIOUS
<1>a. MaxLoops \in Nat /\ MaxFd \in Nat /\ Capacity \in Nat \ {0} /\ MaxRelay \in Nat
    BY LoopAssumption
<1>b. 0 \in 0..Capacity /\ 0 \in 0..MaxLoops
    BY <1>a
<1>c. /\ ingress \in [Sessions -> 0..Capacity] /\ relays \in [Sessions -> 0..MaxRelay]
      /\ latest \in 0..MaxLoops
    BY DEF LoopTypeOK
<1>d. ASSUME NEW r \in Sessions, ReadPacket(r) \/ Unblock(r) \/ Drive(r) \/ DriverDies(r)
      PROVE  ingress' \in [Sessions -> 0..Capacity]
    <2>1. CASE UNCHANGED ingress
        BY <1>c, <2>1
    <2>2. CASE ingress[r] < Capacity /\ ingress' = [ingress EXCEPT ![r] = @ + 1]
        BY <1>a, <1>c, <2>2, CountUp
    <2>3. CASE ingress[r] > 0 /\ ingress' = [ingress EXCEPT ![r] = @ - 1]
        BY <1>a, <1>c, <2>3, CountDown
    <2>4. CASE ingress' = [ingress EXCEPT ![r] = 0]
        BY <1>b, <1>c, <2>4
    <2> QED
        BY <1>d, <2>1, <2>2, <2>3, <2>4 DEF ReadPacket, Unblock, Drive, DriverDies
<1>e. ASSUME NEW r \in Sessions, Drive(r) \/ RelayEnds(r)
      PROVE  relays' \in [Sessions -> 0..MaxRelay]
    <2>1. CASE UNCHANGED relays
        BY <1>c, <2>1
    <2>2. CASE relays[r] < MaxRelay /\ relays' = [relays EXCEPT ![r] = @ + 1]
        BY <1>a, <1>c, <2>2, CountUp
    <2>3. CASE relays[r] > 0 /\ relays' = [relays EXCEPT ![r] = @ - 1]
        BY <1>a, <1>c, <2>3, CountDown
    <2> QED
        BY <1>e, <2>1, <2>2, <2>3 DEF Drive, RelayEnds
<1>g. Establish => latest + 1 \in 0..MaxLoops /\ latest + 1 \in Sessions
    BY <1>a, <1>c DEF Establish, Sessions
<1>h. \A f \in Fds : f \in 0..MaxFd
    BY <1>a DEF Fds
<1> USE DEF LoopTypeOK, kotlinVars, At, Goto
<1>1. CASE Establish
    <2>1. PICK f \in Fds : /\ fdOwner' = [fdOwner EXCEPT ![f] = latest + 1]
                           /\ fd' = [fd EXCEPT ![latest + 1] = f]
        BY <1>1 DEF Establish
    <2>2. latest + 1 \in 0..MaxLoops /\ f \in 0..MaxFd
        BY <1>g, <1>h, <1>1
    <2>3. fdOwner' \in [Fds -> 0..MaxLoops] /\ fd' \in [Sessions -> 0..MaxFd]
        BY <2>1, <2>2
    <2> QED
        BY <1>1, <2>2, <2>3 DEF Establish
<1>2. CASE NativeStartTun2Socks
    BY <1>a, <1>2 DEF NativeStartTun2Socks, Start
<1>3. CASE NativeGetLastError \/ NativeStopTun2Socks \/ StopEngine \/ Abandon
    BY <1>a, <1>3 DEF NativeGetLastError, NativeStopTun2Socks, Stop, StopEngine, Abandon
<1>4. CASE CloseFd
    <2>1. fdOwner' \in [Fds -> 0..MaxLoops]
        BY <1>b, <1>4 DEF CloseFd
    <2> QED
        BY <1>4, <2>1 DEF CloseFd
<1>5. ASSUME NEW r \in Sessions, Reader(r) PROVE LoopTypeOK'
    <2>1. CASE BuildStack(r) \/ BuildStackFails(r)
        BY <1>a, <2>1 DEF BuildStack, BuildStackFails
    <2>2. CASE CheckFlag(r) \/ ReadNothing(r) \/ Finish(r)
        BY <1>a, <2>2 DEF CheckFlag, ReadNothing, Finish
    <2>3. CASE ReadPacket(r)
        <3>1. ingress' \in [Sessions -> 0..Capacity]
            BY <1>d, <2>3
        <3> QED
            BY <2>3, <3>1 DEF ReadPacket
    <2>4. CASE Unblock(r)
        <3>1. ingress' \in [Sessions -> 0..Capacity]
            BY <1>d, <2>4
        <3> QED
            BY <2>4, <3>1 DEF Unblock
    <2>5. CASE Abort(r)
        <3>1. reader' = [reader EXCEPT ![r] = "aborted"]
            BY <2>5 DEF Abort
        <3>2. driver' \in [Sessions -> BOOLEAN] /\ ingress' \in [Sessions -> 0..Capacity]
            BY <1>b, <2>5 DEF Abort
        <3> QED
            BY <2>5, <3>1, <3>2 DEF Abort
    <2> QED
        BY <1>5, <2>1, <2>2, <2>3, <2>4, <2>5 DEF Reader
<1>6. ASSUME NEW r \in Sessions, Drive(r) \/ DriverDies(r) \/ RelayEnds(r) PROVE LoopTypeOK'
    <2>1. CASE Drive(r)
        <3>1. ingress' \in [Sessions -> 0..Capacity]
            BY <1>d, <2>1
        <3>2. relays' \in [Sessions -> 0..MaxRelay]
            BY <1>e, <2>1
        <3> QED
            BY <2>1, <3>1, <3>2 DEF Drive
    <2>2. CASE DriverDies(r)
        <3>1. driver' \in [Sessions -> BOOLEAN] /\ ingress' \in [Sessions -> 0..Capacity]
            BY <1>b, <2>2 DEF DriverDies
        <3> QED
            BY <2>2, <3>1 DEF DriverDies
    <2>3. CASE RelayEnds(r)
        <3>1. relays' \in [Sessions -> 0..MaxRelay]
            BY <1>e, <2>3
        <3> QED
            BY <2>3, <3>1 DEF RelayEnds
    <2> QED
        BY <1>6, <2>1, <2>2, <2>3
<1>7. CASE UNCHANGED loopVars
    BY <1>7 DEF loopVars
<1> QED
    BY <1>1, <1>2, <1>3, <1>4, <1>5, <1>6, <1>7 DEF LoopNext, Kotlin

\* The rest of a run's steps leave the Kotlin side and the descriptors alone.
LEMMA FdStays == UNCHANGED kotlinVars /\ FdInv => FdInv'
    BY DEF FdInv, kotlinVars

\* Every step keeps the invariant.
LEMMA LoopStep == LoopInv /\ [LoopNext]_loopVars => LoopInv'
<1> SUFFICES ASSUME LoopInv, [LoopNext]_loopVars PROVE LoopInv'
    OBVIOUS
<1>t. LoopTypeOK'
    BY LoopTypeStep DEF LoopInv
<1>a. MaxLoops \in Nat /\ MaxFd \in Nat
    BY LoopAssumption
<1>f. /\ fdOwner \in [Fds -> 0..MaxLoops] /\ fd \in [Sessions -> 0..MaxFd]
      /\ latest \in 0..MaxLoops
    BY DEF LoopInv, LoopTypeOK
<1>r. reader \in [Sessions -> {"none", "spawned", "check", "drain", "blocked",
                              "exited", "aborted", "finished"}]
    BY DEF LoopInv, LoopTypeOK
<1>i. FdInv /\ FlagInv /\ RunInv
    BY DEF LoopInv
<1> SUFFICES FdInv' /\ FlagInv' /\ RunInv'
    BY <1>t DEF LoopInv
<1>1. CASE Establish
    <2>1. PICK f \in Fds : /\ fdOwner[f] = 0 /\ fdOwner' = [fdOwner EXCEPT ![f] = latest + 1]
                           /\ fd' = [fd EXCEPT ![latest + 1] = f]
        BY <1>1 DEF Establish
    <2>2. /\ latest' = latest + 1 /\ latest + 1 \in Sessions /\ kotlin' = "established"
          /\ running' = running /\ lastError' = lastError /\ latest \in Nat /\ kotlin = "down"
        BY <1>a, <1>f, <1>1 DEF Establish, Sessions
    <2>3. \A g \in Fds : fdOwner[g] \in Nat /\ fdOwner[g] <= latest
        BY <1>a, <1>f, <1>i DEF FdInv
    <2>4. /\ fdOwner'[f] = latest + 1 /\ fd'[latest + 1] = f
          /\ \A g \in Fds : g # f => fdOwner'[g] = fdOwner[g]
        BY <1>f, <2>1, <2>2
    <2>5. FdInv'
        <3>1. \A g \in Fds : fdOwner'[g] <= latest'
            BY <2>2, <2>3, <2>4
        <3>2. latest' \in Sessions /\ fd'[latest'] \in Fds /\ fdOwner'[fd'[latest']] = latest'
            BY <2>1, <2>2, <2>4
        <3> QED
            BY <3>1, <3>2 DEF FdInv, Sessions, Fds
    <2>6. SomeOpen => OthersOpen'
        <3> SUFFICES ASSUME SomeOpen PROVE \E g \in Fds : fdOwner'[g] \notin {0, latest'}
            BY DEF OthersOpen, Fds
        <3>1. PICK g \in Fds : fdOwner[g] # 0
            BY DEF SomeOpen
        <3>2. fdOwner'[g] = fdOwner[g] /\ fdOwner[g] # latest + 1
            BY <2>1, <2>2, <2>3, <2>4, <3>1
        <3> QED
            BY <2>2, <3>1, <3>2
    <2>7. FlagInv'
        BY <1>i, <2>2, <2>6 DEF FlagInv
    <2>8. RunInv'
        BY <2>2 DEF RunInv
    <2> QED
        BY <2>5, <2>7, <2>8
<1>2. CASE NativeStartTun2Socks
    <2>1. FdInv' /\ FlagInv'
        BY <1>i, <1>2 DEF NativeStartTun2Socks, Start, FdInv, FlagInv, SomeOpen, OthersOpen
    <2>2. RunInv'
        BY <1>i, <1>r, <1>2 DEF NativeStartTun2Socks, Start, RunInv, FdInv, Ended
    <2> QED
        BY <2>1, <2>2
<1>3. CASE NativeGetLastError \/ NativeStopTun2Socks \/ StopEngine
    <2>1. FdInv'
        BY <1>i, <1>3 DEF FdInv, NativeGetLastError, NativeStopTun2Socks, Stop, StopEngine
    <2>2. FlagInv'
        <3>1. CASE NativeGetLastError
            <4>1. kotlin = "failed" /\ kotlin' = "refused" /\ UNCHANGED <<fdOwner, latest, lastError>>
                BY <3>1 DEF NativeGetLastError
            <4> QED
                BY <1>i, <4>1 DEF FlagInv, OthersOpen
        <3>2. CASE NativeStopTun2Socks
            <4>1. kotlin' = "stopped" /\ ~running'
                BY <3>2 DEF NativeStopTun2Socks, Stop
            <4> QED
                BY <4>1 DEF FlagInv
        <3>3. CASE StopEngine
            <4>1. kotlin = "stopped" /\ kotlin' = "engineDown" /\ running' = running
                BY <3>3 DEF StopEngine
            <4> QED
                BY <1>i, <4>1 DEF FlagInv
        <3> QED
            BY <1>3, <3>1, <3>2, <3>3
    <2>3. RunInv'
        BY <1>3 DEF RunInv, NativeGetLastError, NativeStopTun2Socks, Stop, StopEngine
    <2> QED
        BY <2>1, <2>2, <2>3
<1>8. CASE Abandon
    <2>1. latest \in Sessions /\ fd[latest] \in Fds /\ fdOwner[fd[latest]] # 0
        BY <1>a, <1>f, <1>i, <1>8 DEF Abandon, Sessions, FdInv
    <2>2. SomeOpen'
        BY <1>8, <2>1 DEF Abandon, SomeOpen, Fds
    <2>3. FdInv'
        BY <1>i, <1>8 DEF FdInv, Abandon
    <2> QED
        BY <1>8, <2>2, <2>3 DEF Abandon, FlagInv, RunInv
<1>4. CASE CloseFd
    <2>1. \A g \in Fds : fdOwner'[g] <= latest'
        BY <1>a, <1>f, <1>i, <1>4 DEF CloseFd, FdInv
    <2>2. FdInv'
        BY <1>4, <2>1 DEF CloseFd, FdInv, Fds
    <2> QED
        BY <1>i, <1>4, <2>2 DEF CloseFd, FlagInv, RunInv
<1>5. ASSUME NEW r \in Sessions, Reader(r) PROVE FdInv' /\ FlagInv' /\ RunInv'
    <2>0. UNCHANGED kotlinVars
        BY <1>5 DEF Reader, BuildStack, BuildStackFails, CheckFlag, ReadNothing, ReadPacket,
                    Unblock, Abort, Finish
    <2>1. running' \in {running, FALSE}
        BY <1>5 DEF Reader, BuildStack, BuildStackFails, CheckFlag, ReadNothing, ReadPacket,
                    Unblock, Abort, Finish
    <2>2. \A s \in Sessions : s # r => reader'[s] = reader[s]
        BY <1>5, <1>r DEF Reader, BuildStack, BuildStackFails, CheckFlag, ReadNothing, ReadPacket,
                    Unblock, Abort, Finish, Goto
    <2>3. ~Ended(r) /\ (reader'[r] \notin {"aborted", "finished"} =>
             /\ running' = running /\ reader[r] \notin {"aborted", "finished"}
             /\ running => reader'[r] # "exited" \/ reader[r] = "exited")
        <3>1. CASE BuildStack(r) \/ BuildStackFails(r)
            BY <1>r, <3>1 DEF BuildStack, BuildStackFails, Ended, At, Goto
        <3>2. CASE CheckFlag(r)
            BY <1>r, <3>2 DEF CheckFlag, Ended, At, Goto
        <3>3. CASE ReadNothing(r) \/ Unblock(r)
            BY <1>r, <3>3 DEF ReadNothing, Unblock, Ended, At, Goto
        <3>4. CASE ReadPacket(r)
            BY <1>r, <3>4 DEF ReadPacket, Ended, At, Goto
        <3>5. CASE Abort(r)
            BY <1>r, <3>5 DEF Abort, Ended, At, Goto
        <3>6. CASE Finish(r)
            BY <1>r, <3>6 DEF Finish, Ended, At, Goto
        <3> QED
            BY <1>5, <3>1, <3>2, <3>3, <3>4, <3>5, <3>6 DEF Reader
    <2>4. FdInv'
        BY <1>i, <2>0, FdStays
    <2>5. FlagInv'
        <3>1. UNCHANGED <<kotlin, fdOwner, latest, lastError>>
            BY <2>0 DEF kotlinVars
        <3>2. SomeOpen' = SomeOpen /\ OthersOpen' = OthersOpen
            BY <3>1 DEF SomeOpen, OthersOpen
        <3>3. running' => running
            BY <2>1
        <3> QED
            BY <1>i, <3>1, <3>2, <3>3 DEF FlagInv
    <2>6. RunInv'
        <3> SUFFICES ASSUME kotlin' = "up", ~crowded'
                     PROVE  /\ \A s \in Sessions : s # latest' => Ended(s)'
                            /\ reader'[latest'] \notin {"aborted", "finished"} =>
                                   running' /\ reader'[latest'] # "exited"
            BY DEF RunInv, Sessions
        <3>1. /\ \A s \in Sessions : s # latest => Ended(s)
              /\ reader[latest] \notin {"aborted", "finished"} => running /\ reader[latest] # "exited"
            BY <1>i, <2>0 DEF RunInv, kotlinVars
        <3>2. r = latest /\ latest' = latest
            BY <2>0, <2>3, <3>1 DEF kotlinVars
        <3>3. \A s \in Sessions : s # latest' => Ended(s)'
            BY <2>2, <3>1, <3>2 DEF Ended
        <3>4. reader'[r] \notin {"aborted", "finished"} => running' /\ reader'[r] # "exited"
            BY <2>3, <3>1, <3>2
        <3> QED
            BY <3>2, <3>3, <3>4
    <2> QED
        BY <2>4, <2>5, <2>6
<1>6. ASSUME NEW r \in Sessions, Drive(r) \/ DriverDies(r) \/ RelayEnds(r)
      PROVE  FdInv' /\ FlagInv' /\ RunInv'
    <2>1. UNCHANGED kotlinVars /\ UNCHANGED <<running, reader>>
        BY <1>6 DEF Drive, DriverDies, RelayEnds
    <2> QED
        BY <1>i, <2>1 DEF FdInv, FlagInv, RunInv, SomeOpen, OthersOpen, Ended, kotlinVars
<1>7. CASE UNCHANGED loopVars
    BY <1>i, <1>7 DEF loopVars, FdInv, FlagInv, RunInv, SomeOpen, OthersOpen, Ended
<1> QED
    BY <1>1, <1>2, <1>3, <1>4, <1>5, <1>6, <1>7, <1>8 DEF LoopNext, Kotlin

\* The initial state satisfies the invariant.
LEMMA LoopInvInit == LoopInit => LoopInv
<1> SUFFICES ASSUME LoopInit PROVE LoopInv
    OBVIOUS
<1>1. 0 \in 0..MaxLoops /\ 0 \in 0..MaxFd /\ 0 \in 0..Capacity /\ 0 \in 0..MaxRelay
    BY LoopAssumption
<1>2. LoopTypeOK
    BY <1>1 DEF LoopInit, LoopTypeOK
<1>3. FdInv
    <2>1. latest = 0 /\ kotlin = "down" /\ \A f \in Fds : fdOwner[f] = 0
        BY DEF LoopInit
    <2> QED
        BY <2>1 DEF FdInv
<1>4. ~running /\ kotlin = "down"
    BY DEF LoopInit
<1>5. FlagInv
    BY <1>4 DEF FlagInv
<1>6. RunInv
    BY <1>4 DEF RunInv
<1> QED
    BY <1>2, <1>3, <1>5, <1>6 DEF LoopInv

\* A step of the whole is a step of the runs or leaves them alone.
LEMMA PathStepsRuns == [PathNext]_pathVars => [LoopNext]_loopVars
    BY DEF PathNext, pathVars, Only

\* A loop that was started alone is not told to end before stop() is called, and a
\* start is refused only for a session that was abandoned with its TUN open
\* (tun2socks.rs: start, stop, run_tun2socks).
THEOREM StartedLoopsRun == PathSpec => []StartedLoopRuns
<1>1. PathInit => LoopInv
    BY LoopInvInit DEF PathInit
<1>2. LoopInv /\ [PathNext]_pathVars => LoopInv'
    BY PathStepsRuns, LoopStep
<1>3. LoopInv => StartedLoopRuns
    BY DEF LoopInv, FlagInv, RunInv, OthersOpen, StartedLoopRuns
<1> QED
    BY <1>1, <1>2, <1>3, PTL DEF PathSpec

-----------------------------------------------------------------------------
(* Sequences of bytes, of which only those have a value that are looked at. *)

Symbols == Nat \cup {"x", "port", "first", "second"}

LEMMA Concatenation ==
    ASSUME NEW a \in Seq(Symbols), NEW b \in Seq(Symbols)
    PROVE  /\ a \o b \in Seq(Symbols) /\ Len(a) \in Nat /\ Len(b) \in Nat
           /\ Len(a \o b) = Len(a) + Len(b)
           /\ \A i \in 1..Len(a) : (a \o b)[i] = a[i]
           /\ \A i \in 1..Len(b) : (a \o b)[Len(a) + i] = b[i]
<1>1. /\ a \o b \in Seq(Symbols) /\ Len(a) \in Nat /\ Len(b) \in Nat
      /\ Len(a \o b) = Len(a) + Len(b)
      /\ \A i \in 1..(Len(a) + Len(b)) :
             (a \o b)[i] = IF i <= Len(a) THEN a[i] ELSE b[i - Len(a)]
    BY ConcatProperties
<1>2. \A i \in 1..Len(a) : (a \o b)[i] = a[i]
    BY <1>1
<1>3. \A i \in 1..Len(b) : (a \o b)[Len(a) + i] = b[i]
    BY <1>1
<1> QED
    BY <1>1, <1>2, <1>3

\* n bytes nobody looks at.
LEMMA BytesSeq == ASSUME NEW n \in Nat PROVE Bytes(n) \in Seq(Symbols) /\ Len(Bytes(n)) = n
<1>1. Bytes(n) \in [1..n -> Symbols]
    BY DEF Bytes, Symbols
<1> QED
    BY <1>1, SeqDef DEF Bytes

\* A request around its address.
Framed(k, body) == <<5, 1, 0, k>> \o body \o <<"port", "port">>

LEMMA FramedBody ==
    ASSUME NEW k \in Nat, NEW body \in Seq(Symbols), Len(body) >= 1
    PROVE  /\ Len(Framed(k, body)) = 6 + Len(body)
           /\ Framed(k, body)[4] = k /\ Framed(k, body)[5] = body[1]
<1>1. <<5, 1, 0, k>> \in Seq(Symbols) /\ <<"port", "port">> \in Seq(Symbols)
    BY DEF Symbols
<1> DEFINE h == <<5, 1, 0, k>> \o body
<1>2. h \in Seq(Symbols) /\ Len(h) = 4 + Len(body) /\ h[4] = k /\ h[5] = body[1]
    BY <1>1, Concatenation
<1> HIDE DEF h
<1>3. LET r == h \o <<"port", "port">>
      IN  Len(r) = 6 + Len(body) /\ r[4] = k /\ r[5] = body[1]
    BY <1>1, <1>2, Concatenation
<1> QED
    BY <1>3 DEF Framed, h

\* A length and as many bytes.
LEMMA Counted ==
    ASSUME NEW n \in Nat
    PROVE  LET b == <<n>> \o Bytes(n) IN b \in Seq(Symbols) /\ Len(b) = 1 + n /\ b[1] = n
<1>1. <<n>> \in Seq(Symbols) /\ Len(<<n>>) = 1 /\ <<n>>[1] = n
    BY DEF Symbols
<1>2. Bytes(n) \in Seq(Symbols) /\ Len(Bytes(n)) = n
    BY BytesSeq
<1> DEFINE b == Bytes(n)
<1> HIDE DEF b
<1>3. b \in Seq(Symbols) /\ Len(b) = n
    BY <1>2 DEF b
<1>4. /\ <<n>> \o b \in Seq(Symbols) /\ Len(<<n>> \o b) = 1 + n
      /\ (<<n>> \o b)[1] = n
    BY <1>1, <1>3, Concatenation
<1> QED
    BY <1>4 DEF b

\* What the engine takes, by the kind of the address.
LEMMA Takes ==
    ASSUME NEW r
    PROVE  /\ r[4] = 1 => RequestTakes(r) = 10
           /\ r[4] = 3 => RequestTakes(r) = 7 + r[5]
           /\ r[4] = 4 => RequestTakes(r) = 22
<1>1. 1 # 3 /\ 1 # 4 /\ 3 # 4
    OBVIOUS
<1> QED
    BY <1>1, Zenon DEF RequestTakes

\* A request for an address of four or of sixteen bytes.
LEMMA PlainTaken ==
    ASSUME NEW k \in Nat, NEW n \in Nat, (k = 1 /\ n = 4) \/ (k = 4 /\ n = 16)
    PROVE  RequestTakes(Framed(k, Bytes(n))) = Len(Framed(k, Bytes(n)))
<1> DEFINE b == Bytes(n)
           r == Framed(k, b)
<1>1. b \in Seq(Symbols) /\ Len(b) = n /\ n >= 1
    BY BytesSeq
<1> HIDE DEF b
<1>2. Len(r) = 6 + n /\ r[4] = k
    BY <1>1, FramedBody
<1> HIDE DEF r
<1>3. k = 1 => RequestTakes(r) = 10
    BY <1>2, Takes, Zenon
<1>4. k = 4 => RequestTakes(r) = 22
    BY <1>2, Takes, Zenon
<1>5. RequestTakes(r) = Len(r)
    BY <1>2, <1>3, <1>4
<1> QED
    BY <1>5 DEF b, r

\* The engine takes all of a request for one.
LEMMA RequestTaken ==
    ASSUME NEW t \in Targets
    PROVE  RequestTakes(Request(t)) = Len(Request(t))
<1>1. \A n \in NameLengths : n \in Nat /\ n % 256 = n
    <2>1. \A n \in 1..255 : n \in Nat /\ n % 256 = n
        OBVIOUS
    <2> QED
        BY <2>1, NameAssumption
<1>2. CASE t.kind = 1
    <2>1. Request(t) = Framed(1, Bytes(4))
        BY <1>2 DEF Request, Framed
    <2>2. RequestTakes(Framed(1, Bytes(4))) = Len(Framed(1, Bytes(4)))
        BY PlainTaken
    <2> QED
        BY <2>1, <2>2
<1>3. CASE t.kind = 4
    <2>1. Request(t) = Framed(4, Bytes(16))
        BY <1>3 DEF Request, Framed
    <2>2. RequestTakes(Framed(4, Bytes(16))) = Len(Framed(4, Bytes(16)))
        BY PlainTaken
    <2> QED
        BY <2>1, <2>2
<1>4. ASSUME t.kind = 3, t.len \in NameLengths
      PROVE  RequestTakes(Request(t)) = Len(Request(t))
    <2>1. PICK n \in NameLengths : t.len = n
        BY <1>4
    <2>2. n \in Nat /\ n % 256 = n
        BY <1>1
    <2> DEFINE b == <<n>> \o Bytes(n)
    <2>3. Request(t) = Framed(3, b)
        <3>1. t.len % 256 = n
            BY <2>1, <2>2
        <3> QED
            BY <1>4, <2>1, <3>1 DEF Request, Framed
    <2>4. b \in Seq(Symbols) /\ Len(b) = 1 + n /\ b[1] = n
        BY <2>2, Counted
    <2> HIDE DEF b
    <2>5. Len(Framed(3, b)) = 7 + n /\ Framed(3, b)[4] = 3 /\ Framed(3, b)[5] = n
        BY <2>2, <2>4, FramedBody
    <2> QED
        BY <2>3, <2>5, Takes
<1>5. t.kind \in {1, 4} \/ (t.kind = 3 /\ t.len \in NameLengths)
    BY DEF Targets
<1> QED
    BY <1>2, <1>3, <1>4, <1>5

-----------------------------------------------------------------------------
(* The packets of a query and of its answer. *)

\* The sum of ten words needs two rounds of carries, no more, and the checksum
\* makes it a multiple of 65535 (ip_checksum).
LEMMA ChecksumVerifies ==
    ASSUME NEW s \in Nat, s < 655360
    PROVE  Is16(Checksum(s)) /\ (s + Checksum(s)) % 65535 = 0
<1>1. Fold(Fold(s)) \in Nat /\ Fold(Fold(s)) <= 65535
    BY SMT DEF Fold
<1>2. (s + Checksum(s)) % 65535 = 0
    BY SMT DEF Fold, Checksum
<1>3. Is16(Checksum(s))
    BY <1>1, SMT DEF Checksum, Is16
<1> QED
    BY <1>2, <1>3, SMT

\* A header with some checksum, and what its words sum up to.
Header(n, src, dst, ck) == <<17664, (28 + n) % 65536, 0, 16384, 16401, ck>> \o src \o dst

\* The sum without the checksum.
Rest(n, src, dst) == 50449 + (28 + n) + (src[1] + src[2]) + (dst[1] + dst[2])

LEMMA AddressWords ==
    ASSUME NEW a \in IpAddress
    PROVE  a \in Seq(Symbols) /\ Len(a) = 2 /\ Is16(a[1]) /\ Is16(a[2])
<1>1. PICK v \in Words, w \in Words : a = <<v, w>>
    BY DEF IpAddress
<1>2. Is16(v) /\ Is16(w)
    BY WordAssumption
<1> QED
    BY <1>1, <1>2 DEF Is16, Symbols

LEMMA HeaderSum ==
    ASSUME NEW n \in Payloads, NEW src \in IpAddress, NEW dst \in IpAddress, NEW ck \in Nat
    PROVE  /\ Header(n, src, dst, ck)[2] = 28 + n /\ Header(n, src, dst, ck)[6] = ck
           /\ Sum16(Header(n, src, dst, ck)) = Rest(n, src, dst) + ck
<1> DEFINE f == <<17664, (28 + n) % 65536, 0, 16384, 16401, ck>>
           g == f \o src
           h == g \o dst
<1>1. n \in Nat /\ (28 + n) % 65536 = 28 + n
    BY PayloadAssumption, SMT
<1>2. /\ f \in Seq(Symbols) /\ Len(f) = 6 /\ f[1] = 17664 /\ f[2] = 28 + n
      /\ f[3] = 0 /\ f[4] = 16384 /\ f[5] = 16401 /\ f[6] = ck
    BY <1>1, SMT DEF Symbols
<1>4. /\ src \in Seq(Symbols) /\ Len(src) = 2 /\ dst \in Seq(Symbols) /\ Len(dst) = 2
      /\ src[1] \in Nat /\ src[2] \in Nat /\ dst[1] \in Nat /\ dst[2] \in Nat
    BY AddressWords, SMT DEF Is16
<1> HIDE DEF f
<1>3. f \in Seq(Symbols) /\ Len(f) = 6
    BY <1>2
<1>5. src \in Seq(Symbols) /\ Len(src) = 2 /\ dst \in Seq(Symbols) /\ Len(dst) = 2
    BY <1>4
<1>6. /\ g \in Seq(Symbols) /\ Len(g) = Len(f) + Len(src)
      /\ \A i \in 1..Len(f) : g[i] = f[i]
      /\ \A i \in 1..Len(src) : g[Len(f) + i] = src[i]
    BY <1>3, <1>5, Concatenation
<1> HIDE DEF g
<1>7. /\ g \in Seq(Symbols) /\ Len(g) = 8 /\ \A i \in 1..6 : g[i] = f[i]
      /\ \A i \in 1..2 : g[6 + i] = src[i]
    BY <1>3, <1>5, <1>6
<1>8. /\ \A i \in 1..Len(g) : h[i] = g[i]
      /\ \A i \in 1..Len(dst) : h[Len(g) + i] = dst[i]
    BY <1>7, <1>5, Concatenation
<1> HIDE DEF h
<1>9. /\ \A i \in 1..8 : h[i] = g[i]
      /\ \A i \in 1..2 : h[8 + i] = dst[i]
    BY <1>7, <1>5, <1>8
<1>10. /\ h[1] = 17664 /\ h[2] = 28 + n /\ h[3] = 0 /\ h[4] = 16384 /\ h[5] = 16401
      /\ h[6] = ck /\ h[7] = src[1] /\ h[8] = src[2]
      /\ h[9] = dst[1] /\ h[10] = dst[2]
    BY <1>2, <1>7, <1>9, SMT
<1>11. Sum16(h) = Rest(n, src, dst) + ck
    BY <1>1, <1>4, <1>10, SMT DEF Sum16, Rest
<1>12. Header(n, src, dst, ck) = h
    BY SMT DEF f, g, h, Header
<1> QED
    BY <1>10, <1>11, <1>12, SMT

\* The query is one of an app's, and the answer is what was built for it.
UdpInv ==
    /\ asked # NoPacket =>
          \E ihl \in HeaderWords, src, dst \in IpAddress, sport \in Words, n \in Payloads,
             more \in {0, 2} :
             asked = Query(ihl, src, dst, sport, n, more)
    /\ reply # NoPacket =>
          /\ asked # NoPacket
          /\ \E n \in Payloads :
                reply = Build(asked.dst, asked.dport, asked.src, asked.sport, n)

LEMMA UdpInvInit == PacketInit => UdpInv
    BY DEF PacketInit, UdpInv

LEMMA UdpStep == UdpInv /\ [UdpNext]_udpVars => UdpInv'
<1> SUFFICES ASSUME UdpInv, [UdpNext]_udpVars PROVE UdpInv'
    OBVIOUS
<1>1. CASE SendQuery
    <2>1. asked = NoPacket /\ reply' = reply /\ reply = NoPacket
        BY <1>1 DEF SendQuery, UdpInv
    <2>2. \E ihl \in HeaderWords, src, dst \in IpAddress, sport \in Words, n \in Payloads,
             more \in {0, 2} :
             asked' = Query(ihl, src, dst, sport, n, more)
        BY <1>1 DEF SendQuery
    <2> QED
        BY <2>1, <2>2 DEF UdpInv
<1>2. CASE AnswerQuery
    <2>1. /\ asked # NoPacket /\ asked' = asked
          /\ \E n \in Payloads : reply' = Build(asked.dst, asked.dport, asked.src, asked.sport, n)
        BY <1>2 DEF AnswerQuery, Parse
    <2> QED
        BY <2>1 DEF UdpInv
<1>3. CASE UNCHANGED udpVars
    BY <1>3 DEF udpVars, UdpInv
<1> QED
    BY <1>1, <1>2, <1>3 DEF UdpNext

\* The payload of a query is what its length field says, whatever lies behind it.
LEMMA QueryParsed ==
    ASSUME NEW ihl \in HeaderWords, NEW src, NEW dst, NEW sport, NEW n \in Payloads,
           NEW more \in {0, 2}
    PROVE  LET p == Query(ihl, src, dst, sport, n, more) IN Parse(p).payload = p.udpLen - 8
<1>1. ihl \in Nat
    BY HeaderAssumption, SMT
<1>2. n \in Nat
    BY PayloadAssumption, SMT
<1> QED
    BY <1>1, <1>2 DEF Query, Parse

\* What is built verifies, and its lengths are its own.
LEMMA BuiltVerifies ==
    ASSUME NEW src \in IpAddress, NEW dst \in IpAddress, NEW sport, NEW dport, NEW n \in Payloads
    PROVE  LET p == Build(src, sport, dst, dport, n)
           IN  /\ Is16(p.header[6]) /\ Sum16(p.header) % 65535 = 0
               /\ p.header[2] = p.len /\ p.udpLen = p.len - 20
<1> DEFINE s == Rest(n, src, dst)
<1>1. n \in Nat /\ n < 65508
    BY PayloadAssumption, SMT
<1>2. s \in Nat /\ s < 655360
    <2>1. /\ src[1] \in Nat /\ src[1] < 65536 /\ src[2] \in Nat /\ src[2] < 65536
          /\ dst[1] \in Nat /\ dst[1] < 65536 /\ dst[2] \in Nat /\ dst[2] < 65536
        BY AddressWords, SMT DEF Is16
    <2> QED
        BY <1>1, <2>1, SMT DEF Rest
<1> HIDE DEF s
<1>3. Sum16(Header(n, src, dst, 0)) = s
    <2>1. Sum16(Header(n, src, dst, 0)) = s + 0
        BY HeaderSum DEF s
    <2> QED
        BY <1>2, <2>1, SMT
<1>4. ASSUME NEW ck \in Nat
      PROVE  /\ Header(n, src, dst, ck)[2] = 28 + n /\ Header(n, src, dst, ck)[6] = ck
             /\ Sum16(Header(n, src, dst, ck)) = s + ck
    BY HeaderSum DEF s
<1>5. Is16(Checksum(s)) /\ Checksum(s) \in Nat /\ (s + Checksum(s)) % 65535 = 0
    BY <1>2, ChecksumVerifies, SMT DEF Is16
<1> DEFINE h == Header(n, src, dst, Checksum(s))
<1>6. h[2] = 28 + n /\ h[6] = Checksum(s) /\ Sum16(h) = s + Checksum(s)
    BY <1>4, <1>5, SMT
<1> DEFINE p == Build(src, sport, dst, dport, n)
<1>7. p.header = h /\ p.len = 28 + n /\ p.udpLen = (8 + n) % 65536
    BY <1>3, SMT DEF Build, Header
<1>8. (8 + n) % 65536 = 8 + n
    BY <1>1, SMT
<1> HIDE DEF p, h
<1>9. /\ Is16(p.header[6]) /\ Sum16(p.header) % 65535 = 0
      /\ p.header[2] = p.len /\ p.udpLen = p.len - 20
    BY <1>1, <1>5, <1>6, <1>7, <1>8, SMT
<1> QED
    BY <1>9, SMT DEF p

LEMMA AskerAnswered == UdpInv => AnswersAsker
<1> SUFFICES ASSUME UdpInv, reply # NoPacket PROVE AnswersAsker
    BY SMT DEF AnswersAsker
<1>1. PICK ihl \in HeaderWords, src \in IpAddress, dst \in IpAddress, sport \in Words,
           n \in Payloads, more \in {0, 2} : asked = Query(ihl, src, dst, sport, n, more)
    BY DEF UdpInv
<1>2. PICK k \in Payloads :
        reply = Build(asked.dst, asked.dport, asked.src, asked.sport, k)
    BY DEF UdpInv
<1>3. asked.src = src /\ asked.dst = dst
    BY <1>1 DEF Query
<1>4. /\ reply.src = asked.dst /\ reply.sport = asked.dport
      /\ reply.dst = asked.src /\ reply.dport = asked.sport
    BY <1>2 DEF Build
<1>5. Parse(asked).payload = asked.udpLen - 8
    BY <1>1, QueryParsed
<1>6. /\ Is16(reply.header[6]) /\ Sum16(reply.header) % 65535 = 0
      /\ reply.header[2] = reply.len /\ reply.udpLen = reply.len - 20
    BY <1>2, <1>3, BuiltVerifies, SMT
<1> QED
    BY <1>4, <1>5, <1>6, SMT DEF AnswersAsker

\* A step of the whole is a step of the packets or leaves them alone.
LEMMA PathStepsUdp == [PathNext]_pathVars => [UdpNext]_udpVars
    BY DEF PathNext, pathVars, packetVars, Only, SocksNext, OpenSocks, ServerSends, ReadMethod,
           ReadReply, ReadLength, ReadBound, StreamEnds, Relay, StaySame

\* The answer of a query goes to its asker, whole, and verifies (tun2socks.rs:
\* parse_udp_packet, build_udp_packet, ip_checksum).
THEOREM AskersAreAnswered == PathSpec => []AnswersAsker
<1>1. PathInit => UdpInv
    BY UdpInvInit DEF PathInit
<1>2. UdpInv /\ [PathNext]_pathVars => UdpInv'
    BY PathStepsUdp, UdpStep
<1> QED
    BY <1>1, <1>2, AskerAnswered, PTL DEF PathSpec

-----------------------------------------------------------------------------
(* What the engine's listener sends. *)

\* Some bytes that count, and others.
LEMMA Led ==
    ASSUME NEW h \in Seq(Symbols), NEW n \in Nat, Len(h) >= 1
    PROVE  /\ h \o Bytes(n) \in Seq(Symbols) /\ Len(h \o Bytes(n)) = Len(h) + n
           /\ (h \o Bytes(n))[1] = h[1]
           /\ Len(h) >= 2 => (h \o Bytes(n))[2] = h[2]
<1> DEFINE b == Bytes(n)
<1>1. b \in Seq(Symbols) /\ Len(b) = n
    BY BytesSeq
<1> HIDE DEF b
<1>2. /\ h \o b \in Seq(Symbols) /\ Len(h \o b) = Len(h) + n /\ Len(h) \in Nat
      /\ \A i \in 1..Len(h) : (h \o b)[i] = h[i]
    BY <1>1, Concatenation
<1>3. (h \o b)[1] = h[1] /\ (Len(h) >= 2 => (h \o b)[2] = h[2])
    BY <1>2
<1> QED
    BY <1>2, <1>3 DEF b

\* A server that accepts: its reply with the address a, and the target's data.
Accepting(a) == <<5, 0, 5, 0, 0>> \o a \o FromTarget

LEMMA AcceptingShape ==
    ASSUME NEW a \in Seq(Symbols), Len(a) >= 1
    PROVE  LET s == Accepting(a)
           IN  /\ s \in Seq(Symbols) /\ Len(s) = 7 + Len(a) /\ s[6] = a[1]
               /\ Len(a) >= 2 => s[7] = a[2]
               /\ s[Len(s) - 1] = "first" /\ s[Len(s)] = "second"
<1>1. /\ <<5, 0, 5, 0, 0>> \in Seq(Symbols) /\ Len(<<5, 0, 5, 0, 0>>) = 5
      /\ FromTarget \in Seq(Symbols) /\ Len(FromTarget) = 2
      /\ FromTarget[1] = "first" /\ FromTarget[2] = "second"
    BY DEF Symbols, FromTarget
<1> DEFINE h == <<5, 0, 5, 0, 0>> \o a
<1>2. /\ h \in Seq(Symbols) /\ Len(h) = 5 + Len(a) /\ Len(a) \in Nat
      /\ \A i \in 1..Len(a) : h[5 + i] = a[i]
    BY <1>1, Concatenation
<1> HIDE DEF h
<1> DEFINE s == h \o FromTarget
<1>3. /\ s \in Seq(Symbols) /\ Len(s) = Len(h) + Len(FromTarget)
      /\ \A i \in 1..Len(h) : s[i] = h[i]
      /\ \A i \in 1..Len(FromTarget) : s[Len(h) + i] = FromTarget[i]
    BY <1>1, <1>2, Concatenation
<1> HIDE DEF s
<1>4. s[6] = a[1] /\ (Len(a) >= 2 => s[7] = a[2])
    BY <1>2, <1>3
<1>5. Len(s) = 7 + Len(a) /\ s[6 + Len(a)] = "first" /\ s[7 + Len(a)] = "second"
    BY <1>1, <1>2, <1>3
<1>6. Accepting(a) = s
    BY DEF Accepting, h, s
<1> QED
    BY <1>3, <1>4, <1>5, <1>6

\* What a script may be: one that accepts has its kind of address in the sixth
\* place, and its length goes with the kind.
Addressed(s) ==
    /\ s[6] \in {1, 3, 4}
    /\ s[6] = 1 => Len(s) = 14
    /\ s[6] = 3 => Len(s) = 13 /\ s[7] = 2
    /\ s[6] = 4 => Len(s) = 26
Served(s) == s[Len(s) - 1] = "first" /\ s[Len(s)] = "second"
Accepted(s) == Addressed(s) /\ Served(s)

\* How an address begins, and how long it is with n more bytes.
Fits(h, n) ==
    /\ Len(h) >= 1
    /\ \/ h[1] = 1 /\ Len(h) + n = 7
       \/ h[1] = 3 /\ Len(h) >= 2 /\ h[2] = 2 /\ Len(h) + n = 6
       \/ h[1] = 4 /\ Len(h) + n = 19

LEMMA AddressAccepted ==
    ASSUME NEW h \in Seq(Symbols), NEW n \in Nat, Fits(h, n)
    PROVE  Accepting(h \o Bytes(n)) \in Seq(Symbols) /\ Accepted(Accepting(h \o Bytes(n)))
<1>0. PICK k \in Nat, m \in Nat :
        /\ h[1] = k /\ Len(h) = m /\ m >= 1 /\ (k = 3 => m >= 2 /\ h[2] = 2)
        /\ (k = 1 /\ m + n = 7) \/ (k = 3 /\ m + n = 6) \/ (k = 4 /\ m + n = 19)
    BY DEF Fits
<1> DEFINE a == h \o Bytes(n)
           s == Accepting(a)
<1>1. a \in Seq(Symbols) /\ Len(a) = m + n /\ a[1] = k /\ (m >= 2 => a[2] = h[2])
    BY <1>0, Led
<1> HIDE DEF a
<1>2. Len(a) >= 1
    BY <1>0, <1>1
<1>3. s \in Seq(Symbols) /\ Len(s) = 7 + Len(a) /\ s[6] = a[1] /\ Served(s)
    BY <1>1, <1>2, AcceptingShape DEF Served
<1>4. ASSUME k = 3 PROVE s[7] = 2
    <2>1. Len(a) >= 2 /\ a[2] = 2
        BY <1>0, <1>1, <1>4
    <2>2. s[7] = a[2]
        BY <1>1, <1>2, <2>1, AcceptingShape
    <2> QED
        BY <2>1, <2>2
<1> HIDE DEF s
<1>5. Len(s) = 7 + (m + n) /\ s[6] = k
    BY <1>1, <1>3
<1>6. Addressed(s)
    <2>1. CASE k = 1 /\ m + n = 7
        BY <1>5, <2>1 DEF Addressed
    <2>2. CASE k = 3 /\ m + n = 6
        BY <1>4, <1>5, <2>2 DEF Addressed
    <2>3. CASE k = 4 /\ m + n = 19
        BY <1>5, <2>3 DEF Addressed
    <2> QED
        BY <1>0, <2>1, <2>2, <2>3
<1> QED
    BY <1>3, <1>6 DEF a, s, Accepted

\* The engine grants the request and names an address of one of the three kinds.
Granting == {Accepting(<<1>> \o Bytes(6)), Accepting(<<3, 2>> \o Bytes(4)),
             Accepting(<<4>> \o Bytes(18))}
LEMMA AddressesAccepted ==
    ASSUME NEW s \in Granting
    PROVE  s \in Seq(Symbols) /\ Accepted(s)
<1>1. CASE s = Accepting(<<1>> \o Bytes(6))
    <2> DEFINE h == <<1>>
    <2>1. h \in Seq(Symbols) /\ Len(h) = 1 /\ h[1] = 1
        BY DEF Symbols
    <2> HIDE DEF h
    <2>f. Fits(h, 6)
        BY <2>1 DEF Fits
    <2>2. Accepting(h \o Bytes(6)) \in Seq(Symbols) /\ Accepted(Accepting(h \o Bytes(6)))
        BY <2>1, <2>f, AddressAccepted
    <2> QED
        BY <1>1, <2>2 DEF h
<1>2. CASE s = Accepting(<<3, 2>> \o Bytes(4))
    <2> DEFINE h == <<3, 2>>
    <2>1. h \in Seq(Symbols) /\ Len(h) = 2 /\ h[1] = 3 /\ h[2] = 2
        BY DEF Symbols
    <2> HIDE DEF h
    <2>f. Fits(h, 4)
        BY <2>1 DEF Fits
    <2>2. Accepting(h \o Bytes(4)) \in Seq(Symbols) /\ Accepted(Accepting(h \o Bytes(4)))
        BY <2>1, <2>f, AddressAccepted
    <2> QED
        BY <1>2, <2>2 DEF h
<1>3. CASE s = Accepting(<<4>> \o Bytes(18))
    <2> DEFINE h == <<4>>
    <2>1. h \in Seq(Symbols) /\ Len(h) = 1 /\ h[1] = 4
        BY DEF Symbols
    <2> HIDE DEF h
    <2>f. Fits(h, 18)
        BY <2>1 DEF Fits
    <2>2. Accepting(h \o Bytes(18)) \in Seq(Symbols) /\ Accepted(Accepting(h \o Bytes(18)))
        BY <2>1, <2>f, AddressAccepted
    <2> QED
        BY <1>3, <2>2 DEF h
<1> QED
    BY <1>1, <1>2, <1>3 DEF Granting

LEMMA ScriptShape ==
    ASSUME NEW s \in Scripts
    PROVE  /\ s \in Seq(Symbols) /\ Len(s) >= 2
           /\ s[2] = 0 /\ s[4] = 0 => Accepted(s)
<1>1. CASE s = <<5, 255>>
    BY <1>1 DEF Symbols
<1>2. CASE s = <<5, 0, 5, 1, 0, 1>> \o Bytes(6)
    <2> DEFINE h == <<5, 0, 5, 1, 0, 1>>
               b == Bytes(6)
    <2>1. h \in Seq(Symbols) /\ Len(h) = 6 /\ h[4] = 1
        BY DEF Symbols
    <2>2. b \in Seq(Symbols) /\ Len(b) = 6
        BY BytesSeq
    <2> HIDE DEF h, b
    <2>3. /\ h \o b \in Seq(Symbols) /\ Len(h \o b) = Len(h) + Len(b)
          /\ \A i \in 1..Len(h) : (h \o b)[i] = h[i]
        BY <2>1, <2>2, Concatenation
    <2>4. s = h \o b
        BY <1>2 DEF h, b
    <2>5. Len(h \o b) = 12 /\ (h \o b)[4] = 1
        BY <2>1, <2>2, <2>3
    <2> QED
        BY <2>3, <2>4, <2>5
<1>3. ASSUME s \in Seq(Symbols), Accepted(s)
      PROVE  s \in Seq(Symbols) /\ Len(s) >= 2 /\ Accepted(s)
    BY <1>3 DEF Accepted, Addressed
<1>4. \/ s = <<5, 255>> \/ s = <<5, 0, 5, 1, 0, 1>> \o Bytes(6)
      \/ s \in Granting
    BY DEF Scripts, Accepting, Granting
<1> QED
    BY <1>1, <1>2, <1>3, <1>4, AddressesAccepted

-----------------------------------------------------------------------------
(* The handshake. *)

\* What the script says in the places that are looked at.
NoAuth == script[2] = 0
Granted == script[4] = 0
Domain == script[6] = 3
Whole == Len(script)

\* How far it is: the reads it has made and the one it is at end where a part of
\* the script ends.
SocksInv ==
    /\ phase \in {"closed", "method", "reply", "length", "bound", "relay", "failed"}
    /\ need \in Nat /\ read \in Nat /\ given \in Nat /\ sent \in Nat
    /\ phase \notin {"closed", "failed"} =>
           script \in Scripts /\ target \in Targets /\ sent <= Whole
    /\ phase \in {"closed", "method"} => read = 0
    /\ phase = "closed" => sent = 0
    /\ phase \in {"reply", "length", "bound", "relay"} =>
           request = Request(target) /\ NoAuth
    /\ phase \in {"length", "bound", "relay"} => Granted
    /\ phase = "method" => need = 2
    /\ phase = "reply" => read = 2 /\ need = 4
    /\ phase = "length" => read = 6 /\ need = 1 /\ Domain
    /\ phase = "bound" => read + need + 2 = Whole
    /\ phase = "relay" => read + 2 = Whole /\ given <= sent - read
    /\ phase # "relay" => given = 0

LEMMA SocksInvInit == PacketInit => SocksInv
    BY DEF PacketInit, SocksInv

\* What has come stays behind what comes.
LEMMA StillBehind ==
    ASSUME NEW g \in Nat, NEW r \in Nat, NEW s \in Nat, NEW t \in Nat, g <= s - r, t > s
    PROVE  g <= t - r
    OBVIOUS

LEMMA SocksStep == SocksInv /\ [SocksNext]_socksVars => SocksInv'
<1> SUFFICES ASSUME SocksInv, [SocksNext]_socksVars PROVE SocksInv'
    OBVIOUS
<1>s. phase \notin {"closed", "failed"} =>
        /\ script \in Seq(Symbols) /\ Whole \in Nat /\ Whole >= 2
        /\ NoAuth /\ Granted =>
               /\ script[6] \in {1, 3, 4}
               /\ script[6] = 1 => Whole = 14
               /\ script[6] = 3 => Whole = 13 /\ script[7] = 2
               /\ script[6] = 4 => Whole = 26
    BY ScriptShape DEF SocksInv, Accepted, Addressed, NoAuth, Granted, Whole
<1>u. script' = script => NoAuth' = NoAuth /\ Granted' = Granted /\ Domain' = Domain /\ Whole' = Whole
    BY DEF NoAuth, Granted, Domain, Whole
<1>1. CASE OpenSocks
    <2>1. phase' = "method" /\ need' = 2 /\ sent' = 0 /\ read' = 0 /\ given' = 0
        BY <1>1 DEF OpenSocks, SocksInv
    <2>2. script' \in Scripts /\ target' \in Targets /\ Len(script') >= 0
        BY <1>1, ScriptShape DEF OpenSocks
    <2> QED
        BY <2>1, <2>2 DEF SocksInv, Whole
<1>2. CASE ServerSends
    <2>1. sent' \in Nat /\ sent' <= Whole
        BY <1>2, <1>s DEF ServerSends, SocksInv, Whole
    <2>2. sent' > sent
        BY <1>2, <1>s DEF ServerSends, SocksInv, Whole
    <2>3. /\ phase \notin {"closed", "failed"}
          /\ UNCHANGED <<phase, need, target, request, script, read, given>>
        BY <1>2 DEF ServerSends
    <2>4. phase' = "relay" => given' <= sent' - read'
        <3> SUFFICES ASSUME phase = "relay" PROVE given <= sent' - read
            BY <2>3
        <3>1. given <= sent - read /\ given \in Nat /\ sent \in Nat /\ read \in Nat
            BY DEF SocksInv
        <3>2. sent' \in Nat /\ sent' > sent
            BY <2>1, <2>2
        <3> QED
            BY <3>1, <3>2, StillBehind
    <2>5. phase' # "closed" /\ sent' <= Whole' /\ script' = script
        BY <1>u, <2>1, <2>3
    <2> QED
        BY <1>u, <2>1, <2>3, <2>4, <2>5 DEF SocksInv
<1>3. CASE ReadMethod
    <2>1. phase = "method" /\ read = 0 /\ need = 2 /\ read' = 2
        BY <1>u, <1>3 DEF ReadMethod, ReadExact, SocksInv
    <2>2. CASE phase' = "failed" /\ need' = 0
        BY <1>u, <1>3, <2>1, <2>2 DEF ReadMethod, StaySame, SocksInv
    <2>3. CASE ~(phase' = "failed" /\ need' = 0)
        <3>1. NoAuth /\ request' = Request(target) /\ phase' = "reply" /\ need' = 4
            BY <1>3, <2>1, <2>3 DEF ReadMethod, Onward, Got, NoAuth
        <3> QED
            BY <1>u, <1>3, <2>1, <3>1 DEF ReadMethod, StaySame, SocksInv
    <2> QED
        BY <2>2, <2>3
<1>4. CASE ReadReply
    <2>1. phase = "reply" /\ read = 2 /\ need = 4 /\ read' = 6 /\ NoAuth
        BY <1>u, <1>4 DEF ReadReply, ReadExact, SocksInv
    <2>u. UNCHANGED <<target, script, sent, given, request>>
        BY <1>4 DEF ReadReply, StaySame
    <2>2. CASE phase' = "failed" /\ need' = 0
        BY <1>u, <2>1, <2>2, <2>u DEF SocksInv
    <2>3. CASE ~(phase' = "failed" /\ need' = 0)
        <3>1. Granted
            BY <1>4, <2>1, <2>3 DEF ReadReply, Onward, Got, Granted
        <3>2. \/ script[6] = 1 /\ phase' = "bound" /\ need' = 6 /\ Whole = 14
              \/ Domain /\ phase' = "length" /\ need' = 1
              \/ script[6] = 4 /\ phase' = "bound" /\ need' = 18 /\ Whole = 26
            BY <1>4, <1>s, <2>1, <2>3, <3>1 DEF ReadReply, Onward, Got, Granted, NoAuth, Domain
        <3>3. CASE Domain /\ phase' = "length" /\ need' = 1
            BY <1>u, <2>1, <2>u, <3>1, <3>3 DEF SocksInv
        <3>4. CASE phase' = "bound" /\ need' + 8 = Whole /\ need' \in Nat
            BY <1>u, <2>1, <2>u, <3>1, <3>4 DEF SocksInv
        <3> QED
            BY <3>2, <3>3, <3>4
    <2> QED
        BY <2>2, <2>3
<1>5. CASE ReadLength
    <2>1. phase = "length" /\ read = 6 /\ need = 1 /\ read' = 7 /\ Granted /\ Domain
        BY <1>u, <1>5 DEF ReadLength, ReadExact, SocksInv
    <2>2. phase' = "bound" /\ need' = 4 /\ Whole = 13
        BY <1>5, <1>s, <2>1 DEF ReadLength, Onward, Got, SocksInv, Domain
    <2> QED
        BY <1>u, <1>5, <2>1, <2>2 DEF ReadLength, StaySame, SocksInv
<1>6. CASE ReadBound
    <2>1. /\ phase = "bound" /\ read' = read + need /\ need' = 0 /\ sent - read >= need
          /\ phase' = "relay"
        BY <1>6 DEF ReadBound, ReadExact, Onward
    <2> QED
        BY <1>u, <1>6, <2>1 DEF ReadBound, StaySame, SocksInv
<1>7. CASE StreamEnds
    BY <1>u, <1>7 DEF StreamEnds, Onward, StaySame, SocksInv
<1>8. CASE Relay
    <2>1. given' \in Nat /\ given' <= sent - read
        BY <1>u, <1>8 DEF Relay, SocksInv
    <2> QED
        BY <1>u, <1>8, <2>1 DEF Relay, SocksInv
<1>9. CASE UNCHANGED socksVars
    BY <1>u, <1>9 DEF socksVars, SocksInv
<1> QED
    BY <1>1, <1>2, <1>3, <1>4, <1>5, <1>6, <1>7, <1>8, <1>9 DEF SocksNext

\* The part of the script behind the handshake is what the target sends.
LEMMA Behind ==
    ASSUME NEW s \in Seq(Symbols), NEW n \in Nat, NEW g \in Nat, g <= 2, n + 2 = Len(s),
           s[Len(s) - 1] = "first", s[Len(s)] = "second"
    PROVE  SubSeq(s, n + 1, n + g) = SubSeq(FromTarget, 1, g)
<1>1. FromTarget \in Seq(Symbols) /\ FromTarget[1] = "first" /\ FromTarget[2] = "second"
    BY DEF FromTarget, Symbols
<1>2. \A i \in (n + 1)..(n + g) : s[i] \in Symbols
    BY DEF Symbols
<1>3. \A i \in 1..g : FromTarget[i] \in Symbols
    BY <1>1 DEF Symbols
<1>4. /\ SubSeq(s, n + 1, n + g) \in Seq(Symbols)
      /\ Len(SubSeq(s, n + 1, n + g)) = g
      /\ \A i \in 1..g : SubSeq(s, n + 1, n + g)[i] = s[n + i]
    BY <1>2, SubSeqProperties
<1>5. /\ SubSeq(FromTarget, 1, g) \in Seq(Symbols)
      /\ Len(SubSeq(FromTarget, 1, g)) = g
      /\ \A i \in 1..g : SubSeq(FromTarget, 1, g)[i] = FromTarget[i]
    BY <1>3, SubSeqProperties
<1>6. \A i \in 1..g : s[n + i] = FromTarget[i]
    BY <1>1
<1> QED
    BY <1>4, <1>5, <1>6, SeqEqual

\* A step of the whole is a step of the handshake or leaves it alone.
LEMMA PathStepsSocks == [PathNext]_pathVars => [SocksNext]_socksVars
    BY DEF PathNext, pathVars, packetVars, Only, UdpNext, SendQuery, AnswerQuery

\* What the relay brings begins with the target's first byte, and all of the
\* request was taken for one (tun2socks.rs: socks5_connect).
THEOREM RelaysStartClean == PathSpec => []RelayStartsClean
<1>1. PathInit => SocksInv
    BY SocksInvInit DEF PathInit
<1>2. SocksInv /\ [PathNext]_pathVars => SocksInv'
    BY PathStepsSocks, SocksStep
<1>3. SocksInv => RelayStartsClean
    <2> SUFFICES ASSUME SocksInv, phase = "relay" PROVE RelayStartsClean
        BY DEF RelayStartsClean
    <2>1. /\ script \in Scripts /\ target \in Targets /\ NoAuth /\ Granted
          /\ request = Request(target) /\ read \in Nat /\ given \in Nat /\ sent \in Nat
          /\ sent <= Len(script) /\ read + 2 = Len(script) /\ given <= sent - read
        BY DEF SocksInv, Whole
    <2>2. RequestTakes(request) = Len(request)
        BY <2>1, RequestTaken
    <2>3. /\ script \in Seq(Symbols) /\ script[Len(script) - 1] = "first"
          /\ script[Len(script)] = "second"
        BY <2>1, ScriptShape DEF Accepted, Served, NoAuth, Granted
    <2>4. given <= 2
        BY <2>1, <2>3
    <2>5. SubSeq(script, read + 1, read + given) = SubSeq(FromTarget, 1, given)
        BY <2>1, <2>3, <2>4, Behind
    <2> QED
        BY <2>2, <2>5 DEF RelayStartsClean
<1> QED
    BY <1>1, <1>2, <1>3, PTL DEF PathSpec
-----------------------------------------------------------------------------
(* The names. *)

Entries == [host : Hosts, expires_at : Nat]
Insertions == [by : Ids, since : Nat, ttl : Nat]

IsAsking(q) ==
    /\ q.at = "asking" /\ q = [at |-> "asking", host |-> q.host, url |-> q.url,
                                failed |-> q.failed, session |-> q.session]
    /\ q.host \in Hosts

\* What a query that has its answer looks like.
HasAnswer(q) == q = [at |-> "inserting", host |-> q.host, session |-> q.session,
                     todo |-> q.todo, truth |-> q.truth, whole |-> q.whole]

IsInserting(q) ==
    /\ q.at = "inserting" /\ q = [at |-> "inserting", host |-> q.host, session |-> q.session,
                                   todo |-> q.todo, truth |-> q.truth, whole |-> q.whole]
    /\ q.host \in Hosts /\ q.truth \subseteq Addrs /\ q.todo \in Seq(Records)
    /\ \A k \in 1..Len(q.todo) : q.todo[k].host = q.host /\ q.todo[k].addr \in q.truth

IsReplied(q) ==
    /\ q.at = "replied" /\ q = [at |-> "replied", host |-> q.host, truth |-> q.truth]
    /\ q.host \in Hosts /\ q.truth \subseteq Addrs

NameTypes ==
    /\ now \in Nat
    /\ queries = [i \in Ids |-> queries[i]]
    /\ \A i \in Ids : \/ queries[i].at \in {"free", "unanswered", "dead"}
                      \/ IsAsking(queries[i]) \/ IsInserting(queries[i]) \/ IsReplied(queries[i])
    /\ table \in [Addrs -> Entries \cup {None}]
    /\ last \in [Addrs -> Insertions \cup {None}]
    /\ heard \subseteq [addr : Addrs, by : Ids]

\* What a query has put, or has still to put, into the table.
TodoInv ==
    \A i \in Ids : queries[i].at = "inserting" /\ queries[i].whole =>
        \A a \in queries[i].truth :
            last[a] # None \/ \E k \in 1..Len(queries[i].todo) : queries[i].todo[k].addr = a

\* The insertion an entry comes from, and what is left of it in the table.
Ends(l) == l.since + Clamp(l.ttl)
LastInv ==
    \A a \in Addrs : last[a] # None =>
        /\ queries[last[a].by].at \in {"inserting", "replied"}
        /\ a \in queries[last[a].by].truth
        /\ now < Ends(last[a]) => table[a] # None
        /\ table[a] # None => table[a] = [host |-> queries[last[a].by].host,
                                          expires_at |-> Ends(last[a])]

\* No entry without an insertion, nothing heard before it was inserted.
TableInv == \A a \in Addrs : last[a] = None => table[a] = None
HeardInv == \A h \in heard : queries[h.by].at \in {"replied", "dead"}
                /\ (queries[h.by].at = "replied" => last[h.addr] # None)

NameInv == NameTypes /\ TodoInv /\ LastInv /\ TableInv /\ HeardInv

\* A time to live within the limits.
LEMMA ClampBounds == \A t \in Nat : Clamp(t) \in Nat /\ Clamp(t) <= MaxTtl
    BY PathAssumption DEF Clamp

\* Eviction takes nothing that lives, and puts nothing in.
LEMMA EvictKeeps ==
    ASSUME NEW t \in [Addrs -> Entries \cup {None}]
    PROVE  /\ Evict(t) \in [Addrs -> Entries \cup {None}]
           /\ \A a \in Addrs : Evict(t)[a] = t[a] \/ (~Live(t[a]) /\ Evict(t)[a] = None)
    BY DEF Evict

\* Records are no model of absence.
LEMMA NoneIsNoRecord == None \notin Entries /\ None \notin Insertions
    BY PathAssumption DEF Entries, Insertions, Ids

\* The head of what a query has still to insert, and what remains.
LEMMA HeadAndTail ==
    ASSUME NEW s \in Seq(Records), s # <<>>
    PROVE  /\ Head(s) \in Records /\ Tail(s) \in Seq(Records) /\ Head(s) = s[1]
           /\ Len(s) \in Nat \ {0} /\ Len(Tail(s)) = Len(s) - 1
           /\ \A k \in 1..Len(Tail(s)) : Tail(s)[k] = s[k + 1]
    BY HeadTailProperties

\* A query with something else to insert.
LEMMA OtherAnswer ==
    ASSUME NEW q, HasAnswer(q), NEW s
    PROVE  [q EXCEPT !.todo = s] =
               [at |-> "inserting", host |-> q.host, session |-> q.session,
                todo |-> s, truth |-> q.truth, whole |-> q.whole]
<1> DEFINE r(h, n, o, t, w) == [at |-> "inserting", host |-> h, session |-> n,
                                todo |-> o, truth |-> t, whole |-> w]
<1>1. q = r(q.host, q.session, q.todo, q.truth, q.whole)
    BY DEF HasAnswer
<1>2. \A h, n, o, t, w : [r(h, n, o, t, w) EXCEPT !.todo = s] = r(h, n, s, t, w)
    OBVIOUS
<1> HIDE DEF r
<1>3. [q EXCEPT !.todo = s] = r(q.host, q.session, s, q.truth, q.whole)
    BY <1>1, <1>2
<1> QED
    BY <1>3 DEF r

LEMMA OtherTodo ==
    ASSUME NEW q, IsInserting(q), NEW s
    PROVE  [q EXCEPT !.todo = s] =
               [at |-> "inserting", host |-> q.host, session |-> q.session,
                todo |-> s, truth |-> q.truth, whole |-> q.whole]
BY OtherAnswer DEF IsInserting, HasAnswer

\* What a step makes of one query, as to the others.
LEMMA OneQuery ==
    ASSUME queries = [i \in Ids |-> queries[i]], NEW i \in Ids, NEW q,
           queries' = [queries EXCEPT ![i] = q]
    PROVE  /\ queries' = [j \in Ids |-> queries'[j]] /\ queries'[i] = q
           /\ \A j \in Ids : j # i => queries'[j] = queries[j]
    OBVIOUS

LEMMA NameInvInit == Init => NameInv
<1> SUFFICES ASSUME Init PROVE NameInv
    OBVIOUS
<1>1. NameTypes
    BY DEF Init, NameTypes, Free
<1>2. /\ \A i \in Ids : queries[i].at = "free"
      /\ \A a \in Addrs : last[a] = None /\ table[a] = None
      /\ heard = {}
    BY DEF Init, Free
<1> QED
    BY <1>1, <1>2 DEF NameInv, TodoInv, LastInv, TableInv, HeardInv

\* A step that leaves time, table and insertions alone and brings a query from
\* one state to the next keeps what is said of the others.
LEMMA AskingStep ==
    ASSUME NameInv, NEW i \in Ids, NEW q,
           queries' = [queries EXCEPT ![i] = q],
           queries[i].at \in {"free", "asking"},
           q.at = "unanswered" \/ IsAsking(q) \/ IsInserting(q),
           q.at = "inserting" /\ q.whole =>
               \A a \in q.truth : \E k \in 1..Len(q.todo) : q.todo[k].addr = a,
           UNCHANGED <<now, table, last, heard>>
    PROVE  NameInv'
<1>1. NameTypes /\ TodoInv /\ LastInv /\ TableInv /\ HeardInv
    BY DEF NameInv
<1>2. /\ queries' = [j \in Ids |-> queries'[j]] /\ queries'[i] = q
      /\ \A j \in Ids : j # i => queries'[j] = queries[j]
    BY <1>1, OneQuery DEF NameTypes
<1>3. q.at \in {"unanswered", "asking", "inserting"}
    BY DEF IsAsking, IsInserting
<1>4. NameTypes'
    <2>1. \A j \in Ids : \/ queries'[j].at \in {"free", "unanswered", "dead"}
                         \/ IsAsking(queries'[j]) \/ IsInserting(queries'[j]) \/ IsReplied(queries'[j])
        BY <1>1, <1>2 DEF NameTypes
    <2> QED
        BY <1>1, <1>2, <2>1 DEF NameTypes, IsAsking, IsInserting, IsReplied
<1>5. TodoInv'
    BY <1>1, <1>2 DEF TodoInv
<1>6. \A a \in Addrs : last[a] # None => last[a].by \in Ids /\ last[a].by # i
    BY <1>1 DEF NameTypes, LastInv, Insertions
<1>7. LastInv'
    <2> SUFFICES ASSUME NEW a \in Addrs, last[a] # None
                 PROVE  /\ queries'[last[a].by].at \in {"inserting", "replied"}
                        /\ a \in queries'[last[a].by].truth
                        /\ now < Ends(last[a]) => table[a] # None
                        /\ table[a] # None => table[a] = [host |-> queries'[last[a].by].host,
                                                          expires_at |-> Ends(last[a])]
        BY DEF LastInv, Ends, Clamp
    <2>1. queries'[last[a].by] = queries[last[a].by]
        BY <1>2, <1>6
    <2> QED
        BY <1>1, <2>1 DEF LastInv
<1>8. TableInv'
    BY <1>1 DEF TableInv
<1>9. HeardInv'
    BY <1>1, <1>2 DEF HeardInv, NameTypes
<1> QED
    BY <1>4, <1>5, <1>7, <1>8, <1>9 DEF NameInv

\* A step that changes neither queries nor insertions, and takes from the table
\* only what has expired.
LEMMA TableStep ==
    ASSUME NameInv, UNCHANGED <<queries, last, heard>>, now' \in Nat, now <= now',
           table' \in [Addrs -> Entries \cup {None}],
           \A a \in Addrs : table'[a] = table[a] \/ (~Live(table[a]) /\ table'[a] = None)
    PROVE  NameInv'
<1>1. NameTypes /\ TodoInv /\ LastInv /\ TableInv /\ HeardInv
    BY DEF NameInv
<1>2. NameTypes'
    BY <1>1 DEF NameTypes, IsAsking, IsInserting, IsReplied
<1>3. TodoInv' /\ TableInv' /\ HeardInv'
    BY <1>1 DEF TodoInv, TableInv, HeardInv
<1>4. LastInv'
    <2> SUFFICES ASSUME NEW a \in Addrs, last[a] # None
                 PROVE  /\ queries[last[a].by].at \in {"inserting", "replied"}
                        /\ a \in queries[last[a].by].truth
                        /\ now' < Ends(last[a]) => table'[a] # None
                        /\ table'[a] # None => table'[a] = [host |-> queries[last[a].by].host,
                                                            expires_at |-> Ends(last[a])]
        BY DEF LastInv, Ends, Clamp
    <2>1. /\ queries[last[a].by].at \in {"inserting", "replied"}
          /\ a \in queries[last[a].by].truth
          /\ now < Ends(last[a]) => table[a] # None
          /\ table[a] # None => table[a] = [host |-> queries[last[a].by].host,
                                            expires_at |-> Ends(last[a])]
        BY <1>1 DEF LastInv
    <2>2. now \in Nat /\ Ends(last[a]) \in Nat
        BY <1>1, ClampBounds DEF NameTypes, Insertions, Ends
    <2>3. now' < Ends(last[a]) => now < Ends(last[a])
        BY <2>2
    <2>4. now < Ends(last[a]) => Live(table[a])
        BY <2>1, <2>2 DEF Live
    <2> QED
        BY <2>1, <2>3, <2>4
<1> QED
    BY <1>2, <1>3, <1>4 DEF NameInv

LEMMA InsertStep ==
    ASSUME NameInv, NEW i \in Ids, Insert(i)
    PROVE  NameInv'
<1>1. NameTypes /\ TodoInv /\ LastInv /\ TableInv /\ HeardInv
    BY DEF NameInv
<1> DEFINE q == queries[i]
           r == Head(q.todo)
           e == [host |-> r.host, expires_at |-> now + Clamp(r.ttl)]
           t == [table EXCEPT ![r.addr] = e]
           l == [by |-> i, since |-> now, ttl |-> r.ttl]
           p == [at |-> "inserting", host |-> q.host, session |-> q.session,
                 todo |-> Tail(q.todo), truth |-> q.truth, whole |-> q.whole]
<1>2. /\ IsInserting(q) /\ q.todo # <<>> /\ UNCHANGED <<now, heard>>
      /\ table' = Evict(t) /\ last' = [last EXCEPT ![r.addr] = l]
      /\ queries' = [queries EXCEPT ![i].todo = Tail(q.todo)]
    BY <1>1 DEF Insert, NameTypes, IsAsking, IsReplied
<1>3. queries' = [queries EXCEPT ![i] = p]
    <2>1. [q EXCEPT !.todo = Tail(q.todo)] = p
        BY <1>2, OtherTodo
    <2> QED
        BY <1>2, <2>1
<1>4. /\ r \in Records /\ Tail(q.todo) \in Seq(Records) /\ r = q.todo[1]
      /\ Len(q.todo) \in Nat \ {0} /\ Len(Tail(q.todo)) = Len(q.todo) - 1
      /\ \A k \in 1..Len(Tail(q.todo)) : Tail(q.todo)[k] = q.todo[k + 1]
    BY <1>2, HeadAndTail DEF IsInserting
<1>5. r.addr \in Addrs /\ r.host \in Hosts /\ r.ttl \in Nat /\ now \in Nat /\ Clamp(r.ttl) \in Nat
    BY <1>1, <1>4, ClampBounds DEF Records, NameTypes
<1>6. e \in Entries /\ l \in Insertions
    BY <1>5 DEF Entries, Insertions
<1>7. r.host = q.host /\ r.addr \in q.truth
    BY <1>2, <1>4 DEF IsInserting
<1>8. IsInserting(p)
    <2>1. \A k \in 1..Len(Tail(q.todo)) : k + 1 \in 1..Len(q.todo)
        BY <1>4
    <2> QED
        BY <1>2, <1>4, <2>1 DEF IsInserting
<1>9. t \in [Addrs -> Entries \cup {None}] /\ last' \in [Addrs -> Insertions \cup {None}]
    BY <1>1, <1>2, <1>5, <1>6 DEF NameTypes
<1>10. /\ table' \in [Addrs -> Entries \cup {None}]
       /\ \A a \in Addrs : table'[a] = t[a] \/ (~Live(t[a]) /\ table'[a] = None)
    BY <1>2, <1>9, EvictKeeps
<1>11. /\ queries' = [j \in Ids |-> queries'[j]] /\ queries'[i] = p
       /\ \A j \in Ids : j # i => queries'[j] = queries[j]
    BY <1>1, <1>3, OneQuery DEF NameTypes
<1>12. /\ last'[r.addr] = l /\ l # None
       /\ \A a \in Addrs : a # r.addr => last'[a] = last[a] /\ t[a] = table[a]
       /\ t[r.addr] = e /\ e # None
    BY <1>1, <1>2, <1>5, <1>6, NoneIsNoRecord DEF NameTypes
<1>13. \A j \in Ids : /\ queries'[j].at = queries[j].at
                      /\ queries[j].at \in {"inserting", "replied"} =>
                             queries'[j].host = queries[j].host /\ queries'[j].truth = queries[j].truth
    BY <1>2, <1>11 DEF IsInserting
<1> HIDE DEF e, t, l, p, r
<1>14. NameTypes'
    <2>1. \A j \in Ids : \/ queries'[j].at \in {"free", "unanswered", "dead"}
                         \/ IsAsking(queries'[j]) \/ IsInserting(queries'[j]) \/ IsReplied(queries'[j])
        BY <1>1, <1>8, <1>11 DEF NameTypes
    <2> QED
        BY <1>1, <1>2, <1>9, <1>10, <1>11, <2>1 DEF NameTypes, IsAsking, IsInserting, IsReplied
<1>15. TodoInv'
    <2> SUFFICES ASSUME NEW j \in Ids, queries'[j].at = "inserting", queries'[j].whole,
                        NEW a \in queries'[j].truth
                 PROVE  last'[a] # None \/ \E k \in 1..Len(queries'[j].todo) : queries'[j].todo[k].addr = a
        BY DEF TodoInv
    <2>1. a \in Addrs
        BY <1>14 DEF NameTypes, IsAsking, IsInserting, IsReplied
    <2>2. last[a] # None => last'[a] # None
        BY <1>12, <2>1
    <2>3. CASE j # i
        BY <1>1, <1>11, <2>2, <2>3 DEF TodoInv
    <2>4. CASE j = i
        <3>1. q.at = "inserting" /\ q.whole /\ a \in q.truth /\ queries'[j].todo = Tail(q.todo)
            BY <1>2, <1>11, <2>4 DEF p, IsInserting
        <3>2. last[a] # None \/ \E k \in 1..Len(q.todo) : q.todo[k].addr = a
            BY <1>1, <3>1 DEF TodoInv
        <3>3. ASSUME NEW k \in 1..Len(q.todo), q.todo[k].addr = a
              PROVE  last'[a] # None \/ \E m \in 1..Len(Tail(q.todo)) : Tail(q.todo)[m].addr = a
            <4>1. CASE k = 1
                BY <1>4, <1>12, <3>3, <4>1
            <4>2. CASE k # 1
                <5>1. k - 1 \in 1..Len(Tail(q.todo)) /\ q.todo[(k - 1) + 1] = q.todo[k]
                    BY <1>4, <4>2
                <5>2. Tail(q.todo)[k - 1].addr = a
                    BY <1>4, <3>3, <5>1
                <5> QED
                    BY <5>1, <5>2
            <4> QED
                BY <4>1, <4>2
        <3> QED
            BY <2>2, <3>1, <3>2, <3>3
    <2> QED
        BY <2>3, <2>4
<1>16. LastInv'
    <2> SUFFICES ASSUME NEW a \in Addrs, last'[a] # None
                 PROVE  /\ queries'[last'[a].by].at \in {"inserting", "replied"}
                        /\ a \in queries'[last'[a].by].truth
                        /\ now < Ends(last'[a]) => table'[a] # None
                        /\ table'[a] # None => table'[a] = [host |-> queries'[last'[a].by].host,
                                                            expires_at |-> Ends(last'[a])]
        BY <1>2 DEF LastInv, Ends, Clamp
    <2>1. CASE a = r.addr
        <3>1. /\ last'[a].by = i /\ Ends(last'[a]) = now + Clamp(r.ttl)
              /\ t[a] = [host |-> q.host, expires_at |-> now + Clamp(r.ttl)]
            BY <1>7, <1>12, <2>1 DEF l, e, Ends
        <3>2. /\ queries'[i].at = "inserting" /\ a \in queries'[i].truth
              /\ queries'[i].host = q.host
            BY <1>7, <1>11, <2>1 DEF p
        <3>3. now < now + Clamp(r.ttl) => Live(t[a])
            BY <1>5, <1>12, <2>1, <3>1 DEF Live
        <3>4. table'[a] = t[a] \/ (~Live(t[a]) /\ table'[a] = None)
            BY <1>10
        <3>5. t[a] # None
            BY <1>12, <2>1
        <3> QED
            BY <3>1, <3>2, <3>3, <3>4, <3>5
    <2>2. CASE a # r.addr
        <3>1. last'[a] = last[a] /\ t[a] = table[a] /\ last[a] # None
            BY <1>12, <2>2
        <3>2. last[a].by \in Ids /\ Ends(last[a]) \in Nat
            BY <1>1, <3>1, ClampBounds DEF NameTypes, Insertions, Ends
        <3>3. /\ queries[last[a].by].at \in {"inserting", "replied"}
              /\ a \in queries[last[a].by].truth
              /\ now < Ends(last[a]) => table[a] # None
              /\ table[a] # None => table[a] = [host |-> queries[last[a].by].host,
                                                expires_at |-> Ends(last[a])]
            BY <1>1, <3>1 DEF LastInv
        <3>4. now < Ends(last[a]) => Live(table[a])
            BY <1>5, <3>2, <3>3 DEF Live
        <3>5. /\ queries'[last[a].by].at \in {"inserting", "replied"}
              /\ a \in queries'[last[a].by].truth
              /\ queries'[last[a].by].host = queries[last[a].by].host
            BY <1>13, <3>2, <3>3
        <3>6. table'[a] = table[a] \/ (~Live(table[a]) /\ table'[a] = None)
            BY <1>10, <3>1
        <3> QED
            BY <3>1, <3>3, <3>4, <3>5, <3>6
    <2> QED
        BY <2>1, <2>2
<1>17. TableInv'
    <2> SUFFICES ASSUME NEW a \in Addrs, last'[a] = None PROVE table'[a] = None
        BY DEF TableInv
    <2>1. a # r.addr /\ last[a] = None /\ t[a] = table[a]
        BY <1>12
    <2> QED
        BY <1>1, <1>10, <2>1 DEF TableInv
<1>18. HeardInv'
    BY <1>1, <1>2, <1>12, <1>13 DEF HeardInv, NameTypes
<1> QED
    BY <1>14, <1>15, <1>16, <1>17, <1>18 DEF NameInv

LEMMA ReplyStep ==
    ASSUME NameInv, NEW i \in Ids, Reply(i)
    PROVE  NameInv'
<1>1. NameTypes /\ TodoInv /\ LastInv /\ TableInv /\ HeardInv
    BY DEF NameInv
<1> DEFINE q == queries[i]
           p == [at |-> "replied", host |-> q.host, truth |-> q.truth]
           new == {[addr |-> a, by |-> i] : a \in {b \in q.truth : q.whole /\ on /\ q.session = session}}
<1>2. /\ IsInserting(q) /\ q.todo = <<>> /\ UNCHANGED <<now, table, last>>
      /\ queries' = [queries EXCEPT ![i] = p] /\ heard' = heard \cup new
    BY <1>1 DEF Reply, Inserted, NameTypes, IsAsking, IsReplied
<1>3. /\ queries' = [j \in Ids |-> queries'[j]] /\ queries'[i] = p
      /\ \A j \in Ids : j # i => queries'[j] = queries[j]
    BY <1>1, <1>2, OneQuery DEF NameTypes
<1>4. IsReplied(p) /\ q.at = "inserting"
    BY <1>2 DEF IsReplied, IsInserting
<1>5. \A h \in new : h.by = i /\ h.addr \in Addrs /\ last[h.addr] # None /\ h \in [addr : Addrs, by : Ids]
    <2> SUFFICES ASSUME NEW a \in q.truth, q.whole PROVE a \in Addrs /\ last[a] # None
        OBVIOUS
    <2>1. Len(q.todo) = 0
        BY <1>2
    <2> QED
        BY <1>1, <1>2, <1>4, <2>1 DEF TodoInv, IsInserting
<1>6. NameTypes'
    <2>1. \A j \in Ids : \/ queries'[j].at \in {"free", "unanswered", "dead"}
                         \/ IsAsking(queries'[j]) \/ IsInserting(queries'[j]) \/ IsReplied(queries'[j])
        BY <1>1, <1>3, <1>4 DEF NameTypes
    <2>2. heard' \subseteq [addr : Addrs, by : Ids]
        BY <1>1, <1>2, <1>5 DEF NameTypes
    <2> QED
        BY <1>1, <1>2, <1>3, <2>1, <2>2 DEF NameTypes, IsAsking, IsInserting, IsReplied
<1>7. TodoInv'
    BY <1>1, <1>2, <1>3 DEF TodoInv
<1>8. LastInv'
    <2> SUFFICES ASSUME NEW a \in Addrs, last[a] # None
                 PROVE  /\ queries'[last[a].by].at \in {"inserting", "replied"}
                        /\ a \in queries'[last[a].by].truth
                        /\ now < Ends(last[a]) => table[a] # None
                        /\ table[a] # None => table[a] = [host |-> queries'[last[a].by].host,
                                                          expires_at |-> Ends(last[a])]
        BY <1>2 DEF LastInv, Ends, Clamp
    <2>1. last[a].by \in Ids
        BY <1>1 DEF NameTypes, Insertions
    <2>2. /\ queries'[last[a].by].at \in {queries[last[a].by].at, "replied"}
          /\ queries[last[a].by].at \in {"inserting", "replied"} =>
                 /\ queries'[last[a].by].truth = queries[last[a].by].truth
                 /\ queries'[last[a].by].host = queries[last[a].by].host
        BY <1>3, <2>1
    <2> QED
        BY <1>1, <2>2 DEF LastInv
<1>9. TableInv'
    BY <1>1, <1>2 DEF TableInv
<1>10. HeardInv'
    <2> SUFFICES ASSUME NEW h \in heard'
                 PROVE  /\ queries'[h.by].at \in {"replied", "dead"}
                        /\ queries'[h.by].at = "replied" => last[h.addr] # None
        BY <1>2 DEF HeardInv
    <2>1. CASE h \in new
        BY <1>3, <1>5, <2>1
    <2>2. CASE h \in heard
        BY <1>1, <1>3, <1>4, <2>2 DEF HeardInv, NameTypes
    <2> QED
        BY <1>2, <2>1, <2>2
<1> QED
    BY <1>6, <1>7, <1>8, <1>9, <1>10 DEF NameInv

\* Every step keeps the invariant.
LEMMA NameStep == ParsesTruly /\ NameInv /\ [Next]_vars => NameInv'
<1> SUFFICES ASSUME ParsesTruly, NameInv, [Next]_vars PROVE NameInv'
    OBVIOUS
<1>1. NameTypes /\ TodoInv /\ LastInv /\ TableInv /\ HeardInv
    BY DEF NameInv
<1>2. CASE Tick
    <2>1. now' \in Nat /\ now <= now' /\ UNCHANGED <<table, queries, last, heard>>
        BY <1>1, <1>2 DEF Tick, NameTypes
    <2> QED
        BY <1>1, <2>1, TableStep DEF NameTypes
<1>3. CASE SetDohServer \/ StartSession \/ StopSession \/ UNCHANGED vars
    <2>1. UNCHANGED <<now, table, queries, last, heard>>
        BY <1>3 DEF SetDohServer, StartSession, StopSession, vars
    <2> QED
        BY <1>1, <2>1, TableStep DEF NameTypes
<1>4. CASE ProcessDies
    <2>1. /\ queries' = [i \in Ids |-> queries'[i]]
          /\ \A i \in Ids : queries'[i].at \in {"free", "dead"}
          /\ \A i \in Ids : queries[i].at # "free" => queries'[i].at = "dead"
          /\ \A a \in Addrs : last'[a] = None /\ table'[a] = None
          /\ UNCHANGED <<now, heard>>
        BY <1>4 DEF ProcessDies, Free
    <2>2. NameTypes'
        BY <1>1, <1>4, <2>1 DEF NameTypes, ProcessDies
    <2>3. HeardInv'
        BY <1>1, <2>1 DEF HeardInv, NameTypes
    <2> QED
        BY <2>1, <2>2, <2>3 DEF NameInv, TodoInv, LastInv, TableInv
<1>5. ASSUME NEW i \in Ids, Ask(i) PROVE NameInv'
    <2>1. PICK host \in Hosts : queries' = [queries EXCEPT ![i] =
              [at |-> "asking", host |-> host, url |-> 1, failed |-> <<>>, session |-> session]]
        BY <1>5 DEF Ask
    <2> DEFINE q == [at |-> "asking", host |-> host, url |-> 1, failed |-> <<>>, session |-> session]
    <2>2. IsAsking(q) /\ q.at # "inserting"
        BY DEF IsAsking
    <2> HIDE DEF q
    <2>3. queries' = [queries EXCEPT ![i] = q]
        BY <2>1 DEF q
    <2>4. queries[i].at \in {"free", "asking"} /\ UNCHANGED <<now, table, last, heard>>
        BY <1>5 DEF Ask
    <2> QED
        BY <2>2, <2>3, <2>4, AskingStep
<1>6. ASSUME NEW i \in Ids, Answered(i) PROVE NameInv'
    <2>1. IsAsking(queries[i])
        BY <1>1, <1>6 DEF Answered, NameTypes, IsInserting, IsReplied
    <2>2. PICK o \in Outcomes[queries[i].host] : queries' = [queries EXCEPT ![i] =
              [at |-> "inserting", host |-> queries[i].host, session |-> queries[i].session,
               todo |-> o.todo, truth |-> o.truth, whole |-> o.whole]]
        BY <1>1, <1>6 DEF Answered
    <2> DEFINE q == [at |-> "inserting", host |-> queries[i].host, session |-> queries[i].session,
                     todo |-> o.todo, truth |-> o.truth, whole |-> o.whole]
    <2>3. /\ o.truth \subseteq Addrs /\ o.todo \in Seq(Records) /\ queries[i].host \in Hosts
          /\ \A k \in 1..Len(o.todo) : o.todo[k].host = queries[i].host /\ o.todo[k].addr \in o.truth
          /\ o.whole => \A a \in o.truth : \E k \in 1..Len(o.todo) : o.todo[k].addr = a
        BY <2>1 DEF ParsesTruly, IsAsking
    <2>4. /\ IsInserting(q)
          /\ q.whole => \A a \in q.truth : \E k \in 1..Len(q.todo) : q.todo[k].addr = a
        BY <2>3 DEF IsInserting
    <2> HIDE DEF q
    <2>5. queries' = [queries EXCEPT ![i] = q]
        BY <2>2 DEF q
    <2>6. queries[i].at \in {"free", "asking"} /\ UNCHANGED <<now, table, last, heard>>
        BY <1>6 DEF Answered
    <2> QED
        BY <2>4, <2>5, <2>6, AskingStep
<1>7. ASSUME NEW i \in Ids, Fails(i) PROVE NameInv'
    <2>1. IsAsking(queries[i])
        BY <1>1, <1>7 DEF Fails, NameTypes, IsInserting, IsReplied
    <2> DEFINE old == queries[i]
               failed == Append(old.failed, client[old.url])
               q == Refused([old EXCEPT !.failed = failed])
    <2>2. [old EXCEPT !.failed = failed] = [at |-> "asking", host |-> old.host, url |-> old.url,
                                            failed |-> failed, session |-> old.session]
        BY <2>1 DEF IsAsking
    <2>3. q = [at |-> "unanswered", failed |-> failed]
            \/ q = [at |-> "asking", host |-> old.host, url |-> old.url + 1,
                    failed |-> failed, session |-> old.session]
        BY <2>2 DEF Refused
    <2>4. q.at # "inserting" /\ (q.at = "unanswered" \/ IsAsking(q))
        <3>1. CASE q = [at |-> "unanswered", failed |-> failed]
            BY <3>1
        <3>2. CASE q = [at |-> "asking", host |-> old.host, url |-> old.url + 1,
                        failed |-> failed, session |-> old.session]
            <4>1. old.host \in Hosts
                BY <2>1 DEF IsAsking
            <4> HIDE DEF q, failed
            <4>2. IsAsking(q)
                BY <3>2, <4>1 DEF IsAsking
            <4> QED
                BY <4>2 DEF IsAsking
        <3> QED
            BY <2>3, <3>1, <3>2
    <2>5. queries' = [queries EXCEPT ![i] = q]
        BY <1>7 DEF Fails
    <2>6. queries[i].at \in {"free", "asking"} /\ UNCHANGED <<now, table, last, heard>>
        BY <1>7 DEF Fails
    <2> HIDE DEF q, old, failed
    <2>7. q.at # "inserting"
        BY <2>4
    <2> QED
        BY <2>4, <2>5, <2>6, <2>7, AskingStep
<1>8. ASSUME NEW a \in Addrs, Connect(a) PROVE NameInv'
    <2>1. /\ UNCHANGED <<now, queries, last, heard>>
          /\ table' = [table EXCEPT ![a] = IF Live(table[a]) THEN table[a] ELSE None]
        BY <1>8 DEF Connect
    <2>2. /\ table' \in [Addrs -> Entries \cup {None}]
          /\ \A b \in Addrs : table'[b] = table[b] \/ (~Live(table[b]) /\ table'[b] = None)
        BY <1>1, <2>1 DEF NameTypes
    <2>3. now' \in Nat /\ now <= now'
        BY <1>1, <2>1 DEF NameTypes
    <2> QED
        BY <2>1, <2>2, <2>3, TableStep
<1> QED
    BY <1>2, <1>3, <1>4, <1>5, <1>6, <1>7, <1>8, InsertStep, ReplyStep DEF Next, Task

\* A step of the whole is a step of the names or leaves them alone.
LEMMA PathStepsNames == [PathNext]_pathVars => [Next]_vars
    BY DEF PathNext, pathVars, Only

LEMMA NameInvariance ==
    ASSUME ParsesTruly
    PROVE  PathSpec => []NameInv
<1>1. PathInit => NameInv
    BY NameInvInit DEF PathInit
<1>2. NameInv /\ [PathNext]_pathVars => NameInv'
    BY PathStepsNames, NameStep
<1> QED
    BY <1>1, <1>2, PTL DEF PathSpec

\* If the parser finds what is in a message, a connection is given to the engine
\* only by the name of the latest answer with its address, while it lasts
\* (dns_table.rs: dns_table_insert, dns_table_lookup).
THEOREM NamesComeFromAnswers ==
    ASSUME ParsesTruly
    PROVE  PathSpec => []NamedByAnswers
<1>1. NameInv => NamedByAnswers
    <2> SUFFICES ASSUME NameInv, NEW a \in Addrs, Lookup(a) # None
                 PROVE  /\ last[a] # None /\ now < last[a].since + MaxTtl
                        /\ queries[last[a].by].host = Lookup(a)
                        /\ a \in queries[last[a].by].truth
        BY DEF NamedByAnswers
    <2>1. Live(table[a]) /\ Lookup(a) = table[a].host
        BY DEF Lookup
    <2>2. table[a] # None /\ table[a].expires_at > now
        BY <2>1 DEF Live
    <2>3. last[a] # None
        BY <2>2 DEF NameInv, TableInv
    <2>4. /\ a \in queries[last[a].by].truth
          /\ table[a] = [host |-> queries[last[a].by].host, expires_at |-> Ends(last[a])]
        BY <2>2, <2>3 DEF NameInv, LastInv
    <2>5. now \in Nat /\ last[a].since \in Nat /\ last[a].ttl \in Nat
        BY <2>3 DEF NameInv, NameTypes, Insertions
    <2>6. Clamp(last[a].ttl) \in Nat /\ Clamp(last[a].ttl) <= MaxTtl /\ MaxTtl \in Nat
        BY <2>5, ClampBounds, PathAssumption
    <2>7. now < last[a].since + Clamp(last[a].ttl)
        BY <2>2, <2>4 DEF Ends
    <2> QED
        BY <2>1, <2>3, <2>4, <2>5, <2>6, <2>7
<1> QED
    BY <1>1, NameInvariance, PTL

\* If the parser finds what is in a message, an app that was told an address is
\* connected by the name it asked for, while the answer lasts (tun2socks.rs:
\* handle_dns_query).
THEOREM FreshAnswersName ==
    ASSUME ParsesTruly
    PROVE  PathSpec => []FreshIsNamed
<1>1. NameInv => FreshIsNamed
    <2> SUFFICES ASSUME NameInv, NEW h \in heard, queries[h.by].at = "replied",
                        \/ last[h.addr] = None
                        \/ /\ last[h.addr].by = h.by
                           /\ now < last[h.addr].since + Clamp(last[h.addr].ttl)
                 PROVE  Lookup(h.addr) = queries[h.by].host
        BY DEF FreshIsNamed
    <2>1. h.addr \in Addrs /\ last[h.addr] # None
        BY DEF NameInv, NameTypes, HeardInv
    <2>2. last[h.addr].by = h.by /\ now < Ends(last[h.addr])
        BY <2>1 DEF Ends
    <2>3. table[h.addr] # None
        BY <2>1, <2>2 DEF NameInv, LastInv
    <2>4. table[h.addr] = [host |-> queries[h.by].host, expires_at |-> Ends(last[h.addr])]
        BY <2>1, <2>2, <2>3 DEF NameInv, LastInv
    <2>5. now \in Nat /\ Ends(last[h.addr]) \in Nat
        BY <2>1, ClampBounds DEF NameInv, NameTypes, Insertions, Ends
    <2>6. Live(table[h.addr])
        BY <2>2, <2>3, <2>4, <2>5 DEF Live
    <2> QED
        BY <2>4, <2>6 DEF Lookup
<1> QED
    BY <1>1, NameInvariance, PTL

-----------------------------------------------------------------------------
(* The servers. *)

\* One turn of the loops of read_doh_urls_from_config.
Pushed(urls, u) == IF u \in Https \ Range(urls) THEN Append(urls, u) ELSE urls

\* The lists that the turns of a loop leave behind.
IsPushing(p, urls, entries) ==
    p = [n \in 0..Len(entries) |-> IF n = 0 THEN urls ELSE Pushed(p[n - 1], entries[n])]

\* They exist, as far as the loop goes.
LEMMA PushingExists ==
    ASSUME NEW urls, NEW entries, Len(entries) \in Nat
    PROVE  \E p : IsPushing(p, urls, entries)
<1> DEFINE Up(p, m) == p = [n \in 0..m |-> IF n = 0 THEN urls ELSE Pushed(p[n - 1], entries[n])]
           T == {m \in Nat : \E p : Up(p, m)}
<1>1. 0 \in T
    <2> DEFINE p == [n \in 0..0 |-> urls]
    <2>1. Up(p, 0)
        OBVIOUS
    <2> QED
        BY <2>1
<1>2. ASSUME NEW m \in 1..Len(entries), m - 1 \in T PROVE m \in T
    <2>1. PICK p : Up(p, m - 1)
        BY <1>2
    <2> DEFINE q == [n \in 0..m |-> IF n < m THEN p[n] ELSE Pushed(p[m - 1], entries[m])]
    <2>2. \A n \in 0..m : q[n] = IF n = 0 THEN urls ELSE Pushed(q[n - 1], entries[n])
        <3> SUFFICES ASSUME NEW n \in 0..m
                     PROVE  q[n] = IF n = 0 THEN urls ELSE Pushed(q[n - 1], entries[n])
            OBVIOUS
        <3>1. CASE n = 0
            BY <2>1, <3>1
        <3>2. CASE n \in 1..(m - 1)
            <4>1. q[n] = p[n] /\ q[n - 1] = p[n - 1]
                BY <3>2
            <4>2. p[n] = Pushed(p[n - 1], entries[n])
                BY <2>1, <3>2
            <4> QED
                BY <3>2, <4>1, <4>2
        <3>3. CASE n = m
            <4>1. q[n - 1] = p[m - 1] /\ q[n] = Pushed(p[m - 1], entries[m])
                BY <3>3
            <4> QED
                BY <3>3, <4>1
        <3> QED
            BY <3>1, <3>2, <3>3
    <2>3. Up(q, m)
        BY <2>2
    <2> HIDE DEF q, Up
    <2> QED
        BY <2>3
<1> HIDE DEF T
<1>3. \A m \in 1..Len(entries) : m - 1 \in T => m \in T
    BY <1>2
<1>4. \A m \in 0..Len(entries) : m \in T
    BY <1>1, <1>3, Induction, Zenon
<1>5. Len(entries) \in T
    BY <1>4
<1>6. \E p : Up(p, Len(entries))
    BY <1>5 DEF T
<1>7. \A p : Up(p, Len(entries)) => IsPushing(p, urls, entries)
    BY DEF IsPushing
<1> HIDE DEF Up
<1> QED
    BY <1>6, <1>7

\* A single server that begins with https:// is the list.
LEMMA PushOne ==
    ASSUME NEW u \in Https
    PROVE  PushAll(<<>>, <<u>>) = <<u>>
<1> DEFINE c == CHOOSE g : IsPushing(g, <<>>, <<u>>)
<1>1. Len(<<u>>) = 1
    OBVIOUS
<1>2. IsPushing(c, <<>>, <<u>>)
    BY <1>1, PushingExists
<1>3. PushAll(<<>>, <<u>>) = c[Len(<<u>>)]
    BY DEF PushAll, IsPushing, Pushed
<1> HIDE DEF c
<1>4. c[0] = <<>> /\ c[1] = Pushed(c[0], u)
    BY <1>1, <1>2 DEF IsPushing
<1>5. Range(<<>>) = {}
    BY DEF Range
<1> QED
    BY <1>1, <1>3, <1>4, <1>5 DEF Pushed

\* A loop over entries leaves what there was where it was, and each entry that
\* begins with https:// somewhere.
LEMMA PushAllKeeps ==
    ASSUME NEW urls \in Seq(Https), NEW S, NEW entries \in Seq(S)
    PROVE  LET all == PushAll(urls, entries)
           IN  /\ all \in Seq(Https) /\ Len(urls) <= Len(all)
               /\ \A k \in 1..Len(urls) : all[k] = urls[k]
               /\ \A k \in 1..Len(entries) : entries[k] \in Https => entries[k] \in Range(all)
<1>1. Len(entries) \in Nat
    OBVIOUS
<1>7. \E p : IsPushing(p, urls, entries)
    BY <1>1, PushingExists, Zenon
<1> DEFINE c == CHOOSE g : IsPushing(g, urls, entries)
<1>2. IsPushing(c, urls, entries)
    BY <1>7
<1>3. PushAll(urls, entries) = c[Len(entries)]
    BY DEF PushAll, IsPushing, Pushed
<1> HIDE DEF c
<1>4. /\ c[0] = urls
      /\ \A n \in 1..Len(entries) : c[n] = Pushed(c[n - 1], entries[n])
    BY <1>2, SMTT(30) DEF IsPushing
<1> DEFINE Good(n) == /\ c[n] \in Seq(Https) /\ Len(urls) <= Len(c[n])
                      /\ \A k \in 1..Len(urls) : c[n][k] = urls[k]
                      /\ \A k \in 1..n : entries[k] \in Https => entries[k] \in Range(c[n])
           T == {n \in Nat : Good(n)}
<1>5. 0 \in T
    BY <1>4
<1>6. ASSUME NEW n \in 1..Len(entries), n - 1 \in T PROVE n \in T
    <2> DEFINE old == c[n - 1]
    <2>1. /\ old \in Seq(Https) /\ Len(urls) <= Len(old)
          /\ \A k \in 1..Len(urls) : old[k] = urls[k]
          /\ \A k \in 1..(n - 1) : entries[k] \in Https => entries[k] \in Range(old)
        BY <1>6
    <2>2. c[n] = Pushed(old, entries[n])
        BY <1>4
    <2> HIDE DEF old
    <2>3. CASE entries[n] \in Https \ Range(old)
        <3>1. c[n] = Append(old, entries[n])
            BY <2>2, <2>3 DEF Pushed
        <3>2. /\ c[n] \in Seq(Https) /\ Len(c[n]) = Len(old) + 1
              /\ \A k \in 1..Len(old) : c[n][k] = old[k]
              /\ c[n][Len(old) + 1] = entries[n]
            BY <2>1, <2>3, <3>1, AppendProperties
        <3>3. ASSUME NEW u \in Range(old) PROVE u \in Range(c[n])
            <4>1. PICK k \in 1..Len(old) : old[k] = u
                BY <2>1 DEF Range
            <4>2. k \in DOMAIN c[n] /\ c[n][k] = u
                BY <2>1, <3>2, <4>1
            <4> QED
                BY <4>2 DEF Range
        <3>4. entries[n] \in Range(c[n])
            <4>1. Len(old) + 1 \in DOMAIN c[n]
                BY <2>1, <3>2
            <4> QED
                BY <3>2, <4>1 DEF Range
        <3> QED
            BY <2>1, <3>2, <3>3, <3>4
    <2>4. CASE entries[n] \notin Https \ Range(old)
        <3>1. c[n] = old
            BY <2>2, <2>4 DEF Pushed
        <3>2. entries[n] \in Https => entries[n] \in Range(old)
            BY <2>4
        <3> QED
            BY <2>1, <3>1, <3>2
    <2> QED
        BY <2>3, <2>4
<1> HIDE DEF T
<1>8. \A n \in 1..Len(entries) : n - 1 \in T => n \in T
    BY <1>6
<1>9. \A n \in 0..Len(entries) : n \in T
    BY <1>5, <1>1, <1>8, Induction, Zenon
<1>10. Len(entries) \in T
    BY <1>1, <1>9
<1> QED
    BY <1>3, <1>10 DEF T

\* The list of one process: all the built-in servers are in it, and the user's
\* own is the first if the configuration named it.
LEMMA DohUrlsServe ==
    ASSUME NEW hasDns, NEW server, home' = TRUE
    PROVE  LET all == DohUrls(Nameservers(hasDns, server))
           IN  /\ all \in Seq(Https) /\ all # <<>>
               /\ Range(Defaults) \subseteq Range(all)
               /\ hasDns /\ server \in Https => all[1] = server
<1> DEFINE config == Nameservers(hasDns, server)
           named == PushAll(<<>>, config)
           all == DohUrls(config)
<1>1. Defaults \in Seq(Https) /\ Defaults # <<>> /\ None \notin Https
    BY PathAssumption
<1>2. config \in Seq({server})
    <2>1. <<server>> \in Seq({server}) /\ <<>> \in Seq({server})
        OBVIOUS
    <2> QED
        BY <2>1 DEF Nameservers
<1>3. <<>> \in Seq(Https) /\ Len(<<>>) = 0
    OBVIOUS
<1>4. /\ named \in Seq(Https)
      /\ \A k \in 1..Len(config) : config[k] \in Https => config[k] \in Range(named)
    BY <1>2, <1>3, PushAllKeeps
<1>5. all = PushAll(named, Defaults)
    BY DEF DohUrls
<1>6. /\ all \in Seq(Https) /\ Len(named) <= Len(all)
      /\ \A k \in 1..Len(named) : all[k] = named[k]
      /\ \A k \in 1..Len(Defaults) : Defaults[k] \in Https => Defaults[k] \in Range(all)
    <2> HIDE DEF named, config, all
    <2> QED
        BY <1>1, <1>4, <1>5, PushAllKeeps
<1>7. Range(Defaults) \subseteq Range(all)
    BY <1>1, <1>6 DEF Range
<1>8. all # <<>>
    <2>1. Defaults[1] \in Range(all)
        BY <1>1, <1>6
    <2> QED
        BY <2>1 DEF Range
<1>9. ASSUME hasDns, server \in Https PROVE all[1] = server
    <2>1. config = <<server>>
        BY <1>1, <1>9 DEF Nameservers
    <2>2. named = <<server>>
        BY <2>1, <1>9, PushOne
    <2> QED
        BY <1>6, <2>2
<1> HIDE DEF all
<1> QED
    BY <1>6, <1>7, <1>8, <1>9 DEF all

\* A query that asks has tried the servers before its own, in their order.
HasTried(q) ==
    /\ q = [at |-> "asking", host |-> q.host, url |-> q.url, failed |-> q.failed,
            session |-> q.session]
    /\ q.url \in 1..Len(client) /\ q.failed = SubSeq(client, 1, q.url - 1)

\* The servers of a process that has read its preferences and made its client.
ClientInv ==
    /\ client \in Seq(Https)
    /\ client # <<>> => /\ prefs # Unread
                        /\ Range(Defaults) \subseteq Range(client)
                        /\ "plain" \notin passedBy => (prefs \in Https => client[1] = prefs)
    /\ prefs # Unread => ("changed" \notin passedBy => prefs = dohServer)

\* What its queries have made of them.
TurnInv ==
    /\ queries = [i \in Ids |-> queries[i]]
    /\ \A i \in Ids : /\ queries[i].at = "asking" => client # <<>> /\ HasTried(queries[i])
                      /\ queries[i].at = "inserting" => HasAnswer(queries[i])
                      /\ queries[i].at = "unanswered" => client # <<>> /\ queries[i].failed = client

ServerInv == dohServer \in UserServers /\ (on => client # <<>>) /\ ClientInv /\ TurnInv

\* A query with other failures.
LEMMA OtherFailed ==
    ASSUME NEW q, HasTried(q), NEW s
    PROVE  [q EXCEPT !.failed = s] =
               [at |-> "asking", host |-> q.host, url |-> q.url, failed |-> s, session |-> q.session]
<1> DEFINE r(h, u, f, n) == [at |-> "asking", host |-> h, url |-> u, failed |-> f, session |-> n]
<1>1. q = r(q.host, q.url, q.failed, q.session)
    BY DEF HasTried
<1>2. \A h, u, f, n : [r(h, u, f, n) EXCEPT !.failed = s] = r(h, u, s, n)
    OBVIOUS
<1> HIDE DEF r
<1>3. [q EXCEPT !.failed = s] = r(q.host, q.url, s, q.session)
    BY <1>1, <1>2
<1> QED
    BY <1>3 DEF r

LEMMA ServerInvInit == Init => ServerInv
<1> SUFFICES ASSUME Init PROVE ServerInv
    OBVIOUS
<1>1. dohServer \in UserServers
    BY PathAssumption DEF Init
<1>2. ~on /\ ClientInv
    BY DEF Init, ClientInv
<1>3. TurnInv
    BY DEF Init, TurnInv, Free
<1> QED
    BY <1>1, <1>2, <1>3 DEF ServerInv

\* The client of a process that has one is left alone, and so are its turns, by a
\* step that touches no query.
LEMMA TurnsStay ==
    ASSUME TurnInv, UNCHANGED queries, client = <<>> \/ UNCHANGED client
    PROVE  TurnInv'
BY DEF TurnInv, HasTried

\* A step of one query, which asks or becomes something else.
LEMMA OneTurn ==
    ASSUME TurnInv, UNCHANGED client, NEW i \in Ids, NEW q, queries' = [queries EXCEPT ![i] = q],
           q.at = "asking" => client # <<>> /\ HasTried(q),
           q.at = "inserting" => HasAnswer(q),
           q.at = "unanswered" => client # <<>> /\ q.failed = client
    PROVE  TurnInv'
<1>1. /\ queries' = [j \in Ids |-> queries'[j]] /\ queries'[i] = q
      /\ \A j \in Ids : j # i => queries'[j] = queries[j]
    BY OneQuery DEF TurnInv
<1>2. \A r : HasTried(r)' <=> HasTried(r)
    BY DEF HasTried
<1> QED
    BY <1>1, <1>2 DEF TurnInv

LEMMA ServerStep == ServerInv /\ [Next]_vars => ServerInv'
<1> SUFFICES ASSUME ServerInv, [Next]_vars PROVE ServerInv'
    OBVIOUS
<1>1. dohServer \in UserServers /\ (on => client # <<>>) /\ ClientInv /\ TurnInv
    BY DEF ServerInv
<1>2. CASE SetDohServer
    <2>1. /\ dohServer' \in UserServers /\ UNCHANGED <<on, prefs, client, queries>>
          /\ passedBy' = passedBy \cup {r \in {"changed"} : prefs # Unread}
        BY <1>2 DEF SetDohServer, sessionVars
    <2>2. ClientInv'
        BY <1>1, <2>1 DEF ClientInv
    <2> QED
        BY <1>1, <2>1, <2>2, TurnsStay DEF ServerInv
<1>3. CASE StartSession
    <2>1. /\ dohServer' = dohServer /\ queries' = queries /\ home' = TRUE
          /\ prefs' = IF prefs = Unread THEN dohServer ELSE prefs
        BY <1>3 DEF StartSession, NativeSetHomeDir
    <2>2. /\ prefs' # Unread /\ prefs' \in UserServers \cup {prefs}
          /\ "changed" \notin passedBy => prefs' = dohServer \/ prefs = Unread
          /\ prefs = Unread => client = <<>> /\ prefs' = dohServer
        BY <1>1, <2>1, PathAssumption DEF ClientInv
    <2>3. CASE client # <<>>
        <3>1. UNCHANGED client /\ prefs' = prefs /\ (on' => client' # <<>>)
            BY <1>3, <2>1, <2>2, <2>3 DEF StartSession, InitDohClient
        <3>2. passedBy \subseteq passedBy'
            BY <1>3 DEF StartSession, InitDohClient
        <3>3. ClientInv'
            BY <1>1, <2>1, <2>2, <2>3, <3>1, <3>2 DEF ClientInv
        <3> QED
            BY <1>1, <2>1, <3>1, <3>3, TurnsStay DEF ServerInv
    <2>4. "changed" \notin passedBy => prefs' = dohServer
        BY <1>1, <2>1 DEF ClientInv
    <2>5. CASE client = <<>> /\ on' = TRUE
        <3>1. PICK hasDns \in BOOLEAN : InitDohClient(hasDns)
            BY <1>3, <2>1, <2>5 DEF StartSession
        <3>2. /\ client' = DohUrls(Nameservers(hasDns, prefs'))
              /\ passedBy' = passedBy \cup {r \in {"plain"} : client = <<>> /\ ~hasDns}
            BY <2>5, <3>1 DEF InitDohClient
        <3>3. /\ client' \in Seq(Https) /\ client' # <<>>
              /\ Range(Defaults) \subseteq Range(client')
              /\ hasDns /\ prefs' \in Https => client'[1] = prefs'
            BY <2>1, <3>2, DohUrlsServe
        <3>4. passedBy \subseteq passedBy' /\ ("plain" \notin passedBy' => hasDns)
            BY <2>5, <3>2
        <3>5. ClientInv'
            BY <2>1, <2>2, <2>4, <3>3, <3>4 DEF ClientInv
        <3> QED
            BY <1>1, <2>1, <2>5, <3>3, <3>5, TurnsStay DEF ServerInv
    <2>6. CASE client = <<>> /\ on' = FALSE
        <3>1. UNCHANGED <<client, passedBy>>
            BY <1>3, <2>6 DEF StartSession, InitDohClient
        <3>2. ClientInv'
            BY <1>1, <2>1, <2>2, <2>4, <2>6, <3>1 DEF ClientInv
        <3> QED
            BY <1>1, <2>1, <2>6, <3>1, <3>2, TurnsStay DEF ServerInv
    <2> QED
        BY <1>3, <2>3, <2>5, <2>6 DEF StartSession
<1>4. CASE ProcessDies
    <2>1. /\ on' = FALSE /\ prefs' = Unread /\ client' = <<>> /\ dohServer' = dohServer
          /\ queries' = [i \in Ids |-> IF queries[i].at = "free" THEN Free ELSE [at |-> "dead"]]
        BY <1>4 DEF ProcessDies
    <2>2. ClientInv'
        BY <2>1 DEF ClientInv
    <2>3. TurnInv'
        BY <2>1 DEF TurnInv, Free
    <2> QED
        BY <1>1, <2>1, <2>2, <2>3 DEF ServerInv
<1>5. CASE Tick \/ StopSession \/ (\E a \in Addrs : Connect(a)) \/ UNCHANGED vars
    <2>1. /\ UNCHANGED <<dohServer, client, passedBy, prefs, queries>>
          /\ on' => on
        BY <1>5 DEF Tick, StopSession, Connect, vars, sessionVars, settingVars
    <2>2. ClientInv'
        BY <1>1, <2>1 DEF ClientInv
    <2> QED
        BY <1>1, <2>1, <2>2, TurnsStay DEF ServerInv
<1>6. ASSUME NEW i \in Ids, Ask(i) \/ Task(i) PROVE ServerInv'
    <2>1. UNCHANGED <<dohServer, client, passedBy, prefs, on>>
        BY <1>6 DEF Ask, Task, Answered, Fails, Insert, Reply, sessionVars, settingVars
    <2>2. ClientInv'
        BY <1>1, <2>1 DEF ClientInv
    <2>3. ASSUME Ask(i) PROVE TurnInv'
        <3>1. on /\ \E host \in Hosts : queries' = [queries EXCEPT ![i] =
                  [at |-> "asking", host |-> host, url |-> 1, failed |-> <<>>, session |-> session]]
            BY <2>3 DEF Ask
        <3>2. PICK host \in Hosts : queries' = [queries EXCEPT ![i] =
                  [at |-> "asking", host |-> host, url |-> 1, failed |-> <<>>, session |-> session]]
            BY <3>1
        <3> DEFINE q == [at |-> "asking", host |-> host, url |-> 1, failed |-> <<>>,
                         session |-> session]
        <3>3. client # <<>> /\ client \in Seq(Https)
            BY <1>1, <3>1 DEF ClientInv
        <3>4. 1 \in 1..Len(client) /\ SubSeq(client, 1, 1 - 1) = <<>>
            BY <3>3
        <3>5. HasTried(q) /\ q.at = "asking"
            BY <3>4 DEF HasTried
        <3>6. queries' = [queries EXCEPT ![i] = q]
            BY <3>2
        <3> HIDE DEF q
        <3> QED
            BY <1>1, <2>1, <3>3, <3>5, <3>6, OneTurn
    <2>4. ASSUME Answered(i) \/ Insert(i) \/ Reply(i) PROVE TurnInv'
        <3>1. CASE Answered(i)
            <4>1. PICK o \in Outcomes[queries[i].host] : queries' = [queries EXCEPT ![i] =
                      [at |-> "inserting", host |-> queries[i].host, session |-> queries[i].session,
                       todo |-> o.todo, truth |-> o.truth, whole |-> o.whole]]
                BY <1>1, <3>1 DEF Answered, TurnInv
            <4> DEFINE q == [at |-> "inserting", host |-> queries[i].host,
                             session |-> queries[i].session,
                             todo |-> o.todo, truth |-> o.truth, whole |-> o.whole]
            <4>2. queries' = [queries EXCEPT ![i] = q] /\ HasAnswer(q) /\ q.at = "inserting"
                BY <4>1 DEF HasAnswer
            <4> HIDE DEF q
            <4> QED
                BY <1>1, <2>1, <4>2, OneTurn
        <3>2. CASE Insert(i)
            <4> DEFINE q == [queries[i] EXCEPT !.todo = Tail(queries[i].todo)]
            <4>1. HasAnswer(queries[i]) /\ queries' = [queries EXCEPT ![i] = q]
                BY <1>1, <3>2 DEF Insert, TurnInv
            <4>2. q = [at |-> "inserting", host |-> queries[i].host, session |-> queries[i].session,
                       todo |-> Tail(queries[i].todo), truth |-> queries[i].truth,
                       whole |-> queries[i].whole]
                BY <4>1, OtherAnswer
            <4> HIDE DEF q
            <4>3. HasAnswer(q) /\ q.at = "inserting"
                BY <4>2 DEF HasAnswer
            <4> QED
                BY <1>1, <2>1, <4>1, <4>3, OneTurn
        <3>3. CASE Reply(i)
            <4> DEFINE q == [at |-> "replied", host |-> queries[i].host, truth |-> queries[i].truth]
            <4>1. queries' = [queries EXCEPT ![i] = q] /\ q.at = "replied"
                BY <3>3 DEF Reply
            <4> HIDE DEF q
            <4> QED
                BY <1>1, <2>1, <4>1, OneTurn
        <3> QED
            BY <2>4, <3>1, <3>2, <3>3
    <2>5. ASSUME Fails(i) PROVE TurnInv'
        <3> DEFINE old == queries[i]
                   failed == Append(old.failed, client[old.url])
                   q == Refused([old EXCEPT !.failed = failed])
        <3>1. /\ client # <<>> /\ client \in Seq(Https) /\ HasTried(old)
              /\ queries' = [queries EXCEPT ![i] = q]
            BY <1>1, <2>5 DEF Fails, TurnInv, ClientInv
        <3>2. [old EXCEPT !.failed = failed] =
                  [at |-> "asking", host |-> old.host, url |-> old.url, failed |-> failed,
                   session |-> old.session]
            <4> HIDE DEF failed
            <4> QED
                BY <3>1, OtherFailed
        <3>3. old.url \in 1..Len(client) /\ failed = SubSeq(client, 1, old.url)
            BY <3>1 DEF HasTried
        <3>4. CASE old.url < Len(client)
            <4>1. q = [at |-> "asking", host |-> old.host, url |-> old.url + 1,
                       failed |-> failed, session |-> old.session]
                BY <3>2, <3>4 DEF Refused
            <4>2. old.url + 1 \in 1..Len(client) /\ (old.url + 1) - 1 = old.url
                BY <3>1, <3>3, <3>4
            <4> HIDE DEF failed, q
            <4>3. q.at = "asking" /\ HasTried(q)
                BY <3>3, <4>1, <4>2 DEF HasTried
            <4> QED
                BY <1>1, <2>1, <3>1, <4>3, OneTurn
        <3>5. CASE old.url >= Len(client)
            <4>1. q = [at |-> "unanswered", failed |-> failed]
                BY <3>1, <3>2, <3>3, <3>5 DEF Refused
            <4>2. failed = client
                BY <3>1, <3>3, <3>5
            <4> HIDE DEF failed, q
            <4>3. q.at = "unanswered" /\ q.failed = client
                BY <4>1, <4>2
            <4> QED
                BY <1>1, <2>1, <3>1, <4>3, OneTurn
        <3> QED
            BY <3>1, <3>3, <3>4, <3>5
    <2>6. TurnInv'
        BY <1>6, <2>3, <2>4, <2>5 DEF Task
    <2> QED
        BY <1>1, <2>1, <2>2, <2>6 DEF ServerInv
<1> QED
    BY <1>2, <1>3, <1>4, <1>5, <1>6 DEF Next

\* A query is given up only when every built-in server has failed, and the user's
\* own before them all, unless this process knows nothing of it (doh_client.rs:
\* read_doh_urls_from_config, resolve_via_doh).
THEOREM NoServerLeftOut == PathSpec => []UnansweredIfAllFail
<1>1. ServerInv => UnansweredIfAllFail
    <2> SUFFICES ASSUME ServerInv, NEW i \in Ids, queries[i].at = "unanswered"
                 PROVE  /\ Range(Defaults) \subseteq Range(queries[i].failed)
                        /\ dohServer \in Https /\ passedBy = {} => Head(queries[i].failed) = dohServer
        BY DEF UnansweredIfAllFail
    <2>1. /\ client # <<>> /\ queries[i].failed = client /\ client \in Seq(Https)
          /\ Range(Defaults) \subseteq Range(client)
        BY DEF ServerInv, TurnInv, ClientInv
    <2>2. ASSUME dohServer \in Https, passedBy = {} PROVE Head(client) = dohServer
        <3>1. prefs = dohServer /\ client[1] = prefs
            BY <2>1, <2>2 DEF ServerInv, ClientInv
        <3> QED
            BY <2>1, <3>1
    <2> QED
        BY <2>1, <2>2
<1>2. PathInit => ServerInv
    BY ServerInvInit DEF PathInit
<1>3. ServerInv /\ [PathNext]_pathVars => ServerInv'
    BY PathStepsNames, ServerStep
<1> QED
    BY <1>1, <1>2, <1>3, PTL DEF PathSpec
===============================================================================
