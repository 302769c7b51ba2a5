--------------------------- MODULE ConnectionsScreen ---------------------------
(***************************************************************************)
(* The list of the engine's connections (connections_screen.dart), polled  *)
(* once a second while the app is in the foreground, from which the user   *)
(* closes one or all.  Requests run on connections of their own, so that   *)
(* answers arrive in any order.                                            *)
(***************************************************************************)
EXTENDS EngineApi

CONSTANTS
    Conn,       \* ids of connections; the engine uses each once
    MaxPolls    \* polls in progress at the same time

ASSUME PollsAssumption == MaxPolls \in Nat \ {0}

VARIABLES
    live, begun,     \* external: the engine's connections, and all it ever had
    connOpen,        \* the route is on the navigator
    foreground,      \* the app is resumed
    polling,         \* _timer is running
    listed,          \* _connections
    dismissed,       \* _dismissedIds
    asked,           \* polls the engine has not served yet
    answers,         \* served, not yet delivered, in the order they were served
    closing,         \* DELETE of one connection
    closingAll,      \* DELETE of all
    away,            \* history: connections whose close this screen was confirmed
    stale            \* history: the list is of an answer that was overtaken, or of
                     \* one that was under way when such an answer arrived

engineConns == <<live, begun>>
viewVars == <<connOpen, foreground, polling, listed, dismissed>>
requestVars == <<asked, answers, closing, closingAll>>
connVars == <<engineConns, viewVars, requestVars, away, stale>>

ConnInit ==
    /\ live = {} /\ begun = {}
    /\ connOpen = FALSE /\ foreground = TRUE /\ polling = FALSE
    /\ listed = {} /\ dismissed = {}
    /\ asked = 0 /\ answers = <<>>
    /\ closing = [c \in Conn |-> "none"] /\ closingAll = "none"
    /\ away = {} /\ stale = FALSE

-----------------------------------------------------------------------------
(* The engine. *)

Begin == \E c \in Conn \ begun :
    /\ up /\ live' = live \cup {c} /\ begun' = begun \cup {c}
    /\ UNCHANGED <<viewVars, requestVars, away, stale>>

Finish == \E c \in live :
    /\ live' = live \ {c}
    /\ UNCHANGED <<begun, viewVars, requestVars, away, stale>>

ConnEngineStops ==
    /\ live' = {} /\ UNCHANGED <<begun, viewVars, requestVars, away, stale>>

\* GET /connections; a refused poll is forgotten.
ServePoll ==
    /\ asked > 0 /\ asked' = asked - 1
    /\ answers' = Answer(Append(answers, [conns |-> live, late |-> FALSE]), answers)
    /\ UNCHANGED <<engineConns, viewVars, closing, closingAll, away, stale>>

\* DELETE /connections/{id}, and DELETE /connections
ServeClose == \E c \in Conn :
    /\ closing[c] = "asked" /\ closing' = [closing EXCEPT ![c] = Answer("done", "none")]
    /\ live' = live \ {c}
    /\ UNCHANGED <<begun, viewVars, asked, answers, closingAll, away, stale>>

ServeCloseAll ==
    /\ closingAll = "asked" /\ closingAll' = Answer("done", "none")
    /\ live' = {}
    /\ UNCHANGED <<begun, viewVars, asked, answers, closing, away, stale>>

-----------------------------------------------------------------------------
(* The screen. *)

Pending == asked + Len(answers)
AskPoll == Pending < MaxPolls /\ asked' = asked + 1
AskIfOpen == asked' = IF connOpen /\ Pending < MaxPolls THEN asked + 1 ELSE asked

\* initState: a poll at once, and the timer.
OpenConnections ==
    /\ ~connOpen /\ foreground /\ AskPoll
    /\ connOpen' = TRUE /\ polling' = TRUE
    /\ UNCHANGED <<engineConns, foreground, listed, dismissed, answers, closing,
                   closingAll, away, stale>>

\* dispose: answers find the widget unmounted; a close left behind ends its
\* connection as if by itself (Finish).
CloseConnections ==
    /\ connOpen /\ connOpen' = FALSE /\ polling' = FALSE
    /\ listed' = {} /\ dismissed' = {}
    /\ asked' = 0 /\ answers' = <<>>
    /\ closing' = [c \in Conn |-> "none"] /\ closingAll' = "none"
    /\ away' = {} /\ stale' = FALSE
    /\ UNCHANGED <<engineConns, foreground>>

PollTick ==
    /\ polling /\ AskPoll
    /\ UNCHANGED <<engineConns, viewVars, answers, closing, closingAll, away, stale>>

\* didChangeAppLifecycleState
Pause ==
    /\ foreground /\ foreground' = FALSE /\ polling' = FALSE
    /\ UNCHANGED <<engineConns, connOpen, listed, dismissed, requestVars, away, stale>>

\* Mutant: a resumed app asks once.
ResumeAsksOnce ==
    /\ ~foreground /\ foreground' = TRUE
    /\ AskIfOpen
    /\ UNCHANGED <<engineConns, connOpen, polling, listed, dismissed, answers, closing,
                   closingAll, away, stale>>

Resume ==
    /\ ~foreground /\ foreground' = TRUE /\ polling' = connOpen
    /\ AskIfOpen
    /\ UNCHANGED <<engineConns, connOpen, listed, dismissed, answers, closing,
                   closingAll, away, stale>>

\* What the user dismissed stays so while the engine still lists it.
StillDismissed(conns) == dismissed \cap conns

\* An answer arrives; those served before it are overtaken, and when an overtaken
\* one arrives, which may forget a dismissal, all that are still under way.
TakePoll == \E i \in DOMAIN answers :
    LET a == answers[i]
        Overtaken(k) == [answers[k] EXCEPT !.late = @ \/ k < i \/ a.late]
        rest == [k \in 1..(Len(answers) - 1) |-> Overtaken(IF k < i THEN k ELSE k + 1)]
    IN  /\ answers' = rest /\ stale' = a.late
        /\ dismissed' = StillDismissed(a.conns)
        /\ listed' = a.conns \ dismissed'
        /\ UNCHANGED <<engineConns, connOpen, foreground, polling, asked, closing,
                       closingAll, away>>

\* _closeConnection
CloseOne == \E c \in listed :
    /\ foreground /\ closing[c] = "none" /\ closing' = [closing EXCEPT ![c] = "asked"]
    /\ UNCHANGED <<engineConns, viewVars, asked, answers, closingAll, away, stale>>

\* Mutant: the tile is removed, the id is not remembered.
ClosedForgotten == \E c \in Conn :
    /\ closing[c] = "done" /\ closing' = [closing EXCEPT ![c] = "none"]
    /\ listed' = listed \ {c} /\ away' = away \cup {c}
    /\ UNCHANGED <<engineConns, connOpen, foreground, polling, dismissed, asked, answers,
                   closingAll, stale>>

Closed == \E c \in Conn :
    /\ closing[c] = "done" /\ closing' = [closing EXCEPT ![c] = "none"]
    /\ dismissed' = dismissed \cup {c} /\ listed' = listed \ {c}
    /\ away' = away \cup {c}
    /\ UNCHANGED <<engineConns, connOpen, foreground, polling, asked, answers, closingAll, stale>>

\* _closeAll, confirmed by the user
CloseAll ==
    /\ foreground /\ listed # {} /\ closingAll = "none" /\ closingAll' = "asked"
    /\ UNCHANGED <<engineConns, viewVars, asked, answers, closing, away, stale>>

ClosedAll ==
    /\ closingAll = "done" /\ closingAll' = "none"
    /\ listed' = {}
    /\ UNCHANGED <<engineConns, connOpen, foreground, polling, dismissed, asked, answers,
                   closing, away, stale>>

-----------------------------------------------------------------------------
ConnDart == PollTick \/ TakePoll \/ Closed \/ ClosedAll
ConnEngine == ServePoll \/ ServeClose \/ ServeCloseAll
ConnUser == OpenConnections \/ CloseConnections \/ Pause \/ Resume \/ CloseOne \/ CloseAll
ConnNext == (ConnDart \/ ConnEngine \/ ConnUser \/ Begin \/ Finish) /\ UNCHANGED apiVars

ConnTypeOK ==
    /\ live \subseteq begun /\ begun \subseteq Conn
    /\ connOpen \in BOOLEAN /\ foreground \in BOOLEAN /\ (polling => connOpen /\ foreground)
    /\ listed \subseteq begun /\ dismissed \subseteq begun /\ away \subseteq begun
    /\ asked \in 0..MaxPolls /\ answers \in Seq([conns : SUBSET Conn, late : BOOLEAN])
    /\ Pending <= MaxPolls
    /\ closing \in [Conn -> {"none", "asked", "done"}]
    /\ closingAll \in {"none", "asked", "done"} /\ stale \in BOOLEAN

-----------------------------------------------------------------------------
(* Properties. *)

\* A connection the user closed does not come back to the list, although polls
\* from before the close are still answered with it - unless answers overtook each
\* other: an old one may make the screen forget what was dismissed (_poll).
ClosedStayAway == away \cap listed # {} => stale

\* Once the screen stays open, in the foreground and the engine up, the list is
\* the engine's, whatever was closed, dismissed, paused and overtaken before.
ViewCatchesUp == <>[](connOpen /\ foreground /\ up) => <>[](listed = live)
===============================================================================
