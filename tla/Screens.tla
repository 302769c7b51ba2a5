-------------------------------- MODULE Screens --------------------------------
(***************************************************************************)
(* The parts of the app that follow the engine's REST controller and its   *)
(* totals, around an engine that starts and stops: the log screen, the     *)
(* connections screen, the mode card, a switch of the settings, the        *)
(* providers and the daily traffic.  They share nothing but the engine, so *)
(* each behaviour follows one of them.                                     *)
(***************************************************************************)
EXTENDS LogsScreen, ConnectionsScreen, ModeCard, SettingsScreen, ProvidersScreen,
        TrafficLedger

VARIABLE part  \* the part that is followed
vars == <<part, apiVars, logVars, connVars, cardVars, settingsVars, providerVars, ledgerVars>>

Parts == {"logs", "connections", "mode", "settings", "providers", "traffic"}

Init ==
    /\ part \in Parts /\ up = FALSE /\ starts = 0
    /\ LogsInit /\ ConnInit /\ ModeInit /\ SettingsInit /\ ProvidersInit /\ LedgerInit

Only(p) ==
    /\ part = p /\ UNCHANGED part
    /\ p # "logs" => UNCHANGED logVars
    /\ p # "connections" => UNCHANGED connVars
    /\ p # "mode" => UNCHANGED cardVars
    /\ p # "settings" => UNCHANGED settingsVars
    /\ p # "providers" => UNCHANGED providerVars
    /\ p # "traffic" => UNCHANGED ledgerVars

\* The engine starts and stops under them.
EngineStarts ==
    /\ ApiStart
    /\ \/ Only("logs") /\ UNCHANGED logVars
       \/ Only("connections") /\ UNCHANGED connVars
       \/ Only("mode") /\ ModeEngineStarts
       \/ Only("settings") /\ SettingsEngineStarts
       \/ Only("providers") /\ UNCHANGED providerVars
       \/ Only("traffic") /\ LedgerEngineStarts

EngineStops ==
    /\ ApiStop
    /\ \/ Only("logs") /\ LogsEngineStops
       \/ Only("connections") /\ ConnEngineStops
       \/ Only("mode") /\ ModeEngineStops
       \/ Only("settings") /\ UNCHANGED settingsVars
       \/ Only("providers") /\ UNCHANGED providerVars
       \/ Only("traffic") /\ UNCHANGED ledgerVars

Next ==
    \/ EngineStarts \/ EngineStops
    \/ Only("logs") /\ LogsNext
    \/ Only("connections") /\ ConnNext
    \/ Only("mode") /\ ModeNext
    \/ Only("settings") /\ SettingsNext
    \/ Only("providers") /\ ProvidersNext
    \/ Only("traffic") /\ LedgerNext

\* Dart's event loop and timers run and the engine serves; the user, the engine's
\* own log and its connections owe nothing.
LogsStep(A) == Only("logs") /\ A /\ UNCHANGED apiVars
ConnStep(A) == Only("connections") /\ A /\ UNCHANGED apiVars
Fairness ==
    /\ WF_vars(LogsStep(Connect)) /\ WF_vars(LogsStep(SocketEnds)) /\ WF_vars(LogsStep(Retry))
    /\ WF_vars(LogsStep(Receive)) /\ WF_vars(LogsStep(Flush))
    /\ WF_vars(ConnStep(PollTick)) /\ WF_vars(ConnStep(ServePoll))
    /\ WF_vars(ConnStep(TakePoll))

Spec == Init /\ [][Next]_vars /\ Fairness

TypeOK ==
    /\ part \in Parts /\ up \in BOOLEAN /\ starts \in 0..MaxStarts
    /\ LogsTypeOK /\ ConnTypeOK /\ ModeTypeOK
    /\ SettingsTypeOK /\ ProvidersTypeOK /\ LedgerTypeOK
===============================================================================
