------------------------------- MODULE ModeCard --------------------------------
(***************************************************************************)
(* The card of the home screen that shows and sets the engine's mode       *)
(* (mode_card.dart): it reads the mode when the VPN turns on and shows a   *)
(* choice before the engine has accepted it.  The states of the VPN reach  *)
(* the card in order, some time after the engine changed.                  *)
(***************************************************************************)
EXTENDS EngineApi

CONSTANTS
    Modes,      \* "rule", "global", "direct"
    FirstMode,  \* what the card shows before it has read anything
    MaxLoads    \* getConfigs in progress at the same time

ASSUME ModeAssumption ==
    /\ FirstMode \in Modes /\ MaxLoads \in Nat \ {0}
    /\ Modes \cap {"none", "asked", "failed", "accepted", "refused"} = {}

VARIABLES
    engineMode,   \* external: the mode of the engine
    states,       \* isVpnConnected, on its way to the card
    isVpnConnected,
    mode, patching,  \* _mode, _patching
    prev,         \* _setMode's local
    loads,        \* getConfigs in progress: "none", "asked", "failed" or a mode
    crossed,      \* history: the loads a choice or a restart crossed
    patch,        \* the PATCH in progress: "none", its mode, or its answer
    patchCrossed, \* history: the engine restarted under it
    adrift        \* history: the card shows what such an answer left

loadVars == <<loads, crossed>>
patchVars == <<patching, prev, patch, patchCrossed>>
cardVars == <<engineMode, states, isVpnConnected, mode, loadVars, patchVars, adrift>>

Loads == 1..MaxLoads
Loading == {l \in Loads : loads[l] # "none"}

ModeInit ==
    /\ engineMode = FirstMode /\ states = <<>> /\ isVpnConnected = FALSE
    /\ mode = FirstMode /\ patching = FALSE /\ prev = FirstMode
    /\ loads = [l \in Loads |-> "none"] /\ crossed = {}
    /\ patch = "none" /\ patchCrossed = FALSE /\ adrift = FALSE

-----------------------------------------------------------------------------
(* The engine. *)

\* It comes up with the mode of the profile, and forgets what was patched.
ModeEngineStarts ==
    /\ engineMode' \in Modes /\ states' = Append(states, TRUE)
    /\ crossed' = crossed \cup Loading
    /\ patchCrossed' = (patchCrossed \/ patch # "none")
    /\ UNCHANGED <<isVpnConnected, mode, patching, prev, patch, loads, adrift>>

ModeEngineStops ==
    /\ states' = Append(states, FALSE)
    /\ UNCHANGED <<engineMode, isVpnConnected, mode, loadVars, patchVars, adrift>>

\* GET /configs: answered, or refused or broken off.
ServeLoad == \E l \in Loads :
    /\ loads[l] = "asked"
    /\ loads' = [loads EXCEPT ![l] = Answer(engineMode, "failed")]
    /\ UNCHANGED <<engineMode, states, isVpnConnected, mode, crossed, patchVars, adrift>>

\* PATCH /configs: accepted, refused, or not served at all.
ServePatch ==
    /\ patch \in Modes
    /\ \/ up /\ engineMode' = patch /\ patch' = "accepted"
       \/ patch' = "refused" /\ UNCHANGED engineMode
    /\ UNCHANGED <<states, isVpnConnected, mode, loadVars, patching, prev, patchCrossed, adrift>>

-----------------------------------------------------------------------------
(* The card. *)

\* _loadConfig
LoadConfig == \E l \in Loads \ Loading :
    /\ loads' = [loads EXCEPT ![l] = "asked"]
    /\ crossed' = IF patching THEN crossed \cup {l} ELSE crossed

\* didUpdateWidget; for the first state it is initState's.
TurnsOn ==
    /\ states # <<>> /\ Head(states) /\ states' = Tail(states)
    /\ isVpnConnected' = TRUE
    /\ IF isVpnConnected THEN UNCHANGED loadVars ELSE LoadConfig
    /\ UNCHANGED <<engineMode, mode, patchVars, adrift>>

TurnsOff ==
    /\ states # <<>> /\ ~Head(states) /\ states' = Tail(states)
    /\ isVpnConnected' = FALSE
    /\ UNCHANGED <<engineMode, mode, loadVars, patchVars, adrift>>

\* The answer of getConfigs.
TakeLoad == \E l \in Loads :
    /\ loads[l] \notin {"none", "asked"}
    /\ loads' = [loads EXCEPT ![l] = "none"] /\ crossed' = crossed \ {l}
    /\ IF loads[l] \in Modes
       THEN mode' = loads[l] /\ adrift' = (l \in crossed)
       ELSE UNCHANGED mode /\ adrift' = TRUE
    /\ UNCHANGED <<engineMode, states, isVpnConnected, patchVars>>

\* _setMode: the segments can be tapped while connected and not patching, and
\* the selected one does nothing.
SetMode == \E m \in Modes \ {mode} :
    /\ isVpnConnected /\ ~patching
    /\ prev' = mode /\ mode' = m /\ patching' = TRUE
    /\ patch' = m /\ patchCrossed' = (states # <<>> \/ ~up)
    /\ crossed' = crossed \cup Loading
    /\ UNCHANGED <<engineMode, states, isVpnConnected, loads, adrift>>

\* Mutant: a refusal leaves the choice on the card.
PatchAnsweredKept ==
    /\ patch \in {"accepted", "refused"} /\ patch' = "none"
    /\ patching' = FALSE /\ patchCrossed' = FALSE
    /\ adrift' = (adrift \/ patchCrossed)
    /\ UNCHANGED <<engineMode, states, isVpnConnected, mode, prev, loadVars>>

\* The end of _setMode: a choice that was refused is taken back.
PatchAnswered ==
    /\ patch \in {"accepted", "refused"} /\ patch' = "none"
    /\ patching' = FALSE /\ patchCrossed' = FALSE
    /\ mode' = IF patch = "refused" THEN prev ELSE mode
    /\ adrift' = (adrift \/ patchCrossed)
    /\ UNCHANGED <<engineMode, states, isVpnConnected, prev, loadVars>>

-----------------------------------------------------------------------------
ModeNext ==
    /\ \/ ServeLoad \/ ServePatch
       \/ TurnsOn \/ TurnsOff \/ TakeLoad \/ SetMode \/ PatchAnswered
    /\ UNCHANGED apiVars

ModeTypeOK ==
    /\ engineMode \in Modes /\ states \in Seq(BOOLEAN) /\ isVpnConnected \in BOOLEAN
    /\ mode \in Modes /\ prev \in Modes /\ patching = (patch # "none")
    /\ loads \in [Loads -> Modes \cup {"none", "asked", "failed"}]
    /\ crossed \subseteq Loading
    /\ patch \in Modes \cup {"none", "accepted", "refused"}
    /\ patchCrossed \in BOOLEAN /\ adrift \in BOOLEAN

-----------------------------------------------------------------------------
(* Properties. *)

\* When the VPN is on and nothing is under way, the card shows the mode the
\* engine is in: through refusals, restarts and answers that come late - unless
\* the last answer it took had been crossed by a choice or a restart, or the
\* mode could not be read.
CardAgrees ==
    (up /\ isVpnConnected /\ states = <<>> /\ Loading = {} /\ ~patching /\ ~adrift)
        => mode = engineMode
===============================================================================
