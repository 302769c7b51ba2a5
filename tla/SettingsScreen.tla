---------------------------- MODULE SettingsScreen ----------------------------
(***************************************************************************)
(* A switch of the settings screen (settings_screen.dart) - "allow-lan" or *)
(* "ipv6", which are treated alike - that shows and sets what the engine   *)
(* is configured with.  The screen is one of those app.dart builds when    *)
(* the app opens and keeps: it reads the configuration once.  Nothing      *)
(* keeps the user from tapping again while a tap is being asked for, and   *)
(* requests that are under way together are served in any order.           *)
(***************************************************************************)
EXTENDS EngineApi, SequencesExt

CONSTANT MaxPatches  \* patchConfigs in progress at the same time

ASSUME SettingsAssumption == MaxPatches \in Nat \ {0}

VARIABLES
    setting,   \* external: what the engine is configured with
    allowLan,  \* _allowLan
    load,      \* initState's getConfigs: "none", "asked", "failed" or its answer
    outdated,  \* history: a tap or a restart crossed that load
    patches,   \* the PATCHes in progress, in the order they were tapped
    astray     \* history: why the switch may not show the setting

settingsVars == <<setting, allowLan, load, outdated, patches, astray>>

Values == {"on", "off"}
Other(v) == IF v = "on" THEN "off" ELSE "on"
\* overlaps: another tap was under way at some time; crossed: the setting
\* was changed by something else since it was served, or the switch was.
Patch(v, prev) == [v |-> v, prev |-> prev, answer |-> "none",
                   overlaps |-> patches # <<>>, crossed |-> load # "none"]

\* The app opens before there is an engine.
SettingsInit ==
    /\ setting = "off" /\ allowLan = "off" /\ load = "asked" /\ outdated = FALSE
    /\ patches = <<>> /\ astray = TRUE

-----------------------------------------------------------------------------
(* The engine. *)

\* It comes up with the configuration of the profile; the switch stays.
SettingsEngineStarts ==
    /\ setting' \in Values /\ astray' = TRUE
    /\ outdated' = (outdated \/ load \in Values)
    /\ patches' = [k \in DOMAIN patches |->
                     IF patches[k].answer = "accepted" THEN [patches[k] EXCEPT !.crossed = TRUE]
                     ELSE patches[k]]
    /\ UNCHANGED <<allowLan, load>>

\* GET /configs
ServeConfigs ==
    /\ load = "asked" /\ load' = Answer(setting, "failed")
    /\ UNCHANGED <<setting, allowLan, outdated, patches, astray>>

\* A later tap that was served before it has come across it.
Accepted(k) ==
    [patches[k] EXCEPT !.answer = "accepted",
                       !.crossed = patches[k].crossed
                           \/ \E i \in DOMAIN patches : i > k /\ patches[i].answer = "accepted"]

\* PATCH /configs: carried out, or refused, or not served at all.
ServeSwitch == \E k \in DOMAIN patches :
    /\ patches[k].answer = "none"
    /\ \/ /\ up /\ setting' = patches[k].v
          /\ patches' = [patches EXCEPT ![k] = Accepted(k)]
       \/ patches' = [patches EXCEPT ![k].answer = "refused"] /\ UNCHANGED setting
    /\ UNCHANGED <<allowLan, load, outdated, astray>>

-----------------------------------------------------------------------------
(* The screen. *)

\* The app is opened anew: initState.  What was under way is served now or never.
OpenApp ==
    /\ setting' \in {setting} \cup {patches[k].v : k \in {j \in DOMAIN patches :
                                                        up /\ patches[j].answer = "none"}}
    /\ allowLan' = "off" /\ load' = "asked" /\ outdated' = FALSE
    /\ patches' = <<>> /\ astray' = TRUE

\* _loadConfig
TakeConfigs ==
    /\ load \notin {"none", "asked"} /\ load' = "none" /\ outdated' = FALSE
    /\ IF load \in Values THEN allowLan' = load /\ astray' = outdated
       ELSE UNCHANGED <<allowLan, astray>>
    /\ patches' = [k \in DOMAIN patches |-> [patches[k] EXCEPT !.crossed = TRUE]]
    /\ UNCHANGED setting

\* The switch shows the other value at once, and remembers this one.
Tap ==
    /\ Len(patches) < MaxPatches
    /\ allowLan' = Other(allowLan)
    /\ patches' = Append([k \in DOMAIN patches |-> [patches[k] EXCEPT !.overlaps = TRUE]],
                         Patch(Other(allowLan), allowLan))
    /\ outdated' = (load # "none")
    /\ UNCHANGED <<setting, load, astray>>

\* What an answer makes of our knowledge of the switch.
Astray(p) ==
    \/ p.crossed
    \/ p.overlaps /\ p.answer = "refused"
    \/ astray /\ (p.overlaps \/ p.answer = "refused")

\* What was tapped before it and is not served yet comes too late.
Taken(k) ==
    RemoveAt([j \in DOMAIN patches |->
        IF j < k /\ patches[j].answer = "none" /\ patches[k].answer = "accepted"
        THEN [patches[j] EXCEPT !.crossed = TRUE] ELSE patches[j]], k)

\* Mutant: a refusal does not take the switch back.
TakePatchKept == \E k \in DOMAIN patches :
    /\ patches[k].answer # "none" /\ patches' = Taken(k)
    /\ astray' = Astray(patches[k])
    /\ UNCHANGED <<setting, allowLan, load, outdated>>

\* catchError: what was refused is taken back, to what was shown at that tap.
TakePatch == \E k \in DOMAIN patches :
    /\ patches[k].answer # "none" /\ patches' = Taken(k)
    /\ allowLan' = IF patches[k].answer = "refused" THEN patches[k].prev ELSE allowLan
    /\ astray' = Astray(patches[k])
    /\ UNCHANGED <<setting, load, outdated>>

-----------------------------------------------------------------------------
SettingsNext ==
    /\ \/ ServeConfigs \/ ServeSwitch \/ OpenApp \/ TakeConfigs \/ Tap \/ TakePatch
    /\ UNCHANGED apiVars

SettingsTypeOK ==
    /\ setting \in Values /\ allowLan \in Values
    /\ load \in Values \cup {"none", "asked", "failed"} /\ outdated \in BOOLEAN
    /\ \A k \in DOMAIN patches :
          patches[k] \in [v : Values, prev : Values, answer : {"none", "accepted", "refused"},
                          overlaps : BOOLEAN, crossed : BOOLEAN]
    /\ Len(patches) <= MaxPatches /\ astray \in BOOLEAN

-----------------------------------------------------------------------------
(* Properties. *)

\* When nothing is under way, the switch shows what the engine is configured
\* with: through refusals, and taps that overlap as long as they are served in
\* order and none is refused.  It may not after the engine started without a
\* load or an undisturbed tap since, or answers that came across each other.
SwitchAgrees ==
    (up /\ load = "none" /\ patches = <<>> /\ ~astray) => allowLan = setting
===============================================================================
