------------------------------ MODULE Selections ------------------------------
(***************************************************************************)
(* The user's choice in a proxy group: what the section of the home screen *)
(* shows (proxy_groups_section.dart), what the home screen keeps and       *)
(* replays (home_screen.dart, vpn_channel.dart), what the profile's row    *)
(* stores (MainActivity.kt) and what the engine uses.  All profiles have   *)
(* the same selector groups.                                               *)
(*                                                                         *)
(* The platform's answers and state events come through one queue, inbox;  *)
(* database work and HTTP requests overlap as they like.                   *)
(***************************************************************************)
EXTENDS Naturals, Sequences, FiniteSets, SequencesExt

CONSTANTS
    Profiles, Proxies,
    Texts,        \* the groups a text may have: group -> its members, in order
    Stored,       \* what a profile's row may hold at first for a group
    None,         \* no choice, no profile
    MaxEvents(_)  \* changes of the VPN's state, of the profile, and choices, in
                  \* all, for a number of groups

ASSUME ChoiceAssumption ==
    /\ Stored \subseteq Proxies \cup {None} /\ None \notin Profiles \cup Proxies
    /\ \A t \in Texts : \A g \in DOMAIN t : t[g] \in Seq(Proxies) \ {<<>>}

VARIABLES
    members,          \* of the groups, in every profile's text
    vpn, now,         \* the service is Connected; what the engine's groups use
    rows, selected,   \* profile -> selectedProxies; the selected profile
    saves,            \* saveSelectedProxies calls the database has not run
    inbox,            \* messages of the platform to the home screen
    reads,            \* getSelectedProfile calls the database has not run
    state, profile, selections,   \* of the home screen; state: _state is connected
    replaying,        \* _replaying, and the map the replay goes through
    puts,             \* selectProxy requests of the section
    widgetOn, widgetYaml,         \* what the section was built with
    shown, loading,   \* the section's _selections and _loading
    events,           \* (bound) how many there have been
    raced, missed     \* (history) the overlaps that have happened, and the groups
                      \* for which the engine may have missed a choice

uiVars     == <<state, profile, selections>>
widgetVars == <<widgetOn, widgetYaml, shown, loading>>
dbVars     == <<rows, selected, saves>>
vars == <<members, vpn, now, dbVars, inbox, reads, uiVars, replaying, puts, widgetVars,
          events, raced, missed>>

Groups     == DOMAIN members
Default(g) == Head(members[g])
Maps       == [Groups -> Proxies \cup {None}]
NoChoices  == [g \in Groups |-> None]

\* What may have happened, and which property it excuses:
\*   staleState  a load wrote a state older than the last event
\*   rowRace     saves ran out of order, or a row was read before a save of it
\*   skipped     between two frames the section's text changed twice, or with
\*               the connection
\* A group is in missed if, since the engine's start, a request for it failed or
\* was overtaken by another, a replay was left out, or a choice in another group
\* made a choice of what the section showed for it, which the engine did not use.
Races == {"staleState", "rowRace", "skipped"}
RowOnItsWay ==
    \E i \in DOMAIN inbox : inbox[i].kind = "profile" /\ inbox[i].profile = profile
Note(r, happened) == raced' = IF happened THEN raced \cup {r} ELSE raced
Miss(gs, happened) == missed' = IF happened THEN missed \cup gs ELSE missed

Event == events < MaxEvents(Cardinality(Groups)) /\ events' = events + 1
Idle == [at |-> "idle", todo |-> {}]

-----------------------------------------------------------------------------
(* The platform: the service's state and the database. *)

\* The service is connected or stopped; a fresh engine uses the first members.
Toggle ==
    /\ Event
    /\ vpn' = ~vpn
    /\ now' = IF vpn' THEN [g \in Groups |-> Default(g)] ELSE now
    /\ missed' = IF vpn' THEN {} ELSE missed
    /\ inbox' = Append(inbox, [kind |-> "state", on |-> vpn'])
    /\ UNCHANGED <<dbVars, reads, uiVars, replaying, puts, widgetVars, raced>>

\* selectProfile, whose screen then announces profileChanged: _loadState.
SwitchProfile ==
    /\ Event
    /\ selected' \in Profiles \ {selected}
    /\ inbox' = Append(inbox, [kind |-> "gotState", on |-> vpn])
    /\ UNCHANGED <<vpn, now, rows, saves, reads, uiVars, replaying, puts, widgetVars, raced, missed>>

\* Dispatchers.IO runs the saves in any order.
RunSave ==
    \E i \in DOMAIN saves :
        /\ rows' = [rows EXCEPT ![saves[i].profile] = saves[i].choice]
        /\ saves' = RemoveAt(saves, i)
        /\ Note("rowRace", i > 1)
        /\ UNCHANGED <<vpn, now, selected, inbox, reads, uiVars, replaying, puts, widgetVars,
                       events, missed>>

ReadProfile ==
    \E i \in DOMAIN reads :
        /\ inbox' = Append(inbox, [kind |-> "profile", on |-> reads[i], profile |-> selected,
                                   choice |-> rows[selected]])
        /\ reads' = RemoveAt(reads, i)
        /\ Note("rowRace", i > 1 \/ \E j \in DOMAIN saves : saves[j].profile = selected)
        /\ UNCHANGED <<vpn, now, dbVars, uiVars, replaying, puts, widgetVars, events, missed>>

-----------------------------------------------------------------------------
(* The home screen. *)

\* Mutant: nothing is replayed.
ReplayNever(choice) == UNCHANGED replaying

\* _replaySelections up to the answer of getProxies: only one at a time, and
\* not with nothing to replay.
Replay(choice) ==
    replaying' = IF choice = NoChoices \/ replaying # Idle THEN replaying
                 ELSE [at |-> "asked", todo |-> {}]
\* Not replayed for another replay, or replayed while a choice is on its way.
LeftOut == replaying # Idle \/ puts # {}

\* Mutant: a state once on stays on.
EventStateSticky(on) == state \/ on
EventState(on) == on

\* The listener of stateStream.
StateEvent ==
    /\ inbox # <<>> /\ Head(inbox).kind = "state"
    /\ inbox' = Tail(inbox)
    /\ state' = EventState(Head(inbox).on)
    /\ IF ~state /\ Head(inbox).on
       THEN Replay(selections) ELSE UNCHANGED replaying
    /\ raced' = raced \ {"staleState"}
    /\ Miss(Groups, "staleState" \in raced \/ (~state /\ Head(inbox).on /\ LeftOut))
    /\ UNCHANGED <<vpn, now, dbVars, reads, profile, selections, puts, widgetVars, events>>

\* _loadState: getState has answered, the selected profile is asked for.
GotState ==
    /\ inbox # <<>> /\ Head(inbox).kind = "gotState"
    /\ inbox' = Tail(inbox)
    /\ reads' = Append(reads, Head(inbox).on)
    /\ UNCHANGED <<vpn, now, dbVars, uiVars, replaying, puts, widgetVars, events, raced, missed>>

\* A profile that is another one than before brings its own selections.
LoadAdopts(m) == IF m.profile # profile THEN m.choice ELSE selections

\* _loadState: the rest.  The state it shows was read before the profile.
LoadDone ==
    /\ inbox # <<>> /\ Head(inbox).kind = "profile"
    /\ LET m == Head(inbox)
           replays == m.profile # profile /\ m.on
       IN  /\ inbox' = Tail(inbox)
           /\ state' = m.on /\ profile' = m.profile
           /\ selections' = LoadAdopts(m)
           /\ IF replays THEN Replay(m.choice) ELSE UNCHANGED replaying
           /\ raced' = raced
                \cup {r \in {"staleState"} : m.on # state}
                \cup {r \in {"skipped"} : m.profile # profile /\ widgetYaml # profile}
           /\ Miss(Groups, (replays /\ LeftOut) \/ (selections' # selections /\ puts # {}))
    /\ UNCHANGED <<vpn, now, dbVars, reads, puts, widgetVars, events>>

\* _resolvesToBypass: the first member, the first one of that, and so on.
ResolvesToBypass(name) ==
    LET Names == Proxies \cup Groups
        Leads[n \in Names, visited \in SUBSET Groups] ==
            \/ n \in {"DIRECT", "REJECT"}
            \/ n \in Groups \ visited /\ Leads[Head(members[n]), visited \cup {n}]
    IN  Leads[name, {}]

\* replaySelectionsOnConnect: the groups for which a request is made.
Replayed(choice) ==
    {g \in Groups : choice[g] \in Range(members[g]) /\ ~ResolvesToBypass(Head(members[g]))}

\* getProxies answers: the replay goes through the map the home screen has now;
\* or it fails, and the replay is given up.
ReplayAnswer ==
    /\ replaying.at = "asked"
    /\ \/ /\ vpn
          /\ replaying' = IF Replayed(selections) = {} THEN Idle
                          ELSE [at |-> "putting", todo |-> Replayed(selections),
                                choice |-> selections]
          /\ UNCHANGED missed
       \/ replaying' = Idle /\ Miss(Groups, TRUE)
    /\ UNCHANGED <<vpn, now, dbVars, inbox, reads, uiVars, puts, widgetVars, events, raced>>

\* One group after the other; a refusal is ignored, and the loop goes on.
ReplayPut(g) ==
    /\ replaying.at = "putting" /\ g \in replaying.todo
    /\ replaying' = IF replaying.todo = {g} THEN Idle ELSE [replaying EXCEPT !.todo = @ \ {g}]
    /\ \/ /\ vpn
          /\ now' = [now EXCEPT ![g] = replaying.choice[g]]
          /\ Miss({g}, replaying.choice[g] # selections[g])
       \/ UNCHANGED now /\ Miss({g}, TRUE)
    /\ UNCHANGED <<vpn, dbVars, inbox, reads, uiVars, puts, widgetVars, events, raced>>

Save(choice) ==
    saves' = Append(saves, [profile |-> profile, choice |-> choice])

\* Mutant: a choice is kept and not saved.
OnSelectionsKept(choice) == selections' = choice /\ UNCHANGED saves

\* _onSelectionsChanged: keep and save under the profile of this moment.
OnSelectionsChanged(choice) == selections' = choice /\ Save(choice)

-----------------------------------------------------------------------------
(* The section. *)

Reparse == profile # widgetYaml

\* didUpdateWidget after a change of what the home screen builds it with: live
\* data when the VPN is on now, and else the selections of another text.
Rebuild ==
    /\ <<widgetOn, widgetYaml>> # <<state, profile>>
    /\ widgetOn' = state /\ widgetYaml' = profile
    /\ LET turnedOn == state /\ ~widgetOn
       IN  /\ shown' = IF ~turnedOn /\ Reparse THEN selections ELSE shown
           /\ loading' = (loading \/ turnedOn \/ Reparse)
           /\ Note("skipped", turnedOn /\ profile # widgetYaml)
    /\ UNCHANGED <<vpn, now, dbVars, inbox, reads, uiVars, replaying, puts, events, missed>>

\* putIfAbsent, for every group.
PutIfAbsent(map, nows) == [g \in Groups |-> IF map[g] = None THEN nows[g] ELSE map[g]]

\* _load: a group with no choice shows what the engine uses or, when it does not
\* answer, the first member of the profile's text.
LoadGroups ==
    /\ loading /\ loading' = FALSE
    /\ \/ vpn /\ shown' = PutIfAbsent(shown, now)
       \/ widgetYaml # None /\ shown' = PutIfAbsent(shown, [g \in Groups |-> Default(g)])
       \/ widgetYaml = None /\ UNCHANGED shown
    /\ UNCHANGED <<vpn, now, dbVars, inbox, reads, uiVars, replaying, puts, widgetOn, widgetYaml,
                   events, raced, missed>>

\* _selectProxy: show, keep and save the whole map; tell the engine if there is
\* one.  (The user's tap meets a section that shows the present state and profile.)
SelectProxy(g, name) ==
    /\ Event
    /\ shown[g] # None /\ profile # None
    /\ widgetOn = state /\ widgetYaml = profile
    /\ shown' = [shown EXCEPT ![g] = name] /\ OnSelectionsChanged(shown')
    /\ puts' = IF widgetOn
               THEN puts \cup {[id |-> events, group |-> g, name |-> name, prev |-> shown[g],
                                kept |-> selections[g] # None, at |-> "sent"]}
               ELSE puts
    /\ Note("rowRace", RowOnItsWay)
    /\ missed' = missed
         \cup {h \in {g} : \E p \in puts : p.group = g}
         \cup {h \in Groups : replaying # Idle}
         \cup {h \in Groups \ {g} : selections[h] = None /\ shown[h] # now[h]}
    /\ UNCHANGED <<vpn, now, rows, selected, inbox, reads, state, profile, replaying,
                   widgetOn, widgetYaml, loading>>

\* The engine takes the PUT; or refuses it, or is gone.
PutArrives ==
    \E p \in puts :
        /\ p.at = "sent"
        /\ \/ /\ vpn /\ now' = [now EXCEPT ![p.group] = p.name] /\ puts' = puts \ {p}
              /\ Miss({p.group}, p.name # selections[p.group])
           \/ /\ puts' = (puts \ {p}) \cup {[p EXCEPT !.at = "refused"]}
              /\ UNCHANGED <<now, missed>>
        /\ UNCHANGED <<vpn, dbVars, inbox, reads, uiVars, replaying, widgetVars, events, raced>>

\* Mutant: the roll-back brings back the whole map.
TakenBackAll(p) == [g \in Groups |-> p.prev]
\* _selectProxy's catch: back to what the group showed, and that is saved too.
TakenBack(p) == [shown EXCEPT ![p.group] = p.prev]

PutFailed ==
    \E p \in puts :
        /\ p.at = "refused" /\ puts' = puts \ {p}
        /\ shown' = TakenBack(p)
        /\ OnSelectionsChanged(shown')
        /\ Note("rowRace", RowOnItsWay)
        /\ Miss({p.group}, shown[p.group] # p.name \/ ~p.kept)
        /\ UNCHANGED <<vpn, now, rows, selected, inbox, reads, state, profile, replaying,
                       widgetOn, widgetYaml, loading, events>>

-----------------------------------------------------------------------------
\* initState: _loadState is on its way, and the state stream's first event.
Init ==
    /\ members \in Texts
    /\ vpn \in BOOLEAN /\ now = [g \in Groups |-> Default(g)]
    /\ \E c \in [Profiles -> Stored] : rows = [p \in Profiles |-> [g \in Groups |-> c[p]]]
    /\ selected \in Profiles
    /\ saves = <<>> /\ reads = <<>>
    /\ inbox = <<[kind |-> "gotState", on |-> vpn], [kind |-> "state", on |-> vpn]>>
    /\ state = FALSE /\ profile = None /\ selections = NoChoices
    /\ replaying = Idle /\ puts = {}
    /\ widgetOn = FALSE /\ widgetYaml = None /\ shown = NoChoices /\ loading = TRUE
    /\ events = 0 /\ raced = {} /\ missed = {}

HomeNext ==
    \/ StateEvent \/ GotState \/ LoadDone \/ ReplayAnswer
    \/ \E g \in Groups : ReplayPut(g)
SectionNext == Rebuild \/ LoadGroups \/ PutArrives \/ PutFailed
Next ==
    /\ UNCHANGED members
    /\ \/ Toggle \/ SwitchProfile \/ RunSave \/ ReadProfile
       \/ HomeNext \/ SectionNext
       \/ \E g \in Groups : \E name \in Range(members[g]) : SelectProxy(g, name)

Spec == Init /\ [][Next]_vars

-----------------------------------------------------------------------------
TypeOK ==
    /\ members \in Texts /\ now \in [Groups -> Proxies]
    /\ vpn \in BOOLEAN
    /\ rows \in [Profiles -> Maps] /\ selected \in Profiles
    /\ \A i \in DOMAIN saves : saves[i].profile \in Profiles /\ saves[i].choice \in Maps
    /\ reads \in Seq(BOOLEAN)
    /\ state \in BOOLEAN /\ widgetOn \in BOOLEAN /\ loading \in BOOLEAN
    /\ profile \in Profiles \cup {None} /\ widgetYaml \in Profiles \cup {None}
    /\ selections \in Maps /\ shown \in Maps
    /\ replaying.at \in {"idle", "asked", "putting"} /\ replaying.todo \subseteq Groups
    /\ \A p \in puts : p.group \in Groups /\ p.name \in Proxies /\ p.prev \in Proxies
    /\ raced \subseteq Races /\ missed \subseteq Groups

Delivered == inbox = <<>> /\ reads = <<>>
AtRest == Delivered /\ saves = <<>> /\ puts = {} /\ replaying = Idle

\* When all messages are handled the home screen shows the state of the service,
\* unless a load brought an older one after the event (_loadState, stateStream).
HomeShowsService == (Delivered /\ "staleState" \notin raced) => state = vpn

\* The section shows the choices the home screen keeps, saves and replays,
\* through switches of profile, answers and roll-backs (didUpdateWidget,
\* _selectProxy).
SectionShowsHome ==
    (widgetYaml = profile /\ "skipped" \notin raced) =>
        \A g \in Groups : selections[g] # None => shown[g] = selections[g]

\* The home screen keeps what the row of its profile says, when the calls are
\* done: no roll-back and no switch saves one thing and keeps another.
HomeKeepsRow ==
    (Delivered /\ saves = <<>> /\ "rowRace" \notin raced) =>
        /\ profile = selected
        /\ selections = rows[profile]

\* A choice is one thing everywhere: on the section, on the home screen and in
\* the profile's row (_selectProxy, _onSelectionsChanged, _loadState).
ChoiceIsOne == SectionShowsHome /\ HomeKeepsRow

\* When all is quiet a connected engine uses the saved choices: in each group
\* that has the member and does not lead to DIRECT or REJECT, if no request for it
\* since the engine's start failed or crossed another (_replaySelections,
\* replaySelectionsOnConnect, _selectProxy).
EngineUsesChoice ==
    (AtRest /\ vpn /\ raced \cap {"staleState", "skipped"} = {}) =>
        \A g \in Replayed(selections) \ missed : now[g] = selections[g]

\* A choice that is saved is not taken back but by the user, by a refused
\* request, or by a change of profile - and each of them in its own group, as
\* long as section and home screen show one profile (_selectProxy saves the
\* section's whole map under the home screen's profile).
ChoiceStays ==
    [][\A g \in Groups :
           (selections[g] # None /\ selections'[g] # selections[g]
            /\ widgetYaml = profile /\ "skipped" \notin raced) =>
               \/ profile' # profile
               \/ shown'[g] # shown[g] /\ events' # events
               \/ \E p \in puts \ puts' : p.at = "refused" /\ p.group = g]_vars
===============================================================================
