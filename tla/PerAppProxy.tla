------------------------------ MODULE PerAppProxy ------------------------------
(***************************************************************************)
(* Which apps the VPN carries: the screen where the user ticks them        *)
(* (per_app_proxy_screen.dart), the two preferences it is saved in         *)
(* (DataStore.kt), which the app's process writes and the :vpn process     *)
(* reads from the same file, and the tunnel that is built from them        *)
(* (VpnService.startVpn), while apps come and go.                          *)
(*                                                                         *)
(* The app's process lives on, and one save is under way at a time: a      *)
(* second tap before its answer, which would pop a second route, is left   *)
(* out.                                                                    *)
(***************************************************************************)
EXTENDS Integers, Sequences, FiniteSets

CONSTANTS
    Apps,           \* packages that may be installed
    Self,           \* this app
    MaxPackages,    \* installations and removals
    MaxPerAppSaves  \* taps on the check mark

ASSUME PerAppAssumption ==
    Self \notin Apps /\ MaxPackages \in Nat /\ MaxPerAppSaves \in Nat

VARIABLES
    installed, moves,
    prefs,       \* perAppMode and perAppPackages in the app's process
    file, toWrite,  \* the file of them, and the writes on their way to it
    copy,        \* the :vpn process's, read once; or Unread
    on, tunnel,  \* the tunnel is up, and its rule
    screen,      \* "closed", "asked" or "asked2" while _loading, "open", "saving"
    config,      \* the answer of getPerAppConfig
    apps,        \* _apps
    selectedMode, selectedPackages,  \* _mode, _selectedPackages
    tapped,      \* (bound) saves there have been
    intent,      \* history: what the user has made of the saved choice
    choice,      \* history: what was intended when the last save was tapped
    early,       \* history: a save was tapped while the screen loaded
    fresh,       \* history: the copy was read after the last save was written
    cameOrWent   \* history: an app came or went under the tunnel

deviceVars == <<installed, moves, cameOrWent>>
fileVars == <<prefs, file, toWrite>>
serviceVars == <<copy, on, tunnel, fresh>>
pickVars == <<screen, config, apps, selectedMode, selectedPackages, tapped, intent, choice, early>>
perAppVars == <<deviceVars, fileVars, serviceVars, pickVars>>

PerApp == [mode : {"proxy", "bypass"}, packages : SUBSET Apps]
Fresh == [mode |-> "proxy", packages |-> {}]
NoTunnel == [only |-> FALSE, apps |-> {}]
Unread == [mode |-> "unread", packages |-> {}]

PerAppInit ==
    /\ installed = Apps /\ moves = 0 /\ cameOrWent = FALSE
    /\ prefs \in PerApp /\ file = prefs /\ toWrite = <<>>
    /\ copy = Unread /\ fresh = FALSE
    /\ on = FALSE /\ tunnel = NoTunnel
    /\ screen = "closed" /\ config = Fresh
    /\ apps = {} /\ selectedMode = "proxy" /\ selectedPackages = {}
    /\ tapped = 0 /\ intent = prefs /\ choice = prefs /\ early = FALSE

-----------------------------------------------------------------------------
(* The device (external). *)

\* A tunnel knows an app by the uid it had when the tunnel was built.
PackageChange ==
    /\ moves < MaxPackages /\ moves' = moves + 1
    /\ \/ \E a \in Apps \ installed : installed' = installed \cup {a} /\ UNCHANGED tunnel
       \/ \E a \in installed :
             installed' = installed \ {a} /\ tunnel' = [tunnel EXCEPT !.apps = @ \ {a}]
    /\ cameOrWent' = on
    /\ UNCHANGED <<fileVars, copy, on, fresh, pickVars>>

\* apply(): a write runs some time later, and one that is overtaken is left out.
WriteFile ==
    /\ \E i \in DOMAIN toWrite :
          file' = toWrite[i] /\ toWrite' = SubSeq(toWrite, i + 1, Len(toWrite))
    /\ UNCHANGED <<deviceVars, prefs, serviceVars, pickVars>>

-----------------------------------------------------------------------------
(* The screen. *)

Open ==
    /\ screen = "closed" /\ screen' = "asked"
    /\ UNCHANGED <<deviceVars, fileVars, serviceVars, config, apps, selectedMode, selectedPackages,
                   tapped, intent, choice, early>>

\* _load: getPerAppConfig, and then getInstalledApps, which takes its time.
GotConfig ==
    /\ screen = "asked" /\ screen' = "asked2" /\ config' = prefs
    /\ UNCHANGED <<deviceVars, fileVars, serviceVars, apps, selectedMode, selectedPackages,
                   tapped, intent, choice, early>>

GotApps ==
    /\ screen = "asked2" /\ screen' = "open" /\ apps' = installed
    /\ selectedMode' = config.mode
    /\ selectedPackages' = selectedPackages \cup config.packages
    /\ UNCHANGED <<deviceVars, fileVars, serviceVars, config, tapped, intent, choice, early>>

\* The segments, a tile, and "select all" and "deselect all" for the apps that
\* the search leaves in the list.
Pick ==
    /\ screen = "open"
    /\ \/ \E m \in {"proxy", "bypass"} :
             /\ selectedMode' = m /\ intent' = [intent EXCEPT !.mode = m]
             /\ UNCHANGED selectedPackages
       \/ \E shown \in SUBSET apps :
             /\ \/ selectedPackages' = selectedPackages \cup shown
                   /\ intent' = [intent EXCEPT !.packages = @ \cup shown]
                \/ selectedPackages' = selectedPackages \ shown
                   /\ intent' = [intent EXCEPT !.packages = @ \ shown]
             /\ UNCHANGED selectedMode
    /\ UNCHANGED <<deviceVars, fileVars, serviceVars, screen, config, apps, tapped, choice, early>>

\* setPerAppConfig: two preferences, each with a write of its own.
SetPerAppConfig(m, packages) ==
    /\ prefs' = [mode |-> m, packages |-> packages]
    /\ toWrite' = toWrite \o << [prefs EXCEPT !.mode = m], prefs' >>
    /\ UNCHANGED file

\* _save, which does not wait for _load.
SaveTap ==
    /\ screen \in {"asked", "asked2", "open"} /\ tapped < MaxPerAppSaves
    /\ tapped' = tapped + 1 /\ screen' = "saving"
    /\ SetPerAppConfig(selectedMode, selectedPackages)
    /\ choice' = intent /\ early' = (screen # "open")
    /\ fresh' = FALSE
    /\ UNCHANGED <<deviceVars, copy, on, tunnel, config, apps, selectedMode, selectedPackages, intent>>

\* The answer of _save pops the screen; the back button leaves it.  The next
\* screen begins anew.
Close ==
    /\ screen # "closed" /\ screen' = "closed" /\ config' = Fresh /\ apps' = {}
    /\ selectedMode' = "proxy" /\ selectedPackages' = {} /\ intent' = prefs
    /\ UNCHANGED <<deviceVars, fileVars, serviceVars, tapped, choice, early>>

-----------------------------------------------------------------------------
(* The service. *)

\* Mutant: this app is left out of the tunnel only when nothing is selected.
RuleWithSelf(p) ==
    LET known == p.packages \cap installed
    IN  CASE p.packages = {} -> [only |-> FALSE, apps |-> {Self}]
          [] p.packages # {} /\ p.mode = "proxy" -> [only |-> known # {}, apps |-> known]
          [] OTHER -> [only |-> FALSE, apps |-> known]

\* The builder's calls: an app that is not installed is skipped, and a builder
\* that was told of no app carries them all.
Rule(p) ==
    LET known == p.packages \cap installed
    IN  CASE p.packages = {} -> [only |-> FALSE, apps |-> {Self}]
          [] p.packages # {} /\ p.mode = "proxy" -> [only |-> known # {}, apps |-> known]
          [] OTHER -> [only |-> FALSE, apps |-> known \cup {Self}]

\* startVpn: the process reads the file the first time it needs a preference.
StartTunnel ==
    /\ ~on /\ on' = TRUE /\ cameOrWent' = FALSE
    /\ copy' = IF copy = Unread THEN file ELSE copy
    /\ fresh' = IF copy = Unread THEN toWrite = <<>> ELSE fresh
    /\ tunnel' = Rule(copy')
    /\ UNCHANGED <<installed, moves, fileVars, pickVars>>

StopTunnel ==
    /\ on /\ on' = FALSE /\ tunnel' = NoTunnel /\ cameOrWent' = FALSE
    /\ UNCHANGED <<installed, moves, fileVars, copy, fresh, pickVars>>

\* The :vpn process ends, and its copy of the preferences with it.
VpnProcessDies ==
    /\ copy # Unread /\ copy' = Unread /\ fresh' = FALSE
    /\ on' = FALSE /\ tunnel' = NoTunnel /\ cameOrWent' = FALSE
    /\ UNCHANGED <<installed, moves, fileVars, pickVars>>

-----------------------------------------------------------------------------
PerAppNext ==
    \/ PackageChange \/ WriteFile
    \/ Open \/ GotConfig \/ GotApps \/ Pick \/ SaveTap \/ Close
    \/ StartTunnel \/ StopTunnel \/ VpnProcessDies

PerAppTypeOK ==
    /\ installed \subseteq Apps /\ apps \subseteq Apps /\ moves \in 0..MaxPackages /\ cameOrWent \in BOOLEAN
    /\ {prefs, file, config, intent, choice} \subseteq PerApp
    /\ toWrite \in Seq(PerApp) /\ copy \in PerApp \cup {Unread}
    /\ on \in BOOLEAN /\ tunnel \in [only : BOOLEAN, apps : SUBSET (Apps \cup {Self})]
    /\ screen \in {"closed", "asked", "asked2", "open", "saving"}
    /\ selectedMode \in {"proxy", "bypass"} /\ selectedPackages \subseteq Apps
    /\ tapped \in 0..MaxPerAppSaves /\ early \in BOOLEAN /\ fresh \in BOOLEAN

-----------------------------------------------------------------------------
(* Properties. *)

\* The apps whose traffic goes through the tunnel, and those the user meant.
Carried == IF tunnel.only THEN tunnel.apps
           ELSE (installed \cup {Self}) \ tunnel.apps
Meant(c) ==
    CASE c.packages = {} -> installed
      [] c.packages # {} /\ c.mode = "proxy" -> c.packages \cap installed
      [] OTHER -> installed \ c.packages

\* A tunnel carries the apps the user ticked, over all edits of what was stored
\* before, and never this app - unless the :vpn process had read its preferences
\* before they were saved, the check mark was tapped while the screen loaded,
\* which stores an empty choice (_save), apps came or went since, or "proxy" is
\* chosen and none of its apps is installed, and all are carried (startVpn).
CarriesChoice ==
    (/\ on /\ fresh /\ ~early /\ ~cameOrWent
     /\ choice.packages = {} \/ Meant(choice) # {} \/ choice.mode = "bypass")
        => Carried = Meant(choice)
===============================================================================
