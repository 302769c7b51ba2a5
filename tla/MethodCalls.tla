------------------------------ MODULE MethodCalls ------------------------------
(***************************************************************************)
(* What the app asks of MainActivity over its method channel and does      *)
(* without the engine: the calls on the profile table, the YAML editor and *)
(* the list it is opened from, the choice of apps, and the calls into the  *)
(* engine's library - conversions of subscriptions and diagnostic tests.   *)
(* They share nothing that the properties tell apart (the editor follows   *)
(* one row of the table, at a finer grain), so each behaviour follows one. *)
(***************************************************************************)
EXTENDS Profiles, YamlEditor, PerAppProxy, LibraryCalls

VARIABLE part  \* the part that is followed
methodVars == <<part, vars, editorVars, perAppVars, fetchVars, testVars>>

Parts == {"profiles", "editor", "apps", "fetches", "tests"}

CallsInit ==
    /\ part \in Parts
    /\ Init /\ EditorInit /\ LibraryInit
    /\ PerAppInit /\ (part # "apps" => prefs = Fresh)

Only(p) ==
    /\ part = p /\ UNCHANGED part
    /\ p # "profiles" => UNCHANGED vars
    /\ p # "editor" => UNCHANGED editorVars
    /\ p # "apps" => UNCHANGED perAppVars
    /\ p # "fetches" => UNCHANGED fetchVars
    /\ p # "tests" => UNCHANGED testVars

CallsNext ==
    \/ Only("profiles") /\ Next
    \/ Only("editor") /\ EditorNext
    \/ Only("apps") /\ PerAppNext
    \/ Only("fetches") /\ FetchNext
    \/ Only("tests") /\ TestsNext

CallsSpec == CallsInit /\ [][CallsNext]_methodVars

CallsTypeOK ==
    /\ part \in Parts
    /\ TypeOK /\ EditorTypeOK /\ PerAppTypeOK /\ LibraryTypeOK
===============================================================================
