------------------------------- MODULE YamlEditor -------------------------------
(***************************************************************************)
(* The list of subscriptions (subscriptions_screen.dart) and the editor of *)
(* a profile's YAML that is opened from it (yaml_editor_screen.dart), with *)
(* the native editor behind the platform view (SoraEditorPlatformView.kt), *)
(* for one profile.  The native editor tells Dart of a change, answers     *)
(* getText and setText, and goes on taking keystrokes meanwhile; the calls *)
(* on the table are answered some time later; and navigator.pop removes    *)
(* whatever is on top by then.                                             *)
(***************************************************************************)
EXTENDS Integers, Sequences

CONSTANTS
    Texts, Broken, \* texts, and those of them that are not YAML
    Upstream,      \* texts the subscription may be fetched as
    MaxWrites,     \* writes of the row
    MaxInbox,      \* messages of the native editor on their way
    MaxSaves, MaxGets  \* _save and getProfiles in progress at the same time

ASSUME EditorAssumption ==
    /\ Broken \subseteq Texts /\ Upstream \subseteq Texts /\ "none" \notin Texts
    /\ MaxWrites \in Nat /\ MaxInbox \in Nat /\ MaxSaves \in Nat \ {0} /\ MaxGets \in Nat \ {0}

VARIABLES
    row,         \* yaml_content and yaml_backup of the profile, and how often written
    stack,       \* the navigator: "list", "editor", and a dialog "discard" or "revert"
    profiles,    \* _profiles: the row as it was read
    loading,     \* _loading
    gets,        \* getProfiles in progress, and the row read
    refresh,     \* refreshSubscription: "none", "fetching" or "written"
    native,      \* the text in the native editor
    inbox,       \* what it has sent to Dart
    initialText, backupText, currentText,
    debounce,    \* the text _validationDebounce is armed with
    validated,   \* the text _errorMessage is about
    saves,       \* _save in progress
    revert,      \* _revert in progress, after its dialog
    newest,      \* history: the newest row ever listed
    reverted,    \* history: the row was reverted and nobody has asked for it since
    misplaced    \* history: a save removed another route than its editor, likewise

listVars == <<profiles, loading, gets, refresh, newest>>
textVars == <<native, inbox, initialText, backupText, currentText, debounce, validated>>
callVars == <<saves, revert>>
editorVars == <<row, stack, listVars, textVars, callVars, reverted, misplaced>>

NoSave == [at |-> "idle", text |-> "none", calm |-> FALSE, stray |-> FALSE]
NoRevert == [at |-> "idle", text |-> "none", stray |-> FALSE]
NoGet == [at |-> "idle", row |-> [yaml |-> "none", backup |-> "none", n |-> 0]]

EditorInit ==
    /\ \E t \in Upstream : row = [yaml |-> t, backup |-> t, n |-> 0]
    /\ stack = <<"list">> /\ profiles = row /\ loading = FALSE
    /\ gets = [g \in 1..MaxGets |-> NoGet] /\ refresh = "none" /\ newest = 0
    /\ native = "none" /\ inbox = <<>> /\ debounce = "none" /\ validated = "none"
    /\ initialText = "none" /\ backupText = "none" /\ currentText = "none"
    /\ saves = [s \in 1..MaxSaves |-> NoSave] /\ revert = NoRevert
    /\ reverted = FALSE /\ misplaced = FALSE

Top == IF stack = <<>> THEN "none" ELSE stack[Len(stack)]
Below == SubSeq(stack, 1, Len(stack) - 1)
EditorOpen == Len(stack) > 1
Write(yaml, backup) ==
    row.n < MaxWrites /\ row' = [yaml |-> yaml, backup |-> backup, n |-> row.n + 1]

-----------------------------------------------------------------------------
(* The list. *)

\* _load
AskProfiles ==
    /\ \E g \in DOMAIN gets :
          gets[g] = NoGet /\ gets' = [gets EXCEPT ![g].at = "asked"]
    /\ loading' = TRUE /\ reverted' = FALSE /\ misplaced' = FALSE
    /\ UNCHANGED <<profiles, newest>>
Load == AskProfiles /\ UNCHANGED refresh

ReadRows == \E g \in DOMAIN gets :
    /\ gets[g].at = "asked" /\ gets' = [gets EXCEPT ![g] = [at |-> "read", row |-> row]]
    /\ UNCHANGED <<row, stack, profiles, loading, refresh, newest, textVars, callVars,
                   reverted, misplaced>>

Loaded == \E g \in DOMAIN gets :
    /\ gets[g].at = "read" /\ gets' = [gets EXCEPT ![g] = NoGet]
    /\ profiles' = gets[g].row /\ loading' = FALSE
    /\ newest' = IF profiles'.n > newest THEN profiles'.n ELSE newest
    /\ UNCHANGED <<row, stack, refresh, textVars, callVars, reverted, misplaced>>

\* The tiles are there while the list does not load.
Tiles == Top = "list" /\ ~loading

\* Pull to refresh
Reload == Tiles /\ Load /\ UNCHANGED <<row, stack, textVars, callVars>>

RefreshTap ==
    /\ Tiles /\ refresh = "none" /\ refresh' = "fetching"
    /\ UNCHANGED <<row, stack, profiles, loading, gets, newest, textVars, callVars,
                   reverted, misplaced>>

\* MainActivity writes what was fetched; or the fetch fails, which is only told.
RefreshWrites ==
    /\ refresh = "fetching" /\ refresh' = "written"
    /\ \E t \in Upstream : Write(t, t)
    /\ UNCHANGED <<stack, profiles, loading, gets, newest, textVars, callVars, reverted, misplaced>>

RefreshFails ==
    /\ refresh = "fetching" /\ refresh' = "none"
    /\ UNCHANGED <<row, stack, profiles, loading, gets, newest, textVars, callVars,
                   reverted, misplaced>>

RefreshReturns ==
    /\ refresh = "written" /\ refresh' = "none"
    /\ IF stack = <<>> THEN UNCHANGED <<profiles, loading, gets, newest, reverted, misplaced>>
       ELSE AskProfiles
    /\ UNCHANGED <<row, stack, textVars, callVars>>

-----------------------------------------------------------------------------
(* Routes. *)

\* initState, and the platform view
OpenEditor ==
    /\ Tiles /\ stack' = Append(stack, "editor")
    /\ native' = profiles.yaml /\ inbox' = <<>>
    /\ initialText' = profiles.yaml /\ currentText' = profiles.yaml /\ backupText' = profiles.backup
    /\ debounce' = "none" /\ validated' = profiles.yaml
    /\ UNCHANGED <<row, listVars, callVars, reverted, misplaced>>

\* dispose; its saves and its revert go on without it.
Dispose ==
    /\ native' = "none" /\ inbox' = <<>> /\ debounce' = "none" /\ validated' = "none"
    /\ initialText' = "none" /\ backupText' = "none" /\ currentText' = "none"

\* Mutant: the list is not read again.
LoadNever(saved) == UNCHANGED <<listVars, reverted, misplaced>>

\* _editYaml, when the editor is gone
LoadIfSaved(saved) ==
    IF saved THEN Load ELSE UNCHANGED <<listVars, reverted, misplaced>>

\* The calls of an editor that is disposed go on without it.
Strayed(call, none) == IF call = none THEN none ELSE [call EXCEPT !.stray = TRUE]
Orphaned(ss) ==
    /\ saves' = [s \in DOMAIN ss |-> Strayed([ss[s] EXCEPT !.calm = FALSE], NoSave)]
    /\ revert' = Strayed(revert, NoRevert)

\* The editor is popped with this result; ss are the saves that go on.
PopEditor(saved, ss) ==
    /\ stack' = <<"list">> /\ Dispose /\ Orphaned(ss) /\ LoadIfSaved(saved)
    /\ UNCHANGED row

\* The user goes back, _confirmDiscard: at once when nothing was changed.
Back ==
    /\ Top = "editor"
    /\ IF currentText = initialText
       THEN PopEditor(FALSE, saves)
       ELSE /\ stack' = Append(stack, "discard")
            /\ UNCHANGED <<row, listVars, textVars, callVars, reverted, misplaced>>

Discard == Top = "discard" /\ PopEditor(FALSE, saves)

Cancel ==
    /\ Top \in {"discard", "revert"} /\ stack' = Below
    /\ UNCHANGED <<row, listVars, textVars, callVars, reverted, misplaced>>

-----------------------------------------------------------------------------
(* Typing. *)

Type == \E t \in Texts \ {native} :
    /\ Top = "editor" /\ Len(inbox) < MaxInbox
    /\ native' = t /\ inbox' = Append(inbox, [kind |-> "change", text |-> t])
    /\ saves' = [s \in DOMAIN saves |-> [saves[s] EXCEPT !.calm = FALSE]]
    /\ UNCHANGED <<row, stack, listVars, initialText, backupText, currentText, debounce,
                   validated, revert, reverted, misplaced>>

\* Mutant: a timer that is armed is left as it is.
TakeChangeKeepsTimer ==
    /\ inbox # <<>> /\ Head(inbox).kind = "change" /\ inbox' = Tail(inbox)
    /\ currentText' = Head(inbox).text
    /\ debounce' = IF debounce = "none" THEN Head(inbox).text ELSE debounce
    /\ UNCHANGED <<row, stack, listVars, native, initialText, backupText, validated, callVars,
                   reverted, misplaced>>

\* _onTextChanged
TakeChange ==
    /\ inbox # <<>> /\ Head(inbox).kind = "change" /\ inbox' = Tail(inbox)
    /\ currentText' = Head(inbox).text /\ debounce' = Head(inbox).text
    /\ UNCHANGED <<row, stack, listVars, native, initialText, backupText, validated, callVars,
                   reverted, misplaced>>

\* _validate, when the timer fires
Validate ==
    /\ debounce # "none" /\ validated' = debounce /\ debounce' = "none"
    /\ UNCHANGED <<row, stack, listVars, native, inbox, initialText, backupText, currentText,
                   callVars, reverted, misplaced>>

-----------------------------------------------------------------------------
(* Save. *)

\* The user has paused, and all of it has been heard and looked at.
Calm == inbox = <<>> /\ debounce = "none"

\* _save: the button is enabled by what was validated last.
Save == \E s \in DOMAIN saves :
    /\ Top = "editor" /\ validated \notin Broken /\ currentText # initialText
    /\ saves[s].at = "idle" /\ saves' = [saves EXCEPT ![s].at = "getText", ![s].calm = Calm]
    /\ UNCHANGED <<row, stack, listVars, textVars, revert, reverted, misplaced>>

\* getText; an editor that is gone does not answer, and the save is given up.
GetText == \E s \in DOMAIN saves :
    /\ saves[s].at = "getText"
    /\ saves' = [saves EXCEPT ![s] = IF saves[s].stray THEN NoSave
                                     ELSE [saves[s] EXCEPT !.at = "write", !.text = native]]
    /\ UNCHANGED <<row, stack, listVars, textVars, revert, reverted, misplaced>>

\* updateProfileYaml
WriteYaml == \E s \in DOMAIN saves :
    /\ saves[s].at = "write" /\ saves' = [saves EXCEPT ![s].at = "written"]
    /\ Write(saves[s].text, row.backup)
    /\ UNCHANGED <<stack, listVars, textVars, revert, reverted, misplaced>>

\* _revert goes on after its dialog.
ConfirmRevert == revert = NoRevert /\ revert' = [revert EXCEPT !.at = "revert"]

\* navigator.pop(true): the editor on top, its own or a later one, tells the list; a
\* dialog takes it for an answer; and when no editor is left the list itself goes.
SaveReturns == \E s \in DOMAIN saves :
    LET rest == [saves EXCEPT ![s] = NoSave]
    IN  /\ saves[s].at = "written"
        /\ \/ Top = "editor" /\ PopEditor(TRUE, rest)
           \/ /\ Top = "discard" /\ stack' = <<"list">> /\ Dispose /\ Orphaned(rest)
              /\ misplaced' = TRUE /\ UNCHANGED <<row, listVars, reverted>>
           \/ /\ Top = "revert" /\ stack' = Below /\ ConfirmRevert /\ saves' = rest
              /\ misplaced' = TRUE /\ UNCHANGED <<row, listVars, textVars, reverted>>
           \/ /\ ~EditorOpen /\ stack' = <<>> /\ saves' = rest
              /\ misplaced' = TRUE /\ UNCHANGED <<row, listVars, textVars, revert, reverted>>

-----------------------------------------------------------------------------
(* Revert. *)

AskRevert ==
    /\ Top = "editor" /\ revert.at = "idle" /\ currentText # backupText
    /\ stack' = Append(stack, "revert")
    /\ UNCHANGED <<row, listVars, textVars, callVars, reverted, misplaced>>

RevertConfirmed ==
    /\ Top = "revert" /\ stack' = Below /\ ConfirmRevert
    /\ UNCHANGED <<row, listVars, textVars, saves, reverted, misplaced>>

\* revertProfileYaml: revertYamlContent, and getById
RevertRow ==
    /\ revert.at = "revert" /\ revert' = [revert EXCEPT !.at = "read"]
    /\ Write(row.backup, row.backup) /\ reverted' = TRUE
    /\ UNCHANGED <<stack, listVars, textVars, saves, misplaced>>

RevertReads ==
    /\ revert.at = "read" /\ revert' = [revert EXCEPT !.at = "setText", !.text = row.yaml]
    /\ UNCHANGED <<row, stack, listVars, textVars, saves, reverted, misplaced>>

\* setText: a change like any other, and the answer after it.
SetText ==
    /\ revert.at = "setText" /\ ~revert.stray /\ revert' = [revert EXCEPT !.at = "answer"]
    /\ native' = revert.text
    /\ inbox' = inbox \o <<[kind |-> "change", text |-> revert.text],
                           [kind |-> "answer", text |-> revert.text]>>
    /\ saves' = [s \in DOMAIN saves |-> [saves[s] EXCEPT !.calm = FALSE]]
    /\ UNCHANGED <<row, stack, listVars, initialText, backupText, currentText, debounce,
                   validated, reverted, misplaced>>

Reverted ==
    /\ inbox # <<>> /\ Head(inbox).kind = "answer" /\ inbox' = Tail(inbox)
    /\ initialText' = Head(inbox).text /\ currentText' = Head(inbox).text
    /\ validated' = Head(inbox).text /\ revert' = NoRevert
    /\ UNCHANGED <<row, stack, listVars, native, backupText, debounce, saves, reverted, misplaced>>

\* The editor is gone: setText throws, or its answer changes nothing.
RevertGone ==
    /\ revert.at \in {"setText", "answer"} /\ revert.stray /\ revert' = NoRevert
    /\ UNCHANGED <<row, stack, listVars, textVars, saves, reverted, misplaced>>

-----------------------------------------------------------------------------
EditorNext ==
    \/ ReadRows \/ Loaded \/ Reload \/ RefreshTap \/ RefreshWrites \/ RefreshFails \/ RefreshReturns
    \/ OpenEditor \/ Back \/ Discard \/ Cancel \/ Type \/ TakeChange \/ Validate
    \/ Save \/ GetText \/ WriteYaml \/ SaveReturns
    \/ AskRevert \/ RevertConfirmed \/ RevertRow \/ RevertReads \/ SetText \/ Reverted \/ RevertGone

EditorRow == [yaml : Texts, backup : Texts, n : 0..MaxWrites]
Text0 == Texts \cup {"none"}
EditorTypeOK ==
    /\ row \in EditorRow /\ profiles \in EditorRow /\ profiles.n <= newest /\ newest <= row.n
    /\ stack \in {<<>>, <<"list">>, <<"list", "editor">>, <<"list", "editor", "discard">>,
                  <<"list", "editor", "revert">>}
    /\ loading \in BOOLEAN /\ refresh \in {"none", "fetching", "written"}
    /\ \A g \in DOMAIN gets : gets[g].at \in {"idle", "asked"} \/ gets[g].row \in EditorRow
    /\ {native, initialText, backupText, currentText, debounce, validated} \subseteq Text0
    /\ inbox \in Seq([kind : {"change", "answer"}, text : Texts])
    /\ saves \in [1..MaxSaves -> [at : {"idle", "getText", "write", "written"}, text : Text0,
                                  calm : BOOLEAN, stray : BOOLEAN]]
    /\ revert \in [at : {"idle", "revert", "read", "setText", "answer"}, text : Text0,
                   stray : BOOLEAN]
    /\ reverted \in BOOLEAN /\ misplaced \in BOOLEAN

-----------------------------------------------------------------------------
(* Properties. *)

\* Save stores the text of the native editor, but it was enabled by another one, the
\* last that was validated.  They are the same for a user who paused: what such a user
\* saves is YAML, whatever was typed, reverted and validated before.
CalmSavesAreValid ==
    \A s \in DOMAIN saves : saves[s].at = "write" /\ saves[s].calm => saves[s].text \notin Broken

\* When nothing is under way the list shows the row, so that the editor opens with what
\* is stored - unless the row was reverted, which the list is not told (_editYaml), a
\* save removed a route that was not its editor, or an older answer came last.
Resting == /\ refresh = "none" /\ revert.at = "idle"
           /\ \A g \in DOMAIN gets : gets[g] = NoGet
           /\ \A s \in DOMAIN saves : saves[s].at = "idle"
ListShowsRow ==
    Resting /\ ~reverted /\ ~misplaced /\ profiles.n = newest
        => stack # <<>> /\ profiles = row
===============================================================================
