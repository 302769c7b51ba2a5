------------------------------- MODULE Profiles -------------------------------
(***************************************************************************)
(* The profile table (ClashProfile.kt) under the method calls of           *)
(* MainActivity and the subscription fetches of SubscriptionService.       *)
(*                                                                         *)
(* Each call launches a coroutine.  It suspends at every query and at the  *)
(* fetch, which takes seconds; other calls run in between.  A refresh      *)
(* reads a row, fetches, and writes the whole row back.  One statement of  *)
(* SQLite is atomic; no call uses a transaction.                           *)
(***************************************************************************)
EXTENDS Naturals, Sequences, FiniteSets

CONSTANTS
    Jobs,       \* coroutines that may be in progress at a time
    MaxId,      \* profiles inserted in a behaviour
    MaxVersion, \* texts an upstream publishes after the first
    Urls,       \* urls the user enters; "" cannot be fetched
    Proxies     \* proxy selections the user makes

ASSUME BoundAssumption == MaxId \in Nat /\ MaxVersion \in Nat
ASSUME ConstantAssumption == "user" \notin Urls /\ "none" \notin Proxies

VARIABLES
    ids,      \* ids of the rows in the table
    table,    \* id -> row
    nextId,   \* the id the next insert generates (never one given out before)
    upstream, \* what the upstreams publish now
    job,      \* coroutine -> what it is doing
    asked     \* what the user last asked for: the profile, its url, its proxies

vars == <<ids, table, nextId, upstream, job, asked>>

Id == 1..MaxId

\* Texts: one fetched from an upstream, or one the user typed.
Fetched(u, v) == [url |-> u, v |-> v]
Typed == [url |-> "user", v |-> 0]
Text == [url : Urls \cup {"user"}, v : 0..MaxVersion]

\* yaml_content, yaml_backup, selected, selected_proxies
Row == [url : Urls, yaml : Text, backup : Text, selected : BOOLEAN,
        proxies : Proxies \cup {"none"}]
NewRow(u) == [url |-> u, yaml |-> Fetched(u, 0), backup |-> Fetched(u, 0),
              selected |-> FALSE, proxies |-> "none"]
Blank == NewRow(CHOOSE u \in Urls : TRUE)

\* A coroutine: the step it is at, and the (copies of) rows it has to deal with.
NoJob == [at |-> "idle", todo |-> <<>>]
Item == [id : 0..MaxId, row : Row]

TypeOK ==
    /\ ids \subseteq Id /\ nextId \in 1..(MaxId + 1)
    /\ table \in [ids -> Row]
    /\ upstream \in 0..MaxVersion
    /\ \A j \in Jobs : /\ job[j].at \in {"idle", "edit", "fetch", "update", "deselect",
                                         "select", "save"}
                       /\ job[j].todo \in Seq(Item)
    /\ asked.profile \in 0..MaxId
    /\ asked.url \in [Id -> Urls] /\ asked.proxies \in [Id -> Proxies \cup {"none"}]

Init ==
    /\ ids = {} /\ table = <<>> /\ nextId = 1
    /\ upstream = 0
    /\ job = [j \in Jobs |-> NoJob]
    /\ asked = [profile |-> 0, url |-> [i \in Id |-> Blank.url],
                proxies |-> [i \in Id |-> "none"]]

Idle(j) == job[j].at = "idle"
Begin(j, at, todo) == Idle(j) /\ job' = [job EXCEPT ![j] = [at |-> at, todo |-> todo]]
Goto(j, at) == job' = [job EXCEPT ![j].at = at]
Return(j) == job' = [job EXCEPT ![j] = NoJob]
Copy(i) == [id |-> i, row |-> table[i]]
Item1(j) == Head(job[j].todo)

\* @Update: the whole row, if there is still one with this id
Update(item) ==
    table' = [i \in ids |-> IF i = item.id THEN item.row ELSE table[i]]

\* UPDATE clash_profile SET ... WHERE id = :id
SetRow(i, row) == table' = [k \in ids |-> IF k = i THEN row ELSE table[k]]

-----------------------------------------------------------------------------
(* Calls that launch a coroutine with more than one step. *)

\* refreshSubscription reads the row; without one it answers NOT_FOUND.
Refresh(j) == \E i \in ids :
    /\ Begin(j, "fetch", <<Copy(i)>>)
    /\ UNCHANGED <<ids, table, nextId, upstream, asked>>

\* refreshAll reads all rows before the first fetch.
InOrder(S) ==
    {order \in [1..Cardinality(S) -> S] : \A k, l \in DOMAIN order : k < l => order[k] < order[l]}
RefreshAll(j) == \E order \in InOrder({i \in ids : table[i].url # ""}) :
    /\ order # <<>>
    /\ Begin(j, "fetch", [k \in DOMAIN order |-> Copy(order[k])])
    /\ UNCHANGED <<ids, table, nextId, upstream, asked>>

\* addSubscription fetches before it inserts.
Adding == {j \in Jobs : job[j].todo # <<>> /\ Item1(j).id = 0}
Add(j) == \E u \in Urls :
    /\ nextId + Cardinality(Adding) <= MaxId
    /\ Begin(j, "fetch", <<[id |-> 0, row |-> NewRow(u)]>>)
    /\ UNCHANGED <<ids, table, nextId, upstream, asked>>

\* updateSubscription reads the row, writes the copy with the new url, fetches.
Edit(j) == \E i \in ids, u \in Urls :
    /\ Begin(j, "edit", <<[id |-> i, row |-> [table[i] EXCEPT !.url = u]]>>)
    /\ asked' = [asked EXCEPT !.url[i] = u]
    /\ UNCHANGED <<ids, table, nextId, upstream>>

\* selectProfile
Select(j) == \E i \in ids :
    /\ Begin(j, "deselect", <<[id |-> i, row |-> Blank]>>)
    /\ asked' = [asked EXCEPT !.profile = i]
    /\ UNCHANGED <<ids, table, nextId, upstream>>

\* saveSelectedProxies
SaveProxies(j) == \E i \in ids, c \in Proxies :
    /\ Begin(j, "save", <<[id |-> i, row |-> [Blank EXCEPT !.proxies = c]]>>)
    /\ asked' = [asked EXCEPT !.proxies[i] = c]
    /\ UNCHANGED <<ids, table, nextId, upstream>>

-----------------------------------------------------------------------------
(* Their steps. *)

\* The next row of refreshAll, or the end of the coroutine.
Next1(j) ==
    LET rest == Tail(job[j].todo)
    IN  IF rest = <<>> THEN Return(j)
        ELSE job' = [job EXCEPT ![j] = [at |-> "fetch", todo |-> rest]]

WriteEdit(j) ==
    /\ job[j].at = "edit"
    /\ Update(Item1(j)) /\ Goto(j, "fetch")
    /\ UNCHANGED <<ids, nextId, upstream, asked>>

\* fetchSubscription returns the copy with the text the upstream publishes now ...
WithText(item) ==
    LET text == Fetched(item.row.url, upstream)
    IN  [item EXCEPT !.row = [item.row EXCEPT !.yaml = text, !.backup = text]]
Fetch(j) ==
    /\ job[j].at = "fetch" /\ Item1(j).row.url # ""
    /\ job' = [job EXCEPT ![j] = [at |-> "update",
                                  todo |-> <<WithText(Item1(j))>> \o Tail(job[j].todo)]]
    /\ UNCHANGED <<ids, table, nextId, upstream, asked>>

\* ... or throws: refreshAll goes on with the next row, the others answer an error.
FetchFails(j) ==
    /\ job[j].at = "fetch"
    /\ Next1(j)
    /\ UNCHANGED <<ids, table, nextId, upstream, asked>>

\* Mutant: an @Upsert.
WriteFetchedUpsert(j) ==
    /\ job[j].at = "update" /\ Item1(j).id # 0
    /\ ids' = ids \cup {Item1(j).id}
    /\ table' = [i \in ids' |-> IF i = Item1(j).id THEN Item1(j).row ELSE table[i]]
    /\ Next1(j)
    /\ UNCHANGED <<nextId, upstream, asked>>

WriteFetched(j) ==
    /\ job[j].at = "update" /\ Item1(j).id # 0
    /\ Update(Item1(j)) /\ Next1(j)
    /\ UNCHANGED <<ids, nextId, upstream, asked>>

Insert(j) ==
    /\ job[j].at = "update" /\ Item1(j).id = 0
    /\ ids' = ids \cup {nextId} /\ nextId' = nextId + 1
    /\ table' = [i \in ids' |-> IF i = nextId THEN Item1(j).row ELSE table[i]]
    /\ asked' = [asked EXCEPT !.url[nextId] = Item1(j).row.url]
    /\ Return(j)
    /\ UNCHANGED upstream

\* Mutant: the profile selected before stays selected.
DeselectNone(j) ==
    /\ job[j].at = "deselect"
    /\ Goto(j, "select")
    /\ UNCHANGED <<ids, table, nextId, upstream, asked>>

DeselectAll(j) ==
    /\ job[j].at = "deselect"
    /\ table' = [i \in ids |-> [table[i] EXCEPT !.selected = FALSE]]
    /\ Goto(j, "select")
    /\ UNCHANGED <<ids, nextId, upstream, asked>>

SelectOne(j) ==
    LET i == Item1(j).id
    IN  /\ job[j].at = "select"
        /\ IF i \in ids THEN SetRow(i, [table[i] EXCEPT !.selected = TRUE])
           ELSE UNCHANGED table
        /\ Return(j)
        /\ UNCHANGED <<ids, nextId, upstream, asked>>

UpdateSelectedProxies(j) ==
    LET i == Item1(j).id
    IN  /\ job[j].at = "save"
        /\ IF i \in ids THEN SetRow(i, [table[i] EXCEPT !.proxies = Item1(j).row.proxies])
           ELSE UNCHANGED table
        /\ Return(j)
        /\ UNCHANGED <<ids, nextId, upstream, asked>>

-----------------------------------------------------------------------------
(* Calls whose one statement does it all. *)

\* deleteSubscription
Delete == \E i \in ids :
    /\ ids' = ids \ {i}
    /\ table' = [k \in ids' |-> table[k]]
    /\ UNCHANGED <<nextId, upstream, job, asked>>

\* updateProfileYaml
UpdateYaml == \E i \in ids :
    /\ SetRow(i, [table[i] EXCEPT !.yaml = Typed])
    /\ UNCHANGED <<ids, nextId, upstream, job, asked>>

\* revertProfileYaml
Revert == \E i \in ids :
    /\ SetRow(i, [table[i] EXCEPT !.yaml = table[i].backup])
    /\ UNCHANGED <<ids, nextId, upstream, job, asked>>

\* An upstream publishes a new text (external).
Publish ==
    /\ upstream < MaxVersion /\ upstream' = upstream + 1
    /\ UNCHANGED <<ids, table, nextId, job, asked>>

\* MainActivity.onDestroy cancels the scope: every coroutine ends where it is,
\* and what was asked for is what has been done.
Destroy ==
    /\ job' = [j \in Jobs |-> NoJob]
    /\ asked' = [profile |-> IF \E i \in ids : table[i].selected
                             THEN CHOOSE i \in ids : table[i].selected ELSE 0,
                 url |-> [i \in Id |-> IF i \in ids THEN table[i].url ELSE Blank.url],
                 proxies |-> [i \in Id |-> IF i \in ids THEN table[i].proxies ELSE "none"]]
    /\ UNCHANGED <<ids, table, nextId, upstream>>

-----------------------------------------------------------------------------
Call(j) == Refresh(j) \/ RefreshAll(j) \/ Add(j) \/ Edit(j) \/ Select(j) \/ SaveProxies(j)
Step(j) ==
    WriteEdit(j) \/ Fetch(j) \/ FetchFails(j) \/ WriteFetched(j) \/ Insert(j)
    \/ DeselectAll(j) \/ SelectOne(j) \/ UpdateSelectedProxies(j)

Next ==
    \/ \E j \in Jobs : Call(j) \/ Step(j)
    \/ Delete \/ UpdateYaml \/ Revert \/ Publish \/ Destroy

Spec == Init /\ [][Next]_vars

-----------------------------------------------------------------------------
(* Properties. *)

\* "The selection is persisted": once no call is in progress, every profile has
\* the proxies the user chose last.
Quiet == \A j \in Jobs : Idle(j)
SelectionsKept == Quiet => \A i \in ids : table[i].proxies = asked.proxies[i]

\* Once no call is in progress the table says what the user asked for last: the
\* selected profile and no other, each profile's url, and its proxies.
ChoicesKept ==
    Quiet => \A i \in ids : /\ table[i].selected <=> asked.profile = i
                            /\ table[i].url = asked.url[i]
                            /\ table[i].proxies = asked.proxies[i]

\* "Backup must NOT change on edit - it tracks the upstream snapshot", and revert
\* "must restore the last upstream-fetched yaml".  Whatever edits, reverts,
\* refreshes, deletions and cancellations interleave with a fetch that will write
\* a whole row: the backup of a row is a text of an upstream, and none older than
\* it was, and a deleted profile does not come back.
RowsOnlyAdvance ==
    [][\A i \in ids' : /\ i \in ids \/ i = nextId
                       /\ table'[i].backup.url # "user"
                       /\ i \in ids => table'[i].backup.v >= table[i].backup.v]_vars
===============================================================================
