---------------------------- MODULE ProvidersScreen ---------------------------
(***************************************************************************)
(* The screen of the providers (providers_screen.dart), with a provider of *)
(* each kind.  A load asks the engine for the proxy providers and then for *)
(* the rule providers; an update has the engine fetch one of them anew and *)
(* then loads all.  A tile is locked while its own update goes on, but     *)
(* nothing keeps the loads of two tiles apart.                             *)
(***************************************************************************)
EXTENDS EngineApi

CONSTANT MaxFetched  \* versions of a provider after the first

ASSUME ProvidersAssumption == MaxFetched \in Nat

VARIABLES
    version,    \* external: the version of each provider the engine holds
    watched,    \* the screen is open
    lists,     \* _proxyProviders and _ruleProviders: versions, or Nothing
    errand,     \* _load of initState, _onUpdate of the tiles
    confirmed,  \* history: the version a tile's latest update brought
    behind,     \* history: errands that have read a provider before that
    lost        \* history: providers whose update was not followed by its load

providerVars == <<version, watched, lists, errand, confirmed, behind, lost>>

Kinds == {"proxies", "rules"}
Errands == Kinds \cup {"open"}
Nothing == -1
Listed == [Kinds -> Nothing..MaxFetched]
NoErrand == [at |-> "idle", read |-> [k \in Kinds |-> Nothing]]

ProvidersInit ==
    /\ version = [k \in Kinds |-> 0] /\ watched = FALSE
    /\ lists = [k \in Kinds |-> Nothing] /\ errand = [e \in Errands |-> NoErrand]
    /\ confirmed = [k \in Kinds |-> Nothing]
    /\ behind = [k \in Kinds |-> {}] /\ lost = {}

-----------------------------------------------------------------------------
(* The screen. *)

Go(e, at) == errand' = [errand EXCEPT ![e].at = at]
HistoryStays == UNCHANGED <<confirmed, behind, lost>>

\* initState
OpenProviders ==
    /\ ~watched /\ watched' = TRUE /\ lists' = [k \in Kinds |-> Nothing]
    /\ Go("open", "proxies")
    /\ UNCHANGED version /\ HistoryStays

\* What was under way answers nobody.
LeaveProviders ==
    /\ watched /\ watched' = FALSE
    /\ errand' = [e \in Errands |-> NoErrand]
    /\ confirmed' = [k \in Kinds |-> Nothing]
    /\ behind' = [k \in Kinds |-> {}] /\ lost' = {}
    /\ UNCHANGED <<version, lists>>

\* _onUpdate of the tile, which is there when its provider is listed.
UpdateTap(k) ==
    /\ watched /\ lists[k] # Nothing /\ errand[k].at = "idle" /\ Go(k, "put")
    /\ UNCHANGED <<version, watched, lists>> /\ HistoryStays

\* Those that hold what they read of this kind from before.
HaveRead(k) == {e \in Errands \ {k} : errand[e].read[k] # Nothing}

\* Mutant: the lists are not loaded again.
UpdatedOnly(k) ==
    /\ errand[k].at = "put" /\ up /\ version[k] < MaxFetched
    /\ version' = [version EXCEPT ![k] = @ + 1]
    /\ confirmed' = [confirmed EXCEPT ![k] = version[k] + 1]
    /\ behind' = [behind EXCEPT ![k] = HaveRead(k)] /\ lost' = lost \ {k}
    /\ Go(k, "idle")
    /\ UNCHANGED <<watched, lists>>

\* PUT /providers/...: the engine fetched the provider, and _load begins ...
Updated(k) ==
    /\ errand[k].at = "put" /\ up /\ version[k] < MaxFetched
    /\ version' = [version EXCEPT ![k] = @ + 1]
    /\ confirmed' = [confirmed EXCEPT ![k] = version[k] + 1]
    /\ behind' = [behind EXCEPT ![k] = HaveRead(k)] /\ lost' = lost \ {k}
    /\ Go(k, "proxies")
    /\ UNCHANGED <<watched, lists>>

\* ... or it could not, or was not there: the error is ignored.
UpdateFails(k) ==
    /\ errand[k].at = "put" /\ Go(k, "idle")
    /\ UNCHANGED <<version, watched, lists>> /\ HistoryStays

\* The two GETs of a load, one after the other.
Get(e) ==
    /\ errand[e].at \in Kinds /\ up
    /\ LET k == errand[e].at
       IN  errand' = [errand EXCEPT ![e] =
                        [at |-> IF k = "proxies" THEN "rules" ELSE "answer",
                         read |-> [errand[e].read EXCEPT ![k] = version[k]]]]
    /\ UNCHANGED <<version, watched, lists>> /\ HistoryStays

UnderLoad(e) == errand[e].at \in Kinds \cup {"answer"}

\* Either may be refused or break off: nothing is taken.
LoadFails(e) ==
    /\ UnderLoad(e) /\ errand' = [errand EXCEPT ![e] = NoErrand]
    /\ lost' = lost \cup ({e} \cap Kinds)
    /\ behind' = [k \in Kinds |-> behind[k] \ {e}]
    /\ UNCHANGED <<version, watched, lists, confirmed>>

\* Both lists are taken at once, over what another load brought meanwhile.
TakeLists(e) ==
    /\ errand[e].at = "answer" /\ lists' = errand[e].read
    /\ errand' = [errand EXCEPT ![e] = NoErrand]
    /\ lost' = lost \cup {k \in Kinds : e \in behind[k] /\ ~UnderLoad(k)}
    /\ behind' = [k \in Kinds |-> behind[k] \ {e}]
    /\ UNCHANGED <<version, watched, confirmed>>

\* The engine fetches a provider when its interval is over (external).
Refetch ==
    /\ up /\ \E k \in Kinds :
          version[k] < MaxFetched /\ version' = [version EXCEPT ![k] = @ + 1]
    /\ UNCHANGED <<watched, lists, errand>> /\ HistoryStays

-----------------------------------------------------------------------------
ProvidersNext ==
    /\ \/ OpenProviders \/ LeaveProviders \/ Refetch
       \/ \E k \in Kinds : UpdateTap(k) \/ Updated(k) \/ UpdateFails(k)
       \/ \E e \in Errands : Get(e) \/ LoadFails(e) \/ TakeLists(e)
    /\ UNCHANGED apiVars

ProvidersTypeOK ==
    /\ version \in [Kinds -> 0..MaxFetched] /\ watched \in BOOLEAN /\ lists \in Listed
    /\ errand \in [Errands -> [at : {"idle", "put", "answer"} \cup Kinds, read : Listed]]
    /\ confirmed \in Listed /\ behind \in [Kinds -> SUBSET Errands] /\ lost \subseteq Kinds

-----------------------------------------------------------------------------
(* Properties. *)

\* A tile that is done with an update shows what the update brought, or newer,
\* whatever else is loaded at the time - unless its load failed, or a load that
\* had read the provider before the update was taken when all of it was over.
UpdateIsListed == \A k \in Kinds :
    (watched /\ errand[k].at = "idle" /\ k \notin lost) => lists[k] >= confirmed[k]
===============================================================================
