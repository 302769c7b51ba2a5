----------------------------- MODULE LibraryCalls -----------------------------
(***************************************************************************)
(* What the app's own process asks of the engine library (libmihomo.so)    *)
(* without running an engine in it: the conversion of a subscription that  *)
(* is not a clash document (SubscriptionService, SubscriptionFormat,       *)
(* convert.go, and the exports and JNI wrappers between them), with the    *)
(* one last error all threads share; and the tests of the diagnostics      *)
(* screen (diagnostics_screen.dart, diagnostics.go).                       *)
(*                                                                         *)
(* A subscription is known by what becomes of it, a text by the body it    *)
(* comes from and whether it is whole, an error by its reason.             *)
(***************************************************************************)
EXTENDS Integers, FiniteSets

CONSTANTS
    Fetches,        \* fetches in progress at a time
    Tests,          \* tiles of the diagnostics screen
    EngineTests,    \* those that succeed through the engine
    MaxToggles      \* starts and stops of the engine

ASSUME LibraryAssumption == EngineTests \subseteq Tests /\ MaxToggles \in Nat

VARIABLES
    lastError,   \* engine.go's lastError: a reason, or "" before the first
    fetch,       \* fetch -> its step and the body it has read
    answer,      \* fetch -> the text or the error it returned last
    silent,      \* history: fetches that were given null without a reason
    crossed,     \* history: fetches whose reason was replaced before they asked
    engineOn, toggles,  \* external: the engine in the :vpn process
    running,     \* the _DiagTiles that are _running
    result,      \* tile -> _result: "none", "OK" or "FAIL"
    served,      \* tests that have been carried out, and their answers
    sawEngine    \* history: tests during which the engine was on

fetchVars == <<lastError, fetch, answer, silent, crossed>>
testVars == <<engineOn, toggles, running, result, served, sawEngine>>
libraryVars == <<fetchVars, testVars>>

\* Bodies: a clash document with a key in its head, node lists of which the second
\* is more than OUT_CAP holds when converted, one that is not a node list, one
\* without a node that is known, and no body at all.
Bodies == {"clash", "nodes", "many nodes", "undecodable", "no known node", "empty"}
Reasons == {"undecodable", "no known node"}
NoAnswer == [kind |-> "none"]
TextOf(body, whole) == [kind |-> "text", of |-> body, whole |-> whole]
ErrorOf(reason) == [kind |-> "error", reason |-> reason]

LibraryInit ==
    /\ lastError = ""
    /\ fetch = [f \in Fetches |-> [at |-> "idle", body |-> "empty"]]
    /\ answer = [f \in Fetches |-> NoAnswer] /\ silent = {} /\ crossed = {}
    /\ engineOn = FALSE /\ toggles = 0
    /\ running = {} /\ result = [t \in Tests |-> "none"]
    /\ served = [t \in Tests |-> "none"] /\ sawEngine = {}

-----------------------------------------------------------------------------
(* fetchSubscription, on a thread of Dispatchers.IO for each. *)

Return1(f, a) ==
    /\ fetch' = [fetch EXCEPT ![f].at = "idle"]
    /\ answer' = [answer EXCEPT ![f] = a]

Ask(f) ==
    /\ fetch[f].at = "idle"
    /\ \E body \in Bodies : fetch' = [fetch EXCEPT ![f] = [at |-> "read", body |-> body]]
    /\ answer' = [answer EXCEPT ![f] = NoAnswer]
    /\ silent' = silent \ {f} /\ crossed' = crossed \ {f}
    /\ UNCHANGED <<lastError, testVars>>

\* The connection throws.
Unreadable(f) ==
    /\ fetch[f].at = "read" /\ Return1(f, ErrorOf("unreadable"))
    /\ UNCHANGED <<lastError, silent, crossed, testVars>>

IsClashYaml(body) == body = "clash"

Verbatim(f) ==
    /\ fetch[f].at = "read" /\ IsClashYaml(fetch[f].body)
    /\ Return1(f, TextOf(fetch[f].body, TRUE))
    /\ UNCHANGED <<lastError, silent, crossed, testVars>>

\* null: the caller goes on to ask for the reason.
ReturnsNull(f) == fetch' = [fetch EXCEPT ![f].at = "null"] /\ UNCHANGED answer
ToConvert(f) == fetch[f].at = "read" /\ ~IsClashYaml(fetch[f].body)

\* nativeConvertSubscription gives up without a word: there are no bytes, or no
\* memory for them or for the buffer.
ConvertNothing(f) ==
    /\ ToConvert(f) /\ ReturnsNull(f) /\ silent' = silent \cup {f}
    /\ UNCHANGED <<lastError, crossed, testVars>>

\* Mutant: meowConvertSubscription does not set the last error.
ConvertFailsUntold(f) ==
    /\ ToConvert(f) /\ fetch[f].body \in Reasons /\ ReturnsNull(f)
    /\ UNCHANGED <<lastError, silent, crossed, testVars>>

\* convertSubscription returns an error, which meowConvertSubscription keeps.
ConvertFails(f) ==
    /\ ToConvert(f) /\ fetch[f].body \in Reasons /\ ReturnsNull(f)
    /\ lastError' = fetch[f].body
    /\ crossed' = crossed \cup {g \in Fetches \ {f} : fetch[g].at = "null"}
    /\ UNCHANGED <<silent, testVars>>

\* meow_fill_string: what does not fit the buffer is left out.
Converted(f) ==
    /\ ToConvert(f) /\ fetch[f].body \in {"nodes", "many nodes"}
    /\ Return1(f, TextOf(fetch[f].body, fetch[f].body = "nodes"))
    /\ UNCHANGED <<lastError, silent, crossed, testVars>>

\* nativeGetLastError
GetLastError(f) ==
    /\ fetch[f].at = "null" /\ Return1(f, ErrorOf(lastError))
    /\ UNCHANGED <<lastError, silent, crossed, testVars>>

-----------------------------------------------------------------------------
(* The diagnostics screen. *)

EngineToggles ==
    /\ toggles < MaxToggles /\ toggles' = toggles + 1
    /\ engineOn' = ~engineOn
    /\ sawEngine' = IF engineOn' THEN sawEngine \cup running ELSE sawEngine
    /\ UNCHANGED <<running, result, served, fetchVars>>

\* _onRun
Run(t) ==
    /\ t \notin running /\ running' = running \cup {t}
    /\ result' = [result EXCEPT ![t] = "none"]
    /\ sawEngine' = IF engineOn THEN sawEngine \cup {t} ELSE sawEngine \ {t}
    /\ UNCHANGED <<engineOn, toggles, served, fetchVars>>

\* The test is carried out, and may fail for reasons of its own.
Carry(t) ==
    /\ t \in running /\ served[t] = "none"
    /\ \/ (t \in EngineTests => engineOn) /\ served' = [served EXCEPT ![t] = "OK"]
       \/ served' = [served EXCEPT ![t] = "FAIL"]
    /\ UNCHANGED <<engineOn, toggles, running, result, sawEngine, fetchVars>>

Show(t) ==
    /\ t \in running /\ served[t] # "none" /\ running' = running \ {t}
    /\ result' = [result EXCEPT ![t] = served[t]]
    /\ served' = [served EXCEPT ![t] = "none"]
    /\ UNCHANGED <<engineOn, toggles, sawEngine, fetchVars>>

\* The screen is left: what was running answers nobody.
LeaveTests ==
    /\ running' = {} /\ result' = [t \in Tests |-> "none"]
    /\ served' = [t \in Tests |-> "none"] /\ sawEngine' = {}
    /\ UNCHANGED <<engineOn, toggles, fetchVars>>

-----------------------------------------------------------------------------
FetchNext == \E f \in Fetches :
    \/ Ask(f) \/ Unreadable(f) \/ Verbatim(f)
    \/ ConvertNothing(f) \/ ConvertFails(f) \/ Converted(f) \/ GetLastError(f)

TestsNext ==
    \/ EngineToggles \/ LeaveTests
    \/ \E t \in Tests : Run(t) \/ Carry(t) \/ Show(t)

LibraryTypeOK ==
    /\ lastError \in Reasons \cup {""} /\ silent \subseteq Fetches /\ crossed \subseteq Fetches
    /\ fetch \in [Fetches -> [at : {"idle", "read", "null"}, body : Bodies]]
    /\ \A f \in Fetches : answer[f] = NoAnswer
                          \/ answer[f] \in [kind : {"text"}, of : Bodies, whole : BOOLEAN]
                          \/ answer[f] \in [kind : {"error"}, reason : Reasons \cup {"", "unreadable"}]
    /\ engineOn \in BOOLEAN /\ toggles \in 0..MaxToggles
    /\ running \subseteq Tests /\ sawEngine \subseteq Tests
    /\ result \in [Tests -> {"none", "OK", "FAIL"}] /\ served \in [Tests -> {"none", "OK", "FAIL"}]

-----------------------------------------------------------------------------
(* Properties. *)

\* "Returns null on failure; call nativeGetLastError to get the reason": a fetch
\* that did not return its own text, whole, tells why - unless the conversion was
\* refused without a reason (an empty body), another one failed in between, or the
\* text was cut at OUT_CAP, which nobody is told.
FetchTellsWhy == \A f \in Fetches :
    LET a == answer[f]
    IN  \/ a.kind = "none" \/ f \in silent \cup crossed
        \/ a.kind = "text" /\ a.of = fetch[f].body
           /\ (a.whole \/ fetch[f].body = "many nodes")
        \/ a.kind = "error" /\ a.reason \in {"unreadable", fetch[f].body}

\* A tile shows OK for a test that needs the engine only if the engine was on
\* during its last run, and nothing while it runs.
TestsAreFresh == \A t \in EngineTests : result[t] = "OK" => t \in sawEngine \ running

\* What the app is told by the library is about the call it made: the text or the
\* reason of this fetch, the outcome of this test (nativeConvertSubscription,
\* nativeGetLastError, _onRun).
AnswersAreOwn == FetchTellsWhy /\ TestsAreFresh
===============================================================================
