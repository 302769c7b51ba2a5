---------------------------- MODULE MethodCalls_proofs --------------------------
(***************************************************************************)
(* The calls that need no engine, for every value of the constants.  Each  *)
(* behaviour follows one kind of them (part); what is not followed stays   *)
(* as it was in the beginning.                                             *)
(***************************************************************************)
EXTENDS MethodCalls, SequenceTheorems, FiniteSetTheorems, TLAPS

-----------------------------------------------------------------------------
(* The calls into the library. *)

FetchTypes ==
    /\ fetch \in [Fetches -> [at : {"idle", "read", "null"}, body : Bodies]]
    /\ DOMAIN answer = Fetches

\* A fetch that has been given null finds its reason in lastError, unless it was
\* given none or another one came in between; it has not answered yet.
NullInv == \A f \in Fetches :
    /\ fetch[f].at = "null" => f \in silent \cup crossed \/ lastError = fetch[f].body
    /\ fetch[f].at # "idle" => answer[f].kind = "none"
FetchInv == FetchTypes /\ NullInv /\ FetchTellsWhy

\* What is running while the engine is on has seen it, and so has what succeeded.
SeenInv ==
    /\ engineOn => running \subseteq sawEngine
    /\ \A t \in Tests : served[t] # "none" => t \in running
    /\ \A t \in EngineTests : served[t] = "OK" => t \in sawEngine
TestsInv ==
    /\ DOMAIN result = Tests /\ DOMAIN served = Tests /\ running \subseteq Tests
    /\ SeenInv /\ TestsAreFresh

\* What an answer says of a fetch.
Tells(a, body, excused) ==
    \/ a.kind = "none" \/ excused
    \/ a.kind = "text" /\ a.of = body /\ (a.whole \/ body = "many nodes")
    \/ a.kind = "error" /\ a.reason \in {"unreadable", body}
LEMMA TellsWhy ==
    FetchTellsWhy <=> \A f \in Fetches : Tells(answer[f], fetch[f].body, f \in silent \cup crossed)
BY DEF FetchTellsWhy, Tells

LEMMA Answered ==
    /\ NoAnswer.kind = "none"
    /\ \A body, whole, excused :
          (whole = TRUE \/ body = "many nodes") => Tells(TextOf(body, whole), body, excused)
    /\ \A body, reason, excused :
          (excused = TRUE \/ reason \in {"unreadable", body}) => Tells(ErrorOf(reason), body, excused)
BY DEF NoAnswer, Tells, TextOf, ErrorOf

LEMMA FetchStep == FetchInv /\ (FetchNext \/ UNCHANGED fetchVars) => FetchInv'
<1> SUFFICES ASSUME FetchInv, FetchNext \/ UNCHANGED fetchVars PROVE FetchInv'
    OBVIOUS
<1>t. /\ fetch \in [Fetches -> [at : {"idle", "read", "null"}, body : Bodies]]
      /\ DOMAIN answer = Fetches
      /\ \A f \in Fetches : Tells(answer[f], fetch[f].body, f \in silent \cup crossed)
    BY TellsWhy DEF FetchInv, FetchTypes
<1>1. CASE UNCHANGED fetchVars
    BY <1>1 DEF fetchVars, FetchInv, FetchTypes, NullInv, FetchTellsWhy
<1>2. ASSUME NEW f \in Fetches, Ask(f) PROVE FetchInv'
    <2>1. PICK body \in Bodies :
              /\ fetch' = [fetch EXCEPT ![f] = [at |-> "read", body |-> body]]
              /\ answer' = [answer EXCEPT ![f] = NoAnswer]
              /\ silent' = silent \ {f} /\ crossed' = crossed \ {f} /\ UNCHANGED lastError
        BY <1>2 DEF Ask
    <2>2. FetchTypes'
        BY <1>t, <2>1 DEF FetchTypes
    <2>3. /\ fetch'[f].at = "read" /\ answer'[f].kind = "none"
          /\ \A g \in Fetches \ {f} : fetch'[g] = fetch[g] /\ answer'[g] = answer[g]
        BY <1>t, <2>1, Answered
    <2>4. NullInv'
        BY <2>1, <2>3 DEF FetchInv, NullInv
    <2>5. FetchTellsWhy'
        BY <2>1, <2>3 DEF FetchInv, FetchTellsWhy
    <2> QED
        BY <2>2, <2>4, <2>5 DEF FetchInv
<1>3. ASSUME NEW f \in Fetches, Unreadable(f) \/ Verbatim(f) \/ Converted(f) \/ GetLastError(f)
      PROVE  FetchInv'
    <2>1. PICK a : /\ fetch[f].at # "idle" /\ Return1(f, a)
                   /\ Tells(a, fetch[f].body, f \in silent \cup crossed)
        <3>1. CASE Unreadable(f)
            BY <3>1, Answered DEF Unreadable
        <3>2. CASE Verbatim(f)
            BY <3>2, Answered DEF Verbatim
        <3>3. CASE Converted(f)
            <4>1. (fetch[f].body = "nodes") = TRUE \/ fetch[f].body = "many nodes"
                BY <3>3 DEF Converted
            <4> QED
                BY <3>3, <4>1, Answered DEF Converted, ToConvert
        <3>4. CASE GetLastError(f)
            <4>1. f \in silent \cup crossed \/ lastError = fetch[f].body
                BY <3>4 DEF GetLastError, FetchInv, NullInv
            <4>2. Tells(ErrorOf(lastError), fetch[f].body, f \in silent \cup crossed)
                BY <4>1 DEF Tells, ErrorOf
            <4> QED
                BY <3>4, <4>2 DEF GetLastError
        <3> QED
            BY <1>3, <3>1, <3>2, <3>3, <3>4
    <2>2. UNCHANGED <<lastError, silent, crossed>>
        BY <1>3 DEF Unreadable, Verbatim, Converted, GetLastError
    <2>3. /\ fetch' = [fetch EXCEPT ![f].at = "idle"] /\ answer' = [answer EXCEPT ![f] = a]
        BY <2>1 DEF Return1
    <2>4. FetchTypes'
        BY <1>t, <2>3 DEF FetchTypes
    <2>5. /\ fetch'[f].at = "idle" /\ fetch'[f].body = fetch[f].body /\ answer'[f] = a
          /\ \A g \in Fetches \ {f} : fetch'[g] = fetch[g] /\ answer'[g] = answer[g]
        BY <1>t, <2>3
    <2>6. NullInv'
        BY <2>2, <2>5 DEF FetchInv, NullInv
    <2>7. \A g \in Fetches : Tells(answer'[g], fetch'[g].body, g \in silent' \cup crossed')
        BY <1>t, <2>1, <2>2, <2>5
    <2>8. FetchTellsWhy'
        BY <2>7 DEF FetchTellsWhy, Tells
    <2> QED
        BY <2>4, <2>6, <2>8 DEF FetchInv
<1>4. ASSUME NEW f \in Fetches, ConvertNothing(f) \/ ConvertFails(f) PROVE FetchInv'
    <2>1. /\ fetch[f].at = "read" /\ fetch' = [fetch EXCEPT ![f].at = "null"] /\ UNCHANGED answer
          /\ silent \subseteq silent' /\ crossed \subseteq crossed'
          /\ \/ f \in silent' /\ UNCHANGED lastError
             \/ /\ lastError' = fetch[f].body
                /\ \A g \in Fetches \ {f} : fetch[g].at = "null" => g \in crossed'
        BY <1>4 DEF ConvertNothing, ConvertFails, ReturnsNull, ToConvert
    <2>2. FetchTypes'
        BY <1>t, <2>1 DEF FetchTypes
    <2>3. /\ fetch'[f].at = "null" /\ fetch'[f].body = fetch[f].body
          /\ \A g \in Fetches \ {f} : fetch'[g] = fetch[g]
        BY <1>t, <2>1
    <2>4. NullInv'
        <3> SUFFICES ASSUME NEW g \in Fetches
                     PROVE  /\ fetch'[g].at = "null" =>
                                   g \in silent' \cup crossed' \/ lastError' = fetch'[g].body
                            /\ fetch'[g].at # "idle" => answer'[g].kind = "none"
            BY DEF NullInv
        <3>1. CASE g = f
            BY <2>1, <2>3, <3>1 DEF FetchInv, NullInv
        <3>2. CASE g # f
            BY <2>1, <2>3, <3>2 DEF FetchInv, NullInv
        <3> QED
            BY <3>1, <3>2
    <2>5. FetchTellsWhy'
        BY <1>t, <2>1, <2>3, ZenonT(40) DEF FetchTellsWhy, Tells
    <2> QED
        BY <2>2, <2>4, <2>5 DEF FetchInv
<1> QED
    BY <1>1, <1>2, <1>3, <1>4 DEF FetchNext

LEMMA TestsStep == TestsInv /\ (TestsNext \/ UNCHANGED testVars) => TestsInv'
<1> SUFFICES ASSUME TestsInv, TestsNext \/ UNCHANGED testVars PROVE TestsInv'
    OBVIOUS
<1> USE LibraryAssumption DEF TestsInv, SeenInv, TestsAreFresh
<1>1. CASE UNCHANGED testVars
    BY <1>1 DEF testVars
<1>2. CASE EngineToggles
    BY <1>2 DEF EngineToggles
<1>3. CASE LeaveTests
    BY <1>3 DEF LeaveTests
<1>4. ASSUME NEW t \in Tests, Run(t) PROVE TestsInv'
    BY <1>4 DEF Run
<1>5. ASSUME NEW t \in Tests, Carry(t) PROVE TestsInv'
    BY <1>5 DEF Carry
<1>6. ASSUME NEW t \in Tests, Show(t) PROVE TestsInv'
    BY <1>6 DEF Show
<1> QED
    BY <1>1, <1>2, <1>3, <1>4, <1>5, <1>6 DEF TestsNext

\* What the app is told by the library is about the call it made: the text or the
\* reason of this fetch, the outcome of this test (nativeConvertSubscription,
\* nativeGetLastError, _onRun).
THEOREM AnswersAreTold == CallsSpec => []AnswersAreOwn
<1>1. CallsInit => FetchInv /\ TestsInv
    <2> SUFFICES ASSUME LibraryInit PROVE FetchInv /\ TestsInv
        BY DEF CallsInit
    <2> USE DEF LibraryInit
    <2>1. FetchTypes
        BY DEF FetchTypes, Bodies
    <2>2. \A f \in Fetches : fetch[f].at = "idle" /\ answer[f].kind = "none"
        BY DEF NoAnswer
    <2>3. NullInv /\ FetchTellsWhy
        BY <2>2 DEF NullInv, FetchTellsWhy
    <2>4. TestsInv
        BY LibraryAssumption DEF TestsInv, SeenInv, TestsAreFresh
    <2> QED
        BY <2>1, <2>3, <2>4 DEF FetchInv
<1>2. FetchInv /\ TestsInv /\ [CallsNext]_methodVars => (FetchInv /\ TestsInv)'
    <2> SUFFICES ASSUME FetchInv, TestsInv, [CallsNext]_methodVars PROVE FetchInv' /\ TestsInv'
        OBVIOUS
    <2>1. (FetchNext \/ UNCHANGED fetchVars) /\ (TestsNext \/ UNCHANGED testVars)
        BY DEF CallsNext, Only, methodVars
    <2> QED
        BY <2>1, FetchStep, TestsStep
<1>3. FetchInv /\ TestsInv => AnswersAreOwn
    BY DEF FetchInv, TestsInv, AnswersAreOwn
<1> QED
    BY <1>1, <1>2, <1>3, PTL DEF CallsSpec
-----------------------------------------------------------------------------
(* The apps the VPN carries. *)

AppsTypes ==
    /\ installed \subseteq Apps /\ apps \subseteq Apps
    /\ prefs \in PerApp /\ file \in PerApp /\ config \in PerApp
    /\ intent \in PerApp /\ choice \in PerApp /\ copy \in PerApp \cup {Unread}
    /\ selectedMode \in {"proxy", "bypass"} /\ selectedPackages \subseteq Apps

\* What the file will hold when all is written is what the app's process has.
WriteInv ==
    /\ toWrite \in Seq(PerApp)
    /\ IF toWrite = <<>> THEN file = prefs ELSE toWrite[Len(toWrite)] = prefs

\* The screen begins with what is stored, and follows the user from then on.
PickInv ==
    /\ screen \in {"closed", "asked", "asked2"} => intent = prefs /\ selectedPackages = {}
    /\ screen = "asked2" => config = prefs
    /\ screen = "open" => intent = [mode |-> selectedMode, packages |-> selectedPackages]
    /\ ~early => choice = prefs

\* The tunnel has the rule of the copy, and a fresh copy is what was saved.
TunnelInv ==
    /\ copy # Unread /\ fresh => copy = prefs
    /\ on => copy # Unread /\ (~cameOrWent => tunnel = Rule(copy))

AppsInv == AppsTypes /\ WriteInv /\ PickInv /\ TunnelInv

LEMMA TwoMore ==
    ASSUME NEW X, NEW s \in Seq(X), NEW a \in X, NEW b \in X
    PROVE  /\ s \o <<a, b>> \in Seq(X) /\ s \o <<a, b>> # <<>>
           /\ (s \o <<a, b>>)[Len(s \o <<a, b>>)] = b
<1> DEFINE t == s \o <<a, b>>
<1>1. <<a, b>> \in Seq(X) /\ Len(<<a, b>>) = 2 /\ <<a, b>>[2] = b
    OBVIOUS
<1>2. /\ t \in Seq(X) /\ Len(t) = Len(s) + 2
      /\ \A i \in 1..(Len(s) + 2) : t[i] = IF i <= Len(s) THEN s[i] ELSE <<a, b>>[i - Len(s)]
    BY <1>1, ConcatProperties
<1>3. Len(s) \in Nat
    BY LenProperties
<1> HIDE DEF t
<1>4. t # <<>>
    BY <1>2, <1>3, EmptySeq
<1>5. t[Len(t)] = b
    <2>1. Len(s) + 2 \in 1..(Len(s) + 2) /\ ~(Len(s) + 2 <= Len(s)) /\ (Len(s) + 2) - Len(s) = 2
        BY <1>3
    <2>2. t[Len(s) + 2] = <<a, b>>[2]
        BY <1>2, <2>1
    <2> QED
        BY <1>1, <1>2, <2>2
<1> QED
    BY <1>2, <1>4, <1>5 DEF t

LEMMA Remaining ==
    ASSUME NEW X, NEW s \in Seq(X), NEW i \in 1..Len(s)
    PROVE  LET t == SubSeq(s, i + 1, Len(s))
           IN  /\ t \in Seq(X)
               /\ IF t = <<>> THEN i = Len(s) ELSE t[Len(t)] = s[Len(s)]
<1> DEFINE t == SubSeq(s, i + 1, Len(s))
<1>1. Len(s) \in Nat /\ \A j \in 1..Len(s) : s[j] \in X
    BY LenProperties, ElementOfSeq
<1>2. /\ t \in Seq(X) /\ Len(t) = IF i + 1 <= Len(s) THEN Len(s) - (i + 1) + 1 ELSE 0
      /\ \A j \in 1..(Len(s) - (i + 1) + 1) : t[j] = s[(i + 1) + j - 1]
    <2>1. i + 1 \in Int /\ Len(s) \in Int /\ \A j \in (i + 1)..Len(s) : s[j] \in X
        BY <1>1
    <2> QED
        BY <2>1, SubSeqProperties
<1> HIDE DEF t
<1>3. CASE i = Len(s)
    <2>1. Len(t) = 0
        BY <1>1, <1>2, <1>3
    <2>2. t = <<>>
        BY <1>2, <2>1, EmptySeq
    <2> QED
        BY <1>2, <1>3, <2>2 DEF t
<1>4. CASE i # Len(s)
    <2>1. Len(t) = Len(s) - i /\ Len(t) # 0
        BY <1>1, <1>2, <1>4
    <2>2. t # <<>>
        BY <2>1, EmptySeq
    <2>3. Len(s) - i \in 1..(Len(s) - (i + 1) + 1) /\ (i + 1) + (Len(s) - i) - 1 = Len(s)
        BY <1>1, <1>4
    <2>4. t[Len(s) - i] = s[(i + 1) + (Len(s) - i) - 1]
        BY <1>2, <2>3
    <2>5. t[Len(t)] = s[Len(s)]
        BY <2>1, <2>3, <2>4
    <2> QED
        BY <1>2, <2>2, <2>5 DEF t
<1> QED
    BY <1>3, <1>4

LEMMA AppsStep == AppsInv /\ (PerAppNext \/ UNCHANGED perAppVars) => AppsInv'
<1> SUFFICES ASSUME AppsInv, PerAppNext \/ UNCHANGED perAppVars PROVE AppsInv'
    OBVIOUS
<1>t. AppsTypes /\ WriteInv /\ PickInv /\ TunnelInv
    BY DEF AppsInv
<1>v. \A p \in PerApp : p = [mode |-> p.mode, packages |-> p.packages] /\ p # Unread
                        /\ p.mode \in {"proxy", "bypass"} /\ p.packages \subseteq Apps
    BY DEF PerApp, Unread
<1> USE DEF deviceVars, fileVars, serviceVars, pickVars
<1>1. CASE UNCHANGED perAppVars
    BY <1>t, <1>1 DEF perAppVars, AppsInv, AppsTypes, WriteInv, PickInv, TunnelInv, Rule
<1>2. CASE PackageChange
    <2>1. /\ UNCHANGED <<prefs, file, toWrite, copy, on, fresh, screen, config, apps, selectedMode,
                         selectedPackages, tapped, intent, choice, early>>
          /\ installed' \subseteq Apps /\ (on => cameOrWent')
        BY <1>t, <1>2 DEF PackageChange, AppsTypes
    <2>2. AppsTypes'
        BY <1>t, <2>1 DEF AppsTypes
    <2>3. WriteInv'
        BY <1>t, <2>1 DEF WriteInv
    <2>4. PickInv'
        BY <1>t, <2>1 DEF PickInv
    <2>5. TunnelInv'
        BY <1>t, <2>1 DEF TunnelInv
    <2> QED
        BY <2>2, <2>3, <2>4, <2>5 DEF AppsInv
<1>3. CASE WriteFile
    <2>1. PICK i \in DOMAIN toWrite :
              file' = toWrite[i] /\ toWrite' = SubSeq(toWrite, i + 1, Len(toWrite))
        BY <1>3 DEF WriteFile
    <2>2. /\ UNCHANGED <<installed, cameOrWent, prefs, copy, on, tunnel, fresh, screen, config, apps,
                         selectedMode, selectedPackages, intent, choice, early>>
        BY <1>3 DEF WriteFile
    <2>3. toWrite \in Seq(PerApp) /\ i \in 1..Len(toWrite)
        BY <1>t, <2>1, LenProperties DEF WriteInv
    <2>4. /\ toWrite' \in Seq(PerApp)
          /\ IF toWrite' = <<>> THEN i = Len(toWrite)
             ELSE toWrite'[Len(toWrite')] = toWrite[Len(toWrite)]
        BY <2>1, <2>3, Remaining
    <2>5. toWrite # <<>> /\ toWrite[i] \in PerApp
        BY <2>3, EmptySeq, ElementOfSeq
    <2>6. WriteInv'
        BY <1>t, <2>1, <2>2, <2>4, <2>5 DEF WriteInv
    <2>7. AppsTypes' /\ PickInv' /\ TunnelInv'
        BY <1>t, <2>1, <2>2, <2>5 DEF AppsTypes, PickInv, TunnelInv, Rule
    <2> QED
        BY <2>6, <2>7 DEF AppsInv
<1>4. CASE Open \/ GotConfig \/ GotApps \/ Pick
    <2>1. UNCHANGED <<deviceVars, fileVars, serviceVars, choice, early>>
        BY <1>4 DEF Open, GotConfig, GotApps, Pick
    <2>2. WriteInv'
        BY <1>t, <2>1 DEF WriteInv
    <2>3. TunnelInv'
        BY <1>t, <2>1 DEF TunnelInv, Rule
    <2>4. AppsTypes' /\ PickInv'
        <3>1. CASE Open
            BY <1>t, <2>1, <3>1 DEF Open, AppsTypes, PickInv
        <3>2. CASE GotConfig
            BY <1>t, <2>1, <3>2 DEF GotConfig, AppsTypes, PickInv
        <3>3. CASE GotApps
            <4>1. config \in PerApp /\ config = prefs /\ intent = prefs /\ selectedPackages = {}
                BY <1>t, <3>3 DEF GotApps, AppsTypes, PickInv
            <4>2. selectedMode' = config.mode /\ selectedPackages' = config.packages
                BY <3>3, <4>1 DEF GotApps
            <4>3. screen' = "open" /\ apps' = installed /\ UNCHANGED <<config, intent>>
                BY <3>3 DEF GotApps
            <4>4. AppsTypes'
                BY <1>t, <1>v, <2>1, <4>1, <4>2, <4>3 DEF AppsTypes
            <4>5. intent' = [mode |-> selectedMode', packages |-> selectedPackages']
                BY <1>v, <4>1, <4>2, <4>3
            <4> QED
                BY <1>t, <2>1, <4>3, <4>4, <4>5 DEF PickInv
        <3>4. CASE Pick
            <4>1. /\ screen = "open" /\ UNCHANGED <<screen, config, apps>>
                  /\ intent = [mode |-> selectedMode, packages |-> selectedPackages]
                BY <1>t, <3>4 DEF Pick, PickInv
            <4>2. /\ selectedMode' \in {"proxy", "bypass"} /\ selectedPackages' \subseteq Apps
                  /\ intent' = [mode |-> selectedMode', packages |-> selectedPackages']
                <5>1. ASSUME NEW m \in {"proxy", "bypass"}, selectedMode' = m,
                             intent' = [intent EXCEPT !.mode = m], UNCHANGED selectedPackages
                      PROVE  <4>2!:
                    BY <1>t, <4>1, <5>1 DEF AppsTypes
                <5>2. ASSUME NEW shown \in SUBSET apps, UNCHANGED selectedMode,
                             \/ /\ selectedPackages' = selectedPackages \cup shown
                                /\ intent' = [intent EXCEPT !.packages = @ \cup shown]
                             \/ /\ selectedPackages' = selectedPackages \ shown
                                /\ intent' = [intent EXCEPT !.packages = @ \ shown]
                      PROVE  <4>2!:
                    BY <1>t, <4>1, <5>2 DEF AppsTypes
                <5> QED
                    BY <3>4, <5>1, <5>2 DEF Pick
            <4>3. intent' \in PerApp
                BY <4>2 DEF PerApp
            <4> QED
                BY <1>t, <2>1, <4>1, <4>2, <4>3 DEF AppsTypes, PickInv
        <3> QED
            BY <1>4, <3>1, <3>2, <3>3, <3>4
    <2> QED
        BY <2>2, <2>3, <2>4 DEF AppsInv
<1>5. CASE SaveTap
    <2>1. /\ prefs' = [mode |-> selectedMode, packages |-> selectedPackages]
          /\ toWrite' = toWrite \o << [prefs EXCEPT !.mode = selectedMode], prefs' >>
          /\ screen' = "saving" /\ choice' = intent /\ fresh' = FALSE
          /\ UNCHANGED <<file, installed, cameOrWent, copy, on, tunnel, config, apps, selectedMode,
                         selectedPackages, intent>>
          /\ ~early' => screen = "open"
        BY <1>5 DEF SaveTap, SetPerAppConfig
    <2>2. prefs' \in PerApp /\ [prefs EXCEPT !.mode = selectedMode] \in PerApp
        BY <1>t, <2>1 DEF AppsTypes, PerApp
    <2>3. WriteInv'
        BY <1>t, <2>1, <2>2, TwoMore DEF WriteInv
    <2>4. AppsTypes'
        BY <1>t, <2>1, <2>2 DEF AppsTypes
    <2>5. PickInv'
        BY <1>t, <2>1 DEF PickInv
    <2>6. TunnelInv'
        BY <1>t, <2>1 DEF TunnelInv, Rule
    <2> QED
        BY <2>3, <2>4, <2>5, <2>6 DEF AppsInv
<1>6. CASE Close
    <2>1. /\ screen' = "closed" /\ config' = Fresh /\ apps' = {} /\ selectedMode' = "proxy"
          /\ selectedPackages' = {} /\ intent' = prefs
          /\ UNCHANGED <<deviceVars, fileVars, serviceVars, choice, early>>
        BY <1>6 DEF Close
    <2>2. Fresh \in PerApp
        BY DEF Fresh, PerApp
    <2>3. WriteInv'
        BY <1>t, <2>1 DEF WriteInv
    <2> QED
        BY <1>t, <2>1, <2>2, <2>3 DEF AppsInv, AppsTypes, PickInv, TunnelInv, Rule
<1>7. CASE StartTunnel \/ StopTunnel \/ VpnProcessDies
    <2>1. UNCHANGED <<installed, fileVars, pickVars>>
        BY <1>7 DEF StartTunnel, StopTunnel, VpnProcessDies
    <2>2. WriteInv' /\ PickInv'
        BY <1>t, <2>1 DEF WriteInv, PickInv
    <2>3. AppsTypes' /\ TunnelInv'
        <3>1. CASE StartTunnel
            <4>1. /\ copy' = IF copy = Unread THEN file ELSE copy
                  /\ fresh' = IF copy = Unread THEN toWrite = <<>> ELSE fresh
                  /\ on' = TRUE /\ tunnel' = Rule(copy')
                BY <3>1 DEF StartTunnel
            <4>2. AppsTypes'
                BY <1>t, <2>1, <4>1 DEF AppsTypes
            <4>3. copy' # Unread
                BY <1>t, <1>v, <4>1 DEF AppsTypes
            <4>4. tunnel' = Rule(copy)'
                BY <2>1, <4>1 DEF Rule
            <4>5. fresh' => copy' = prefs'
                BY <1>t, <2>1, <4>1 DEF WriteInv, TunnelInv
            <4> QED
                BY <4>1, <4>2, <4>3, <4>4, <4>5 DEF TunnelInv
        <3>2. CASE StopTunnel
            BY <1>t, <2>1, <3>2 DEF StopTunnel, AppsTypes, TunnelInv
        <3>3. CASE VpnProcessDies
            BY <1>t, <2>1, <3>3 DEF VpnProcessDies, AppsTypes, TunnelInv
        <3> QED
            BY <1>7, <3>1, <3>2, <3>3
    <2> QED
        BY <2>2, <2>3 DEF AppsInv
<1> QED
    BY <1>1, <1>2, <1>3, <1>4, <1>5, <1>6, <1>7 DEF PerAppNext

LEMMA ChoiceCarried == AppsInv => CarriesChoice
<1> SUFFICES ASSUME AppsInv, on, fresh, ~early, ~cameOrWent,
                    choice.packages = {} \/ Meant(choice) # {} \/ choice.mode = "bypass"
             PROVE  Carried = Meant(choice)
    BY DEF CarriesChoice
<1>1. copy = prefs /\ choice = prefs /\ tunnel = Rule(choice)
    BY DEF AppsInv, TunnelInv, PickInv
<1>2. installed \subseteq Apps /\ Self \notin installed /\ choice.mode \in {"proxy", "bypass"}
    BY PerAppAssumption DEF AppsInv, AppsTypes, PerApp
<1>3. CASE choice.packages = {}
    <2>1. tunnel = [only |-> FALSE, apps |-> {Self}] /\ Meant(choice) = installed
        BY <1>1, <1>3 DEF Rule, Meant
    <2> QED
        BY <1>2, <2>1 DEF Carried
<1>4. CASE choice.packages # {} /\ choice.mode = "proxy"
    <2>1. Meant(choice) = choice.packages \cap installed /\ choice.packages \cap installed # {}
        BY <1>4 DEF Meant
    <2>2. tunnel = [only |-> TRUE, apps |-> choice.packages \cap installed]
        BY <1>1, <1>4, <2>1 DEF Rule
    <2> QED
        BY <2>1, <2>2 DEF Carried
<1>5. CASE choice.packages # {} /\ choice.mode # "proxy"
    <2>1. /\ tunnel = [only |-> FALSE, apps |-> (choice.packages \cap installed) \cup {Self}]
          /\ Meant(choice) = installed \ choice.packages
        BY <1>1, <1>5 DEF Rule, Meant
    <2>2. Carried = (installed \cup {Self}) \ ((choice.packages \cap installed) \cup {Self})
        BY <2>1 DEF Carried
    <2> QED
        BY <1>2, <2>1, <2>2
<1> QED
    BY <1>3, <1>4, <1>5

\* A tunnel carries the apps the user ticked and never this app, over all edits of
\* what was stored before, with the exceptions CarriesChoice names (_save,
\* DataStore, startVpn).
THEOREM TunnelsCarryChoice == CallsSpec => []CarriesChoice
<1>1. CallsInit => AppsInv
    <2> SUFFICES ASSUME PerAppInit PROVE AppsInv
        BY DEF CallsInit
    <2> USE DEF PerAppInit
    <2>1. Fresh \in PerApp
        BY DEF Fresh, PerApp
    <2>2. toWrite \in Seq(PerApp)
        BY EmptySeq
    <2> QED
        BY <2>1, <2>2 DEF AppsInv, AppsTypes, WriteInv, PickInv, TunnelInv
<1>2. AppsInv /\ [CallsNext]_methodVars => AppsInv'
    <2> SUFFICES ASSUME AppsInv, [CallsNext]_methodVars PROVE AppsInv'
        OBVIOUS
    <2>1. PerAppNext \/ UNCHANGED perAppVars
        BY DEF CallsNext, Only, methodVars
    <2> QED
        BY <2>1, AppsStep
<1> QED
    BY <1>1, <1>2, ChoiceCarried, PTL DEF CallsSpec
-----------------------------------------------------------------------------
(* The profile table, with one call at a time.                             *)

Steps == {"idle", "edit", "fetch", "update", "deselect", "select", "save"}

TableTypes ==
    /\ nextId \in 1..(MaxId + 1) /\ ids \subseteq 1..(nextId - 1)
    /\ table \in [ids -> Row] /\ upstream \in 0..MaxVersion
    /\ job \in [Jobs -> [at : Steps, todo : Seq(Item)]]
    /\ asked = [profile |-> asked.profile, url |-> asked.url, proxies |-> asked.proxies]
    /\ asked.profile \in 0..(nextId - 1)
    /\ DOMAIN asked.url = Id /\ DOMAIN asked.proxies = Id

\* The table says what was asked for, but for what the call has yet to write.
AskedInv(at, item) ==
    /\ at \notin {"deselect", "select"} => \A i \in ids : table[i].selected <=> asked.profile = i
    /\ at \in {"deselect", "select"} => asked.profile = item.id
    /\ at = "select" => \A i \in ids : ~table[i].selected
    /\ \A i, k \in ids : table[i].selected /\ table[k].selected => i = k
    /\ \A i \in ids : (at = "edit" /\ i = item.id) \/ table[i].url = asked.url[i]
    /\ at = "edit" => item.row.url = asked.url[item.id]
    /\ \A i \in ids : (at = "save" /\ i = item.id) \/ table[i].proxies = asked.proxies[i]
    /\ at = "save" => item.row.proxies = asked.proxies[item.id]
    /\ \A i \in Id : i >= nextId => asked.proxies[i] = "none"

\* The rows a call has read are the table's, but for the texts, which it fetches,
\* and for the url that is edited.
Behind(at, item) ==
    /\ item.id \in ids =>
           /\ item.row.selected = table[item.id].selected
           /\ item.row.proxies = table[item.id].proxies
           /\ at # "edit" => item.row.url = table[item.id].url
           /\ at = "edit" => item.row.backup = table[item.id].backup
    /\ item.id = 0 => nextId <= MaxId /\ item.row.selected = FALSE /\ item.row.proxies = "none"
                      /\ at # "edit"
    /\ item.row.backup.url # "user" /\ item.row.backup.v <= upstream
RowsInv(at, todo) ==
    /\ at = "idle" <=> todo = <<>>
    /\ at = "edit" => Len(todo) = 1
    /\ at \in {"edit", "fetch", "update"} => \A k \in 1..Len(todo) : Behind(at, todo[k])
    /\ at = "update" /\ todo[1].id \in ids =>
           table[todo[1].id].backup.v <= todo[1].row.backup.v
BackupInv == \A i \in ids : table[i].backup.url # "user" /\ table[i].backup.v <= upstream

TableInv ==
    /\ TableTypes /\ BackupInv
    /\ \A j \in Jobs : AskedInv(job[j].at, Item1(j)) /\ RowsInv(job[j].at, job[j].todo)

\* What a step may do to a row: it stays or is new, and its backup does not age.
Advances ==
    \A i \in ids' : /\ i \in ids \/ i = nextId
                    /\ i \in ids => table'[i].backup.v >= table[i].backup.v

LEMMA RowShapes ==
    /\ \A r \in Row : /\ r.url \in Urls /\ r.yaml \in Text /\ r.backup \in Text
                      /\ r.selected \in BOOLEAN /\ r.proxies \in Proxies \cup {"none"}
    /\ \A t \in Text : t.url \in Urls \cup {"user"} /\ t.v \in 0..MaxVersion
    /\ \A x \in Item : x.id \in 0..MaxId /\ x.row \in Row
    /\ \A id \in 0..MaxId, r \in Row : LET x == [id |-> id, row |-> r]
                                       IN  x \in Item /\ x.id = id /\ x.row = r
    /\ \A u \in Urls, v \in 0..MaxVersion :
          Fetched(u, v) \in Text /\ Fetched(u, v).url # "user" /\ Fetched(u, v).v = v
    /\ Typed \in Text
<1>1. \A r \in Row : /\ r.url \in Urls /\ r.yaml \in Text /\ r.backup \in Text
                     /\ r.selected \in BOOLEAN /\ r.proxies \in Proxies \cup {"none"}
    BY DEF Row
<1>2. \A t \in Text : t.url \in Urls \cup {"user"} /\ t.v \in 0..MaxVersion
    BY DEF Text
<1>3. \A x \in Item : x.id \in 0..MaxId /\ x.row \in Row
    BY DEF Item
<1>4. \A id \in 0..MaxId, r \in Row : LET x == [id |-> id, row |-> r]
                                      IN  x \in Item /\ x.id = id /\ x.row = r
    BY DEF Item
<1>5. \A u \in Urls, v \in 0..MaxVersion :
          Fetched(u, v) \in Text /\ Fetched(u, v).url # "user" /\ Fetched(u, v).v = v
    BY ConstantAssumption DEF Text, Fetched
<1>6. Typed \in Text
    BY BoundAssumption DEF Typed, Text
<1> QED
    BY <1>1, <1>2, <1>3, <1>4, <1>5, <1>6

\* A row with one of its fields set.
LEMMA RowWith ==
    ASSUME NEW r \in Row
    PROVE  /\ \A u \in Urls : LET s == [r EXCEPT !.url = u]
                              IN  /\ s \in Row /\ s.url = u /\ s.backup = r.backup
                                  /\ s.selected = r.selected /\ s.proxies = r.proxies
           /\ \A t \in Text : LET s == [r EXCEPT !.yaml = t]
                              IN  /\ s \in Row /\ s.url = r.url /\ s.backup = r.backup
                                  /\ s.selected = r.selected /\ s.proxies = r.proxies
           /\ \A t \in Text : LET s == [r EXCEPT !.yaml = t, !.backup = t]
                              IN  /\ s \in Row /\ s.url = r.url /\ s.backup = t
                                  /\ s.selected = r.selected /\ s.proxies = r.proxies
           /\ \A p \in Proxies \cup {"none"} :
                 LET s == [r EXCEPT !.proxies = p]
                 IN  /\ s \in Row /\ s.url = r.url /\ s.backup = r.backup
                     /\ s.selected = r.selected /\ s.proxies = p
           /\ \A b \in BOOLEAN : LET s == [r EXCEPT !.selected = b]
                                 IN  /\ s \in Row /\ s.url = r.url /\ s.backup = r.backup
                                     /\ s.selected = b /\ s.proxies = r.proxies
BY DEF Row

LEMMA OneItem ==
    ASSUME NEW X, NEW x \in X
    PROVE  <<x>> \in Seq(X) /\ Len(<<x>>) = 1 /\ <<x>>[1] = x /\ Head(<<x>>) = x /\ <<x>> # <<>>
           /\ Tail(<<x>>) = <<>>
OBVIOUS

LEMMA Countable ==
    ASSUME NEW n \in Nat, NEW S, S \subseteq 1..n
    PROVE  Cardinality(S) \in Nat
<1>1. IsFiniteSet(1..n)
    <2>1. 1 \in Int /\ n \in Int
        OBVIOUS
    <2> QED
        BY <2>1, FS_Interval
<1> QED
    BY <1>1, FS_Subset, FS_CardinalityType

LEMMA AsSequence ==
    ASSUME NEW X, NEW n \in Nat, NEW f \in [1..n -> X]
    PROVE  f \in Seq(X) /\ Len(f) = n
<1>1. f \in Seq(X)
    BY SeqDef
<1>2. Len(f) \in Nat /\ DOMAIN f = 1..Len(f) /\ DOMAIN f = 1..n
    BY <1>1, LenProperties
<1>3. \A a, b \in Nat : 1..a = 1..b => a <= b
    <2> SUFFICES ASSUME NEW a \in Nat, NEW b \in Nat, 1..a = 1..b, a > b PROVE FALSE
        OBVIOUS
    <2>1. a \in 1..a
        OBVIOUS
    <2>2. a \in 1..b
        BY <2>1
    <2> QED
        BY <2>2
<1>4. Len(f) <= n /\ n <= Len(f)
    <2>1. 1..Len(f) = 1..n /\ 1..n = 1..Len(f)
        BY <1>2
    <2> QED
        BY <1>2, <1>3, <2>1
<1> QED
    BY <1>1, <1>2, <1>4

\* With one coroutine, its step and its items are all there is to say.
LEMMA OneJob ==
    ASSUME NEW one, Jobs = {one}
    PROVE  TableInv <=> /\ TableTypes /\ BackupInv
                        /\ AskedInv(job[one].at, Item1(one))
                        /\ RowsInv(job[one].at, job[one].todo)
BY DEF TableInv

\* What leaves the columns alone that calls have read, and deletes at most.
LEMMA ColumnsKept ==
    ASSUME TableInv, UNCHANGED <<nextId, job, asked>>, ids' \subseteq ids,
           table' \in [ids' -> Row], upstream' \in upstream..MaxVersion,
           \A i \in ids' : /\ table'[i].selected = table[i].selected
                           /\ table'[i].url = table[i].url /\ table'[i].backup = table[i].backup
                           /\ table'[i].proxies = table[i].proxies
    PROVE  TableInv' /\ Advances
<1>1. TableTypes'
    BY BoundAssumption DEF TableInv, TableTypes
<1>2. upstream \in Int /\ upstream' \in Int /\ upstream <= upstream'
    BY BoundAssumption DEF TableInv, TableTypes
<1>3. \A i \in ids : table[i].backup.v \in Nat
    BY BoundAssumption, RowShapes DEF TableInv, TableTypes
<1>4. BackupInv'
    BY <1>2, <1>3 DEF TableInv, BackupInv
<1>5. Advances
    BY <1>3 DEF Advances
<1>6. ASSUME NEW j \in Jobs PROVE (AskedInv(job[j].at, Item1(j)) /\ RowsInv(job[j].at, job[j].todo))'
    <2>1. AskedInv(job[j].at, Item1(j))'
        BY DEF TableInv, AskedInv, Item1
    <2>2. \A item \in Item : \A at : Behind(at, item) => Behind(at, item)'
        <3> SUFFICES ASSUME NEW item \in Item, NEW at, Behind(at, item) PROVE Behind(at, item)'
            OBVIOUS
        <3>1. item.row.backup.v \in Nat
            BY BoundAssumption, RowShapes
        <3> QED
            BY <1>2, <3>1 DEF Behind
    <2>3. /\ job[j].todo \in Seq(Item)
          /\ \A k \in 1..Len(job[j].todo) : job[j].todo[k] \in Item
        BY ElementOfSeq DEF TableInv, TableTypes
    <2>4. RowsInv(job[j].at, job[j].todo)
        BY DEF TableInv
    <2>5. RowsInv(job[j].at, job[j].todo)'
        BY <2>2, <2>3, <2>4 DEF RowsInv
    <2> QED
        BY <2>1, <2>5
<1> QED
    BY <1>1, <1>4, <1>5, <1>6 DEF TableInv, TableTypes

LEMMA OneStatementCalls ==
    TableInv /\ (Delete \/ UpdateYaml \/ Revert \/ Publish) => TableInv' /\ Advances
<1> SUFFICES ASSUME TableInv, Delete \/ UpdateYaml \/ Revert \/ Publish PROVE TableInv' /\ Advances
    OBVIOUS
<1>t. table \in [ids -> Row] /\ upstream \in 0..MaxVersion /\ MaxVersion \in Nat
    BY BoundAssumption DEF TableInv, TableTypes
<1>1. CASE Delete
    <2>1. PICK i \in ids : ids' = ids \ {i} /\ table' = [k \in ids' |-> table[k]]
        BY <1>1 DEF Delete
    <2>2. UNCHANGED <<nextId, upstream, job, asked>>
        BY <1>1 DEF Delete
    <2> QED
        BY <1>t, <2>1, <2>2, ColumnsKept
<1>2. CASE UpdateYaml \/ Revert
    <2>1. PICK i \in ids, t \in Text : SetRow(i, [table[i] EXCEPT !.yaml = t])
        BY <1>t, <1>2, RowShapes DEF UpdateYaml, Revert
    <2>2. UNCHANGED <<ids, nextId, upstream, job, asked>>
        BY <1>2 DEF UpdateYaml, Revert
    <2> DEFINE r == [table[i] EXCEPT !.yaml = t]
    <2>3. table' = [k \in ids |-> IF k = i THEN r ELSE table[k]]
        BY <2>1 DEF SetRow
    <2>4. /\ r \in Row /\ r.url = table[i].url /\ r.backup = table[i].backup
          /\ r.selected = table[i].selected /\ r.proxies = table[i].proxies
        <3>1. table[i] \in Row
            BY <1>t
        <3> QED
            BY <3>1, RowWith, Zenon
    <2> HIDE DEF r
    <2>5. table' \in [ids' -> Row]
        BY <1>t, <2>2, <2>3, <2>4
    <2>6. \A k \in ids' : /\ table'[k].selected = table[k].selected
                          /\ table'[k].url = table[k].url /\ table'[k].backup = table[k].backup
                          /\ table'[k].proxies = table[k].proxies
        BY <2>2, <2>3, <2>4
    <2> QED
        BY <1>t, <2>2, <2>5, <2>6, ColumnsKept
<1>3. CASE Publish
    BY <1>t, <1>3, ColumnsKept DEF Publish
<1> QED
    BY <1>1, <1>2, <1>3

\* A call that begins: what it has read is the table's.
LEMMA BeginCall ==
    ASSUME NEW one, Jobs = {one}, TableInv, NEW at, NEW todo,
           Begin(one, at, todo), at \in Steps, todo \in Seq(Item), UNCHANGED <<ids, table, nextId, upstream>>,
           asked' = [profile |-> asked'.profile, url |-> asked'.url, proxies |-> asked'.proxies],
           asked'.profile \in 0..(nextId - 1),
           DOMAIN asked'.url = Id, DOMAIN asked'.proxies = Id,
           AskedInv(at, Head(todo))', RowsInv(at, todo)
    PROVE  TableInv' /\ Advances
<1>1. job' = [job EXCEPT ![one] = [at |-> at, todo |-> todo]]
    BY DEF Begin
<1>2. TableTypes'
    BY <1>1 DEF TableInv, TableTypes
<1>3. job'[one].at = at /\ job'[one].todo = todo
    BY <1>1 DEF TableInv, TableTypes
<1>4. RowsInv(at, todo)'
    BY DEF RowsInv, Behind
<1>5. AskedInv(job[one].at, Item1(one))' /\ RowsInv(job[one].at, job[one].todo)'
    BY <1>3, <1>4 DEF Item1, AskedInv, RowsInv, Behind
<1>6. BackupInv'
    BY DEF TableInv, BackupInv
<1>7. Advances
    BY BoundAssumption, RowShapes DEF Advances, TableInv, TableTypes
<1> QED
    BY <1>2, <1>5, <1>6, <1>7 DEF TableInv

LEMMA Copied ==
    ASSUME TableTypes, BackupInv, NEW i \in ids
    PROVE  /\ Copy(i) \in Item /\ Copy(i).id = i /\ Copy(i).row = table[i] /\ table[i] \in Row
           /\ i \in Id /\ i < nextId
           /\ Behind("fetch", Copy(i))
<1>1. i \in 1..MaxId /\ i \in 0..MaxId /\ i < nextId /\ table[i] \in Row /\ i # 0
    BY BoundAssumption DEF TableTypes
<1>2. Copy(i) \in Item /\ Copy(i).id = i /\ Copy(i).row = table[i]
    BY <1>1, RowShapes, Zenon DEF Copy
<1> QED
    BY <1>1, <1>2 DEF Behind, BackupInv, Id

LEMMA CallStep ==
    ASSUME NEW one, Jobs = {one}, TableInv, Call(one)
    PROVE  TableInv' /\ Advances
<1>i. job[one].at = "idle"
    BY DEF Call, Refresh, RefreshAll, Add, Edit, Select, SaveProxies, Begin, Idle
<1>t. /\ TableTypes /\ BackupInv
      /\ AskedInv(job[one].at, Item1(one)) /\ RowsInv(job[one].at, job[one].todo)
    BY OneJob
<1>a. /\ \A i \in ids : table[i].selected <=> asked.profile = i
      /\ \A i, k \in ids : table[i].selected /\ table[k].selected => i = k
      /\ \A i \in ids : table[i].url = asked.url[i] /\ table[i].proxies = asked.proxies[i]
      /\ \A i \in Id : i >= nextId => asked.proxies[i] = "none"
    BY <1>t, <1>i DEF AskedInv
<1>b. /\ asked = [profile |-> asked.profile, url |-> asked.url, proxies |-> asked.proxies]
      /\ asked.profile \in 0..(nextId - 1) /\ nextId \in 1..(MaxId + 1)
      /\ DOMAIN asked.url = Id /\ DOMAIN asked.proxies = Id /\ MaxId \in Nat
    BY <1>t, BoundAssumption DEF TableTypes
<1>s. \A a \in {"edit", "fetch", "deselect", "save"} : a \in Steps
    BY DEF Steps
<1>1. CASE Refresh(one)
    <2>1. PICK i \in ids : Begin(one, "fetch", <<Copy(i)>>)
        BY <1>1 DEF Refresh
    <2>2. UNCHANGED <<ids, table, nextId, upstream, asked>>
        BY <1>1 DEF Refresh
    <2>3. PICK x \in Item : x = Copy(i) /\ Behind("fetch", x)
        BY <1>t, Copied
    <2>4. /\ <<x>> \in Seq(Item) /\ Len(<<x>>) = 1 /\ <<x>>[1] = x /\ <<x>> # <<>>
        BY OneItem
    <2>5. RowsInv("fetch", <<x>>)
        BY <2>3, <2>4 DEF RowsInv
    <2>6. AskedInv("fetch", Head(<<x>>))'
        BY <1>a, <2>2 DEF AskedInv
    <2> QED
        BY <1>b, <1>s, <2>1, <2>2, <2>3, <2>4, <2>5, <2>6, BeginCall
<1>2. CASE RefreshAll(one)
    <2> DEFINE S == {i \in ids : table[i].url # ""}
    <2>1. PICK order \in InOrder(S) :
              order # <<>> /\ Begin(one, "fetch", [k \in DOMAIN order |-> Copy(order[k])])
        BY <1>2 DEF RefreshAll
    <2>2. UNCHANGED <<ids, table, nextId, upstream, asked>>
        BY <1>2 DEF RefreshAll
    <2>3. Cardinality(S) \in Nat
        <3>1. \A i \in ids : i \in 1..MaxId
            BY <1>t, Copied DEF Id
        <3>2. S \subseteq 1..MaxId
            BY <3>1
        <3> QED
            BY <3>2, BoundAssumption, Countable
    <2> DEFINE n == Cardinality(S)
    <2>4. order \in [1..n -> S]
        BY DEF InOrder
    <2>5. \A k \in 1..n : order[k] \in ids
        BY <2>4
    <2>6. PICK t : t = [k \in DOMAIN order |-> Copy(order[k])]
        OBVIOUS
    <2> HIDE DEF S, n
    <2>7. t \in [1..n -> Item] /\ \A k \in 1..n : Behind("fetch", t[k])
        BY <1>t, <2>4, <2>5, <2>6, Copied
    <2>8. t \in Seq(Item) /\ Len(t) = n
        BY <2>3, <2>7, AsSequence DEF n
    <2>9. t # <<>>
        <3>1. order \in Seq(S) /\ Len(order) = n
            BY <2>3, <2>4, AsSequence DEF n
        <3>2. n # 0
            BY <2>1, <3>1, EmptySeq
        <3> QED
            BY <2>8, <3>2, EmptySeq
    <2>10. RowsInv("fetch", t)
        BY <2>7, <2>8, <2>9 DEF RowsInv
    <2>11. AskedInv("fetch", Head(t))'
        BY <1>a, <2>2 DEF AskedInv
    <2>12. Begin(one, "fetch", t)
        BY <2>1, <2>6
    <2> QED
        BY <1>b, <1>s, <2>2, <2>8, <2>10, <2>11, <2>12, BeginCall
<1>3. CASE Add(one)
    <2>1. PICK u \in Urls : /\ nextId + Cardinality(Adding) <= MaxId
                            /\ Begin(one, "fetch", <<[id |-> 0, row |-> NewRow(u)]>>)
        BY <1>3 DEF Add
    <2>2. UNCHANGED <<ids, table, nextId, upstream, asked>>
        BY <1>3 DEF Add
    <2>3. nextId <= MaxId
        <3>1. job[one].todo = <<>>
            BY <1>i, <1>t DEF RowsInv
        <3>2. Adding = {}
            BY <3>1 DEF Adding
        <3>3. Cardinality(Adding) = 0
            BY <3>2, FS_EmptySet
        <3> QED
            BY <1>b, <2>1, <3>3
    <2>4. /\ NewRow(u) \in Row /\ NewRow(u).selected = FALSE /\ NewRow(u).proxies = "none"
          /\ NewRow(u).backup = Fetched(u, 0)
        <3>1. Fetched(u, 0) \in Text
            BY BoundAssumption, RowShapes
        <3> QED
            BY <3>1 DEF NewRow, Row
    <2>5. PICK x \in Item : x = [id |-> 0, row |-> NewRow(u)] /\ x.id = 0 /\ x.row = NewRow(u)
        <3>1. 0 \in 0..MaxId
            BY <1>b
        <3> QED
            BY <2>4, <3>1, RowShapes, ZenonT(40)
    <2>6. x.row.backup.url # "user" /\ x.row.backup.v = 0
        BY <2>4, <2>5, BoundAssumption, RowShapes
    <2>7. Behind("fetch", x)
        <3>1. 0 \notin ids /\ 0 <= upstream
            BY <1>t, BoundAssumption DEF TableTypes
        <3> QED
            BY <2>3, <2>4, <2>5, <2>6, <3>1 DEF Behind
    <2>8. /\ <<x>> \in Seq(Item) /\ Len(<<x>>) = 1 /\ <<x>>[1] = x /\ <<x>> # <<>>
        BY OneItem
    <2>9. RowsInv("fetch", <<x>>)
        BY <2>7, <2>8 DEF RowsInv
    <2>10. AskedInv("fetch", Head(<<x>>))'
        BY <1>a, <2>2 DEF AskedInv
    <2> QED
        BY <1>b, <1>s, <2>1, <2>2, <2>5, <2>8, <2>9, <2>10, BeginCall
<1>4. CASE Edit(one)
    <2>1. PICK i \in ids, u \in Urls :
              /\ Begin(one, "edit", <<[id |-> i, row |-> [table[i] EXCEPT !.url = u]]>>)
              /\ asked' = [asked EXCEPT !.url[i] = u]
        BY <1>4 DEF Edit
    <2>2. UNCHANGED <<ids, table, nextId, upstream>>
        BY <1>4 DEF Edit
    <2>3. i \in Id /\ table[i] \in Row /\ i \in 0..MaxId /\ i # 0 /\ i < nextId
        BY <1>t, Copied, BoundAssumption DEF TableTypes, Id
    <2>4. PICK r \in Row : /\ r = [table[i] EXCEPT !.url = u] /\ r.url = u /\ r.backup = table[i].backup
                           /\ r.selected = table[i].selected /\ r.proxies = table[i].proxies
        <3>1. table[i] \in Row
            BY <2>3
        <3>2. u \in Urls
            BY <2>1
        <3> DEFINE q == [table[i] EXCEPT !.url = u]
        <3>3. /\ q \in Row /\ q.url = u /\ q.backup = table[i].backup
              /\ q.selected = table[i].selected /\ q.proxies = table[i].proxies
            BY <3>1, <3>2, RowWith, Zenon
        <3> QED
            BY <3>3, Zenon
    <2>5. PICK x \in Item : x = [id |-> i, row |-> r] /\ x.id = i /\ x.row = r
        <3>1. i \in 0..MaxId
            BY <2>3
        <3>2. r \in Row
            BY <2>4
        <3> DEFINE y == [id |-> i, row |-> r]
        <3>3. y \in Item /\ y.id = i /\ y.row = r
            BY <3>1, <3>2, RowShapes, Zenon
        <3> QED
            BY <3>3, Zenon
    <2>6. Begin(one, "edit", <<x>>)
        BY <2>1, <2>4, <2>5
    <2>7. /\ asked'.profile = asked.profile /\ asked'.proxies = asked.proxies
          /\ DOMAIN asked'.url = Id /\ asked'.url[i] = u
          /\ \A k \in Id \ {i} : asked'.url[k] = asked.url[k]
          /\ asked' = [profile |-> asked'.profile, url |-> asked'.url, proxies |-> asked'.proxies]
        BY <1>b, <2>1, <2>3
    <2>8. Behind("edit", x)
        BY <1>t, <2>3, <2>4, <2>5 DEF Behind, BackupInv
    <2>9. /\ <<x>> \in Seq(Item) /\ Len(<<x>>) = 1 /\ <<x>>[1] = x /\ <<x>> # <<>> /\ Head(<<x>>) = x
        BY OneItem
    <2>10. RowsInv("edit", <<x>>)
        BY <2>8, <2>9 DEF RowsInv
    <2>11. AskedInv("edit", x)'
        <3>1. ids \subseteq Id
            BY <1>t, BoundAssumption DEF TableTypes, Id
        <3>2. \A k \in ids : k = i \/ table[k].url = asked'.url[k]
            BY <1>a, <2>7, <3>1
        <3>3. x.row.url = asked'.url[x.id]
            BY <2>4, <2>5, <2>7
        <3> QED
            BY <1>a, <2>2, <2>5, <2>7, <3>2, <3>3 DEF AskedInv
    <2> QED
        BY <1>b, <1>s, <2>2, <2>6, <2>7, <2>9, <2>10, <2>11, BeginCall
<1>5. CASE Select(one)
    <2>1. PICK i \in ids : /\ Begin(one, "deselect", <<[id |-> i, row |-> Blank]>>)
                           /\ asked' = [asked EXCEPT !.profile = i]
        BY <1>5 DEF Select
    <2>2. UNCHANGED <<ids, table, nextId, upstream>>
        BY <1>5 DEF Select
    <2>3. i \in Id /\ table[i] \in Row /\ i \in 0..MaxId /\ i \in 0..(nextId - 1)
        BY <1>t, Copied, BoundAssumption DEF TableTypes, Id
    <2>4. Blank \in Row
        <3>1. PICK u \in Urls : Blank = NewRow(u)
            BY <2>3, RowShapes DEF Blank
        <3>2. Fetched(u, 0) \in Text
            BY BoundAssumption, RowShapes
        <3> QED
            BY <3>1, <3>2 DEF NewRow, Row
    <2>5. PICK x \in Item : x = [id |-> i, row |-> Blank] /\ x.id = i
        <3>1. i \in 0..MaxId
            BY <2>3
        <3> QED
            BY <2>4, <3>1, RowShapes, ZenonT(40)
    <2>6. /\ asked'.profile = i /\ asked'.proxies = asked.proxies /\ asked'.url = asked.url
          /\ asked' = [profile |-> asked'.profile, url |-> asked'.url, proxies |-> asked'.proxies]
        BY <1>b, <2>1
    <2>7. /\ <<x>> \in Seq(Item) /\ Len(<<x>>) = 1 /\ <<x>>[1] = x /\ <<x>> # <<>> /\ Head(<<x>>) = x
        BY OneItem
    <2>8. RowsInv("deselect", <<x>>)
        BY <2>7 DEF RowsInv
    <2>9. AskedInv("deselect", x)'
        BY <1>a, <2>2, <2>5, <2>6 DEF AskedInv
    <2> QED
        BY <1>b, <1>s, <2>1, <2>2, <2>3, <2>5, <2>6, <2>7, <2>8, <2>9, BeginCall
<1>6. CASE SaveProxies(one)
    <2>1. PICK i \in ids, c \in Proxies :
              /\ Begin(one, "save", <<[id |-> i, row |-> [Blank EXCEPT !.proxies = c]]>>)
              /\ asked' = [asked EXCEPT !.proxies[i] = c]
        BY <1>6 DEF SaveProxies
    <2>2. UNCHANGED <<ids, table, nextId, upstream>>
        BY <1>6 DEF SaveProxies
    <2>3. i \in Id /\ table[i] \in Row /\ i \in 0..MaxId /\ i < nextId
        BY <1>t, Copied, BoundAssumption DEF TableTypes, Id
    <2>4. Blank \in Row
        <3>1. PICK u \in Urls : Blank = NewRow(u)
            BY <2>3, RowShapes DEF Blank
        <3>2. Fetched(u, 0) \in Text
            BY BoundAssumption, RowShapes
        <3> QED
            BY <3>1, <3>2 DEF NewRow, Row
    <2>5. PICK r \in Row : r = [Blank EXCEPT !.proxies = c] /\ r.proxies = c
        <3>1. c \in Proxies \cup {"none"}
            BY <2>1
        <3> DEFINE q == [Blank EXCEPT !.proxies = c]
        <3>2. /\ q \in Row /\ q.url = Blank.url /\ q.backup = Blank.backup
              /\ q.selected = Blank.selected /\ q.proxies = c
            BY <2>4, <3>1 DEF Row
        <3>3. q \in Row /\ q.proxies = c
            BY <3>2
        <3> QED
            BY <3>3, Zenon
    <2>6. PICK x \in Item : x = [id |-> i, row |-> r] /\ x.id = i /\ x.row = r
        <3>1. i \in 0..MaxId
            BY <2>3
        <3>2. r \in Row
            BY <2>5
        <3> DEFINE y == [id |-> i, row |-> r]
        <3>3. y \in Item /\ y.id = i /\ y.row = r
            BY <3>1, <3>2, RowShapes, Zenon
        <3> QED
            BY <3>3, Zenon
    <2>7. Begin(one, "save", <<x>>)
        BY <2>1, <2>5, <2>6
    <2>8. /\ asked'.profile = asked.profile /\ asked'.url = asked.url
          /\ DOMAIN asked'.proxies = Id /\ asked'.proxies[i] = c
          /\ \A k \in Id \ {i} : asked'.proxies[k] = asked.proxies[k]
          /\ asked' = [profile |-> asked'.profile, url |-> asked'.url, proxies |-> asked'.proxies]
        BY <1>b, <2>1, <2>3
    <2>9. /\ <<x>> \in Seq(Item) /\ Len(<<x>>) = 1 /\ <<x>>[1] = x /\ <<x>> # <<>> /\ Head(<<x>>) = x
        BY OneItem
    <2>10. RowsInv("save", <<x>>)
        BY <2>9 DEF RowsInv
    <2>11. AskedInv("save", x)'
        <3>1. ids \subseteq Id /\ \A k \in Id : k >= nextId => k # i
            BY <1>t, <2>3, BoundAssumption DEF TableTypes, Id
        <3> QED
            BY <1>a, <2>2, <2>5, <2>6, <2>8, <3>1, ZenonT(40) DEF AskedInv
    <2> QED
        BY <1>b, <1>s, <2>2, <2>7, <2>8, <2>9, <2>10, <2>11, BeginCall
<1> QED
    BY <1>1, <1>2, <1>3, <1>4, <1>5, <1>6 DEF Call

\* A step that moves the coroutine on.
LEMMA MovedOn ==
    ASSUME NEW one, Jobs = {one}, TableTypes, NEW at, NEW todo,
           job' = [job EXCEPT ![one] = [at |-> at, todo |-> todo]], at \in Steps, todo \in Seq(Item),
           nextId' \in 1..(MaxId + 1), ids' \subseteq 1..(nextId' - 1),
           table' \in [ids' -> Row], upstream' = upstream,
           asked' = [profile |-> asked'.profile, url |-> asked'.url, proxies |-> asked'.proxies],
           asked'.profile \in 0..(nextId' - 1), DOMAIN asked'.url = Id, DOMAIN asked'.proxies = Id,
           BackupInv', AskedInv(at, Head(todo))', RowsInv(at, todo)'
    PROVE  TableInv'
<1>1. job' \in [Jobs -> [at : Steps, todo : Seq(Item)]] /\ job'[one].at = at /\ job'[one].todo = todo
    BY DEF TableTypes
<1>2. TableTypes'
    BY <1>1 DEF TableTypes
<1>3. AskedInv(job[one].at, Item1(one))'
    BY <1>1 DEF Item1, AskedInv
<1>4. RowsInv(job[one].at, job[one].todo)'
    BY <1>1 DEF RowsInv, Behind
<1> QED
    BY <1>2, <1>3, <1>4 DEF TableInv

\* What the coroutine is at, and its first item.
LEMMA AtWork ==
    ASSUME NEW one, Jobs = {one}, TableInv, job[one].at # "idle"
    PROVE  \E at \in Steps, todo \in Seq(Item), x \in Item :
              /\ job[one].at = at /\ job[one].todo = todo /\ Item1(one) = x
              /\ todo # <<>> /\ todo[1] = x /\ Head(todo) = x /\ Len(todo) \in Nat \ {0}
              /\ AskedInv(at, x) /\ RowsInv(at, todo)
<1>1. /\ TableTypes /\ AskedInv(job[one].at, Item1(one)) /\ RowsInv(job[one].at, job[one].todo)
    BY OneJob
<1>2. job[one].at \in Steps /\ job[one].todo \in Seq(Item)
    BY <1>1 DEF TableTypes
<1>3. job[one].todo # <<>>
    BY <1>1 DEF RowsInv
<1>4. \A s \in Seq(Item) : s # <<>> => Head(s) \in Item /\ Head(s) = s[1] /\ Len(s) \in Nat \ {0}
    BY EmptySeq, LenProperties, HeadTailProperties
<1> QED
    BY <1>1, <1>2, <1>3, <1>4 DEF Item1

\* What a call has read stays the table's as long as the columns do.
LEMMA BehindKept ==
    ASSUME TableTypes, NEW item \in Item, Behind("fetch", item), nextId' = nextId, upstream' = upstream,
           ids' \subseteq ids,
           \A i \in ids' : /\ table'[i].selected = table[i].selected /\ table'[i].url = table[i].url
                           /\ table'[i].proxies = table[i].proxies
    PROVE  Behind("fetch", item)'
BY DEF Behind

\* A row that is written, if there is one.
LEMMA Written ==
    ASSUME TableTypes, NEW i, NEW r, ids' = ids,
           table' = [k \in ids |-> IF k = i THEN r ELSE table[k]], i \in ids => r \in Row
    PROVE  table' \in [ids' -> Row] /\ \A k \in ids : table'[k] = IF k = i THEN r ELSE table[k]
BY DEF TableTypes

\* The rows that are left after the first.
LEMMA RestOfRows ==
    ASSUME NEW one, TableTypes, NEW at \in {"fetch", "update"}, NEW todo \in Seq(Item), todo # <<>>,
           RowsInv(at, todo), job[one].todo = todo, Next1(one)
    PROVE  \E next \in {"idle", "fetch"}, rest \in Seq(Item) :
              /\ job' = [job EXCEPT ![one] = [at |-> next, todo |-> rest]]
              /\ next = "idle" <=> rest = <<>>
              /\ \A k \in 1..Len(rest) : rest[k] \in Item /\ Behind("fetch", rest[k])
<1>1. \A k \in 1..Len(todo) : todo[k] \in Item /\ Behind("fetch", todo[k])
    <2>1. \A k \in 1..Len(todo) : todo[k] \in Item /\ Behind(at, todo[k])
        BY ElementOfSeq DEF RowsInv
    <2> QED
        BY <2>1 DEF Behind
<1> DEFINE rest == Tail(todo)
<1>2. /\ rest \in Seq(Item) /\ Len(rest) \in Nat /\ Len(todo) \in Nat
      /\ Len(rest) = Len(todo) - 1 /\ \A k \in 1..Len(rest) : rest[k] = todo[k + 1]
    BY HeadTailProperties, LenProperties
<1>3. \A k \in 1..Len(rest) : rest[k] \in Item /\ Behind("fetch", rest[k])
    <2> SUFFICES ASSUME NEW k \in 1..Len(rest) PROVE rest[k] \in Item /\ Behind("fetch", rest[k])
        OBVIOUS
    <2>1. k + 1 \in 1..Len(todo)
        BY <1>2
    <2>2. rest[k] = todo[k + 1]
        BY <1>2
    <2> QED
        BY <1>1, <2>1, <2>2
<1> HIDE DEF rest
<1>4. job' = [job EXCEPT ![one] = [at |-> IF rest = <<>> THEN "idle" ELSE "fetch", todo |-> rest]]
    BY DEF Next1, Return, NoJob, rest
<1>5. CASE rest = <<>>
    <2>1. job' = [job EXCEPT ![one] = [at |-> "idle", todo |-> rest]]
        BY <1>4, <1>5
    <2> QED
        BY <1>2, <1>3, <1>5, <2>1
<1>6. CASE rest # <<>>
    <2>1. job' = [job EXCEPT ![one] = [at |-> "fetch", todo |-> rest]]
        BY <1>4, <1>6
    <2> QED
        BY <1>2, <1>3, <1>6, <2>1
<1> QED
    BY <1>5, <1>6

\* The types, one by one.
LEMMA Columns ==
    ASSUME TableTypes
    PROVE  /\ MaxId \in Nat /\ MaxVersion \in Nat /\ nextId \in 1..(MaxId + 1)
           /\ ids \subseteq 1..(nextId - 1) /\ \A i \in ids : i \in Id /\ i # 0 /\ i # nextId
           /\ table \in [ids -> Row] /\ upstream \in 0..MaxVersion
           /\ asked = [profile |-> asked.profile, url |-> asked.url, proxies |-> asked.proxies]
           /\ asked.profile \in 0..(nextId - 1) /\ asked.profile # nextId
           /\ DOMAIN asked.url = Id /\ DOMAIN asked.proxies = Id
           /\ \A i \in ids : table[i].backup.v \in Nat
<1>1. MaxId \in Nat /\ MaxVersion \in Nat
    BY BoundAssumption
<1>2. \A i \in ids : i \in Id /\ i # 0 /\ i # nextId
    BY <1>1 DEF TableTypes, Id
<1>3. \A i \in ids : table[i].backup.v \in Nat
    BY <1>1, RowShapes DEF TableTypes
<1>4. asked.profile # nextId
    BY <1>1 DEF TableTypes
<1> QED
    BY <1>1, <1>2, <1>3, <1>4 DEF TableTypes

\* What is true of the table when no call has anything left to write but texts.
Settled ==
    /\ \A i \in ids : table[i].selected <=> asked.profile = i
    /\ \A i \in ids : table[i].url = asked.url[i] /\ table[i].proxies = asked.proxies[i]
    /\ \A i \in Id : i >= nextId => asked.proxies[i] = "none"

LEMMA SettledIs ==
    ASSUME NEW at \in {"idle", "fetch", "update"}, NEW item
    PROVE  AskedInv(at, item) <=> Settled
<1>1. AskedInv(at, item) => Settled
    BY DEF AskedInv, Settled
<1>2. Settled => AskedInv(at, item)
    BY DEF AskedInv, Settled
<1> QED
    BY <1>1, <1>2

LEMMA SettledIsPrimed ==
    ASSUME NEW at \in {"idle", "fetch", "update"}, NEW item, Settled'
    PROVE  AskedInv(at, item)'
BY DEF AskedInv, Settled

LEMMA WentOn ==
    ASSUME NEW one \in Jobs, TableTypes, NEW at, job' = [job EXCEPT ![one].at = at]
    PROVE  job' = [job EXCEPT ![one] = [at |-> at, todo |-> job[one].todo]]
<1>1. job[one] = [at |-> job[one].at, todo |-> job[one].todo]
    BY DEF TableTypes
<1>2. job \in [Jobs -> [at : Steps, todo : Seq(Item)]]
    BY DEF TableTypes
<1>3. [job[one] EXCEPT !.at = at] = [at |-> at, todo |-> job[one].todo]
    BY <1>1
<1>4. job' = [job EXCEPT ![one] = [job[one] EXCEPT !.at = at]]
    BY <1>2
<1> QED
    BY <1>3, <1>4

LEMMA WriteEditStep ==
    ASSUME NEW one, Jobs = {one}, TableInv, WriteEdit(one)
    PROVE  TableInv' /\ Advances
<1>1. PICK todo \in Seq(Item), x \in Item :
          /\ job[one].at = "edit" /\ job[one].todo = todo /\ Item1(one) = x
          /\ todo # <<>> /\ todo[1] = x /\ Head(todo) = x /\ Len(todo) \in Nat \ {0}
          /\ AskedInv("edit", x) /\ RowsInv("edit", todo)
    BY AtWork DEF WriteEdit
<1>2. TableTypes /\ BackupInv
    BY OneJob
<1>3. /\ UNCHANGED <<ids, nextId, upstream, asked>>
      /\ table' = [k \in ids |-> IF k = x.id THEN x.row ELSE table[k]]
      /\ job' = [job EXCEPT ![one].at = "fetch"]
    BY <1>1 DEF WriteEdit, Update, Goto
<1>4. x.row \in Row
    BY RowShapes
<1>5. /\ table' \in [ids' -> Row]
      /\ \A k \in ids : table'[k] = IF k = x.id THEN x.row ELSE table[k]
    BY <1>2, <1>3, <1>4, Written
<1>6. job' = [job EXCEPT ![one] = [at |-> "fetch", todo |-> todo]]
    BY <1>1, <1>2, <1>3, WentOn
<1>7. Len(todo) = 1 /\ Behind("edit", x)
    BY <1>1 DEF RowsInv
<1>8. \A k \in ids : /\ table'[k].selected = table[k].selected
                     /\ table'[k].proxies = table[k].proxies
                     /\ table'[k].backup = table[k].backup
                     /\ table'[k].url = IF k = x.id THEN x.row.url ELSE table[k].url
    BY <1>5, <1>7 DEF Behind
<1>9. Settled'
    BY <1>1, <1>3, <1>8 DEF Settled, AskedInv
<1>10. Behind("fetch", x)'
    BY <1>3, <1>5, <1>7 DEF Behind
<1>11. RowsInv("fetch", todo)'
    BY <1>1, <1>7, <1>10 DEF RowsInv
<1>12. BackupInv'
    BY <1>2, <1>3, <1>8 DEF BackupInv
<1>13. Advances
    BY <1>2, <1>3, <1>8, Columns DEF Advances
<1>14. AskedInv("fetch", Head(todo))'
    BY <1>9, SettledIsPrimed
<1>15. "fetch" \in Steps
    BY DEF Steps
<1> QED
    BY <1>2, <1>3, <1>5, <1>6, <1>11, <1>12, <1>13, <1>14, <1>15, Columns, MovedOn

\* A step that only moves the coroutine on.
LEMMA JobMoves ==
    ASSUME NEW one, Jobs = {one}, TableTypes, BackupInv, UNCHANGED <<ids, table, nextId, upstream, asked>>,
           NEW at, NEW todo,
           job' = [job EXCEPT ![one] = [at |-> at, todo |-> todo]], at \in Steps, todo \in Seq(Item),
           AskedInv(at, Head(todo)), RowsInv(at, todo)
    PROVE  TableInv' /\ Advances
<1>1. AskedInv(at, Head(todo))' /\ RowsInv(at, todo)'
    BY DEF AskedInv, RowsInv, Behind
<1>2. BackupInv'
    BY DEF BackupInv
<1>3. Advances
    BY Columns DEF Advances
<1>4. table' \in [ids' -> Row]
    BY Columns
<1> QED
    BY <1>1, <1>2, <1>3, <1>4, Columns, MovedOn

LEMMA WithTextIs ==
    ASSUME TableTypes, NEW x \in Item
    PROVE  LET y == WithText(x)
           IN  /\ y \in Item /\ y.id = x.id
               /\ y.row.selected = x.row.selected /\ y.row.proxies = x.row.proxies
               /\ y.row.url = x.row.url /\ y.row.backup.url # "user" /\ y.row.backup.v = upstream
<1>1. x.row \in Row /\ x.id \in 0..MaxId /\ x = [id |-> x.id, row |-> x.row]
    BY DEF Item
<1>2. x.row.url \in Urls
    BY <1>1, RowShapes
<1> DEFINE text == Fetched(x.row.url, upstream)
<1>3. text \in Text /\ text.url # "user" /\ text.v = upstream
    BY <1>2, RowShapes, Columns
<1> HIDE DEF text
<1> DEFINE full == [x.row EXCEPT !.yaml = text, !.backup = text]
<1>4. /\ full \in Row /\ full.selected = x.row.selected /\ full.proxies = x.row.proxies
      /\ full.url = x.row.url /\ full.backup = text
    BY <1>1, <1>3 DEF Row
<1>5. WithText(x) = [x EXCEPT !.row = full]
    BY DEF WithText, text
<1> HIDE DEF full
<1>6. WithText(x) \in Item /\ WithText(x).id = x.id /\ WithText(x).row = full
    BY <1>1, <1>4, <1>5 DEF Item
<1> QED
    BY <1>3, <1>4, <1>6

LEMMA FirstReplaced ==
    ASSUME NEW X, NEW s \in Seq(X), s # <<>>, NEW y \in X
    PROVE  LET new == <<y>> \o Tail(s)
           IN  /\ new \in Seq(X) /\ new # <<>> /\ new[1] = y /\ Head(new) = y /\ Len(new) = Len(s)
               /\ \A k \in 1..Len(s) : k # 1 => new[k] = s[k]
<1>1. /\ Tail(s) \in Seq(X) /\ Len(s) \in Nat \ {0} /\ Len(Tail(s)) = Len(s) - 1
      /\ \A k \in 1..Len(Tail(s)) : Tail(s)[k] = s[k + 1]
    BY EmptySeq, LenProperties, HeadTailProperties
<1> QED
    BY <1>1

\* Nothing is fetched: the backups stay.
LEMMA BackupsStay ==
    ASSUME TableTypes, BackupInv, ids' = ids, upstream' = upstream,
           \A i \in ids : table'[i].backup = table[i].backup
    PROVE  BackupInv' /\ Advances
<1>1. BackupInv'
    BY DEF BackupInv
<1>2. Advances
    BY Columns DEF Advances
<1> QED
    BY <1>1, <1>2

LEMMA FetchTextStep ==
    ASSUME NEW one, Jobs = {one}, TableInv, Fetch(one)
    PROVE  TableInv' /\ Advances
<1>1. PICK todo \in Seq(Item), x \in Item :
          /\ job[one].at = "fetch" /\ job[one].todo = todo /\ Item1(one) = x
          /\ todo # <<>> /\ todo[1] = x /\ Head(todo) = x /\ Len(todo) \in Nat \ {0}
          /\ AskedInv("fetch", x) /\ RowsInv("fetch", todo)
    <2>1. job[one].at = "fetch"
        BY DEF Fetch
    <2> QED
        BY <2>1, AtWork
<1>2. TableTypes /\ BackupInv
    BY OneJob
<1>3. PICK y \in Item : /\ y = WithText(x) /\ y.id = x.id
                        /\ y.row.selected = x.row.selected /\ y.row.proxies = x.row.proxies
                        /\ y.row.url = x.row.url /\ y.row.backup.url # "user" /\ y.row.backup.v = upstream
    BY <1>2, WithTextIs
<1>4. PICK new \in Seq(Item) : new = <<y>> \o Tail(todo)
    BY <1>1, FirstReplaced
<1>5. /\ UNCHANGED <<ids, table, nextId, upstream, asked>>
      /\ job' = [job EXCEPT ![one] = [at |-> "update", todo |-> new]]
    BY <1>1, <1>3, <1>4 DEF Fetch
<1>6. /\ new \in Seq(Item) /\ new # <<>> /\ new[1] = y /\ Head(new) = y /\ Len(new) = Len(todo)
      /\ \A k \in 1..Len(todo) : k # 1 => new[k] = todo[k]
    BY <1>1, <1>4, FirstReplaced
<1>7. \A k \in 1..Len(todo) : Behind("fetch", todo[k])
    BY <1>1 DEF RowsInv
<1>8. Behind("fetch", x)
    BY <1>1, <1>7
<1>9. upstream \in Nat
    BY <1>2, Columns
<1>10. Behind("update", y)
    BY <1>3, <1>8, <1>9 DEF Behind
<1>11. \A k \in 1..Len(new) : Behind("update", new[k])
    <2>1. \A item : Behind("fetch", item) => Behind("update", item)
        BY DEF Behind
    <2> QED
        BY <1>6, <1>7, <1>10, <2>1
<1>12. y.id \in ids => table[y.id].backup.v <= y.row.backup.v
    BY <1>2, <1>3 DEF BackupInv
<1>13. RowsInv("update", new)
    BY <1>6, <1>11, <1>12 DEF RowsInv
<1>14. AskedInv("update", Head(new))
    BY <1>1, SettledIs
<1>15. "update" \in Steps
    BY DEF Steps
<1> QED
    BY <1>2, <1>5, <1>6, <1>13, <1>14, <1>15, JobMoves

LEMMA FetchTextFails ==
    ASSUME NEW one, Jobs = {one}, TableInv, FetchFails(one)
    PROVE  TableInv' /\ Advances
<1>1. PICK todo \in Seq(Item), x \in Item :
          /\ job[one].at = "fetch" /\ job[one].todo = todo /\ todo # <<>>
          /\ AskedInv("fetch", x) /\ RowsInv("fetch", todo)
    BY AtWork DEF FetchFails
<1>2. TableTypes /\ BackupInv
    BY OneJob
<1>3. UNCHANGED <<ids, table, nextId, upstream, asked>>
    BY DEF FetchFails
<1>4. PICK next \in {"idle", "fetch"}, rest \in Seq(Item) :
          /\ job' = [job EXCEPT ![one] = [at |-> next, todo |-> rest]]
          /\ next = "idle" <=> rest = <<>>
          /\ \A k \in 1..Len(rest) : rest[k] \in Item /\ Behind("fetch", rest[k])
    BY <1>1, <1>2, RestOfRows DEF FetchFails
<1>5. RowsInv(next, rest)
    BY <1>4 DEF RowsInv
<1>6. AskedInv(next, Head(rest))
    BY <1>1, SettledIs
<1>7. next \in Steps
    BY DEF Steps
<1> QED
    BY <1>2, <1>3, <1>4, <1>5, <1>6, <1>7, JobMoves

LEMMA WriteFetchedStep ==
    ASSUME NEW one, Jobs = {one}, TableInv, WriteFetched(one)
    PROVE  TableInv' /\ Advances
<1>1. PICK todo \in Seq(Item), x \in Item :
          /\ job[one].at = "update" /\ job[one].todo = todo /\ Item1(one) = x
          /\ todo # <<>> /\ todo[1] = x /\ Head(todo) = x /\ Len(todo) \in Nat \ {0}
          /\ AskedInv("update", x) /\ RowsInv("update", todo)
    BY AtWork DEF WriteFetched
<1>2. TableTypes /\ BackupInv
    BY OneJob
<1>3. /\ UNCHANGED <<ids, nextId, upstream, asked>> /\ Next1(one)
      /\ table' = [k \in ids |-> IF k = x.id THEN x.row ELSE table[k]]
    BY <1>1 DEF WriteFetched, Update
<1>4. x.row \in Row
    BY RowShapes
<1>5. /\ table' \in [ids' -> Row]
      /\ \A k \in ids : table'[k] = IF k = x.id THEN x.row ELSE table[k]
    BY <1>2, <1>3, <1>4, Written
<1>6. Behind("update", x) /\ (x.id \in ids => table[x.id].backup.v <= x.row.backup.v)
    BY <1>1 DEF RowsInv
<1>7. \A k \in ids : /\ table'[k].selected = table[k].selected
                     /\ table'[k].proxies = table[k].proxies /\ table'[k].url = table[k].url
    BY <1>5, <1>6 DEF Behind
<1>8. \A k \in ids : table'[k].backup.url # "user" /\ table'[k].backup.v <= upstream
    BY <1>2, <1>5, <1>6 DEF Behind, BackupInv
<1>9. BackupInv'
    BY <1>3, <1>8 DEF BackupInv
<1>10. Advances
    BY <1>2, <1>3, <1>5, <1>6, Columns DEF Advances
<1>11. PICK next \in {"idle", "fetch"}, rest \in Seq(Item) :
          /\ job' = [job EXCEPT ![one] = [at |-> next, todo |-> rest]]
          /\ next = "idle" <=> rest = <<>>
          /\ \A k \in 1..Len(rest) : rest[k] \in Item /\ Behind("fetch", rest[k])
    BY <1>1, <1>2, <1>3, RestOfRows
<1>12. \A k \in 1..Len(rest) : Behind("fetch", rest[k])'
    BY <1>2, <1>3, <1>7, <1>11, BehindKept
<1>13. RowsInv(next, rest)'
    BY <1>11, <1>12 DEF RowsInv
<1>14. Settled
    BY <1>1, SettledIs
<1>15. Settled'
    BY <1>3, <1>7, <1>14 DEF Settled
<1>16. AskedInv(next, Head(rest))'
    BY <1>15, SettledIsPrimed
<1>17. next \in Steps
    BY DEF Steps
<1> QED
    BY <1>2, <1>3, <1>5, <1>9, <1>10, <1>11, <1>13, <1>16, <1>17, Columns, MovedOn

LEMMA InsertStep ==
    ASSUME NEW one, Jobs = {one}, TableInv, Insert(one)
    PROVE  TableInv' /\ Advances
<1>1. PICK todo \in Seq(Item), x \in Item :
          /\ job[one].at = "update" /\ job[one].todo = todo /\ Item1(one) = x
          /\ todo # <<>> /\ todo[1] = x /\ Head(todo) = x /\ Len(todo) \in Nat \ {0}
          /\ AskedInv("update", x) /\ RowsInv("update", todo)
    BY AtWork DEF Insert
<1>2. TableTypes /\ BackupInv
    BY OneJob
<1>3. /\ x.id = 0 /\ ids' = ids \cup {nextId} /\ nextId' = nextId + 1 /\ upstream' = upstream
      /\ table' = [i \in ids \cup {nextId} |-> IF i = nextId THEN x.row ELSE table[i]]
      /\ asked' = [asked EXCEPT !.url[nextId] = x.row.url]
      /\ job' = [job EXCEPT ![one] = [at |-> "idle", todo |-> <<>>]]
    BY <1>1 DEF Insert, Return, NoJob
<1>4. x.row \in Row
    BY RowShapes
<1>5. /\ nextId <= MaxId /\ x.row.selected = FALSE /\ x.row.proxies = "none"
      /\ x.row.backup.url # "user" /\ x.row.backup.v <= upstream
    BY <1>1, <1>3 DEF RowsInv, Behind
<1>6. /\ MaxId \in Nat /\ nextId \in Nat \ {0} /\ nextId \in Id /\ nextId \notin ids
      /\ ids \subseteq 1..(nextId - 1)
    BY <1>2, <1>5, Columns DEF Id
<1>7. nextId' \in 1..(MaxId + 1) /\ ids' \subseteq 1..(nextId' - 1)
    BY <1>3, <1>5, <1>6
<1>8. /\ table'[nextId] = x.row /\ \A i \in ids : table'[i] = table[i]
      /\ table' \in [ids' -> Row]
    BY <1>2, <1>3, <1>4, <1>6, Columns
<1>9. /\ asked'.profile = asked.profile /\ asked'.proxies = asked.proxies
      /\ DOMAIN asked'.url = Id /\ asked'.url[nextId] = x.row.url
      /\ \A i \in Id \ {nextId} : asked'.url[i] = asked.url[i]
      /\ asked' = [profile |-> asked'.profile, url |-> asked'.url, proxies |-> asked'.proxies]
    BY <1>2, <1>3, <1>6, Columns
<1>10. /\ asked'.profile \in 0..(nextId' - 1) /\ DOMAIN asked'.proxies = Id
       /\ asked'.profile # nextId
    BY <1>2, <1>3, <1>9, Columns
<1>11. BackupInv'
    BY <1>2, <1>3, <1>5, <1>8 DEF BackupInv
<1>12. Advances
    BY <1>2, <1>3, <1>8, Columns DEF Advances
<1>13. Settled
    BY <1>1, SettledIs
<1>14. Settled'
    <2>1. \A i \in ids' : table'[i].selected <=> asked'.profile = i
        <3>1. \A i \in ids : table'[i].selected <=> asked'.profile = i
            BY <1>8, <1>9, <1>13 DEF Settled
        <3>2. ~table'[nextId].selected /\ asked'.profile # nextId
            BY <1>5, <1>8, <1>10
        <3> QED
            BY <1>3, <3>1, <3>2
    <2>2. \A i \in ids' : table'[i].url = asked'.url[i]
        <3>1. \A i \in ids : i \in Id \ {nextId}
            BY <1>2, Columns
        <3>2. \A i \in ids : table'[i].url = asked'.url[i]
            BY <1>8, <1>9, <1>13, <3>1 DEF Settled
        <3> QED
            BY <1>3, <1>8, <1>9, <3>2
    <2>3. \A i \in ids' : table'[i].proxies = asked'.proxies[i]
        <3>1. asked.proxies[nextId] = "none"
            BY <1>6, <1>13 DEF Settled
        <3> QED
            BY <1>3, <1>5, <1>8, <1>9, <1>13, <3>1 DEF Settled
    <2>4. \A i \in Id : i >= nextId' => asked'.proxies[i] = "none"
        BY <1>3, <1>6, <1>9, <1>13 DEF Settled, Id
    <2> QED
        BY <2>1, <2>2, <2>3, <2>4 DEF Settled
<1>15. RowsInv("idle", <<>>)'
    BY DEF RowsInv
<1>16. AskedInv("idle", Head(<<>>))'
    BY <1>14, SettledIsPrimed
<1>17. "idle" \in Steps /\ <<>> \in Seq(Item)
    BY DEF Steps
<1> QED
    BY <1>2, <1>3, <1>7, <1>8, <1>9, <1>10, <1>11, <1>12, <1>15, <1>16, <1>17, MovedOn

\* A step of a call that selects a profile or saves its proxies: the urls and the
\* backups stay.
LEMMA DeselectStep ==
    ASSUME NEW one, Jobs = {one}, TableInv, DeselectAll(one)
    PROVE  TableInv' /\ Advances
<1>1. PICK todo \in Seq(Item), x \in Item :
          /\ job[one].at = "deselect" /\ job[one].todo = todo /\ Item1(one) = x
          /\ todo # <<>> /\ todo[1] = x /\ Head(todo) = x /\ Len(todo) \in Nat \ {0}
          /\ AskedInv("deselect", x) /\ RowsInv("deselect", todo)
    BY AtWork DEF DeselectAll
<1>2. TableTypes /\ BackupInv
    BY OneJob
<1>3. /\ UNCHANGED <<ids, nextId, upstream, asked>>
      /\ table' = [i \in ids |-> [table[i] EXCEPT !.selected = FALSE]]
      /\ job' = [job EXCEPT ![one].at = "select"]
    BY DEF DeselectAll, Goto
<1>4. \A i \in ids : table[i] \in Row
    BY <1>2, Columns
<1>5. \A i \in ids : /\ table'[i] \in Row /\ table'[i].selected = FALSE
                     /\ table'[i].url = table[i].url /\ table'[i].backup = table[i].backup
                     /\ table'[i].proxies = table[i].proxies
    BY <1>3, <1>4 DEF Row
<1>6. table' \in [ids' -> Row]
    BY <1>3, <1>5
<1>7. job' = [job EXCEPT ![one] = [at |-> "select", todo |-> todo]]
    BY <1>1, <1>2, <1>3, WentOn
<1>8. RowsInv("select", todo)'
    BY <1>1 DEF RowsInv
<1>9. AskedInv("select", Head(todo))'
    <2>1. /\ asked.profile = Head(todo).id
          /\ \A i \in ids : table[i].url = asked.url[i] /\ table[i].proxies = asked.proxies[i]
          /\ \A i \in Id : i >= nextId => asked.proxies[i] = "none"
        BY <1>1 DEF AskedInv
    <2> QED
        BY <1>3, <1>5, <2>1 DEF AskedInv
<1>10. BackupInv' /\ Advances
    BY <1>2, <1>3, <1>5, BackupsStay
<1>11. "select" \in Steps
    BY DEF Steps
<1> QED
    BY <1>2, <1>3, <1>6, <1>7, <1>8, <1>9, <1>10, <1>11, Columns, MovedOn

LEMMA SelectStep ==
    ASSUME NEW one, Jobs = {one}, TableInv, SelectOne(one)
    PROVE  TableInv' /\ Advances
<1>1. PICK x \in Item : /\ job[one].at = "select" /\ Item1(one) = x /\ AskedInv("select", x)
    BY AtWork DEF SelectOne
<1>2. TableTypes /\ BackupInv
    BY OneJob
<1> DEFINE i == x.id
<1>3. /\ UNCHANGED <<ids, nextId, upstream, asked>>
      /\ job' = [job EXCEPT ![one] = [at |-> "idle", todo |-> <<>>]]
      /\ i \in ids => SetRow(i, [table[i] EXCEPT !.selected = TRUE])
      /\ i \notin ids => UNCHANGED table
    BY <1>1 DEF SelectOne, Return, NoJob
<1>4. asked.profile = i /\ \A k \in ids : ~table[k].selected
    BY <1>1 DEF AskedInv
<1>5. /\ table' \in [ids' -> Row]
      /\ \A k \in ids : /\ table'[k].selected <=> k = i
                        /\ table'[k].url = table[k].url /\ table'[k].backup = table[k].backup
                        /\ table'[k].proxies = table[k].proxies
    <2>1. CASE i \in ids
        <3>1. table[i] \in Row
            BY <1>2, <2>1, Columns
        <3>2. PICK r \in Row : /\ r = [table[i] EXCEPT !.selected = TRUE] /\ r.selected = TRUE
                               /\ r.url = table[i].url /\ r.backup = table[i].backup
                               /\ r.proxies = table[i].proxies
            <4> DEFINE q == [table[i] EXCEPT !.selected = TRUE]
            <4>1. /\ q \in Row /\ q.selected = TRUE
                  /\ q.url = table[i].url /\ q.backup = table[i].backup
                  /\ q.proxies = table[i].proxies
                BY <3>1 DEF Row
            <4> QED
                BY <4>1, Zenon
        <3>3. table' = [k \in ids |-> IF k = i THEN r ELSE table[k]]
            BY <1>3, <2>1, <3>2 DEF SetRow
        <3>4. table' \in [ids' -> Row] /\ \A k \in ids : table'[k] = IF k = i THEN r ELSE table[k]
            <4>1. ids' = ids
                BY <1>3
            <4> QED
                BY <1>2, <3>2, <3>3, <4>1, Written, ZenonT(40)
        <3> QED
            BY <1>4, <3>2, <3>4
    <2>2. CASE i \notin ids
        BY <1>2, <1>3, <1>4, <2>2, Columns
    <2> QED
        BY <2>1, <2>2
<1>6. Settled'
    BY <1>1, <1>3, <1>4, <1>5 DEF AskedInv, Settled
<1>7. RowsInv("idle", <<>>)'
    BY DEF RowsInv
<1>8. AskedInv("idle", Head(<<>>))'
    BY <1>6, SettledIsPrimed
<1>9. BackupInv' /\ Advances
    BY <1>2, <1>3, <1>5, BackupsStay
<1>10. "idle" \in Steps /\ <<>> \in Seq(Item)
    BY DEF Steps
<1> QED
    BY <1>2, <1>3, <1>5, <1>7, <1>8, <1>9, <1>10, Columns, MovedOn

LEMMA SaveStep ==
    ASSUME NEW one, Jobs = {one}, TableInv, UpdateSelectedProxies(one)
    PROVE  TableInv' /\ Advances
<1>1. PICK x \in Item : /\ job[one].at = "save" /\ Item1(one) = x /\ AskedInv("save", x)
    BY AtWork DEF UpdateSelectedProxies
<1>2. TableTypes /\ BackupInv
    BY OneJob
<1> DEFINE i == x.id
<1> DEFINE p == x.row.proxies
<1>3. /\ UNCHANGED <<ids, nextId, upstream, asked>>
      /\ job' = [job EXCEPT ![one] = [at |-> "idle", todo |-> <<>>]]
      /\ i \in ids => SetRow(i, [table[i] EXCEPT !.proxies = p])
      /\ i \notin ids => UNCHANGED table
    BY <1>1 DEF UpdateSelectedProxies, Return, NoJob
<1>4. asked.proxies[i] = p /\ \A k \in ids : k = i \/ table[k].proxies = asked.proxies[k]
    BY <1>1 DEF AskedInv
<1>5. /\ table' \in [ids' -> Row]
      /\ \A k \in ids : /\ table'[k].selected = table[k].selected
                        /\ table'[k].url = table[k].url /\ table'[k].backup = table[k].backup
                        /\ table'[k].proxies = asked.proxies[k]
    <2>1. CASE i \in ids
        <3>1. table[i] \in Row /\ p \in Proxies \cup {"none"}
            BY <1>2, <2>1, Columns, RowShapes
        <3>2. PICK r \in Row : /\ r = [table[i] EXCEPT !.proxies = p] /\ r.proxies = p
                               /\ r.url = table[i].url /\ r.backup = table[i].backup
                               /\ r.selected = table[i].selected
            <4> DEFINE q == [table[i] EXCEPT !.proxies = p]
            <4>1. /\ q \in Row /\ q.proxies = p
                  /\ q.url = table[i].url /\ q.backup = table[i].backup
                  /\ q.selected = table[i].selected
                BY <3>1 DEF Row
            <4> QED
                BY <4>1, Zenon
        <3>3. table' = [k \in ids |-> IF k = i THEN r ELSE table[k]]
            BY <1>3, <2>1, <3>2 DEF SetRow
        <3>4. table' \in [ids' -> Row] /\ \A k \in ids : table'[k] = IF k = i THEN r ELSE table[k]
            <4>1. ids' = ids
                BY <1>3
            <4> QED
                BY <1>2, <3>2, <3>3, <4>1, Written
        <3> QED
            BY <1>4, <3>2, <3>4
    <2>2. CASE i \notin ids
        BY <1>2, <1>3, <1>4, <2>2, Columns
    <2> QED
        BY <2>1, <2>2
<1>6. Settled'
    BY <1>1, <1>3, <1>5 DEF AskedInv, Settled
<1>7. RowsInv("idle", <<>>)'
    BY DEF RowsInv
<1>8. AskedInv("idle", Head(<<>>))'
    BY <1>6, SettledIsPrimed
<1>9. BackupInv' /\ Advances
    BY <1>2, <1>3, <1>5, BackupsStay
<1>10. "idle" \in Steps /\ <<>> \in Seq(Item)
    BY DEF Steps
<1> QED
    BY <1>2, <1>3, <1>5, <1>7, <1>8, <1>9, <1>10, Columns, MovedOn

\* The scope is cancelled: what was asked for is what has been done.
LEMMA DestroyStep ==
    ASSUME NEW one, Jobs = {one}, TableInv, Destroy
    PROVE  TableInv' /\ Advances
<1>1. TableTypes /\ BackupInv /\ AskedInv(job[one].at, Item1(one))
    BY OneJob
<1>2. /\ UNCHANGED <<ids, table, nextId, upstream>>
      /\ job' = [job EXCEPT ![one] = [at |-> "idle", todo |-> <<>>]]
    BY <1>1 DEF Destroy, NoJob, TableTypes
<1> DEFINE chosen == IF \E i \in ids : table[i].selected THEN CHOOSE i \in ids : table[i].selected ELSE 0
<1>3. /\ asked'.profile = chosen
      /\ asked'.url = [i \in Id |-> IF i \in ids THEN table[i].url ELSE Blank.url]
      /\ asked'.proxies = [i \in Id |-> IF i \in ids THEN table[i].proxies ELSE "none"]
      /\ asked' = [profile |-> asked'.profile, url |-> asked'.url, proxies |-> asked'.proxies]
    BY DEF Destroy
<1>4. \A i, k \in ids : table[i].selected /\ table[k].selected => i = k
    BY <1>1 DEF AskedInv
<1>5. (\A i \in ids : table[i].selected <=> chosen = i) /\ (chosen \in ids \/ chosen = 0)
    <2>1. CASE \E i \in ids : table[i].selected
        <3>1. chosen \in ids /\ table[chosen].selected
            BY <2>1
        <3> HIDE DEF chosen
        <3> QED
            BY <1>4, <3>1
    <2>2. CASE \A i \in ids : ~table[i].selected
        <3>1. chosen = 0
            BY <2>2
        <3> HIDE DEF chosen
        <3> QED
            BY <1>1, <2>2, <3>1, Columns
    <2> QED
        BY <2>1, <2>2
<1> HIDE DEF chosen
<1>6. \A i \in ids : i \in Id /\ i \in 0..(nextId - 1) /\ i < nextId
    BY <1>1, Columns
<1>7. /\ asked'.profile \in 0..(nextId - 1) /\ DOMAIN asked'.url = Id /\ DOMAIN asked'.proxies = Id
    <2>1. 0 \in 0..(nextId - 1)
        BY <1>1, Columns
    <2> QED
        BY <1>3, <1>5, <1>6, <2>1
<1>8. Settled'
    <2>1. \A i \in ids : table[i].selected <=> asked'.profile = i
        BY <1>3, <1>5
    <2>2. \A i \in ids : table[i].url = asked'.url[i] /\ table[i].proxies = asked'.proxies[i]
        BY <1>3, <1>6
    <2>3. \A i \in Id : i >= nextId => asked'.proxies[i] = "none"
        <3>1. \A i \in Id : i >= nextId => i \notin ids
            BY <1>1, <1>6, Columns DEF Id
        <3> QED
            BY <1>3, <3>1
    <2> QED
        BY <1>2, <2>1, <2>2, <2>3 DEF Settled
<1>9. RowsInv("idle", <<>>)'
    BY DEF RowsInv
<1>10. AskedInv("idle", Head(<<>>))'
    BY <1>8, SettledIsPrimed
<1>11. BackupInv' /\ Advances
    BY <1>1, <1>2, BackupsStay
<1>12. "idle" \in Steps /\ <<>> \in Seq(Item)
    BY DEF Steps
<1>13. /\ nextId' \in 1..(MaxId + 1) /\ ids' \subseteq 1..(nextId' - 1) /\ table' \in [ids' -> Row]
       /\ asked'.profile \in 0..(nextId' - 1)
    BY <1>1, <1>2, <1>7, Columns
<1> QED
    BY <1>1, <1>2, <1>3, <1>7, <1>9, <1>10, <1>11, <1>12, <1>13, MovedOn

LEMMA TableInit ==
    ASSUME NEW one, Jobs = {one}, Init
    PROVE  TableInv
<1>1. ids = {} /\ table = <<>> /\ nextId = 1 /\ upstream = 0 /\ job = [j \in Jobs |-> NoJob]
    BY DEF Init
<1>2. /\ asked.profile = 0 /\ asked.url = [i \in Id |-> Blank.url] /\ asked.proxies = [i \in Id |-> "none"]
      /\ asked = [profile |-> asked.profile, url |-> asked.url, proxies |-> asked.proxies]
    BY DEF Init
<1>3. table \in [ids -> Row]
    BY <1>1
<1>4. job \in [Jobs -> [at : Steps, todo : Seq(Item)]] /\ job[one].at = "idle" /\ job[one].todo = <<>>
    BY <1>1 DEF NoJob, Steps
<1>5. TableTypes
    BY <1>1, <1>2, <1>3, <1>4, BoundAssumption DEF TableTypes
<1>6. BackupInv
    BY <1>1 DEF BackupInv
<1>7. AskedInv("idle", Item1(one))
    BY <1>1, <1>2 DEF AskedInv
<1>8. RowsInv("idle", <<>>)
    BY DEF RowsInv
<1> QED
    BY <1>4, <1>5, <1>6, <1>7, <1>8, OneJob

LEMMA TableStep ==
    ASSUME NEW one, Jobs = {one}, TableInv, [Next]_vars
    PROVE  TableInv' /\ Advances
<1>1. CASE Call(one)
    BY <1>1, CallStep
<1>2. CASE Step(one)
    BY <1>2, WriteEditStep, FetchTextStep, FetchTextFails, WriteFetchedStep, InsertStep,
       DeselectStep, SelectStep, SaveStep DEF Step
<1>3. CASE Delete \/ UpdateYaml \/ Revert \/ Publish
    BY <1>3, OneStatementCalls
<1>4. CASE Destroy
    BY <1>4, DestroyStep
<1>5. CASE UNCHANGED vars
    <2>1. TableTypes /\ upstream \in upstream..MaxVersion
        BY Columns DEF TableInv
    <2>2. table' \in [ids' -> Row]
        BY <1>5, <2>1, Columns DEF vars
    <2> QED
        BY <1>5, <2>1, <2>2, ColumnsKept DEF vars
<1> QED
    BY <1>1, <1>2, <1>3, <1>4, <1>5 DEF Next

LEMMA TableInvariance ==
    ASSUME NEW one, Jobs = {one}
    PROVE  CallsSpec => []TableInv
<1>1. CallsInit => TableInv
    BY TableInit DEF CallsInit
<1>2. TableInv /\ [CallsNext]_methodVars => TableInv'
    <2>1. [CallsNext]_methodVars => [Next]_vars
        BY DEF CallsNext, Only, methodVars
    <2> QED
        BY <2>1, TableStep
<1> QED
    BY <1>1, <1>2, PTL DEF CallsSpec

\* When calls come one at a time, the table says, whenever none is in progress, what
\* the user asked for last: the selected profile and no other, the urls as edited,
\* the proxies as chosen - whatever fetches failed, however many rows a refresh of
\* all wrote back whole, and wherever the activity was destroyed in between
\* (MainActivity.kt, ClashProfile.kt, SubscriptionService.kt).
THEOREM ChoicesAreKept ==
    ASSUME NEW one, Jobs = {one}
    PROVE  CallsSpec => []ChoicesKept
<1>1. TableInv => ChoicesKept
    <2> SUFFICES ASSUME TableInv, Quiet PROVE \A i \in ids : /\ table[i].selected <=> asked.profile = i
                                                             /\ table[i].url = asked.url[i]
                                                             /\ table[i].proxies = asked.proxies[i]
        BY DEF ChoicesKept
    <2>1. job[one].at = "idle" /\ AskedInv(job[one].at, Item1(one))
        BY OneJob DEF Quiet, Idle
    <2> QED
        BY <2>1 DEF AskedInv
<1> QED
    BY <1>1, TableInvariance, PTL

\* When calls come one at a time, no step brings a deleted profile back, puts a text
\* the user typed into a backup, or an older text of the upstream than it held
\* (updateProfileYaml, revertProfileYaml, SubscriptionService.fetchSubscription).
THEOREM RowsAdvance ==
    ASSUME NEW one, Jobs = {one}
    PROVE  CallsSpec => RowsOnlyAdvance
<1>1. TableInv /\ TableInv' /\ [CallsNext]_methodVars =>
          [\A i \in ids' : /\ i \in ids \/ i = nextId
                           /\ table'[i].backup.url # "user"
                           /\ i \in ids => table'[i].backup.v >= table[i].backup.v]_vars
    <2> SUFFICES ASSUME TableInv, TableInv', [CallsNext]_methodVars
                 PROVE  \A i \in ids' : /\ i \in ids \/ i = nextId
                                        /\ table'[i].backup.url # "user"
                                        /\ i \in ids => table'[i].backup.v >= table[i].backup.v
        OBVIOUS
    <2>1. [Next]_vars
        BY DEF CallsNext, Only, methodVars
    <2>2. Advances
        BY <2>1, TableStep
    <2>3. BackupInv'
        BY DEF TableInv
    <2> QED
        BY <2>2, <2>3 DEF Advances, BackupInv
<1> QED
    BY <1>1, TableInvariance, PTL DEF CallsSpec, RowsOnlyAdvance

-----------------------------------------------------------------------------
(* The list of subscriptions and the editor.                               *)

SavedRow == [yaml : Texts, backup : Texts, n : Nat]
Message == [kind : {"change", "answer"}, text : Texts]
Stacks == {<<>>, <<"list">>, <<"list", "editor">>, <<"list", "editor", "discard">>,
           <<"list", "editor", "revert">>}
Gets == [at : {"idle", "asked", "read"}, row : SavedRow \cup {NoGet.row}]
Saves == [at : {"idle", "getText", "write", "written"}, text : Texts \cup {"none"},
          calm : BOOLEAN, stray : BOOLEAN]
Reverts == [at : {"idle", "revert", "read", "setText", "answer"}, text : Texts \cup {"none"},
            stray : BOOLEAN]

\* What the messages of the native editor will make of the text Dart knows.
Chain(current, messages, text) ==
    /\ messages = <<>> => current = text
    /\ messages # <<>> => messages[Len(messages)].text = text
    /\ \A k \in 1..Len(messages) : messages[k].kind = "answer" =>
           messages[k].text = IF k = 1 THEN current ELSE messages[k - 1].text

TextInv ==
    /\ inbox \in Seq(Message) /\ (EditorOpen => native \in Texts)
    /\ Chain(currentText, inbox, native)
    /\ debounce \in {"none", currentText}
    /\ debounce = "none" => validated = currentText

\* A save of a user who paused waits for the text that was validated.
SaveInv(save) ==
    /\ save.at = "idle" => save = NoSave
    /\ save.at # "idle" /\ ~save.stray => EditorOpen
    /\ save.calm => save.at # "idle" /\ ~save.stray
    /\ save.calm /\ save.at = "getText" => Calm /\ native \notin Broken
    /\ save.calm /\ save.at = "write" => save.text \notin Broken
    /\ save.at = "write" => save.text \in Texts
CallsInv ==
    /\ saves \in [1..MaxSaves -> Saves] /\ revert \in Reverts
    /\ \A s \in 1..MaxSaves : SaveInv(saves[s])
    /\ revert.at \in {"setText", "answer"} => revert.text \in Texts

\* Who will make the list read a row that is newer than what it has read.
Awaited ==
    \/ reverted \/ misplaced \/ refresh = "written"
    \/ \E s \in 1..MaxSaves : saves[s].at = "written"
    \/ \E g \in 1..MaxGets : gets[g].at = "asked" \/ (gets[g].at = "read" /\ gets[g].row.n = row.n)
ListInv ==
    /\ row \in SavedRow /\ profiles \in SavedRow /\ newest \in Nat /\ stack \in Stacks
    /\ gets \in [1..MaxGets -> Gets]
    /\ profiles.n <= newest /\ newest <= row.n /\ (profiles.n = row.n => profiles = row)
    /\ \A g \in 1..MaxGets : gets[g].at = "read" =>
           /\ gets[g].row \in SavedRow /\ gets[g].row.n <= row.n
           /\ gets[g].row.n = row.n => gets[g].row = row
    /\ stack = <<>> => misplaced
    /\ newest < row.n => Awaited

EditorInv == TextInv /\ CallsInv /\ ListInv

LEMMA Messages ==
    ASSUME NEW X, NEW s \in Seq(X)
    PROVE  /\ Len(s) \in Nat /\ (s = <<>> <=> Len(s) = 0) /\ \A k \in 1..Len(s) : s[k] \in X
           /\ s # <<>> => /\ Head(s) = s[1] /\ Head(s) \in X /\ Tail(s) \in Seq(X)
                          /\ Len(Tail(s)) = Len(s) - 1 /\ Len(s) >= 1
                          /\ \A k \in 1..(Len(s) - 1) : Tail(s)[k] = s[k + 1]
           /\ \A x \in X : /\ Append(s, x) \in Seq(X) /\ Len(Append(s, x)) = Len(s) + 1
                           /\ Append(s, x)[Len(s) + 1] = x /\ Append(s, x) # <<>>
                           /\ \A k \in 1..Len(s) : Append(s, x)[k] = s[k]
           /\ \A x, y \in X : s \o <<x, y>> = Append(Append(s, x), y)
<1>1. Len(s) \in Nat /\ (s = <<>> <=> Len(s) = 0) /\ \A k \in 1..Len(s) : s[k] \in X
    BY EmptySeq, LenProperties, ElementOfSeq
<1>2. s # <<>> => /\ Head(s) = s[1] /\ Head(s) \in X /\ Tail(s) \in Seq(X)
                  /\ Len(Tail(s)) = Len(s) - 1 /\ Len(s) >= 1
                  /\ \A k \in 1..(Len(s) - 1) : Tail(s)[k] = s[k + 1]
    BY <1>1, HeadTailProperties
<1>3. \A x \in X : /\ Append(s, x) \in Seq(X) /\ Len(Append(s, x)) = Len(s) + 1
                   /\ Append(s, x)[Len(s) + 1] = x /\ Append(s, x) # <<>>
                   /\ \A k \in 1..Len(s) : Append(s, x)[k] = s[k]
    BY <1>1, AppendProperties
<1>4. \A x, y \in X : s \o <<x, y>> = Append(Append(s, x), y)
    OBVIOUS
<1> QED
    BY <1>1, <1>2, <1>3, <1>4

LEMMA ChainGrows ==
    ASSUME NEW current, NEW messages \in Seq(Message), NEW text, Chain(current, messages, text),
           NEW m \in Message, m.kind = "change" \/ m.text = text
    PROVE  Append(messages, m) \in Seq(Message) /\ Chain(current, Append(messages, m), m.text)
<1> DEFINE new == Append(messages, m)
<1> DEFINE n == Len(messages)
<1>1. /\ n \in Nat /\ (messages = <<>> <=> n = 0)
      /\ new \in Seq(Message) /\ Len(new) = n + 1 /\ new[n + 1] = m /\ new # <<>>
      /\ \A k \in 1..n : new[k] = messages[k]
    BY Messages
<1> HIDE DEF new, n
<1>2. ASSUME NEW k \in 1..Len(new), new[k].kind = "answer"
      PROVE  new[k].text = IF k = 1 THEN current ELSE new[k - 1].text
    <2>1. CASE k \in 1..n
        <3>1. new[k] = messages[k] /\ (k # 1 => k - 1 \in 1..n)
            BY <1>1, <2>1
        <3> QED
            BY <1>1, <1>2, <2>1, <3>1 DEF Chain, n
    <2>2. CASE k = n + 1
        <3>1. new[k].text = text /\ m.kind # "change"
            BY <1>1, <1>2, <2>2
        <3>2. n # 0 => n \in 1..n /\ new[n].text = text
            BY <1>1 DEF Chain, n
        <3>3. n = 0 => current = text
            BY <1>1 DEF Chain, n
        <3> QED
            BY <1>1, <2>2, <3>1, <3>2, <3>3
    <2> QED
        BY <1>1, <2>1, <2>2
<1>3. new[Len(new)].text = m.text
    BY <1>1
<1>4. Chain(current, new, m.text)
    BY <1>1, <1>2, <1>3 DEF Chain
<1> QED
    BY <1>1, <1>4 DEF new

LEMMA ChainShrinks ==
    ASSUME NEW current, NEW messages \in Seq(Message), NEW text, Chain(current, messages, text),
           messages # <<>>
    PROVE  /\ Tail(messages) \in Seq(Message) /\ Head(messages) \in Message
           /\ Chain(Head(messages).text, Tail(messages), text)
           /\ Head(messages).kind = "answer" => Head(messages).text = current
<1> DEFINE rest == Tail(messages)
<1> DEFINE n == Len(messages)
<1>1. /\ n \in Nat /\ n >= 1 /\ Head(messages) = messages[1] /\ Head(messages) \in Message
      /\ rest \in Seq(Message) /\ Len(rest) = n - 1 /\ (rest = <<>> <=> n - 1 = 0)
      /\ \A k \in 1..(n - 1) : rest[k] = messages[k + 1]
    BY Messages
<1> HIDE DEF rest, n
<1>2. messages[n].text = text
    BY DEF Chain, n
<1>3. rest = <<>> => Head(messages).text = text
    BY <1>1, <1>2
<1>4. rest # <<>> => rest[Len(rest)].text = text
    BY <1>1, <1>2
<1>5. ASSUME NEW k \in 1..Len(rest), rest[k].kind = "answer"
      PROVE  rest[k].text = IF k = 1 THEN Head(messages).text ELSE rest[k - 1].text
    <2>0. k \in 1..(n - 1) /\ k + 1 \in 1..n /\ k + 1 # 1 /\ (k # 1 => k - 1 \in 1..(n - 1))
        BY <1>1, <1>5
    <2>a. rest[k] = messages[k + 1]
        BY <1>1, <2>0
    <2>b. k # 1 => rest[k - 1] = messages[k]
        <3>1. k \in Int /\ (k - 1) + 1 = k
            BY <1>5
        <3> QED
            BY <1>1, <2>0, <3>1
    <2>1. /\ k \in 1..(n - 1) /\ k + 1 \in 1..n /\ k + 1 # 1 /\ rest[k] = messages[k + 1]
          /\ k # 1 => rest[k - 1] = messages[k]
        BY <2>0, <2>a, <2>b
    <2>2. messages[k + 1].text = messages[(k + 1) - 1].text
        BY <1>5, <2>1 DEF Chain, n
    <2> QED
        BY <1>1, <2>1, <2>2
<1>6. Head(messages).kind = "answer" => Head(messages).text = current
    <2>1. 1 \in 1..n
        BY <1>1
    <2> QED
        BY <1>1, <2>1 DEF Chain, n
<1>7. Chain(Head(messages).text, rest, text)
    BY <1>3, <1>4, <1>5 DEF Chain
<1> QED
    BY <1>1, <1>6, <1>7 DEF rest

LEMMA Pushed ==
    ASSUME NEW X, NEW a \in X, NEW b \in X, NEW c \in X
    PROVE  /\ Append(<<a>>, b) = <<a, b>> /\ Append(<<a, b>>, c) = <<a, b, c>>
           /\ SubSeq(<<a, b, c>>, 1, 2) = <<a, b>>
<1>1. <<a>> \in Seq(X) /\ <<a, b>> \in Seq(X) /\ <<a, b, c>> \in Seq(X)
    OBVIOUS
<1>2. Append(<<a>>, b) = <<a, b>>
    <2> DEFINE s == Append(<<a>>, b)
    <2>1. s \in Seq(X) /\ Len(s) = 2 /\ s[1] = a /\ s[2] = b
        BY <1>1, AppendProperties
    <2> HIDE DEF s
    <2>2. Len(s) = Len(<<a, b>>) /\ \A i \in 1..Len(s) : s[i] = <<a, b>>[i]
        BY <2>1
    <2>3. s = <<a, b>>
        BY <1>1, <2>1, <2>2, SeqEqual
    <2> QED
        BY <2>3 DEF s
<1>3. Append(<<a, b>>, c) = <<a, b, c>>
    <2> DEFINE s == Append(<<a, b>>, c)
    <2>1. s \in Seq(X) /\ Len(s) = 3 /\ s[1] = a /\ s[2] = b /\ s[3] = c
        BY <1>1, AppendProperties
    <2> HIDE DEF s
    <2>2. Len(s) = Len(<<a, b, c>>) /\ \A i \in 1..Len(s) : s[i] = <<a, b, c>>[i]
        BY <2>1
    <2>3. s = <<a, b, c>>
        BY <1>1, <2>1, <2>2, SeqEqual
    <2> QED
        BY <2>3 DEF s
<1>4. SubSeq(<<a, b, c>>, 1, 2) = <<a, b>>
    <2> DEFINE s == SubSeq(<<a, b, c>>, 1, 2)
    <2>1. \A i \in 1..2 : <<a, b, c>>[i] \in X
        OBVIOUS
    <2>2. s \in Seq(X) /\ Len(s) = 2 /\ \A i \in 1..2 : s[i] = <<a, b, c>>[i]
        BY <2>1, SubSeqProperties
    <2> HIDE DEF s
    <2>3. Len(s) = Len(<<a, b>>) /\ \A i \in 1..Len(s) : s[i] = <<a, b>>[i]
        BY <2>2
    <2>4. s = <<a, b>>
        BY <1>1, <2>2, <2>3, SeqEqual
    <2> QED
        BY <2>4 DEF s
<1> QED
    BY <1>2, <1>3, <1>4

LEMMA PushedRoutes ==
    /\ Append(<<"list">>, "editor") = <<"list", "editor">>
    /\ \A d \in {"discard", "revert"} :
          /\ Append(<<"list", "editor">>, d) = <<"list", "editor", d>>
          /\ SubSeq(<<"list", "editor", d>>, 1, 2) = <<"list", "editor">>
<1> DEFINE X == {"list", "editor", "discard", "revert"}
<1>1. "list" \in X /\ "editor" \in X /\ \A d \in {"discard", "revert"} : d \in X
    OBVIOUS
<1> HIDE DEF X
<1> QED
    BY <1>1, Pushed

\* The routes there can be.
LEMMA Routes ==
    ASSUME stack \in Stacks
    PROVE  /\ Top = "list" => stack = <<"list">>
           /\ Top = "editor" => stack = <<"list", "editor">>
           /\ Top = "discard" => stack = <<"list", "editor", "discard">>
           /\ Top = "revert" => stack = <<"list", "editor", "revert">>
           /\ Top \in {"editor", "discard", "revert"} <=> EditorOpen
           /\ stack = <<>> <=> Top = "none"
           /\ Top \in {"discard", "revert"} => Below = <<"list", "editor">>
           /\ Top = "editor" => /\ Append(stack, "discard") = <<"list", "editor", "discard">>
                                /\ Append(stack, "revert") = <<"list", "editor", "revert">>
           /\ Top = "list" => Append(stack, "editor") = <<"list", "editor">>
<1>1. stack = <<>> => Top = "none" /\ Len(stack) = 0
    BY DEF Top
<1>2. stack = <<"list">> => Top = "list" /\ Len(stack) = 1
    BY DEF Top
<1>3. stack = <<"list", "editor">> => Top = "editor" /\ Len(stack) = 2
    BY DEF Top
<1>4. stack = <<"list", "editor", "discard">> => Top = "discard" /\ Len(stack) = 3
    BY DEF Top
<1>5. stack = <<"list", "editor", "revert">> => Top = "revert" /\ Len(stack) = 3
    BY DEF Top
<1>6. \/ stack = <<>> \/ stack = <<"list">> \/ stack = <<"list", "editor">>
      \/ stack = <<"list", "editor", "discard">> \/ stack = <<"list", "editor", "revert">>
    BY DEF Stacks
<1>7. Top \in {"editor", "discard", "revert"} <=> EditorOpen
    BY <1>1, <1>2, <1>3, <1>4, <1>5, <1>6 DEF EditorOpen
<1>8. Top \in {"discard", "revert"} => Below = <<"list", "editor">>
    <2>1. ASSUME NEW d \in {"discard", "revert"}, stack = <<"list", "editor", d>>
          PROVE  Below = <<"list", "editor">>
        <3>1. Below = SubSeq(<<"list", "editor", d>>, 1, 2)
            BY <2>1 DEF Below
        <3>2. SubSeq(<<"list", "editor", d>>, 1, 2) = <<"list", "editor">>
            BY PushedRoutes
        <3> QED
            BY <3>1, <3>2
    <2> QED
        BY <1>1, <1>2, <1>3, <1>4, <1>5, <1>6, <2>1
<1>9. Top = "editor" => /\ Append(stack, "discard") = <<"list", "editor", "discard">>
                        /\ Append(stack, "revert") = <<"list", "editor", "revert">>
    <2>1. Top = "editor" => stack = <<"list", "editor">>
        BY <1>1, <1>2, <1>3, <1>4, <1>5, <1>6
    <2>2. /\ Append(<<"list", "editor">>, "discard") = <<"list", "editor", "discard">>
          /\ Append(<<"list", "editor">>, "revert") = <<"list", "editor", "revert">>
        BY PushedRoutes
    <2> QED
        BY <2>1, <2>2
<1>10. Top = "list" => Append(stack, "editor") = <<"list", "editor">>
    <2>1. Top = "list" => stack = <<"list">>
        BY <1>1, <1>2, <1>3, <1>4, <1>5, <1>6
    <2>2. Append(<<"list">>, "editor") = <<"list", "editor">>
        BY PushedRoutes
    <2> QED
        BY <2>1, <2>2
<1>11. /\ Top = "list" => stack = <<"list">>
       /\ Top = "editor" => stack = <<"list", "editor">>
       /\ Top = "discard" => stack = <<"list", "editor", "discard">>
       /\ Top = "revert" => stack = <<"list", "editor", "revert">>
       /\ stack = <<>> <=> Top = "none"
    BY <1>1, <1>2, <1>3, <1>4, <1>5, <1>6
<1> QED
    BY <1>7, <1>8, <1>9, <1>10, <1>11

LEMMA MessageOf ==
    ASSUME NEW kind \in {"change", "answer"}, NEW t \in Texts
    PROVE  \E m \in Message : m = [kind |-> kind, text |-> t] /\ m.kind = kind /\ m.text = t
<1> DEFINE y == [kind |-> kind, text |-> t]
<1>1. y \in Message /\ y.kind = kind /\ y.text = t
    BY DEF Message
<1> QED
    BY <1>1, Zenon

LEMMA TextKept ==
    ASSUME TextInv, UNCHANGED textVars, EditorOpen' => EditorOpen
    PROVE  TextInv'
BY DEF TextInv, Chain, textVars

\* The editor is gone.
LEMMA TextGone ==
    ASSUME Dispose, stack' = <<"list">>
    PROVE  TextInv'
<1>1. ~EditorOpen'
    BY DEF EditorOpen
<1>2. inbox' \in Seq(Message)
    BY DEF Dispose
<1>3. Chain(currentText, inbox, native)'
    <2>1. inbox' = <<>> /\ currentText' = native'
        BY DEF Dispose
    <2>2. Len(inbox') = 0
        BY <2>1
    <2> QED
        BY <2>1, <2>2 DEF Chain
<1> QED
    BY <1>1, <1>2, <1>3 DEF TextInv, Dispose

LEMMA TextStep ==
    ASSUME EditorInv, EditorNext
    PROVE  TextInv'
<1>s. stack \in Stacks /\ TextInv
    BY DEF EditorInv, ListInv
<1>t. /\ inbox \in Seq(Message) /\ (EditorOpen => native \in Texts)
      /\ Chain(currentText, inbox, native)
      /\ debounce \in {"none", currentText} /\ (debounce = "none" => validated = currentText)
    BY <1>s DEF TextInv
<1>m. \A m \in Message : m.text \in Texts /\ m.text # "none"
    BY EditorAssumption DEF Message
<1>1. CASE UNCHANGED <<stack, textVars>>
    BY <1>1, <1>s, TextKept DEF EditorOpen
<1>2. ASSUME NEW saved \in BOOLEAN, NEW ss, PopEditor(saved, ss) PROVE TextInv'
    BY <1>2, TextGone DEF PopEditor
<1>3. CASE Back \/ Discard
    <2>1. CASE stack' = Append(stack, "discard") /\ Top = "editor" /\ UNCHANGED textVars
        <3>1. EditorOpen
            BY <1>s, <2>1, Routes
        <3> QED
            BY <1>s, <2>1, <3>1, TextKept
    <2> QED
        BY <1>2, <1>3, <2>1 DEF Back, Discard
<1>4. CASE Cancel \/ RevertConfirmed
    <2>1. EditorOpen /\ UNCHANGED textVars
        BY <1>s, <1>4, Routes DEF Cancel, RevertConfirmed
    <2> QED
        BY <1>s, <2>1, TextKept
<1>5. CASE AskRevert
    <2>1. EditorOpen /\ UNCHANGED textVars
        BY <1>s, <1>5, Routes DEF AskRevert
    <2> QED
        BY <1>s, <2>1, TextKept
<1>6. CASE SaveReturns
    <2>1. PICK s \in DOMAIN saves :
              \/ PopEditor(TRUE, [saves EXCEPT ![s] = NoSave])
              \/ stack' = <<"list">> /\ Dispose
              \/ Top = "revert" /\ UNCHANGED textVars
              \/ stack' = <<>> /\ UNCHANGED textVars
        BY <1>6 DEF SaveReturns
    <2>2. CASE Top = "revert" /\ UNCHANGED textVars
        BY <1>s, <2>2, Routes, TextKept
    <2>3. CASE stack' = <<>> /\ UNCHANGED textVars
        <3>1. ~EditorOpen'
            BY <2>3 DEF EditorOpen
        <3> QED
            BY <1>s, <2>3, <3>1, TextKept
    <2> QED
        BY <1>2, <2>1, <2>2, <2>3, TextGone
<1>7. CASE OpenEditor
    <2>1. /\ native' = profiles.yaml /\ inbox' = <<>> /\ currentText' = profiles.yaml
          /\ debounce' = "none" /\ validated' = profiles.yaml
        BY <1>7 DEF OpenEditor
    <2>2. profiles.yaml \in Texts
        BY DEF EditorInv, ListInv, SavedRow
    <2>3. Len(<<>>) = 0 /\ <<>> \in Seq(Message)
        OBVIOUS
    <2>4. Chain(currentText, inbox, native)'
        BY <2>1, <2>3 DEF Chain
    <2> QED
        BY <2>1, <2>2, <2>3, <2>4 DEF TextInv
<1>8. CASE Type
    <2>1. PICK t \in Texts : /\ native' = t /\ inbox' = Append(inbox, [kind |-> "change", text |-> t])
                             /\ UNCHANGED <<currentText, debounce, validated>>
        BY <1>8 DEF Type
    <2>2. PICK m \in Message : m = [kind |-> "change", text |-> t] /\ m.kind = "change" /\ m.text = t
        BY MessageOf
    <2>3. inbox' = Append(inbox, m)
        BY <2>1, <2>2
    <2>4. Append(inbox, m) \in Seq(Message) /\ Chain(currentText, Append(inbox, m), t)
        BY <1>t, <2>2, ChainGrows
    <2>5. Chain(currentText, inbox, native)'
        BY <2>1, <2>3, <2>4 DEF Chain
    <2> QED
        BY <1>t, <2>1, <2>3, <2>4, <2>5 DEF TextInv
<1>9. CASE TakeChange
    <2>1. /\ inbox # <<>> /\ inbox' = Tail(inbox) /\ UNCHANGED <<stack, native, validated>>
          /\ currentText' = Head(inbox).text /\ debounce' = Head(inbox).text
        BY <1>9 DEF TakeChange
    <2>2. /\ Tail(inbox) \in Seq(Message) /\ Head(inbox) \in Message
          /\ Chain(Head(inbox).text, Tail(inbox), native)
        BY <1>t, <2>1, ChainShrinks
    <2>3. Chain(currentText, inbox, native)'
        BY <2>1, <2>2 DEF Chain
    <2>4. EditorOpen' => native' \in Texts
        BY <1>t, <2>1 DEF EditorOpen
    <2> QED
        BY <1>m, <2>1, <2>2, <2>3, <2>4 DEF TextInv
<1>10. CASE Validate
    <2>1. UNCHANGED <<stack, native, inbox, currentText>> /\ debounce' = "none" /\ validated' = debounce
          /\ debounce # "none"
        BY <1>10 DEF Validate
    <2> QED
        BY <1>t, <2>1 DEF TextInv, Chain, EditorOpen
<1>11. CASE SetText
    <2>1. /\ native' = revert.text /\ UNCHANGED <<stack, currentText, debounce, validated>>
          /\ inbox' = inbox \o <<[kind |-> "change", text |-> revert.text],
                                 [kind |-> "answer", text |-> revert.text]>>
        BY <1>11 DEF SetText
    <2>2. revert.text \in Texts
        BY <1>11 DEF SetText, EditorInv, CallsInv
    <2>3. PICK m \in Message : m = [kind |-> "change", text |-> revert.text]
                               /\ m.kind = "change" /\ m.text = revert.text
        BY <2>2, MessageOf
    <2>4. PICK a \in Message : a = [kind |-> "answer", text |-> revert.text] /\ a.text = revert.text
        BY <2>2, MessageOf
    <2>5. inbox' = Append(Append(inbox, m), a)
        BY <1>t, <2>1, <2>3, <2>4, Messages
    <2>6. Append(inbox, m) \in Seq(Message) /\ Chain(currentText, Append(inbox, m), m.text)
        BY <1>t, <2>3, ChainGrows
    <2>7. inbox' \in Seq(Message) /\ Chain(currentText, inbox', native')
        BY <2>1, <2>3, <2>4, <2>5, <2>6, ChainGrows
    <2>8. Chain(currentText, inbox, native)'
        BY <2>1, <2>7 DEF Chain
    <2> QED
        BY <1>t, <2>1, <2>2, <2>7, <2>8 DEF TextInv
<1>12. CASE Reverted
    <2>1. /\ inbox # <<>> /\ inbox' = Tail(inbox) /\ UNCHANGED <<stack, native, debounce>>
          /\ Head(inbox).kind = "answer"
          /\ currentText' = Head(inbox).text /\ validated' = Head(inbox).text
        BY <1>12 DEF Reverted
    <2>2. /\ Tail(inbox) \in Seq(Message) /\ Head(inbox).text = currentText
          /\ Chain(Head(inbox).text, Tail(inbox), native)
        BY <1>t, <2>1, ChainShrinks
    <2>3. Chain(currentText, inbox, native)'
        BY <2>1, <2>2 DEF Chain
    <2>4. EditorOpen' => native' \in Texts
        BY <1>t, <2>1 DEF EditorOpen
    <2> QED
        BY <1>t, <2>1, <2>2, <2>3, <2>4 DEF TextInv
<1>13. CASE ReadRows \/ Loaded \/ Reload \/ RefreshTap \/ RefreshWrites \/ RefreshFails \/ RefreshReturns
    BY <1>1, <1>13 DEF ReadRows, Loaded, Reload, RefreshTap, RefreshWrites, RefreshFails, RefreshReturns
<1>14. CASE Save \/ GetText \/ WriteYaml \/ RevertRow \/ RevertReads \/ RevertGone
    BY <1>1, <1>14 DEF Save, GetText, WriteYaml, RevertRow, RevertReads, RevertGone
<1> QED
    BY <1>3, <1>4, <1>5, <1>6, <1>7, <1>8, <1>9, <1>10, <1>11, <1>12, <1>13, <1>14 DEF EditorNext

LEMMA CallShapes ==
    /\ NoSave \in Saves /\ NoSave.at = "idle" /\ ~NoSave.stray /\ ~NoSave.calm
    /\ NoRevert \in Reverts /\ NoRevert.at = "idle"
    /\ \A c \in Saves :
          /\ c.at \in {"idle", "getText", "write", "written"} /\ c.text \in Texts \cup {"none"}
          /\ c.calm \in BOOLEAN /\ c.stray \in BOOLEAN
          /\ c = [at |-> c.at, text |-> c.text, calm |-> c.calm, stray |-> c.stray]
    /\ \A r \in Reverts : r = [at |-> r.at, text |-> r.text, stray |-> r.stray]
BY DEF NoSave, NoRevert, Saves, Reverts

LEMMA SaveKept ==
    ASSUME NEW c, SaveInv(c), EditorOpen => EditorOpen',
           c.calm /\ c.at = "getText" => UNCHANGED <<inbox, debounce, native>>
    PROVE  SaveInv(c)'
BY DEF SaveInv, Calm

LEMMA CallsFrom ==
    ASSUME saves' \in [1..MaxSaves -> Saves], revert' \in Reverts,
           revert'.at \in {"setText", "answer"} => revert'.text \in Texts,
           \A s \in 1..MaxSaves : \A c : c = saves'[s] => SaveInv(c)'
    PROVE  CallsInv'
<1>1. \A s \in 1..MaxSaves : SaveInv(saves[s])'
    BY DEF SaveInv
<1> QED
    BY <1>1 DEF CallsInv

\* No save moves, and none that waits for its text loses it.
LEMMA SavesKept ==
    ASSUME CallsInv, UNCHANGED saves, EditorOpen => EditorOpen',
           UNCHANGED <<inbox, debounce, native>> \/ inbox # <<>> \/ debounce # "none" \/ ~EditorOpen,
           revert' \in Reverts, revert'.at \in {"setText", "answer"} => revert'.text \in Texts
    PROVE  CallsInv'
<1>1. saves' \in [1..MaxSaves -> Saves] /\ \A s \in 1..MaxSaves : SaveInv(saves[s])
    BY DEF CallsInv
<1>2. ASSUME NEW s \in 1..MaxSaves, NEW c, c = saves'[s] PROVE SaveInv(c)'
    <2>1. SaveInv(c)
        BY <1>1, <1>2
    <2>2. c.calm /\ c.at = "getText" => inbox = <<>> /\ debounce = "none" /\ EditorOpen
        BY <2>1 DEF SaveInv, Calm
    <2> QED
        BY <2>1, <2>2, SaveKept
<1> QED
    BY <1>1, <1>2, CallsFrom

\* One save moves.
LEMMA OneSave ==
    ASSUME CallsInv, NEW s \in 1..MaxSaves, NEW c \in Saves, saves' = [saves EXCEPT ![s] = c],
           SaveInv(c)', EditorOpen => EditorOpen', UNCHANGED <<inbox, debounce, native>>,
           revert' \in Reverts, revert'.at \in {"setText", "answer"} => revert'.text \in Texts
    PROVE  CallsInv'
<1>1. saves \in [1..MaxSaves -> Saves] /\ \A k \in 1..MaxSaves : SaveInv(saves[k])
    BY DEF CallsInv
<1>2. saves' \in [1..MaxSaves -> Saves] /\ \A k \in 1..MaxSaves : saves'[k] = IF k = s THEN c ELSE saves[k]
    BY <1>1
<1>3. ASSUME NEW k \in 1..MaxSaves, NEW d, d = saves'[k] PROVE SaveInv(d)'
    <2>1. d = c \/ SaveInv(d)
        BY <1>1, <1>2, <1>3
    <2> QED
        BY <2>1, SaveKept
<1> QED
    BY <1>2, <1>3, CallsFrom

LEMMA NoSaveIsCalm == [NoSave EXCEPT !.calm = FALSE] = NoSave
<1> DEFINE d == [NoSave EXCEPT !.calm = FALSE]
<1>1. NoSave.text = "none" /\ NoSave.stray = FALSE /\ NoSave.calm = FALSE /\ NoSave.at = "idle"
    BY DEF NoSave
<1>2. d \in Saves /\ d.at = "idle" /\ d.text = "none" /\ d.calm = FALSE /\ d.stray = FALSE
    BY <1>1, CallShapes DEF Saves
<1> HIDE DEF d
<1>3. d = [at |-> "idle", text |-> "none", calm |-> FALSE, stray |-> FALSE]
    BY <1>2, CallShapes
<1> QED
    BY <1>3 DEF NoSave, d

\* The editor has heard of a change: no user has paused.
LEMMA NoneIsCalm ==
    ASSUME CallsInv, saves' = [s \in DOMAIN saves |-> [saves[s] EXCEPT !.calm = FALSE]],
           EditorOpen => EditorOpen',
           revert' \in Reverts, revert'.at \in {"setText", "answer"} => revert'.text \in Texts
    PROVE  CallsInv'
<1>1. saves \in [1..MaxSaves -> Saves] /\ \A s \in 1..MaxSaves : SaveInv(saves[s])
    BY DEF CallsInv
<1>2. \A c \in Saves : LET d == [c EXCEPT !.calm = FALSE]
                       IN  /\ d \in Saves /\ ~d.calm /\ d.at = c.at /\ d.text = c.text /\ d.stray = c.stray
                           /\ c = NoSave => d = NoSave
    <2> SUFFICES ASSUME NEW c \in Saves
                 PROVE  LET d == [c EXCEPT !.calm = FALSE]
                        IN  /\ d \in Saves /\ ~d.calm /\ d.at = c.at /\ d.text = c.text
                            /\ d.stray = c.stray
                            /\ c = NoSave => d = NoSave
        OBVIOUS
    <2> DEFINE d == [c EXCEPT !.calm = FALSE]
    <2>1. d \in Saves /\ ~d.calm /\ d.at = c.at /\ d.text = c.text /\ d.stray = c.stray
        BY DEF Saves
    <2>2. c = NoSave => d = NoSave
        BY NoSaveIsCalm
    <2> QED
        BY <2>1, <2>2, Zenon
<1>3. ASSUME NEW s \in 1..MaxSaves, NEW d, d = saves'[s] PROVE d \in Saves /\ SaveInv(d)'
    <2>1. saves[s] \in Saves /\ SaveInv(saves[s]) /\ d = [saves[s] EXCEPT !.calm = FALSE]
        BY <1>1, <1>3
    <2>2. /\ d \in Saves /\ ~d.calm /\ d.at = saves[s].at /\ d.text = saves[s].text
          /\ d.stray = saves[s].stray /\ (saves[s] = NoSave => d = NoSave)
        BY <1>2, <2>1, Zenon
    <2>3. SaveInv(d)'
        BY <2>1, <2>2 DEF SaveInv
    <2> QED
        BY <2>2, <2>3
<1>4. saves' \in [1..MaxSaves -> Saves]
    BY <1>1, <1>3
<1> QED
    BY <1>3, <1>4, CallsFrom

\* The editor is gone: what it has begun goes on without it.
LEMMA AllStray ==
    ASSUME CallsInv, NEW ss \in [1..MaxSaves -> Saves],
           \A s \in 1..MaxSaves : ss[s] = saves[s] \/ ss[s] = NoSave, Orphaned(ss)
    PROVE  CallsInv'
<1>1. saves \in [1..MaxSaves -> Saves] /\ revert \in Reverts /\ \A s \in 1..MaxSaves : SaveInv(saves[s])
    BY DEF CallsInv
<1>2. \A c \in Saves : LET e == [c EXCEPT !.calm = FALSE]
                           d == Strayed(e, NoSave)
                       IN  /\ d \in Saves /\ ~d.calm /\ d.at = c.at /\ d.text = c.text
                           /\ d = NoSave \/ d.stray
    <2> SUFFICES ASSUME NEW c \in Saves
                 PROVE  LET e == [c EXCEPT !.calm = FALSE]
                            d == Strayed(e, NoSave)
                        IN  /\ d \in Saves /\ ~d.calm /\ d.at = c.at /\ d.text = c.text
                            /\ d = NoSave \/ d.stray
        OBVIOUS
    <2> DEFINE e == [c EXCEPT !.calm = FALSE]
    <2>1. e \in Saves /\ ~e.calm /\ e.at = c.at /\ e.text = c.text
        BY DEF Saves
    <2> HIDE DEF e
    <2>2. [e EXCEPT !.stray = TRUE] \in Saves /\ ~[e EXCEPT !.stray = TRUE].calm
          /\ [e EXCEPT !.stray = TRUE].at = c.at /\ [e EXCEPT !.stray = TRUE].text = c.text
          /\ [e EXCEPT !.stray = TRUE].stray
        BY <2>1 DEF Saves
    <2>3. LET d == Strayed(e, NoSave)
          IN  /\ d \in Saves /\ ~d.calm /\ d.at = c.at /\ d.text = c.text
              /\ d = NoSave \/ d.stray
        BY <2>1, <2>2 DEF Strayed
    <2> QED
        BY <2>3 DEF e
<1>3. saves' = [s \in 1..MaxSaves |-> Strayed([ss[s] EXCEPT !.calm = FALSE], NoSave)]
    BY DEF Orphaned
<1>4. ASSUME NEW s \in 1..MaxSaves, NEW d, d = saves'[s] PROVE d \in Saves /\ SaveInv(d)'
    <2>1. ss[s] \in Saves /\ d = Strayed([ss[s] EXCEPT !.calm = FALSE], NoSave)
        BY <1>3, <1>4
    <2>2. d \in Saves /\ ~d.calm /\ d.at = ss[s].at /\ d.text = ss[s].text /\ (d = NoSave \/ d.stray)
        BY <1>2, <2>1, Zenon
    <2>3. d.at = "write" => d.text \in Texts
        BY <1>1, <2>2, CallShapes, ZenonT(40) DEF SaveInv
    <2>4. d.at = "idle" => d = NoSave
        <3>1. d.at = "idle" => ss[s] = NoSave
            BY <1>1, <2>2 DEF SaveInv
        <3>2. ss[s] = NoSave => d = NoSave
            BY <2>1, NoSaveIsCalm DEF Strayed
        <3> QED
            BY <3>1, <3>2
    <2>5. SaveInv(d)'
        BY <2>2, <2>3, <2>4, CallShapes DEF SaveInv
    <2> QED
        BY <2>2, <2>5
<1>5. saves' \in [1..MaxSaves -> Saves]
    BY <1>3, <1>4
<1>6. revert' \in Reverts /\ revert'.at = revert.at /\ revert'.text = revert.text
    <2>1. revert' = IF revert = NoRevert THEN NoRevert ELSE [revert EXCEPT !.stray = TRUE]
        BY DEF Orphaned, Strayed
    <2>2. [revert EXCEPT !.stray = TRUE] \in Reverts /\ [revert EXCEPT !.stray = TRUE].at = revert.at
          /\ [revert EXCEPT !.stray = TRUE].text = revert.text
        BY <1>1 DEF Reverts
    <2> QED
        BY <1>1, <2>1, <2>2
<1> QED
    BY <1>4, <1>5, <1>6, CallsFrom DEF CallsInv

LEMMA CallsStep ==
    ASSUME EditorInv, EditorNext
    PROVE  CallsInv'
<1>s. stack \in Stacks /\ CallsInv /\ TextInv
    BY DEF EditorInv, ListInv
<1>c. /\ saves \in [1..MaxSaves -> Saves] /\ revert \in Reverts
      /\ \A s \in 1..MaxSaves : SaveInv(saves[s])
      /\ revert.at \in {"setText", "answer"} => revert.text \in Texts
    BY <1>s DEF CallsInv
<1>d. DOMAIN saves = 1..MaxSaves
    BY <1>c
<1>v. NoRevert \in Reverts /\ NoRevert.at = "idle"
    BY CallShapes
<1>1. CASE UNCHANGED <<stack, textVars, callVars>>
    BY <1>1, <1>s, <1>c, SavesKept DEF EditorOpen, textVars, callVars
<1>2. ASSUME NEW saved \in BOOLEAN, PopEditor(saved, saves) PROVE CallsInv'
    BY <1>2, <1>s, <1>c, AllStray DEF PopEditor
<1>3. CASE Back \/ Discard
    <2>1. CASE stack' = Append(stack, "discard") /\ Top = "editor" /\ UNCHANGED <<textVars, callVars>>
        <3>1. EditorOpen'
            <4>1. stack' = <<"list", "editor", "discard">>
                BY <1>s, <2>1, Routes
            <4> QED
                BY <4>1 DEF EditorOpen
        <3> QED
            BY <1>s, <1>c, <2>1, <3>1, SavesKept DEF textVars, callVars
    <2> QED
        BY <1>2, <1>3, <2>1 DEF Back, Discard
<1>o. (stack' = <<"list", "editor">> \/ stack' = <<"list", "editor", "revert">>) => EditorOpen'
    BY DEF EditorOpen
<1>4. CASE Cancel
    <2>1. stack' = <<"list", "editor">> /\ UNCHANGED <<textVars, callVars>>
        BY <1>s, <1>4, Routes DEF Cancel
    <2> QED
        BY <1>s, <1>c, <1>o, <2>1, SavesKept DEF textVars, callVars
<1>5. CASE AskRevert
    <2>1. stack' = <<"list", "editor", "revert">> /\ UNCHANGED <<textVars, callVars>>
        BY <1>s, <1>5, Routes DEF AskRevert
    <2> QED
        BY <1>s, <1>c, <1>o, <2>1, SavesKept DEF textVars, callVars
<1>6. CASE RevertConfirmed
    <2>1. /\ stack' = <<"list", "editor">> /\ UNCHANGED <<textVars, saves>>
          /\ revert' = [revert EXCEPT !.at = "revert"]
        BY <1>s, <1>6, Routes DEF RevertConfirmed, ConfirmRevert
    <2>2. revert' \in Reverts /\ revert'.at = "revert"
        BY <1>c, <2>1 DEF Reverts
    <2> QED
        BY <1>s, <1>o, <2>1, <2>2, SavesKept DEF textVars
<1>7. CASE SaveReturns
    <2>1. PICK s \in DOMAIN saves :
              LET rest == [saves EXCEPT ![s] = NoSave]
              IN  \/ PopEditor(TRUE, rest)
                  \/ Top = "discard" /\ Orphaned(rest)
                  \/ /\ Top = "revert" /\ stack' = Below /\ ConfirmRevert /\ saves' = rest
                     /\ UNCHANGED textVars
                  \/ ~EditorOpen /\ saves' = rest /\ UNCHANGED <<textVars, revert>>
        BY <1>7 DEF SaveReturns
    <2> DEFINE rest == [saves EXCEPT ![s] = NoSave]
    <2>2. /\ rest \in [1..MaxSaves -> Saves]
          /\ \A k \in 1..MaxSaves : rest[k] = saves[k] \/ rest[k] = NoSave
        BY <1>c, CallShapes
    <2>3. SaveInv(NoSave)'
        BY CallShapes DEF SaveInv
    <2>4. CASE PopEditor(TRUE, rest) \/ Orphaned(rest)
        BY <1>s, <2>2, <2>4, AllStray DEF PopEditor
    <2>5. CASE Top = "revert" /\ stack' = Below /\ ConfirmRevert /\ saves' = rest /\ UNCHANGED textVars
        <3>1. stack' = <<"list", "editor">>
            BY <1>s, <2>5, Routes
        <3>2. revert' \in Reverts /\ revert'.at = "revert"
            BY <1>c, <2>5 DEF Reverts, ConfirmRevert
        <3>3. UNCHANGED <<inbox, debounce, native>> /\ saves' = [saves EXCEPT ![s] = NoSave]
            BY <2>5 DEF textVars
        <3> QED
            BY <1>s, <1>d, <1>o, <2>3, <3>1, <3>2, <3>3, CallShapes, OneSave
    <2>6. CASE ~EditorOpen /\ saves' = rest /\ UNCHANGED <<textVars, revert>>
        <3>1. UNCHANGED <<inbox, debounce, native>> /\ saves' = [saves EXCEPT ![s] = NoSave]
            BY <2>6 DEF textVars
        <3> QED
            BY <1>s, <1>c, <1>d, <2>3, <2>6, <3>1, CallShapes, OneSave
    <2> QED
        BY <2>1, <2>4, <2>5, <2>6
<1>8. CASE OpenEditor
    <2>1. Top = "list" /\ UNCHANGED callVars
        BY <1>8 DEF OpenEditor, Tiles
    <2>2. ~EditorOpen
        BY <1>s, <2>1, Routes
    <2> QED
        BY <1>s, <1>c, <2>1, <2>2, SavesKept DEF callVars
<1>9. CASE Type
    <2>1. /\ saves' = [s \in DOMAIN saves |-> [saves[s] EXCEPT !.calm = FALSE]]
          /\ UNCHANGED <<stack, revert>>
        BY <1>9 DEF Type
    <2> QED
        BY <1>s, <1>c, <2>1, NoneIsCalm DEF EditorOpen
<1>10. CASE SetText
    <2>1. /\ saves' = [s \in DOMAIN saves |-> [saves[s] EXCEPT !.calm = FALSE]]
          /\ revert' = [revert EXCEPT !.at = "answer"] /\ revert.at = "setText" /\ UNCHANGED stack
        BY <1>10 DEF SetText
    <2>2. revert' \in Reverts /\ revert'.text \in Texts
        BY <1>c, <2>1 DEF Reverts
    <2> QED
        BY <1>s, <2>1, <2>2, NoneIsCalm DEF EditorOpen
<1>11. CASE TakeChange \/ Reverted
    <2>1. inbox # <<>> /\ UNCHANGED <<stack, saves>> /\ (revert' = revert \/ revert' = NoRevert)
        BY <1>11 DEF TakeChange, Reverted, callVars
    <2> QED
        BY <1>s, <1>c, <1>v, <2>1, SavesKept DEF EditorOpen
<1>12. CASE Validate
    <2>1. debounce # "none" /\ UNCHANGED <<stack, saves, revert>>
        BY <1>12 DEF Validate, callVars
    <2> QED
        BY <1>s, <1>c, <2>1, SavesKept DEF EditorOpen
<1>13. CASE RevertRow \/ RevertGone
    <2>1. /\ UNCHANGED <<stack, textVars, saves>>
          /\ revert' = NoRevert \/ revert' = [revert EXCEPT !.at = "read"]
        BY <1>13 DEF RevertRow, RevertGone
    <2>2. revert' \in Reverts /\ revert'.at \in {"idle", "read"}
        <3>1. [revert EXCEPT !.at = "read"] \in Reverts /\ [revert EXCEPT !.at = "read"].at = "read"
            BY <1>c DEF Reverts
        <3> QED
            BY <1>v, <2>1, <3>1
    <2> QED
        BY <1>s, <2>1, <2>2, SavesKept DEF EditorOpen, textVars
<1>14. CASE RevertReads
    <2>1. /\ UNCHANGED <<stack, textVars, saves>>
          /\ revert' = [revert EXCEPT !.at = "setText", !.text = row.yaml]
        BY <1>14 DEF RevertReads
    <2>2. row.yaml \in Texts
        BY DEF EditorInv, ListInv, SavedRow
    <2>3. revert' \in Reverts /\ revert'.at = "setText" /\ revert'.text \in Texts
        BY <1>c, <2>1, <2>2 DEF Reverts
    <2> QED
        BY <1>s, <2>1, <2>3, SavesKept DEF EditorOpen, textVars
<1>15. CASE Save
    <2>1. PICK s \in DOMAIN saves :
              /\ Top = "editor" /\ validated \notin Broken
              /\ saves[s].at = "idle" /\ saves' = [saves EXCEPT ![s].at = "getText", ![s].calm = Calm]
        BY <1>15 DEF Save
    <2>2. UNCHANGED <<stack, textVars, revert>>
        BY <1>15 DEF Save
    <2>3. saves[s] \in Saves /\ saves[s] = NoSave /\ s \in 1..MaxSaves
        BY <1>c, <2>1 DEF SaveInv
    <2>4. PICK c \in Saves : c = [saves[s] EXCEPT !.at = "getText", !.calm = Calm] /\ c.at = "getText"
                             /\ c.calm = Calm /\ ~c.stray
        <3> DEFINE y == [saves[s] EXCEPT !.at = "getText", !.calm = Calm]
        <3>1. Calm \in BOOLEAN
            BY DEF Calm
        <3>2. y \in Saves /\ y.at = "getText" /\ y.calm = Calm /\ y.stray = saves[s].stray
            BY <2>3, <3>1 DEF Saves
        <3> QED
            BY <2>3, <3>2, CallShapes, Zenon
    <2>5. saves' = [saves EXCEPT ![s] = c]
        BY <1>c, <2>1, <2>3, <2>4
    <2>6. Calm => native = validated
        <3>1. Calm => inbox = <<>> /\ debounce = "none"
            BY DEF Calm
        <3> QED
            BY <1>s, <3>1 DEF TextInv, Chain
    <2>7. EditorOpen
        BY <1>s, <2>1, Routes
    <2>8. SaveInv(c)
        BY <2>1, <2>4, <2>6, <2>7 DEF SaveInv
    <2>9. UNCHANGED <<inbox, debounce, native>> /\ EditorOpen'
        BY <2>2, <2>7 DEF textVars, EditorOpen
    <2>10. SaveInv(c)'
        BY <2>8, <2>9, SaveKept
    <2> QED
        BY <1>s, <1>c, <2>2, <2>3, <2>5, <2>9, <2>10, OneSave
<1>16. CASE GetText
    <2>1. PICK s \in DOMAIN saves :
              /\ saves[s].at = "getText"
              /\ saves' = [saves EXCEPT ![s] = IF saves[s].stray THEN NoSave
                                     ELSE [saves[s] EXCEPT !.at = "write", !.text = native]]
        BY <1>16 DEF GetText
    <2>2. UNCHANGED <<stack, inbox, debounce, native, revert>>
        BY <1>16 DEF GetText, textVars
    <2>3. saves[s] \in Saves /\ SaveInv(saves[s]) /\ s \in 1..MaxSaves
        BY <1>c
    <2>4. CASE saves[s].stray
        <3>1. saves' = [saves EXCEPT ![s] = NoSave]
            BY <2>1, <2>4
        <3>2. SaveInv(NoSave)'
            BY CallShapes DEF SaveInv
        <3> QED
            BY <1>s, <1>c, <2>2, <2>3, <3>1, <3>2, CallShapes, OneSave DEF EditorOpen
    <2>5. CASE ~saves[s].stray
        <3>1. EditorOpen
            BY <2>1, <2>3, <2>5 DEF SaveInv
        <3>2. native \in Texts
            BY <1>s, <3>1 DEF TextInv
        <3>3. PICK c \in Saves : /\ c = [saves[s] EXCEPT !.at = "write", !.text = native]
                                 /\ c.at = "write" /\ c.text = native
                                 /\ c.calm = saves[s].calm /\ ~c.stray
            <4> DEFINE y == [saves[s] EXCEPT !.at = "write", !.text = native]
            <4>1. y \in Saves /\ y.at = "write" /\ y.text = native /\ y.calm = saves[s].calm
                  /\ y.stray = saves[s].stray
                BY <2>3, <3>2 DEF Saves
            <4> QED
                BY <2>5, <4>1, Zenon
        <3>4. saves' = [saves EXCEPT ![s] = c]
            BY <2>1, <2>5, <3>3
        <3>5. SaveInv(c)
            BY <2>1, <2>3, <3>1, <3>2, <3>3 DEF SaveInv
        <3>6. SaveInv(c)'
            BY <2>2, <3>5, SaveKept DEF EditorOpen
        <3> QED
            BY <1>s, <1>c, <2>2, <2>3, <3>4, <3>6, OneSave DEF EditorOpen
    <2> QED
        BY <2>4, <2>5
<1>17. CASE WriteYaml
    <2>1. PICK s \in DOMAIN saves :
              saves[s].at = "write" /\ saves' = [saves EXCEPT ![s].at = "written"]
        BY <1>17 DEF WriteYaml
    <2>2. UNCHANGED <<stack, inbox, debounce, native, revert>>
        BY <1>17 DEF WriteYaml, textVars
    <2>3. saves[s] \in Saves /\ SaveInv(saves[s]) /\ s \in 1..MaxSaves
        BY <1>c
    <2>4. PICK c \in Saves : /\ c = [saves[s] EXCEPT !.at = "written"] /\ c.at = "written"
                             /\ c.calm = saves[s].calm /\ c.stray = saves[s].stray
        <3> DEFINE y == [saves[s] EXCEPT !.at = "written"]
        <3>1. y \in Saves /\ y.at = "written" /\ y.calm = saves[s].calm /\ y.stray = saves[s].stray
            BY <2>3 DEF Saves
        <3> QED
            BY <3>1, Zenon
    <2>5. saves' = [saves EXCEPT ![s] = c]
        BY <1>c, <2>1, <2>3, <2>4
    <2>6. SaveInv(c)
        BY <2>1, <2>3, <2>4 DEF SaveInv
    <2>7. SaveInv(c)'
        BY <2>2, <2>6, SaveKept DEF EditorOpen
    <2> QED
        BY <1>s, <1>c, <2>2, <2>3, <2>5, <2>7, OneSave DEF EditorOpen
<1>18. CASE ReadRows \/ Loaded \/ Reload \/ RefreshTap \/ RefreshWrites \/ RefreshFails \/ RefreshReturns
    BY <1>1, <1>18 DEF ReadRows, Loaded, Reload, RefreshTap, RefreshWrites, RefreshFails, RefreshReturns
<1> QED
    BY <1>3, <1>4, <1>5, <1>6, <1>7, <1>8, <1>9, <1>10, <1>11, <1>12, <1>13, <1>14, <1>15, <1>16,
       <1>17, <1>18 DEF EditorNext

LEMMA AwaitedKept ==
    ASSUME UNCHANGED <<row, gets, reverted, misplaced>>, refresh = "written" => refresh' = "written",
           \A s \in 1..MaxSaves : saves[s].at = "written" => saves'[s].at = "written"
    PROVE  Awaited => Awaited'
BY DEF Awaited

LEMMA ListKept ==
    ASSUME ListInv, UNCHANGED <<row, profiles, newest, gets>>, stack' \in Stacks,
           stack' = <<>> => misplaced', Awaited => Awaited'
    PROVE  ListInv'
BY DEF ListInv

\* The row is written: what was read before is older.
LEMMA RowWritten ==
    ASSUME ListInv, NEW yaml \in Texts, NEW backup \in Texts, Write(yaml, backup),
           UNCHANGED <<profiles, newest, gets, stack, misplaced>>, Awaited'
    PROVE  ListInv'
<1>1. /\ row.n \in Nat /\ profiles.n \in Nat /\ newest \in Nat /\ profiles.n <= newest /\ newest <= row.n
      /\ \A g \in 1..MaxGets : gets[g].at = "read" => /\ gets[g].row \in SavedRow /\ gets[g].row.n \in Nat
                                                      /\ gets[g].row.n <= row.n
    BY DEF ListInv, SavedRow
<1>2. row' = [yaml |-> yaml, backup |-> backup, n |-> row.n + 1]
    BY DEF Write
<1>3. row' \in SavedRow /\ row'.n = row.n + 1
    BY <1>1, <1>2 DEF SavedRow
<1> QED
    BY <1>1, <1>3 DEF ListInv

\* The list is read again.
LEMMA ListAsked ==
    ASSUME ListInv, AskProfiles, UNCHANGED row, stack' \in Stacks, stack' # <<>>
    PROVE  ListInv'
<1>1. PICK g \in DOMAIN gets : gets' = [gets EXCEPT ![g].at = "asked"]
    BY DEF AskProfiles
<1>2. gets \in [1..MaxGets -> Gets] /\ UNCHANGED <<profiles, newest>>
    BY DEF ListInv, AskProfiles
<1>3. g \in 1..MaxGets /\ gets[g] \in Gets
    BY <1>1, <1>2
<1>4. [gets[g] EXCEPT !.at = "asked"] \in Gets /\ [gets[g] EXCEPT !.at = "asked"].at = "asked"
    BY <1>3 DEF Gets
<1>5. gets' = [gets EXCEPT ![g] = [gets[g] EXCEPT !.at = "asked"]]
    BY <1>1, <1>2
<1>6. /\ gets' \in [1..MaxGets -> Gets] /\ gets'[g].at = "asked"
      /\ \A k \in 1..MaxGets : k = g \/ gets'[k] = gets[k]
    BY <1>2, <1>3, <1>4, <1>5
<1>7. Awaited'
    BY <1>3, <1>6 DEF Awaited
<1> QED
    BY <1>2, <1>6, <1>7 DEF ListInv

\* What the calls of an editor that is gone are at stays.
LEMMA StrayedAt ==
    ASSUME NEW ss \in [1..MaxSaves -> Saves], Orphaned(ss)
    PROVE  \A s \in 1..MaxSaves : saves'[s].at = ss[s].at
<1> SUFFICES ASSUME NEW s \in 1..MaxSaves PROVE saves'[s].at = ss[s].at
    OBVIOUS
<1>1. saves'[s] = Strayed([ss[s] EXCEPT !.calm = FALSE], NoSave) /\ ss[s] \in Saves
    BY DEF Orphaned
<1> DEFINE e == [ss[s] EXCEPT !.calm = FALSE]
<1>2. e \in Saves /\ e.at = ss[s].at
    BY <1>1 DEF Saves
<1>3. saves'[s] = Strayed(e, NoSave)
    BY <1>1
<1> HIDE DEF e
<1>4. [e EXCEPT !.stray = TRUE].at = e.at
    BY <1>2 DEF Saves
<1>5. saves'[s] = IF e = NoSave THEN NoSave ELSE [e EXCEPT !.stray = TRUE]
    BY <1>3 DEF Strayed
<1> QED
    BY <1>2, <1>4, <1>5

LEMMA ListStep ==
    ASSUME EditorInv, EditorNext
    PROVE  ListInv'
<1>s. /\ ListInv /\ stack \in Stacks /\ saves \in [1..MaxSaves -> Saves]
      /\ \A s \in 1..MaxSaves : SaveInv(saves[s])
    BY DEF EditorInv, ListInv, CallsInv
<1>l. /\ row \in SavedRow /\ profiles \in SavedRow /\ newest \in Nat
      /\ gets \in [1..MaxGets -> Gets]
      /\ profiles.n <= newest /\ newest <= row.n /\ (profiles.n = row.n => profiles = row)
      /\ \A g \in 1..MaxGets : gets[g].at = "read" =>
             /\ gets[g].row \in SavedRow /\ gets[g].row.n <= row.n
             /\ gets[g].row.n = row.n => gets[g].row = row
      /\ stack = <<>> => misplaced
      /\ newest < row.n => Awaited
    BY DEF EditorInv, ListInv
<1>n. row.yaml \in Texts /\ row.backup \in Texts /\ row.n \in Nat /\ profiles.n \in Nat
    BY <1>l DEF SavedRow
<1>u. Upstream \subseteq Texts
    BY EditorAssumption
<1>1. CASE UNCHANGED <<row, stack, listVars, reverted, misplaced>>
           /\ \A s \in 1..MaxSaves : saves[s].at = "written" => saves'[s].at = "written"
    BY <1>1, <1>s, <1>l, AwaitedKept, ListKept DEF listVars
<1>2. ASSUME PopEditor(FALSE, saves) PROVE ListInv'
    <2>1. UNCHANGED <<row, listVars, reverted, misplaced>> /\ stack' = <<"list">> /\ Orphaned(saves)
        BY <1>2 DEF PopEditor, LoadIfSaved
    <2>2. \A s \in 1..MaxSaves : saves'[s].at = saves[s].at
        BY <1>s, <2>1, StrayedAt
    <2>3. stack' \in Stacks /\ stack' # <<>>
        BY <2>1 DEF Stacks
    <2> QED
        BY <1>s, <2>1, <2>2, <2>3, AwaitedKept, ListKept DEF listVars
<1>3. CASE Back \/ Discard
    <2>1. CASE /\ stack' = Append(stack, "discard") /\ Top = "editor"
               /\ UNCHANGED <<row, listVars, callVars, reverted, misplaced>>
        <3>1. stack' = <<"list", "editor", "discard">>
            BY <1>s, <2>1, Routes
        <3>2. stack' \in Stacks /\ stack' # <<>>
            BY <3>1 DEF Stacks
        <3> QED
            BY <1>s, <2>1, <3>2, AwaitedKept, ListKept DEF listVars, callVars
    <2> QED
        BY <1>2, <1>3, <2>1 DEF Back, Discard
<1>4. CASE Cancel \/ AskRevert \/ RevertConfirmed \/ OpenEditor
    <2>1. UNCHANGED <<row, listVars, saves, reverted, misplaced>>
        BY <1>4 DEF Cancel, AskRevert, RevertConfirmed, OpenEditor, callVars
    <2>2. stack' = <<"list", "editor">> \/ stack' = <<"list", "editor", "revert">>
        BY <1>s, <1>4, Routes DEF Cancel, AskRevert, RevertConfirmed, OpenEditor, Tiles
    <2>3. stack' \in Stacks /\ stack' # <<>>
        BY <2>2 DEF Stacks
    <2> QED
        BY <1>s, <2>1, <2>3, AwaitedKept, ListKept DEF listVars
<1>5. CASE SaveReturns
    <2>1. PICK s \in DOMAIN saves :
              \/ PopEditor(TRUE, [saves EXCEPT ![s] = NoSave])
              \/ /\ stack' = <<"list">> \/ stack' = <<>> \/ (Top = "revert" /\ stack' = Below)
                 /\ misplaced' = TRUE /\ UNCHANGED <<row, listVars>>
        BY <1>5 DEF SaveReturns
    <2>2. CASE PopEditor(TRUE, [saves EXCEPT ![s] = NoSave])
        <3>1. AskProfiles /\ UNCHANGED row /\ stack' = <<"list">>
            BY <2>2 DEF PopEditor, LoadIfSaved, Load
        <3>2. stack' \in Stacks /\ stack' # <<>>
            BY <3>1 DEF Stacks
        <3> QED
            BY <1>s, <3>1, <3>2, ListAsked
    <2>3. CASE /\ stack' = <<"list">> \/ stack' = <<>> \/ (Top = "revert" /\ stack' = Below)
               /\ misplaced' = TRUE /\ UNCHANGED <<row, listVars>>
        <3>1. stack' \in Stacks
            BY <1>s, <2>3, Routes DEF Stacks
        <3>2. Awaited'
            BY <2>3 DEF Awaited
        <3> QED
            BY <1>s, <2>3, <3>1, <3>2, ListKept DEF listVars
    <2> QED
        BY <2>1, <2>2, <2>3
<1>6. CASE ReadRows
    <2>1. PICK g \in DOMAIN gets : gets' = [gets EXCEPT ![g] = [at |-> "read", row |-> row]]
        BY <1>6 DEF ReadRows
    <2>2. UNCHANGED <<row, stack, profiles, newest, misplaced>>
        BY <1>6 DEF ReadRows
    <2>3. [at |-> "read", row |-> row] \in Gets
        BY <1>l DEF Gets
    <2>4. /\ gets' \in [1..MaxGets -> Gets] /\ g \in 1..MaxGets
          /\ gets'[g].at = "read" /\ gets'[g].row = row
          /\ \A k \in 1..MaxGets : k = g \/ gets'[k] = gets[k]
        BY <1>l, <2>1, <2>3
    <2>5. Awaited'
        BY <2>2, <2>4 DEF Awaited
    <2>6. \A k \in 1..MaxGets : gets'[k].at = "read" =>
             /\ gets'[k].row \in SavedRow /\ gets'[k].row.n <= row.n
             /\ gets'[k].row.n = row.n => gets'[k].row = row
        BY <1>l, <1>n, <2>4
    <2> QED
        <3>1. /\ row' \in SavedRow /\ profiles' \in SavedRow /\ newest' \in Nat /\ stack' \in Stacks
              /\ profiles'.n <= newest' /\ newest' <= row'.n
              /\ profiles'.n = row'.n => profiles' = row'
              /\ stack' = <<>> => misplaced'
            BY <1>s, <1>l, <2>2
        <3>2. \A k \in 1..MaxGets : gets'[k].at = "read" =>
                 /\ gets'[k].row \in SavedRow /\ gets'[k].row.n <= row'.n
                 /\ gets'[k].row.n = row'.n => gets'[k].row = row'
            BY <2>2, <2>6
        <3> QED
            BY <2>4, <2>5, <3>1, <3>2 DEF ListInv
<1>7. CASE Loaded
    <2>1. PICK g \in DOMAIN gets :
              /\ gets[g].at = "read" /\ gets' = [gets EXCEPT ![g] = NoGet] /\ profiles' = gets[g].row
        BY <1>7 DEF Loaded
    <2>2. /\ UNCHANGED <<row, stack, refresh, saves, reverted, misplaced>>
          /\ newest' = IF profiles'.n > newest THEN profiles'.n ELSE newest
        BY <1>7 DEF Loaded, callVars
    <2>3. /\ gets[g].row \in SavedRow /\ gets[g].row.n \in Nat /\ gets[g].row.n <= row.n
          /\ gets[g].row.n = row.n => gets[g].row = row
        BY <1>l, <2>1 DEF SavedRow
    <2>4. NoGet \in Gets /\ NoGet.at = "idle"
        BY DEF NoGet, Gets
    <2>5. /\ gets' \in [1..MaxGets -> Gets] /\ g \in 1..MaxGets /\ gets'[g].at = "idle"
          /\ \A k \in 1..MaxGets : k = g \/ gets'[k] = gets[k]
        BY <1>l, <2>1, <2>4
    <2>6. newest' \in Nat /\ profiles'.n <= newest' /\ newest' <= row.n /\ newest <= newest'
        BY <1>l, <1>n, <2>1, <2>2, <2>3
    <2>7. newest' < row.n => Awaited'
        <3>1. newest' < row.n => Awaited /\ gets[g].row.n # row.n
            BY <1>l, <1>n, <2>1, <2>3, <2>6
        <3> QED
            BY <2>1, <2>2, <2>5, <3>1 DEF Awaited
    <2>8. \A k \in 1..MaxGets : gets'[k].at = "read" =>
             /\ gets'[k].row \in SavedRow /\ gets'[k].row.n <= row.n
             /\ gets'[k].row.n = row.n => gets'[k].row = row
        BY <1>l, <2>5
    <2> QED
        <3>1. /\ row' \in SavedRow /\ profiles' \in SavedRow /\ newest' \in Nat /\ stack' \in Stacks
              /\ profiles'.n <= newest' /\ newest' <= row'.n
              /\ profiles'.n = row'.n => profiles' = row'
              /\ stack' = <<>> => misplaced'
            BY <1>s, <1>l, <2>1, <2>2, <2>3, <2>6
        <3>2. \A k \in 1..MaxGets : gets'[k].at = "read" =>
                 /\ gets'[k].row \in SavedRow /\ gets'[k].row.n <= row'.n
                 /\ gets'[k].row.n = row'.n => gets'[k].row = row'
            BY <2>2, <2>8
        <3>3. newest' < row'.n => Awaited'
            BY <2>2, <2>7
        <3> QED
            BY <2>5, <3>1, <3>2, <3>3 DEF ListInv
<1>8. CASE Reload
    <2>1. AskProfiles /\ UNCHANGED <<row, stack>> /\ Top = "list"
        BY <1>8 DEF Reload, Load, Tiles
    <2>2. stack # <<>>
        BY <1>s, <2>1, Routes
    <2> QED
        BY <1>s, <2>1, <2>2, ListAsked
<1>9. CASE RefreshTap \/ RefreshFails
    <2>1. /\ refresh # "written" /\ UNCHANGED <<row, stack, profiles, gets, newest, saves, reverted, misplaced>>
        BY <1>9 DEF RefreshTap, RefreshFails, callVars
    <2> QED
        BY <1>s, <1>l, <2>1, AwaitedKept, ListKept
<1>10. CASE RefreshWrites
    <2>1. PICK t \in Upstream : Write(t, t)
        BY <1>10 DEF RefreshWrites
    <2>2. refresh' = "written" /\ UNCHANGED <<stack, profiles, gets, newest, misplaced>>
        BY <1>10 DEF RefreshWrites
    <2>3. Awaited'
        BY <2>2 DEF Awaited
    <2>4. t \in Texts
        BY <1>u, <2>1
    <2> QED
        BY <1>s, <2>1, <2>2, <2>3, <2>4, RowWritten
<1>11. CASE RefreshReturns
    <2>1. UNCHANGED <<row, stack, saves>>
        BY <1>11 DEF RefreshReturns, callVars
    <2>2. CASE stack = <<>>
        <3>1. UNCHANGED <<profiles, gets, newest, reverted, misplaced>> /\ misplaced
            BY <1>l, <1>11, <2>2 DEF RefreshReturns
        <3>2. Awaited'
            BY <3>1 DEF Awaited
        <3> QED
            BY <1>s, <2>1, <3>1, <3>2, ListKept
    <2>3. CASE stack # <<>>
        <3>1. AskProfiles
            BY <1>11, <2>3 DEF RefreshReturns
        <3> QED
            BY <1>s, <2>1, <2>3, <3>1, ListAsked
    <2> QED
        BY <2>2, <2>3
<1>12. CASE Type \/ SetText
    <2>1. /\ UNCHANGED <<row, stack, listVars, reverted, misplaced>>
          /\ saves' = [s \in DOMAIN saves |-> [saves[s] EXCEPT !.calm = FALSE]]
        BY <1>12 DEF Type, SetText
    <2>2. \A s \in 1..MaxSaves : saves'[s].at = saves[s].at
        <3> SUFFICES ASSUME NEW s \in 1..MaxSaves PROVE saves'[s].at = saves[s].at
            OBVIOUS
        <3>1. saves'[s] = [saves[s] EXCEPT !.calm = FALSE] /\ saves[s] \in Saves
            BY <1>s, <2>1
        <3> QED
            BY <3>1 DEF Saves
    <2> QED
        BY <1>1, <2>1, <2>2
<1>13. CASE TakeChange \/ Validate \/ Reverted \/ RevertReads \/ RevertGone
    BY <1>1, <1>13 DEF TakeChange, Validate, Reverted, RevertReads, RevertGone, callVars
<1>14. CASE Save \/ GetText
    <2>1. /\ UNCHANGED <<row, stack, listVars, reverted, misplaced>>
          /\ \E s \in DOMAIN saves : /\ saves[s].at # "written"
                                     /\ \A k \in DOMAIN saves : k = s \/ saves'[k] = saves[k]
        BY <1>s, <1>14 DEF Save, GetText
    <2> QED
        BY <1>1, <1>s, <2>1
<1>15. CASE WriteYaml
    <2>1. PICK s \in DOMAIN saves :
              /\ saves[s].at = "write" /\ saves' = [saves EXCEPT ![s].at = "written"]
              /\ Write(saves[s].text, row.backup)
        BY <1>15 DEF WriteYaml
    <2>2. UNCHANGED <<stack, profiles, newest, gets, misplaced>>
        BY <1>15 DEF WriteYaml, listVars
    <2>3. s \in 1..MaxSaves /\ saves[s] \in Saves /\ saves[s].text \in Texts
        BY <1>s, <2>1 DEF SaveInv
    <2>4. [saves[s] EXCEPT !.at = "written"].at = "written"
        BY <2>3 DEF Saves
    <2>5. saves'[s].at = "written"
        BY <1>s, <2>1, <2>3, <2>4
    <2>6. Awaited'
        BY <2>3, <2>5 DEF Awaited
    <2>7. PICK t \in Texts, b \in Texts : Write(t, b)
        BY <1>n, <2>1, <2>3
    <2> QED
        BY <1>s, <2>2, <2>6, <2>7, RowWritten
<1>16. CASE RevertRow
    <2>1. Write(row.backup, row.backup) /\ reverted' = TRUE
        BY <1>16 DEF RevertRow
    <2>2. UNCHANGED <<stack, profiles, newest, gets, misplaced>>
        BY <1>16 DEF RevertRow, listVars
    <2>3. Awaited'
        BY <2>1 DEF Awaited
    <2>4. PICK b \in Texts : Write(b, b)
        BY <1>n, <2>1
    <2> QED
        BY <1>s, <2>2, <2>3, <2>4, RowWritten
<1> QED
    BY <1>3, <1>4, <1>5, <1>6, <1>7, <1>8, <1>9, <1>10, <1>11, <1>12, <1>13, <1>14, <1>15, <1>16
    DEF EditorNext

LEMMA EditorBegins == EditorInit => EditorInv
<1> SUFFICES ASSUME EditorInit PROVE EditorInv
    OBVIOUS
<1>1. PICK t \in Upstream : row = [yaml |-> t, backup |-> t, n |-> 0]
    BY DEF EditorInit
<1>2. t \in Texts
    BY <1>1, EditorAssumption
<1>3. row \in SavedRow /\ row.n = 0
    BY <1>1, <1>2 DEF SavedRow
<1>4. /\ stack = <<"list">> /\ profiles = row /\ newest = 0
      /\ gets = [g \in 1..MaxGets |-> NoGet]
      /\ native = "none" /\ inbox = <<>> /\ debounce = "none" /\ validated = "none"
      /\ currentText = "none"
      /\ saves = [s \in 1..MaxSaves |-> NoSave] /\ revert = NoRevert
    BY DEF EditorInit
<1>5. stack \in Stacks /\ stack # <<>> /\ ~EditorOpen
    BY <1>4 DEF Stacks, EditorOpen
<1>6. NoGet \in Gets /\ NoGet.at = "idle"
    BY DEF NoGet, Gets
<1>7. ListInv
    <2>1. gets \in [1..MaxGets -> Gets] /\ \A g \in 1..MaxGets : gets[g].at # "read"
        BY <1>4, <1>6
    <2> QED
        BY <1>3, <1>4, <1>5, <2>1 DEF ListInv
<1>8. TextInv
    <2>1. Len(inbox) = 0 /\ inbox \in Seq(Message)
        BY <1>4
    <2>2. Chain(currentText, inbox, native)
        BY <1>4, <2>1 DEF Chain
    <2> QED
        BY <1>4, <1>5, <2>1, <2>2 DEF TextInv
<1>9. CallsInv
    <2>1. SaveInv(NoSave)
        BY CallShapes DEF SaveInv
    <2>2. \A s \in 1..MaxSaves : saves[s] = NoSave
        BY <1>4
    <2>3. saves \in [1..MaxSaves -> Saves]
        BY <1>4, CallShapes
    <2>4. revert \in Reverts /\ revert.at = "idle"
        BY <1>4, CallShapes
    <2>5. \A s \in 1..MaxSaves : SaveInv(saves[s])
        BY <2>1, <2>2
    <2> QED
        BY <2>3, <2>4, <2>5 DEF CallsInv
<1> QED
    BY <1>7, <1>8, <1>9 DEF EditorInv

LEMMA EditorInvariance == CallsSpec => []EditorInv
<1>1. CallsInit => EditorInv
    BY EditorBegins DEF CallsInit
<1>2. EditorInv /\ [CallsNext]_methodVars => EditorInv'
    <2> SUFFICES ASSUME EditorInv, [CallsNext]_methodVars PROVE EditorInv'
        OBVIOUS
    <2>1. CASE EditorNext
        BY <2>1, TextStep, CallsStep, ListStep DEF EditorInv
    <2>2. CASE UNCHANGED editorVars
        BY <2>2 DEF EditorInv, TextInv, CallsInv, ListInv, Chain, SaveInv, Awaited, Calm, EditorOpen,
           editorVars, listVars, textVars, callVars
    <2> QED
        BY <2>1, <2>2 DEF CallsNext, Only, methodVars
<1> QED
    BY <1>1, <1>2, PTL DEF CallsSpec

\* A save is enabled by the text that was validated last and stores the one of the
\* native editor when it asks for it: for a user who paused before it these are the
\* same, and YAML, however typing, timers, reverts, dialogs and other saves came in
\* between (_save, _onTextChanged, _validate, _revert).
THEOREM PausedSavesAreValid == CallsSpec => []CalmSavesAreValid
<1>1. EditorInv => CalmSavesAreValid
    BY DEF EditorInv, CallsInv, SaveInv, CalmSavesAreValid
<1> QED
    BY <1>1, EditorInvariance, PTL

\* Once every call has been answered the list shows what is stored, unless the row was
\* reverted, a save popped a route that was not its editor, or an older answer came
\* last (_load, _editYaml, the refreshes).
THEOREM ListIsCurrent == CallsSpec => []ListShowsRow
<1>1. EditorInv => ListShowsRow
    <2> SUFFICES ASSUME EditorInv, Resting, ~reverted, ~misplaced, profiles.n = newest
                 PROVE  stack # <<>> /\ profiles = row
        BY DEF ListShowsRow
    <2>1. /\ gets \in [1..MaxGets -> Gets] /\ saves \in [1..MaxSaves -> Saves]
          /\ newest \in Nat /\ row.n \in Nat /\ newest <= row.n
          /\ profiles.n = row.n => profiles = row
          /\ stack = <<>> => misplaced
          /\ newest < row.n => Awaited
        BY DEF EditorInv, ListInv, CallsInv, SavedRow
    <2>2. ~Awaited
        BY <2>1 DEF Resting, Awaited, NoGet
    <2> QED
        BY <2>1, <2>2
<1> QED
    BY <1>1, EditorInvariance, PTL
===============================================================================
