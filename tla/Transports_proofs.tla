--------------------------- MODULE Transports_proofs ---------------------------
(***************************************************************************)
(* Proofs about the transports: the dialling of a WebSocket                *)
(* (V2rayPlugin), the fake ClientHello (ClientHello) and what they come to *)
(* for the specification that the run checks (TransportSpec).              *)
(***************************************************************************)
EXTENDS Transports, Obfs_proofs

-----------------------------------------------------------------------------
(* The lengths of the fake ClientHello: each sum stays below 65536, so that
   reducing it to sixteen bits changes nothing. *)

\* What fits in sixteen bits is written as it is (as u16).
LEMMA U16Fits == \A n \in Nat : n < 65536 => U16(n) = n
BY SMT DEF U16

\* A first write takes no more than a chunk, and no more than there is.
LEMMA FirstTakeFits ==
    ASSUME NEW n \in WriteSizes
    PROVE  FirstTake(n) \in 0..ChunkSize /\ FirstTake(n) <= n
BY HelloAssumption, SMT DEF FirstTake

\* build_client_hello announces what it writes, for all sizes in the bounds.
LEMMA BuildAnnounces ==
    ASSUME NEW d \in 0..ChunkSize, NEW s \in HostLengths
    PROVE  Announces(BuildHello(d, s), s)
<1>1. /\ d \in Nat /\ s \in Nat /\ d < 65324 /\ s < 65324
      /\ 212 + d + s < 65536
    BY HelloAssumption
<1>2. U16(d) = d /\ U16(s) = s
    BY <1>1, U16Fits
<1>3. /\ U16(U16(212 + U16(d)) + U16(s)) = 212 + d + s
      /\ U16(U16(208 + U16(d)) + U16(s)) = 208 + d + s
      /\ U16(U16(79 + U16(d)) + U16(s)) = 79 + d + s
      /\ U16(U16(s) + 5) = s + 5 /\ U16(U16(s) + 3) = s + 3
    BY <1>1, <1>2, U16Fits
<1>4. BuildHello(d, s) =
        [record |-> 212 + d + s, handshake |-> 208 + d + s, ext |-> 79 + d + s,
         ticket |-> d, sni |-> s + 5, list |-> s + 3, name |-> s, data |-> d]
    BY <1>2, <1>3 DEF BuildHello
<1> QED
    BY <1>1, <1>4 DEF Announces, Handshake, ClientHello, Extensions, SessionTicket,
        ServerName, OtherExtensions, Parameters

HelloInv == HelloTypeOK /\ HelloFits

\* Whatever the first write and the name, every length in the ClientHello
\* announces the bytes behind it (build_client_hello).
THEOREM HelloAlwaysFits == HelloSpec => []HelloFits
<1>1. HelloInit => HelloInv
    BY DEF HelloInit, HelloInv, HelloTypeOK, HelloFits
<1>2. HelloInv /\ [HelloNext]_helloVars => HelloInv'
    <2> SUFFICES ASSUME HelloInv, [HelloNext]_helloVars PROVE HelloInv'
        OBVIOUS
    <2>1. CASE FirstWrite
        <3>1. hello' = BuildHello(FirstTake(offered), server_len)
              /\ offered' = offered /\ server_len' = server_len
            BY <2>1 DEF FirstWrite
        <3>2. FirstTake(offered) \in 0..ChunkSize
            BY FirstTakeFits DEF HelloInv, HelloTypeOK
        <3>3. Announces(hello', server_len')
            BY <3>1, <3>2, BuildAnnounces DEF HelloInv, HelloTypeOK
        <3>4. hello'.data = FirstTake(offered)
            BY <3>1 DEF BuildHello
        <3> QED
            BY <3>1, <3>2, <3>3, <3>4 DEF HelloInv, HelloTypeOK, HelloFits
    <2>2. CASE UNCHANGED helloVars
        BY <2>2 DEF HelloInv, HelloTypeOK, HelloFits, Announces, helloVars
    <2> QED
        BY <2>1, <2>2 DEF HelloNext
<1>3. HelloInv => HelloFits
    BY DEF HelloInv
<1> QED
    BY <1>1, <1>2, <1>3, PTL DEF HelloSpec

-----------------------------------------------------------------------------
(* The options of the plugin and the dialling. *)

\* Where parse_opts has met a key so far, and the last value it was given.
ReadPlaces(key) == {i \in 1..(next - 1) : opts[i].key = key}
ReadValue(key, default) ==
    IF ReadPlaces(key) = {} THEN default ELSE opts[Max(ReadPlaces(key))].value

\* The configuration is what the options read so far say, each key by its last
\* value, and none of them asked for another mode.
ParseInv ==
    /\ opts \in Seq(Opts) /\ next \in 1..(Len(opts) + 1)
    /\ cfg = [tls |-> ReadValue("tls", FALSE), host |-> ReadValue("host", ""),
              path |-> ReadValue("path", "/"),
              headers |-> {opts[i].value : i \in ReadPlaces("header")},
              skip |-> ReadValue("skip-cert-verify", FALSE)]
    /\ at = "mode refused" => next <= Len(opts) /\ Option.key = "mode" /\ Option.value # "ws"
    /\ at \notin {"parsing", "mode refused"} => next = Len(opts) + 1

Secured == {"secured", "bad request", "asked", "upgrade refused", "open"}
Asked   == {"asked", "upgrade refused", "open"}

\* How far the dialling is tells what was agreed on the way there.
DialInv ==
    /\ at \in {"parsing", "dialling", "tcp"} => sni = ""
    /\ at \in Secured =>
          /\ sni = IF cfg.tls THEN HostHeader(cfg) ELSE ""
          /\ cfg.tls => (checked <=> ~cfg.skip) /\ Accepts(cfg, HostHeader(cfg))
    /\ at \in Asked =>
          request = [host |-> HostHeader(cfg), path |-> UriPath(cfg), headers |-> cfg.headers]
    /\ at = "no server name" => cfg.tls /\ HostHeader(cfg) \notin SniNames
    /\ at = "tls failed" => cfg.tls /\ ~Accepts(cfg, HostHeader(cfg))
    /\ at = "bad request" =>
          HostHeader(cfg) \notin Authorities \/ cfg.headers \cap BadHeaders # {}
    /\ at = "open" => Site \in Sites
    /\ at = "upgrade refused" => Site \notin Sites

PluginInv == ParseInv /\ DialInv

\* The largest of a set of numbers, when it is known which one that is.
LEMMA MaxIs ==
    ASSUME NEW S, NEW n \in S, n \in Nat, \A m \in S : m \in Nat /\ m <= n
    PROVE  Max(S) = n
<1>1. \A y \in S : n >= y
    OBVIOUS
<1>2. \A x \in S : (\A y \in S : x >= y) => x = n
    OBVIOUS
<1> QED
    BY <1>1, <1>2 DEF Max

\* Reading one more option gives its key its value and leaves the others theirs.
LEMMA ReadStep ==
    ASSUME opts \in Seq(Opts), next \in 1..Len(opts), UNCHANGED opts, next' = next + 1,
           NEW key, NEW default
    PROVE  /\ ReadPlaces(key)' =
                 IF Option.key = key THEN ReadPlaces(key) \cup {next} ELSE ReadPlaces(key)
           /\ ReadValue(key, default)' =
                 IF Option.key = key THEN Option.value ELSE ReadValue(key, default)
<1>1. ReadPlaces(key)' =
          IF Option.key = key THEN ReadPlaces(key) \cup {next} ELSE ReadPlaces(key)
    BY SMT DEF ReadPlaces, Option
<1>2. CASE Option.key = key
    <2>1. /\ next \in ReadPlaces(key)'
          /\ \A m \in ReadPlaces(key)' : m \in Nat /\ m <= next
        BY <1>1, <1>2, SMT DEF ReadPlaces
    <2>2. Max(ReadPlaces(key)') = next
        BY <2>1, MaxIs
    <2> QED
        BY <1>1, <1>2, <2>1, <2>2 DEF ReadValue, Option
<1>3. CASE Option.key # key
    BY <1>1, <1>3 DEF ReadValue
<1> QED
    BY <1>1, <1>2, <1>3

\* When all is read, the values read are those of the string.
LEMMA ReadAll ==
    ASSUME opts \in Seq(Opts), next = Len(opts) + 1, NEW key, NEW default
    PROVE  ReadPlaces(key) = Places(key) /\ ReadValue(key, default) = Given(key, default)
<1>1. ReadPlaces(key) = Places(key)
    BY SMT DEF ReadPlaces, Places
<1> QED
    BY <1>1 DEF ReadValue, Given

LEMMA PluginInitInv == PluginInit => PluginInv
<1> SUFFICES ASSUME PluginInit PROVE PluginInv
    OBVIOUS
<1>0. cfg = Default /\ at = "parsing" /\ sni = ""
    BY Zenon DEF PluginInit
<1>9. next = 1
    BY Zenon DEF PluginInit
<1>1. opts \in Seq(Opts)
    <2>1. PICK n \in 0..MaxOpts : opts \in [1..n -> Opts]
        BY Zenon DEF PluginInit
    <2>2. n \in Nat
        BY <2>1
    <2> QED
        BY <2>1, <2>2, SeqDef
<1>2. ASSUME NEW key PROVE ReadPlaces(key) = {}
    BY <1>9 DEF ReadPlaces
<1>3. /\ ReadValue("tls", FALSE) = FALSE /\ ReadValue("host", "") = ""
      /\ ReadValue("path", "/") = "/" /\ ReadValue("skip-cert-verify", FALSE) = FALSE
      /\ {opts[i].value : i \in ReadPlaces("header")} = {}
    BY <1>2 DEF ReadValue
<1>4. ParseInv
    <2>1. next \in 1..(Len(opts) + 1)
        BY <1>9, <1>1
    <2>2. cfg = [tls |-> ReadValue("tls", FALSE), host |-> ReadValue("host", ""),
                 path |-> ReadValue("path", "/"),
                 headers |-> {opts[i].value : i \in ReadPlaces("header")},
                 skip |-> ReadValue("skip-cert-verify", FALSE)]
        BY <1>0, <1>3, Zenon DEF Default
    <2> QED
        BY <1>0, <1>1, <2>1, <2>2, Zenon DEF ParseInv
<1>5. DialInv
    BY <1>0 DEF DialInv, Secured, Asked
<1> QED
    BY <1>4, <1>5 DEF PluginInv

LEMMA ParseOptionInv == PluginInv /\ ParseOption => PluginInv'
<1> SUFFICES ASSUME PluginInv, ParseOption PROVE PluginInv'
    OBVIOUS
<1>1. /\ opts \in Seq(Opts) /\ next \in 1..Len(opts)
    <2>1. opts \in Seq(Opts) /\ next \in 1..(Len(opts) + 1) /\ next <= Len(opts)
        BY Zenon DEF PluginInv, ParseInv, ParseOption
    <2> QED
        BY <2>1
<1>2. UNCHANGED <<opts, sni, checked, request>> /\ at = "parsing"
    BY DEF ParseOption
<1>3. CASE Option.key = "mode" /\ Option.value # "ws"
    <2>1. at' = "mode refused" /\ next' = next /\ cfg' = cfg
        BY <1>3 DEF ParseOption
    <2>2. /\ \A key : ReadPlaces(key)' = ReadPlaces(key)
          /\ \A key, default : ReadValue(key, default)' = ReadValue(key, default)
        BY <1>2, <2>1 DEF ReadPlaces, ReadValue
    <2>3. Option' = Option
        BY <1>2, <2>1 DEF Option
    <2>4. ParseInv'
        <3>1. next <= Len(opts)
            BY <1>1
        <3>2. {opts[i].value : i \in ReadPlaces("header")}'
                  = {opts[i].value : i \in ReadPlaces("header")}
            BY <1>2, <2>2
        <3> QED
            BY <1>1, <1>2, <1>3, <2>1, <2>2, <2>3, <3>1, <3>2, Zenon DEF PluginInv, ParseInv
    <2>5. DialInv'
        BY <1>2, <2>1 DEF PluginInv, DialInv, Secured, Asked
    <2> QED
        BY <2>4, <2>5 DEF PluginInv
<1>4. CASE ~(Option.key = "mode" /\ Option.value # "ws")
    <2>1. at' = at /\ next' = next + 1 /\ cfg' = Apply(cfg, Option)
        BY <1>4 DEF ParseOption
    <2> DEFINE Tls1 == ReadValue("tls", FALSE)'
               Host1 == ReadValue("host", "")'
               Path1 == ReadValue("path", "/")'
               Skip1 == ReadValue("skip-cert-verify", FALSE)'
               Headers1 == {opts[i].value : i \in ReadPlaces("header")}'
    <2>2. /\ Tls1 = IF Option.key = "tls" THEN Option.value ELSE ReadValue("tls", FALSE)
          /\ Host1 = IF Option.key = "host" THEN Option.value ELSE ReadValue("host", "")
          /\ Path1 = IF Option.key = "path" THEN Option.value ELSE ReadValue("path", "/")
          /\ Skip1 = IF Option.key = "skip-cert-verify" THEN Option.value
                     ELSE ReadValue("skip-cert-verify", FALSE)
        BY <1>1, <1>2, <2>1, ReadStep
    <2>3. Headers1 = IF Option.key = "header"
                     THEN {opts[i].value : i \in ReadPlaces("header")} \cup {Option.value}
                     ELSE {opts[i].value : i \in ReadPlaces("header")}
        <3>1. ReadPlaces("header")' = IF Option.key = "header"
                                      THEN ReadPlaces("header") \cup {next}
                                      ELSE ReadPlaces("header")
            BY <1>1, <1>2, <2>1, ReadStep
        <3> QED
            BY <1>2, <3>1 DEF Option
    <2>4. cfg = [tls |-> ReadValue("tls", FALSE), host |-> ReadValue("host", ""),
                 path |-> ReadValue("path", "/"),
                 headers |-> {opts[i].value : i \in ReadPlaces("header")},
                 skip |-> ReadValue("skip-cert-verify", FALSE)]
        BY Zenon DEF PluginInv, ParseInv
    <2>5. Apply(cfg, Option) = [tls |-> Tls1, host |-> Host1, path |-> Path1,
                                headers |-> Headers1, skip |-> Skip1]
        <3> HIDE DEF Tls1, Host1, Path1, Headers1, Skip1
        <3> QED
            BY <2>2, <2>3, <2>4 DEF Apply
    <2>6. next' \in 1..(Len(opts) + 1)
        BY <1>1, <2>1
    <2>7. ParseInv'
        BY <1>1, <1>2, <2>1, <2>5, <2>6, Zenon DEF ParseInv
    <2>8. DialInv'
        BY <1>2, <2>1 DEF PluginInv, DialInv, Secured, Asked
    <2> QED
        BY <2>7, <2>8 DEF PluginInv
<1> QED
    BY <1>3, <1>4

\* The dialling leaves the configuration alone.
LEMMA ParsedStays ==
    ASSUME ParseInv, UNCHANGED <<opts, next, cfg>>, next = Len(opts) + 1, at' # "mode refused"
    PROVE  ParseInv'
<1>1. /\ ReadValue("tls", FALSE)' = ReadValue("tls", FALSE)
      /\ ReadValue("host", "")' = ReadValue("host", "")
      /\ ReadValue("path", "/")' = ReadValue("path", "/")
      /\ ReadValue("skip-cert-verify", FALSE)' = ReadValue("skip-cert-verify", FALSE)
      /\ {opts[i].value : i \in ReadPlaces("header")}'
             = {opts[i].value : i \in ReadPlaces("header")}
    BY DEF ReadValue, ReadPlaces
<1> QED
    BY <1>1, Zenon DEF ParseInv

\* Once the dialling has begun the string has been read.
LEMMA AllRead ==
    ASSUME ParseInv, at \notin {"parsing", "mode refused"}
    PROVE  next = Len(opts) + 1
BY Zenon DEF ParseInv

LEMMA ParseDoneInv == PluginInv /\ ParseDone => PluginInv'
<1> SUFFICES ASSUME PluginInv, ParseDone PROVE PluginInv'
    OBVIOUS
<1>1. /\ at = "parsing" /\ at' = "dialling"
      /\ UNCHANGED <<opts, next, cfg, sni, checked, request>>
    BY DEF ParseDone
<1>2. next = Len(opts) + 1
    <2>1. opts \in Seq(Opts) /\ next \in 1..(Len(opts) + 1) /\ next > Len(opts)
        BY Zenon DEF PluginInv, ParseInv, ParseDone
    <2> QED
        BY <2>1
<1>3. ParseInv'
    BY <1>1, <1>2, ParsedStays DEF PluginInv
<1>4. DialInv'
    BY <1>1 DEF PluginInv, DialInv, Secured, Asked
<1> QED
    BY <1>3, <1>4 DEF PluginInv

LEMMA ConnectInv == PluginInv /\ Connect => PluginInv'
<1> SUFFICES ASSUME PluginInv, Connect PROVE PluginInv'
    OBVIOUS
<1>1. /\ at = "dialling" /\ at' \in {"tcp", "unreachable"}
      /\ UNCHANGED <<opts, next, cfg, sni, checked, request>>
    BY DEF Connect
<1>2. ParseInv'
    BY <1>1, AllRead, ParsedStays DEF PluginInv
<1>3. DialInv'
    BY <1>1 DEF PluginInv, DialInv, Secured, Asked
<1> QED
    BY <1>2, <1>3 DEF PluginInv

LEMMA NoTlsInv == PluginInv /\ NoTls => PluginInv'
<1> SUFFICES ASSUME PluginInv, NoTls PROVE PluginInv'
    OBVIOUS
<1>1. /\ at = "tcp" /\ at' = "secured" /\ ~cfg.tls
      /\ UNCHANGED <<opts, next, cfg, sni, checked, request>>
    BY DEF NoTls
<1>2. ParseInv'
    BY <1>1, AllRead, ParsedStays DEF PluginInv
<1>3. DialInv'
    BY <1>1 DEF PluginInv, DialInv, Secured, Asked
<1> QED
    BY <1>2, <1>3 DEF PluginInv

LEMMA TlsInv == PluginInv /\ Tls => PluginInv'
<1> SUFFICES ASSUME PluginInv, Tls PROVE PluginInv'
    OBVIOUS
<1>1. at = "tcp" /\ cfg.tls /\ UNCHANGED <<opts, next, cfg, request>>
    BY DEF Tls
<1>2. CASE HostHeader(cfg) \notin SniNames
    <2>1. at' = "no server name" /\ UNCHANGED <<sni, checked>>
        BY <1>2 DEF Tls
    <2>2. ParseInv'
        BY <1>1, <2>1, AllRead, ParsedStays DEF PluginInv
    <2>3. DialInv'
        BY <1>1, <1>2, <2>1 DEF DialInv, Secured, Asked
    <2> QED
        BY <2>2, <2>3 DEF PluginInv
<1>3. CASE HostHeader(cfg) \in SniNames
    <2>1. /\ sni' = HostHeader(cfg) /\ checked' = ~cfg.skip
          /\ at' = IF Accepts(cfg, HostHeader(cfg)) THEN "secured" ELSE "tls failed"
        BY <1>3, Zenon DEF Tls
    <2>2. ParseInv'
        BY <1>1, <2>1, AllRead, ParsedStays DEF PluginInv
    <2>3. checked' <=> ~cfg.skip
        BY <2>1, Zenon
    <2>4. DialInv'
        BY <1>1, <1>3, <2>1, <2>3 DEF DialInv, Secured, Asked
    <2> QED
        BY <2>2, <2>4 DEF PluginInv
<1> QED
    BY <1>2, <1>3

LEMMA BuildRequestInv == PluginInv /\ BuildRequest => PluginInv'
<1> SUFFICES ASSUME PluginInv, BuildRequest PROVE PluginInv'
    OBVIOUS
<1>1. at = "secured" /\ UNCHANGED <<opts, next, cfg, sni, checked>>
    BY DEF BuildRequest
<1>2. at' = "bad request" \/ at' = "asked"
    BY DEF BuildRequest
<1>3. ParseInv'
    BY <1>1, <1>2, AllRead, ParsedStays DEF PluginInv
<1>4. at' = "bad request" =>
          HostHeader(cfg) \notin Authorities \/ cfg.headers \cap BadHeaders # {}
    BY DEF BuildRequest
<1>5. at' = "asked" =>
          request' = [host |-> HostHeader(cfg), path |-> UriPath(cfg), headers |-> cfg.headers]
    BY DEF BuildRequest
<1>6. DialInv'
    BY <1>1, <1>2, <1>4, <1>5 DEF PluginInv, DialInv, Secured, Asked
<1> QED
    BY <1>3, <1>6 DEF PluginInv

LEMMA UpgradeInv == PluginInv /\ Upgrade => PluginInv'
<1> SUFFICES ASSUME PluginInv, Upgrade PROVE PluginInv'
    OBVIOUS
<1>1. /\ at = "asked" /\ UNCHANGED <<opts, next, cfg, sni, checked, request>>
      /\ \/ Site \in Sites /\ at' = "open"
         \/ Site \notin Sites /\ at' = "upgrade refused"
         \/ at' = "unreachable"
    BY DEF Upgrade
<1>2. ParseInv'
    BY <1>1, AllRead, ParsedStays DEF PluginInv
<1>3. Site' = Site
    BY <1>1 DEF Site
<1>4. DialInv'
    BY <1>1, <1>3 DEF PluginInv, DialInv, Secured, Asked
<1> QED
    BY <1>2, <1>4 DEF PluginInv

LEMMA PluginStep == PluginInv /\ [PluginNext]_pluginVars => PluginInv'
<1> SUFFICES ASSUME PluginInv, [PluginNext]_pluginVars PROVE PluginInv'
    OBVIOUS
<1>1. CASE UNCHANGED pluginVars
    <2>1. /\ UNCHANGED <<opts, next, cfg, at, sni, checked, request>>
          /\ UNCHANGED <<ReadValue("tls", FALSE), ReadValue("host", ""), ReadValue("path", "/"),
                         ReadValue("skip-cert-verify", FALSE), Option, Site,
                         {opts[i].value : i \in ReadPlaces("header")}>>
        BY <1>1 DEF pluginVars, ReadValue, ReadPlaces, Option, Site
    <2>2. ParseInv'
        BY <2>1, Zenon DEF PluginInv, ParseInv
    <2>3. DialInv'
        BY <2>1, Zenon DEF PluginInv, DialInv
    <2> QED
        BY <2>2, <2>3 DEF PluginInv
<1>2. CASE PluginNext
    BY <1>2, ParseOptionInv, ParseDoneInv, ConnectInv, NoTlsInv, TlsInv, BuildRequestInv, UpgradeInv
        DEF PluginNext
<1> QED
    BY <1>1, <1>2

\* The configuration that is dialled is the one the string asks for.
LEMMA ConfigIsWanted ==
    ASSUME ParseInv, at \notin {"parsing", "mode refused"}
    PROVE  /\ HostHeader(cfg) = WantedHost
           /\ WantedPath \in Rooted => UriPath(cfg) = WantedPath
           /\ cfg.headers = {opts[i].value : i \in Places("header")}
           /\ cfg.tls <=> Given("tls", FALSE)
           /\ cfg.skip <=> Given("skip-cert-verify", FALSE)
<1>1. opts \in Seq(Opts) /\ next = Len(opts) + 1
    BY AllRead, Zenon DEF ParseInv
<1>2. \A key : ReadPlaces(key) = Places(key)
    BY <1>1, ReadAll
<1>3. \A key, default : ReadValue(key, default) = Given(key, default)
    BY <1>1, ReadAll
<1>4. cfg = [tls |-> ReadValue("tls", FALSE), host |-> ReadValue("host", ""),
             path |-> ReadValue("path", "/"),
             headers |-> {opts[i].value : i \in ReadPlaces("header")},
             skip |-> ReadValue("skip-cert-verify", FALSE)]
    BY Zenon DEF ParseInv
<1>5. /\ cfg.tls = Given("tls", FALSE) /\ cfg.skip = Given("skip-cert-verify", FALSE)
      /\ cfg.host = Given("host", "") /\ cfg.path = Given("path", "/")
      /\ cfg.headers = {opts[i].value : i \in ReadPlaces("header")}
    BY <1>3, <1>4
<1>6. cfg.headers = {opts[i].value : i \in Places("header")}
    BY <1>2, <1>5
<1>7. HostHeader(cfg) = WantedHost
    BY <1>5 DEF HostHeader, WantedHost
<1>8. ASSUME WantedPath \in Rooted PROVE UriPath(cfg) = WantedPath
    <2>1. CASE Places("path") = {}
        BY <1>5, <2>1 DEF UriPath, WantedPath, Given
    <2>2. CASE Places("path") # {}
        <3>1. Given("path", "/") = Given("path", "")
            BY <2>2 DEF Given
        <3>2. "" \notin Rooted
            BY PluginAssumption, Zenon DEF PluginAssumption
        <3> QED
            BY <1>5, <1>8, <3>1, <3>2 DEF UriPath, WantedPath
    <2> QED
        BY <2>1, <2>2
<1>9. (cfg.tls <=> Given("tls", FALSE)) /\ (cfg.skip <=> Given("skip-cert-verify", FALSE))
    BY <1>5, Zenon
<1> QED
    BY <1>6, <1>7, <1>8, <1>9

LEMMA OpensAsAsked == PluginInv => OpensWhatWasAsked
<1> SUFFICES ASSUME PluginInv, at = "open" PROVE
        /\ request.host = WantedHost
        /\ WantedPath \in Rooted => request.path = WantedPath
        /\ request.headers = {opts[i].value : i \in Places("header")}
        /\ sni = IF Given("tls", FALSE) THEN WantedHost ELSE ""
        /\ Given("tls", FALSE) /\ ~Given("skip-cert-verify", FALSE)
               => checked /\ WantedHost \in Certified
    BY DEF OpensWhatWasAsked, Places
<1>1. /\ HostHeader(cfg) = WantedHost
      /\ WantedPath \in Rooted => UriPath(cfg) = WantedPath
      /\ cfg.headers = {opts[i].value : i \in Places("header")}
      /\ cfg.tls <=> Given("tls", FALSE)
      /\ cfg.skip <=> Given("skip-cert-verify", FALSE)
    BY ConfigIsWanted DEF PluginInv
<1>2. request = [host |-> HostHeader(cfg), path |-> UriPath(cfg), headers |-> cfg.headers]
    BY DEF PluginInv, DialInv, Asked
<1>3. /\ sni = IF cfg.tls THEN HostHeader(cfg) ELSE ""
      /\ cfg.tls => (checked <=> ~cfg.skip) /\ Accepts(cfg, HostHeader(cfg))
    BY DEF PluginInv, DialInv, Secured
<1>4. cfg.tls /\ ~cfg.skip => checked /\ HostHeader(cfg) \in Certified
    BY <1>3, Zenon DEF Accepts
<1> QED
    BY <1>1, <1>2, <1>3, <1>4

LEMMA IsOption ==
    ASSUME opts \in Seq(Opts), next \in 1..(Len(opts) + 1), next <= Len(opts)
    PROVE  next \in DOMAIN opts
OBVIOUS

LEMMA RefusesForAReason == PluginInv => RefusedForAReason
<1> SUFFICES ASSUME PluginInv,
        at \in {"mode refused", "no server name", "tls failed", "bad request", "upgrade refused"}
    PROVE
        \/ Inexpressible
        \/ [host |-> WantedHost, path |-> WantedPath] \notin Sites
        \/ Given("tls", FALSE) /\ ~Given("skip-cert-verify", FALSE) /\ WantedHost \notin Certified
        \/ \E i \in DOMAIN opts : \/ opts[i].key = "mode" /\ opts[i].value # "ws"
                                  \/ opts[i].key = "header" /\ opts[i].value \in BadHeaders
    BY Zenon DEF RefusedForAReason
<1>1. CASE at = "mode refused"
    <2>1. opts \in Seq(Opts) /\ next \in 1..(Len(opts) + 1) /\ next <= Len(opts)
        BY <1>1, Zenon DEF PluginInv, ParseInv
    <2>2. Option.key = "mode" /\ Option.value # "ws"
        BY <1>1, Zenon DEF PluginInv, ParseInv
    <2>3. next \in DOMAIN opts
        BY <2>1, IsOption
    <2> QED
        BY <2>2, <2>3 DEF Option
<1>2. CASE at # "mode refused"
    <2>1. /\ HostHeader(cfg) = WantedHost
          /\ WantedPath \in Rooted => UriPath(cfg) = WantedPath
          /\ cfg.headers = {opts[i].value : i \in Places("header")}
          /\ cfg.tls <=> Given("tls", FALSE)
          /\ cfg.skip <=> Given("skip-cert-verify", FALSE)
        BY <1>2, ConfigIsWanted DEF PluginInv
    <2>2. CASE at = "no server name"
        <3>1. cfg.tls /\ HostHeader(cfg) \notin SniNames
            BY <2>2, Zenon DEF PluginInv, DialInv
        <3> QED
            BY <2>1, <3>1, Zenon DEF Inexpressible
    <2>3. CASE at = "tls failed"
        <3>1. cfg.tls /\ ~cfg.skip /\ HostHeader(cfg) \notin Certified
            BY <2>3, Zenon DEF PluginInv, DialInv, Accepts
        <3> QED
            BY <2>1, <3>1, Zenon
    <2>4. CASE at = "bad request"
        <3>1. HostHeader(cfg) \notin Authorities \/ cfg.headers \cap BadHeaders # {}
            BY <2>4, Zenon DEF PluginInv, DialInv
        <3>2. CASE HostHeader(cfg) \notin Authorities
            BY <2>1, <3>2, Zenon DEF Inexpressible
        <3>3. CASE cfg.headers \cap BadHeaders # {}
            <4>1. \E i \in DOMAIN opts : opts[i].key = "header" /\ opts[i].value \in BadHeaders
                BY <2>1, <3>3 DEF Places
            <4> QED
                BY <4>1
        <3> QED
            BY <3>1, <3>2, <3>3
    <2>5. CASE at = "upgrade refused"
        <3>1. request = [host |-> HostHeader(cfg), path |-> UriPath(cfg), headers |-> cfg.headers]
            BY <2>5 DEF PluginInv, DialInv, Asked
        <3>2. Site \notin Sites
            BY <2>5, Zenon DEF PluginInv, DialInv
        <3>3. WantedPath \in Rooted => Site = [host |-> WantedHost, path |-> WantedPath]
            BY <2>1, <3>1 DEF Site
        <3> QED
            BY <3>2, <3>3, Zenon DEF Inexpressible
    <2> QED
        BY <1>2, <2>2, <2>3, <2>4, <2>5, Zenon
<1> QED
    BY <1>1, <1>2

\* What is dialled is what the options say, whatever their order, their number
\* and the names in them, and a refusal has a reason (parse_opts, dial).
THEOREM AlwaysDialsWhatWasAsked == PluginSpec => []DialsWhatWasAsked
<1>1. PluginInv => DialsWhatWasAsked
    BY OpensAsAsked, RefusesForAReason DEF DialsWhatWasAsked
<1> QED
    BY <1>1, PluginInitInv, PluginStep, PTL DEF PluginSpec

-----------------------------------------------------------------------------
(* What the run follows: one side at a time, the others standing still. *)

\* Each side of the transports is a behaviour of its own specification.
LEMMA SidesAreTheirOwn ==
    /\ TransportInit => Init /\ HelloInit /\ PluginInit
    /\ [TransportNext]_transportVars => [Next]_vars /\ [HelloNext]_helloVars /\ [PluginNext]_pluginVars
<1>1. TransportInit => Init /\ HelloInit /\ PluginInit
    BY DEF TransportInit
<1>2. ASSUME [TransportNext]_transportVars
      PROVE  [Next]_vars /\ [HelloNext]_helloVars /\ [PluginNext]_pluginVars
    <2>1. CASE Only("stream") /\ Next
        BY <2>1 DEF Only
    <2>2. CASE Only("hello") /\ HelloNext
        BY <2>2 DEF Only
    <2>3. CASE Only("dial") /\ PluginNext
        BY <2>3 DEF Only
    <2>4. CASE UNCHANGED transportVars
        BY <2>4 DEF transportVars
    <2> QED
        BY <1>2, <2>1, <2>2, <2>3, <2>4 DEF TransportNext
<1> QED
    BY <1>1, <1>2

\* Whichever side a behaviour of the composed specification follows, the streams lose and
\* reorder nothing in either direction, every announced length is the length of what it
\* announces, and what is dialled is what the options ask for.
THEOREM TransportsKeepTheirPromises ==
    TransportSpec => [](WrittenInOrder /\ ReadInOrder /\ HelloFits /\ DialsWhatWasAsked)
<1>1. TransportSpec => Init /\ [][Next]_vars
    BY SidesAreTheirOwn, PTL DEF TransportSpec
<1>2. TransportSpec => HelloSpec /\ PluginSpec
    BY SidesAreTheirOwn, PTL DEF TransportSpec, HelloSpec, PluginSpec
<1>3. TransportSpec => []WrittenInOrder
    BY <1>1, WriteStarts, WriteStep, InOrderFollows, PTL
<1>4. TransportSpec => []ReadInOrder
    BY <1>1, ReadStarts, ReaderStep, ReadInOrderFollows, PTL
<1> QED
    BY <1>2, <1>3, <1>4, HelloAlwaysFits, AlwaysDialsWhatWasAsked, PTL
===============================================================================
