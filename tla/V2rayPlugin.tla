------------------------------ MODULE V2rayPlugin -----------------------------
(***************************************************************************)
(* The way to a WsStream (v2ray_plugin.rs): parse_opts reads the options   *)
(* one after the other into a configuration, and dial opens TCP, then TLS  *)
(* if it is asked for, then the WebSocket, each of which may fail.  What   *)
(* the stream does from then on is in Obfs.                                *)
(*                                                                         *)
(* A name is a model string; what rustls and http make of it is given by   *)
(* the sets SniNames, Authorities and Paths.                               *)
(***************************************************************************)
EXTENDS Naturals, Sequences, SequencesExt

CONSTANTS
    Server,       \* server_host of the proxy
    SniNames,     \* what ServerName::try_from accepts
    Authorities,  \* what http takes for the authority of a URI
    HostValues,   \* what the options may say for host
    PathValues,   \* ... and for path; the empty one is in it
    Rooted,       \* the paths that begin with a slash
    HeaderNames,  \* the names of header options ...
    BadHeaders,   \* ... and those that http refuses
    Sites,        \* [host, path] the server answers with an upgrade
    Certified,    \* the names its certificate is good for
    MaxOpts       \* options of a string

ASSUME PluginAssumption ==
    /\ Rooted \subseteq PathValues /\ "/" \in Rooted /\ "" \in PathValues \ Rooted
    /\ "" \notin SniNames \cup Authorities
    /\ BadHeaders \subseteq HeaderNames
    /\ MaxOpts \in Nat

VARIABLES
    opts,     \* the options of the string; next is the one parse_opts is at
    next,
    cfg,      \* V2rayPluginConfig, without the mode, of which there is one
    at,       \* how far the dialling is
    sni,      \* the name TLS was made with, "" without TLS
    checked,  \* TLS took the certificate for that name
    request   \* what the server was asked for

pluginVars == <<opts, next, cfg, at, sni, checked, request>>

NoRequest == [host |-> "", path |-> "", headers |-> {}]
Default   == [tls |-> FALSE, host |-> "", path |-> "/", headers |-> {}, skip |-> FALSE]

\* A bare key has the value "true"; parse_bool of it is TRUE.
Opts ==
    [key : {"mode"}, value : {"ws", "true"}]
        \cup [key : {"tls", "skip-cert-verify"}, value : BOOLEAN]
        \cup [key : {"host"}, value : HostValues] \cup [key : {"path"}, value : PathValues]
        \cup [key : {"header"}, value : HeaderNames]
        \cup [key : {"unknown"}, value : {"true"}]

-----------------------------------------------------------------------------
(* parse_opts *)

\* The value of one option; a later one takes the place of an earlier.  mux and
\* what is unknown or malformed changes nothing.
Apply(c, o) ==
    CASE o.key = "tls"              -> [c EXCEPT !.tls = o.value]
      [] o.key = "skip-cert-verify" -> [c EXCEPT !.skip = o.value]
      [] o.key = "host"             -> [c EXCEPT !.host = o.value]
      [] o.key = "path"             -> [c EXCEPT !.path = o.value]
      [] o.key = "header"           -> [c EXCEPT !.headers = @ \cup {o.value}]
      [] OTHER                      -> c

Option == opts[next]

ParseOption ==
    /\ at = "parsing" /\ next <= Len(opts)
    /\ IF Option.key = "mode" /\ Option.value # "ws"
       THEN at' = "mode refused" /\ UNCHANGED <<next, cfg>>
       ELSE next' = next + 1 /\ cfg' = Apply(cfg, Option) /\ UNCHANGED at
    /\ UNCHANGED <<opts, sni, checked, request>>

ParseDone ==
    /\ at = "parsing" /\ next > Len(opts) /\ at' = "dialling"
    /\ UNCHANGED <<opts, next, cfg, sni, checked, request>>

-----------------------------------------------------------------------------
(* dial *)

\* Mutant: the empty host stands.
HostAsSet(c) == c.host
HostHeader(c) == IF c.host = "" THEN Server ELSE c.host

\* protected_tcp_connect.
Connect ==
    /\ at = "dialling" /\ at' \in {"tcp", "unreachable"}
    /\ UNCHANGED <<opts, next, cfg, sni, checked, request>>

NoTls ==
    /\ at = "tcp" /\ ~cfg.tls /\ at' = "secured"
    /\ UNCHANGED <<opts, next, cfg, sni, checked, request>>

\* build_tls_connector: the verifier of the built-in roots, which wants a
\* certificate for the name, or InsecureCertVerifier, which takes any.
Accepts(c, name) == c.skip \/ name \in Certified

\* connect, for a host that can be a server's name.
Tls ==
    /\ at = "tcp" /\ cfg.tls
    /\ IF HostHeader(cfg) \notin SniNames
       THEN at' = "no server name" /\ UNCHANGED <<sni, checked>>
       ELSE /\ sni' = HostHeader(cfg)
            /\ checked' = ~cfg.skip
            /\ at' = IF Accepts(cfg, HostHeader(cfg)) THEN "secured" ELSE "tls failed"
    /\ UNCHANGED <<opts, next, cfg, request>>

\* The URI is scheme://host followed by the path.  What does not begin with a
\* slash lengthens the authority, and the path asked for is "/".
UriPath(c) == IF c.path \in Rooted THEN c.path ELSE "/"

BuildRequest ==
    /\ at = "secured"
    /\ IF HostHeader(cfg) \notin Authorities \/ cfg.headers \cap BadHeaders # {}
       THEN at' = "bad request" /\ UNCHANGED request
       ELSE /\ at' = "asked"
            /\ request' = [host |-> HostHeader(cfg), path |-> UriPath(cfg), headers |-> cfg.headers]
    /\ UNCHANGED <<opts, next, cfg, sni, checked>>

Site == [host |-> request.host, path |-> request.path]

\* client_async: the server upgrades what it knows, or the connection is lost.
Upgrade ==
    /\ at = "asked"
    /\ \/ Site \in Sites /\ at' = "open"
       \/ Site \notin Sites /\ at' = "upgrade refused"
       \/ at' = "unreachable"
    /\ UNCHANGED <<opts, next, cfg, sni, checked, request>>

-----------------------------------------------------------------------------
PluginInit ==
    /\ opts \in UNION {[1..n -> Opts] : n \in 0..MaxOpts}
    /\ next = 1 /\ cfg = Default /\ at = "parsing"
    /\ sni = "" /\ checked = FALSE /\ request = NoRequest

PluginNext == ParseOption \/ ParseDone \/ Connect \/ NoTls \/ Tls \/ BuildRequest \/ Upgrade

PluginSpec == PluginInit /\ [][PluginNext]_pluginVars

PluginTypeOK ==
    /\ next \in 1..(MaxOpts + 1) /\ request.host \in HostValues \cup {Server}
    /\ request.path \in PathValues /\ request.headers \subseteq HeaderNames
    /\ cfg \in [tls : BOOLEAN, host : HostValues \cup {""}, path : PathValues,
                headers : SUBSET HeaderNames, skip : BOOLEAN]
    /\ at \in {"parsing", "mode refused", "dialling", "unreachable", "tcp", "no server name",
               "tls failed", "secured", "bad request", "asked", "upgrade refused", "open"}
    /\ sni \in SniNames \cup {""} /\ checked \in BOOLEAN

-----------------------------------------------------------------------------
(* Properties. *)

\* The last value the string gives for a key.
Places(key) == {i \in DOMAIN opts : opts[i].key = key}
Given(key, default) == IF Places(key) = {} THEN default ELSE opts[Max(Places(key))].value
WantedHost == IF Given("host", "") = "" THEN Server ELSE Given("host", "")
WantedPath == IF Given("path", "") = "" THEN "/" ELSE Given("path", "")

\* What the options cannot express: a name TLS or a URI has no place for (an
\* IPv6 address, a name with its port), and a path without its slash.
Inexpressible ==
    \/ WantedHost \notin Authorities \/ (Given("tls", FALSE) /\ WantedHost \notin SniNames)
    \/ WantedPath \notin Rooted

\* "Host header and TLS SNI. Falls back to the SS server address if not set":
\* a stream is one to the site the options name, over TLS if and only if they ask
\* for it, with a certificate for that very name unless they waive it ...
OpensWhatWasAsked ==
    at = "open" =>
        /\ request.host = WantedHost
        /\ WantedPath \in Rooted => request.path = WantedPath
        /\ request.headers = {opts[i].value : i \in {j \in DOMAIN opts : opts[j].key = "header"}}
        /\ sni = IF Given("tls", FALSE) THEN WantedHost ELSE ""
        /\ Given("tls", FALSE) /\ ~Given("skip-cert-verify", FALSE)
               => checked /\ WantedHost \in Certified

\* ... and a site that is served, and can be expressed, is refused for no other
\* reason than the network, its certificate, or an option that is wrong.
RefusedForAReason ==
    at \in {"mode refused", "no server name", "tls failed", "bad request", "upgrade refused"} =>
        \/ Inexpressible
        \/ [host |-> WantedHost, path |-> WantedPath] \notin Sites
        \/ Given("tls", FALSE) /\ ~Given("skip-cert-verify", FALSE) /\ WantedHost \notin Certified
        \/ \E i \in DOMAIN opts : \/ opts[i].key = "mode" /\ opts[i].value # "ws"
                                  \/ opts[i].key = "header" /\ opts[i].value \in BadHeaders

\* parse_opts and dial together do what the string says, however its options are
\* ordered and repeated.
DialsWhatWasAsked == OpensWhatWasAsked /\ RefusedForAReason
===============================================================================
