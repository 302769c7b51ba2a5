-------------------------------- MODULE DnsPath -------------------------------
(***************************************************************************)
(* The way of a name: an app's query is caught by the TUN reader, asked of *)
(* the DoH servers one after the other (doh_client.rs), its addresses are  *)
(* put into DNS_TABLE (dns_table.rs), the answer is sent to the app, and a *)
(* TCP connection to such an address is given to the engine by name again  *)
(* (tun2socks.rs: handle_dns_query, handle_tcp_stream).  The table and the *)
(* DoH client live as long as the process; sessions come and go.           *)
(***************************************************************************)
EXTENDS DnsWire, FiniteSets

CONSTANTS
    Hosts,             \* names, as sequences of labels
    Addrs, Ttls,
    AnswerLists(_),    \* the answers an upstream may give to a name
    MinTtl, MaxTtl,    \* 60 and 3600 seconds
    EvictionThreshold, \* 4096 entries
    Defaults,          \* IP_BASED_DOH_URLS
    UserServers,       \* what the user may set in dohServer; None is blank
    Https,             \* those that begin with https://
    None,
    MaxQueries, MaxTime, MaxSessions, MaxChanges   \* bounds

Unread == "unread"

ASSUME PathAssumption ==
    /\ MinTtl \in Nat /\ MaxTtl \in Nat /\ MinTtl <= MaxTtl
    /\ Ttls \subseteq Nat /\ EvictionThreshold \in Nat
    /\ None \notin Addrs \cup Hosts
    /\ None \notin [host : Hosts, expires_at : Nat] \cup [by : Nat, since : Nat, ttl : Nat]
    /\ None \in UserServers \ Https /\ Unread \notin UserServers
    /\ Https \subseteq UserServers \cup {Defaults[i] : i \in DOMAIN Defaults}
    /\ Defaults \in Seq(Https) /\ Defaults # <<>>

VARIABLES
    now, on, session,    \* the clock; the session under way
    dohServer,           \* the preference, and (history) how often it was set
    changes,
    prefs,               \* the copy of it the :vpn process holds, or Unread
    home,                \* HOME_DIR is set
    client,              \* doh_urls of DOH_CLIENT, <<>> while it is unset
    passedBy,            \* (history) why this process may not use dohServer
    table,               \* DNS_TABLE: address -> entry or None
    queries,             \* the tasks of handle_dns_query
    heard, last          \* (history) answers the apps hold; the last insertion
                         \* of each address

settingVars == <<dohServer, changes, prefs, home, client, passedBy>>
sessionVars == <<on, session>>
vars == <<now, sessionVars, settingVars, table, queries, heard, last>>

Ids == 1..MaxQueries
Servers == {Defaults[i] : i \in DOMAIN Defaults} \cup (UserServers \ {None})
Free == [at |-> "free"]

-----------------------------------------------------------------------------
(* Settings and sessions. *)

Tick == /\ now < MaxTime /\ now' = now + 1
        /\ UNCHANGED <<sessionVars, settingVars, table, queries, heard, last>>

\* setDohServer, in the process of the activity.
SetDohServer ==
    /\ changes < MaxChanges /\ changes' = changes + 1
    /\ dohServer' \in UserServers \ {dohServer}
    /\ passedBy' = passedBy \cup {r \in {"changed"} : prefs # Unread}
    /\ UNCHANGED <<now, sessionVars, prefs, home, client, table, queries, heard, last>>

\* buildDnsSection takes the place of the profile's dns: section, if it has one.
Nameservers(hasDns, server) == IF hasDns /\ server # None THEN <<server>> ELSE <<>>

\* push, for what begins with https:// and is not in the list yet.
PushAll(urls, entries) ==
    LET pushed[n \in 0..Len(entries)] ==
            IF n = 0 THEN urls
            ELSE IF entries[n] \in Https \ Range(pushed[n - 1])
                 THEN Append(pushed[n - 1], entries[n]) ELSE pushed[n - 1]
    IN  pushed[Len(entries)]

\* Mutant: the built-in servers come first.
DefaultsFirst(config) == PushAll(Defaults, config)

\* read_doh_urls_from_config: what the configuration names, then the rest.
DohUrls(config) == PushAll(IF home' THEN PushAll(<<>>, config) ELSE <<>>, Defaults)

\* config.yaml is in the directory it is given.
NativeSetHomeDir == home' = TRUE

\* init_doh_client, once in a process, as tun2socks starts.
InitDohClient(hasDns) ==
    /\ client' = IF client = <<>> THEN DohUrls(Nameservers(hasDns, prefs')) ELSE client
    /\ passedBy' = passedBy \cup {r \in {"plain"} : client = <<>> /\ ~hasDns}

\* MihomoInstance.start writes config.yaml from the profile of this session, and
\* from the preferences as this process read them first.  If the engine refuses
\* it, tun2socks is not started.
StartSession ==
    /\ ~on /\ session < MaxSessions /\ session' = session + 1
    /\ prefs' = IF prefs = Unread THEN dohServer ELSE prefs
    /\ NativeSetHomeDir
    /\ \/ on' = TRUE /\ \E hasDns \in BOOLEAN : InitDohClient(hasDns)
       \/ on' = FALSE /\ UNCHANGED <<client, passedBy>>
    /\ UNCHANGED <<now, dohServer, changes, table, queries, heard, last>>

\* The tasks of the queries are not among those that the end of a run aborts.
StopSession ==
    /\ on /\ on' = FALSE
    /\ UNCHANGED <<now, session, settingVars, table, queries, heard, last>>

\* The :vpn process dies, and what was static in it; apps keep their answers.
ProcessDies ==
    /\ session < MaxSessions
    /\ on' = FALSE /\ prefs' = Unread /\ home' = FALSE /\ client' = <<>> /\ passedBy' = {}
    /\ table' = [a \in Addrs |-> None]
    /\ queries' = [i \in Ids |-> IF queries[i].at = "free" THEN Free ELSE [at |-> "dead"]]
    /\ last' = [a \in Addrs |-> None]
    /\ UNCHANGED <<now, session, dohServer, changes, heard>>

-----------------------------------------------------------------------------
(* A query. *)

\* The TUN reader finds a packet for port 53.
Ask(i) ==
    /\ on /\ queries[i].at = "free" /\ \A j \in Ids : j < i => queries[j].at # "free"
    /\ \E host \in Hosts :
        queries' = [queries EXCEPT ![i] =
                      [at |-> "asking", host |-> host, url |-> 1, failed |-> <<>>, session |-> session]]
    /\ UNCHANGED <<now, sessionVars, settingVars, table, heard, last>>

Addresses(answers) ==
    {answers[k].addr : k \in {j \in DOMAIN answers : answers[j].type = "address"}}

\* What may come of an answer: a message in any encoding, whole or cut short,
\* and the records the parser finds in it.
Outcome(host, answers, m, n) ==
    [truth |-> Addresses(answers), whole |-> n = Len(m.body),
     todo |-> ParseResponse(Cut(m, n))]

Outcomes ==
    [host \in Hosts |->
        {[truth |-> {}, whole |-> FALSE, todo |-> ParseResponse(Loop)]}
          \cup UNION {UNION {{Outcome(host, answers, m, n) : n \in 0..Len(m.body)} :
                               m \in Encodings(host, answers)} :
                        answers \in AnswerLists(host)}]

\* What the proofs ask of the parser: the records it finds are for the question's
\* name and hold addresses of the answer, all of them if the message came whole.
\* It folds over the message, so that TLC checks this for the messages of a run.
Records == [addr : Addrs, host : Hosts, ttl : Nat]
ParsesTruly ==
    \A host \in Hosts : \A o \in Outcomes[host] :
        /\ o.truth \subseteq Addrs /\ o.todo \in Seq(Records)
        /\ \A k \in 1..Len(o.todo) : o.todo[k].host = host /\ o.todo[k].addr \in o.truth
        /\ o.whole => \A a \in o.truth : \E k \in 1..Len(o.todo) : o.todo[k].addr = a

\* The server of this turn answers.
Answered(i) ==
    /\ queries[i].at = "asking"
    /\ \E o \in Outcomes[queries[i].host] :
           queries' = [queries EXCEPT ![i] =
             [at |-> "inserting", host |-> @.host, session |-> @.session,
              todo |-> o.todo, truth |-> o.truth, whole |-> o.whole]]
    /\ UNCHANGED <<now, sessionVars, settingVars, table, heard, last>>

\* No connection, no success, no body, or five seconds: the next server's turn.
Refused(q) ==
    IF q.url < Len(client) THEN [q EXCEPT !.url = @ + 1]
    ELSE [at |-> "unanswered", failed |-> q.failed]

Fails(i) ==
    /\ queries[i].at = "asking"
    /\ queries' = [queries EXCEPT ![i] = Refused([queries[i] EXCEPT !.failed = Append(@, client[queries[i].url])])]
    /\ UNCHANGED <<now, sessionVars, settingVars, table, heard, last>>

-----------------------------------------------------------------------------
(* The table. *)

Clamp(ttl) == IF ttl < MinTtl THEN MinTtl ELSE IF ttl > MaxTtl THEN MaxTtl ELSE ttl

Live(entry) == entry # None /\ entry.expires_at > now
Size(t) == Cardinality({a \in Addrs : t[a] # None})

\* Above the threshold what has expired is removed.
Evict(t) ==
    IF Size(t) > EvictionThreshold
    THEN [a \in Addrs |-> IF Live(t[a]) THEN t[a] ELSE None]
    ELSE t

\* dns_table_insert, for one record after the other.
Insert(i) ==
    /\ queries[i].at = "inserting" /\ queries[i].todo # <<>>
    /\ LET r == Head(queries[i].todo)
       IN  /\ table' = Evict([table EXCEPT ![r.addr] =
                                 [host |-> r.host, expires_at |-> now + Clamp(r.ttl)]])
           /\ last' = [last EXCEPT ![r.addr] = [by |-> i, since |-> now, ttl |-> r.ttl]]
    /\ queries' = [queries EXCEPT ![i].todo = Tail(@)]
    /\ UNCHANGED <<now, sessionVars, settingVars, heard>>

\* Mutant: the app is answered before the table is filled.
ReplyFirst(i) == queries[i].at = "inserting"
Inserted(i) == queries[i].at = "inserting" /\ queries[i].todo = <<>>

\* The answer goes to the app, if the run that asked still writes to the TUN;
\* the app takes nothing from a message that is not whole.
Reply(i) ==
    /\ Inserted(i)
    /\ LET q == queries[i]
       IN  /\ heard' = heard \cup {[addr |-> a, by |-> i] :
                   a \in {b \in q.truth : q.whole /\ on /\ q.session = session}}
           /\ queries' = [queries EXCEPT ![i] =
                   [at |-> "replied", host |-> q.host, truth |-> q.truth]]
    /\ UNCHANGED <<now, sessionVars, settingVars, table, last>>

\* Mutant: entries do not expire.
LookupAnyway(a) == IF table[a] # None THEN table[a].host ELSE None

\* dns_table_lookup.  handle_tcp_stream has the engine connect to this name, or
\* to the address if there is none.
Lookup(a) == IF Live(table[a]) THEN table[a].host ELSE None

\* A lookup removes what has expired.
Connect(a) ==
    /\ on
    /\ table' = [table EXCEPT ![a] = IF Live(@) THEN @ ELSE None]
    /\ UNCHANGED <<now, sessionVars, settingVars, queries, heard, last>>

-----------------------------------------------------------------------------
Init ==
    /\ now = 0 /\ on = FALSE /\ session = 0
    /\ dohServer = None /\ changes = 0 /\ prefs = Unread
    /\ home = FALSE /\ client = <<>> /\ passedBy = {}
    /\ table = [a \in Addrs |-> None] /\ last = [a \in Addrs |-> None]
    /\ queries = [i \in Ids |-> Free]
    /\ heard = {}

Task(i) == Answered(i) \/ Fails(i) \/ Insert(i) \/ Reply(i)
Next == \/ Tick \/ SetDohServer \/ StartSession \/ StopSession \/ ProcessDies
        \/ \E i \in Ids : Ask(i) \/ Task(i)
        \/ \E a \in Addrs : Connect(a)

Spec == Init /\ [][Next]_vars

-----------------------------------------------------------------------------
TypeOK ==
    /\ now \in 0..MaxTime /\ on \in BOOLEAN /\ session \in 0..MaxSessions
    /\ dohServer \in UserServers /\ prefs \in UserServers \cup {Unread}
    /\ Range(client) \subseteq Servers
    /\ home \in BOOLEAN /\ passedBy \subseteq {"changed", "plain"}
    /\ \A a \in Addrs : table[a] # None =>
           table[a].host \in Hosts /\ table[a].expires_at \in 0..(MaxTime + MaxTtl)
    /\ \A i \in Ids :
           /\ queries[i].at \in {"free", "asking", "inserting", "replied", "unanswered", "dead"}
           /\ queries[i].at = "asking" => queries[i].url \in DOMAIN client
    /\ \A h \in heard : h.addr \in Addrs /\ h.by \in Ids

\* A connection is given to the engine by a name only if the latest answer with
\* its address was one for that name, and no older than MaxTtl: whatever the
\* compression of the message and wherever it was cut (parse_dns_response_records).
NamedByAnswers ==
    \A a \in Addrs : Lookup(a) # None =>
        LET l == last[a]
        IN  /\ l # None /\ now < l.since + MaxTtl
            /\ queries[l.by].host = Lookup(a)
            /\ a \in queries[l.by].truth

\* An app that was told an address is connected by the name it asked for, while
\* the answer lasts and no other answer took the address: the table is filled
\* before the reply and loses nothing that lives (handle_dns_query, retain).
FreshIsNamed ==
    \A h \in heard :
        (/\ queries[h.by].at = "replied"
         /\ \/ last[h.addr] = None
            \/ last[h.addr].by = h.by /\ now < last[h.addr].since + Clamp(last[h.addr].ttl))
        => Lookup(h.addr) = queries[h.by].host

\* A query stays unanswered only if every built-in server failed, and before them
\* the one the user has set - unless it was set after this process had read its
\* preferences, or the process made its client for a profile without a dns:
\* section; both last as long as the process (init_doh_client, resolve_via_doh).
UnansweredIfAllFail ==
    \A i \in Ids : queries[i].at = "unanswered" =>
        LET failed == queries[i].failed
        IN  /\ Range(Defaults) \subseteq Range(failed)
            /\ dohServer \in Https /\ passedBy = {} => Head(failed) = dohServer
===============================================================================
