------------------------------ MODULE TunPackets ------------------------------
(***************************************************************************)
(* The bytes tun2socks.rs reads and writes itself: the UDP packet of a     *)
(* query and the one of its answer (parse_udp_packet, build_udp_packet,    *)
(* ip_checksum), and the SOCKS5 handshake before a relay (socks5_connect). *)
(*                                                                         *)
(* A packet is its header fields, of 16 bits where their value matters,    *)
(* and the length of what follows.  The stream from the engine's listener  *)
(* is a sequence of bytes, of which only those the client looks at have a  *)
(* value; it may stop anywhere.                                            *)
(***************************************************************************)
EXTENDS Integers, Sequences

CONSTANTS
    Words,       \* 16-bit halves of an address, and ports
    HeaderWords, \* ihl of the packets: 5, or more with options
    Payloads,    \* lengths of queries and answers
    NameLengths  \* of target names

Is16(n) == n \in Nat /\ n < 65536

ASSUME WordAssumption == \A w \in Words : Is16(w)
ASSUME HeaderAssumption == HeaderWords \subseteq 5..15
ASSUME PayloadAssumption == \A n \in Payloads : n \in Nat /\ n <= 65507
ASSUME NameAssumption == NameLengths \subseteq 1..255

VARIABLES
    asked,    \* the packet an app sent, or NoPacket
    reply,    \* the packet written to the TUN for it, or NoPacket
    phase,    \* of socks5_connect: the read it is at, or "relay" or "failed"
    need,     \* the bytes of that read
    target,   \* whom it connects to
    request,  \* the bytes of its request
    script,   \* what the server sends in the end
    sent,     \* how much of it has been sent
    read,     \* how much the handshake has read of it
    given     \* and how much behind that went to the app

udpVars == <<asked, reply>>
socksVars == <<phase, need, target, request, script, sent, read, given>>
packetVars == <<udpVars, socksVars>>

-----------------------------------------------------------------------------
(* UDP packets. *)

NoPacket == [len |-> 0]
DnsPort == 53
IpAddress == Words \X Words

\* What an app sends to the resolver of the tunnel; behind it there may be
\* bytes that do not belong to it.
Query(ihl, src, dst, sport, payload, behind) ==
    [version |-> 4, proto |-> 17, ihl |-> ihl, src |-> src, dst |-> dst, sport |-> sport,
     dport |-> DnsPort, udpLen |-> 8 + payload, len |-> 4 * ihl + 8 + payload + behind]

\* parse_udp_packet: from whom to whom, and the length of the payload.
Parse(p) ==
    LET start == 4 * p.ihl + 8
        end == IF 4 * p.ihl + p.udpLen < p.len THEN 4 * p.ihl + p.udpLen ELSE p.len
    IN  [ok |-> p.len >= 28 /\ p.version = 4 /\ p.proto = 17 /\ p.len >= start /\ start <= end,
         src |-> p.src, sport |-> p.sport, dst |-> p.dst, dport |-> p.dport,
         payload |-> end - start]

Fold(s) == (s % 65536) + (s \div 65536)

\* Mutant: the carries are added once.
ChecksumFoldedOnce(s) == 65535 - (Fold(s) % 65536)

\* ip_checksum of words with this sum: carries are added until there are none,
\* which is after two rounds for the ten words of a header.
Checksum(s) == 65535 - Fold(Fold(s))

\* The sum of the ten words of a header.
Sum16(w) == w[1] + w[2] + w[3] + w[4] + w[5] + w[6] + w[7] + w[8] + w[9] + w[10]

\* build_udp_packet: version and ihl, the length, no identification, not to be
\* fragmented, 64 hops, UDP, its checksum; that of UDP is left out.
Build(src, sport, dst, dport, payload) ==
    LET header(ck) == <<17664, (28 + payload) % 65536, 0, 16384, 16401, ck>> \o src \o dst
    IN  [header |-> header(Checksum(Sum16(header(0)))), src |-> src, sport |-> sport,
         dst |-> dst, dport |-> dport, udpLen |-> (8 + payload) % 65536, len |-> 28 + payload]

SendQuery ==
    /\ asked = NoPacket
    /\ \E ihl \in HeaderWords, src, dst \in IpAddress, sport \in Words, n \in Payloads, more \in {0, 2} :
          asked' = Query(ihl, src, dst, sport, n, more) /\ asked'.len <= 65535
    /\ UNCHANGED <<reply, socksVars>>

\* handle_dns_query: from the resolver to the one who asked.
AnswerQuery == \E n \in Payloads :
    /\ asked # NoPacket /\ reply = NoPacket
    /\ LET q == Parse(asked)
       IN  q.ok /\ reply' = Build(q.dst, q.dport, q.src, q.sport, n)
    /\ UNCHANGED <<asked, socksVars>>

-----------------------------------------------------------------------------
(* The SOCKS5 handshake. *)

Bytes(n) == [i \in 1..n |-> "x"]

\* A target has an address, or a name of some length.
Targets == [kind : {1, 4}, len : {0}] \cup [kind : {3}, len : NameLengths]

\* The length of a name goes into a byte.
Request(t) ==
    <<5, 1, 0, t.kind>> \o (CASE t.kind = 1 -> Bytes(4)
                              [] t.kind = 3 -> <<t.len % 256>> \o Bytes(t.len)
                              [] t.kind = 4 -> Bytes(16)) \o <<"port", "port">>

\* How many bytes the engine takes for the request (external: RFC 1928).
RequestTakes(r) == CASE r[4] = 1 -> 10 [] r[4] = 3 -> 7 + r[5] [] r[4] = 4 -> 22

\* What the engine's listener sends (external): the method, a reply with the
\* address it is bound to, and then what the target sends; or it declines.
FromTarget == <<"first", "second">>
Scripts ==
    {<<5, 0, 5, 0, 0>> \o a \o FromTarget :
        a \in {<<1>> \o Bytes(6), <<3, 2>> \o Bytes(4), <<4>> \o Bytes(18)}}
      \cup {<<5, 0, 5, 1, 0, 1>> \o Bytes(6), <<5, 255>>}

\* TcpStream::connect and the greeting, for a connection that netstack accepted.
OpenSocks ==
    /\ phase = "closed" /\ phase' = "method" /\ need' = 2
    /\ target' \in Targets /\ script' \in Scripts
    /\ UNCHANGED <<request, sent, read, given, udpVars>>

\* The server sends some more: nothing behind the method before it has the request.
ServerSends ==
    /\ phase \notin {"closed", "failed"}
    /\ sent' \in (sent + 1)..(IF phase = "method" THEN 2 ELSE Len(script))
    /\ UNCHANGED <<phase, need, target, request, script, read, given, udpVars>>

\* read_exact waits for all it needs.
ReadExact(p) == phase = p /\ sent - read >= need /\ read' = read + need
Got(i) == script[read + i]
Onward(p, n) == phase' = p /\ need' = n
StaySame == UNCHANGED <<target, script, sent, given, udpVars>>

ReadMethod ==
    /\ ReadExact("method") /\ StaySame
    /\ IF Got(1) = 5 /\ Got(2) = 0
       THEN request' = Request(target) /\ Onward("reply", 4)
       ELSE UNCHANGED request /\ Onward("failed", 0)

ReadReply ==
    /\ ReadExact("reply") /\ StaySame /\ UNCHANGED request
    /\ IF Got(1) # 5 \/ Got(2) # 0 THEN Onward("failed", 0)
       ELSE CASE Got(4) = 1 -> Onward("bound", 6)
              [] Got(4) = 3 -> Onward("length", 1)
              [] Got(4) = 4 -> Onward("bound", 18)
              [] OTHER -> Onward("relay", 0)

\* Mutant: the port behind a name is forgotten.
ReadLengthOnly ==
    /\ ReadExact("length") /\ StaySame /\ UNCHANGED request
    /\ Onward("bound", Got(1))

ReadLength ==
    /\ ReadExact("length") /\ StaySame /\ UNCHANGED request
    /\ Onward("bound", Got(1) + 2)

ReadBound == ReadExact("bound") /\ StaySame /\ UNCHANGED request /\ Onward("relay", 0)

\* The stream ends: read_exact fails, and the app's connection is dropped.
StreamEnds ==
    /\ phase \notin {"closed", "failed", "relay"} /\ Onward("failed", 0)
    /\ StaySame /\ UNCHANGED <<request, read>>

\* copy_bidirectional takes what is there.
Relay ==
    /\ phase = "relay" /\ given' \in (given + 1)..(sent - read)
    /\ UNCHANGED <<phase, need, target, request, script, sent, read, udpVars>>

-----------------------------------------------------------------------------
PacketInit ==
    /\ asked = NoPacket /\ reply = NoPacket
    /\ phase = "closed" /\ need = 0 /\ target = [kind |-> 1, len |-> 0]
    /\ request = <<>> /\ script = <<>> /\ sent = 0 /\ read = 0 /\ given = 0

UdpNext == SendQuery \/ AnswerQuery
SocksNext ==
    \/ OpenSocks \/ ServerSends \/ ReadMethod \/ ReadReply \/ ReadLength \/ ReadBound
    \/ StreamEnds \/ Relay

-----------------------------------------------------------------------------
(* Properties. *)

\* The answer comes from where the query went, to where it came from, whole: its
\* header verifies, both lengths are its own, and all of the query was asked,
\* none of what lay behind it.
AnswersAsker == reply # NoPacket =>
    /\ reply.src = asked.dst /\ reply.sport = asked.dport
    /\ reply.dst = asked.src /\ reply.dport = asked.sport
    /\ Is16(reply.header[6]) /\ Sum16(reply.header) % 65535 = 0
    /\ reply.header[2] = reply.len /\ reply.udpLen = reply.len - 20
    /\ Parse(asked).payload = asked.udpLen - 8

\* What the relay brings the app begins with the target's first byte, whatever
\* kind of address the reply carried and however it was cut; and the engine took
\* all of the request for one, none of it for the app's data.
RelayStartsClean == phase = "relay" =>
    /\ RequestTakes(request) = Len(request)
    /\ SubSeq(script, read + 1, read + given) = SubSeq(FromTarget, 1, given)
===============================================================================
