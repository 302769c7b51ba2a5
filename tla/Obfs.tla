--------------------------------- MODULE Obfs ---------------------------------
(***************************************************************************)
(* The byte streams that disguise a proxy connection: HttpObfs and TlsObfs *)
(* (simple_obfs.rs) and WsStream (v2ray_plugin.rs).  Each wraps an inner   *)
(* stream; any poll of it may stop in the middle of a header, a length or  *)
(* a payload.                                                              *)
(*                                                                         *)
(* A token stands for one byte of the wire, and for one whole message of   *)
(* the WebSocket.  v is what the token carries: the numbers of payload     *)
(* bytes, or the value of a byte of a length field.                        *)
(***************************************************************************)
EXTENDS Naturals, Sequences, SequencesExt

CONSTANTS
    Layers,          \* the wrappers of the instance
    MaxOut,          \* payload bytes the caller writes
    Chunk,           \* TLS_CHUNK_SIZE (16384)
    Base,            \* values of a byte (256)
    FirstDiscard,    \* TLS_FIRST_RESPONSE_DISCARD (105)
    HeaderDiscard,   \* TLS_RECORD_HEADER_DISCARD (3)
    MaxHeader,       \* limit of the first response's header (16384)
    Heads,           \* headers an HTTP peer may send: the lengths of their lines
    Replies,         \* the sizes of the frames the peer may send, in order
    Space            \* room in the caller's read buffer, at most

ASSUME BoundAssumption ==
    /\ Layers \subseteq {"http", "tls", "ws"}
    /\ MaxOut \in Nat /\ Space \in Nat \ {0}
    /\ Base \in Nat \ {0} /\ Chunk \in 1..(Base * Base - 1)
    /\ FirstDiscard \in Nat /\ HeaderDiscard \in Nat
    /\ Heads \subseteq Seq(Nat \ {0}) \ {<<>>}
    /\ Replies \subseteq Seq(0..(Base * Base - 1))

VARIABLES
    layer,
    offer,          \* the bytes of the write under way, 0 if none
    accepted,       \* bytes reported as written
    first_request, write_buf, pending_input,
    wire,           \* what the inner stream has taken
    writer,         \* "open", "shut" (poll_shutdown is done) or "failed"
    script,         \* what the peer sends
    arrived, taken, \* how much of it the inner stream holds, and has given out
    closed,         \* the peer sends nothing more
    first_response, scratch, leftover,
    phase, len_buf, \* TlsReadPhase with its count, and the bytes of the length
    got,            \* payload bytes the caller has been given
    reader          \* "open", "eof" (a read of no bytes) or "failed"

writeVars == <<offer, accepted, first_request, write_buf, pending_input, wire, writer>>
peerVars  == <<script, arrived, closed>>
readVars  == <<taken, first_response, scratch, leftover, phase, len_buf, got, reader>>
vars      == <<layer, writeVars, peerVars, readVars>>

Tok(t, v) == [t |-> t, v |-> v]
Bytes(a, b) == [i \in 1..(b - a + 1) |-> Tok("b", <<a + i - 1>>)]
\* (n as u16).to_be_bytes()
Length2(n) == <<Tok("len", <<(n \div Base) % Base>>), Tok("len", <<n % Base>>)>>
Fill(t, n) == [i \in 1..n |-> Tok(t, <<>>)]
Least(a, b) == IF a < b THEN a ELSE b
Cut(s, n) == SubSeq(s, n + 1, Len(s))

\* The numbers a reader that takes these tokens for payload puts in the buffer.
Payload(s) == FlattenSeq([i \in DOMAIN s |-> IF s[i].t \in {"b", "bin"} THEN s[i].v ELSE <<0>>])

-----------------------------------------------------------------------------
(* The peer.  It frames its bytes 1, 2, ... as the layer's server does. *)

\* What the frames before the k-th hold together.
Before(f, k) == LET held[i \in 0..Len(f)] == IF i = 0 THEN 0 ELSE held[i - 1] + f[i]
                IN  held[k - 1]
FrameBytes(f, k) == Bytes(Before(f, k) + 1, Before(f, k) + f[k])

Crlf == <<Tok("cr", <<>>), Tok("lf", <<>>)>>
Header(lines) == FlattenSeq([i \in DOMAIN lines |-> Fill("head", lines[i]) \o Crlf]) \o Crlf

Scripts(l) ==
    CASE l = "http" ->
           {Header(h) \o FlattenSeq([k \in DOMAIN f |-> FrameBytes(f, k)]) : h \in Heads, f \in Replies}
      [] l = "tls" ->
           {FlattenSeq([k \in DOMAIN f |->
               Fill("head", IF k = 1 THEN FirstDiscard ELSE HeaderDiscard)
                   \o Length2(f[k]) \o FrameBytes(f, k)]) : f \in Replies}
      [] l = "ws" ->
           {<<Tok("ping", <<>>)>> \o [k \in DOMAIN f |-> Tok("bin", Payload(FrameBytes(f, k)))] \o e
               : f \in Replies, e \in {<<>>, <<Tok("close", <<>>)>>, <<Tok("text", <<>>)>>}}

Arrive == /\ ~closed
          /\ arrived' \in (arrived + 1)..Len(script)
          /\ UNCHANGED <<layer, writeVars, script, closed, readVars>>

Close == /\ ~closed /\ closed' = TRUE
         /\ UNCHANGED <<layer, writeVars, script, arrived, readVars>>

-----------------------------------------------------------------------------
(* Writing.  The caller repeats a write until it is told how much of it was
   accepted; meanwhile more may have been added behind it. *)

Offer == /\ writer = "open"
         /\ offer' \in (offer + 1)..(MaxOut - accepted)
         /\ UNCHANGED <<layer, accepted, first_request, write_buf, pending_input, wire, writer,
                        peerVars, readVars>>

\* Mutant: what was taken stays in the buffer.
DrainFromStart(buf, m) == /\ wire' = wire \o SubSeq(buf, 1, m)
                          /\ write_buf' = IF m = Len(buf) THEN <<>> ELSE buf

\* The inner stream takes m tokens of buf; the rest stays in write_buf.
Drain(buf, m) == wire' = wire \o SubSeq(buf, 1, m) /\ write_buf' = Cut(buf, m)

Report(n) == accepted' = accepted + n /\ offer' = offer - n /\ pending_input' = 0

\* poll_drain_write_buf for a frame of `take` bytes: Pending keeps what is left.
Send(buf, take, m) ==
    /\ Drain(buf, m)
    /\ IF m = Len(buf) THEN Report(take)
                       ELSE pending_input' = take /\ UNCHANGED <<accepted, offer>>

\* A frame begun by an earlier poll: finish it, report what it held.
FinishFrame(m) ==
    /\ layer # "ws" /\ write_buf # <<>> /\ m <= Len(write_buf)
    /\ Send(write_buf, pending_input, m)
    /\ UNCHANGED first_request

Take == IF layer = "tls" THEN Least(offer, Chunk) ELSE offer

Body(n) == Bytes(accepted + 1, accepted + n)
BuildHttpRequest(n) == <<Tok("rec", <<n>>)>> \o Body(n)
ApplicationData(n)  == <<Tok("rec", <<>>)>> \o Length2(n) \o Body(n)
\* The session ticket is followed by the other extensions.
BuildClientHello(n) == ApplicationData(n) \o <<Tok("ext", <<>>)>>

Frame(n) == IF layer = "http" THEN BuildHttpRequest(n)
            ELSE IF first_request THEN BuildClientHello(n) ELSE ApplicationData(n)

StartFrame(m) ==
    /\ layer = "tls" \/ (layer = "http" /\ first_request)
    /\ write_buf = <<>>
    /\ m <= Len(Frame(Take))
    /\ first_request' = FALSE
    /\ Send(Frame(Take), Take, m)

\* HTTP after the first request.
PassThrough(m) ==
    /\ layer = "http" /\ ~first_request /\ write_buf = <<>>
    /\ m \in 1..offer
    /\ wire' = wire \o Bytes(accepted + 1, accepted + m) /\ Report(m)
    /\ UNCHANGED <<first_request, write_buf>>

\* WsStream: one binary message for a write, kept by the sink until it is
\* flushed; the sink may write out m of what it holds at once.
SendMessage(m) ==
    /\ layer = "ws"
    /\ LET all == Append(write_buf, Tok("bin", Payload(Bytes(accepted + 1, accepted + offer))))
       IN  m <= Len(all) /\ Drain(all, m)
    /\ Report(offer)
    /\ UNCHANGED first_request

PollWrite ==
    /\ writer = "open" /\ offer > 0
    /\ \E m \in 0..(MaxOut + 4) :
           FinishFrame(m) \/ StartFrame(m) \/ PassThrough(m) \/ SendMessage(m)
    /\ UNCHANGED <<layer, writer, peerVars, readVars>>

\* poll_flush, which the callers use between writes.
PollFlush ==
    /\ writer = "open" /\ offer = 0 /\ write_buf # <<>>
    /\ \E m \in 1..Len(write_buf) : Drain(write_buf, m)
    /\ UNCHANGED <<layer, offer, accepted, first_request, pending_input, writer, peerVars, readVars>>

\* poll_shutdown: drains write_buf first.  A caller that gives up a pending
\* write may shut down too.
PollShutdown ==
    /\ writer = "open"
    /\ \E m \in 0..Len(write_buf) :
           /\ Drain(write_buf, m)
           /\ writer' = IF m = Len(write_buf) THEN "shut" ELSE "open"
    /\ UNCHANGED <<layer, offer, accepted, first_request, pending_input, peerVars, readVars>>

\* The inner stream fails, or takes nothing (WriteZero): the caller drops both halves.
WriteFails ==
    /\ writer = "open" /\ offer > 0
    /\ writer' = "failed"
    /\ reader' = IF reader = "open" THEN "failed" ELSE reader
    /\ UNCHANGED <<layer, offer, accepted, first_request, write_buf, pending_input, wire, peerVars,
                   taken, first_response, scratch, leftover, phase, len_buf, got>>

-----------------------------------------------------------------------------
(* Reading.  One step is one turn of poll_read's loop with at most one read
   of the inner stream; `room` is what the caller's buffer has room for. *)

\* How many tokens a read of the inner stream may give; 0 is its end of file.
\* No element: Pending.
Inner(want) == IF taken < arrived THEN 1..Least(arrived - taken, want)
               ELSE IF closed THEN {0} ELSE {}
Next1(n) == SubSeq(script, taken + 1, taken + n)

Deliver(s) == got' = got \o s /\ reader' = IF s = <<>> THEN "eof" ELSE reader
GotNothing == UNCHANGED <<got, reader>>

\* Mutant: the end of the inner stream is taken for a pause.
AtEndOnward(n) == GotNothing

\* A header or a length: the caller has nothing yet, unless the stream ends here.
AtEnd(n) == IF n = 0 THEN Deliver(<<>>) ELSE GotNothing

\* Mutant: bytes that were given out are kept.
ReadLeftoverAgain(room) ==
    /\ leftover # <<>>
    /\ Deliver(SubSeq(leftover, 1, Least(room, Len(leftover))))
    /\ leftover' = IF room < Len(leftover) THEN leftover ELSE <<>>
    /\ UNCHANGED <<taken, first_response, scratch, phase, len_buf>>

\* Bytes after the header, or of a message, that did not fit last time.
ReadLeftover(room) ==
    /\ leftover # <<>>
    /\ Deliver(SubSeq(leftover, 1, Least(room, Len(leftover))))
    /\ leftover' = Cut(leftover, Least(room, Len(leftover)))
    /\ UNCHANGED <<taken, first_response, scratch, phase, len_buf>>

\* Where the header ends, if it does: behind the first CR LF CR LF.
FindDoubleCrlf(s) ==
    LET ends == {i \in 4..Len(s) : SubSeq(s, i - 3, i) = Crlf \o Crlf}
    IN  {i \in ends : \A j \in ends : i <= j}

HttpHeader(room) ==
    /\ layer = "http" /\ leftover = <<>> /\ first_response
    /\ \E n \in Inner(Len(script)) :
         LET all == scratch \o Next1(n)
         IN  /\ taken' = taken + n
             /\ \/ /\ n = 0
                   /\ Deliver(<<>>) /\ UNCHANGED <<scratch, leftover, first_response>>
                \/ /\ n > 0 /\ first_response' = FALSE /\ scratch' = <<>>
                   /\ \E end \in FindDoubleCrlf(all) :
                        LET body == Payload(Cut(all, end))
                        IN  /\ Deliver(SubSeq(body, 1, Least(room, Len(body))))
                            /\ leftover' = Cut(body, Least(room, Len(body)))
                \/ /\ n > 0 /\ FindDoubleCrlf(all) = {}
                   /\ scratch' = all
                   /\ reader' = IF Len(all) > MaxHeader THEN "failed" ELSE reader
                   /\ UNCHANGED <<got, leftover, first_response>>
    /\ UNCHANGED <<phase, len_buf>>

HttpPassThrough(room) ==
    /\ layer = "http" /\ leftover = <<>> /\ ~first_response
    /\ \E n \in Inner(room) : taken' = taken + n /\ Deliver(Payload(Next1(n)))
    /\ UNCHANGED <<first_response, scratch, leftover, phase, len_buf>>

\* TlsReadPhase::Discard: the header of a record, or of the fake handshake.
TlsDiscard ==
    /\ layer = "tls" /\ phase.at = "Discard"
    /\ \/ /\ phase.n = 0
          /\ phase' = [at |-> "Length", n |-> 0] /\ len_buf' = <<>>
          /\ GotNothing /\ UNCHANGED taken
       \/ /\ phase.n > 0
          /\ \E n \in Inner(phase.n) :
                 /\ taken' = taken + n
                 /\ phase' = [phase EXCEPT !.n = @ - n]
                 /\ AtEnd(n)
          /\ UNCHANGED len_buf
    /\ UNCHANGED <<first_response, scratch, leftover>>

LengthNeed == 2 - Len(len_buf)

\* The two bytes of the length may come one at a time.
TlsLength ==
    /\ layer = "tls" /\ phase.at = "Length"
    /\ \/ /\ Len(len_buf) >= 2
          /\ phase' = [at |-> "Payload", n |-> len_buf[1] * Base + len_buf[2]]
          /\ GotNothing /\ UNCHANGED <<taken, len_buf>>
       \/ /\ Len(len_buf) < 2
          /\ \E n \in Inner(LengthNeed) :
                 /\ taken' = taken + n
                 /\ len_buf' = len_buf \o FlattenSeq([i \in 1..n |->
                        IF Next1(n)[i].t = "len" THEN Next1(n)[i].v ELSE <<0>>])
                 /\ AtEnd(n)
          /\ UNCHANGED phase
    /\ UNCHANGED <<first_response, scratch, leftover>>

\* The record is read to its end: no return, the loop goes on with the next.
NextRecord == /\ phase' = [at |-> "Discard", n |-> HeaderDiscard]
              /\ first_response' = FALSE /\ GotNothing

TlsPayload(room) ==
    /\ layer = "tls" /\ phase.at = "Payload"
    /\ \/ /\ phase.n = 0
          /\ NextRecord /\ UNCHANGED taken
       \/ /\ phase.n > 0
          /\ \E n \in Inner(Least(room, phase.n)) :
                 /\ taken' = taken + n
                 /\ phase' = [phase EXCEPT !.n = @ - n]
                 /\ Deliver(Payload(Next1(n)))
          /\ UNCHANGED first_response
    /\ UNCHANGED <<scratch, leftover, len_buf>>

\* WsStream: the next message.  A pong is sent if the sink has room.
WsMessage ==
    /\ layer = "ws" /\ leftover = <<>>
    /\ \E n \in Inner(1) :
         LET kind == IF n = 0 THEN "none" ELSE Next1(1)[1].t
         IN  /\ taken' = taken + n
             /\ leftover' = IF kind = "bin" THEN Next1(1)[1].v ELSE leftover
             /\ write_buf' \in IF kind = "ping" /\ writer = "open"
                                THEN {write_buf, Append(write_buf, Tok("pong", <<>>))}
                                ELSE {write_buf}
             /\ reader' = CASE kind \in {"none", "close"} -> "eof"
                            [] kind = "text"              -> "failed"
                            [] OTHER                      -> reader
    /\ UNCHANGED <<first_response, scratch, phase, len_buf, got>>

PollRead ==
    /\ reader = "open"
    /\ \/ /\ \E room \in 1..Space :
                 \/ ReadLeftover(room) \/ HttpHeader(room) \/ HttpPassThrough(room)
                 \/ TlsPayload(room)
          /\ UNCHANGED write_buf
       \/ (TlsDiscard \/ TlsLength) /\ UNCHANGED write_buf
       \/ WsMessage
    /\ UNCHANGED <<layer, peerVars, offer, accepted, first_request, pending_input, wire, writer>>

-----------------------------------------------------------------------------
Init ==
    /\ layer \in Layers
    /\ offer = 0 /\ accepted = 0 /\ first_request = TRUE
    /\ write_buf = <<>> /\ pending_input = 0 /\ wire = <<>> /\ writer = "open"
    /\ script \in Scripts(layer)
    /\ arrived = 0 /\ taken = 0 /\ closed = FALSE
    /\ first_response = TRUE /\ scratch = <<>> /\ leftover = <<>>
    /\ phase = [at |-> "Discard", n |-> FirstDiscard] /\ len_buf = <<>>
    /\ got = <<>> /\ reader = "open"

Next == \/ Arrive \/ Close
        \/ Offer \/ PollWrite \/ PollFlush \/ PollShutdown \/ WriteFails
        \/ PollRead

\* The task that owns the stream is polled again when the inner stream is
\* ready; an end of file is always ready.
Spec == Init /\ [][Next]_vars /\ WF_vars(PollRead)

-----------------------------------------------------------------------------
\* The payload among these tokens.
Carried(s) == FlattenSeq([i \in DOMAIN s |-> IF s[i].t \in {"b", "bin"} THEN s[i].v ELSE <<>>])

\* What the inner stream was given of the caller's bytes.
Written == Carried(wire)
Numbers(n) == [i \in 1..n |-> i]

\* A record announces the payload it carries: the bytes between two record
\* headers are as many as the first one's length says, and after a shutdown no
\* record is cut short, even when the write was given up (poll_shutdown).
FramesFit ==
    layer = "tls" =>
        \A p \in DOMAIN wire : (wire[p].t = "rec" /\ p + 2 <= Len(wire)) =>
            LET n == wire[p + 1].v[1] * Base + wire[p + 2].v[1]
                body == {q \in (p + 3)..Len(wire) : wire[q].t = "b"
                             /\ \A r \in (p + 1)..q : wire[r].t # "rec"}
            IN  /\ \A q \in body : q <= p + 2 + n
                /\ (writer = "shut" \/ \E q \in (p + 3)..Len(wire) : wire[q].t = "rec")
                       => \A q \in (p + 3)..(p + 2 + n) : q \in body

\* However the polls are cut, the payload on the wire is the caller's bytes in
\* order, none twice and none left out; what was reported as written is on the
\* wire or, for the WebSocket, in its sink, in records of the
\* announced length (poll_drain_write_buf, pending_input).
WrittenInOrder ==
    /\ Written = Numbers(Len(Written))
    /\ Len(Written) <= accepted + offer
    /\ layer # "ws" => Len(Written) >= accepted
    /\ layer = "ws" /\ write_buf = <<>> => Len(Written) = accepted
    /\ FramesFit

\* The peer's payload that has come.
Data == Carried(SubSeq(script, 1, arrived))

\* All of it has been handed on, and no more comes.
AllDelivered == closed /\ taken = arrived /\ Len(got) = Len(Data)

\* A read of no bytes, which the caller takes for the end of the stream, comes
\* only at the end, but for an HTTP response whose header ended with a read.
NoEarlyEof ==
    reader = "eof" =>
        \/ AllDelivered
        \/ (layer = "ws" /\ taken > 0 /\ script[taken].t = "close")
        \/ (layer = "http" /\ got = <<>> /\ ~first_response)

\* Whatever the peer's framing and however it is cut, the caller is given the
\* peer's payload bytes in order and nothing else, and is not told of an end
\* before it has them all (poll_read of the three).
ReadInOrder == got = Numbers(Len(got)) /\ NoEarlyEof

\* simple_obfs.rs:34-35: "strip everything up to and including the `\r\n\r\n`
\* header terminator, then both directions become pure passthrough."  A pure
\* passthrough ends when the inner stream does.
PassthroughEndsWithInner == layer = "http" /\ reader = "eof" => AllDelivered

\* A reader catches up with its peer: whatever has come is handed on without
\* anything more coming, the body behind a header in the same read too, and after
\* the peer has closed the reader is told of an end, in the middle of a header, a
\* length or a record too - no turn of the loop waits or goes round for ever.
ReadsCatchUp ==
    []<>(reader # "open" \/ (~closed /\ Len(got) = Len(Data)))
===============================================================================
