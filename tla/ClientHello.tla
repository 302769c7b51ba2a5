------------------------------ MODULE ClientHello -----------------------------
(***************************************************************************)
(* The lengths in the fake TLS ClientHello that carries the first write    *)
(* (build_client_hello, simple_obfs.rs).  Six of its sixteen-bit numbers   *)
(* are sums of a constant, the bytes of the write and those of the host's  *)
(* name; the server finds the write by going through them.  Of the bytes   *)
(* only their number is kept.                                              *)
(***************************************************************************)
EXTENDS Naturals, Sequences

CONSTANTS
    WriteSizes,    \* bytes of a caller's first write
    HostLengths,   \* bytes of the host's name
    ChunkSize      \* TLS_CHUNK_SIZE

ASSUME HelloAssumption ==
    /\ WriteSizes \subseteq Nat /\ HostLengths \subseteq Nat
    /\ ChunkSize \in Nat
    \* A name of a host has at most 253 bytes, and a chunk 16384.
    /\ \A s \in HostLengths : 212 + ChunkSize + s < 65536

VARIABLES
    offered, server_len,   \* of the first write and of the name
    hello                  \* what build_client_hello made of them

helloVars == <<offered, server_len, hello>>

U16(n) == n % 65536

\* Mutant: the first write goes out whole.
FirstTakeAll(n) == n
FirstTake(n) == IF n < ChunkSize THEN n ELSE ChunkSize

-----------------------------------------------------------------------------
(* What is pushed into buf, in bytes. *)

SessionTicket(d) == 4 + d
ServerName(s)    == 9 + s
\* ec_point_formats, supported_groups, signature_algorithms,
\* encrypt_then_mac, extended_master_secret
OtherExtensions  == 8 + 14 + 36 + 4 + 4
Extensions(d, s) == SessionTicket(d) + ServerName(s) + OtherExtensions
\* version, random with its time, session_id, cipher_suites, compression_methods
Parameters       == 2 + 32 + 33 + 58 + 2
ClientHello(d, s) == Parameters + 2 + Extensions(d, s)
Handshake(d, s)   == 4 + ClientHello(d, s)

\* The announced lengths, each computed on its own.
BuildHello(d, s) ==
    [record    |-> U16(U16(212 + U16(d)) + U16(s)),
     handshake |-> U16(U16(208 + U16(d)) + U16(s)),
     ext       |-> U16(U16(79 + U16(d)) + U16(s)),
     ticket    |-> U16(d),
     sni       |-> U16(U16(s) + 5),
     list      |-> U16(U16(s) + 3),
     name      |-> U16(s),
     data      |-> d]

Unsent == [data |-> 0]

HelloInit == offered \in WriteSizes /\ server_len \in HostLengths /\ hello = Unsent

FirstWrite ==
    /\ hello = Unsent
    /\ hello' = BuildHello(FirstTake(offered), server_len)
    /\ UNCHANGED <<offered, server_len>>

HelloNext == FirstWrite

HelloSpec == HelloInit /\ [][HelloNext]_helloVars

HelloTypeOK ==
    /\ offered \in WriteSizes /\ server_len \in HostLengths
    /\ hello = Unsent \/ hello.data \in 0..ChunkSize

-----------------------------------------------------------------------------
\* Every length announces exactly the bytes behind it, so that a server that goes
\* through them finds the write whole: no sum passes 65535, for any write and
\* any name (build_client_hello, poll_write's TLS_CHUNK_SIZE).
Announces(h, s) ==
    /\ h.record = Handshake(h.data, s)
    /\ h.handshake = ClientHello(h.data, s)
    /\ h.ext = Extensions(h.data, s)
    /\ h.ticket = h.data
    /\ h.sni + 4 = ServerName(s) /\ h.list + 6 = ServerName(s) /\ h.name + 9 = ServerName(s)
HelloFits == hello # Unsent => Announces(hello, server_len)
===============================================================================
