----------------------------- MODULE MCTransports ------------------------------
(* The instance is given by Obfs_Streams.cfg. *)
EXTENDS Transports

\* Frames of one and two bytes, an empty one, and one longer than the buffer.
MCReplies == {<<1, 2>>, <<0, 1>>, <<3>>}
\* Headers of one line and of two, and one that is too long.
MCHeads == {<<1>>, <<1, 1>>, <<6>>}

\* A name, its form with a port (no name for TLS) and an address with colons (no
\* authority of a URI); "true" is what a bare "host" stands for.
MCServer      == "ss"
MCHostValues  == {"", "cdn", "cdn:8443", "2001:db8::1", "true"}
MCSniNames    == {"ss", "cdn", "2001:db8::1", "true"}
MCAuthorities == {"ss", "cdn", "cdn:8443", "true"}
MCPathValues  == {"", "/", "/ws", "ws"}
MCSites       == {[host |-> h, path |-> p] : h \in {"ss", "cdn"}, p \in {"/", "/ws"}}
                    \cup {[host |-> "cdn:8443", path |-> "/"]}
===============================================================================
