------------------------------- MODULE MCTunPath -------------------------------
(* The instance of TunPath that TLC checks. *)
EXTENDS TunPath, TLC

CONSTANTS a1, a2

\* Two names with an end in common, which compression uses, and the name an
\* alias leads to.
MCHosts == {<<"www", "org">>, <<"api", "org">>}
Alias == <<"cdn", "org">>

Address(owner, addr, ttl) == [owner |-> owner, type |-> "address", addr |-> addr, ttl |-> ttl]
Cname(owner) == [owner |-> owner, type |-> "cname", addr |-> None, ttl |-> 3]

\* One address; two, with TTLs beyond the limits; an address behind an alias.
MCAnswerLists(host) ==
    {<<Address(host, a1, 0)>>,
     <<Address(host, a1, 3), Address(host, a2, 0)>>,
     <<Cname(host), Address(Alias, a1, 3)>>}

MCDefaults == <<"1.1.1.1", "8.8.8.8">>

\* What the proofs about the names take the parser to do, of these messages.
ASSUME MessagesAssumption == ParsesTruly
===============================================================================
