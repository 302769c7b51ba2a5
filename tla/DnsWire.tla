-------------------------------- MODULE DnsWire -------------------------------
(***************************************************************************)
(* What dns_table.rs reads from a DNS response, and the responses a server *)
(* may send.                                                               *)
(*                                                                         *)
(* A response is its two counts and a body of cells: a label, the zero     *)
(* byte that ends a name, a compression pointer, the type and class of a   *)
(* question, the fixed part of a record, and a record's data.  Offsets     *)
(* count cells; a message cut inside a cell is cut before it.              *)
(***************************************************************************)
EXTENDS Naturals, Sequences, SequencesExt

CONSTANT MaxJumps   \* pointers followed in one name (32 in the code)

ASSUME JumpAssumption == MaxJumps \in Nat

Label(l)  == [t |-> "label", v |-> l]
End       == [t |-> "end"]
Pointer(p) == [t |-> "pointer", to |-> p]
QType     == [t |-> "qtype"]
Fixed(type, ttl) == [t |-> "fixed", type |-> type, ttl |-> ttl]
RData(addr) == [t |-> "rdata", addr |-> addr]

-----------------------------------------------------------------------------
(* The reader. *)

NoName == [ok |-> FALSE, name |-> <<>>, end |-> 0]

\* read_dns_name: the labels from an offset on, and the offset behind the name.
\* A pointer ends the name where it stands, wherever it leads.
ReadName(data, offset) ==
    LET Read[pos \in Nat, jumps \in Nat] ==
            IF pos > Len(data) \/ jumps > MaxJumps THEN NoName
            ELSE LET cell == data[pos]
                 IN  CASE cell.t = "end" -> [ok |-> TRUE, name |-> <<>>, end |-> pos + 1]
                       [] cell.t = "pointer" ->
                            LET rest == Read[cell.to, jumps + 1]
                            IN  IF rest.ok THEN [rest EXCEPT !.end = pos + 1] ELSE NoName
                       [] cell.t = "label" ->
                            LET rest == Read[pos + 1, jumps]
                            IN  [rest EXCEPT !.name = <<cell.v>> \o @]
    IN  Read[offset, 0]

\* parse_dns_response_records: the first question's name and the offset of the
\* answers; a question that cannot be read ends it.
Questions(m) ==
    FoldLeft(LAMBDA q, i :
                LET n == ReadName(m.body, q.end)
                IN  IF ~q.ok \/ ~n.ok THEN [q EXCEPT !.ok = FALSE]
                    ELSE [ok |-> TRUE, name |-> IF i = 1 THEN n.name ELSE q.name,
                          end |-> n.end + 1],
             [ok |-> TRUE, name |-> <<>>, end |-> 1],
             [i \in 1..m.qdcount |-> i])

\* One answer: its owner's name is skipped, its address goes to the question's
\* name; an answer that is not whole ends the loop, one of another type does not.
ReadAnswer(m, host, r) ==
    LET n == ReadName(m.body, r.end)
    IN  IF ~r.ok \/ ~n.ok \/ n.end + 1 > Len(m.body) THEN [r EXCEPT !.ok = FALSE]
        ELSE LET fixed == m.body[n.end]
                 addr == m.body[n.end + 1].addr
             IN  [ok |-> TRUE, end |-> n.end + 2,
                  records |-> IF fixed.type # "address" THEN r.records
                              ELSE Append(r.records, [addr |-> addr, host |-> host,
                                                      ttl |-> fixed.ttl])]

ParseResponse(m) ==
    LET q == Questions(m)
    IN  IF ~q.ok THEN <<>>
        ELSE FoldLeft(LAMBDA r, i : ReadAnswer(m, q.name, r),
                      [ok |-> TRUE, end |-> q.end, records |-> <<>>],
                      [i \in 1..m.ancount |-> i]).records

-----------------------------------------------------------------------------
(* The writer: a server, which may write a name, or the end of a name, as a
   pointer to where it has written the same before. *)

Suffix(name, i) == SubSeq(name, i, Len(name))

\* The first k labels and what ends the name.  seen: pairs of an offset and the
\* name that begins there.
Written(e, name, k, ending) ==
    [body |-> e.body \o [i \in 1..k |-> Label(name[i])] \o <<ending>>,
     seen |-> e.seen \cup {<<Len(e.body) + i, Suffix(name, i)>> : i \in 1..(k + 1)}]

WriteName(e, name) ==
    {Written(e, name, Len(name), End)}
      \cup {Written(e, name, p[2], Pointer(p[1][1])) :
              p \in {x \in e.seen \X (0..(Len(name) - 1)) : x[1][2] = Suffix(name, x[2] + 1)}}

WriteAnswer(S, a) ==
    UNION {{[w EXCEPT !.body = @ \o <<Fixed(a.type, a.ttl), RData(a.addr)>>] :
                w \in WriteName(e, a.owner)} : e \in S}

\* All ways to write the answers to a question.
Encodings(host, answers) ==
    LET question == {[w EXCEPT !.body = Append(@, QType)] :
                        w \in WriteName([body |-> <<>>, seen |-> {}], host)}
    IN  {[qdcount |-> 1, ancount |-> Len(answers), body |-> e.body] :
            e \in FoldLeft(LAMBDA S, a : WriteAnswer(S, a), question, answers)}

Cut(m, n) == [m EXCEPT !.body = SubSeq(@, 1, n)]

\* A name that points to itself.
Loop == [qdcount |-> 1, ancount |-> 1, body |-> <<Pointer(1)>>]
===============================================================================
