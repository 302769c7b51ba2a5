------------------------------ MODULE Obfs_proofs ------------------------------
(***************************************************************************)
(* Proofs about the byte streams of Obfs: the payload on the wire is the   *)
(* caller's, in order and in whole records, and the caller reads the       *)
(* peer's, in order and to its end.  First what FlattenSeq makes of a      *)
(* sequence and what tokens carry, then writing, then the shape of what a  *)
(* peer sends, then reading.                                               *)
(***************************************************************************)
EXTENDS Obfs, Integers, SequenceTheorems, WellFoundedInduction, TLAPS

-----------------------------------------------------------------------------
(* Induction over the natural numbers, from the least element of a set. *)

LEMMA SmallestNumber ==
    ASSUME NEW T \in SUBSET Nat, T # {}
    PROVE  \E m \in T : \A k \in T : m <= k
<1>1. PICK m \in T : \A k \in T : ~ (<<k, m>> \in OpToRel(<, Nat))
    BY NatLessThanWellFounded, WFMin, Zenon
<1>2. ASSUME NEW k \in T PROVE m <= k
    <2>1. ~ (<<k, m>> \in OpToRel(<, Nat))
        BY <1>1
    <2>2. ~ (k < m)
        BY <2>1, SMT DEF OpToRel
    <2> QED
        BY <2>2
<1> QED
    BY <1>1, <1>2

\* Induction over the numbers up to a limit: what holds of the first, and of a next
\* one whenever it holds of the one before, holds of all.
LEMMA Induction ==
    ASSUME NEW n \in Nat, NEW T, 0 \in T, \A k \in 1..n : k - 1 \in T => k \in T
    PROVE  \A k \in 0..n : k \in T
<1> SUFFICES ASSUME (0..n) \ T # {} PROVE FALSE
    BY Zenon
<1>1. (0..n) \ T \in SUBSET Nat
    OBVIOUS
<1>2. PICK m \in (0..n) \ T : \A k \in (0..n) \ T : m <= k
    BY <1>1, SmallestNumber
<1>3. m \in 1..n
    BY <1>2
<1>4. m - 1 \in 0..n /\ ~ (m <= m - 1)
    BY <1>3
<1>5. m - 1 \in T
    BY <1>2, <1>4
<1> QED
    BY <1>2, <1>3, <1>5
-----------------------------------------------------------------------------
(* Flattening, which goes through a sequence from its first element. *)

\* What FlattenSeq builds: the first elements, one behind the other.
IsFlat(g, s) == g = [i \in 1..Len(s) |-> IF i = 1 THEN s[i] ELSE g[i - 1] \o s[i]]

LEMMA FlatExists ==
    ASSUME NEW S, NEW s \in Seq(Seq(S))
    PROVE  \E g : IsFlat(g, s)
<1> DEFINE Partly(g, n) == g = [i \in 1..n |-> IF i = 1 THEN s[i] ELSE g[i - 1] \o s[i]]
           N == {n \in Nat : \E g : Partly(g, n)}
<1>1. 0 \in N
    <2>1. Partly([i \in 1..0 |-> s[i]], 0)
        OBVIOUS
    <2> QED
        BY <2>1
<1>2. ASSUME NEW n \in Nat \ {0}, n - 1 \in N PROVE n \in N
    <2>1. PICK g : Partly(g, n - 1)
        BY <1>2
    <2> DEFINE h == [i \in 1..n |-> IF i = 1 THEN s[i] ELSE g[i - 1] \o s[i]]
    <2>2. ASSUME NEW i \in 1..(n - 1) PROVE h[i] = g[i]
        <3>1. i \in 1..n
            OBVIOUS
        <3>2. g[i] = IF i = 1 THEN s[i] ELSE g[i - 1] \o s[i]
            BY <2>1
        <3> QED
            BY <3>1, <3>2
    <2>3. \A i \in 1..n : i # 1 => i - 1 \in 1..(n - 1)
        OBVIOUS
    <2>4. Partly(h, n)
        BY <2>2, <2>3
    <2> QED
        BY <2>4
<1>3. Len(s) \in Nat
    OBVIOUS
<1>4. Len(s) \in N
    <2> HIDE DEF N
    <2>1. \A k \in 1..Len(s) : k - 1 \in N => k \in N
        BY <1>2
    <2>2. \A k \in 0..Len(s) : k \in N
        BY <1>1, <1>3, <2>1, Induction, Zenon
    <2> QED
        BY <1>3, <2>2
<1> QED
    BY <1>4 DEF IsFlat

LEMMA FlatIs ==
    ASSUME NEW S, NEW s \in Seq(Seq(S)), Len(s) # 0
    PROVE  \E g : IsFlat(g, s) /\ FlattenSeq(s) = g[Len(s)]
<1> DEFINE g == CHOOSE g : IsFlat(g, s)
<1>1. IsFlat(g, s)
    BY FlatExists, Zenon
<1>2. FlattenSeq(s) = g[Len(s)]
    BY DEF FlattenSeq, IsFlat
<1> QED
    BY <1>1, <1>2

LEMMA FlatStep ==
    ASSUME NEW g, NEW s, NEW i \in 1..Len(s), IsFlat(g, s)
    PROVE  g[i] = IF i = 1 THEN s[i] ELSE g[i - 1] \o s[i]
    BY DEF IsFlat

LEMMA FlatIsSeq ==
    ASSUME NEW S, NEW s \in Seq(Seq(S)), NEW g, IsFlat(g, s)
    PROVE  \A i \in 1..Len(s) : g[i] \in Seq(S)
<1> DEFINE T == {i \in 0..Len(s) : i # 0 => g[i] \in Seq(S)}
<1>1. 0 \in T /\ Len(s) \in Nat
    OBVIOUS
<1>2. ASSUME NEW i \in 1..Len(s), i - 1 \in T PROVE i \in T
    <2>1. g[i] = IF i = 1 THEN s[i] ELSE g[i - 1] \o s[i]
        BY FlatStep, Zenon
    <2>2. s[i] \in Seq(S)
        OBVIOUS
    <2>3. i # 1 => g[i - 1] \in Seq(S)
        BY <1>2
    <2>4. g[i] \in Seq(S)
        BY <2>1, <2>2, <2>3
    <2> QED
        BY <2>4
<1>3. \A i \in 0..Len(s) : i \in T
    <2> HIDE DEF T
    <2> QED
        BY <1>1, <1>2, Induction
<1> QED
    BY <1>3

\* The longer sequence is flattened as far as the shorter one goes alike.
LEMMA FlatAgrees ==
    ASSUME NEW S, NEW s \in Seq(Seq(S)), NEW t \in Seq(Seq(S)), Len(s) <= Len(t),
           \A i \in 1..Len(s) : s[i] = t[i],
           NEW g, IsFlat(g, s), NEW h, IsFlat(h, t)
    PROVE  \A i \in 1..Len(s) : g[i] = h[i]
<1> DEFINE T == {i \in 0..Len(s) : i # 0 => g[i] = h[i]}
<1>1. 0 \in T /\ Len(s) \in Nat
    OBVIOUS
<1>2. ASSUME NEW i \in 1..Len(s), i - 1 \in T PROVE i \in T
    <2>1. i \in 1..Len(t)
        OBVIOUS
    <2>2. g[i] = IF i = 1 THEN s[i] ELSE g[i - 1] \o s[i]
        <3>1. IsFlat(g, s)
            OBVIOUS
        <3> HIDE DEF T
        <3> QED
            BY <3>1, FlatStep, ZenonT(30)
    <2>3. h[i] = IF i = 1 THEN t[i] ELSE h[i - 1] \o t[i]
        BY <2>1, FlatStep
    <2>4. i # 1 => g[i - 1] = h[i - 1]
        BY <1>2
    <2> QED
        BY <2>2, <2>3, <2>4
<1>3. \A i \in 0..Len(s) : i \in T
    <2> HIDE DEF T
    <2> QED
        BY <1>1, <1>2, Induction
<1> QED
    BY <1>3

LEMMA FlattenEmpty == \A s : Len(s) = 0 => FlattenSeq(s) = s
    BY DEF FlattenSeq

LEMMA FlattenAppend ==
    ASSUME NEW S, NEW s \in Seq(Seq(S)), NEW x \in Seq(S)
    PROVE  /\ FlattenSeq(s) \in Seq(S)
           /\ FlattenSeq(Append(s, x)) = FlattenSeq(s) \o x
<1> DEFINE t == Append(s, x)
<1>1. /\ t \in Seq(Seq(S)) /\ Len(t) = Len(s) + 1 /\ Len(s) \in Nat /\ t[Len(s) + 1] = x
      /\ \A i \in 1..Len(s) : s[i] = t[i]
    OBVIOUS
<1> HIDE DEF t
<1>2. PICK h : IsFlat(h, t) /\ FlattenSeq(t) = h[Len(t)]
    <2>1. Len(t) # 0
        BY <1>1
    <2> QED
        BY <1>1, <2>1, FlatIs, Zenon
<1>3. CASE Len(s) = 0
    <2>1. s = <<>> /\ FlattenSeq(s) = <<>>
        BY <1>3, FlattenEmpty
    <2>2. h[Len(t)] = x
        <3>1. 1 \in 1..Len(t) /\ Len(t) = 1
            BY <1>1, <1>3
        <3>2. h[1] = IF 1 = 1 THEN t[1] ELSE h[1 - 1] \o t[1]
            BY <1>2, <3>1, FlatStep
        <3> QED
            BY <1>1, <1>3, <3>1, <3>2
    <2>3. <<>> \in Seq(S) /\ <<>> \o x = x
        OBVIOUS
    <2> QED
        BY <1>2, <2>1, <2>2, <2>3 DEF t
<1>4. CASE Len(s) # 0
    <2>1. PICK g : IsFlat(g, s) /\ FlattenSeq(s) = g[Len(s)]
        BY <1>4, FlatIs
    <2>2. Len(t) \in 1..Len(t) /\ Len(t) # 1 /\ Len(t) - 1 = Len(s) /\ Len(s) \in 1..Len(s)
          /\ Len(s) <= Len(t)
        BY <1>1, <1>4
    <2>3. h[Len(t)] = h[Len(s)] \o t[Len(t)]
        <3>1. h[Len(t)] = IF Len(t) = 1 THEN t[Len(t)] ELSE h[Len(t) - 1] \o t[Len(t)]
            BY <1>2, <2>2, FlatStep, Zenon
        <3> QED
            BY <2>2, <3>1
    <2>4. g[Len(s)] = h[Len(s)]
        BY <1>1, <1>2, <2>1, <2>2, FlatAgrees
    <2>5. g[Len(s)] \in Seq(S)
        BY <2>1, <2>2, FlatIsSeq
    <2> QED
        BY <1>1, <1>2, <2>1, <2>3, <2>4, <2>5 DEF t
<1> QED
    BY <1>3, <1>4

-----------------------------------------------------------------------------
(* Tokens and the payload they carry. *)

Kinds == {"b", "bin", "rec", "len", "ext", "head", "cr", "lf", "ping", "pong", "close", "text"}
Tokens == [t : Kinds, v : Seq(Nat)]
CarriedBy(x) == IF x.t \in {"b", "bin"} THEN x.v ELSE <<>>

LEMMA CarriedByIsSeq == \A x \in Tokens : CarriedBy(x) \in Seq(Nat)
    BY DEF Tokens, CarriedBy

LEMMA CarriedIs == \A s : Carried(s) = FlattenSeq([i \in DOMAIN s |-> CarriedBy(s[i])])
    BY DEF Carried, CarriedBy

LEMMA CarriedNext ==
    ASSUME NEW s \in Seq(Tokens), NEW x \in Tokens
    PROVE  /\ Carried(s) \in Seq(Nat)
           /\ Carried(Append(s, x)) = Carried(s) \o CarriedBy(x)
<1> DEFINE c == [i \in 1..Len(s) |-> CarriedBy(s[i])]
           t == Append(s, x)
           d == [i \in 1..Len(t) |-> CarriedBy(t[i])]
<1>1. /\ t \in Seq(Tokens) /\ Len(t) = Len(s) + 1 /\ Len(s) \in Nat /\ t[Len(s) + 1] = x
      /\ \A i \in 1..Len(s) : t[i] = s[i]
    OBVIOUS
<1> HIDE DEF t
<1>2. c \in Seq(Seq(Nat)) /\ Len(c) = Len(s) /\ CarriedBy(x) \in Seq(Nat)
    BY CarriedByIsSeq
<1>3. /\ Append(c, CarriedBy(x)) \in Seq(Seq(Nat)) /\ Len(Append(c, CarriedBy(x))) = Len(s) + 1
      /\ Append(c, CarriedBy(x))[Len(s) + 1] = CarriedBy(x)
      /\ \A i \in 1..Len(s) : Append(c, CarriedBy(x))[i] = CarriedBy(s[i])
    BY <1>2
<1>4. d \in Seq(Seq(Nat)) /\ Len(d) = Len(s) + 1 /\ \A i \in 1..Len(d) : d[i] = CarriedBy(t[i])
    BY <1>1, CarriedByIsSeq
<1>5. d = Append(c, CarriedBy(x))
    <2> HIDE DEF c, d
    <2>1. \A i \in 1..Len(d) : d[i] = Append(c, CarriedBy(x))[i]
        BY <1>1, <1>3, <1>4
    <2> QED
        BY <1>3, <1>4, <2>1, SeqEqual
<1>6. Carried(s) = FlattenSeq(c) /\ Carried(t) = FlattenSeq(d)
    BY <1>1, CarriedIs
<1> HIDE DEF c, d
<1> QED
    BY <1>2, <1>5, <1>6, FlattenAppend DEF t

LEMMA CarriedEmpty == Carried(<<>>) = <<>>
<1>1. [i \in DOMAIN <<>> |-> CarriedBy(<<>>[i])] = <<>>
    OBVIOUS
<1>2. FlattenSeq(<<>>) = <<>>
    BY FlattenEmpty
<1>3. Carried(<<>>) = FlattenSeq([i \in DOMAIN <<>> |-> CarriedBy(<<>>[i])])
    BY CarriedIs, Zenon
<1> QED
    BY <1>1, <1>2, <1>3, Zenon

LEMMA CarriedIsSeq == \A s \in Seq(Tokens) : Carried(s) \in Seq(Nat)
<1> DEFINE x == [t |-> "lf", v |-> <<>>]
<1>1. x \in Tokens
    BY DEF Tokens, Kinds
<1> HIDE DEF x
<1> QED
    BY <1>1, CarriedNext

\* A sequence of tokens is reached from nothing, one after the other.
LEMMA TokenByToken ==
    ASSUME NEW t \in Seq(Tokens), NEW T, 0 \in T,
           \A n \in 1..Len(t) : n - 1 \in T => n \in T
    PROVE  Len(t) \in T
<1>1. Len(t) \in Nat /\ Len(t) \in 0..Len(t)
    OBVIOUS
<1> QED
    BY <1>1, Induction, Zenon

LEMMA SubSeqNext ==
    ASSUME NEW t \in Seq(Tokens), NEW n \in 1..Len(t)
    PROVE  /\ SubSeq(t, 1, n - 1) \in Seq(Tokens) /\ t[n] \in Tokens
           /\ SubSeq(t, 1, n) = Append(SubSeq(t, 1, n - 1), t[n])
    OBVIOUS

LEMMA Associative ==
    ASSUME NEW a \in Seq(Nat), NEW b \in Seq(Nat), NEW c \in Seq(Nat)
    PROVE  (a \o b) \o c = a \o (b \o c)
    BY ConcatAssociative

LEMMA CarriedConcat ==
    ASSUME NEW s \in Seq(Tokens), NEW t \in Seq(Tokens)
    PROVE  Carried(s \o t) = Carried(s) \o Carried(t)
<1> DEFINE P(n) == SubSeq(t, 1, n)
           T == {n \in Nat : Carried(s \o P(n)) = Carried(s) \o Carried(P(n))}
<1>1. 0 \in T
    <2>1. P(0) = <<>> /\ s \o P(0) = s
        OBVIOUS
    <2>2. Carried(s) \o <<>> = Carried(s)
        BY CarriedIsSeq
    <2> QED
        BY <2>1, <2>2, CarriedEmpty
<1>2. ASSUME NEW n \in 1..Len(t), n - 1 \in T PROVE n \in T
    <2> DEFINE p == P(n - 1)
    <2>1. p \in Seq(Tokens) /\ t[n] \in Tokens /\ P(n) = Append(p, t[n])
        BY SubSeqNext
    <2>2. Carried(s \o p) = Carried(s) \o Carried(p)
        BY <1>2
    <2> HIDE DEF p, P
    <2>3. s \o P(n) = Append(s \o p, t[n]) /\ s \o p \in Seq(Tokens)
        BY <2>1
    <2>4. Carried(s \o P(n)) = (Carried(s) \o Carried(p)) \o CarriedBy(t[n])
        BY <2>1, <2>2, <2>3, CarriedNext
    <2>5. Carried(P(n)) = Carried(p) \o CarriedBy(t[n])
        BY <2>1, CarriedNext
    <2>6. (Carried(s) \o Carried(p)) \o CarriedBy(t[n]) = Carried(s) \o (Carried(p) \o CarriedBy(t[n]))
        <3>1. Carried(s) \in Seq(Nat) /\ Carried(p) \in Seq(Nat) /\ CarriedBy(t[n]) \in Seq(Nat)
            BY <2>1, CarriedIsSeq, CarriedByIsSeq
        <3> QED
            BY <3>1, Associative, Zenon
    <2>7. Carried(s \o P(n)) = Carried(s) \o Carried(P(n))
        BY <2>4, <2>5, <2>6, Zenon
    <2> QED
        BY <2>7
<1>3. Len(t) \in T
    <2> HIDE DEF T
    <2> QED
        BY <1>1, <1>2, TokenByToken
<1>4. P(Len(t)) = t
    OBVIOUS
<1> QED
    BY <1>3, <1>4

\* Headers and lengths carry nothing ...
LEMMA CarriedNone ==
    ASSUME NEW t \in Seq(Tokens), \A i \in 1..Len(t) : t[i].t \notin {"b", "bin"}
    PROVE  Carried(t) = <<>>
<1> DEFINE P(n) == SubSeq(t, 1, n)
           T == {n \in Nat : Carried(P(n)) = <<>>}
<1>1. 0 \in T
    <2>1. P(0) = <<>>
        OBVIOUS
    <2> QED
        BY <2>1, CarriedEmpty
<1>2. ASSUME NEW n \in 1..Len(t), n - 1 \in T PROVE n \in T
    <2>1. /\ P(n - 1) \in Seq(Tokens) /\ t[n] \in Tokens /\ P(n) = Append(P(n - 1), t[n])
        BY SubSeqNext
    <2>2. CarriedBy(t[n]) = <<>>
        BY DEF CarriedBy
    <2>3. Carried(P(n - 1)) = <<>>
        BY <1>2
    <2> HIDE DEF P
    <2>4. Carried(P(n)) = <<>> \o <<>>
        BY <2>1, <2>2, <2>3, CarriedNext, Zenon
    <2>5. <<>> \o <<>> = <<>>
        OBVIOUS
    <2> QED
        BY <2>4, <2>5
<1>3. Len(t) \in T
    <2> HIDE DEF T
    <2> QED
        BY <1>1, <1>2, TokenByToken
<1>4. P(Len(t)) = t
    OBVIOUS
<1> QED
    BY <1>3, <1>4

\* ... and a byte carries itself.
LEMMA CarriedBytes ==
    ASSUME NEW t \in Seq(Tokens), NEW a \in Nat,
           \A i \in 1..Len(t) : CarriedBy(t[i]) = <<a + i>>
    PROVE  Carried(t) = [i \in 1..Len(t) |-> a + i]
<1> DEFINE P(n) == SubSeq(t, 1, n)
           T == {n \in Nat : Carried(P(n)) = [i \in 1..n |-> a + i]}
<1>1. 0 \in T
    <2>1. P(0) = <<>> /\ [i \in 1..0 |-> a + i] = <<>>
        OBVIOUS
    <2> QED
        BY <2>1, CarriedEmpty
<1>2. ASSUME NEW n \in 1..Len(t), n - 1 \in T PROVE n \in T
    <2>1. /\ P(n - 1) \in Seq(Tokens) /\ t[n] \in Tokens /\ P(n) = Append(P(n - 1), t[n])
        BY SubSeqNext
    <2>2. CarriedBy(t[n]) = <<a + n>>
        OBVIOUS
    <2>3. Carried(P(n - 1)) = [i \in 1..(n - 1) |-> a + i]
        BY <1>2
    <2> HIDE DEF P
    <2>4. Carried(P(n)) = [i \in 1..(n - 1) |-> a + i] \o <<a + n>>
        BY <2>1, <2>2, <2>3, CarriedNext
    <2>5. [i \in 1..(n - 1) |-> a + i] \o <<a + n>> = [i \in 1..n |-> a + i]
        OBVIOUS
    <2> QED
        BY <2>4, <2>5
<1>3. Len(t) \in T
    <2> HIDE DEF T
    <2> QED
        BY <1>1, <1>2, TokenByToken
<1>4. P(Len(t)) = t
    OBVIOUS
<1> QED
    BY <1>3, <1>4

\* The bytes 1, 2, ..., of which a beginning is again the first so many.
LEMMA NumbersPrefix ==
    ASSUME NEW a \in Seq(Nat), NEW b \in Seq(Nat), NEW n \in Nat, a \o b = Numbers(n)
    PROVE  a = Numbers(Len(a)) /\ Len(a) + Len(b) = n
<1>1. /\ Len(a) \in Nat /\ Len(b) \in Nat /\ Len(a \o b) = Len(a) + Len(b)
      /\ \A i \in 1..Len(a) : (a \o b)[i] = a[i]
    OBVIOUS
<1>2. Numbers(n) \in Seq(Nat) /\ Len(Numbers(n)) = n /\ \A i \in 1..n : Numbers(n)[i] = i
    BY DEF Numbers
<1>3. \A k \in Nat : /\ Numbers(k) \in Seq(Nat) /\ Len(Numbers(k)) = k
                     /\ \A i \in 1..k : Numbers(k)[i] = i
    BY DEF Numbers
<1>4. Len(a) + Len(b) = n
    BY <1>1, <1>2
<1>5. ASSUME NEW i \in 1..Len(a) PROVE a[i] = Numbers(Len(a))[i]
    <2>1. i \in 1..n /\ a[i] = Numbers(n)[i]
        BY <1>1, <1>4
    <2> QED
        BY <1>1, <1>2, <1>3, <2>1
<1>6. a = Numbers(Len(a))
    BY <1>1, <1>3, <1>5, SeqEqual
<1> QED
    BY <1>4, <1>6

LEMMA NumbersNext ==
    ASSUME NEW n \in Nat, NEW m \in Nat
    PROVE  Numbers(n) \o [i \in 1..m |-> n + i] = Numbers(n + m)
    BY DEF Numbers

LEMMA BytesCarry ==
    ASSUME NEW a \in Nat, NEW n \in Nat
    PROVE  /\ Bytes(a + 1, a + n) \in Seq(Tokens) /\ Len(Bytes(a + 1, a + n)) = n
           /\ \A i \in 1..n : Bytes(a + 1, a + n)[i].t = "b"
           /\ \A i \in 1..n : Len(Bytes(a + 1, a + n)[i].v) = 1
           /\ Carried(Bytes(a + 1, a + n)) = [i \in 1..n |-> a + i]
<1> DEFINE s == Bytes(a + 1, a + n)
<1>1. s = [i \in 1..n |-> Tok("b", <<a + i>>)]
    <2>1. (a + n) - (a + 1) + 1 = n /\ \A i \in 1..n : a + 1 + i - 1 = a + i
        OBVIOUS
    <2> QED
        BY <2>1 DEF Bytes
<1> HIDE DEF s
<1>2. \A i \in 1..n : Tok("b", <<a + i>>) \in Tokens
    BY DEF Tok, Tokens, Kinds
<1>3. s \in Seq(Tokens) /\ Len(s) = n /\ \A i \in 1..n : s[i] = Tok("b", <<a + i>>)
    BY <1>1, <1>2
<1>4. \A i \in 1..Len(s) : s[i].t = "b" /\ CarriedBy(s[i]) = <<a + i>>
    BY <1>3 DEF Tok, CarriedBy
<1>5. Carried(s) = [i \in 1..Len(s) |-> a + i]
    BY <1>3, <1>4, CarriedBytes
<1>6. \A i \in 1..n : Len(s[i].v) = 1
    BY <1>3 DEF Tok
<1> QED
    BY <1>3, <1>4, <1>5, <1>6 DEF s

\* Two bytes hold a number below the square of what one holds.
LEMMA TwoBytes ==
    ASSUME NEW n \in 0..(Base * Base - 1)
    PROVE  /\ (n \div Base) % Base \in Nat /\ n % Base \in Nat
           /\ ((n \div Base) % Base) * Base + (n % Base) = n
<1>1. Base \in Nat /\ Base > 0 /\ n \in Nat /\ n < Base * Base
    BY BoundAssumption
<1> DEFINE q == n \div Base
<1>2. q \in Nat /\ q * Base <= n /\ n % Base = n - q * Base /\ n % Base \in Nat
    BY <1>1
<1> HIDE DEF q
<1>3. q < Base
    <2>1. ASSUME q >= Base PROVE FALSE
        <3>1. q * Base >= Base * Base
            BY <1>1, <1>2, <2>1
        <3> QED
            BY <1>1, <1>2, <3>1
    <2> QED
        BY <1>1, <1>2, <2>1
<1>4. q % Base = q
    BY <1>1, <1>2, <1>3
<1> QED
    BY <1>1, <1>2, <1>4 DEF q

\* What the two tokens of a length announce.
Says(x, y) == x.v[1] * Base + y.v[1]

LEMMA LengthSays ==
    ASSUME NEW n \in 0..(Base * Base - 1)
    PROVE  /\ Length2(n) \in Seq(Tokens) /\ Len(Length2(n)) = 2
           /\ Length2(n)[1].t = "len" /\ Length2(n)[2].t = "len"
           /\ Length2(n)[1].v \in Seq(Nat) /\ Length2(n)[2].v \in Seq(Nat)
           /\ Length2(n)[1].v = <<Length2(n)[1].v[1]>> /\ Length2(n)[2].v = <<Length2(n)[2].v[1]>>
           /\ Says(Length2(n)[1], Length2(n)[2]) = n
<1> DEFINE a == (n \div Base) % Base
           b == n % Base
<1>1. a \in Nat /\ b \in Nat /\ a * Base + b = n
    BY TwoBytes
<1>2. Length2(n) = <<[t |-> "len", v |-> <<a>>], [t |-> "len", v |-> <<b>>]>>
    BY DEF Length2, Tok
<1> HIDE DEF a, b
<1> DEFINE x == [t |-> "len", v |-> <<a>>]
           y == [t |-> "len", v |-> <<b>>]
<1>3. x \in Tokens /\ y \in Tokens
    BY <1>1 DEF Tokens, Kinds
<1>4. x.t = "len" /\ y.t = "len" /\ x.v = <<a>> /\ y.v = <<b>>
    OBVIOUS
<1>5. <<a>>[1] = a /\ <<b>>[1] = b /\ <<a>> \in Seq(Nat) /\ <<b>> \in Seq(Nat)
    BY <1>1
<1>6. Says(x, y) = n
    BY <1>1, <1>4, <1>5 DEF Says
<1> HIDE DEF x, y
<1>7. Length2(n) = <<x, y>>
    BY <1>2 DEF x, y
<1>8. <<x, y>> \in Seq(Tokens) /\ Len(<<x, y>>) = 2 /\ <<x, y>>[1] = x /\ <<x, y>>[2] = y
    BY <1>3
<1> QED
    BY <1>4, <1>5, <1>6, <1>7, <1>8

-----------------------------------------------------------------------------
(* Writing. *)

WriteTypes ==
    /\ layer \in Layers /\ offer \in Nat /\ accepted \in Nat /\ pending_input \in Nat
    /\ write_buf \in Seq(Tokens) /\ wire \in Seq(Tokens)

\* All that was ever given to the inner stream or is kept for it.
Sent == wire \o write_buf

\* Every record in a sequence is whole: it announces the payload that follows it, and no
\* other payload comes before the next record.
WholeRecords(s) ==
    \A p \in 1..Len(s) : s[p].t = "rec" =>
        \E n \in Nat :
            /\ p + 2 + n <= Len(s) /\ Says(s[p + 1], s[p + 2]) = n
            /\ s[p + 1].t = "len" /\ s[p + 2].t = "len"
            /\ \A q \in (p + 3)..(p + 2 + n) : s[q].t = "b"
            /\ \A q \in (p + 3 + n)..Len(s) : s[q].t = "b" => \E r \in (p + 1)..q : s[r].t = "rec"

\* What was accepted, and what the frame under way holds, is in what was sent; a frame is
\* under way exactly while something of it is kept.
OrderInv ==
    /\ Carried(Sent) = Numbers(accepted + pending_input)
    /\ pending_input <= offer
    /\ layer = "ws" => pending_input = 0
    /\ layer # "ws" => Len(Carried(wire)) >= accepted
    /\ layer # "ws" /\ writer = "open" => (write_buf = <<>> <=> pending_input = 0)
    /\ writer = "shut" => write_buf = <<>>
    /\ layer = "tls" => WholeRecords(Sent)

WriteInv == WriteTypes /\ OrderInv

\* Two sequences, one behind the other.
Joined(S, s, t, a) ==
    /\ a \in Seq(S) /\ Len(a) = Len(s) + Len(t) /\ Len(s) \in Nat /\ Len(t) \in Nat
    /\ \A i \in 1..Len(s) : a[i] = s[i]
    /\ \A i \in 1..Len(t) : a[Len(s) + i] = t[i]
    /\ \A i \in (Len(s) + 1)..Len(a) : a[i] = t[i - Len(s)]

LEMMA ConcatJoins ==
    ASSUME NEW S, NEW s \in Seq(S), NEW t \in Seq(S)
    PROVE  Joined(S, s, t, s \o t)
    BY DEF Joined

LEMMA NothingBehind == ASSUME NEW s \in Seq(Tokens) PROVE s \o <<>> = s /\ <<>> \in Seq(Tokens)
    OBVIOUS

LEMMA OneToken ==
    ASSUME NEW x \in Tokens
    PROVE  <<x>> \in Seq(Tokens) /\ Len(<<x>>) = 1 /\ <<x>>[1] = x
    OBVIOUS

\* A frame is a head that carries nothing, the bytes, and perhaps a tail.
LEMMA FrameCarries ==
    ASSUME NEW h \in Seq(Tokens), NEW b \in Seq(Tokens), NEW e \in Seq(Tokens),
           \A i \in 1..Len(h) : h[i].t \notin {"b", "bin"},
           \A i \in 1..Len(e) : e[i].t \notin {"b", "bin"}
    PROVE  Carried((h \o b) \o e) = Carried(b)
<1>1. h \o b \in Seq(Tokens)
    OBVIOUS
<1>2. Carried(h) = <<>> /\ Carried(e) = <<>>
    BY CarriedNone
<1>3. Carried((h \o b) \o e) = (Carried(h) \o Carried(b)) \o Carried(e)
    BY <1>1, CarriedConcat, Zenon
<1>4. Carried(b) \in Seq(Nat)
    BY CarriedIsSeq
<1>5. (<<>> \o Carried(b)) \o <<>> = Carried(b)
    BY <1>4, ConcatEmptySeq
<1> QED
    BY <1>2, <1>3, <1>5

LEMMA HttpFrame ==
    ASSUME accepted \in Nat, NEW n \in Nat
    PROVE  /\ BuildHttpRequest(n) \in Seq(Tokens) /\ Len(BuildHttpRequest(n)) >= 1
           /\ Carried(BuildHttpRequest(n)) = [i \in 1..n |-> accepted + i]
<1> DEFINE x == Tok("rec", <<n>>)
           h == <<x>>
           b == Body(n)
<1>1. x \in Tokens /\ x.t = "rec"
    BY DEF Tok, Tokens, Kinds
<1>2. b \in Seq(Tokens) /\ Carried(b) = [i \in 1..n |-> accepted + i] /\ Len(b) = n
    BY BytesCarry DEF Body
<1> HIDE DEF x, b
<1>3. h \in Seq(Tokens) /\ Len(h) = 1 /\ \A i \in 1..Len(h) : h[i].t = "rec"
    BY <1>1
<1>4. BuildHttpRequest(n) = h \o b
    BY DEF BuildHttpRequest, h, x, b
<1> HIDE DEF h
<1>5. h \o b \in Seq(Tokens) /\ Len(h \o b) = 1 + n /\ (h \o b) \o <<>> = h \o b
      /\ <<>> \in Seq(Tokens) /\ Len(<<>>) = 0
    <2>0. Joined(Tokens, h, b, h \o b)
        BY <1>2, <1>3, ConcatJoins, Zenon
    <2>1. h \o b \in Seq(Tokens) /\ Len(h \o b) = 1 + n
        BY <1>2, <1>3, <2>0 DEF Joined
    <2>2. (h \o b) \o <<>> = h \o b /\ <<>> \in Seq(Tokens)
        BY <2>1, NothingBehind, Zenon
    <2>3. Len(<<>>) = 0
        OBVIOUS
    <2> QED
        BY <2>1, <2>2, <2>3
<1>6. Carried((h \o b) \o <<>>) = Carried(b)
    <2>1. \A i \in 1..Len(h) : h[i].t \notin {"b", "bin"}
        BY <1>3
    <2>2. \A i \in 1..Len(<<>>) : <<>>[i].t \notin {"b", "bin"}
        OBVIOUS
    <2> QED
        BY <1>2, <1>3, <1>5, <2>1, <2>2, FrameCarries
<1> QED
    BY <1>2, <1>4, <1>5, <1>6

\* The shape of a record, with or without what follows the session ticket.
IsRecord(f, n) ==
    /\ f \in Seq(Tokens) /\ Len(f) >= 3 + n /\ Says(f[2], f[3]) = n
    /\ f[1].t = "rec" /\ f[2].t = "len" /\ f[3].t = "len"
    /\ \A i \in 4..(3 + n) : f[i].t = "b"
    /\ \A i \in (4 + n)..Len(f) : f[i].t = "ext"

LEMMA TlsFrame ==
    ASSUME accepted \in Nat, NEW n \in 0..(Base * Base - 1), NEW e \in Seq(Tokens),
           \A i \in 1..Len(e) : e[i].t = "ext"
    PROVE  /\ IsRecord(ApplicationData(n) \o e, n)
           /\ Carried(ApplicationData(n) \o e) = [i \in 1..n |-> accepted + i]
<1> DEFINE x == Tok("rec", <<>>)
           l == Length2(n)
           h == <<x>> \o l
           b == Body(n)
<1>0. n \in Nat
    BY BoundAssumption
<1>1. x \in Tokens /\ x.t = "rec"
    BY DEF Tok, Tokens, Kinds
<1>2. /\ b \in Seq(Tokens) /\ Carried(b) = [i \in 1..n |-> accepted + i] /\ Len(b) = n
      /\ \A i \in 1..n : b[i].t = "b"
    BY <1>0, BytesCarry DEF Body
<1>3. /\ l \in Seq(Tokens) /\ Len(l) = 2 /\ l[1].t = "len" /\ l[2].t = "len"
      /\ Says(l[1], l[2]) = n
    BY LengthSays
<1>4. ApplicationData(n) = h \o b
    BY DEF ApplicationData
<1> HIDE DEF x, l, b
<1>5. h \in Seq(Tokens) /\ Len(h) = 3 /\ h[1] = x /\ h[2] = l[1] /\ h[3] = l[2]
    <2>1. <<x>> \in Seq(Tokens) /\ Len(<<x>>) = 1 /\ <<x>>[1] = x
        BY <1>1, OneToken
    <2> DEFINE y == <<x>>
    <2> HIDE DEF y
    <2>2. y \in Seq(Tokens) /\ Len(y) = 1 /\ y[1] = x
        BY <2>1 DEF y
    <2>3. Joined(Tokens, y, l, h)
        <3>1. Joined(Tokens, y, l, y \o l)
            BY <1>3, <2>2, ConcatJoins, Zenon
        <3> QED
            BY <3>1 DEF y
    <2> HIDE DEF h
    <2> QED
        BY <1>3, <2>2, <2>3 DEF Joined
<1> HIDE DEF h
<1>6. /\ h \o b \in Seq(Tokens) /\ Len(h \o b) = 3 + n
      /\ (h \o b)[1] = x /\ (h \o b)[2] = l[1] /\ (h \o b)[3] = l[2]
      /\ \A i \in 4..(3 + n) : (h \o b)[i] = b[i - 3]
    <2>1. Joined(Tokens, h, b, h \o b)
        BY <1>2, <1>5, ConcatJoins, Zenon
    <2> DEFINE a == h \o b
    <2>2. Joined(Tokens, h, b, a)
        BY <2>1
    <2> HIDE DEF a
    <2>3. /\ a \in Seq(Tokens) /\ Len(a) = 3 + n
          /\ a[1] = x /\ a[2] = l[1] /\ a[3] = l[2]
          /\ \A i \in 4..(3 + n) : a[i] = b[i - 3]
        BY <1>0, <1>2, <1>5, <2>2 DEF Joined
    <2> QED
        BY <2>3 DEF a
<1> DEFINE hb == h \o b
           f == hb \o e
<1>7. /\ f \in Seq(Tokens) /\ Len(f) = 3 + n + Len(e) /\ Len(e) \in Nat
      /\ \A i \in 1..(3 + n) : f[i] = hb[i]
      /\ \A i \in (4 + n)..Len(f) : f[i] = e[i - (3 + n)]
    <2>1. hb \in Seq(Tokens) /\ Len(hb) = 3 + n
        BY <1>6
    <2> HIDE DEF hb
    <2>2. Joined(Tokens, hb, e, f)
        BY <2>1, ConcatJoins, Zenon
    <2> HIDE DEF f
    <2> DEFINE k == 3 + n
    <2>3. k \in Nat /\ Len(hb) = k /\ Len(e) \in Nat
        BY <1>0, <2>1 DEF Joined
    <2> HIDE DEF k
    <2>4. /\ f \in Seq(Tokens) /\ Len(f) = k + Len(e)
          /\ \A i \in 1..k : f[i] = hb[i]
          /\ \A i \in (k + 1)..Len(f) : f[i] = e[i - k]
        BY <2>2, <2>3 DEF Joined
    <2>5. k + 1 = 4 + n
        BY <1>0 DEF k
    <2> QED
        BY <2>3, <2>4, <2>5 DEF k
<1>71. /\ hb[1] = x /\ hb[2] = l[1] /\ hb[3] = l[2]
       /\ \A i \in 4..(3 + n) : hb[i] = b[i - 3]
    BY <1>6
<1> HIDE DEF hb
<1> HIDE DEF f
<1>8. \A i \in 4..(3 + n) : f[i].t = "b"
    <2>1. ASSUME NEW i \in 4..(3 + n) PROVE f[i] = b[i - 3] /\ i - 3 \in 1..n
        BY <1>0, <1>7, <1>71
    <2> QED
        BY <1>2, <2>1
<1>9. \A i \in (4 + n)..Len(f) : f[i].t = "ext"
    <2>1. ASSUME NEW i \in (4 + n)..Len(f) PROVE f[i] = e[i - (3 + n)] /\ i - (3 + n) \in 1..Len(e)
        <3>1. i - (3 + n) \in 1..Len(e)
            <4> HIDE DEF f
            <4>1. Len(f) = 3 + n + Len(e) /\ Len(e) \in Nat
                BY <1>7
            <4> QED
                BY <1>0, <4>1
        <3> QED
            BY <1>7, <3>1
    <2> QED
        BY <2>1
<1>10. f[1] = x /\ f[2] = l[1] /\ f[3] = l[2]
    BY <1>0, <1>7, <1>71
<1>11. IsRecord(f, n)
    BY <1>0, <1>1, <1>3, <1>7, <1>8, <1>9, <1>10 DEF IsRecord
<1>12. Carried(f) = Carried(b)
    <2>1. \A i \in 1..Len(h) : h[i].t \notin {"b", "bin"}
        <3>1. \A i \in 1..3 : i = 1 \/ i = 2 \/ i = 3
            OBVIOUS
        <3> QED
            BY <1>1, <1>3, <1>5, <3>1
    <2>2. \A i \in 1..Len(e) : e[i].t \notin {"b", "bin"}
        OBVIOUS
    <2> QED
        BY <1>2, <1>5, <2>1, <2>2, FrameCarries DEF f, hb
<1> QED
    BY <1>2, <1>4, <1>11, <1>12 DEF f, hb

\* A record behind whole records.
LEMMA RecordBehind ==
    ASSUME NEW s \in Seq(Tokens), WholeRecords(s), NEW n \in Nat, NEW f, IsRecord(f, n)
    PROVE  WholeRecords(s \o f)
<1> DEFINE a == s \o f
           k == Len(s)
<1>1. f \in Seq(Tokens) /\ Len(f) >= 3 + n /\ Len(f) \in Nat /\ k \in Nat
    BY DEF IsRecord
<1>2. /\ a \in Seq(Tokens) /\ Len(a) = k + Len(f)
      /\ \A i \in 1..k : a[i] = s[i]
      /\ \A i \in 1..Len(f) : a[k + i] = f[i]
      /\ \A i \in (k + 1)..Len(a) : a[i] = f[i - k]
    <2>1. Joined(Tokens, s, f, a)
        BY <1>1, ConcatJoins, Zenon
    <2> HIDE DEF a
    <2> QED
        BY <1>1, <2>1 DEF Joined
<1> HIDE DEF a
<1>3. a[k + 1].t = "rec" /\ k + 1 \in 1..Len(a)
    <2>1. 1 \in 1..Len(f) /\ k + 1 \in 1..Len(a)
        BY <1>1, <1>2
    <2>2. a[k + 1] = f[1]
        BY <1>2, <2>1
    <2> QED
        BY <2>1, <2>2 DEF IsRecord
<1> HIDE DEF k
<1>4. ASSUME NEW p \in 1..Len(a), a[p].t = "rec"
      PROVE  \E m \in Nat :
                /\ p + 2 + m <= Len(a) /\ Says(a[p + 1], a[p + 2]) = m
                /\ a[p + 1].t = "len" /\ a[p + 2].t = "len"
                /\ \A q \in (p + 3)..(p + 2 + m) : a[q].t = "b"
                /\ \A q \in (p + 3 + m)..Len(a) : a[q].t = "b" =>
                       \E r \in (p + 1)..q : a[r].t = "rec"
    <2>1. CASE p <= k
        <3>1. p \in 1..k /\ s[p].t = "rec"
            BY <1>1, <1>2, <1>4, <2>1
        <3>2. PICK m \in Nat :
                /\ p + 2 + m <= k /\ Says(s[p + 1], s[p + 2]) = m
                /\ s[p + 1].t = "len" /\ s[p + 2].t = "len"
                /\ \A q \in (p + 3)..(p + 2 + m) : s[q].t = "b"
                /\ \A q \in (p + 3 + m)..k : s[q].t = "b" => \E r \in (p + 1)..q : s[r].t = "rec"
            BY <3>1 DEF WholeRecords, k
        <3>3. p + 1 \in 1..k /\ p + 2 \in 1..k /\ p + 2 + m <= Len(a)
            BY <1>1, <1>2, <3>1, <3>2
        <3>4. ASSUME NEW q \in (p + 3)..(p + 2 + m) PROVE a[q].t = "b"
            <4>1. q \in 1..k
                BY <1>1, <3>1, <3>2
            <4> QED
                BY <1>2, <3>2, <4>1
        <3>5. ASSUME NEW q \in (p + 3 + m)..Len(a), a[q].t = "b"
              PROVE  \E r \in (p + 1)..q : a[r].t = "rec"
            <4>1. CASE q <= k
                <5>1. q \in (p + 3 + m)..k /\ q \in 1..k
                    BY <1>1, <3>1, <4>1
                <5>2. PICK r \in (p + 1)..q : s[r].t = "rec"
                    BY <1>2, <3>2, <3>5, <5>1
                <5>3. r \in 1..k
                    BY <1>1, <3>1, <5>1
                <5> QED
                    BY <1>2, <5>2, <5>3
            <4>2. CASE q > k
                <5>1. k + 1 \in (p + 1)..q
                    BY <1>1, <3>1, <4>2
                <5> QED
                    BY <1>3, <5>1
            <4>3. q <= k \/ q > k
                BY <1>1, <3>1
            <4> QED
                BY <4>1, <4>2, <4>3
        <3>6. a[p + 1] = s[p + 1] /\ a[p + 2] = s[p + 2]
            BY <1>2, <3>3
        <3> QED
            BY <3>2, <3>3, <3>4, <3>5, <3>6
    <2>2. CASE p > k
        <3>1. p = k + 1
            <4>1. p - k \in 1..Len(f) /\ f[p - k].t = "rec"
                BY <1>1, <1>2, <1>4, <2>2
            <4>2. \A i \in 1..Len(f) : i = 1 \/ i = 2 \/ i = 3 \/ i \in 4..(3 + n)
                                       \/ i \in (4 + n)..Len(f)
                BY <1>1
            <4>3. p - k = 1
                BY <4>1, <4>2 DEF IsRecord
            <4> QED
                BY <1>1, <4>3
        <3>2. 2 \in 1..Len(f) /\ 3 \in 1..Len(f) /\ p + 1 = k + 2 /\ p + 2 = k + 3
            BY <1>1, <3>1
        <3>3. a[p + 1] = f[2] /\ a[p + 2] = f[3]
            BY <1>2, <3>2
        <3>4. p + 2 + n <= Len(a)
            BY <1>1, <1>2, <3>1
        <3>5. ASSUME NEW q \in (p + 3)..(p + 2 + n) PROVE a[q].t = "b"
            <4>1. q \in (k + 1)..Len(a) /\ q - k \in 4..(3 + n)
                BY <1>1, <1>2, <3>1, <3>4
            <4> QED
                BY <1>2, <4>1 DEF IsRecord
        <3>6. ASSUME NEW q \in (p + 3 + n)..Len(a), a[q].t = "b" PROVE FALSE
            <4>1. q \in (k + 1)..Len(a) /\ q - k \in (4 + n)..Len(f)
                BY <1>1, <1>2, <3>1
            <4> QED
                BY <1>2, <3>6, <4>1 DEF IsRecord
        <3> QED
            BY <3>3, <3>4, <3>5, <3>6 DEF IsRecord
    <2> QED
        BY <1>1, <2>1, <2>2
<1>5. WholeRecords(a)
    BY <1>4 DEF WholeRecords
<1> QED
    BY <1>5 DEF a

LEMMA TokensAssociative ==
    ASSUME NEW a \in Seq(Tokens), NEW b \in Seq(Tokens), NEW c \in Seq(Tokens)
    PROVE  (a \o b) \o c = a \o (b \o c)
    BY ConcatAssociative

\* A sequence of tokens is its beginning and the rest.
LEMMA SplitAt ==
    ASSUME NEW s \in Seq(Tokens), NEW m \in 0..Len(s)
    PROVE  /\ SubSeq(s, 1, m) \in Seq(Tokens) /\ SubSeq(s, m + 1, Len(s)) \in Seq(Tokens)
           /\ Len(SubSeq(s, 1, m)) = m /\ Len(SubSeq(s, m + 1, Len(s))) = Len(s) - m
           /\ SubSeq(s, 1, m) \o SubSeq(s, m + 1, Len(s)) = s
           /\ m = Len(s) => SubSeq(s, 1, m) = s
           /\ SubSeq(s, m + 1, Len(s)) = <<>> <=> m = Len(s)
<1>1. SubSeq(s, 1, m) \in Seq(Tokens) /\ SubSeq(s, m + 1, Len(s)) \in Seq(Tokens)
    OBVIOUS
<1>2. Len(SubSeq(s, 1, m)) = m /\ Len(SubSeq(s, m + 1, Len(s))) = Len(s) - m
    OBVIOUS
<1>3. SubSeq(s, 1, m) \o SubSeq(s, m + 1, Len(s)) = s
    <2>1. /\ 1 \in 1..(Len(s) + 1) /\ m \in (1 - 1)..Len(s) /\ Len(s) \in m..Len(s)
        OBVIOUS
    <2>2. SubSeq(s, 1, m) \o SubSeq(s, m + 1, Len(s)) = SubSeq(s, 1, Len(s))
        BY <2>1, ConcatAdjacentSubSeq, Zenon
    <2> QED
        BY <2>2, SubSeqFull
<1>4. m = Len(s) => SubSeq(s, 1, m) = s
    OBVIOUS
<1>5. SubSeq(s, m + 1, Len(s)) = <<>> <=> m = Len(s)
    <2> DEFINE c == SubSeq(s, m + 1, Len(s))
    <2>1. c \in Seq(Tokens) /\ Len(c) = Len(s) - m /\ Len(s) \in Nat
        BY <1>1, <1>2
    <2> HIDE DEF c
    <2>2. c = <<>> <=> m = Len(s)
        BY <2>1
    <2> QED
        BY <2>2 DEF c
<1> QED
    BY <1>1, <1>2, <1>3, <1>4, <1>5

\* What the inner stream takes and what stays are together what there was.
LEMMA Drained ==
    ASSUME WriteTypes, NEW buf \in Seq(Tokens), NEW m \in 0..Len(buf), Drain(buf, m)
    PROVE  /\ wire' \in Seq(Tokens) /\ write_buf' \in Seq(Tokens)
           /\ Sent' = wire \o buf /\ wire \o buf \in Seq(Tokens)
           /\ (write_buf' = <<>> <=> m = Len(buf))
           /\ m = Len(buf) => wire' = wire \o buf
           /\ Len(Carried(wire')) >= Len(Carried(wire)) /\ Len(Carried(wire)) \in Nat
<1> DEFINE a == SubSeq(buf, 1, m)
           c == SubSeq(buf, m + 1, Len(buf))
<1>1. /\ a \in Seq(Tokens) /\ c \in Seq(Tokens) /\ a \o c = buf /\ (c = <<>> <=> m = Len(buf))
      /\ m = Len(buf) => a = buf
    BY SplitAt, Zenon
<1>2. wire' = wire \o a /\ write_buf' = c
    BY DEF Drain, Cut
<1> HIDE DEF a, c
<1>3. wire \in Seq(Tokens)
    BY DEF WriteTypes
<1>4. wire \o a \in Seq(Tokens) /\ wire \o buf \in Seq(Tokens)
    BY <1>1, <1>3
<1>5. (wire \o a) \o c = wire \o (a \o c)
    BY <1>1, <1>3, TokensAssociative, Zenon
<1>6. Carried(wire') = Carried(wire) \o Carried(a)
    BY <1>1, <1>2, <1>3, CarriedConcat, Zenon
<1>7. Carried(wire) \in Seq(Nat) /\ Carried(a) \in Seq(Nat)
    BY <1>1, <1>3, CarriedIsSeq, Zenon
<1>8. Len(Carried(wire) \o Carried(a)) >= Len(Carried(wire)) /\ Len(Carried(wire)) \in Nat
    BY <1>7
<1> QED
    BY <1>1, <1>2, <1>4, <1>5, <1>6, <1>8 DEF Sent

\* A frame holds the next bytes of the write.
LEMMA FrameIs ==
    ASSUME WriteTypes, layer \in {"http", "tls"}, offer > 0
    PROVE  /\ Take \in 1..offer
           /\ Frame(Take) \in Seq(Tokens) /\ Len(Frame(Take)) >= 1
           /\ Carried(Frame(Take)) = [i \in 1..Take |-> accepted + i]
           /\ layer = "tls" => IsRecord(Frame(Take), Take)
<1> DEFINE n == Take
<1>1. n \in 1..offer /\ (layer = "tls" => n \in 0..(Base * Base - 1))
    <2>1. offer \in Nat /\ Chunk \in Nat /\ Chunk >= 1 /\ Chunk <= Base * Base - 1
          /\ Base * Base - 1 \in Int
        BY BoundAssumption DEF WriteTypes
    <2>2. n = IF layer = "tls" THEN (IF offer < Chunk THEN offer ELSE Chunk) ELSE offer
        BY DEF Take, Least
    <2> HIDE DEF n
    <2> QED
        BY <2>1, <2>2
<1> HIDE DEF n
<1>2. accepted \in Nat /\ n \in Nat
    BY <1>1 DEF WriteTypes
<1>3. CASE layer = "http"
    <2>1. Frame(n) = BuildHttpRequest(n)
        BY <1>3 DEF Frame
    <2> QED
        BY <1>1, <1>2, <1>3, <2>1, HttpFrame DEF n
<1>4. CASE layer = "tls"
    <2>1. PICK e \in Seq(Tokens) : /\ \A i \in 1..Len(e) : e[i].t = "ext"
                                   /\ Frame(n) = ApplicationData(n) \o e
        <3>1. CASE first_request
            <4>1. Frame(n) = ApplicationData(n) \o <<Tok("ext", <<>>)>>
                BY <1>4, <3>1 DEF Frame, BuildClientHello
            <4>2. Tok("ext", <<>>) \in Tokens /\ Tok("ext", <<>>).t = "ext"
                BY DEF Tok, Tokens, Kinds
            <4> DEFINE x == Tok("ext", <<>>)
                       e == <<x>>
            <4>3. e \in Seq(Tokens) /\ Len(e) = 1 /\ e[1].t = "ext"
                BY <4>2, OneToken
            <4>4. Frame(n) = ApplicationData(n) \o e
                BY <4>1
            <4> HIDE DEF x, e
            <4>5. \A i \in 1..Len(e) : e[i].t = "ext"
                BY <4>3
            <4> QED
                BY <4>3, <4>4, <4>5
        <3>2. CASE ~first_request
            <4>1. Frame(n) = ApplicationData(n)
                BY <1>4, <3>2 DEF Frame
            <4>2. ApplicationData(n) \in Seq(Tokens)
                <5>1. Tok("rec", <<>>) \in Tokens
                    BY DEF Tok, Tokens, Kinds
                <5>2. Length2(n) \in Seq(Tokens) /\ Body(n) \in Seq(Tokens)
                    BY <1>1, <1>2, <1>4, LengthSays, BytesCarry DEF Body
                <5>3. <<Tok("rec", <<>>)>> \in Seq(Tokens)
                    BY <5>1, OneToken
                <5>4. <<Tok("rec", <<>>)>> \o Length2(n) \in Seq(Tokens)
                    BY <5>2, <5>3
                <5>5. (<<Tok("rec", <<>>)>> \o Length2(n)) \o Body(n) \in Seq(Tokens)
                    BY <5>2, <5>4
                <5> QED
                    BY <5>5 DEF ApplicationData
            <4>3. ApplicationData(n) \o <<>> = ApplicationData(n) /\ <<>> \in Seq(Tokens)
                BY <4>2, NothingBehind, Zenon
            <4>4. \A i \in 1..Len(<<>>) : <<>>[i].t = "ext"
                OBVIOUS
            <4> QED
                BY <4>1, <4>3, <4>4
        <3> QED
            BY <3>1, <3>2
    <2>2. /\ IsRecord(ApplicationData(n) \o e, n)
          /\ Carried(ApplicationData(n) \o e) = [i \in 1..n |-> accepted + i]
        BY <1>1, <1>2, <1>4, <2>1, TlsFrame, Zenon
    <2>3. IsRecord(Frame(n), n) /\ Carried(Frame(n)) = [i \in 1..n |-> accepted + i]
        BY <2>1, <2>2
    <2>4. Frame(n) \in Seq(Tokens) /\ Len(Frame(n)) >= 1
        BY <1>2, <2>3 DEF IsRecord
    <2> QED
        BY <1>1, <2>3, <2>4 DEF n
<1> QED
    BY <1>3, <1>4

\* poll_drain_write_buf with a frame that holds the next `take` bytes.
LEMMA SendKeeps ==
    ASSUME WriteTypes, NEW buf \in Seq(Tokens), NEW m \in 0..Len(buf), NEW take \in 1..offer,
           Carried(wire \o buf) = Numbers(accepted + take), Len(Carried(wire)) >= accepted,
           layer # "ws", layer' = layer, writer = "open", writer' = writer,
           layer = "tls" => WholeRecords(wire \o buf),
           Send(buf, take, m)
    PROVE  WriteInv'
<1>1. offer \in Nat /\ accepted \in Nat /\ layer \in Layers /\ take \in Nat /\ take <= offer /\ take # 0
    BY DEF WriteTypes
<1>2. Drain(buf, m)
    BY DEF Send
<1>3. /\ wire' \in Seq(Tokens) /\ write_buf' \in Seq(Tokens) /\ Sent' = wire \o buf
      /\ (write_buf' = <<>> <=> m = Len(buf)) /\ (m = Len(buf) => wire' = wire \o buf)
      /\ Len(Carried(wire')) >= Len(Carried(wire)) /\ Len(Carried(wire)) \in Nat
    BY <1>2, Drained
<1>4. CASE m = Len(buf)
    <2>1. accepted' = accepted + take /\ offer' = offer - take /\ pending_input' = 0
        BY <1>4 DEF Send, Report
    <2>2. Len(Carried(wire')) = accepted'
        <3>1. Carried(wire') = Numbers(accepted')
            <4>1. Carried(wire') = Carried(wire \o buf)
                BY <1>3, <1>4, Zenon
            <4> QED
                BY <2>1, <4>1
        <3>2. accepted' \in Nat
            BY <1>1, <2>1
        <3> QED
            BY <3>1, <3>2 DEF Numbers
    <2>3. WriteTypes'
        BY <1>1, <1>3, <2>1 DEF WriteTypes
    <2>4. accepted' + pending_input' = accepted + take /\ pending_input' <= offer'
          /\ Len(Carried(wire')) >= accepted'
        BY <1>1, <2>1, <2>2
    <2>5. Carried(Sent') = Numbers(accepted' + pending_input')
        BY <1>3, <2>4
    <2>6. layer' = "tls" => WholeRecords(Sent')
        BY <1>3
    <2> QED
        <3>1. layer' # "ws" /\ writer' = "open" /\ write_buf' = <<>> /\ pending_input' = 0
            BY <1>3, <1>4, <2>1
        <3>2. OrderInv'
            BY <2>4, <2>5, <2>6, <3>1 DEF OrderInv
        <3> QED
            BY <2>3, <3>2 DEF WriteInv
<1>5. CASE m # Len(buf)
    <2>1. accepted' = accepted /\ offer' = offer /\ pending_input' = take
        BY <1>5 DEF Send
    <2>2. Len(Carried(wire')) >= accepted'
        <3>1. Len(Carried(wire')) \in Nat
            <4>1. Carried(wire') \in Seq(Nat)
                BY <1>3, CarriedIsSeq, Zenon
            <4> QED
                BY <4>1
        <3> QED
            BY <1>1, <1>3, <2>1, <3>1
    <2>3. WriteTypes'
        BY <1>1, <1>3, <2>1 DEF WriteTypes
    <2>5. Carried(Sent') = Numbers(accepted' + pending_input')
        BY <1>3, <2>1
    <2>6. layer' = "tls" => WholeRecords(Sent')
        BY <1>3
    <2> QED
        <3>1. layer' # "ws" /\ writer' = "open" /\ write_buf' # <<>> /\ pending_input' # 0
              /\ pending_input' <= offer'
            BY <1>1, <1>3, <1>5, <2>1
        <3>2. OrderInv'
            BY <2>2, <2>5, <2>6, <3>1 DEF OrderInv
        <3> QED
            BY <2>3, <3>2 DEF WriteInv
<1> QED
    BY <1>4, <1>5

LEMMA WriteStarts == Init => WriteInv
<1> SUFFICES ASSUME Init PROVE WriteInv
    OBVIOUS
<1>1. layer \in Layers /\ offer = 0 /\ accepted = 0 /\ pending_input = 0 /\ write_buf = <<>>
      /\ wire = <<>> /\ writer = "open"
    BY DEF Init
<1>2. Sent = <<>> /\ <<>> \in Seq(Tokens)
    BY <1>1 DEF Sent
<1>3. Numbers(0) = <<>>
    BY DEF Numbers
<1>4. Carried(<<>>) = <<>> /\ Len(<<>>) = 0
    BY CarriedEmpty
<1>5. WholeRecords(<<>>)
    BY DEF WholeRecords
<1> QED
    BY <1>1, <1>2, <1>3, <1>4, <1>5 DEF WriteInv, WriteTypes, OrderInv

\* A step that moves nothing of what was written.
LEMMA WriteStays ==
    ASSUME WriteInv, layer' = layer, accepted' = accepted, pending_input' = pending_input,
           wire' = wire, write_buf' = write_buf, writer' = writer \/ writer' = "failed",
           offer' \in Nat, offer' >= offer
    PROVE  WriteInv'
<1>1. Sent' = Sent
    BY DEF Sent
<1>2. WriteTypes'
    BY DEF WriteInv, WriteTypes
<1>3. offer \in Nat /\ pending_input \in Nat
    BY DEF WriteInv, WriteTypes
<1>4. pending_input' <= offer'
    BY <1>3 DEF WriteInv, OrderInv
<1>5. Carried(Sent') = Numbers(accepted' + pending_input')
    BY <1>1 DEF WriteInv, OrderInv
<1>6. layer' = "tls" => WholeRecords(Sent')
    BY <1>1 DEF WriteInv, OrderInv
<1>7. layer' # "ws" => Len(Carried(wire')) >= accepted'
    BY DEF WriteInv, OrderInv
<1> QED
    BY <1>2, <1>4, <1>5, <1>6, <1>7 DEF WriteInv, OrderInv, WholeRecords

\* The bytes of a write that is under way, behind all that was sent before.
LEMMA NextBytes ==
    ASSUME NEW s \in Seq(Tokens), NEW f \in Seq(Tokens), NEW a \in Nat, NEW n \in Nat,
           Carried(s) = Numbers(a), Carried(f) = [i \in 1..n |-> a + i]
    PROVE  Carried(s \o f) = Numbers(a + n) /\ s \o f \in Seq(Tokens)
<1>1. Carried(s \o f) = Carried(s) \o Carried(f)
    BY CarriedConcat, Zenon
<1>2. Numbers(a) \o [i \in 1..n |-> a + i] = Numbers(a + n)
    BY NumbersNext, Zenon
<1>3. s \o f \in Seq(Tokens)
    OBVIOUS
<1> QED
    BY <1>1, <1>2, <1>3

LEMMA FrameStep ==
    ASSUME WriteInv, writer = "open", writer' = writer, layer' = layer, NEW m \in Nat, offer > 0,
           FinishFrame(m) \/ StartFrame(m)
    PROVE  WriteInv'
<1>1. /\ WriteTypes /\ OrderInv /\ layer \in {"http", "tls", "ws"} /\ offer \in Nat
      /\ accepted \in Nat /\ pending_input \in Nat /\ wire \in Seq(Tokens)
      /\ write_buf \in Seq(Tokens)
    BY BoundAssumption DEF WriteInv, WriteTypes
<1>2. CASE FinishFrame(m)
    <2>1. layer # "ws" /\ write_buf # <<>> /\ m <= Len(write_buf) /\ Send(write_buf, pending_input, m)
        BY <1>2 DEF FinishFrame
    <2>2. pending_input \in 1..offer
        <3>1. pending_input # 0 /\ pending_input <= offer
            BY <1>1, <2>1 DEF OrderInv
        <3> QED
            BY <1>1, <3>1
    <2>3. m \in 0..Len(write_buf)
        BY <1>1, <2>1
    <2>4. /\ Carried(wire \o write_buf) = Numbers(accepted + pending_input)
          /\ Len(Carried(wire)) >= accepted
          /\ layer = "tls" => WholeRecords(wire \o write_buf)
        BY <1>1, <2>1 DEF OrderInv, Sent
    <2> QED
        BY <1>1, <2>1, <2>2, <2>3, <2>4, SendKeeps, Zenon
<1>3. CASE StartFrame(m)
    <2> DEFINE f == Frame(Take)
    <2>1. /\ layer \in {"http", "tls"} /\ write_buf = <<>> /\ m <= Len(f) /\ Send(f, Take, m)
        BY <1>3 DEF StartFrame
    <2>2. /\ Take \in 1..offer /\ f \in Seq(Tokens)
          /\ Carried(f) = [i \in 1..Take |-> accepted + i]
          /\ layer = "tls" => IsRecord(f, Take)
        BY <1>1, <2>1, FrameIs
    <2> HIDE DEF f
    <2>3. layer # "ws" /\ pending_input = 0
        BY <1>1, <2>1 DEF OrderInv
    <2>4. Sent = wire
        BY <1>1, <2>1, NothingBehind DEF Sent
    <2>5. /\ Carried(wire) = Numbers(accepted) /\ Len(Carried(wire)) >= accepted
          /\ layer = "tls" => WholeRecords(wire)
        BY <1>1, <2>3, <2>4 DEF OrderInv
    <2>6. Take \in Nat
        BY <1>1, <2>2
    <2>7. Carried(wire \o f) = Numbers(accepted + Take)
        BY <1>1, <2>2, <2>5, <2>6, NextBytes, ZenonT(40)
    <2>8. layer = "tls" => WholeRecords(wire \o f)
        BY <1>1, <2>2, <2>5, <2>6, RecordBehind, Zenon
    <2>9. m \in 0..Len(f)
        BY <2>1, <2>2
    <2> QED
        BY <1>1, <2>1, <2>2, <2>3, <2>5, <2>7, <2>8, <2>9, SendKeeps, Zenon
<1> QED
    BY <1>2, <1>3

LEMMA PassStep ==
    ASSUME WriteInv, writer = "open", writer' = writer, layer' = layer, NEW m \in Nat, offer > 0,
           PassThrough(m)
    PROVE  WriteInv'
<1>1. /\ WriteTypes /\ OrderInv /\ offer \in Nat /\ accepted \in Nat /\ wire \in Seq(Tokens)
    BY DEF WriteInv, WriteTypes
<1>2. /\ layer = "http" /\ write_buf = <<>> /\ m \in 1..offer
      /\ wire' = wire \o Bytes(accepted + 1, accepted + m) /\ write_buf' = <<>>
      /\ accepted' = accepted + m /\ offer' = offer - m /\ pending_input' = 0
    BY DEF PassThrough, Report
<1>3. pending_input = 0 /\ Sent = wire
    BY <1>1, <1>2, NothingBehind DEF OrderInv, Sent
<1>4. Carried(wire) = Numbers(accepted)
    BY <1>1, <1>3 DEF OrderInv
<1>5. /\ Bytes(accepted + 1, accepted + m) \in Seq(Tokens)
      /\ Carried(Bytes(accepted + 1, accepted + m)) = [i \in 1..m |-> accepted + i]
    BY <1>1, BytesCarry
<1>6. Carried(wire') = Numbers(accepted + m) /\ wire' \in Seq(Tokens)
    BY <1>1, <1>2, <1>4, <1>5, NextBytes, Zenon
<1>7. Sent' = wire'
    BY <1>2, <1>6, NothingBehind DEF Sent
<1>8. WriteTypes'
    <2>1. accepted' \in Nat /\ offer' \in Nat /\ pending_input' \in Nat /\ write_buf' \in Seq(Tokens)
        BY <1>1, <1>2
    <2> QED
        BY <1>1, <1>6, <2>1 DEF WriteTypes
<1>9. accepted' + pending_input' = accepted' /\ pending_input' <= offer'
    BY <1>1, <1>2
<1>10. Len(Carried(wire')) >= accepted'
    <2>1. Len(Numbers(accepted')) = accepted' /\ accepted' \in Nat
        BY <1>1, <1>2 DEF Numbers
    <2> QED
        BY <1>2, <1>6, <2>1
<1>11. Carried(Sent') = Numbers(accepted' + pending_input')
    BY <1>2, <1>6, <1>7, <1>9
<1>12. OrderInv'
    BY <1>2, <1>9, <1>10, <1>11 DEF OrderInv
<1> QED
    BY <1>8, <1>12 DEF WriteInv

\* The payload of a message is the bytes of the write.
LEMMA MessageCarries ==
    ASSUME NEW a \in Nat, NEW n \in Nat
    PROVE  /\ Tok("bin", Payload(Bytes(a + 1, a + n))) \in Tokens
           /\ CarriedBy(Tok("bin", Payload(Bytes(a + 1, a + n)))) = [i \in 1..n |-> a + i]
<1> DEFINE s == Bytes(a + 1, a + n)
<1>1. /\ s \in Seq(Tokens) /\ Len(s) = n /\ \A i \in 1..n : s[i].t = "b"
      /\ Carried(s) = [i \in 1..n |-> a + i]
    BY BytesCarry
<1> HIDE DEF s
<1>2. DOMAIN s = 1..n
    BY <1>1
<1>3. [i \in DOMAIN s |-> IF s[i].t \in {"b", "bin"} THEN s[i].v ELSE <<0>>]
        = [i \in DOMAIN s |-> IF s[i].t \in {"b", "bin"} THEN s[i].v ELSE <<>>]
    BY <1>1, <1>2
<1>4. Payload(s) = Carried(s)
    BY <1>3 DEF Payload, Carried
<1>5. Payload(s) \in Seq(Nat)
    BY <1>1, <1>4, CarriedIsSeq, Zenon
<1>6. Tok("bin", Payload(s)) \in Tokens /\ CarriedBy(Tok("bin", Payload(s))) = Payload(s)
    BY <1>5 DEF Tok, Tokens, Kinds, CarriedBy
<1> QED
    BY <1>1, <1>4, <1>6 DEF s

LEMMA OneMoreBehind ==
    ASSUME NEW s \in Seq(Tokens), NEW t \in Seq(Tokens), NEW x \in Tokens
    PROVE  /\ Append(t, x) \in Seq(Tokens) /\ s \o t \in Seq(Tokens)
           /\ s \o Append(t, x) = Append(s \o t, x)
    OBVIOUS

LEMMA MessageStep ==
    ASSUME WriteInv, writer = "open", writer' = writer, layer' = layer, NEW m \in Nat, offer > 0,
           SendMessage(m)
    PROVE  WriteInv'
<1>1. /\ WriteTypes /\ OrderInv /\ offer \in Nat /\ accepted \in Nat /\ wire \in Seq(Tokens)
      /\ write_buf \in Seq(Tokens)
    BY DEF WriteInv, WriteTypes
<1> DEFINE x == Tok("bin", Payload(Bytes(accepted + 1, accepted + offer)))
           all == Append(write_buf, x)
<1>2. /\ layer = "ws" /\ m <= Len(all) /\ Drain(all, m)
      /\ accepted' = accepted + offer /\ offer' = offer - offer /\ pending_input' = 0
    BY DEF SendMessage, Report
<1>3. x \in Tokens /\ CarriedBy(x) = [i \in 1..offer |-> accepted + i]
    BY <1>1, MessageCarries
<1> HIDE DEF x
<1>4. all \in Seq(Tokens) /\ wire \o write_buf \in Seq(Tokens)
      /\ wire \o all = Append(wire \o write_buf, x)
    BY <1>1, <1>3, OneMoreBehind, Zenon
<1> HIDE DEF all
<1>5. m \in 0..Len(all)
    BY <1>2, <1>4
<1>6. /\ wire' \in Seq(Tokens) /\ write_buf' \in Seq(Tokens) /\ Sent' = wire \o all
    BY <1>1, <1>2, <1>4, <1>5, Drained
<1>7. pending_input = 0 /\ Carried(wire \o write_buf) = Numbers(accepted)
    BY <1>1, <1>2 DEF OrderInv, Sent
<1>8. Carried(Sent') = Numbers(accepted + offer)
    <2>1. Carried(Append(wire \o write_buf, x)) = Carried(wire \o write_buf) \o CarriedBy(x)
        BY <1>3, <1>4, CarriedNext, Zenon
    <2>2. Numbers(accepted) \o [i \in 1..offer |-> accepted + i] = Numbers(accepted + offer)
        BY <1>1, NumbersNext, Zenon
    <2> QED
        BY <1>3, <1>4, <1>6, <1>7, <2>1, <2>2, Zenon
<1>9. WriteTypes'
    <2>1. accepted' \in Nat /\ offer' \in Nat /\ pending_input' \in Nat
        BY <1>1, <1>2
    <2> QED
        BY <1>1, <1>6, <2>1 DEF WriteTypes
<1>10. accepted' + pending_input' = accepted + offer /\ pending_input' <= offer'
    BY <1>1, <1>2
<1>11. OrderInv'
    BY <1>2, <1>8, <1>10 DEF OrderInv
<1> QED
    BY <1>9, <1>11 DEF WriteInv

\* poll_flush finds something kept only in the sink of a WebSocket.
LEMMA FlushStep == ASSUME WriteInv, PollFlush PROVE WriteInv'
<1>1. /\ WriteTypes /\ OrderInv /\ offer = 0 /\ write_buf # <<>> /\ writer = "open"
      /\ layer' = layer /\ offer' = offer /\ accepted' = accepted
      /\ pending_input' = pending_input /\ writer' = writer
      /\ write_buf \in Seq(Tokens) /\ pending_input \in Nat
    BY DEF WriteInv, WriteTypes, PollFlush
<1>2. PICK m \in 1..Len(write_buf) : Drain(write_buf, m)
    BY DEF PollFlush
<1>3. pending_input = 0 /\ layer = "ws"
    <2>1. pending_input = 0
        BY <1>1 DEF OrderInv
    <2> QED
        BY <1>1, <2>1 DEF OrderInv
<1>4. wire' \in Seq(Tokens) /\ write_buf' \in Seq(Tokens) /\ Sent' = Sent
    <2>1. m \in 0..Len(write_buf)
        OBVIOUS
    <2> QED
        BY <1>1, <1>2, <2>1, Drained DEF Sent
<1>5. WriteTypes'
    BY <1>1, <1>4 DEF WriteTypes
<1>6. OrderInv'
    BY <1>1, <1>3, <1>4 DEF OrderInv
<1> QED
    BY <1>5, <1>6 DEF WriteInv

LEMMA ShutdownStep == ASSUME WriteInv, PollShutdown PROVE WriteInv'
<1>1. /\ WriteTypes /\ OrderInv /\ writer = "open"
      /\ layer' = layer /\ offer' = offer /\ accepted' = accepted
      /\ pending_input' = pending_input
      /\ write_buf \in Seq(Tokens) /\ pending_input \in Nat /\ accepted \in Nat
    BY DEF WriteInv, WriteTypes, PollShutdown
<1>2. PICK m \in 0..Len(write_buf) :
          /\ Drain(write_buf, m) /\ writer' = IF m = Len(write_buf) THEN "shut" ELSE "open"
    BY DEF PollShutdown
<1>3. /\ wire' \in Seq(Tokens) /\ write_buf' \in Seq(Tokens) /\ Sent' = Sent
      /\ (write_buf' = <<>> <=> m = Len(write_buf))
      /\ Len(Carried(wire')) >= Len(Carried(wire)) /\ Len(Carried(wire)) \in Nat
    BY <1>1, <1>2, Drained DEF Sent
<1>4. WriteTypes'
    BY <1>1, <1>3 DEF WriteTypes
<1>5. layer # "ws" => Len(Carried(wire')) >= accepted'
    <2>1. Len(Carried(wire')) \in Nat
        <3>1. Carried(wire') \in Seq(Nat)
            BY <1>3, CarriedIsSeq, Zenon
        <3> QED
            BY <3>1
    <2>2. layer # "ws" => Len(Carried(wire)) >= accepted
        BY <1>1 DEF OrderInv
    <2> QED
        BY <1>1, <1>3, <2>1, <2>2
<1>6. writer' = "open" => write_buf # <<>> /\ write_buf' # <<>>
    BY <1>1, <1>2, <1>3
<1>7. writer' = "shut" => write_buf' = <<>>
    BY <1>2, <1>3
<1>8. layer # "ws" /\ writer' = "open" => (write_buf' = <<>> <=> pending_input' = 0)
    BY <1>1, <1>6 DEF OrderInv
<1>9. OrderInv'
    BY <1>1, <1>3, <1>5, <1>7, <1>8 DEF OrderInv
<1> QED
    BY <1>4, <1>9 DEF WriteInv

\* A reader touches the writer's half only to answer a ping, which carries nothing.
LEMMA ReaderAnswers == ASSUME WriteInv, PollRead PROVE WriteInv'
<1>1. /\ WriteTypes /\ OrderInv
      /\ layer' = layer /\ offer' = offer /\ accepted' = accepted /\ wire' = wire
      /\ pending_input' = pending_input /\ writer' = writer
      /\ offer \in Nat /\ write_buf \in Seq(Tokens) /\ wire \in Seq(Tokens)
    BY DEF WriteInv, WriteTypes, PollRead
<1>2. \/ write_buf' = write_buf
      \/ /\ layer = "ws" /\ writer = "open" /\ write_buf' = Append(write_buf, Tok("pong", <<>>))
    BY DEF PollRead, WsMessage
<1>3. CASE write_buf' = write_buf
    <2>1. offer' >= offer
        BY <1>1
    <2> QED
        BY <1>1, <1>3, <2>1, WriteStays
<1>4. CASE layer = "ws" /\ writer = "open" /\ write_buf' = Append(write_buf, Tok("pong", <<>>))
    <2> DEFINE x == Tok("pong", <<>>)
    <2>1. x \in Tokens /\ CarriedBy(x) = <<>>
        BY DEF Tok, Tokens, Kinds, CarriedBy
    <2> HIDE DEF x
    <2>2. write_buf' = Append(write_buf, x)
        BY <1>4 DEF x
    <2>3. /\ Append(write_buf, x) \in Seq(Tokens) /\ wire \o write_buf \in Seq(Tokens)
          /\ wire \o Append(write_buf, x) = Append(wire \o write_buf, x)
        BY <1>1, <2>1, OneMoreBehind, Zenon
    <2>4. Carried(Sent') = Carried(Sent)
        <3>1. Sent' = Append(wire \o write_buf, x)
            BY <1>1, <2>2, <2>3 DEF Sent
        <3>2. /\ Carried(Append(wire \o write_buf, x)) = Carried(wire \o write_buf) \o <<>>
              /\ Carried(wire \o write_buf) \in Seq(Nat)
            BY <2>1, <2>3, CarriedNext, Zenon
        <3>3. Carried(wire \o write_buf) \o <<>> = Carried(wire \o write_buf)
            BY <3>2, ConcatEmptySeq
        <3> QED
            BY <3>1, <3>2, <3>3 DEF Sent
    <2>5. WriteTypes'
        BY <1>1, <2>2, <2>3 DEF WriteTypes
    <2>6. OrderInv'
        BY <1>1, <1>4, <2>4 DEF OrderInv
    <2> QED
        BY <2>5, <2>6 DEF WriteInv
<1> QED
    BY <1>2, <1>3, <1>4

LEMMA WriteStep == WriteInv /\ [Next]_vars => WriteInv'
<1> SUFFICES ASSUME WriteInv, [Next]_vars PROVE WriteInv'
    OBVIOUS
<1>0. offer \in Nat /\ accepted \in Nat
    BY DEF WriteInv, WriteTypes
<1>1. CASE Arrive \/ Close
    <2>1. /\ layer' = layer /\ accepted' = accepted /\ pending_input' = pending_input
          /\ wire' = wire /\ write_buf' = write_buf /\ writer' = writer /\ offer' = offer
        BY <1>1 DEF Arrive, Close, writeVars
    <2> QED
        BY <1>0, <2>1, WriteStays
<1>2. CASE Offer
    <2>1. /\ layer' = layer /\ accepted' = accepted /\ pending_input' = pending_input
          /\ wire' = wire /\ write_buf' = write_buf /\ writer' = writer
          /\ offer' \in (offer + 1)..(MaxOut - accepted)
        BY <1>2 DEF Offer
    <2>2. offer' \in Nat /\ offer' >= offer
        BY <1>0, <2>1, BoundAssumption
    <2> QED
        BY <2>1, <2>2, WriteStays
<1>3. CASE PollWrite
    <2>1. writer = "open" /\ offer > 0 /\ layer' = layer /\ writer' = writer
        BY <1>3 DEF PollWrite
    <2>2. PICK m \in 0..(MaxOut + 4) :
              FinishFrame(m) \/ StartFrame(m) \/ PassThrough(m) \/ SendMessage(m)
        BY <1>3 DEF PollWrite
    <2>3. m \in Nat
        BY BoundAssumption
    <2> QED
        BY <2>1, <2>2, <2>3, FrameStep, PassStep, MessageStep, Zenon
<1>4. CASE PollFlush
    BY <1>4, FlushStep
<1>5. CASE PollShutdown
    BY <1>5, ShutdownStep
<1>6. CASE WriteFails
    <2>1. /\ layer' = layer /\ accepted' = accepted /\ pending_input' = pending_input
          /\ wire' = wire /\ write_buf' = write_buf /\ writer' = "failed" /\ offer' = offer
        BY <1>6 DEF WriteFails
    <2> QED
        BY <1>0, <2>1, WriteStays
<1>7. CASE PollRead
    BY <1>7, ReaderAnswers
<1>8. CASE UNCHANGED vars
    <2>1. /\ layer' = layer /\ accepted' = accepted /\ pending_input' = pending_input
          /\ wire' = wire /\ write_buf' = write_buf /\ writer' = writer /\ offer' = offer
        BY <1>8 DEF vars, writeVars
    <2> QED
        BY <1>0, <2>1, WriteStays
<1> QED
    BY <1>1, <1>2, <1>3, <1>4, <1>5, <1>6, <1>7, <1>8 DEF Next

\* What the invariant says of the payload on the wire, and of its records.
LEMMA InOrderFollows == WriteInv => WrittenInOrder
<1> SUFFICES ASSUME WriteInv PROVE WrittenInOrder
    OBVIOUS
<1>1. /\ WriteTypes /\ OrderInv /\ offer \in Nat /\ accepted \in Nat /\ pending_input \in Nat
      /\ wire \in Seq(Tokens) /\ write_buf \in Seq(Tokens)
    BY DEF WriteInv, WriteTypes
<1> DEFINE k == Len(Carried(wire))
           r == Len(Carried(write_buf))
<1>2. Carried(wire) = Numbers(k) /\ k + r = accepted + pending_input /\ k \in Nat /\ r \in Nat
    <2>1. Carried(wire \o write_buf) = Carried(wire) \o Carried(write_buf)
        BY <1>1, CarriedConcat, Zenon
    <2>2. Carried(wire) \in Seq(Nat) /\ Carried(write_buf) \in Seq(Nat)
        BY <1>1, CarriedIsSeq, Zenon
    <2>3. Carried(wire) \o Carried(write_buf) = Numbers(accepted + pending_input)
        BY <1>1, <2>1 DEF OrderInv, Sent
    <2>4. accepted + pending_input \in Nat
        BY <1>1
    <2>5. Carried(wire) = Numbers(Len(Carried(wire)))
          /\ Len(Carried(wire)) + Len(Carried(write_buf)) = accepted + pending_input
        BY <2>2, <2>3, <2>4, NumbersPrefix, Zenon
    <2> QED
        BY <2>2, <2>5
<1>3. write_buf = <<>> => r = 0
    BY CarriedEmpty
<1> HIDE DEF k, r
<1>4. k <= accepted + offer
    BY <1>1, <1>2 DEF OrderInv
<1>5. layer # "ws" => k >= accepted
    BY <1>1 DEF OrderInv, k
<1>6. layer = "ws" /\ write_buf = <<>> => k = accepted
    BY <1>1, <1>2, <1>3 DEF OrderInv
<1>7. FramesFit
    <2> SUFFICES ASSUME layer = "tls", NEW p \in DOMAIN wire, wire[p].t = "rec", p + 2 <= Len(wire)
                 PROVE  LET n == wire[p + 1].v[1] * Base + wire[p + 2].v[1]
                            body == {q \in (p + 3)..Len(wire) : wire[q].t = "b"
                                         /\ \A i \in (p + 1)..q : wire[i].t # "rec"}
                        IN  /\ \A q \in body : q <= p + 2 + n
                            /\ (writer = "shut" \/ \E q \in (p + 3)..Len(wire) : wire[q].t = "rec")
                                   => \A q \in (p + 3)..(p + 2 + n) : q \in body
        BY DEF FramesFit
    <2> DEFINE s == Sent
               w == Len(wire)
               n == wire[p + 1].v[1] * Base + wire[p + 2].v[1]
               body == {q \in (p + 3)..Len(wire) : wire[q].t = "b"
                            /\ \A i \in (p + 1)..q : wire[i].t # "rec"}
    <2>1. Joined(Tokens, wire, write_buf, s)
        BY <1>1, ConcatJoins, Zenon DEF Sent
    <2>2. w \in Nat /\ p \in 1..w /\ WholeRecords(s)
        BY <1>1 DEF OrderInv
    <2>3. Len(s) >= w /\ Len(s) \in Nat /\ (\A i \in 1..w : s[i] = wire[i])
          /\ (write_buf = <<>> => Len(s) = w)
        BY <1>1, <2>1 DEF Joined
    <2>4. s[p + 1] = wire[p + 1] /\ s[p + 2] = wire[p + 2] /\ s[p].t = "rec" /\ p \in 1..Len(s)
        BY <2>2, <2>3
    <2>5. Says(s[p + 1], s[p + 2]) = n
        BY <2>4 DEF Says
    <2> HIDE DEF s, n
    <2>6. /\ n \in Nat /\ p + 2 + n <= Len(s)
          /\ s[p + 1].t = "len" /\ s[p + 2].t = "len"
          /\ \A q \in (p + 3)..(p + 2 + n) : s[q].t = "b"
          /\ \A q \in (p + 3 + n)..Len(s) : s[q].t = "b" => \E i \in (p + 1)..q : s[i].t = "rec"
        BY <2>2, <2>4, <2>5 DEF WholeRecords
    <2>7. ASSUME NEW q \in body PROVE q <= p + 2 + n
        <3>1. q \in (p + 3)..w /\ wire[q].t = "b" /\ \A i \in (p + 1)..q : wire[i].t # "rec"
            OBVIOUS
        <3>2. q \in 1..w /\ \A i \in (p + 1)..q : i \in 1..w
            BY <2>2, <3>1
        <3>3. s[q].t = "b" /\ \A i \in (p + 1)..q : s[i].t # "rec"
            BY <2>3, <3>1, <3>2
        <3>4. q \notin (p + 3 + n)..Len(s)
            BY <2>6, <3>3
        <3> QED
            BY <2>2, <2>3, <2>6, <3>1, <3>4
    <2>8. ASSUME writer = "shut" \/ \E q \in (p + 3)..w : wire[q].t = "rec",
                 NEW q \in (p + 3)..(p + 2 + n)
          PROVE  q \in body
        <3>1. p + 2 + n <= w
            <4>1. CASE writer = "shut"
                BY <1>1, <2>3, <2>6, <4>1 DEF OrderInv
            <4>2. CASE \E i \in (p + 3)..w : wire[i].t = "rec"
                <5>1. PICK i \in (p + 3)..w : wire[i].t = "rec"
                    BY <4>2
                <5>2. i \in 1..w /\ s[i].t = "rec"
                    BY <2>2, <2>3, <5>1
                <5>3. i \notin (p + 3)..(p + 2 + n)
                    BY <2>6, <5>2
                <5> QED
                    BY <2>2, <2>6, <5>3
            <4> QED
                BY <2>8, <4>1, <4>2
        <3>2. q \in (p + 3)..w /\ q \in 1..w
            BY <2>2, <2>6, <3>1
        <3>3. wire[q].t = "b"
            BY <2>3, <2>6, <3>2
        <3>4. ASSUME NEW i \in (p + 1)..q PROVE wire[i].t # "rec"
            <4>1. i \in 1..w /\ (i = p + 1 \/ i = p + 2 \/ i \in (p + 3)..(p + 2 + n))
                <5>1. p \in Nat /\ w \in Nat /\ n \in Nat /\ p + 2 + n <= w
                    BY <2>2, <2>6, <3>1
                <5> HIDE DEF w, body
                <5> QED
                    BY <5>1
            <4>2. s[i].t \in {"len", "b"}
                BY <2>6, <4>1
            <4> QED
                BY <2>3, <4>1, <4>2
        <3> QED
            BY <3>2, <3>3, <3>4
    <2> QED
        BY <2>7, <2>8 DEF n
<1> QED
    BY <1>2, <1>4, <1>5, <1>6, <1>7 DEF WrittenInOrder, Written, k

\* However the polls are cut, the payload on the wire is the caller's bytes in order, and
\* every record is as long as it says (poll_write, poll_shutdown of the three wrappers).
THEOREM AlwaysWrittenInOrder == Spec => []WrittenInOrder
<1> QED
    BY WriteStarts, WriteStep, InOrderFollows, PTL DEF Spec

-----------------------------------------------------------------------------
(* What a peer sends. *)

LEMMA OneMore ==
    ASSUME NEW S, NEW s \in Seq(S), NEW n \in 1..Len(s)
    PROVE  /\ SubSeq(s, 1, n - 1) \in Seq(S) /\ s[n] \in S
           /\ SubSeq(s, 1, n) = Append(SubSeq(s, 1, n - 1), s[n])
    OBVIOUS

\* What holds of nothing and of each piece behind what holds of the pieces before it, holds
\* of the pieces flattened; G[k] is what may be flattened of the first k.
LEMMA FlatInduction ==
    ASSUME NEW S, NEW s \in Seq(Seq(S)), NEW G, <<>> \in G[0],
           \A k \in 1..Len(s) : \A a \in Seq(S) : a \in G[k - 1] => a \o s[k] \in G[k]
    PROVE  FlattenSeq(s) \in G[Len(s)] /\ FlattenSeq(s) \in Seq(S)
<1> DEFINE P(n) == SubSeq(s, 1, n)
           T == {n \in Nat : FlattenSeq(P(n)) \in G[n] /\ FlattenSeq(P(n)) \in Seq(S)}
<1>1. 0 \in T
    <2>1. P(0) = <<>> /\ <<>> \in Seq(S) /\ Len(<<>>) = 0
        OBVIOUS
    <2>2. FlattenSeq(<<>>) = <<>>
        BY <2>1, FlattenEmpty
    <2> QED
        BY <2>1, <2>2
<1>2. ASSUME NEW n \in 1..Len(s), n - 1 \in T PROVE n \in T
    <2>1. P(n - 1) \in Seq(Seq(S)) /\ s[n] \in Seq(S) /\ P(n) = Append(P(n - 1), s[n])
        BY OneMore, Zenon
    <2>2. FlattenSeq(P(n - 1)) \in G[n - 1] /\ FlattenSeq(P(n - 1)) \in Seq(S)
        BY <1>2
    <2> HIDE DEF P
    <2>3. FlattenSeq(P(n)) = FlattenSeq(P(n - 1)) \o s[n]
        BY <2>1, FlattenAppend, Zenon
    <2>4. FlattenSeq(P(n - 1)) \o s[n] \in G[n]
        BY <2>2, Zenon
    <2>5. FlattenSeq(P(n - 1)) \o s[n] \in Seq(S)
        BY <2>1, <2>2
    <2>6. n \in Nat
        OBVIOUS
    <2> QED
        BY <2>3, <2>4, <2>5, <2>6
<1>3. Len(s) \in Nat
    OBVIOUS
<1>4. \A n \in 0..Len(s) : n \in T
    <2> HIDE DEF T
    <2>1. \A k \in 1..Len(s) : k - 1 \in T => k \in T
        BY <1>2
    <2> QED
        BY <1>1, <1>3, <2>1, Induction, Zenon
<1>5. Len(s) \in T /\ P(Len(s)) = s
    BY <1>3, <1>4
<1> QED
    BY <1>5

\* How much the frames before one hold together.
IsHeld(g, f) == g = [i \in 0..Len(f) |-> IF i = 0 THEN 0 ELSE g[i - 1] + f[i]]

LEMMA HeldExists == ASSUME NEW f \in Seq(Nat) PROVE \E g : IsHeld(g, f)
<1> DEFINE Partly(g, n) == g = [i \in 0..n |-> IF i = 0 THEN 0 ELSE g[i - 1] + f[i]]
           N == {n \in Nat : \E g : Partly(g, n)}
<1>1. 0 \in N
    <2>1. Partly([i \in 0..0 |-> 0], 0)
        OBVIOUS
    <2> QED
        BY <2>1
<1>2. ASSUME NEW n \in Nat \ {0}, n - 1 \in N PROVE n \in N
    <2>1. PICK g : Partly(g, n - 1)
        BY <1>2
    <2> DEFINE h == [i \in 0..n |-> IF i = 0 THEN 0 ELSE g[i - 1] + f[i]]
    <2>2. ASSUME NEW i \in 0..(n - 1) PROVE h[i] = g[i]
        <3>1. i \in 0..n
            OBVIOUS
        <3>2. g[i] = IF i = 0 THEN 0 ELSE g[i - 1] + f[i]
            BY <2>1
        <3> QED
            BY <3>1, <3>2
    <2>3. \A i \in 0..n : i # 0 => i - 1 \in 0..(n - 1)
        OBVIOUS
    <2>4. Partly(h, n)
        BY <2>2, <2>3
    <2> QED
        BY <2>4
<1>3. Len(f) \in Nat
    OBVIOUS
<1>4. Len(f) \in N
    <2> HIDE DEF N
    <2>1. \A k \in 1..Len(f) : k - 1 \in N => k \in N
        BY <1>2
    <2>2. \A k \in 0..Len(f) : k \in N
        BY <1>1, <1>3, <2>1, Induction, Zenon
    <2> QED
        BY <1>3, <2>2
<1> QED
    BY <1>4 DEF IsHeld

LEMMA BeforeIs ==
    ASSUME NEW f \in Seq(Nat)
    PROVE  /\ Before(f, 1) = 0
           /\ \A k \in 1..Len(f) : /\ Before(f, k) \in Nat
                                   /\ Before(f, k + 1) = Before(f, k) + f[k]
           /\ Before(f, Len(f) + 1) \in Nat
<1> DEFINE g == CHOOSE g : IsHeld(g, f)
<1>1. IsHeld(g, f)
    BY HeldExists, Zenon
<1>2. \A k : Before(f, k) = g[k - 1]
    BY DEF Before, IsHeld
<1> HIDE DEF g
<1>3. g[0] = 0 /\ Len(f) \in Nat /\ \A i \in 1..Len(f) : g[i] = g[i - 1] + f[i]
    BY <1>1 DEF IsHeld
<1> DEFINE T == {i \in 0..Len(f) : g[i] \in Nat}
<1>4. 0 \in T
    BY <1>3
<1>5. ASSUME NEW i \in 1..Len(f), i - 1 \in T PROVE i \in T
    <2>1. f[i] \in Nat /\ g[i] = g[i - 1] + f[i] /\ g[i - 1] \in Nat
        BY <1>3, <1>5
    <2> QED
        BY <2>1
<1>6. \A i \in 0..Len(f) : i \in T
    <2> HIDE DEF T
    <2>1. \A k \in 1..Len(f) : k - 1 \in T => k \in T
        BY <1>5
    <2> QED
        BY <1>3, <1>4, <2>1, Induction, Zenon
<1>7. \A k \in 1..(Len(f) + 1) : Before(f, k) \in Nat
    <2>1. ASSUME NEW k \in 1..(Len(f) + 1) PROVE Before(f, k) \in Nat
        <3>1. k - 1 \in 0..Len(f)
            BY <1>3
        <3>2. k - 1 \in T
            BY <1>6, <3>1
        <3> QED
            BY <1>2, <3>2
    <2> QED
        BY <2>1
<1>8. Before(f, 1) = 0
    <2>1. Before(f, 1) = g[1 - 1] /\ 1 - 1 = 0
        BY <1>2
    <2> QED
        BY <1>3, <2>1
<1>9. ASSUME NEW k \in 1..Len(f) PROVE Before(f, k + 1) = Before(f, k) + f[k]
    <2>1. Before(f, k + 1) = g[k + 1 - 1] /\ k + 1 - 1 = k /\ Before(f, k) = g[k - 1]
        BY <1>2
    <2> QED
        BY <1>3, <2>1
<1>10. Len(f) + 1 \in 1..(Len(f) + 1) /\ \A k \in 1..Len(f) : k \in 1..(Len(f) + 1)
    BY <1>3
<1> QED
    BY <1>7, <1>8, <1>9, <1>10

\* Single values, flattened.
LEMMA FlatSingles ==
    ASSUME NEW s \in Seq(Seq(Nat)), NEW w \in Seq(Nat), Len(w) = Len(s),
           \A i \in 1..Len(s) : Len(s[i]) = 1 /\ s[i][1] = w[i]
    PROVE  FlattenSeq(s) = w
<1> DEFINE G == [k \in 0..Len(s) |-> {a \in Seq(Nat) : Len(a) = k /\ \A i \in 1..k : a[i] = w[i]}]
<1>1. <<>> \in G[0]
    OBVIOUS
<1>2. ASSUME NEW k \in 1..Len(s), NEW a \in Seq(Nat), a \in G[k - 1] PROVE a \o s[k] \in G[k]
    <2>1. Len(a) = k - 1 /\ \A i \in 1..(k - 1) : a[i] = w[i]
        BY <1>2
    <2> DEFINE x == s[k]
    <2>2. x \in Seq(Nat) /\ Len(x) = 1 /\ x[1] = w[k]
        OBVIOUS
    <2> HIDE DEF x
    <2>3. /\ a \o x \in Seq(Nat) /\ Len(a \o x) = k /\ (\A i \in 1..(k - 1) : (a \o x)[i] = a[i])
          /\ (a \o x)[k] = x[1]
        <3>1. Joined(Nat, a, x, a \o x)
            BY <2>2, ConcatJoins, Zenon
        <3> DEFINE b == a \o x
        <3>2. Joined(Nat, a, x, b)
            BY <3>1
        <3> HIDE DEF b
        <3>3. /\ b \in Seq(Nat) /\ Len(b) = k /\ (\A i \in 1..(k - 1) : b[i] = a[i])
              /\ b[k] = x[1]
            BY <2>1, <2>2, <3>2 DEF Joined
        <3> QED
            BY <3>3 DEF b
    <2>4. \A i \in 1..k : i \in 1..(k - 1) \/ i = k
        OBVIOUS
    <2>5. \A i \in 1..k : (a \o x)[i] = w[i]
        BY <2>1, <2>2, <2>3, <2>4
    <2>6. k \in 0..Len(s)
        OBVIOUS
    <2> QED
        BY <2>3, <2>5, <2>6 DEF x
<1>3. FlattenSeq(s) \in G[Len(s)] /\ Len(s) \in 0..Len(s)
    <2> HIDE DEF G
    <2>1. \A k \in 1..Len(s) : \A a \in Seq(Nat) : a \in G[k - 1] => a \o s[k] \in G[k]
        BY <1>2
    <2>2. FlattenSeq(s) \in G[Len(s)]
        BY <1>1, <2>1, FlatInduction, Zenon
    <2> QED
        BY <2>2
<1>4. FlattenSeq(s) \in Seq(Nat) /\ Len(FlattenSeq(s)) = Len(s)
      /\ \A i \in 1..Len(s) : FlattenSeq(s)[i] = w[i]
    BY <1>3
<1> DEFINE r == FlattenSeq(s)
<1> HIDE DEF r
<1>5. r \in Seq(Nat) /\ Len(r) = Len(w) /\ \A i \in 1..Len(r) : r[i] = w[i]
    BY <1>4 DEF r
<1>6. r = w
    BY <1>5, SeqEqual
<1> QED
    BY <1>6 DEF r

\* A piece of payload: whole bytes, and the next of the numbers.
IsBody(s) == /\ s \in Seq(Tokens)
             /\ \A i \in 1..Len(s) : s[i].t = "b" /\ Len(s[i].v) = 1

LEMMA FrameIsBody ==
    ASSUME NEW f \in Seq(Nat), NEW k \in 1..Len(f)
    PROVE  /\ IsBody(FrameBytes(f, k)) /\ Len(FrameBytes(f, k)) = f[k]
           /\ Carried(FrameBytes(f, k)) = [i \in 1..f[k] |-> Before(f, k) + i]
<1>1. Before(f, k) \in Nat /\ f[k] \in Nat
    BY BeforeIs
<1> DEFINE a == Before(f, k)
           n == f[k]
<1> HIDE DEF a, n
<1>2. /\ Bytes(a + 1, a + n) \in Seq(Tokens) /\ Len(Bytes(a + 1, a + n)) = n
      /\ \A i \in 1..n : Bytes(a + 1, a + n)[i].t = "b"
      /\ \A i \in 1..n : Len(Bytes(a + 1, a + n)[i].v) = 1
      /\ Carried(Bytes(a + 1, a + n)) = [i \in 1..n |-> a + i]
    <2>1. a \in Nat /\ n \in Nat
        BY <1>1 DEF a, n
    <2> QED
        BY <2>1, BytesCarry, Zenon
<1>3. FrameBytes(f, k) = Bytes(a + 1, a + n)
    BY DEF FrameBytes, a, n
<1> QED
    BY <1>2, <1>3 DEF IsBody, a, n

LEMMA BodiesJoin ==
    ASSUME NEW s, NEW t, IsBody(s), IsBody(t)
    PROVE  IsBody(s \o t)
<1>1. Joined(Tokens, s, t, s \o t)
    BY ConcatJoins, Zenon DEF IsBody
<1> DEFINE a == s \o t
<1>2. Joined(Tokens, s, t, a)
    BY <1>1
<1> HIDE DEF a
<1>3. ASSUME NEW i \in 1..Len(a) PROVE a[i].t = "b" /\ Len(a[i].v) = 1
    <2>1. i \in 1..Len(s) \/ (i \in (Len(s) + 1)..Len(a) /\ i - Len(s) \in 1..Len(t))
        BY <1>2 DEF Joined
    <2> QED
        BY <1>2, <2>1 DEF Joined, IsBody
<1>4. IsBody(a)
    BY <1>2, <1>3 DEF IsBody, Joined
<1> QED
    BY <1>4 DEF a

\* What the pieces of a body come to, if each carries the bytes of its frame.
LEMMA NextFrame ==
    ASSUME NEW f \in Seq(Nat), NEW k \in 1..Len(f), NEW a \in Seq(Tokens), NEW p \in Seq(Tokens),
           Carried(a) = Numbers(Before(f, k)),
           Carried(p) = [i \in 1..f[k] |-> Before(f, k) + i]
    PROVE  Carried(a \o p) = Numbers(Before(f, k + 1))
<1>1. Before(f, k) \in Nat /\ f[k] \in Nat /\ Before(f, k + 1) = Before(f, k) + f[k]
    BY BeforeIs
<1>2. Carried(a \o p) = Numbers(Before(f, k) + f[k])
    BY <1>1, NextBytes, Zenon
<1> QED
    BY <1>1, <1>2

LEMMA FramesAreBody ==
    ASSUME NEW f \in Seq(Nat)
    PROVE  /\ IsBody(FlattenSeq([k \in DOMAIN f |-> FrameBytes(f, k)]))
           /\ Carried(FlattenSeq([k \in DOMAIN f |-> FrameBytes(f, k)])) = Numbers(Before(f, Len(f) + 1))
<1> DEFINE s == [k \in DOMAIN f |-> FrameBytes(f, k)]
           G == [k \in 0..Len(f) |-> {a \in Seq(Tokens) : IsBody(a) /\ Carried(a) = Numbers(Before(f, k + 1))}]
<1>1. s \in Seq(Seq(Tokens)) /\ Len(s) = Len(f) /\ Len(f) \in Nat
      /\ \A k \in 1..Len(f) : s[k] = FrameBytes(f, k)
    <2>1. DOMAIN f = 1..Len(f) /\ Len(f) \in Nat
        OBVIOUS
    <2>2. \A k \in 1..Len(f) : FrameBytes(f, k) \in Seq(Tokens)
        BY FrameIsBody DEF IsBody
    <2> QED
        BY <2>1, <2>2
<1> HIDE DEF s
<1>2. <<>> \in G[0]
    <2>1. Numbers(0) = <<>> /\ Before(f, 0 + 1) = 0
        BY BeforeIs DEF Numbers
    <2>2. IsBody(<<>>)
        BY DEF IsBody
    <2>3. 0 \in 0..Len(f) /\ <<>> \in Seq(Tokens)
        BY <1>1
    <2> QED
        BY <2>1, <2>2, <2>3, CarriedEmpty
<1>3. ASSUME NEW k \in 1..Len(s), NEW a \in Seq(Tokens), a \in G[k - 1] PROVE a \o s[k] \in G[k]
    <2>1. k \in 1..Len(f) /\ k - 1 \in 0..Len(f) /\ k - 1 + 1 = k /\ k \in 0..Len(f)
        BY <1>1
    <2>2. IsBody(a) /\ Carried(a) = Numbers(Before(f, k))
        BY <1>3, <2>1
    <2>3. /\ IsBody(s[k]) /\ s[k] \in Seq(Tokens)
          /\ Carried(s[k]) = [i \in 1..f[k] |-> Before(f, k) + i]
        <3>1. s[k] = FrameBytes(f, k)
            BY <1>1, <2>1
        <3>2. /\ IsBody(FrameBytes(f, k))
              /\ Carried(FrameBytes(f, k)) = [i \in 1..f[k] |-> Before(f, k) + i]
            BY <2>1, FrameIsBody, Zenon
        <3>3. IsBody(s[k]) /\ Carried(s[k]) = [i \in 1..f[k] |-> Before(f, k) + i]
            BY <3>1, <3>2, Zenon
        <3> QED
            BY <3>3, Zenon DEF IsBody
    <2>4. IsBody(a \o s[k])
        BY <2>2, <2>3, BodiesJoin, Zenon
    <2>5. Carried(a \o s[k]) = Numbers(Before(f, k + 1))
        BY <2>1, <2>2, <2>3, NextFrame, Zenon
    <2>6. a \o s[k] \in Seq(Tokens)
        BY <2>4 DEF IsBody
    <2> QED
        BY <2>1, <2>4, <2>5, <2>6
<1>4. FlattenSeq(s) \in G[Len(f)]
    <2> HIDE DEF G
    <2>1. \A k \in 1..Len(s) : \A a \in Seq(Tokens) : a \in G[k - 1] => a \o s[k] \in G[k]
        BY <1>3
    <2>2. FlattenSeq(s) \in G[Len(s)]
        BY <1>1, <1>2, <2>1, FlatInduction, Zenon
    <2> QED
        BY <1>1, <2>2
<1>5. Len(f) \in 0..Len(f)
    BY <1>1
<1>6. IsBody(FlattenSeq(s)) /\ Carried(FlattenSeq(s)) = Numbers(Before(f, Len(f) + 1))
    BY <1>4, <1>5
<1> QED
    BY <1>6 DEF s

-----------------------------------------------------------------------------
(* The header of an HTTP response. *)

Cr == Tok("cr", <<>>)
Lf == Tok("lf", <<>>)

LEMMA CrLf == /\ Cr \in Tokens /\ Lf \in Tokens /\ Cr.t = "cr" /\ Lf.t = "lf"
              /\ Crlf \in Seq(Tokens) /\ Len(Crlf) = 2 /\ Crlf[1] = Cr /\ Crlf[2] = Lf
<1>1. Cr \in Tokens /\ Lf \in Tokens /\ Cr.t = "cr" /\ Lf.t = "lf"
    BY DEF Cr, Lf, Tok, Tokens, Kinds
<1>2. Crlf = <<Cr, Lf>>
    BY DEF Crlf, Cr, Lf
<1> QED
    BY <1>1, <1>2

\* Lines of a header: none is empty.
IsLines(a) ==
    /\ a \in Seq(Tokens)
    /\ \A i \in 1..Len(a) : a[i].t \in {"head", "cr", "lf"}
    /\ \A i \in 1..(Len(a) - 1) : ~ (a[i].t = "lf" /\ a[i + 1].t = "cr")
    /\ Len(a) = 0 \/ (Len(a) >= 2 /\ a[Len(a) - 1] = Cr /\ a[Len(a)] = Lf)

LEMMA LineIs ==
    ASSUME NEW n \in Nat
    PROVE  LET x == Fill("head", n) \o Crlf
           IN  /\ x \in Seq(Tokens) /\ Len(x) = n + 2 /\ x[n + 1] = Cr /\ x[n + 2] = Lf
               /\ \A i \in 1..n : x[i].t = "head"
<1> DEFINE y == Fill("head", n)
           x == y \o Crlf
<1>1. y \in Seq(Tokens) /\ Len(y) = n /\ \A i \in 1..n : y[i].t = "head"
    <2>1. Tok("head", <<>>) \in Tokens /\ Tok("head", <<>>).t = "head"
        BY DEF Tok, Tokens, Kinds
    <2> QED
        BY <2>1 DEF Fill
<1> HIDE DEF y
<1>2. Joined(Tokens, y, Crlf, x)
    BY <1>1, CrLf, ConcatJoins, Zenon
<1> HIDE DEF x
<1>3. /\ x \in Seq(Tokens) /\ Len(x) = n + 2 /\ x[n + 1] = Cr /\ x[n + 2] = Lf
      /\ \A i \in 1..n : x[i] = y[i]
    BY <1>1, <1>2, CrLf DEF Joined
<1>4. \A i \in 1..n : x[i].t = "head"
    BY <1>1, <1>3
<1> QED
    BY <1>3, <1>4 DEF x, y

LEMMA LineBehind ==
    ASSUME NEW a, IsLines(a), NEW n \in Nat \ {0}
    PROVE  IsLines(a \o (Fill("head", n) \o Crlf)) /\ Len(a \o (Fill("head", n) \o Crlf)) >= 2
<1> DEFINE x == Fill("head", n) \o Crlf
           b == a \o x
           k == Len(a)
<1>1. /\ x \in Seq(Tokens) /\ Len(x) = n + 2 /\ x[n + 1] = Cr /\ x[n + 2] = Lf
      /\ \A i \in 1..n : x[i].t = "head"
    BY LineIs
<1> HIDE DEF x
<1>2. Joined(Tokens, a, x, b)
    BY <1>1, ConcatJoins, Zenon DEF IsLines
<1> HIDE DEF b
<1>3. /\ b \in Seq(Tokens) /\ k \in Nat /\ Len(b) = k + n + 2
      /\ \A i \in 1..k : b[i] = a[i]
      /\ \A i \in (k + 1)..Len(b) : b[i] = x[i - k]
    BY <1>1, <1>2 DEF Joined
<1> HIDE DEF k
<1>4. ASSUME NEW i \in (k + 1)..Len(b)
      PROVE  b[i].t = IF i = k + n + 1 THEN "cr" ELSE IF i = k + n + 2 THEN "lf" ELSE "head"
    <2>1. b[i] = x[i - k] /\ i - k \in 1..(n + 2)
        BY <1>3
    <2>2. i - k = n + 1 <=> i = k + n + 1
        BY <1>3
    <2>3. i - k = n + 2 <=> i = k + n + 2
        BY <1>3
    <2>4. i - k \in 1..n \/ i - k = n + 1 \/ i - k = n + 2
        BY <2>1
    <2>5. n + 1 # n + 2 /\ n + 1 \notin 1..n /\ n + 2 \notin 1..n
        OBVIOUS
    <2> QED
        BY <1>1, <2>1, <2>2, <2>3, <2>4, <2>5, CrLf
<1>5. \A i \in 1..Len(b) : b[i].t \in {"head", "cr", "lf"}
    <2>1. \A i \in 1..Len(b) : i \in 1..k \/ i \in (k + 1)..Len(b)
        BY <1>3
    <2> QED
        BY <1>3, <1>4, <2>1 DEF IsLines, k
<1>6. ASSUME NEW i \in 1..(Len(b) - 1), b[i].t = "lf", b[i + 1].t = "cr" PROVE FALSE
    <2>1. i \in 1..(k - 1) \/ i = k \/ i \in (k + 1)..(k + n + 1)
        BY <1>3
    <2>2. CASE i \in 1..(k - 1)
        <3>1. i \in 1..k /\ i + 1 \in 1..k
            BY <1>3, <2>2
        <3> QED
            BY <1>3, <1>6, <2>2, <3>1 DEF IsLines, k
    <2>3. CASE i = k
        <3>1. i + 1 \in (k + 1)..Len(b) /\ i + 1 # k + n + 1
            BY <1>3, <2>3
        <3> QED
            BY <1>4, <1>6, <3>1
    <2>4. CASE i \in (k + 1)..(k + n + 1)
        <3>1. i \in (k + 1)..Len(b) /\ i # k + n + 2
            BY <1>3, <2>4
        <3> QED
            BY <1>4, <1>6, <3>1
    <2> QED
        BY <2>1, <2>2, <2>3, <2>4
<1>7. Len(b) >= 2 /\ b[Len(b) - 1] = Cr /\ b[Len(b)] = Lf
    <2>1. /\ Len(b) - 1 \in (k + 1)..Len(b) /\ Len(b) - 1 - k = n + 1
          /\ Len(b) \in (k + 1)..Len(b) /\ Len(b) - k = n + 2 /\ Len(b) >= 2
        BY <1>3
    <2> QED
        BY <1>1, <1>3, <2>1
<1>8. IsLines(b)
    BY <1>3, <1>5, <1>6, <1>7 DEF IsLines
<1> QED
    BY <1>7, <1>8 DEF b, x

\* Where the header ends: at the first empty line, with the body behind it.
HeaderEnds(s, h) ==
    /\ h \in 4..Len(s)
    /\ \A i \in 1..h : s[i].t \notin {"b", "bin"}
    /\ \A i \in (h + 1)..Len(s) : s[i].t = "b"
    /\ s[h - 3] = Cr /\ s[h - 2] = Lf /\ s[h - 1] = Cr /\ s[h] = Lf
    /\ \A i \in 4..(h - 1) : ~ (s[i - 2].t = "lf" /\ s[i - 1].t = "cr")

LEMMA HeaderThenBody ==
    ASSUME NEW a, IsLines(a), Len(a) >= 2, NEW b, IsBody(b)
    PROVE  /\ HeaderEnds((a \o Crlf) \o b, Len(a) + 2)
           /\ (a \o Crlf) \o b \in Seq(Tokens)
           /\ Carried((a \o Crlf) \o b) = Carried(b)
           /\ \A i \in 1..Len((a \o Crlf) \o b) :
                  ((a \o Crlf) \o b)[i].t = "b" => Len(((a \o Crlf) \o b)[i].v) = 1
<1> DEFINE c == a \o Crlf
           s == c \o b
           k == Len(a)
<1>0. a \in Seq(Tokens) /\ b \in Seq(Tokens)
    BY DEF IsLines, IsBody
<1>1. Joined(Tokens, a, Crlf, c)
    BY <1>0, CrLf, ConcatJoins, Zenon
<1> HIDE DEF c
<1>2. /\ c \in Seq(Tokens) /\ Len(c) = k + 2 /\ k \in Nat /\ c[k + 1] = Cr /\ c[k + 2] = Lf
      /\ \A i \in 1..k : c[i] = a[i]
    BY <1>1, CrLf DEF Joined
<1> HIDE DEF k
<1>3. Joined(Tokens, c, b, s)
    BY <1>0, <1>2, ConcatJoins, Zenon
<1> HIDE DEF s
<1>4. /\ s \in Seq(Tokens) /\ Len(s) = k + 2 + Len(b) /\ Len(b) \in Nat
      /\ \A i \in 1..(k + 2) : s[i] = c[i]
      /\ \A i \in (k + 3)..Len(s) : s[i] = b[i - (k + 2)]
    <2>1. k + 2 + 1 = k + 3
        BY <1>2
    <2> QED
        BY <1>2, <1>3, <2>1 DEF Joined
<1>5. k >= 2 /\ a[k - 1] = Cr /\ a[k] = Lf
    BY <1>2 DEF IsLines, k
<1>6. ASSUME NEW i \in (k + 3)..Len(s) PROVE s[i].t = "b" /\ Len(s[i].v) = 1
    <2>1. i - (k + 2) \in 1..Len(b)
        BY <1>2, <1>4
    <2> QED
        BY <1>4, <2>1 DEF IsBody
<1>7. ASSUME NEW i \in 1..(k + 2) PROVE c[i].t \in {"head", "cr", "lf"}
    <2>1. i \in 1..k \/ i = k + 1 \/ i = k + 2
        BY <1>2
    <2> QED
        BY <1>2, <2>1, CrLf DEF IsLines, k
<1>8. ASSUME NEW i \in 4..(k + 1), s[i - 2].t = "lf", s[i - 1].t = "cr" PROVE FALSE
    <2>1. /\ i - 2 \in 1..(k - 1) /\ i - 2 + 1 = i - 1 /\ i - 1 \in 1..k /\ i - 2 \in 1..k
          /\ i - 1 \in 1..(k + 2) /\ i - 2 \in 1..(k + 2)
        BY <1>2
    <2>2. s[i - 2] = a[i - 2] /\ s[i - 1] = a[i - 1]
        BY <1>2, <1>4, <2>1
    <2> QED
        BY <1>8, <2>1, <2>2 DEF IsLines, k
<1>9. HeaderEnds(s, k + 2)
    <2>1. k + 2 \in 4..Len(s) /\ k + 2 + 1 = k + 3 /\ k + 2 - 1 = k + 1
          /\ k + 2 - 2 = k /\ k + 2 - 3 = k - 1
        BY <1>2, <1>4, <1>5
    <2>2. k + 2 \in 1..(k + 2) /\ k + 1 \in 1..(k + 2) /\ k \in 1..(k + 2) /\ k - 1 \in 1..(k + 2)
          /\ k \in 1..k /\ k - 1 \in 1..k
        BY <1>2, <1>5
    <2>3. s[k - 1] = Cr /\ s[k] = Lf /\ s[k + 1] = Cr /\ s[k + 2] = Lf
        BY <1>2, <1>4, <1>5, <2>2
    <2>4. \A i \in 1..(k + 2) : s[i].t \notin {"b", "bin"}
        BY <1>4, <1>7
    <2> DEFINE h == k + 2
    <2>5. h \in 4..Len(s) /\ \A i \in 1..h : s[i].t \notin {"b", "bin"}
        BY <2>1, <2>4
    <2>6. \A i \in (h + 1)..Len(s) : s[i].t = "b"
        BY <1>6, <2>1
    <2>7. h - 1 = k + 1 /\ h - 2 = k /\ h - 3 = k - 1
        <3>1. k \in Nat
            BY <1>2
        <3> QED
            BY <3>1
    <2>8. s[h - 3] = Cr /\ s[h - 2] = Lf /\ s[h - 1] = Cr /\ s[h] = Lf
        BY <2>3, <2>7
    <2>9. \A i \in 4..(h - 1) : ~ (s[i - 2].t = "lf" /\ s[i - 1].t = "cr")
        <3>1. 4..(h - 1) = 4..(k + 1)
            BY <2>7, Zenon
        <3> HIDE DEF h
        <3> QED
            BY <1>8, <3>1, Zenon
    <2> HIDE DEF h
    <2>10. HeaderEnds(s, h)
        BY <2>5, <2>6, <2>8, <2>9 DEF HeaderEnds
    <2> QED
        BY <2>10 DEF h
<1>10. Carried(s) = Carried(b)
    <2>1. \A i \in 1..Len(c) : c[i].t \notin {"b", "bin"}
        BY <1>2, <1>7
    <2>2. \A i \in 1..Len(<<>>) : <<>>[i].t \notin {"b", "bin"}
        OBVIOUS
    <2>3. Carried((c \o b) \o <<>>) = Carried(b)
        <3>1. <<>> \in Seq(Tokens)
            OBVIOUS
        <3> QED
            BY <1>0, <1>2, <2>1, <2>2, <3>1, FrameCarries
    <2>4. (c \o b) \o <<>> = c \o b
        BY <1>4, NothingBehind, Zenon DEF s
    <2> QED
        BY <2>3, <2>4 DEF s
<1>11. \A i \in 1..Len(s) : s[i].t = "b" => Len(s[i].v) = 1
    <2>1. \A i \in 1..Len(s) : i \in 1..(k + 2) \/ i \in (k + 3)..Len(s)
        BY <1>2, <1>4
    <2> QED
        BY <1>4, <1>6, <1>7, <2>1
<1> QED
    BY <1>4, <1>9, <1>10, <1>11 DEF s, c, k

LEMMA HeaderIsLines ==
    ASSUME NEW lines \in Seq(Nat \ {0}), lines # <<>>
    PROVE  \E a : IsLines(a) /\ Len(a) >= 2 /\ Header(lines) = a \o Crlf
<1> DEFINE s == [i \in DOMAIN lines |-> Fill("head", lines[i]) \o Crlf]
           G == [k \in 0..Len(lines) |-> {a \in Seq(Tokens) : IsLines(a) /\ (k > 0 => Len(a) >= 2)}]
<1>1. /\ s \in Seq(Seq(Tokens)) /\ Len(s) = Len(lines) /\ Len(lines) \in Nat /\ Len(lines) > 0
      /\ \A k \in 1..Len(lines) : s[k] = Fill("head", lines[k]) \o Crlf /\ lines[k] \in Nat \ {0}
    <2>1. DOMAIN lines = 1..Len(lines) /\ Len(lines) \in Nat /\ Len(lines) > 0
          /\ \A k \in 1..Len(lines) : lines[k] \in Nat \ {0}
        OBVIOUS
    <2>2. \A k \in 1..Len(lines) : Fill("head", lines[k]) \o Crlf \in Seq(Tokens)
        BY <2>1, LineIs
    <2> QED
        BY <2>1, <2>2
<1> HIDE DEF s
<1>2. <<>> \in G[0]
    <2>1. IsLines(<<>>)
        BY DEF IsLines
    <2> QED
        BY <1>1, <2>1
<1>3. ASSUME NEW k \in 1..Len(s), NEW a \in Seq(Tokens), a \in G[k - 1] PROVE a \o s[k] \in G[k]
    <2>1. k \in 1..Len(lines) /\ k - 1 \in 0..Len(lines) /\ k \in 0..Len(lines)
        BY <1>1
    <2>2. IsLines(a)
        BY <1>3, <2>1
    <2>3. s[k] = Fill("head", lines[k]) \o Crlf /\ lines[k] \in Nat \ {0}
        BY <1>1, <2>1
    <2>4. IsLines(a \o (Fill("head", lines[k]) \o Crlf))
          /\ Len(a \o (Fill("head", lines[k]) \o Crlf)) >= 2
        BY <2>2, <2>3, LineBehind, Zenon
    <2>5. IsLines(a \o s[k]) /\ Len(a \o s[k]) >= 2
        BY <2>3, <2>4, Zenon
    <2>6. a \o s[k] \in Seq(Tokens)
        BY <2>5 DEF IsLines
    <2> QED
        BY <2>1, <2>5, <2>6
<1>4. FlattenSeq(s) \in G[Len(lines)]
    <2> HIDE DEF G
    <2>1. \A k \in 1..Len(s) : \A a \in Seq(Tokens) : a \in G[k - 1] => a \o s[k] \in G[k]
        BY <1>3
    <2>2. FlattenSeq(s) \in G[Len(s)]
        BY <1>1, <1>2, <2>1, FlatInduction, Zenon
    <2> QED
        BY <1>1, <2>2
<1>5. Len(lines) \in 0..Len(lines)
    BY <1>1
<1>6. IsLines(FlattenSeq(s)) /\ Len(FlattenSeq(s)) >= 2
    BY <1>1, <1>4, <1>5
<1>7. Header(lines) = FlattenSeq(s) \o Crlf
    BY DEF Header, s
<1> HIDE DEF G
<1> QED
    BY <1>6, <1>7, Zenon

-----------------------------------------------------------------------------
(* The records of a TLS peer. *)

\* How many bytes come before the length of the record at p.
Discarded(p) == IF p = 0 THEN FirstDiscard ELSE HeaderDiscard

\* A record of n bytes begins behind the first p tokens.
RecordFrom(s, p, n) ==
    LET d == p + Discarded(p)
    IN  /\ n \in Nat /\ p \in Nat /\ d + 2 + n <= Len(s)
        /\ \A i \in (p + 1)..d : s[i].t = "head"
        /\ s[d + 1].t = "len" /\ s[d + 2].t = "len"
        /\ Len(s[d + 1].v) = 1 /\ Len(s[d + 2].v) = 1
        /\ Says(s[d + 1], s[d + 2]) = n
        /\ \A i \in (d + 3)..(d + 2 + n) : s[i].t = "b"

\* B holds where the records begin, and where the last one ends.
Framed(s, B) ==
    /\ 0 \in B /\ B \subseteq 0..Len(s)
    /\ \A p \in B : p = Len(s) \/ \E n \in Nat : RecordFrom(s, p, n) /\ p + Discarded(p) + 2 + n \in B

LEMMA DiscardedIsNat == \A p : Discarded(p) \in Nat
    BY BoundAssumption DEF Discarded

LEMMA RecordStays ==
    ASSUME NEW a \in Seq(Tokens), NEW x, NEW b, Joined(Tokens, a, x, b), NEW p, NEW n, RecordFrom(a, p, n)
    PROVE  RecordFrom(b, p, n)
<1> DEFINE d == p + Discarded(p)
           k == Len(a)
<1>1. /\ k \in Nat /\ Len(b) >= k /\ Len(b) \in Nat /\ \A i \in 1..k : b[i] = a[i]
    BY DEF Joined
<1>2. p \in Nat /\ d \in Nat /\ n \in Nat /\ d + 2 + n <= k
    BY DiscardedIsNat DEF RecordFrom
<1>3. /\ \A i \in (p + 1)..d : a[i].t = "head"
      /\ a[d + 1].t = "len" /\ a[d + 2].t = "len"
      /\ Len(a[d + 1].v) = 1 /\ Len(a[d + 2].v) = 1
      /\ Says(a[d + 1], a[d + 2]) = n
      /\ \A i \in (d + 3)..(d + 2 + n) : a[i].t = "b"
    BY DEF RecordFrom
<1> HIDE DEF d, k
<1>4. d + 1 \in 1..k /\ d + 2 \in 1..k /\ (\A i \in (p + 1)..d : i \in 1..k)
      /\ \A i \in (d + 3)..(d + 2 + n) : i \in 1..k
    BY <1>1, <1>2
<1>5. /\ \A i \in (p + 1)..d : b[i].t = "head"
      /\ b[d + 1].t = "len" /\ b[d + 2].t = "len"
      /\ Len(b[d + 1].v) = 1 /\ Len(b[d + 2].v) = 1
      /\ Says(b[d + 1], b[d + 2]) = n
      /\ \A i \in (d + 3)..(d + 2 + n) : b[i].t = "b"
    BY <1>1, <1>3, <1>4
<1>6. d + 2 + n <= Len(b)
    BY <1>1, <1>2
<1> QED
    BY <1>2, <1>5, <1>6 DEF RecordFrom, d

\* A record as it is sent: d bytes of header, the length, the payload.
IsPiece(x, d, n) ==
    /\ x \in Seq(Tokens) /\ d \in Nat /\ n \in Nat /\ Len(x) = d + 2 + n
    /\ \A i \in 1..d : x[i].t = "head"
    /\ x[d + 1].t = "len" /\ x[d + 2].t = "len"
    /\ Len(x[d + 1].v) = 1 /\ Len(x[d + 2].v) = 1
    /\ Says(x[d + 1], x[d + 2]) = n
    /\ \A i \in (d + 3)..(d + 2 + n) : x[i].t = "b" /\ Len(x[i].v) = 1

LEMMA PieceIs ==
    ASSUME NEW d \in Nat, NEW n \in 0..(Base * Base - 1), NEW b, IsBody(b), Len(b) = n
    PROVE  /\ IsPiece((Fill("head", d) \o Length2(n)) \o b, d, n)
           /\ Carried((Fill("head", d) \o Length2(n)) \o b) = Carried(b)
<1> DEFINE y == Fill("head", d)
           l == Length2(n)
           c == y \o l
           x == c \o b
<1>0. b \in Seq(Tokens) /\ n \in Nat
    BY BoundAssumption DEF IsBody
<1>1. y \in Seq(Tokens) /\ Len(y) = d /\ \A i \in 1..d : y[i].t = "head"
    <2>1. Tok("head", <<>>) \in Tokens /\ Tok("head", <<>>).t = "head"
        BY DEF Tok, Tokens, Kinds
    <2> QED
        BY <2>1 DEF Fill
<1>2. /\ l \in Seq(Tokens) /\ Len(l) = 2 /\ l[1].t = "len" /\ l[2].t = "len"
      /\ Len(l[1].v) = 1 /\ Len(l[2].v) = 1 /\ Says(l[1], l[2]) = n
    <2>1. /\ l \in Seq(Tokens) /\ Len(l) = 2 /\ l[1].t = "len" /\ l[2].t = "len"
          /\ l[1].v = <<l[1].v[1]>> /\ l[2].v = <<l[2].v[1]>> /\ Says(l[1], l[2]) = n
        BY LengthSays
    <2> HIDE DEF l
    <2>2. Len(<<l[1].v[1]>>) = 1 /\ Len(<<l[2].v[1]>>) = 1
        OBVIOUS
    <2>3. Len(l[1].v) = 1 /\ Len(l[2].v) = 1
        BY <2>1, <2>2, Zenon
    <2> QED
        BY <2>1, <2>3
<1> HIDE DEF y, l
<1>3. Joined(Tokens, y, l, c)
    BY <1>1, <1>2, ConcatJoins, Zenon
<1> HIDE DEF c
<1>4. /\ c \in Seq(Tokens) /\ Len(c) = d + 2 /\ c[d + 1] = l[1] /\ c[d + 2] = l[2]
      /\ \A i \in 1..d : c[i] = y[i]
    BY <1>1, <1>2, <1>3 DEF Joined
<1>5. Joined(Tokens, c, b, x)
    BY <1>0, <1>4, ConcatJoins, Zenon
<1> HIDE DEF x
<1>6. /\ x \in Seq(Tokens) /\ Len(x) = d + 2 + n
      /\ \A i \in 1..(d + 2) : x[i] = c[i]
      /\ \A i \in (d + 3)..(d + 2 + n) : x[i] = b[i - (d + 2)]
    <2>1. d + 2 + 1 = d + 3
        OBVIOUS
    <2> QED
        BY <1>4, <1>5, <2>1 DEF Joined
<1>7. d + 1 \in 1..(d + 2) /\ d + 2 \in 1..(d + 2) /\ \A i \in 1..d : i \in 1..(d + 2)
    OBVIOUS
<1>8. x[d + 1] = l[1] /\ x[d + 2] = l[2] /\ \A i \in 1..d : x[i].t = "head"
    BY <1>1, <1>4, <1>6, <1>7
<1>9. ASSUME NEW i \in (d + 3)..(d + 2 + n) PROVE x[i].t = "b" /\ Len(x[i].v) = 1
    <2>1. i - (d + 2) \in 1..Len(b)
        BY <1>0
    <2> QED
        BY <1>6, <2>1 DEF IsBody
<1>10. IsPiece(x, d, n)
    BY <1>0, <1>2, <1>6, <1>8, <1>9 DEF IsPiece
<1>11. Carried(x) = Carried(b)
    <2>1. \A i \in 1..Len(c) : c[i].t \notin {"b", "bin"}
        <3>1. \A i \in 1..(d + 2) : i \in 1..d \/ i = d + 1 \/ i = d + 2
            OBVIOUS
        <3> QED
            BY <1>1, <1>2, <1>4, <3>1
    <2>2. \A i \in 1..Len(<<>>) : <<>>[i].t \notin {"b", "bin"}
        OBVIOUS
    <2>3. <<>> \in Seq(Tokens)
        OBVIOUS
    <2>4. Carried((c \o b) \o <<>>) = Carried(b)
        BY <1>0, <1>4, <2>1, <2>2, <2>3, FrameCarries
    <2>5. (c \o b) \o <<>> = c \o b
        BY <1>6, NothingBehind, Zenon DEF x
    <2> QED
        BY <2>4, <2>5 DEF x
<1> QED
    BY <1>10, <1>11 DEF x, c, y, l

LEMMA PieceBehind ==
    ASSUME NEW a \in Seq(Tokens), NEW B, Framed(a, B), NEW n, NEW x, IsPiece(x, Discarded(Len(a)), n)
    PROVE  Framed(a \o x, B \cup {Len(a \o x)})
<1> DEFINE b == a \o x
           k == Len(a)
           e == Len(b)
           d == Discarded(k)
<1>1. Joined(Tokens, a, x, b)
    BY ConcatJoins, Zenon DEF IsPiece
<1> HIDE DEF b
<1>2. /\ k \in Nat /\ d \in Nat /\ n \in Nat /\ e = k + d + 2 + n /\ e \in Nat
      /\ Len(x) = d + 2 + n /\ \A i \in 1..Len(x) : b[k + i] = x[i]
      /\ \A i \in (k + 1)..e : b[i] = x[i - k]
    BY <1>1, DiscardedIsNat DEF IsPiece, Joined
<1>7. IsPiece(x, d, n) /\ Framed(a, B) /\ e = Len(b) /\ k = Len(a) /\ d = Discarded(k)
    OBVIOUS
<1> HIDE DEF e, k, d
<1>3. RecordFrom(b, k, n)
    <2> DEFINE c == k + d
    <2>1. /\ d + 1 \in 1..Len(x) /\ d + 2 \in 1..Len(x) /\ c + 1 = k + (d + 1) /\ c + 2 = k + (d + 2)
          /\ c + 2 + n <= e
        BY <1>2
    <2>2. b[c + 1] = x[d + 1] /\ b[c + 2] = x[d + 2]
        BY <1>2, <2>1
    <2>3. ASSUME NEW i \in (k + 1)..c PROVE b[i].t = "head"
        <3>1. i - k \in 1..d /\ i \in (k + 1)..e
            BY <1>2
        <3>2. b[i] = x[i - k]
            BY <1>2, <3>1, Zenon
        <3>3. x[i - k].t = "head"
            BY <1>7, <3>1, Zenon DEF IsPiece
        <3> QED
            BY <3>2, <3>3, Zenon
    <2>4. ASSUME NEW i \in (c + 3)..(c + 2 + n) PROVE b[i].t = "b"
        <3>1. i - k \in (d + 3)..(d + 2 + n) /\ i \in (k + 1)..e
            BY <1>2
        <3>2. b[i] = x[i - k]
            BY <1>2, <3>1, Zenon
        <3>3. x[i - k].t = "b"
            BY <1>7, <3>1, Zenon DEF IsPiece
        <3> QED
            BY <3>2, <3>3, Zenon
    <2>5. /\ x[d + 1].t = "len" /\ x[d + 2].t = "len" /\ Len(x[d + 1].v) = 1 /\ Len(x[d + 2].v) = 1
          /\ Says(x[d + 1], x[d + 2]) = n
        BY <1>7 DEF IsPiece
    <2> QED
        BY <1>2, <1>7, <2>1, <2>2, <2>3, <2>4, <2>5 DEF RecordFrom
<1>4. /\ 0 \in B /\ B \subseteq 0..k
      /\ \A p \in B : p = k \/ \E m \in Nat : RecordFrom(a, p, m) /\ p + Discarded(p) + 2 + m \in B
    BY <1>7 DEF Framed
<1>5. ASSUME NEW p \in B \cup {e}
      PROVE  p = e \/ \E m \in Nat : RecordFrom(b, p, m) /\ p + Discarded(p) + 2 + m \in B \cup {e}
    <2>1. CASE p = k
        <3>1. p + Discarded(p) + 2 + n \in B \cup {e}
            BY <1>2, <1>7, <2>1
        <3>2. RecordFrom(b, p, n) /\ n \in Nat
            BY <1>2, <1>3, <2>1
        <3> QED
            BY <3>1, <3>2
    <2>2. CASE p \in B /\ p # k
        <3>1. PICK m \in Nat : RecordFrom(a, p, m) /\ p + Discarded(p) + 2 + m \in B
            BY <1>4, <2>2
        <3>2. RecordFrom(b, p, m)
            BY <1>1, <3>1, RecordStays, Zenon
        <3> QED
            BY <3>1, <3>2
    <2> QED
        BY <2>1, <2>2
<1>6. 0 \in B \cup {e} /\ B \cup {e} \subseteq 0..e
    <2>1. 0..k \subseteq 0..e /\ e \in 0..e
        BY <1>2
    <2> QED
        BY <1>4, <2>1
<1> QED
    BY <1>5, <1>6, <1>7 DEF Framed, b

\* Whole bytes only stand for payload.
LEMMA PieceHasBytes ==
    ASSUME NEW x, NEW d, NEW n, IsPiece(x, d, n)
    PROVE  \A i \in 1..Len(x) : x[i].t = "b" => Len(x[i].v) = 1
<1>1. d \in Nat /\ n \in Nat /\ Len(x) = d + 2 + n
    BY DEF IsPiece
<1>2. \A i \in 1..Len(x) : i \in 1..d \/ i = d + 1 \/ i = d + 2 \/ i \in (d + 3)..(d + 2 + n)
    BY <1>1
<1> QED
    BY <1>2 DEF IsPiece

SingleBytes(s) == \A i \in 1..Len(s) : s[i].t = "b" => Len(s[i].v) = 1

LEMMA SinglesJoin ==
    ASSUME NEW s \in Seq(Tokens), NEW t \in Seq(Tokens), SingleBytes(s), SingleBytes(t)
    PROVE  SingleBytes(s \o t)
<1> DEFINE a == s \o t
<1>1. Joined(Tokens, s, t, a)
    BY ConcatJoins, Zenon
<1> HIDE DEF a
<1>2. ASSUME NEW i \in 1..Len(a), a[i].t = "b" PROVE Len(a[i].v) = 1
    <2>1. i \in 1..Len(s) \/ (i \in (Len(s) + 1)..Len(a) /\ i - Len(s) \in 1..Len(t))
        BY <1>1 DEF Joined
    <2>2. CASE i \in 1..Len(s)
        BY <1>1, <1>2, <2>2 DEF Joined, SingleBytes
    <2>3. CASE i \in (Len(s) + 1)..Len(a) /\ i - Len(s) \in 1..Len(t)
        <3>1. a[i] = t[i - Len(s)]
            BY <1>1, <2>3, Zenon DEF Joined
        <3> QED
            BY <1>2, <2>3, <3>1, Zenon DEF SingleBytes
    <2> QED
        BY <2>1, <2>2, <2>3
<1> QED
    BY <1>2 DEF SingleBytes, a

LEMMA WiderSeq ==
    ASSUME NEW R, NEW S, R \subseteq S, NEW f \in Seq(R)
    PROVE  f \in Seq(S) /\ \A k \in 1..Len(f) : f[k] \in R
<1>1. f \in [1..Len(f) -> R] /\ Len(f) \in Nat
    BY LenProperties
<1>2. f \in [1..Len(f) -> S]
    BY <1>1, Zenon
<1> QED
    BY <1>1, <1>2, SeqDef

LEMMA SizesAreNumbers ==
    ASSUME NEW f \in Seq(0..(Base * Base - 1))
    PROVE  f \in Seq(Nat) /\ \A k \in 1..Len(f) : f[k] \in 0..(Base * Base - 1)
<1>1. 0..(Base * Base - 1) \subseteq Nat
    BY BoundAssumption
<1> QED
    BY <1>1, WiderSeq, Zenon

\* All of the records, one behind the other.
Record(f, k) == (Fill("head", IF k = 1 THEN FirstDiscard ELSE HeaderDiscard) \o Length2(f[k]))
                    \o FrameBytes(f, k)

LEMMA RecordIsPiece ==
    ASSUME NEW f \in Seq(0..(Base * Base - 1)), NEW k \in 1..Len(f)
    PROVE  /\ IsPiece(Record(f, k), IF k = 1 THEN FirstDiscard ELSE HeaderDiscard, f[k])
           /\ Carried(Record(f, k)) = [i \in 1..f[k] |-> Before(f, k) + i]
           /\ f \in Seq(Nat)
<1> DEFINE d == IF k = 1 THEN FirstDiscard ELSE HeaderDiscard
           b == FrameBytes(f, k)
<1>1. d \in Nat /\ f[k] \in 0..(Base * Base - 1) /\ f \in Seq(Nat)
    <2>1. d \in Nat
        BY BoundAssumption
    <2>2. f[k] \in 0..(Base * Base - 1)
        BY SizesAreNumbers
    <2>3. f \in Seq(Nat)
        BY SizesAreNumbers
    <2> QED
        BY <2>1, <2>2, <2>3
<1>2. IsBody(b) /\ Len(b) = f[k] /\ Carried(b) = [i \in 1..f[k] |-> Before(f, k) + i]
    BY <1>1, FrameIsBody, Zenon
<1> HIDE DEF d, b
<1>3. /\ IsPiece((Fill("head", d) \o Length2(f[k])) \o b, d, f[k])
      /\ Carried((Fill("head", d) \o Length2(f[k])) \o b) = Carried(b)
    BY <1>1, <1>2, PieceIs, Zenon
<1>4. Record(f, k) = (Fill("head", d) \o Length2(f[k])) \o b
    BY DEF Record, d, b
<1> QED
    BY <1>1, <1>2, <1>3, <1>4, Zenon DEF d

\* What is true of the first k records.
IsRecords(f, k, a) ==
    /\ a \in Seq(Tokens) /\ SingleBytes(a) /\ Carried(a) = Numbers(Before(f, k + 1))
    /\ \E B : Framed(a, B)
    /\ k = 0 <=> Len(a) = 0

LEMMA NextRecordBehind ==
    ASSUME NEW f \in Seq(0..(Base * Base - 1)), NEW k \in 1..Len(f), NEW a, IsRecords(f, k - 1, a)
    PROVE  IsRecords(f, k, a \o Record(f, k))
<1> DEFINE x == Record(f, k)
           n == f[k]
<1>1. IsPiece(x, IF k = 1 THEN FirstDiscard ELSE HeaderDiscard, n)
      /\ Carried(x) = [i \in 1..n |-> Before(f, k) + i] /\ f \in Seq(Nat)
    BY RecordIsPiece, Zenon
<1> HIDE DEF x, n
<1>2. a \in Seq(Tokens) /\ SingleBytes(a) /\ (k - 1 = 0 <=> Len(a) = 0)
    BY DEF IsRecords
<1>3. PICK B : Framed(a, B)
    BY Zenon DEF IsRecords
<1>4. (IF k = 1 THEN FirstDiscard ELSE HeaderDiscard) = Discarded(Len(a))
    BY <1>2 DEF Discarded
<1>5. IsPiece(x, Discarded(Len(a)), n)
    BY <1>1, <1>4, Zenon
<1>6. Framed(a \o x, B \cup {Len(a \o x)})
    BY <1>2, <1>3, <1>5, PieceBehind, Zenon
<1>7. x \in Seq(Tokens) /\ SingleBytes(x) /\ Len(x) # 0
    <2>1. x \in Seq(Tokens) /\ Len(x) # 0
        BY <1>5 DEF IsPiece
    <2>2. SingleBytes(x)
        BY <1>5, PieceHasBytes, Zenon DEF SingleBytes
    <2> QED
        BY <2>1, <2>2
<1>8. SingleBytes(a \o x)
    BY <1>2, <1>7, SinglesJoin, Zenon
<1>9. Carried(a) = Numbers(Before(f, k))
    <2>1. k - 1 + 1 = k
        OBVIOUS
    <2> QED
        BY <2>1 DEF IsRecords
<1>10. Carried(a \o x) = Numbers(Before(f, k + 1))
    BY <1>1, <1>2, <1>7, <1>9, NextFrame, Zenon DEF n
<1>11. a \o x \in Seq(Tokens) /\ (k = 0 <=> Len(a \o x) = 0)
    <2>1. Joined(Tokens, a, x, a \o x)
        BY <1>2, <1>7, ConcatJoins, Zenon
    <2> DEFINE b == a \o x
    <2>2. Joined(Tokens, a, x, b)
        BY <2>1
    <2> HIDE DEF b
    <2>3. b \in Seq(Tokens) /\ Len(b) # 0 /\ k # 0
        BY <1>7, <2>2 DEF Joined
    <2> QED
        BY <2>3 DEF b
<1>12. IsRecords(f, k, a \o x)
    BY <1>6, <1>8, <1>10, <1>11, Zenon DEF IsRecords
<1> QED
    BY <1>12 DEF x

LEMMA RecordsAreFramed ==
    ASSUME NEW f \in Seq(0..(Base * Base - 1))
    PROVE  IsRecords(f, Len(f), FlattenSeq([k \in DOMAIN f |-> Record(f, k)]))
<1> DEFINE s == [k \in DOMAIN f |-> Record(f, k)]
           G == [k \in 0..Len(f) |-> {a \in Seq(Tokens) : IsRecords(f, k, a)}]
<1>1. s \in Seq(Seq(Tokens)) /\ Len(s) = Len(f) /\ Len(f) \in Nat
      /\ \A k \in 1..Len(f) : s[k] = Record(f, k)
    <2>1. DOMAIN f = 1..Len(f) /\ Len(f) \in Nat
        OBVIOUS
    <2>2. \A k \in 1..Len(f) : Record(f, k) \in Seq(Tokens)
        BY RecordIsPiece, Zenon DEF IsPiece
    <2> QED
        BY <2>1, <2>2
<1> HIDE DEF s
<1>2. <<>> \in G[0]
    <2>1. f \in Seq(Nat)
        BY SizesAreNumbers
    <2>2. Numbers(0) = <<>> /\ Before(f, 1) = 0
        BY <2>1, BeforeIs DEF Numbers
    <2>3. <<>> \in Seq(Tokens) /\ Len(<<>>) = 0 /\ 0 + 1 = 1 /\ 0 \in 0..Len(f)
        BY <1>1
    <2>4. SingleBytes(<<>>) /\ Framed(<<>>, {0})
        <3>1. SingleBytes(<<>>)
            BY DEF SingleBytes
        <3>2. Framed(<<>>, {0})
            BY <2>3 DEF Framed
        <3> QED
            BY <3>1, <3>2
    <2>5. Carried(<<>>) = Numbers(Before(f, 0 + 1))
        BY <2>2, <2>3, CarriedEmpty
    <2>6. IsRecords(f, 0, <<>>)
        BY <2>3, <2>4, <2>5, Zenon DEF IsRecords
    <2> QED
        BY <2>3, <2>6
<1>3. ASSUME NEW k \in 1..Len(s), NEW a \in Seq(Tokens), a \in G[k - 1] PROVE a \o s[k] \in G[k]
    <2>1. k \in 1..Len(f) /\ k - 1 \in 0..Len(f) /\ k \in 0..Len(f) /\ s[k] = Record(f, k)
        BY <1>1
    <2>2. IsRecords(f, k - 1, a)
        BY <1>3, <2>1
    <2>3. IsRecords(f, k, a \o s[k])
        BY <2>1, <2>2, NextRecordBehind, Zenon
    <2>4. a \o s[k] \in Seq(Tokens)
        BY <2>3 DEF IsRecords
    <2> QED
        BY <2>1, <2>3, <2>4
<1>4. FlattenSeq(s) \in G[Len(f)]
    <2> HIDE DEF G
    <2>1. \A k \in 1..Len(s) : \A a \in Seq(Tokens) : a \in G[k - 1] => a \o s[k] \in G[k]
        BY <1>3
    <2>2. FlattenSeq(s) \in G[Len(s)]
        BY <1>1, <1>2, <2>1, FlatInduction, Zenon
    <2> QED
        BY <1>1, <2>2
<1>5. Len(f) \in 0..Len(f)
    BY <1>1
<1> QED
    BY <1>4, <1>5 DEF s

-----------------------------------------------------------------------------
(* The messages of a WebSocket, and all that a peer may send. *)

Message(f, k) == Tok("bin", Payload(FrameBytes(f, k)))

LEMMA MessagesCarry ==
    ASSUME NEW f \in Seq(Nat)
    PROVE  LET m == [k \in DOMAIN f |-> Message(f, k)]
           IN  /\ m \in Seq(Tokens) /\ \A k \in 1..Len(m) : m[k].t = "bin"
               /\ Carried(m) = Numbers(Before(f, Len(f) + 1))
<1> DEFINE m == [k \in DOMAIN f |-> Message(f, k)]
<1>1. ASSUME NEW k \in 1..Len(f)
      PROVE  /\ Message(f, k) \in Tokens /\ Message(f, k).t = "bin"
             /\ CarriedBy(Message(f, k)) = [i \in 1..f[k] |-> Before(f, k) + i]
    <2>1. Before(f, k) \in Nat /\ f[k] \in Nat
        BY BeforeIs
    <2> DEFINE a == Before(f, k)
               n == f[k]
    <2> HIDE DEF a, n
    <2>2. /\ Tok("bin", Payload(Bytes(a + 1, a + n))) \in Tokens
          /\ CarriedBy(Tok("bin", Payload(Bytes(a + 1, a + n)))) = [i \in 1..n |-> a + i]
        <3>1. a \in Nat /\ n \in Nat
            BY <2>1 DEF a, n
        <3> QED
            BY <3>1, MessageCarries, Zenon
    <2>3. Message(f, k) = Tok("bin", Payload(Bytes(a + 1, a + n)))
        BY DEF Message, FrameBytes, a, n
    <2>4. Message(f, k).t = "bin"
        BY DEF Message, Tok
    <2> QED
        BY <2>2, <2>3, <2>4 DEF a, n
<1>2. m \in Seq(Tokens) /\ Len(m) = Len(f) /\ Len(f) \in Nat
      /\ \A k \in 1..Len(f) : m[k] = Message(f, k)
    <2>1. DOMAIN f = 1..Len(f) /\ Len(f) \in Nat
        OBVIOUS
    <2> QED
        BY <1>1, <2>1
<1> HIDE DEF m
<1> DEFINE P(n) == SubSeq(m, 1, n)
           T == {n \in Nat : Carried(P(n)) = Numbers(Before(f, n + 1))}
<1>3. 0 \in T
    <2>1. P(0) = <<>> /\ Numbers(0) = <<>> /\ Before(f, 0 + 1) = 0
        BY BeforeIs DEF Numbers
    <2> QED
        BY <2>1, CarriedEmpty
<1>4. ASSUME NEW n \in 1..Len(m), n - 1 \in T PROVE n \in T
    <2>1. P(n - 1) \in Seq(Tokens) /\ m[n] \in Tokens /\ P(n) = Append(P(n - 1), m[n])
        BY <1>2, SubSeqNext, Zenon
    <2>2. Carried(P(n - 1)) = Numbers(Before(f, n))
        <3>1. n - 1 + 1 = n
            OBVIOUS
        <3> QED
            BY <1>4, <3>1
    <2> HIDE DEF P
    <2>3. n \in 1..Len(f) /\ n \in Nat
        BY <1>2
    <2>4. CarriedBy(m[n]) = [i \in 1..f[n] |-> Before(f, n) + i]
        BY <1>1, <1>2, <2>3
    <2>5. /\ Before(f, n) \in Nat /\ f[n] \in Nat
          /\ Before(f, n + 1) = Before(f, n) + f[n]
        BY <2>3, BeforeIs
    <2>6. Numbers(Before(f, n)) \o [i \in 1..f[n] |-> Before(f, n) + i]
              = Numbers(Before(f, n) + f[n])
        BY <2>5, NumbersNext, Zenon
    <2>7. Carried(P(n)) = Carried(P(n - 1)) \o CarriedBy(m[n])
        BY <2>1, CarriedNext, Zenon
    <2>8. Carried(P(n)) = Numbers(Before(f, n + 1))
        BY <2>2, <2>4, <2>5, <2>6, <2>7, Zenon
    <2> QED
        BY <2>3, <2>8
<1>5. Len(m) \in T
    <2> HIDE DEF T
    <2>1. \A n \in 1..Len(m) : n - 1 \in T => n \in T
        BY <1>4
    <2> QED
        BY <1>2, <1>3, <2>1, TokenByToken, Zenon
<1>6. P(Len(m)) = m
    BY <1>2
<1>7. Carried(m) = Numbers(Before(f, Len(f) + 1))
    BY <1>2, <1>5, <1>6
<1>8. \A k \in 1..Len(m) : m[k].t = "bin"
    BY <1>1, <1>2
<1> QED
    BY <1>2, <1>7, <1>8 DEF m

\* Whatever a peer of layer l sends carries 1, 2, ..., framed as the layer frames it.
ScriptIs(l, s) ==
    /\ s \in Seq(Tokens) /\ SingleBytes(s)
    /\ \E n \in Nat : Carried(s) = Numbers(n)
    /\ l = "http" => \E h : HeaderEnds(s, h)
    /\ l = "tls" => \E B : Framed(s, B)
    /\ l = "ws" => \A i \in 1..Len(s) : s[i].t \in {"ping", "bin", "close", "text"}

LEMMA RepliesAreNumbers ==
    ASSUME NEW f \in Replies
    PROVE  f \in Seq(0..(Base * Base - 1)) /\ f \in Seq(Nat)
<1>1. f \in Seq(0..(Base * Base - 1))
    BY BoundAssumption, Zenon
<1> QED
    BY <1>1, SizesAreNumbers

LEMMA HttpScripts == \A s \in Scripts("http") : ScriptIs("http", s)
<1> SUFFICES ASSUME NEW s \in Scripts("http") PROVE ScriptIs("http", s)
    OBVIOUS
<1>1. PICK h \in Heads, f \in Replies :
          s = Header(h) \o FlattenSeq([k \in DOMAIN f |-> FrameBytes(f, k)])
    <2> DEFINE R(h, f) == Header(h) \o FlattenSeq([k \in DOMAIN f |-> FrameBytes(f, k)])
    <2>1. Scripts("http") = {R(h, f) : h \in Heads, f \in Replies}
        BY DEF Scripts
    <2> HIDE DEF R
    <2>2. \E h \in Heads, f \in Replies : s = R(h, f)
        BY <2>1
    <2> QED
        BY <2>2 DEF R
<1>2. h \in Seq(Nat \ {0}) /\ h # <<>> /\ f \in Seq(Nat)
    BY BoundAssumption, RepliesAreNumbers
<1>3. PICK a : IsLines(a) /\ Len(a) >= 2 /\ Header(h) = a \o Crlf
    BY <1>2, HeaderIsLines, Zenon
<1> DEFINE b == FlattenSeq([k \in DOMAIN f |-> FrameBytes(f, k)])
           n == Before(f, Len(f) + 1)
<1>4. IsBody(b) /\ Carried(b) = Numbers(n)
    BY <1>2, FramesAreBody, Zenon
<1>5. n \in Nat
    BY <1>2, BeforeIs
<1> HIDE DEF b, n
<1>6. s = (a \o Crlf) \o b
    BY <1>1, <1>3, Zenon DEF b
<1>7. /\ HeaderEnds((a \o Crlf) \o b, Len(a) + 2) /\ (a \o Crlf) \o b \in Seq(Tokens)
      /\ Carried((a \o Crlf) \o b) = Carried(b)
      /\ SingleBytes((a \o Crlf) \o b)
    BY <1>3, <1>4, HeaderThenBody, Zenon DEF SingleBytes
<1>8. "http" # "tls" /\ "http" # "ws"
    OBVIOUS
<1>9. Carried(s) = Numbers(n)
    BY <1>4, <1>6, <1>7, Zenon
<1> QED
    BY <1>5, <1>6, <1>7, <1>8, <1>9, Zenon DEF ScriptIs

LEMMA TlsScripts == \A s \in Scripts("tls") : ScriptIs("tls", s)
<1> SUFFICES ASSUME NEW s \in Scripts("tls") PROVE ScriptIs("tls", s)
    OBVIOUS
<1>0. "tls" # "http" /\ "tls" # "ws"
    OBVIOUS
<1>1. PICK f \in Replies : s = FlattenSeq([k \in DOMAIN f |-> Record(f, k)])
    <2>1. Scripts("tls") = {FlattenSeq([k \in DOMAIN f |-> Record(f, k)]) : f \in Replies}
        BY <1>0 DEF Scripts, Record
    <2> QED
        BY <2>1
<1>2. IsRecords(f, Len(f), s)
    BY <1>1, RepliesAreNumbers, RecordsAreFramed, Zenon
<1>3. Before(f, Len(f) + 1) \in Nat
    BY RepliesAreNumbers, BeforeIs
<1> QED
    BY <1>0, <1>2, <1>3, Zenon DEF ScriptIs, IsRecords

LEMMA WsScripts == \A s \in Scripts("ws") : ScriptIs("ws", s)
<1> SUFFICES ASSUME NEW s \in Scripts("ws") PROVE ScriptIs("ws", s)
    OBVIOUS
<1>0. "ws" # "http" /\ "ws" # "tls"
    OBVIOUS
<1>1. PICK f \in Replies, e \in {<<>>, <<Tok("close", <<>>)>>, <<Tok("text", <<>>)>>} :
          s = (<<Tok("ping", <<>>)>> \o [k \in DOMAIN f |-> Message(f, k)]) \o e
    <2> DEFINE R(f, e) == (<<Tok("ping", <<>>)>> \o [k \in DOMAIN f |-> Message(f, k)]) \o e
               E == {<<>>, <<Tok("close", <<>>)>>, <<Tok("text", <<>>)>>}
    <2>1. Scripts("ws") = {R(f, e) : f \in Replies, e \in E}
        BY <1>0 DEF Scripts, Message
    <2> HIDE DEF R, E
    <2>2. \E f \in Replies, e \in E : s = R(f, e)
        BY <2>1
    <2> QED
        BY <2>2 DEF R, E
<1>2. f \in Seq(Nat)
    BY RepliesAreNumbers
<1> DEFINE p == <<Tok("ping", <<>>)>>
           m == [k \in DOMAIN f |-> Message(f, k)]
           n == Before(f, Len(f) + 1)
           c == p \o m
<1>3. /\ m \in Seq(Tokens) /\ \A k \in 1..Len(m) : m[k].t = "bin"
      /\ Carried(m) = Numbers(n)
    BY <1>2, MessagesCarry
<1>4. n \in Nat
    BY <1>2, BeforeIs
<1>5. p \in Seq(Tokens) /\ Len(p) = 1 /\ \A i \in 1..Len(p) : p[i].t = "ping"
    <2> DEFINE x == Tok("ping", <<>>)
    <2>1. x \in Tokens /\ x.t = "ping"
        BY DEF Tok, Tokens, Kinds
    <2> HIDE DEF x
    <2>2. <<x>> \in Seq(Tokens) /\ Len(<<x>>) = 1 /\ \A i \in 1..Len(<<x>>) : <<x>>[i].t = "ping"
        BY <2>1
    <2> QED
        BY <2>2 DEF x
<1>6. e \in Seq(Tokens) /\ \A i \in 1..Len(e) : e[i].t \in {"close", "text"}
    <2>1. ASSUME NEW x \in Tokens, x.t \in {"close", "text"}
          PROVE  <<x>> \in Seq(Tokens) /\ \A i \in 1..Len(<<x>>) : <<x>>[i].t \in {"close", "text"}
        BY <2>1
    <2>2. /\ Tok("close", <<>>) \in Tokens /\ Tok("close", <<>>).t \in {"close", "text"}
          /\ Tok("text", <<>>) \in Tokens /\ Tok("text", <<>>).t \in {"close", "text"}
        BY DEF Tok, Tokens, Kinds
    <2>3. <<>> \in Seq(Tokens) /\ \A i \in 1..Len(<<>>) : <<>>[i].t \in {"close", "text"}
        OBVIOUS
    <2> QED
        BY <2>1, <2>2, <2>3, Zenon
<1> HIDE DEF p, m, n
<1>7. Joined(Tokens, p, m, c)
    BY <1>3, <1>5, ConcatJoins, Zenon
<1> HIDE DEF c
<1>8. c \in Seq(Tokens) /\ \A i \in 1..Len(c) : c[i].t \in {"ping", "bin"}
    <2>1. ASSUME NEW i \in 1..Len(c) PROVE c[i].t \in {"ping", "bin"}
        <3>1. i \in 1..Len(p) \/ (i \in (Len(p) + 1)..Len(c) /\ i - Len(p) \in 1..Len(m))
            BY <1>7 DEF Joined
        <3>2. CASE i \in 1..Len(p)
            BY <1>5, <1>7, <3>2, Zenon DEF Joined
        <3>3. CASE i \in (Len(p) + 1)..Len(c) /\ i - Len(p) \in 1..Len(m)
            BY <1>3, <1>7, <3>3, Zenon DEF Joined
        <3> QED
            BY <3>1, <3>2, <3>3
    <2> QED
        BY <1>7, <2>1 DEF Joined
<1>9. s = c \o e
    BY <1>1 DEF c, p, m
<1>10. Joined(Tokens, c, e, s)
    BY <1>6, <1>8, <1>9, ConcatJoins, Zenon
<1>11. \A i \in 1..Len(s) : s[i].t \in {"ping", "bin", "close", "text"}
    <2>1. ASSUME NEW i \in 1..Len(s) PROVE s[i].t \in {"ping", "bin", "close", "text"}
        <3>1. i \in 1..Len(c) \/ (i \in (Len(c) + 1)..Len(s) /\ i - Len(c) \in 1..Len(e))
            BY <1>10 DEF Joined
        <3>2. CASE i \in 1..Len(c)
            <4>1. s[i] = c[i]
                BY <1>10, <3>2, Zenon DEF Joined
            <4> QED
                BY <1>8, <3>2, <4>1
        <3>3. CASE i \in (Len(c) + 1)..Len(s) /\ i - Len(c) \in 1..Len(e)
            <4>1. s[i] = e[i - Len(c)]
                BY <1>10, <3>3, Zenon DEF Joined
            <4> QED
                BY <1>6, <3>3, <4>1
        <3> QED
            BY <3>1, <3>2, <3>3
    <2> QED
        BY <2>1
<1>12. SingleBytes(s)
    BY <1>11 DEF SingleBytes
<1>13. Carried(s) = Numbers(n)
    <2>1. \A i \in 1..Len(p) : p[i].t \notin {"b", "bin"}
        BY <1>5
    <2>2. \A i \in 1..Len(e) : e[i].t \notin {"b", "bin"}
        BY <1>6
    <2>3. Carried((p \o m) \o e) = Carried(m)
        BY <1>3, <1>5, <1>6, <2>1, <2>2, FrameCarries, Zenon
    <2> QED
        BY <1>3, <1>9, <2>3, Zenon DEF c
<1>14. s \in Seq(Tokens)
    BY <1>10 DEF Joined
<1> QED
    BY <1>0, <1>4, <1>11, <1>12, <1>13, <1>14, Zenon DEF ScriptIs

LEMMA ScriptsAre ==
    ASSUME NEW l \in Layers, NEW s \in Scripts(l)
    PROVE  ScriptIs(l, s)
<1>1. l = "http" \/ l = "tls" \/ l = "ws"
    BY BoundAssumption
<1> QED
    BY <1>1, HttpScripts, TlsScripts, WsScripts, Zenon

-----------------------------------------------------------------------------
(* Reading. *)

\* The payload among the first k of what the peer sends.
PayloadTo(k) == Carried(SubSeq(script, 1, k))

ReadTypes ==
    /\ layer \in Layers /\ closed \in BOOLEAN /\ first_response \in BOOLEAN
    /\ arrived \in 0..Len(script) /\ taken \in 0..arrived
    /\ leftover \in Seq(Nat) /\ got \in Seq(Nat) /\ len_buf \in Seq(Nat)
    /\ phase \in [at : {"Discard", "Length", "Payload"}, n : Nat]
    /\ reader \in {"open", "eof", "failed"}

\* Up to the end of the header everything is kept, and nothing is handed on.
HttpReads ==
    \E h : /\ HeaderEnds(script, h)
           /\ first_response => /\ got = <<>> /\ leftover = <<>> /\ taken < h
                                /\ scratch = SubSeq(script, 1, taken)
           /\ ~ first_response => taken >= h

\* The phase says where in the record that begins behind p the reader stands.
AtRecord(B, p) ==
    LET d == p + Discarded(p)
    IN  \/ phase.at = "Discard" /\ taken + phase.n = d /\ phase.n <= Discarded(p)
        \/ /\ phase.at = "Length" /\ Len(len_buf) <= 2 /\ taken = d + Len(len_buf)
           /\ \A i \in 1..Len(len_buf) : len_buf[i] = script[d + i].v[1]
        \/ /\ phase.at = "Payload"
           /\ \E n \in Nat : /\ RecordFrom(script, p, n) /\ d + 2 + n \in B
                             /\ phase.n <= n /\ taken + phase.n = d + 2 + n

TlsReads == leftover = <<>> /\ \E B : Framed(script, B) /\ \E p \in B : AtRecord(B, p)

\* What was taken is what the caller was given and what is left over for it.
ReadInv ==
    /\ ReadTypes /\ ScriptIs(layer, script)
    /\ got \o leftover = PayloadTo(taken)
    /\ NoEarlyEof
    /\ reader = "open" /\ layer = "http" => HttpReads
    /\ reader = "open" /\ layer = "tls" => TlsReads

\* A part of a sequence of tokens, behind its first k.
LEMMA PartIs ==
    ASSUME NEW s \in Seq(Tokens), NEW k \in Nat, NEW n \in Nat, k + n <= Len(s)
    PROVE  /\ SubSeq(s, k + 1, k + n) \in Seq(Tokens) /\ Len(SubSeq(s, k + 1, k + n)) = n
           /\ \A i \in 1..n : SubSeq(s, k + 1, k + n)[i] = s[k + i]
           /\ SubSeq(s, 1, k + n) = SubSeq(s, 1, k) \o SubSeq(s, k + 1, k + n)
           /\ Carried(SubSeq(s, 1, k + n)) = Carried(SubSeq(s, 1, k)) \o Carried(SubSeq(s, k + 1, k + n))
           /\ Carried(SubSeq(s, 1, k)) \in Seq(Nat) /\ Carried(SubSeq(s, k + 1, k + n)) \in Seq(Nat)
<1> DEFINE a == SubSeq(s, 1, k)
           b == SubSeq(s, k + 1, k + n)
<1>1. b \in Seq(Tokens) /\ Len(b) = n
    OBVIOUS
<1>2. \A i \in 1..n : b[i] = s[k + i]
    OBVIOUS
<1>3. a \in Seq(Tokens)
    OBVIOUS
<1>4. SubSeq(s, 1, k + n) = a \o b
    <2>1. 1 \in 1..(Len(s) + 1) /\ k \in (1 - 1)..Len(s) /\ k + n \in k..Len(s)
        OBVIOUS
    <2> QED
        BY <2>1, ConcatAdjacentSubSeq, Zenon
<1> HIDE DEF a, b
<1>5. Carried(a \o b) = Carried(a) \o Carried(b) /\ Carried(a) \in Seq(Nat) /\ Carried(b) \in Seq(Nat)
    BY <1>1, <1>3, CarriedConcat, CarriedIsSeq, Zenon
<1> QED
    BY <1>1, <1>2, <1>4, <1>5 DEF a, b

LEMMA NothingCarried == /\ Carried(<<>>) = <<>>
                        /\ \A s \in Seq(Nat) : s \o <<>> = s /\ <<>> \o s = s
    BY CarriedEmpty

LEMMA BodyPayload ==
    ASSUME NEW s, IsBody(s)
    PROVE  Payload(s) = Carried(s) /\ Carried(s) \in Seq(Nat) /\ (Len(s) > 0 => Carried(s) # <<>>)
<1>1. s \in Seq(Tokens) /\ \A i \in 1..Len(s) : s[i].t = "b" /\ Len(s[i].v) = 1
    BY DEF IsBody
<1>2. DOMAIN s = 1..Len(s) /\ Len(s) \in Nat
    BY <1>1
<1>3. [i \in DOMAIN s |-> IF s[i].t \in {"b", "bin"} THEN s[i].v ELSE <<0>>]
        = [i \in DOMAIN s |-> IF s[i].t \in {"b", "bin"} THEN s[i].v ELSE <<>>]
    BY <1>1, <1>2
<1>4. Payload(s) = Carried(s)
    BY <1>3 DEF Payload, Carried
<1>5. Carried(s) \in Seq(Nat)
    BY <1>1, CarriedIsSeq
<1>6. ASSUME Len(s) > 0 PROVE Carried(s) # <<>>
    <2> DEFINE n == Len(s)
               p == SubSeq(s, 1, n - 1)
    <2>1. n \in 1..Len(s)
        BY <1>2, <1>6
    <2>2. p \in Seq(Tokens) /\ s[n] \in Tokens /\ SubSeq(s, 1, n) = Append(p, s[n])
        BY <1>1, <2>1, SubSeqNext, Zenon
    <2>3. SubSeq(s, 1, n) = s
        BY <1>1
    <2>4. Len(CarriedBy(s[n])) = 1 /\ CarriedBy(s[n]) \in Seq(Nat)
        <3>1. CarriedBy(s[n]) = s[n].v
            BY <1>1, <2>1 DEF CarriedBy
        <3> QED
            BY <1>1, <2>1, <2>2, <3>1, CarriedByIsSeq
    <2> HIDE DEF n, p
    <2>5. Carried(s) = Carried(p) \o CarriedBy(s[n]) /\ Carried(p) \in Seq(Nat)
        BY <2>2, <2>3, CarriedNext, Zenon
    <2> DEFINE a == Carried(p)
               b == CarriedBy(s[n])
    <2>6. a \in Seq(Nat) /\ b \in Seq(Nat) /\ Len(b) = 1 /\ Carried(s) = a \o b
        BY <2>4, <2>5
    <2> HIDE DEF a, b
    <2>7. a \o b # <<>>
        BY <2>6
    <2> QED
        BY <2>6, <2>7
<1> QED
    BY <1>4, <1>5, <1>6

\* What is given out next, if it is payload.
LEMMA NextIsBody ==
    ASSUME ScriptIs(layer, script), NEW k \in Nat, NEW n \in Nat, k + n <= Len(script),
           \A i \in (k + 1)..(k + n) : script[i].t = "b"
    PROVE  IsBody(SubSeq(script, k + 1, k + n))
<1> DEFINE x == SubSeq(script, k + 1, k + n)
<1>1. x \in Seq(Tokens) /\ Len(x) = n /\ \A i \in 1..n : x[i] = script[k + i]
    BY PartIs DEF ScriptIs
<1>2. Len(script) \in Nat
    BY DEF ScriptIs
<1> HIDE DEF x
<1>3. ASSUME NEW i \in 1..n PROVE x[i].t = "b" /\ Len(x[i].v) = 1
    <2>1. k + i \in (k + 1)..(k + n) /\ k + i \in 1..Len(script)
        BY <1>2
    <2>2. script[k + i].t = "b" /\ Len(script[k + i].v) = 1
        BY <2>1, Zenon DEF ScriptIs, SingleBytes
    <2> QED
        BY <1>1, <2>2
<1> QED
    BY <1>1, <1>3 DEF IsBody, x

\* ... and if it is none.
LEMMA NextIsNone ==
    ASSUME ScriptIs(layer, script), NEW k \in Nat, NEW n \in Nat, k + n <= Len(script),
           \A i \in (k + 1)..(k + n) : script[i].t \notin {"b", "bin"}
    PROVE  Carried(SubSeq(script, k + 1, k + n)) = <<>>
<1> DEFINE x == SubSeq(script, k + 1, k + n)
<1>1. x \in Seq(Tokens) /\ Len(x) = n /\ \A i \in 1..n : x[i] = script[k + i]
    BY PartIs DEF ScriptIs
<1> HIDE DEF x
<1>2. ASSUME NEW i \in 1..n PROVE x[i].t \notin {"b", "bin"}
    <2>1. k + i \in (k + 1)..(k + n)
        OBVIOUS
    <2>2. script[k + i].t \notin {"b", "bin"}
        BY <2>1, Zenon
    <2> QED
        BY <1>1, <2>2
<1>3. Carried(x) = <<>>
    BY <1>1, <1>2, CarriedNone
<1> QED
    BY <1>3 DEF x

LEMMA InnerIs ==
    ASSUME ReadTypes, Len(script) \in Nat, NEW want \in Nat, NEW n \in Inner(want)
    PROVE  /\ n \in Nat /\ taken + n <= arrived /\ taken \in Nat /\ arrived \in Nat
           /\ taken + n <= Len(script) /\ taken + n \in 0..arrived
           /\ n = 0 => closed /\ taken = arrived
           /\ n > 0 => n <= want
<1>1. taken \in Nat /\ arrived \in Nat /\ taken <= arrived /\ arrived <= Len(script)
    BY DEF ReadTypes
<1>2. CASE taken < arrived
    <2>1. n \in 1..(IF arrived - taken < want THEN arrived - taken ELSE want)
        BY <1>2 DEF Inner, Least
    <2>2. n \in Nat /\ n # 0 /\ n <= arrived - taken /\ n <= want
        BY <1>1, <2>1
    <2> QED
        BY <1>1, <2>2
<1>3. CASE ~ (taken < arrived)
    <2>1. n = 0 /\ closed
        BY <1>3 DEF Inner
    <2> QED
        BY <1>1, <1>3, <2>1
<1> QED
    BY <1>2, <1>3

\* A turn of the loop that takes n tokens and hands on or keeps what they carry.
LEMMA ReadOn ==
    ASSUME ReadInv, layer' = layer, script' = script, arrived' = arrived, closed' = closed,
           NEW n \in Nat, taken + n <= arrived, taken' = taken + n,
           got' \in Seq(Nat), leftover' \in Seq(Nat), len_buf' \in Seq(Nat),
           got' \o leftover' = (got \o leftover) \o Carried(SubSeq(script, taken + 1, taken + n)),
           first_response' \in BOOLEAN, reader' \in {"open", "eof", "failed"},
           phase' \in [at : {"Discard", "Length", "Payload"}, n : Nat],
           NoEarlyEof',
           reader' = "open" /\ layer = "http" => HttpReads',
           reader' = "open" /\ layer = "tls" => TlsReads'
    PROVE  ReadInv'
<1>1. /\ ReadTypes /\ ScriptIs(layer, script) /\ script \in Seq(Tokens)
      /\ got \o leftover = PayloadTo(taken)
    BY DEF ReadInv, ScriptIs
<1>2. /\ taken \in Nat /\ arrived \in Nat /\ Len(script) \in Nat /\ taken <= arrived
      /\ arrived <= Len(script)
    BY <1>1 DEF ReadTypes
<1>3. taken + n <= Len(script) /\ taken + n \in 0..arrived
    BY <1>2
<1>4. PayloadTo(taken + n) = PayloadTo(taken) \o Carried(SubSeq(script, taken + 1, taken + n))
    BY <1>1, <1>2, <1>3, PartIs, Zenon DEF PayloadTo
<1>5. got' \o leftover' = PayloadTo(taken)'
    <2>1. PayloadTo(taken)' = PayloadTo(taken + n)
        BY DEF PayloadTo
    <2> QED
        BY <1>1, <1>4, <2>1, Zenon
<1>6. ReadTypes'
    BY <1>1, <1>3 DEF ReadTypes
<1>7. ScriptIs(layer, script)'
    <2>1. ScriptIs(layer', script')
        BY <1>1
    <2> QED
        BY <2>1 DEF ScriptIs, SingleBytes, HeaderEnds, Framed, RecordFrom
<1> QED
    BY <1>5, <1>6, <1>7 DEF ReadInv

\* At the end of the inner stream the caller has everything.
LEMMA AtTheEnd ==
    ASSUME ReadInv, leftover = <<>>, closed, taken = arrived, got' = got, taken' = taken,
           script' = script, arrived' = arrived, closed' = closed
    PROVE  NoEarlyEof'
<1>1. got \in Seq(Nat) /\ got \o leftover = PayloadTo(taken)
    BY DEF ReadInv, ReadTypes
<1>2. got = PayloadTo(taken)
    BY <1>1, NothingCarried
<1>3. Data' = PayloadTo(taken)
    BY DEF Data, PayloadTo
<1>4. AllDelivered'
    BY <1>2, <1>3 DEF AllDelivered
<1> QED
    BY <1>4 DEF NoEarlyEof

LEMMA ReadStarts == Init => ReadInv
<1> SUFFICES ASSUME Init PROVE ReadInv
    OBVIOUS
<1>1. /\ layer \in Layers /\ script \in Scripts(layer) /\ arrived = 0 /\ taken = 0 /\ closed = FALSE
      /\ first_response = TRUE /\ scratch = <<>> /\ leftover = <<>> /\ len_buf = <<>>
      /\ phase = [at |-> "Discard", n |-> FirstDiscard] /\ got = <<>> /\ reader = "open"
    BY DEF Init
<1>2. ScriptIs(layer, script)
    BY <1>1, ScriptsAre
<1>3. script \in Seq(Tokens) /\ Len(script) \in Nat
    BY <1>2 DEF ScriptIs
<1>4. FirstDiscard \in Nat
    BY BoundAssumption
<1>5. ReadTypes
    <2>1. arrived \in 0..Len(script) /\ taken \in 0..arrived
        BY <1>1, <1>3
    <2>2. <<>> \in Seq(Nat)
        OBVIOUS
    <2>3. phase \in [at : {"Discard", "Length", "Payload"}, n : Nat]
        BY <1>1, <1>4
    <2> QED
        BY <1>1, <2>1, <2>2, <2>3, Zenon DEF ReadTypes
<1>6. SubSeq(script, 1, 0) = <<>>
    BY <1>3
<1>7. got \o leftover = PayloadTo(taken)
    <2>1. <<>> \o <<>> = <<>>
        OBVIOUS
    <2> QED
        BY <1>1, <1>6, <2>1, NothingCarried DEF PayloadTo
<1>8. NoEarlyEof
    BY <1>1 DEF NoEarlyEof
<1>9. layer = "http" => HttpReads
    <2> SUFFICES ASSUME layer = "http" PROVE HttpReads
        OBVIOUS
    <2>1. PICK h : HeaderEnds(script, h)
        BY <1>2 DEF ScriptIs
    <2>2. taken < h
        BY <1>1, <1>3, <2>1 DEF HeaderEnds
    <2> QED
        BY <1>1, <1>6, <2>1, <2>2 DEF HttpReads
<1>10. layer = "tls" => TlsReads
    <2> SUFFICES ASSUME layer = "tls" PROVE TlsReads
        OBVIOUS
    <2>1. PICK B : Framed(script, B)
        BY <1>2 DEF ScriptIs
    <2>2. 0 \in B
        BY <2>1 DEF Framed
    <2>3. AtRecord(B, 0)
        BY <1>1, <1>4 DEF AtRecord, Discarded
    <2> QED
        BY <1>1, <2>1, <2>2, <2>3 DEF TlsReads
<1> QED
    BY <1>2, <1>5, <1>7, <1>8, <1>9, <1>10 DEF ReadInv

\* A step that reads nothing.
LEMMA ReaderWaits ==
    ASSUME ReadInv, layer' = layer, script' = script, taken' = taken, got' = got,
           first_response' = first_response, scratch' = scratch, leftover' = leftover,
           phase' = phase, len_buf' = len_buf,
           reader' = reader \/ (reader = "open" /\ reader' = "failed"),
           \/ arrived' = arrived /\ closed' = closed
           \/ ~ closed /\ closed' \in BOOLEAN /\ arrived' \in arrived..Len(script)
    PROVE  ReadInv'
<1>1. /\ ReadTypes /\ ScriptIs(layer, script) /\ got \o leftover = PayloadTo(taken)
      /\ Len(script) \in Nat
    BY DEF ReadInv, ScriptIs
<1>2. ReadTypes'
    <2>1. arrived' \in 0..Len(script) /\ taken \in 0..arrived'
        BY <1>1 DEF ReadTypes
    <2> QED
        BY <1>1, <2>1 DEF ReadTypes
<1>3. ScriptIs(layer, script)'
    <2>1. ScriptIs(layer', script')
        BY <1>1
    <2> QED
        BY <2>1 DEF ScriptIs, SingleBytes, HeaderEnds, Framed, RecordFrom
<1>4. got' \o leftover' = PayloadTo(taken)'
    BY <1>1 DEF PayloadTo
<1>5. NoEarlyEof'
    <2> SUFFICES ASSUME reader' = "eof" PROVE NoEarlyEof'
        BY DEF NoEarlyEof
    <2>1. reader = "eof" /\ NoEarlyEof
        BY DEF ReadInv
    <2>2. CASE AllDelivered
        <3>1. closed' = closed /\ arrived' = arrived
            BY <2>2 DEF AllDelivered
        <3>2. AllDelivered'
            BY <2>2, <3>1 DEF AllDelivered, Data
        <3> QED
            BY <3>2 DEF NoEarlyEof
    <2>3. CASE \/ (layer = "ws" /\ taken > 0 /\ script[taken].t = "close")
               \/ (layer = "http" /\ got = <<>> /\ ~ first_response)
        BY <2>3 DEF NoEarlyEof
    <2> QED
        BY <2>1, <2>2, <2>3 DEF NoEarlyEof
<1>6. reader' = "open" /\ layer' = "http" => HttpReads'
    BY DEF ReadInv, HttpReads, HeaderEnds
<1>7. reader' = "open" /\ layer' = "tls" => TlsReads'
    <2> SUFFICES ASSUME reader' = "open", layer' = "tls" PROVE TlsReads'
        OBVIOUS
    <2>1. reader = "open" /\ layer = "tls"
        OBVIOUS
    <2>2. TlsReads
        BY <2>1, Zenon DEF ReadInv
    <2>3. PICK B : Framed(script, B) /\ \E p \in B : AtRecord(B, p)
        BY <2>2, Zenon DEF TlsReads
    <2>4. PICK p \in B : AtRecord(B, p)
        BY <2>3, Zenon
    <2>5. AtRecord(B, p)'
        BY <2>4 DEF AtRecord, RecordFrom, Discarded
    <2>6. Framed(script, B)'
        <3>1. Framed(script', B)
            BY <2>3
        <3> QED
            BY <3>1 DEF Framed, RecordFrom
    <2>7. leftover' = <<>>
        BY <2>2 DEF TlsReads
    <2> QED
        BY <2>5, <2>6, <2>7 DEF TlsReads
<1> QED
    BY <1>2, <1>3, <1>4, <1>5, <1>6, <1>7 DEF ReadInv

\* What the caller is given of the next bytes, and what is left over of them.
LEMMA Shared ==
    ASSUME NEW s \in Seq(Nat), NEW room \in Nat
    PROVE  LET k == Least(room, Len(s))
           IN  /\ SubSeq(s, 1, k) \in Seq(Nat) /\ Cut(s, k) \in Seq(Nat)
               /\ SubSeq(s, 1, k) \o Cut(s, k) = s
               /\ room > 0 /\ s # <<>> => SubSeq(s, 1, k) # <<>>
<1> DEFINE k == Least(room, Len(s))
<1>1. k \in 0..Len(s) /\ Len(s) \in Nat /\ (room > 0 /\ Len(s) > 0 => k > 0)
    BY DEF Least
<1> HIDE DEF k
<1>2. /\ SubSeq(s, 1, k) \in Seq(Nat) /\ Len(SubSeq(s, 1, k)) = k
      /\ SubSeq(s, k + 1, Len(s)) \in Seq(Nat)
    BY <1>1
<1>3. SubSeq(s, 1, k) \o SubSeq(s, k + 1, Len(s)) = s
    <2>1. 1 \in 1..(Len(s) + 1) /\ k \in (1 - 1)..Len(s) /\ Len(s) \in k..Len(s)
        BY <1>1
    <2>2. SubSeq(s, 1, k) \o SubSeq(s, k + 1, Len(s)) = SubSeq(s, 1, Len(s))
        BY <2>1, ConcatAdjacentSubSeq, Zenon
    <2> QED
        BY <2>2, SubSeqFull
<1>4. s # <<>> => Len(s) > 0
    OBVIOUS
<1>5. SubSeq(s, 1, k) = <<>> => k = 0
    <2> DEFINE a == SubSeq(s, 1, k)
    <2>1. Len(a) = k
        BY <1>2
    <2> HIDE DEF a
    <2>2. a = <<>> => k = 0
        BY <2>1
    <2> QED
        BY <2>2 DEF a
<1>6. room > 0 /\ s # <<>> => SubSeq(s, 1, k) # <<>>
    BY <1>1, <1>4, <1>5
<1> QED
    BY <1>2, <1>3, <1>6 DEF Cut, k

LEMMA NatsAssociative ==
    ASSUME NEW a \in Seq(Nat), NEW b \in Seq(Nat), NEW c \in Seq(Nat)
    PROVE  (a \o b) \o c = a \o (b \o c) /\ a \o b \in Seq(Nat)
<1>1. a \o b \in Seq(Nat)
    OBVIOUS
<1> QED
    BY <1>1, Associative, Zenon

LEMMA LeftoverStep ==
    ASSUME ReadInv, reader = "open", UNCHANGED layer, UNCHANGED peerVars, NEW room \in Nat \ {0},
           ReadLeftover(room)
    PROVE  ReadInv'
<1>1. /\ ReadTypes /\ ScriptIs(layer, script) /\ got \in Seq(Nat) /\ leftover \in Seq(Nat)
      /\ taken \in Nat /\ arrived \in Nat /\ Len(script) \in Nat /\ taken <= arrived
      /\ first_response \in BOOLEAN /\ len_buf \in Seq(Nat)
      /\ phase \in [at : {"Discard", "Length", "Payload"}, n : Nat]
      /\ layer \in Layers
    BY DEF ReadInv, ReadTypes, ScriptIs
<1> DEFINE k == Least(room, Len(leftover))
           a == SubSeq(leftover, 1, k)
           b == Cut(leftover, k)
<1>2. /\ leftover # <<>> /\ leftover' = b /\ got' = got \o a
      /\ (reader' = IF a = <<>> THEN "eof" ELSE reader)
      /\ UNCHANGED <<taken, first_response, scratch, phase, len_buf>>
    BY DEF ReadLeftover, Deliver
<1>3. a \in Seq(Nat) /\ b \in Seq(Nat) /\ a \o b = leftover /\ a # <<>>
    <2>1. room \in Nat /\ room > 0
        OBVIOUS
    <2> QED
        BY <1>1, <1>2, <2>1, Shared
<1> HIDE DEF a, b, k
<1>4. reader' = "open"
    BY <1>2, <1>3
<1>5. layer' = layer /\ script' = script /\ arrived' = arrived /\ closed' = closed
    BY DEF peerVars
<1>6. got' \o leftover' = got \o leftover /\ got' \in Seq(Nat)
    <2>0. got \in Seq(Nat) /\ a \in Seq(Nat) /\ b \in Seq(Nat)
        BY <1>1, <1>3
    <2>1. (got \o a) \o b = got \o (a \o b) /\ got \o a \in Seq(Nat)
        BY <2>0, NatsAssociative
    <2>2. got' = got \o a /\ leftover' = b
        BY <1>2, Zenon
    <2> QED
        BY <1>3, <2>1, <2>2
<1>7. /\ 0 \in Nat /\ taken + 0 <= arrived /\ taken' = taken + 0
    BY <1>1, <1>2
<1>8. Carried(SubSeq(script, taken + 1, taken + 0)) = <<>>
    <2>1. SubSeq(script, taken + 1, taken + 0) = <<>>
        BY <1>1 DEF ScriptIs
    <2> QED
        BY <2>1, NothingCarried
<1>9. got' \o leftover' = (got \o leftover) \o Carried(SubSeq(script, taken + 1, taken + 0))
    <2>1. got \o leftover \in Seq(Nat)
        BY <1>1, NatsAssociative, Zenon
    <2> QED
        BY <1>6, <1>8, <2>1, NothingCarried
<1>10. NoEarlyEof'
    BY <1>4 DEF NoEarlyEof
<1>11. layer = "http" => HttpReads'
    <2> SUFFICES ASSUME layer = "http" PROVE HttpReads'
        OBVIOUS
    <2>1. PICK h : /\ HeaderEnds(script, h) /\ (first_response => leftover = <<>>)
                   /\ (~ first_response => taken >= h)
        BY DEF ReadInv, HttpReads
    <2>2. ~ first_response
        BY <1>2, <2>1
    <2>3. first_response' = first_response /\ taken' = taken
        BY <1>2
    <2>4. HeaderEnds(script', h)
        BY <1>5, <2>1
    <2> QED
        BY <2>1, <2>2, <2>3, <2>4 DEF HttpReads, HeaderEnds
<1>12. layer # "tls"
    BY <1>2 DEF ReadInv, TlsReads
<1>13. reader' \in {"open", "eof", "failed"} /\ first_response' \in BOOLEAN /\ len_buf' \in Seq(Nat)
       /\ phase' \in [at : {"Discard", "Length", "Payload"}, n : Nat] /\ leftover' \in Seq(Nat)
    BY <1>1, <1>2, <1>3, <1>4
<1> QED
    BY <1>5, <1>6, <1>7, <1>9, <1>10, <1>11, <1>12, <1>13, ReadOn, Zenon

LEMMA TwoAndTwo ==
    ASSUME NEW S, NEW a \in S, NEW b \in S
    PROVE  <<a, b>> \o <<a, b>> = <<a, b, a, b>>
<1> DEFINE x == <<a, b>> \o <<a, b>>
<1>1. x \in Seq(S) /\ Len(x) = 4 /\ x[1] = a /\ x[2] = b /\ x[3] = a /\ x[4] = b
    OBVIOUS
<1> HIDE DEF x
<1>2. x = <<x[1], x[2], x[3], x[4]>>
    BY <1>1
<1>3. x = <<a, b, a, b>>
    BY <1>1, <1>2
<1> QED
    BY <1>3 DEF x

\* The search for CR LF CR LF finds the end of the header, once it has come.
LEMMA CrlfFound ==
    ASSUME NEW s \in Seq(Tokens), NEW h, HeaderEnds(s, h), NEW k \in 0..Len(s)
    PROVE  FindDoubleCrlf(SubSeq(s, 1, k)) = IF k >= h THEN {h} ELSE {}
<1> DEFINE all == SubSeq(s, 1, k)
           ends == {i \in 4..Len(all) : SubSeq(all, i - 3, i) = Crlf \o Crlf}
<1>1. all \in Seq(Tokens) /\ Len(all) = k /\ \A i \in 1..k : all[i] = s[i]
    OBVIOUS
<1>2. h \in 4..Len(s) /\ h \in Nat /\ k \in Nat /\ Len(s) \in Nat
    BY DEF HeaderEnds
<1>3. Crlf \o Crlf = <<Cr, Lf, Cr, Lf>>
    <2>1. Crlf = <<Cr, Lf>>
        BY DEF Crlf, Cr, Lf
    <2>2. Cr \in Tokens /\ Lf \in Tokens
        BY CrLf
    <2>3. <<Cr, Lf>> \o <<Cr, Lf>> = <<Cr, Lf, Cr, Lf>>
        BY <2>2, TwoAndTwo, Zenon
    <2> QED
        BY <2>1, <2>3
<1> HIDE DEF all
<1>4. ASSUME NEW i \in 4..k
      PROVE  SubSeq(all, i - 3, i) = Crlf \o Crlf
                 <=> s[i - 3] = Cr /\ s[i - 2] = Lf /\ s[i - 1] = Cr /\ s[i] = Lf
    <2> DEFINE x == SubSeq(all, i - 3, i)
    <2>1. x \in Seq(Tokens) /\ Len(x) = 4 /\ \A j \in 1..4 : x[j] = all[i - 4 + j]
        <3>1. i - 3 \in 1..(k + 1) /\ i \in Nat /\ i <= Len(all) /\ i - (i - 3) + 1 = 4 /\ Len(all) \in Nat
            BY <1>1, <1>2
        <3>2. /\ x \in Seq(Tokens) /\ Len(x) = i - (i - 3) + 1
              /\ \A j \in 1..(i - (i - 3) + 1) : x[j] = all[(i - 3) + j - 1]
            BY <1>1, <3>1
        <3> HIDE DEF x
        <3>3. \A j \in 1..4 : (i - 3) + j - 1 = i - 4 + j
            BY <3>1
        <3> QED
            BY <3>1, <3>2, <3>3
    <2> HIDE DEF x
    <2>2. /\ x[1] = all[i - 3] /\ x[2] = all[i - 2] /\ x[3] = all[i - 1] /\ x[4] = all[i]
        <3>1. i - 4 + 1 = i - 3 /\ i - 4 + 2 = i - 2 /\ i - 4 + 3 = i - 1 /\ i - 4 + 4 = i
            BY <1>2
        <3>2. \A j \in 1..4 : x[j] = all[i - 4 + j]
            BY <2>1
        <3> QED
            BY <3>1, <3>2
    <2>3. /\ all[i - 3] = s[i - 3] /\ all[i - 2] = s[i - 2] /\ all[i - 1] = s[i - 1] /\ all[i] = s[i]
        BY <1>1, <1>2
    <2>4. x = <<x[1], x[2], x[3], x[4]>>
        BY <2>1
    <2>5. x = <<Cr, Lf, Cr, Lf>> <=> x[1] = Cr /\ x[2] = Lf /\ x[3] = Cr /\ x[4] = Lf
        BY <2>4
    <2> QED
        BY <1>3, <2>2, <2>3, <2>5 DEF x
<1>5. ends = {i \in 4..k : s[i - 3] = Cr /\ s[i - 2] = Lf /\ s[i - 1] = Cr /\ s[i] = Lf}
    BY <1>1, <1>4
<1> HIDE DEF ends
<1>6. \A i \in ends : i \in 4..k /\ i >= h
    <2> SUFFICES ASSUME NEW i \in ends, i < h PROVE FALSE
        BY <1>2, <1>5
    <2>1. i \in 4..(h - 1) /\ s[i - 2].t = "lf" /\ s[i - 1].t = "cr"
        BY <1>2, <1>5, CrLf
    <2> QED
        BY <2>1 DEF HeaderEnds
<1>7. k >= h => h \in ends
    BY <1>2, <1>5 DEF HeaderEnds
<1>8. FindDoubleCrlf(all) = {i \in ends : \A j \in ends : i <= j}
    BY DEF FindDoubleCrlf, ends
<1>9. CASE k >= h
    BY <1>2, <1>6, <1>7, <1>8, <1>9 DEF all
<1>10. CASE ~ (k >= h)
    <2>1. ends = {}
        BY <1>2, <1>6, <1>10
    <2> QED
        BY <1>8, <1>10, <2>1 DEF all
<1> QED
    BY <1>9, <1>10

\* The facts a turn of the loop starts from.
LEMMA TurnStarts ==
    ASSUME ReadInv, UNCHANGED layer, UNCHANGED peerVars
    PROVE  /\ ReadTypes /\ ScriptIs(layer, script) /\ got \in Seq(Nat) /\ leftover \in Seq(Nat)
           /\ script \in Seq(Tokens)
           /\ taken \in Nat /\ arrived \in Nat /\ Len(script) \in Nat /\ taken <= arrived
           /\ arrived <= Len(script)
           /\ first_response \in BOOLEAN /\ len_buf \in Seq(Nat)
           /\ phase \in [at : {"Discard", "Length", "Payload"}, n : Nat]
           /\ got \o leftover = PayloadTo(taken)
           /\ layer' = layer /\ script' = script /\ arrived' = arrived /\ closed' = closed
<1>1. ReadTypes /\ ScriptIs(layer, script) /\ got \o leftover = PayloadTo(taken)
    BY DEF ReadInv
<1>2. script \in Seq(Tokens) /\ Len(script) \in Nat
    BY <1>1 DEF ScriptIs
<1>3. layer' = layer /\ script' = script /\ arrived' = arrived /\ closed' = closed
    BY DEF peerVars
<1> QED
    BY <1>1, <1>2, <1>3 DEF ReadTypes

\* Behind the header there is only payload.
LEMMA BehindHeader ==
    ASSUME ScriptIs(layer, script), NEW h, HeaderEnds(script, h), NEW k \in h..Len(script)
    PROVE  LET body == SubSeq(script, h + 1, k)
           IN  Payload(body) = PayloadTo(k) /\ PayloadTo(k) \in Seq(Nat)
<1>1. script \in Seq(Tokens) /\ Len(script) \in Nat
    BY DEF ScriptIs
<1>2. h \in Nat /\ k \in Nat /\ k - h \in Nat /\ h + (k - h) = k /\ k <= Len(script) /\ h <= Len(script)
    BY <1>1 DEF HeaderEnds
<1> DEFINE body == SubSeq(script, h + 1, k)
<1>3. \A i \in (h + 1)..(h + (k - h)) : script[i].t = "b"
    BY <1>1, <1>2 DEF HeaderEnds
<1>4. IsBody(SubSeq(script, h + 1, h + (k - h)))
    BY <1>2, <1>3, NextIsBody
<1>5. IsBody(body)
    BY <1>2, <1>4
<1>6. Payload(body) = Carried(body) /\ Carried(body) \in Seq(Nat)
    BY <1>5, BodyPayload
<1>7. Carried(SubSeq(script, 1, h)) = <<>>
    <2>1. 0 \in Nat /\ 0 + h <= Len(script) /\ 0 + 1 = 1 /\ 0 + h = h
        BY <1>2
    <2>2. \A i \in (0 + 1)..(0 + h) : script[i].t \notin {"b", "bin"}
        BY <1>2 DEF HeaderEnds
    <2>3. Carried(SubSeq(script, 0 + 1, 0 + h)) = <<>>
        BY <1>2, <2>1, <2>2, NextIsNone
    <2> QED
        BY <2>1, <2>3
<1>8. PayloadTo(k) = Carried(SubSeq(script, 1, h)) \o Carried(body)
    <2>1. /\ h + (k - h) <= Len(script) /\ k - h \in Nat
        BY <1>2
    <2>2. Carried(SubSeq(script, 1, h + (k - h)))
             = Carried(SubSeq(script, 1, h)) \o Carried(SubSeq(script, h + 1, h + (k - h)))
        BY <1>1, <1>2, <2>1, PartIs
    <2> QED
        BY <1>2, <2>2 DEF PayloadTo
<1> HIDE DEF body
<1>9. PayloadTo(k) = Carried(body)
    BY <1>6, <1>7, <1>8, NothingCarried
<1> QED
    BY <1>6, <1>9 DEF body

LEMMA HttpHeaderStep ==
    ASSUME ReadInv, reader = "open", UNCHANGED layer, UNCHANGED peerVars, NEW room \in Nat \ {0},
           HttpHeader(room)
    PROVE  ReadInv'
<1>1. /\ ReadTypes /\ ScriptIs(layer, script) /\ got \in Seq(Nat) /\ leftover \in Seq(Nat)
      /\ script \in Seq(Tokens)
      /\ taken \in Nat /\ arrived \in Nat /\ Len(script) \in Nat /\ taken <= arrived
      /\ arrived <= Len(script) /\ first_response \in BOOLEAN /\ len_buf \in Seq(Nat)
      /\ phase \in [at : {"Discard", "Length", "Payload"}, n : Nat]
      /\ got \o leftover = PayloadTo(taken)
      /\ layer' = layer /\ script' = script /\ arrived' = arrived /\ closed' = closed
    BY TurnStarts
<1>2. /\ layer = "http" /\ leftover = <<>> /\ first_response
      /\ phase' = phase /\ len_buf' = len_buf
    BY DEF HttpHeader
<1>3. PICK n \in Inner(Len(script)) :
         /\ taken' = taken + n
         /\ \/ /\ n = 0
               /\ Deliver(<<>>) /\ UNCHANGED <<scratch, leftover, first_response>>
            \/ /\ n > 0 /\ first_response' = FALSE /\ scratch' = <<>>
               /\ \E end \in FindDoubleCrlf(scratch \o Next1(n)) :
                    LET body == Payload(Cut(scratch \o Next1(n), end))
                    IN  /\ Deliver(SubSeq(body, 1, Least(room, Len(body))))
                        /\ leftover' = Cut(body, Least(room, Len(body)))
            \/ /\ n > 0 /\ FindDoubleCrlf(scratch \o Next1(n)) = {}
               /\ scratch' = scratch \o Next1(n)
               /\ reader' = IF Len(scratch \o Next1(n)) > MaxHeader THEN "failed" ELSE reader
               /\ UNCHANGED <<got, leftover, first_response>>
    BY DEF HttpHeader
<1>4. PICK h : /\ HeaderEnds(script, h) /\ got = <<>> /\ taken < h
               /\ scratch = SubSeq(script, 1, taken)
    BY <1>2 DEF ReadInv, HttpReads
<1> DEFINE k == taken + n
           all == scratch \o Next1(n)
           next == SubSeq(script, taken + 1, taken + n)
<1>5. /\ n \in Nat /\ k <= arrived /\ k <= Len(script) /\ k \in 0..Len(script) /\ k \in Nat
      /\ (n = 0 => closed /\ taken = arrived)
    BY <1>1, InnerIs
<1>6. all = SubSeq(script, 1, k) /\ PayloadTo(k) = PayloadTo(taken) \o Carried(next) /\ Carried(next) \in Seq(Nat)
    <2>1. taken + n <= Len(script)
        BY <1>5
    <2>2. /\ SubSeq(script, 1, taken + n) = SubSeq(script, 1, taken) \o next
          /\ Carried(SubSeq(script, 1, taken + n)) = Carried(SubSeq(script, 1, taken)) \o Carried(next)
          /\ Carried(next) \in Seq(Nat)
        <3>1. script \in Seq(Tokens) /\ taken \in Nat /\ n \in Nat
            BY <1>1, <1>5
        <3> QED
            BY <2>1, <3>1, PartIs, Zenon
    <2>3. all = SubSeq(script, 1, taken) \o next
        BY <1>4 DEF Next1
    <2> HIDE DEF next, all
    <2> QED
        BY <2>2, <2>3, Zenon DEF PayloadTo
<1>7. PayloadTo(taken) = <<>> /\ PayloadTo(k) = Carried(next)
    <2>1. PayloadTo(taken) = <<>>
        BY <1>1, <1>2, <1>4, NothingCarried
    <2> QED
        BY <1>6, <2>1, NothingCarried
<1>8. FindDoubleCrlf(all) = IF k >= h THEN {h} ELSE {}
    BY <1>1, <1>4, <1>5, <1>6, CrlfFound
<1>9. HeaderEnds(script', h) /\ h \in Nat
    BY <1>1, <1>4 DEF HeaderEnds
<1> HIDE DEF next
<1>10. CASE n = 0
    <2>1. got' = got \o <<>> /\ reader' = "eof" /\ leftover' = leftover /\ taken' = taken + n
          /\ first_response' = first_response
        BY <1>3, <1>10 DEF Deliver
    <2>2. got' = got /\ got' \in Seq(Nat) /\ taken' = taken
        BY <1>1, <1>10, <2>1, NothingCarried
    <2>3. NoEarlyEof'
        BY <1>1, <1>2, <1>5, <1>10, <2>2, AtTheEnd
    <2>4. Carried(next) = <<>>
        <3>1. SubSeq(script, taken + 1, taken + n) = <<>>
            BY <1>1, <1>10
        <3> QED
            BY <3>1, NothingCarried DEF next
    <2>5. got' \o leftover' = (got \o leftover) \o Carried(next)
        <3>1. got \o leftover = <<>>
            BY <1>2, <1>4
        <3> QED
            BY <2>1, <2>2, <2>4, <3>1
    <2> QED
        BY <1>1, <1>2, <1>5, <2>1, <2>2, <2>3, <2>5, ReadOn DEF next
<1>11. CASE n # 0 /\ k >= h
    <2>1. FindDoubleCrlf(all) = {h}
        BY <1>8, <1>11
    <2> DEFINE body == Payload(Cut(all, h))
               room1 == Least(room, Len(body))
    <2>2. /\ first_response' = FALSE /\ scratch' = <<>>
          /\ got' = got \o SubSeq(body, 1, room1)
          /\ leftover' = Cut(body, room1)
          /\ reader' = IF SubSeq(body, 1, room1) = <<>> THEN "eof" ELSE reader
        BY <1>3, <1>11, <2>1 DEF Deliver
    <2>3. body = PayloadTo(k) /\ body \in Seq(Nat)
        <3>1. Cut(all, h) = SubSeq(script, h + 1, k)
            <4>1. SubSeq(script, 1, k) \in Seq(Tokens) /\ Len(SubSeq(script, 1, k)) = k
                BY <1>1, <1>5
            <4>2. Cut(all, h) = SubSeq(SubSeq(script, 1, k), h + 1, k)
                BY <1>6, <4>1 DEF Cut
            <4>3. SubSeq(SubSeq(script, 1, k), h + 1, k) = SubSeq(script, h + 1, k)
                BY <1>1, <1>5, <1>9
            <4> QED
                BY <4>2, <4>3
        <3>2. k \in h..Len(script)
            BY <1>1, <1>5, <1>9, <1>11
        <3> QED
            BY <1>1, <1>4, <3>1, <3>2, BehindHeader
    <2> HIDE DEF body
    <2> DEFINE a == SubSeq(body, 1, room1)
               b == Cut(body, room1)
    <2>4. a \in Seq(Nat) /\ b \in Seq(Nat) /\ a \o b = body
        BY <2>3, Shared
    <2> HIDE DEF room1, a, b
    <2>5. got' = a /\ leftover' = b
        <3>1. got' = <<>> \o a /\ leftover' = b
            BY <1>4, <2>2 DEF a, b
        <3> QED
            BY <2>4, <3>1, NothingCarried
    <2>6. reader' \in {"open", "eof", "failed"} /\ (reader' = "eof" => a = <<>>)
        BY <2>2 DEF a
    <2>7. NoEarlyEof'
        BY <1>1, <1>2, <2>2, <2>5, <2>6 DEF NoEarlyEof
    <2>8. got' \o leftover' = (got \o leftover) \o Carried(next)
        <3>1. got \o leftover = <<>>
            BY <1>2, <1>4
        <3>2. (got \o leftover) \o Carried(next) = Carried(next)
            BY <1>6, <3>1, NothingCarried
        <3> QED
            BY <1>7, <2>3, <2>4, <2>5, <3>2
    <2>9. HttpReads'
        <3>1. taken' >= h
            BY <1>3, <1>11
        <3> QED
            BY <1>4, <1>9, <2>2, <3>1 DEF HttpReads, HeaderEnds
    <2>10. layer # "tls" /\ first_response' \in BOOLEAN /\ got' \in Seq(Nat) /\ leftover' \in Seq(Nat)
           /\ taken' = taken + n /\ taken + n <= arrived
        BY <1>2, <1>3, <1>5, <2>2, <2>4, <2>5
    <2> QED
        BY <1>1, <1>2, <1>5, <2>6, <2>7, <2>8, <2>9, <2>10, ReadOn DEF next
<1>12. CASE n # 0 /\ ~ (k >= h)
    <2>1. FindDoubleCrlf(all) = {}
        BY <1>8, <1>12
    <2>2. /\ scratch' = all /\ got' = got /\ leftover' = leftover /\ first_response' = first_response
          /\ reader' \in {"open", "failed"} /\ taken' = k
        BY <1>3, <1>12, <2>1
    <2>3. Carried(next) = <<>>
        <3>1. \A i \in (taken + 1)..(taken + n) : script[i].t \notin {"b", "bin"}
            BY <1>1, <1>4, <1>5, <1>9, <1>12 DEF HeaderEnds
        <3> QED
            BY <1>1, <1>5, <3>1, NextIsNone DEF next
    <2>4. got' \o leftover' = (got \o leftover) \o Carried(next)
        <3>1. got \o leftover = <<>>
            BY <1>2, <1>4
        <3> QED
            BY <2>2, <2>3, <3>1
    <2>5. HttpReads'
        <3>1. taken' < h /\ scratch' = SubSeq(script, 1, taken)'
            BY <1>1, <1>5, <1>6, <1>9, <1>12, <2>2
        <3> QED
            BY <1>2, <1>4, <1>9, <2>2, <3>1 DEF HttpReads, HeaderEnds
    <2>6. NoEarlyEof'
        BY <2>2 DEF NoEarlyEof
    <2>7. layer # "tls" /\ first_response' \in BOOLEAN /\ reader' \in {"open", "eof", "failed"}
          /\ got' \in Seq(Nat) /\ leftover' \in Seq(Nat) /\ taken' = taken + n /\ taken + n <= arrived
        BY <1>1, <1>2, <1>5, <2>2
    <2> QED
        BY <1>1, <1>2, <1>5, <2>4, <2>5, <2>6, <2>7, ReadOn DEF next
<1> QED
    BY <1>10, <1>11, <1>12

\* Payload that is handed on as it is taken.
LEMMA PayloadOn ==
    ASSUME ReadInv, UNCHANGED layer, UNCHANGED peerVars, leftover = <<>>, leftover' = <<>>,
           NEW want \in Nat, NEW n \in Inner(want), taken' = taken + n,
           \A i \in (taken + 1)..(taken + n) : script[i].t = "b",
           Deliver(Payload(Next1(n)))
    PROVE  LET next == SubSeq(script, taken + 1, taken + n)
           IN  /\ got' \in Seq(Nat) /\ got' \o leftover' = (got \o leftover) \o Carried(next)
               /\ reader' \in {reader, "eof"} /\ (n > 0 => reader' = reader)
               /\ reader' # "eof" => n > 0
               /\ reader # "eof" => NoEarlyEof'
<1>1. /\ ReadTypes /\ ScriptIs(layer, script) /\ got \in Seq(Nat)
      /\ taken \in Nat /\ arrived \in Nat /\ Len(script) \in Nat
      /\ layer' = layer /\ script' = script /\ arrived' = arrived /\ closed' = closed
    BY TurnStarts
<1> DEFINE next == SubSeq(script, taken + 1, taken + n)
           x == Carried(next)
<1>2. n \in Nat /\ taken + n <= Len(script) /\ (n = 0 => closed /\ taken = arrived)
    BY <1>1, InnerIs
<1>3. IsBody(next) /\ Len(next) = n
    <2>1. IsBody(next)
        BY <1>1, <1>2, NextIsBody
    <2>2. Len(next) = n
        BY <1>1, <1>2, PartIs DEF ScriptIs
    <2> QED
        BY <2>1, <2>2
<1>4. Payload(next) = x /\ x \in Seq(Nat) /\ (n > 0 => x # <<>>)
    BY <1>3, BodyPayload
<1>5. n = 0 => x = <<>>
    <2>1. n = 0 => next = <<>>
        BY <1>1
    <2> QED
        BY <2>1, NothingCarried
<1>6. got' = got \o x /\ reader' = IF x = <<>> THEN "eof" ELSE reader
    BY <1>4 DEF Deliver, Next1
<1> HIDE DEF x, next
<1>7. got' \in Seq(Nat)
    BY <1>1, <1>4, <1>6
<1>8. got' \o leftover' = (got \o leftover) \o x
    <2>1. got \o leftover = got /\ got' \o leftover' = got'
        BY <1>1, <1>7, NothingCarried
    <2> QED
        BY <1>6, <2>1
<1>9. ASSUME reader # "eof" PROVE NoEarlyEof'
    <2>1. CASE n = 0
        <3>1. got' = got /\ taken' = taken
            BY <1>1, <1>5, <1>6, <2>1, NothingCarried
        <3> QED
            BY <1>1, <1>2, <2>1, <3>1, AtTheEnd
    <2>2. CASE n # 0
        <3>1. reader' = reader
            BY <1>2, <1>4, <1>6, <2>2
        <3> QED
            BY <1>9, <3>1 DEF NoEarlyEof
    <2> QED
        BY <2>1, <2>2
<1> QED
    BY <1>2, <1>4, <1>5, <1>6, <1>7, <1>8, <1>9 DEF x, next

LEMMA HttpPassStep ==
    ASSUME ReadInv, reader = "open", UNCHANGED layer, UNCHANGED peerVars, NEW room \in Nat \ {0},
           HttpPassThrough(room)
    PROVE  ReadInv'
<1>1. /\ ReadTypes /\ ScriptIs(layer, script) /\ got \in Seq(Nat) /\ leftover \in Seq(Nat)
      /\ taken \in Nat /\ arrived \in Nat /\ Len(script) \in Nat /\ taken <= arrived
      /\ arrived <= Len(script) /\ first_response \in BOOLEAN /\ len_buf \in Seq(Nat)
      /\ phase \in [at : {"Discard", "Length", "Payload"}, n : Nat]
      /\ layer' = layer /\ script' = script /\ arrived' = arrived /\ closed' = closed
    BY TurnStarts
<1>2. /\ layer = "http" /\ leftover = <<>> /\ ~ first_response
      /\ first_response' = first_response /\ leftover' = leftover
      /\ phase' = phase /\ len_buf' = len_buf
    BY DEF HttpPassThrough
<1>3. PICK n \in Inner(room) : taken' = taken + n /\ Deliver(Payload(Next1(n)))
    BY DEF HttpPassThrough
<1>4. PICK h : HeaderEnds(script, h) /\ taken >= h
    BY <1>2 DEF ReadInv, HttpReads
<1>5. /\ room \in Nat /\ n \in Nat /\ taken + n <= arrived
    <2>1. room \in Nat
        OBVIOUS
    <2> QED
        BY <1>1, <2>1, InnerIs
<1>6. ASSUME NEW i \in (taken + 1)..(taken + n) PROVE script[i].t = "b"
    <2>1. h \in Nat /\ \A j \in (h + 1)..Len(script) : script[j].t = "b"
        BY <1>1, <1>4 DEF HeaderEnds
    <2>2. i \in (h + 1)..Len(script)
        BY <1>1, <1>4, <1>5, <2>1
    <2> QED
        BY <2>1, <2>2
<1>7. LET next == SubSeq(script, taken + 1, taken + n)
      IN  /\ got' \in Seq(Nat) /\ got' \o leftover' = (got \o leftover) \o Carried(next)
          /\ reader' \in {reader, "eof"} /\ (reader # "eof" => NoEarlyEof')
    BY <1>2, <1>3, <1>5, <1>6, PayloadOn
<1>8. HttpReads'
    <2>1. HeaderEnds(script', h) /\ taken' >= h
        <3>1. h \in Nat
            BY <1>1, <1>4 DEF HeaderEnds
        <3> QED
            BY <1>1, <1>3, <1>4, <1>5, <3>1
    <2> QED
        BY <1>2, <2>1 DEF HttpReads, HeaderEnds
<1>9. reader' \in {"open", "eof", "failed"} /\ NoEarlyEof' /\ layer # "tls"
    BY <1>2, <1>7
<1> QED
    BY <1>1, <1>2, <1>3, <1>5, <1>7, <1>8, <1>9, ReadOn

\* A turn of the loop that takes no payload: only at the end is the caller told.
LEMMA NoPayloadOn ==
    ASSUME ReadInv, reader = "open", UNCHANGED layer, UNCHANGED peerVars, leftover = <<>>,
           leftover' = <<>>, NEW want \in Nat, NEW n \in Inner(want), taken' = taken + n,
           \A i \in (taken + 1)..(taken + n) : script[i].t \notin {"b", "bin"},
           AtEnd(n)
    PROVE  LET next == SubSeq(script, taken + 1, taken + n)
           IN  /\ got' = got /\ got' \in Seq(Nat)
               /\ got' \o leftover' = (got \o leftover) \o Carried(next)
               /\ reader' \in {"open", "eof", "failed"} /\ (reader' # "eof" => n > 0)
               /\ NoEarlyEof'
<1>1. /\ ReadTypes /\ ScriptIs(layer, script) /\ got \in Seq(Nat)
      /\ taken \in Nat /\ arrived \in Nat /\ Len(script) \in Nat
      /\ layer' = layer /\ script' = script /\ arrived' = arrived /\ closed' = closed
    BY TurnStarts
<1> DEFINE next == SubSeq(script, taken + 1, taken + n)
<1>2. n \in Nat /\ taken + n <= Len(script) /\ (n = 0 => closed /\ taken = arrived)
    BY <1>1, InnerIs
<1>3. Carried(next) = <<>>
    BY <1>1, <1>2, NextIsNone
<1> HIDE DEF next
<1>4. got' = got
    BY <1>1, NothingCarried DEF AtEnd, Deliver, GotNothing
<1>5. got' \o leftover' = (got \o leftover) \o Carried(next)
    <2>1. got \o leftover = got /\ got \o <<>> = got
        BY <1>1, NothingCarried
    <2> QED
        BY <1>3, <1>4, <2>1
<1>6. IF n = 0 THEN reader' = "eof" ELSE reader' = "open"
    BY DEF AtEnd, Deliver, GotNothing
<1>7. NoEarlyEof'
    <2>1. CASE n = 0
        <3>1. taken' = taken
            BY <1>1, <2>1
        <3> QED
            BY <1>1, <1>2, <1>4, <2>1, <3>1, AtTheEnd
    <2>2. CASE n # 0
        BY <1>6, <2>2 DEF NoEarlyEof
    <2> QED
        BY <2>1, <2>2
<1> QED
    BY <1>1, <1>2, <1>4, <1>5, <1>6, <1>7 DEF next

\* ... and one that takes nothing at all.
LEMMA TakenNothing ==
    ASSUME ReadInv, reader = "open", taken' = taken, got' = got, leftover' = leftover, reader' = reader
    PROVE  /\ taken' = taken + 0 /\ taken + 0 <= arrived
           /\ got' \o leftover' = (got \o leftover) \o Carried(SubSeq(script, taken + 1, taken + 0))
           /\ NoEarlyEof'
<1>1. /\ taken \in Nat /\ arrived \in Nat /\ taken <= arrived
      /\ got \in Seq(Nat) /\ leftover \in Seq(Nat) /\ script \in Seq(Tokens)
    BY DEF ReadInv, ReadTypes, ScriptIs
<1>2. SubSeq(script, taken + 1, taken + 0) = <<>>
    BY <1>1
<1>3. got \o leftover \in Seq(Nat)
    BY <1>1
<1>4. got' \o leftover' = (got \o leftover) \o Carried(SubSeq(script, taken + 1, taken + 0))
    BY <1>2, <1>3, NothingCarried
<1>5. NoEarlyEof'
    BY DEF NoEarlyEof
<1> QED
    BY <1>1, <1>4, <1>5

\* Where a TLS reader stands before a turn, ...
LEMMA TlsStands ==
    ASSUME ReadInv, reader = "open", layer = "tls"
    PROVE  /\ leftover = <<>>
           /\ \E B : /\ Framed(script, B)
                     /\ \E p \in B : /\ AtRecord(B, p) /\ p \in 0..Len(script)
                                     /\ \/ p = Len(script)
                                        \/ \E n \in Nat : /\ RecordFrom(script, p, n)
                                                          /\ p + Discarded(p) + 2 + n \in B
    BY DEF ReadInv, TlsReads, Framed

\* ... and after it.
LEMMA TlsStandsThen ==
    ASSUME NEW B, Framed(script, B), script' = script, leftover' = <<>>, NEW p \in B, AtRecord(B, p)'
    PROVE  TlsReads'
<1>1. Framed(script, B)'
    <2>1. Framed(script', B)
        OBVIOUS
    <2> QED
        BY <2>1 DEF Framed, RecordFrom
<1> QED
    BY <1>1 DEF TlsReads

LEMMA TlsDiscardStep ==
    ASSUME ReadInv, reader = "open", UNCHANGED layer, UNCHANGED peerVars, TlsDiscard
    PROVE  ReadInv'
<1>1. /\ ReadTypes /\ ScriptIs(layer, script) /\ got \in Seq(Nat)
      /\ taken \in Nat /\ arrived \in Nat /\ Len(script) \in Nat /\ taken <= arrived
      /\ arrived <= Len(script) /\ first_response \in BOOLEAN /\ len_buf \in Seq(Nat)
      /\ phase \in [at : {"Discard", "Length", "Payload"}, n : Nat]
      /\ layer' = layer /\ script' = script /\ arrived' = arrived /\ closed' = closed
    BY TurnStarts
<1>2. /\ layer = "tls" /\ phase.at = "Discard" /\ phase.n \in Nat
      /\ first_response' = first_response /\ leftover' = leftover
    BY <1>1 DEF TlsDiscard
<1>3. leftover = <<>> /\ leftover' \in Seq(Nat)
    BY <1>2, TlsStands
<1>4. PICK B : /\ Framed(script, B)
               /\ \E p \in B : /\ AtRecord(B, p) /\ p \in 0..Len(script)
                               /\ \/ p = Len(script)
                                  \/ \E n \in Nat : /\ RecordFrom(script, p, n)
                                                    /\ p + Discarded(p) + 2 + n \in B
    BY <1>2, TlsStands
<1>5. PICK p \in B : /\ AtRecord(B, p) /\ p \in 0..Len(script)
                     /\ p = Len(script) \/ \E n \in Nat : RecordFrom(script, p, n)
    BY <1>4
<1> DEFINE d == p + Discarded(p)
<1>6. p \in Nat /\ d \in Nat /\ Discarded(p) \in Nat
    BY <1>5, DiscardedIsNat
<1>7. taken + phase.n = d /\ phase.n <= Discarded(p)
    BY <1>2, <1>5 DEF AtRecord
<1>8. CASE phase.n = 0
    <2>1. /\ phase' = [at |-> "Length", n |-> 0] /\ len_buf' = <<>>
          /\ got' = got /\ reader' = reader /\ taken' = taken
        BY <1>8 DEF TlsDiscard, GotNothing
    <2>2. AtRecord(B, p)'
        <3>1. Len(<<>>) = 0 /\ taken = d + 0
            BY <1>1, <1>6, <1>7, <1>8
        <3> QED
            BY <2>1, <3>1 DEF AtRecord
    <2>3. TlsReads'
        BY <1>1, <1>2, <1>3, <1>4, <2>2, TlsStandsThen
    <2>4. /\ taken' = taken + 0 /\ taken + 0 <= arrived
          /\ got' \o leftover' = (got \o leftover) \o Carried(SubSeq(script, taken + 1, taken + 0))
          /\ NoEarlyEof'
        BY <1>2, <2>1, TakenNothing
    <2>5. phase' \in [at : {"Discard", "Length", "Payload"}, n : Nat] /\ len_buf' \in Seq(Nat)
          /\ got' \in Seq(Nat) /\ reader' \in {"open", "eof", "failed"} /\ 0 \in Nat
        BY <1>1, <2>1
    <2> QED
        BY <1>1, <1>2, <1>3, <2>3, <2>4, <2>5, ReadOn
<1>9. CASE phase.n # 0
    <2>1. PICK n \in Inner(phase.n) :
             /\ taken' = taken + n /\ phase' = [phase EXCEPT !.n = @ - n] /\ AtEnd(n) /\ len_buf' = len_buf
        BY <1>9 DEF TlsDiscard
    <2>2. /\ n \in Nat /\ n <= phase.n /\ taken + n <= arrived /\ taken + n <= Len(script)
        BY <1>1, <1>2, InnerIs
    <2>3. ASSUME NEW i \in (taken + 1)..(taken + n) PROVE script[i].t \notin {"b", "bin"}
        <3>1. p # Len(script)
            BY <1>1, <1>6, <1>7, <2>2
        <3>2. \A j \in (p + 1)..d : script[j].t = "head"
            BY <1>5, <3>1 DEF RecordFrom
        <3>3. i \in (p + 1)..d
            BY <1>1, <1>2, <1>6, <1>7, <2>2
        <3> QED
            BY <3>2, <3>3
    <2>4. LET next == SubSeq(script, taken + 1, taken + n)
          IN  /\ got' \in Seq(Nat)
              /\ got' \o leftover' = (got \o leftover) \o Carried(next)
              /\ reader' \in {"open", "eof", "failed"}
              /\ NoEarlyEof'
        BY <1>2, <1>3, <2>1, <2>3, NoPayloadOn
    <2>5. /\ phase' \in [at : {"Discard", "Length", "Payload"}, n : Nat]
          /\ phase'.at = "Discard" /\ phase'.n = phase.n - n
        <3>1. phase.n - n \in Nat
            BY <1>2, <2>2
        <3> QED
            BY <1>1, <1>2, <2>1, <3>1
    <2>6. AtRecord(B, p)'
        <3>1. taken' + phase'.n = d /\ phase'.n <= Discarded(p)
            BY <1>1, <1>2, <1>6, <1>7, <2>1, <2>2, <2>5
        <3> QED
            BY <2>5, <3>1 DEF AtRecord
    <2>7. TlsReads'
        BY <1>1, <1>2, <1>3, <1>4, <2>6, TlsStandsThen
    <2> QED
        BY <1>1, <1>2, <1>3, <2>1, <2>2, <2>4, <2>5, <2>7, ReadOn
<1> QED
    BY <1>8, <1>9

\* The bytes of the length that came are put behind those that were there.
LEMMA LengthBytes ==
    ASSUME ScriptIs(layer, script), NEW n \in Nat, taken \in Nat, taken + n <= Len(script),
           \A i \in (taken + 1)..(taken + n) : script[i].t = "len" /\ Len(script[i].v) = 1
    PROVE  LET w == FlattenSeq([i \in 1..n |-> IF Next1(n)[i].t = "len" THEN Next1(n)[i].v ELSE <<0>>])
           IN  w \in Seq(Nat) /\ Len(w) = n /\ \A i \in 1..n : w[i] = script[taken + i].v[1]
<1> DEFINE x == Next1(n)
           s == [i \in 1..n |-> IF x[i].t = "len" THEN x[i].v ELSE <<0>>]
           w == [i \in 1..n |-> script[taken + i].v[1]]
<1>1. x \in Seq(Tokens) /\ Len(x) = n /\ \A i \in 1..n : x[i] = script[taken + i]
    BY PartIs DEF Next1, ScriptIs
<1> HIDE DEF x
<1>2. ASSUME NEW i \in 1..n
      PROVE  s[i] = x[i].v /\ s[i] \in Seq(Nat) /\ Len(s[i]) = 1 /\ s[i][1] = w[i] /\ w[i] \in Nat
    <2>1. taken + i \in (taken + 1)..(taken + n)
        OBVIOUS
    <2>2. x[i].t = "len" /\ Len(x[i].v) = 1
        BY <1>1, <2>1
    <2>3. x[i].v \in Seq(Nat)
        <3>1. x[i] \in Tokens
            BY <1>1
        <3> QED
            BY <3>1 DEF Tokens
    <2>4. x[i].v[1] \in Nat
        BY <2>2, <2>3
    <2> QED
        BY <1>1, <2>2, <2>3, <2>4
<1>3. s \in Seq(Seq(Nat)) /\ Len(s) = n /\ w \in Seq(Nat) /\ Len(w) = n
    <2>1. s \in [1..n -> Seq(Nat)] /\ w \in [1..n -> Nat]
        BY <1>2
    <2> HIDE DEF s, w
    <2>2. \A S : \A f \in [1..n -> S] : f \in Seq(S) /\ Len(f) = n
        OBVIOUS
    <2> QED
        BY <2>1, <2>2, Zenon
<1>4. \A i \in 1..n : w[i] = script[taken + i].v[1]
    OBVIOUS
<1> HIDE DEF w
<1>5. FlattenSeq(s) = w
    <2> HIDE DEF s
    <2>1. \A i \in 1..Len(s) : Len(s[i]) = 1 /\ s[i][1] = w[i]
        BY <1>2, <1>3
    <2> QED
        BY <1>3, <2>1, FlatSingles
<1> QED
    BY <1>3, <1>4, <1>5 DEF x

LEMMA TlsLengthStep ==
    ASSUME ReadInv, reader = "open", UNCHANGED layer, UNCHANGED peerVars, TlsLength
    PROVE  ReadInv'
<1>1. /\ ReadTypes /\ ScriptIs(layer, script) /\ got \in Seq(Nat)
      /\ taken \in Nat /\ arrived \in Nat /\ Len(script) \in Nat /\ taken <= arrived
      /\ arrived <= Len(script) /\ first_response \in BOOLEAN /\ len_buf \in Seq(Nat)
      /\ phase \in [at : {"Discard", "Length", "Payload"}, n : Nat]
      /\ layer' = layer /\ script' = script /\ arrived' = arrived /\ closed' = closed
    BY TurnStarts
<1>2. /\ layer = "tls" /\ phase.at = "Length"
      /\ first_response' = first_response /\ leftover' = leftover
    BY <1>1 DEF TlsLength
<1>3. leftover = <<>> /\ leftover' \in Seq(Nat)
    BY <1>2, TlsStands
<1>4. PICK B : /\ Framed(script, B)
               /\ \E p \in B : /\ AtRecord(B, p) /\ p \in 0..Len(script)
                               /\ \/ p = Len(script)
                                  \/ \E n \in Nat : /\ RecordFrom(script, p, n)
                                                    /\ p + Discarded(p) + 2 + n \in B
    BY <1>2, TlsStands
<1>5. PICK p \in B : /\ AtRecord(B, p) /\ p \in 0..Len(script)
                     /\ \/ p = Len(script)
                        \/ \E n \in Nat : /\ RecordFrom(script, p, n) /\ p + Discarded(p) + 2 + n \in B
    BY <1>4
<1> DEFINE d == p + Discarded(p)
<1>6. p \in Nat /\ d \in Nat /\ Discarded(p) \in Nat
    BY <1>5, DiscardedIsNat
<1>7. /\ Len(len_buf) <= 2 /\ Len(len_buf) \in Nat /\ taken = d + Len(len_buf)
      /\ \A i \in 1..Len(len_buf) : len_buf[i] = script[d + i].v[1]
    BY <1>1, <1>2, <1>5 DEF AtRecord
<1>8. CASE Len(len_buf) >= 2
    <2>1. /\ phase' = [at |-> "Payload", n |-> len_buf[1] * Base + len_buf[2]]
          /\ got' = got /\ reader' = reader /\ taken' = taken /\ len_buf' = len_buf
        BY <1>7, <1>8 DEF TlsLength, GotNothing
    <2>2. Len(len_buf) = 2 /\ taken = d + 2 /\ p # Len(script)
        <3>1. Len(len_buf) = 2
            <4> DEFINE l == Len(len_buf)
            <4>1. l \in Nat /\ l <= 2 /\ l >= 2
                BY <1>7, <1>8
            <4> HIDE DEF l
            <4>2. l = 2
                BY <4>1
            <4> QED
                BY <4>2 DEF l
        <3>2. taken = d + 2 /\ taken <= Len(script) /\ Len(script) \in Nat /\ taken \in Nat
            BY <1>1, <1>7, <3>1
        <3>3. d = p + Discarded(p) /\ p \in Nat /\ Discarded(p) \in Nat
            BY <1>6
        <3> HIDE DEF d
        <3> QED
            BY <3>1, <3>2, <3>3
    <2>3. PICK n \in Nat : RecordFrom(script, p, n) /\ d + 2 + n \in B
        BY <1>5, <2>2
    <2>4. len_buf[1] * Base + len_buf[2] = n
        <3>1. Says(script[d + 1], script[d + 2]) = n
            BY <2>3 DEF RecordFrom
        <3>2. len_buf[1] = script[d + 1].v[1] /\ len_buf[2] = script[d + 2].v[1]
            BY <1>7, <2>2
        <3> QED
            BY <3>1, <3>2 DEF Says
    <2>5. phase' = [at |-> "Payload", n |-> n]
        BY <2>1, <2>4
    <2>6. phase'.at = "Payload" /\ phase'.n = n
        BY <2>5
    <2>7. AtRecord(B, p)'
        <3>1. RecordFrom(script, p, n)'
            <4>1. RecordFrom(script', p, n)
                BY <1>1, <2>3
            <4> QED
                BY <4>1 DEF RecordFrom
        <3>2. d + 2 + n \in B /\ phase'.n <= n /\ taken' + phase'.n = d + 2 + n
            BY <2>1, <2>2, <2>3, <2>6
        <3> QED
            BY <2>6, <3>1, <3>2 DEF AtRecord
    <2>8. TlsReads'
        BY <1>1, <1>2, <1>3, <1>4, <2>7, TlsStandsThen
    <2>9. /\ taken' = taken + 0 /\ taken + 0 <= arrived
          /\ got' \o leftover' = (got \o leftover) \o Carried(SubSeq(script, taken + 1, taken + 0))
          /\ NoEarlyEof'
        BY <1>2, <2>1, TakenNothing
    <2>10. phase' \in [at : {"Discard", "Length", "Payload"}, n : Nat] /\ len_buf' \in Seq(Nat)
          /\ got' \in Seq(Nat) /\ reader' \in {"open", "eof", "failed"} /\ 0 \in Nat
        BY <1>1, <2>1, <2>5
    <2> QED
        BY <1>1, <1>2, <1>3, <2>8, <2>9, <2>10, ReadOn
<1>9. CASE ~ (Len(len_buf) >= 2)
    <2> DEFINE w(n) == FlattenSeq([i \in 1..n |-> IF Next1(n)[i].t = "len" THEN Next1(n)[i].v ELSE <<0>>])
    <2>1. PICK n \in Inner(LengthNeed) :
             /\ taken' = taken + n /\ len_buf' = len_buf \o w(n) /\ AtEnd(n) /\ phase' = phase
        BY <1>7, <1>9 DEF TlsLength
    <2>2. /\ LengthNeed \in Nat /\ LengthNeed = 2 - Len(len_buf)
        BY <1>7 DEF LengthNeed
    <2>3. /\ n \in Nat /\ n <= 2 - Len(len_buf) /\ taken + n <= arrived /\ taken + n <= Len(script)
        BY <1>1, <2>2, InnerIs
    <2>4. ASSUME NEW i \in (taken + 1)..(taken + n) PROVE script[i].t = "len" /\ Len(script[i].v) = 1
        <3>1. p # Len(script)
            <4> DEFINE l == Len(len_buf)
            <4>1. /\ p \in Nat /\ Discarded(p) \in Nat /\ d = p + Discarded(p) /\ l \in Nat
                  /\ taken = d + l /\ n \in Nat /\ taken + n <= Len(script) /\ i \in (taken + 1)..(taken + n)
                BY <1>6, <1>7, <2>3
            <4> HIDE DEF d, l
            <4> QED
                BY <4>1
        <3>2. /\ script[d + 1].t = "len" /\ script[d + 2].t = "len"
              /\ Len(script[d + 1].v) = 1 /\ Len(script[d + 2].v) = 1
            BY <1>5, <3>1 DEF RecordFrom
        <3>3. i = d + 1 \/ i = d + 2
            <4> DEFINE l == Len(len_buf)
            <4>1. taken = d + l /\ l \in Nat /\ n \in Nat /\ n <= 2 - l /\ d \in Nat
                BY <1>6, <1>7, <2>3
            <4> HIDE DEF d, l
            <4> QED
                BY <4>1
        <3> QED
            BY <3>2, <3>3
    <2>5. LET next == SubSeq(script, taken + 1, taken + n)
          IN  /\ got' \in Seq(Nat)
              /\ got' \o leftover' = (got \o leftover) \o Carried(next)
              /\ reader' \in {"open", "eof", "failed"}
              /\ NoEarlyEof'
        <3>1. \A i \in (taken + 1)..(taken + n) : script[i].t \notin {"b", "bin"}
            BY <2>4
        <3> QED
            BY <1>2, <1>3, <2>1, <2>2, <3>1, NoPayloadOn
    <2> DEFINE u == w(n)
    <2>6. u \in Seq(Nat) /\ Len(u) = n /\ \A i \in 1..n : u[i] = script[taken + i].v[1]
        BY <1>1, <2>3, <2>4, LengthBytes
    <2> HIDE DEF u, w
    <2>7. len_buf' \in Seq(Nat) /\ Len(len_buf') = Len(len_buf) + n
          /\ \A i \in 1..Len(len_buf') : len_buf'[i] = script[d + i].v[1]
        <3>1. len_buf' = len_buf \o u
            BY <2>1 DEF u
        <3>2. Joined(Nat, len_buf, u, len_buf')
            BY <1>1, <2>6, <3>1, ConcatJoins, Zenon
        <3> DEFINE l == len_buf'
        <3>3. Joined(Nat, len_buf, u, l)
            BY <3>2
        <3> HIDE DEF l
        <3>4. l \in Seq(Nat) /\ Len(l) = Len(len_buf) + n
            BY <1>7, <2>3, <2>6, <3>3 DEF Joined
        <3>5. ASSUME NEW i \in 1..Len(l) PROVE l[i] = script[d + i].v[1]
            <4>1. CASE i <= Len(len_buf)
                BY <1>7, <3>3, <3>4, <4>1 DEF Joined
            <4>2. CASE ~ (i <= Len(len_buf))
                <5>1. /\ i \in (Len(len_buf) + 1)..Len(l) /\ i - Len(len_buf) \in 1..n
                      /\ taken + (i - Len(len_buf)) = d + i
                    <6> DEFINE a == Len(len_buf)
                               b == Len(l)
                    <6>1. a \in Nat /\ b = a + n /\ n \in Nat /\ i \in 1..b /\ ~ (i <= a)
                        BY <1>7, <2>3, <3>4, <4>2
                    <6>2. taken = d + a /\ d \in Nat
                        BY <1>6, <1>7
                    <6> HIDE DEF a, b, d
                    <6>3. i \in (a + 1)..b /\ i - a \in 1..n /\ taken + (i - a) = d + i
                        BY <6>1, <6>2
                    <6> QED
                        BY <6>3 DEF a, b
                <5> QED
                    BY <2>6, <3>3, <5>1 DEF Joined
            <4> QED
                BY <4>1, <4>2
        <3> QED
            BY <3>4, <3>5 DEF l
    <2>8. AtRecord(B, p)'
        <3>1. Len(len_buf') <= 2 /\ taken' = d + Len(len_buf')
            <4> DEFINE l == Len(len_buf)
                       m == Len(len_buf')
            <4>1. /\ l \in Nat /\ n \in Nat /\ n <= 2 - l /\ m = l + n /\ d \in Nat
                  /\ taken = d + l /\ taken' = taken + n
                BY <1>6, <1>7, <2>1, <2>3, <2>7
            <4> HIDE DEF d, l, m
            <4>2. m <= 2 /\ taken' = d + m
                BY <4>1
            <4> QED
                BY <4>2 DEF m
        <3>2. phase'.at = "Length"
            BY <1>2, <2>1
        <3>3. \A i \in 1..Len(len_buf') : len_buf'[i] = script'[d + i].v[1]
            BY <1>1, <2>7
        <3> QED
            BY <3>1, <3>2, <3>3 DEF AtRecord
    <2>9. TlsReads'
        BY <1>1, <1>2, <1>3, <1>4, <2>8, TlsStandsThen
    <2> QED
        BY <1>1, <1>2, <1>3, <2>1, <2>3, <2>5, <2>7, <2>9, ReadOn
<1> QED
    BY <1>8, <1>9

LEMMA TlsPayloadStep ==
    ASSUME ReadInv, reader = "open", UNCHANGED layer, UNCHANGED peerVars, NEW room \in Nat \ {0},
           TlsPayload(room)
    PROVE  ReadInv'
<1>1. /\ ReadTypes /\ ScriptIs(layer, script) /\ got \in Seq(Nat)
      /\ taken \in Nat /\ arrived \in Nat /\ Len(script) \in Nat /\ taken <= arrived
      /\ arrived <= Len(script) /\ first_response \in BOOLEAN /\ len_buf \in Seq(Nat)
      /\ phase \in [at : {"Discard", "Length", "Payload"}, n : Nat]
      /\ layer' = layer /\ script' = script /\ arrived' = arrived /\ closed' = closed
    BY TurnStarts
<1>2. /\ layer = "tls" /\ phase.at = "Payload" /\ phase.n \in Nat
      /\ leftover' = leftover /\ len_buf' = len_buf
    BY <1>1 DEF TlsPayload
<1>3. leftover = <<>> /\ leftover' \in Seq(Nat)
    BY <1>2, TlsStands
<1>4. PICK B : Framed(script, B) /\ \E p \in B : AtRecord(B, p) /\ p \in 0..Len(script)
    BY <1>2, TlsStands
<1>5. PICK p \in B : AtRecord(B, p) /\ p \in 0..Len(script)
    BY <1>4
<1> DEFINE d == p + Discarded(p)
<1>6. p \in Nat /\ d \in Nat /\ Discarded(p) \in Nat
    BY <1>5, DiscardedIsNat
<1>7. PICK size \in Nat : /\ RecordFrom(script, p, size) /\ d + 2 + size \in B
                          /\ phase.n <= size /\ taken + phase.n = d + 2 + size
    BY <1>2, <1>5 DEF AtRecord
<1>8. CASE phase.n = 0
    <2>1. /\ phase' = [at |-> "Discard", n |-> HeaderDiscard] /\ first_response' = FALSE
          /\ got' = got /\ reader' = reader /\ taken' = taken
        BY <1>8 DEF TlsPayload, NextRecord, GotNothing
    <2>2. taken \in B /\ taken # 0 /\ Discarded(taken) = HeaderDiscard
        BY <1>1, <1>6, <1>7, <1>8 DEF Discarded
    <2>3. HeaderDiscard \in Nat
        BY BoundAssumption
    <2>4. TlsReads'
        <3> DEFINE q == taken
        <3>1. q \in B /\ q' = q
            BY <2>1, <2>2
        <3>2. PICK r \in B : r = q
            BY <3>1
        <3>3. AtRecord(B, r)'
            <4>1. taken' = r
                BY <2>1, <3>2
            <4>2. phase'.at = "Discard" /\ phase'.n = HeaderDiscard
                BY <2>1
            <4>3. Discarded(r) = HeaderDiscard
                BY <2>2, <3>2
            <4>4. taken' + phase'.n = r + Discarded(r) /\ phase'.n <= Discarded(r)
                BY <2>3, <4>1, <4>2, <4>3
            <4> QED
                BY <4>2, <4>4 DEF AtRecord
        <3> QED
            BY <1>1, <1>2, <1>3, <1>4, <3>3, TlsStandsThen
    <2>5. /\ taken' = taken + 0 /\ taken + 0 <= arrived
          /\ got' \o leftover' = (got \o leftover) \o Carried(SubSeq(script, taken + 1, taken + 0))
          /\ NoEarlyEof'
        BY <1>2, <2>1, TakenNothing
    <2>6. phase' \in [at : {"Discard", "Length", "Payload"}, n : Nat] /\ len_buf' \in Seq(Nat)
          /\ got' \in Seq(Nat) /\ reader' \in {"open", "eof", "failed"} /\ 0 \in Nat
          /\ first_response' \in BOOLEAN
        BY <1>1, <1>2, <2>1, <2>3
    <2> QED
        BY <1>1, <1>2, <1>3, <2>4, <2>5, <2>6, ReadOn
<1>9. CASE phase.n # 0
    <2>1. PICK n \in Inner(Least(room, phase.n)) :
             /\ taken' = taken + n /\ phase' = [phase EXCEPT !.n = @ - n]
             /\ Deliver(Payload(Next1(n))) /\ first_response' = first_response
        BY <1>9 DEF TlsPayload
    <2>2. Least(room, phase.n) \in Nat /\ Least(room, phase.n) <= phase.n
        BY <1>2 DEF Least
    <2>3. /\ n \in Nat /\ n <= phase.n /\ taken + n <= arrived /\ taken + n <= Len(script)
        <3>1. /\ n \in Nat /\ taken + n <= arrived /\ taken + n <= Len(script)
              /\ (n > 0 => n <= Least(room, phase.n))
            BY <1>1, <2>2, InnerIs
        <3> QED
            BY <1>2, <2>2, <3>1
    <2>4. ASSUME NEW i \in (taken + 1)..(taken + n) PROVE script[i].t = "b"
        <3>1. \A j \in (d + 3)..(d + 2 + size) : script[j].t = "b"
            BY <1>7 DEF RecordFrom
        <3>2. i \in (d + 3)..(d + 2 + size)
            <4> DEFINE r == phase.n
            <4>1. /\ taken + r = d + 2 + size /\ r \in Nat /\ n \in Nat /\ n <= r /\ d \in Nat
                  /\ r <= size /\ taken \in Nat
                BY <1>1, <1>2, <1>6, <1>7, <2>3
            <4> HIDE DEF d, r
            <4> QED
                BY <4>1
        <3> QED
            BY <3>1, <3>2
    <2>5. LET next == SubSeq(script, taken + 1, taken + n)
          IN  /\ got' \in Seq(Nat) /\ got' \o leftover' = (got \o leftover) \o Carried(next)
              /\ reader' \in {reader, "eof"} /\ (reader # "eof" => NoEarlyEof')
        BY <1>2, <1>3, <2>1, <2>2, <2>4, PayloadOn
    <2>6. phase' \in [at : {"Discard", "Length", "Payload"}, n : Nat]
          /\ phase'.at = "Payload" /\ phase'.n = phase.n - n
        <3>1. phase.n - n \in Nat
            BY <1>2, <2>3
        <3> QED
            BY <1>1, <1>2, <2>1, <3>1
    <2>7. AtRecord(B, p)'
        <3>1. RecordFrom(script, p, size)'
            <4>1. RecordFrom(script', p, size)
                BY <1>1, <1>7
            <4> QED
                BY <4>1 DEF RecordFrom
        <3>2. d + 2 + size \in B /\ phase'.n <= size /\ taken' + phase'.n = d + 2 + size
            <4> DEFINE r == phase.n
                       q == phase'.n
            <4>1. /\ taken + r = d + 2 + size /\ r \in Nat /\ n \in Nat /\ n <= r /\ d \in Nat
                  /\ r <= size /\ taken \in Nat
                BY <1>1, <1>2, <1>6, <1>7, <2>3
            <4>2. q = r - n /\ taken' = taken + n /\ d + 2 + size \in B
                BY <1>7, <2>1, <2>6
            <4> HIDE DEF d, r, q
            <4>3. d + 2 + size \in B /\ q <= size /\ taken' + q = d + 2 + size
                BY <4>1, <4>2
            <4> QED
                BY <4>3 DEF q
        <3> QED
            BY <2>6, <3>1, <3>2 DEF AtRecord
    <2>8. TlsReads'
        BY <1>1, <1>2, <1>3, <1>4, <2>7, TlsStandsThen
    <2>9. reader' \in {"open", "eof", "failed"} /\ NoEarlyEof' /\ first_response' \in BOOLEAN
        BY <1>1, <2>1, <2>5
    <2> QED
        BY <1>1, <1>2, <1>3, <2>1, <2>3, <2>5, <2>6, <2>8, <2>9, ReadOn
<1> QED
    BY <1>8, <1>9

LEMMA OneCarried ==
    ASSUME ScriptIs(layer, script), NEW k \in Nat, k + 1 <= Len(script)
    PROVE  /\ Carried(SubSeq(script, k + 1, k + 1)) = CarriedBy(script[k + 1])
           /\ SubSeq(script, k + 1, k + 1)[1] = script[k + 1]
           /\ script[k + 1] \in Tokens
<1> DEFINE x == SubSeq(script, k + 1, k + 1)
<1>1. script \in Seq(Tokens) /\ k + 1 \in 1..Len(script)
    BY DEF ScriptIs
<1>2. x \in Seq(Tokens) /\ Len(x) = 1 /\ x[1] = script[k + 1]
    BY <1>1
<1>3. x = Append(<<>>, script[k + 1]) /\ script[k + 1] \in Tokens
    <2> HIDE DEF x
    <2> QED
        BY <1>1, <1>2
<1>4. Carried(x) = CarriedBy(script[k + 1])
    <2>1. <<>> \in Seq(Tokens)
        OBVIOUS
    <2>2. Carried(Append(<<>>, script[k + 1])) = Carried(<<>>) \o CarriedBy(script[k + 1])
        BY <1>3, <2>1, CarriedNext
    <2> DEFINE c == CarriedBy(script[k + 1])
    <2>3. c \in Seq(Nat)
        BY <1>3, CarriedByIsSeq
    <2> HIDE DEF c, x
    <2>4. <<>> \o c = c
        BY <2>3, NothingCarried
    <2> QED
        BY <1>3, <2>2, <2>4, NothingCarried DEF c
<1> QED
    BY <1>2, <1>3, <1>4

LEMMA WsMessageStep ==
    ASSUME ReadInv, reader = "open", UNCHANGED layer, UNCHANGED peerVars, WsMessage
    PROVE  ReadInv'
<1>1. /\ ReadTypes /\ ScriptIs(layer, script) /\ got \in Seq(Nat)
      /\ taken \in Nat /\ arrived \in Nat /\ Len(script) \in Nat /\ taken <= arrived
      /\ arrived <= Len(script) /\ first_response \in BOOLEAN /\ len_buf \in Seq(Nat)
      /\ phase \in [at : {"Discard", "Length", "Payload"}, n : Nat]
      /\ layer' = layer /\ script' = script /\ arrived' = arrived /\ closed' = closed
    BY TurnStarts
<1>2. /\ layer = "ws" /\ leftover = <<>> /\ got' = got
      /\ first_response' = first_response /\ phase' = phase /\ len_buf' = len_buf
    BY DEF WsMessage
<1> DEFINE Kind(n) == IF n = 0 THEN "none" ELSE Next1(1)[1].t
<1>3. PICK n \in Inner(1) :
         /\ taken' = taken + n
         /\ leftover' = IF Kind(n) = "bin" THEN Next1(1)[1].v ELSE leftover
         /\ reader' = CASE Kind(n) \in {"none", "close"} -> "eof"
                        [] Kind(n) = "text"              -> "failed"
                        [] OTHER                         -> reader
    BY DEF WsMessage
<1>4. /\ n \in Nat /\ n <= 1 /\ taken + n <= arrived /\ taken + n <= Len(script)
      /\ (n = 0 => closed /\ taken = arrived)
    <2>1. 1 \in Nat
        OBVIOUS
    <2>2. /\ n \in Nat /\ taken + n <= arrived /\ taken + n <= Len(script)
          /\ (n = 0 => closed /\ taken = arrived) /\ (n > 0 => n <= 1)
        BY <1>1, <2>1, InnerIs
    <2> QED
        BY <2>2
<1>5. got \o leftover = got /\ got \o leftover \in Seq(Nat)
    BY <1>1, <1>2, NothingCarried
<1>6. CASE n = 0
    <2>1. reader' = "eof" /\ leftover' = <<>> /\ taken' = taken
        BY <1>1, <1>2, <1>3, <1>6
    <2>2. NoEarlyEof'
        BY <1>1, <1>2, <1>4, <1>6, <2>1, AtTheEnd
    <2>3. SubSeq(script, taken + 1, taken + n) = <<>>
        BY <1>1, <1>6
    <2>4. got' \o leftover' = (got \o leftover) \o Carried(SubSeq(script, taken + 1, taken + n))
        BY <1>2, <1>5, <2>1, <2>3, NothingCarried
    <2>5. leftover' \in Seq(Nat) /\ got' \in Seq(Nat) /\ reader' \in {"open", "eof", "failed"}
          /\ layer # "http" /\ layer # "tls"
        BY <1>1, <1>2, <2>1
    <2> QED
        BY <1>1, <1>2, <1>3, <1>4, <2>2, <2>4, <2>5, ReadOn
<1>7. CASE n # 0
    <2> DEFINE x == script[taken + 1]
    <2>1. n = 1 /\ taken' = taken + 1 /\ taken + 1 <= Len(script) /\ taken + 1 \in 1..Len(script)
        BY <1>1, <1>3, <1>4, <1>7
    <2>2. /\ Carried(SubSeq(script, taken + 1, taken + n)) = CarriedBy(x)
          /\ Next1(1)[1] = x /\ x \in Tokens
        BY <1>1, <2>1, OneCarried DEF Next1
    <2>3. x.t \in {"ping", "bin", "close", "text"}
        BY <1>1, <1>2, <2>1 DEF ScriptIs
    <2>4. CarriedBy(x) \in Seq(Nat)
        BY <2>2, CarriedByIsSeq
    <2> HIDE DEF x
    <2>5. /\ leftover' = IF x.t = "bin" THEN x.v ELSE <<>>
          /\ reader' = CASE x.t \in {"none", "close"} -> "eof"
                         [] x.t = "text"              -> "failed"
                         [] OTHER                     -> reader
        BY <1>2, <1>3, <1>7, <2>2
    <2>6. leftover' = CarriedBy(x)
        BY <2>3, <2>5 DEF CarriedBy
    <2>7. got' \o leftover' = (got \o leftover) \o Carried(SubSeq(script, taken + 1, taken + n))
        BY <1>2, <1>5, <2>2, <2>6
    <2>8. reader' \in {"open", "eof", "failed"} /\ (reader' = "eof" => x.t = "close")
        BY <2>3, <2>5
    <2>9. NoEarlyEof'
        <3>1. taken' > 0 /\ script'[taken'] = x
            BY <1>1, <2>1 DEF x
        <3> QED
            BY <1>1, <1>2, <2>8, <3>1 DEF NoEarlyEof
    <2>10. leftover' \in Seq(Nat) /\ got' \in Seq(Nat) /\ layer # "http" /\ layer # "tls"
        BY <1>1, <1>2, <2>4, <2>6
    <2> QED
        BY <1>1, <1>2, <1>3, <1>4, <2>7, <2>8, <2>9, <2>10, ReadOn
<1> QED
    BY <1>6, <1>7

\* A poll of the reader, whatever it finds.
LEMMA PollReadStep ==
    ASSUME ReadInv, PollRead
    PROVE  ReadInv'
<1>1. reader = "open" /\ UNCHANGED layer /\ UNCHANGED peerVars
    BY DEF PollRead
<1>2. \/ \E room \in 1..Space : \/ ReadLeftover(room) \/ HttpHeader(room)
                                \/ HttpPassThrough(room) \/ TlsPayload(room)
      \/ TlsDiscard \/ TlsLength \/ WsMessage
    BY DEF PollRead
<1>3. ASSUME NEW room \in 1..Space, \/ ReadLeftover(room) \/ HttpHeader(room)
                                    \/ HttpPassThrough(room) \/ TlsPayload(room)
      PROVE  ReadInv'
    <2>1. room \in Nat \ {0}
        BY BoundAssumption
    <2>2. CASE ReadLeftover(room)
        BY <1>1, <2>1, <2>2, LeftoverStep
    <2>3. CASE HttpHeader(room)
        BY <1>1, <2>1, <2>3, HttpHeaderStep
    <2>4. CASE HttpPassThrough(room)
        BY <1>1, <2>1, <2>4, HttpPassStep
    <2>5. CASE TlsPayload(room)
        BY <1>1, <2>1, <2>5, TlsPayloadStep
    <2> QED
        BY <1>3, <2>2, <2>3, <2>4, <2>5
<1>4. CASE TlsDiscard
    BY <1>1, <1>4, TlsDiscardStep
<1>5. CASE TlsLength
    BY <1>1, <1>5, TlsLengthStep
<1>6. CASE WsMessage
    BY <1>1, <1>6, WsMessageStep
<1> QED
    BY <1>2, <1>3, <1>4, <1>5, <1>6

LEMMA ReaderStep == ReadInv /\ [Next]_vars => ReadInv'
<1> SUFFICES ASSUME ReadInv, [Next]_vars PROVE ReadInv'
    OBVIOUS
<1> DEFINE Frozen == /\ layer' = layer /\ script' = script /\ taken' = taken /\ got' = got
                     /\ first_response' = first_response /\ scratch' = scratch
                     /\ leftover' = leftover /\ phase' = phase /\ len_buf' = len_buf
<1>1. /\ arrived \in Nat /\ Len(script) \in Nat /\ arrived <= Len(script)
    BY DEF ReadInv, ReadTypes, ScriptIs
<1>2. CASE Arrive
    <2>1. Frozen /\ reader' = reader /\ ~ closed /\ closed' = closed /\ arrived' \in (arrived + 1)..Len(script)
        BY <1>2 DEF Arrive, readVars
    <2>2. arrived' \in arrived..Len(script)
        BY <1>1, <2>1
    <2>3. closed' \in BOOLEAN
        BY <2>1 DEF ReadInv, ReadTypes
    <2> QED
        BY <2>1, <2>2, <2>3, ReaderWaits
<1>3. CASE Close
    <2>1. Frozen /\ reader' = reader /\ ~ closed /\ closed' = TRUE /\ arrived' = arrived
        BY <1>3 DEF Close, readVars
    <2>2. closed' \in BOOLEAN /\ arrived' \in arrived..Len(script)
        BY <1>1, <2>1
    <2> QED
        BY <2>1, <2>2, ReaderWaits
<1>4. CASE Offer \/ PollWrite \/ PollFlush \/ PollShutdown \/ UNCHANGED vars
    <2>1. Frozen /\ reader' = reader /\ arrived' = arrived /\ closed' = closed
        BY <1>4 DEF Offer, PollWrite, PollFlush, PollShutdown, vars, readVars, peerVars
    <2> QED
        BY <2>1, ReaderWaits
<1>5. CASE WriteFails
    <2>1. Frozen /\ arrived' = arrived /\ closed' = closed
          /\ (reader' = reader \/ (reader = "open" /\ reader' = "failed"))
        BY <1>5 DEF WriteFails, peerVars
    <2> QED
        BY <2>1, ReaderWaits
<1>6. CASE PollRead
    BY <1>6, PollReadStep
<1> QED
    BY <1>2, <1>3, <1>4, <1>5, <1>6 DEF Next

LEMMA ReadInOrderFollows == ReadInv => ReadInOrder
<1> SUFFICES ASSUME ReadInv PROVE ReadInOrder
    OBVIOUS
<1>1. /\ got \in Seq(Nat) /\ leftover \in Seq(Nat) /\ got \o leftover = PayloadTo(taken) /\ NoEarlyEof
      /\ script \in Seq(Tokens) /\ Len(script) \in Nat /\ taken \in Nat /\ taken <= Len(script)
    BY DEF ReadInv, ReadTypes, ScriptIs
<1>2. PICK n \in Nat : Carried(script) = Numbers(n)
    BY DEF ReadInv, ScriptIs
<1> DEFINE a == SubSeq(script, 1, taken)
           b == SubSeq(script, taken + 1, Len(script))
<1>3. Carried(script) = Carried(a) \o Carried(b) /\ Carried(a) \in Seq(Nat) /\ Carried(b) \in Seq(Nat)
    <2> DEFINE m == Len(script) - taken
    <2>1. m \in Nat /\ taken + m = Len(script) /\ taken + m <= Len(script)
        BY <1>1
    <2> HIDE DEF m
    <2>2. /\ Carried(SubSeq(script, 1, taken + m)) = Carried(a) \o Carried(SubSeq(script, taken + 1, taken + m))
          /\ Carried(a) \in Seq(Nat) /\ Carried(SubSeq(script, taken + 1, taken + m)) \in Seq(Nat)
        BY <1>1, <2>1, PartIs, Zenon
    <2>3. SubSeq(script, 1, Len(script)) = script
        BY <1>1, SubSeqFull
    <2> QED
        BY <2>1, <2>2, <2>3
<1>4. PayloadTo(taken) = Carried(a)
    BY DEF PayloadTo
<1> DEFINE x == Carried(a)
           y == Carried(b)
<1>5. x \in Seq(Nat) /\ y \in Seq(Nat) /\ x \o y = Numbers(n) /\ got \o leftover = x
    BY <1>1, <1>2, <1>3, <1>4
<1> HIDE DEF x, y
<1>6. x = Numbers(Len(x)) /\ Len(x) \in Nat
    <2>1. x = Numbers(Len(x))
        BY <1>5, NumbersPrefix, Zenon
    <2> QED
        BY <1>5, <2>1
<1>7. got = Numbers(Len(got))
    <2> DEFINE k == Len(x)
    <2>1. k \in Nat /\ got \o leftover = Numbers(k)
        BY <1>5, <1>6
    <2> HIDE DEF k
    <2> QED
        BY <1>1, <2>1, NumbersPrefix
<1> QED
    BY <1>1, <1>7 DEF ReadInOrder

\* Whatever the peer's framing and however it is cut, the caller is given the peer's payload
\* in order and nothing else, and is told of an end only when it has it all (poll_read of
\* the three wrappers).
THEOREM AlwaysReadInOrder == Spec => []ReadInOrder
<1> QED
    BY ReadStarts, ReaderStep, ReadInOrderFollows, PTL DEF Spec
===============================================================================
