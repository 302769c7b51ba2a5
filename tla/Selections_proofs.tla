--------------------------- MODULE Selections_proofs --------------------------
(***************************************************************************)
(* The choices of proxies, for any groups, profiles and number of events:  *)
(* what the home screen shows of the service, and that a choice is one     *)
(* thing on the section, on the home screen and in the profile's row.      *)
(*                                                                         *)
(* Messages and saves are queued, so the invariants say what the end of a  *)
(* queue will bring: the latest state, the profile that will be loaded,    *)
(* the row as it will be when its saves have run.                          *)
(***************************************************************************)
EXTENDS Selections, SequenceTheorems, TLAPS

-----------------------------------------------------------------------------
(* Queues. *)

\* A sequence without its k-th element.
LEMMA Removed ==
    ASSUME NEW X, NEW s \in Seq(X), NEW k \in 1..Len(s)
    PROVE  /\ RemoveAt(s, k) \in Seq(X) /\ Len(RemoveAt(s, k)) = Len(s) - 1
           /\ \A j \in 1..(Len(s) - 1) :
                 RemoveAt(s, k)[j] = IF j < k THEN s[j] ELSE s[j + 1]
<1> DEFINE before == SubSeq(s, 1, k - 1)
           after == SubSeq(s, k + 1, Len(s))
           t == before \o after
<1>1. Len(s) \in Nat /\ k \in 1..Len(s) /\ \A i \in 1..Len(s) : s[i] \in X
    BY LenProperties, ElementOfSeq
<1>2. /\ before \in Seq(X) /\ Len(before) = k - 1
      /\ \A i \in 1..(k - 1) : before[i] = s[i]
    <2>1. \A i \in 1..(k - 1) : s[i] \in X
        BY <1>1
    <2>2. 1 \in Int /\ k - 1 \in Int
        BY <1>1
    <2>3. /\ before \in Seq(X) /\ Len(before) = IF 1 <= k - 1 THEN (k - 1) - 1 + 1 ELSE 0
          /\ \A i \in 1..((k - 1) - 1 + 1) : before[i] = s[1 + i - 1]
        BY <2>1, <2>2, SubSeqProperties
    <2> HIDE DEF before
    <2>4. Len(before) = k - 1
        BY <1>1, <2>3
    <2>5. \A i \in 1..(k - 1) : before[i] = s[i]
        <3> SUFFICES ASSUME NEW i \in 1..(k - 1) PROVE before[i] = s[i]
            OBVIOUS
        <3>1. i \in 1..((k - 1) - 1 + 1) /\ 1 + i - 1 = i
            BY <1>1
        <3> QED
            BY <2>3, <3>1
    <2> QED
        BY <2>3, <2>4, <2>5
<1>3. /\ after \in Seq(X) /\ Len(after) = Len(s) - k
      /\ \A i \in 1..(Len(s) - k) : after[i] = s[k + i]
    <2>1. \A i \in (k + 1)..Len(s) : s[i] \in X
        BY <1>1
    <2>2. k + 1 \in Int /\ Len(s) \in Int
        BY <1>1
    <2>3. /\ after \in Seq(X)
          /\ Len(after) = IF k + 1 <= Len(s) THEN Len(s) - (k + 1) + 1 ELSE 0
          /\ \A i \in 1..(Len(s) - (k + 1) + 1) : after[i] = s[(k + 1) + i - 1]
        BY <2>1, <2>2, SubSeqProperties
    <2> HIDE DEF after
    <2> QED
        BY <1>1, <2>3
<1>4. RemoveAt(s, k) = t
    BY DEF RemoveAt
<1> HIDE DEF before, after
<1>5. /\ t \in Seq(X) /\ Len(t) = Len(before) + Len(after)
      /\ \A i \in 1..(Len(before) + Len(after)) :
            t[i] = IF i <= Len(before) THEN before[i] ELSE after[i - Len(before)]
    BY <1>2, <1>3, ConcatProperties
<1> HIDE DEF t
<1>6. \A j \in 1..(Len(s) - 1) : t[j] = IF j < k THEN s[j] ELSE s[j + 1]
    <2> SUFFICES ASSUME NEW j \in 1..(Len(s) - 1)
                 PROVE  t[j] = IF j < k THEN s[j] ELSE s[j + 1]
        OBVIOUS
    <2>1. t[j] = IF j <= k - 1 THEN before[j] ELSE after[j - (k - 1)]
        BY <1>1, <1>2, <1>3, <1>5
    <2>2. CASE j < k
        BY <1>1, <1>2, <2>1, <2>2
    <2>3. CASE ~(j < k)
        <3>1. j - (k - 1) \in 1..(Len(s) - k) /\ k + (j - (k - 1)) = j + 1
            BY <1>1, <2>3
        <3>2. t[j] = after[j - (k - 1)]
            BY <1>1, <2>1, <2>3
        <3>3. after[j - (k - 1)] = s[k + (j - (k - 1))]
            BY <1>3, <3>1
        <3> QED
            BY <2>3, <3>1, <3>2, <3>3
    <2> QED
        BY <2>2, <2>3
<1> QED
    BY <1>1, <1>2, <1>3, <1>4, <1>5, <1>6

\* The operations on a queue.
LEMMA QueueOps ==
    ASSUME NEW X, NEW q \in Seq(X)
    PROVE  /\ Len(q) \in Nat /\ DOMAIN q = 1..Len(q) /\ (q = <<>> <=> Len(q) = 0)
           /\ \A i \in 1..Len(q) : q[i] \in X
           /\ q # <<>> => /\ Head(q) = q[1] /\ Head(q) \in X /\ Tail(q) \in Seq(X)
                          /\ Len(Tail(q)) = Len(q) - 1 /\ Len(q) >= 1
                          /\ \A i \in 1..(Len(q) - 1) : Tail(q)[i] = q[i + 1]
           /\ \A m \in X : /\ Append(q, m) \in Seq(X) /\ Len(Append(q, m)) = Len(q) + 1
                           /\ Append(q, m)[Len(q) + 1] = m /\ Append(q, m) # <<>>
                           /\ \A i \in 1..Len(q) : Append(q, m)[i] = q[i]
<1>1. /\ Len(q) \in Nat /\ DOMAIN q = 1..Len(q) /\ (q = <<>> <=> Len(q) = 0)
      /\ \A i \in 1..Len(q) : q[i] \in X
    BY EmptySeq, LenProperties, ElementOfSeq
<1>2. q # <<>> => /\ Head(q) = q[1] /\ Head(q) \in X /\ Tail(q) \in Seq(X)
                  /\ Len(Tail(q)) = Len(q) - 1 /\ Len(q) >= 1
                  /\ \A i \in 1..(Len(q) - 1) : Tail(q)[i] = q[i + 1]
    BY <1>1, HeadTailProperties
<1>3. \A m \in X : /\ Append(q, m) \in Seq(X) /\ Len(Append(q, m)) = Len(q) + 1
                   /\ Append(q, m)[Len(q) + 1] = m /\ Append(q, m) # <<>>
                   /\ \A i \in 1..Len(q) : Append(q, m)[i] = q[i]
    BY <1>1, AppendProperties
<1> QED
    BY <1>1, <1>2, <1>3

\* A message of this kind is queued; the last of them.
Has(q, kind) == \E i \in 1..Len(q) : q[i].kind = kind
Latest(q, kind) ==
    {q[i] : i \in {j \in 1..Len(q) :
                      q[j].kind = kind /\ \A k \in 1..Len(q) : j < k => q[k].kind # kind}}

LEMMA HasAppend ==
    ASSUME NEW X, NEW q \in Seq(X), NEW m \in X, NEW kind
    PROVE  Has(Append(q, m), kind) <=> Has(q, kind) \/ m.kind = kind
<1> DEFINE r == Append(q, m)
<1>1. /\ Len(q) \in Nat /\ Len(r) = Len(q) + 1 /\ r[Len(q) + 1] = m
      /\ \A i \in 1..Len(q) : r[i] = q[i]
    BY QueueOps
<1> HIDE DEF r
<1>2. ASSUME Has(r, kind) PROVE Has(q, kind) \/ m.kind = kind
    <2>1. PICK i \in 1..Len(r) : r[i].kind = kind
        BY <1>2 DEF Has
    <2>2. i \in 1..Len(q) \/ i = Len(q) + 1
        BY <1>1
    <2> QED
        BY <1>1, <2>1, <2>2 DEF Has
<1>3. ASSUME Has(q, kind) PROVE Has(r, kind)
    <2>1. PICK i \in 1..Len(q) : q[i].kind = kind
        BY <1>3 DEF Has
    <2>2. i \in 1..Len(r)
        BY <1>1
    <2> QED
        BY <1>1, <2>1, <2>2 DEF Has
<1>4. ASSUME m.kind = kind PROVE Has(r, kind)
    <2>1. Len(q) + 1 \in 1..Len(r)
        BY <1>1
    <2> QED
        BY <1>1, <1>4, <2>1 DEF Has
<1> QED
    BY <1>2, <1>3, <1>4 DEF r

LEMMA LatestAppend ==
    ASSUME NEW X, NEW q \in Seq(X), NEW m \in X, NEW kind
    PROVE  \A x \in Latest(Append(q, m), kind) :
               IF m.kind = kind THEN x = m ELSE x \in Latest(q, kind)
<1> DEFINE r == Append(q, m)
<1>1. /\ Len(q) \in Nat /\ Len(r) = Len(q) + 1 /\ r[Len(q) + 1] = m
      /\ \A i \in 1..Len(q) : r[i] = q[i]
    BY QueueOps
<1> HIDE DEF r
<1>2. ASSUME NEW x \in Latest(r, kind) PROVE IF m.kind = kind THEN x = m ELSE x \in Latest(q, kind)
    <2>1. PICK i \in 1..Len(r) :
              /\ x = r[i] /\ r[i].kind = kind
              /\ \A k \in 1..Len(r) : i < k => r[k].kind # kind
        BY <1>2 DEF Latest
    <2>2. Len(q) + 1 \in 1..Len(r) /\ (i \in 1..Len(q) \/ i = Len(q) + 1)
        BY <1>1
    <2>3. CASE m.kind = kind
        <3>1. ~(i < Len(q) + 1)
            BY <1>1, <2>1, <2>2, <2>3
        <3>2. i = Len(q) + 1
            BY <1>1, <2>2, <3>1
        <3> QED
            BY <1>1, <2>1, <2>3, <3>2
    <2>4. CASE m.kind # kind
        <3>1. i \in 1..Len(q)
            BY <1>1, <2>1, <2>2, <2>4
        <3>2. \A k \in 1..Len(q) : k \in 1..Len(r)
            BY <1>1
        <3>3. x = q[i] /\ q[i].kind = kind /\ \A k \in 1..Len(q) : i < k => q[k].kind # kind
            BY <1>1, <2>1, <3>1, <3>2
        <3> QED
            BY <2>4, <3>1, <3>3 DEF Latest
    <2> QED
        BY <2>3, <2>4
<1> QED
    BY <1>2 DEF r

\* What the first message leaves behind it.
LEMMA TakenOff ==
    ASSUME NEW X, NEW q \in Seq(X), q # <<>>, NEW kind
    PROVE  /\ Latest(Tail(q), kind) \subseteq Latest(q, kind)
           /\ Has(q, kind) => Has(Tail(q), kind) \/ Head(q).kind = kind
           /\ ~Has(Tail(q), kind) /\ Head(q).kind = kind => Head(q) \in Latest(q, kind)
<1> DEFINE r == Tail(q)
<1>1. /\ Len(q) \in Nat /\ Len(q) >= 1 /\ Len(r) = Len(q) - 1 /\ Head(q) = q[1]
      /\ \A i \in 1..(Len(q) - 1) : r[i] = q[i + 1]
    BY QueueOps
<1> HIDE DEF r
<1>a. \A k \in 2..Len(q) : k - 1 \in 1..Len(r) /\ r[k - 1] = q[k]
    <2> SUFFICES ASSUME NEW k \in 2..Len(q) PROVE k - 1 \in 1..Len(r) /\ r[k - 1] = q[k]
        OBVIOUS
    <2>1. k - 1 \in 1..(Len(q) - 1) /\ (k - 1) + 1 = k
        BY <1>1
    <2> QED
        BY <1>1, <2>1
<1>2. ASSUME NEW x \in Latest(r, kind) PROVE x \in Latest(q, kind)
    <2>1. PICK i \in 1..Len(r) :
              /\ x = r[i] /\ r[i].kind = kind
              /\ \A k \in 1..Len(r) : i < k => r[k].kind # kind
        BY <1>2 DEF Latest
    <2>2. i + 1 \in 1..Len(q) /\ r[i] = q[i + 1]
        BY <1>1
    <2>3. ASSUME NEW k \in 1..Len(q), i + 1 < k PROVE q[k].kind # kind
        <3>1. k \in 2..Len(q) /\ i < k - 1
            BY <1>1, <2>3
        <3> QED
            BY <1>a, <2>1, <3>1
    <2> QED
        BY <2>1, <2>2, <2>3 DEF Latest
<1>3. ASSUME Has(q, kind) PROVE Has(r, kind) \/ Head(q).kind = kind
    <2>1. PICK i \in 1..Len(q) : q[i].kind = kind
        BY <1>3 DEF Has
    <2>2. i = 1 \/ i \in 2..Len(q)
        BY <1>1
    <2> QED
        BY <1>1, <1>a, <2>1, <2>2 DEF Has
<1>4. ASSUME ~Has(r, kind), Head(q).kind = kind PROVE Head(q) \in Latest(q, kind)
    <2>1. ASSUME NEW k \in 1..Len(q), 1 < k PROVE q[k].kind # kind
        <3>1. k \in 2..Len(q)
            BY <1>1, <2>1
        <3> QED
            BY <1>4, <1>a, <3>1 DEF Has
    <2>2. 1 \in 1..Len(q)
        BY <1>1
    <2> QED
        BY <1>1, <1>4, <2>1, <2>2 DEF Latest
<1> QED
    BY <1>2, <1>3, <1>4 DEF r

\* When the saves s have run on the rows r, that of profile p holds the choice c.
WillHold(s, r, p, c) ==
    /\ (\A i \in 1..Len(s) : s[i].profile # p) => r[p] = c
    /\ \A i \in 1..Len(s) :
           (s[i].profile = p /\ \A k \in 1..Len(s) : i < k => s[k].profile # p) => s[i].choice = c

LEMMA SaveQueued ==
    ASSUME NEW X, NEW s \in Seq(X), NEW m \in X, NEW r
    PROVE  /\ WillHold(Append(s, m), r, m.profile, m.choice)
           /\ \A p, c : p # m.profile /\ WillHold(s, r, p, c) => WillHold(Append(s, m), r, p, c)
<1> DEFINE t == Append(s, m)
<1>1. /\ Len(s) \in Nat /\ Len(t) = Len(s) + 1 /\ t[Len(s) + 1] = m
      /\ \A i \in 1..Len(s) : t[i] = s[i]
    BY QueueOps
<1> HIDE DEF t
<1>a. Len(s) + 1 \in 1..Len(t) /\ \A i \in 1..Len(t) : i \in 1..Len(s) \/ i = Len(s) + 1
    BY <1>1
<1>b. \A i \in 1..Len(s) : i \in 1..Len(t) /\ i < Len(s) + 1
    BY <1>1
<1>2. WillHold(t, r, m.profile, m.choice)
    BY <1>1, <1>a, <1>b DEF WillHold
<1>3. ASSUME NEW p, NEW c, p # m.profile, WillHold(s, r, p, c) PROVE WillHold(t, r, p, c)
    <2>1. (\A i \in 1..Len(t) : t[i].profile # p) => \A i \in 1..Len(s) : s[i].profile # p
        BY <1>1, <1>b
    <2>2. ASSUME NEW i \in 1..Len(t), t[i].profile = p,
                 \A k \in 1..Len(t) : i < k => t[k].profile # p
          PROVE  t[i].choice = c
        <3>1. i \in 1..Len(s)
            BY <1>1, <1>3, <1>a, <2>2
        <3>2. \A k \in 1..Len(s) : i < k => s[k].profile # p
            BY <1>1, <1>b, <2>2
        <3> QED
            BY <1>1, <1>3, <2>2, <3>1, <3>2 DEF WillHold
    <2> QED
        BY <1>3, <2>1, <2>2 DEF WillHold
<1> QED
    BY <1>2, <1>3 DEF t

\* The first save has run.
LEMMA SaveRun ==
    ASSUME NEW X, NEW s \in Seq(X), 1 \in 1..Len(s), NEW r, s[1].profile \in DOMAIN r,
           NEW p \in DOMAIN r, NEW c, WillHold(s, r, p, c)
    PROVE  WillHold(RemoveAt(s, 1), [r EXCEPT ![s[1].profile] = s[1].choice], p, c)
<1> DEFINE t == RemoveAt(s, 1)
           w == [r EXCEPT ![s[1].profile] = s[1].choice]
<1>1. Len(s) \in Nat /\ Len(s) >= 1 /\ Len(t) = Len(s) - 1
      /\ \A j \in 1..(Len(s) - 1) : t[j] = IF j < 1 THEN s[j] ELSE s[j + 1]
    BY QueueOps, Removed
<1>2. w[s[1].profile] = s[1].choice /\ (p # s[1].profile => w[p] = r[p])
    OBVIOUS
<1> HIDE DEF t, w
<1>3. \A j \in 1..Len(t) : j + 1 \in 1..Len(s) /\ j + 1 # 1 /\ t[j] = s[j + 1]
    BY <1>1
<1>4. \A k \in 1..Len(s) : 1 < k => k - 1 \in 1..Len(t) /\ t[k - 1] = s[k]
    <2> SUFFICES ASSUME NEW k \in 1..Len(s), 1 < k PROVE k - 1 \in 1..Len(t) /\ t[k - 1] = s[k]
        OBVIOUS
    <2>1. k - 1 \in 1..Len(t) /\ (k - 1) + 1 = k
        BY <1>1
    <2> QED
        BY <1>3, <2>1
<1>5. ASSUME \A j \in 1..Len(t) : t[j].profile # p PROVE w[p] = c
    <2>1. \A k \in 1..Len(s) : 1 < k => s[k].profile # p
        BY <1>4, <1>5
    <2>2. CASE s[1].profile = p
        BY <1>2, <2>1, <2>2 DEF WillHold
    <2>3. CASE s[1].profile # p
        <3>1. \A k \in 1..Len(s) : k = 1 \/ 1 < k
            BY <1>1
        <3>2. r[p] = c
            BY <2>1, <2>3, <3>1 DEF WillHold
        <3> QED
            BY <1>2, <2>3, <3>2
    <2> QED
        BY <2>2, <2>3
<1>6. ASSUME NEW j \in 1..Len(t), t[j].profile = p,
             \A k \in 1..Len(t) : j < k => t[k].profile # p
      PROVE  t[j].choice = c
    <2>1. ASSUME NEW k \in 1..Len(s), j + 1 < k PROVE s[k].profile # p
        <3>1. 1 < k /\ j < k - 1
            BY <1>1, <2>1
        <3> QED
            BY <1>4, <1>6, <3>1
    <2> QED
        BY <1>3, <1>6, <2>1, SMTT(30) DEF WillHold
<1> QED
    BY <1>5, <1>6 DEF WillHold, t, w

-----------------------------------------------------------------------------
(* Types. *)

ChoicesOf(G) == [G -> Proxies \cup {None}]
Messages(G) ==
    [kind : {"state", "gotState"}, on : BOOLEAN]
      \cup [kind : {"profile"}, on : BOOLEAN, profile : Profiles, choice : ChoicesOf(G)]
Saved(G) == [profile : Profiles, choice : ChoicesOf(G)]
Requests(G) == [id : Nat, group : G, name : Proxies, prev : Proxies,
                kept : BOOLEAN, at : {"sent", "refused"}]
Replays(G) ==
    {Idle, [at |-> "asked", todo |-> {}]}
      \cup {r \in [at : {"putting"}, todo : SUBSET G, choice : ChoicesOf(G)] :
                \A g \in r.todo : r.choice[g] \in Proxies}

TextTypes(G) ==
    /\ G = Groups /\ members \in Texts
    /\ \A g \in G : Default(g) \in Proxies /\ Range(members[g]) \subseteq Proxies
QueueTypes(G) ==
    /\ inbox \in Seq(Messages(G)) /\ reads \in Seq(BOOLEAN) /\ saves \in Seq(Saved(G))
ValueTypes(G) ==
    /\ vpn \in BOOLEAN /\ now \in [G -> Proxies] /\ rows \in [Profiles -> ChoicesOf(G)]
    /\ selected \in Profiles /\ profile \in Profiles \cup {None}
    /\ state \in BOOLEAN /\ widgetOn \in BOOLEAN
    /\ selections \in ChoicesOf(G) /\ shown \in ChoicesOf(G)
    /\ replaying \in Replays(G) /\ puts \subseteq Requests(G)
    /\ events \in Nat /\ (puts # {} => profile # None)
Typed == TextTypes(Groups) /\ QueueTypes(Groups) /\ ValueTypes(Groups)

LEMMA TextsGive == members \in Texts => TextTypes(Groups)
<1> SUFFICES ASSUME members \in Texts PROVE TextTypes(Groups)
    OBVIOUS
<1>1. ASSUME NEW g \in Groups PROVE Default(g) \in Proxies /\ Range(members[g]) \subseteq Proxies
    <2>1. members[g] \in Seq(Proxies) /\ members[g] # <<>>
        BY ChoiceAssumption DEF Groups
    <2> DEFINE s == members[g]
    <2> HIDE DEF s
    <2>2. s \in Seq(Proxies) /\ s # <<>> =>
              Head(s) \in Proxies /\ DOMAIN s = 1..Len(s) /\ \A i \in 1..Len(s) : s[i] \in Proxies
        BY QueueOps
    <2> QED
        BY <2>1, <2>2 DEF s, Default, Range
<1> QED
    BY <1>1 DEF TextTypes

\* What messages, saves and requests are.
LEMMA MessageShapes ==
    ASSUME NEW G
    PROVE  /\ \A m \in Messages(G) :
                 /\ m.on \in BOOLEAN /\ m.kind \in {"state", "gotState", "profile"}
                 /\ m.kind = "profile" => m.profile \in Profiles /\ m.choice \in ChoicesOf(G)
           /\ \A s \in Saved(G) : s.profile \in Profiles /\ s.choice \in ChoicesOf(G)
BY DEF Messages, Saved

LEMMA MessagesMade ==
    ASSUME NEW G
    PROVE  /\ \A on \in BOOLEAN, kind \in {"state", "gotState"} :
                 [kind |-> kind, on |-> on] \in Messages(G)
           /\ \A on \in BOOLEAN, p \in Profiles, c \in ChoicesOf(G) :
                 [kind |-> "profile", on |-> on, profile |-> p, choice |-> c] \in Messages(G)
           /\ \A p \in Profiles, c \in ChoicesOf(G) : [profile |-> p, choice |-> c] \in Saved(G)
BY DEF Messages, Saved

LEMMA RequestShapes ==
    ASSUME NEW G, NEW p \in Requests(G)
    PROVE  /\ p.group \in G /\ p.name \in Proxies /\ p.prev \in Proxies
           /\ [p EXCEPT !.at = "refused"] \in Requests(G)
           /\ [p EXCEPT !.at = "refused"].group = p.group
BY DEF Requests

\* A choice with one group changed.
LEMMA Chosen ==
    ASSUME NEW G, NEW c \in ChoicesOf(G), NEW g \in G, NEW v \in Proxies \cup {None}
    PROVE  /\ [c EXCEPT ![g] = v] \in ChoicesOf(G)
           /\ \A h \in G : [c EXCEPT ![g] = v][h] = IF h = g THEN v ELSE c[h]
BY DEF ChoicesOf

LEMMA PutsIfAbsent ==
    ASSUME NEW c \in ChoicesOf(Groups), NEW d \in [Groups -> Proxies]
    PROVE  /\ PutIfAbsent(c, d) \in ChoicesOf(Groups)
           /\ \A g \in Groups : c[g] # None => PutIfAbsent(c, d)[g] = c[g]
BY DEF ChoicesOf, PutIfAbsent

LEMMA TypedInit == Init => Typed
<1> SUFFICES ASSUME Init PROVE Typed
    OBVIOUS
<1>1. TextTypes(Groups)
    BY TextsGive DEF Init
<1> DEFINE a == [kind |-> "gotState", on |-> vpn]
           b == [kind |-> "state", on |-> vpn]
<1>2. QueueTypes(Groups)
    <2>1. a \in Messages(Groups) /\ b \in Messages(Groups) /\ inbox = <<a, b>>
        BY MessagesMade DEF Init
    <2> HIDE DEF a, b
    <2> QED
        BY <2>1 DEF Init, QueueTypes
<1>3. now \in [Groups -> Proxies] /\ NoChoices \in ChoicesOf(Groups)
    BY <1>1 DEF Init, TextTypes, ChoicesOf, NoChoices
<1>4. rows \in [Profiles -> ChoicesOf(Groups)]
    <2>1. PICK c \in [Profiles -> Stored] : rows = [p \in Profiles |-> [g \in Groups |-> c[p]]]
        BY DEF Init
    <2>2. \A p \in Profiles : [g \in Groups |-> c[p]] \in ChoicesOf(Groups)
        BY ChoiceAssumption DEF ChoicesOf
    <2> QED
        BY <2>1, <2>2
<1>5. ValueTypes(Groups)
    BY <1>3, <1>4 DEF Init, ValueTypes, Replays
<1> QED
    BY <1>1, <1>2, <1>5 DEF Typed

\* A replay that is asked for, or left as it is.
LEMMA ReplayTypes ==
    ASSUME NEW G, replaying \in Replays(G), NEW choice,
           Replay(choice) \/ UNCHANGED replaying
    PROVE  replaying' \in Replays(G)
BY DEF Replay, Replays

LEMMA PlatformTypes ==
    ASSUME NEW G, TextTypes(G), QueueTypes(G), ValueTypes(G),
           Toggle \/ SwitchProfile \/ RunSave \/ ReadProfile
    PROVE  QueueTypes(G)' /\ ValueTypes(G)'
<1> USE DEF uiVars, widgetVars, dbVars, Event
<1>q. inbox \in Seq(Messages(G)) /\ reads \in Seq(BOOLEAN) /\ saves \in Seq(Saved(G))
    BY DEF QueueTypes
<1>1. CASE Toggle
    <2>1. PICK m \in Messages(G) : m = [kind |-> "state", on |-> vpn']
        <3>1. vpn' \in BOOLEAN
            BY <1>1 DEF Toggle, ValueTypes
        <3> QED
            BY <3>1, MessagesMade
    <2>2. inbox' = Append(inbox, m) /\ reads' = reads /\ saves' = saves
        BY <1>1, <2>1 DEF Toggle
    <2>3. inbox' \in Seq(Messages(G))
        BY <1>q, <2>2, QueueOps
    <2>4. now' \in [G -> Proxies]
        BY <1>1 DEF Toggle, ValueTypes, TextTypes
    <2> QED
        BY <1>1, <1>q, <2>2, <2>3, <2>4 DEF Toggle, QueueTypes, ValueTypes
<1>2. CASE SwitchProfile
    <2>1. PICK m \in Messages(G) : m = [kind |-> "gotState", on |-> vpn]
        BY MessagesMade DEF ValueTypes
    <2>2. inbox' = Append(inbox, m) /\ reads' = reads /\ saves' = saves
        BY <1>2, <2>1 DEF SwitchProfile
    <2>3. inbox' \in Seq(Messages(G))
        BY <1>q, <2>2, QueueOps
    <2> QED
        BY <1>2, <1>q, <2>2, <2>3 DEF SwitchProfile, QueueTypes, ValueTypes
<1>3. CASE RunSave
    <2>1. PICK i \in DOMAIN saves :
              /\ rows' = [rows EXCEPT ![saves[i].profile] = saves[i].choice]
              /\ saves' = RemoveAt(saves, i)
        BY <1>3 DEF RunSave
    <2>2. i \in 1..Len(saves) /\ saves[i] \in Saved(G)
        BY <1>q, QueueOps
    <2>3. saves[i].profile \in Profiles /\ saves[i].choice \in ChoicesOf(G)
        BY <2>2, MessageShapes
    <2>4. rows' \in [Profiles -> ChoicesOf(G)]
        BY <2>1, <2>3 DEF ValueTypes
    <2>5. saves' \in Seq(Saved(G))
        BY <1>q, <2>1, <2>2, Removed
    <2> QED
        BY <1>3, <1>q, <2>4, <2>5 DEF RunSave, QueueTypes, ValueTypes
<1>4. CASE ReadProfile
    <2>1. PICK i \in DOMAIN reads :
              /\ inbox' = Append(inbox, [kind |-> "profile", on |-> reads[i], profile |-> selected,
                                         choice |-> rows[selected]])
              /\ reads' = RemoveAt(reads, i)
        BY <1>4 DEF ReadProfile
    <2>2. i \in 1..Len(reads) /\ reads[i] \in BOOLEAN
        BY <1>q, QueueOps
    <2>3. PICK m \in Messages(G) : m = [kind |-> "profile", on |-> reads[i], profile |-> selected,
                                        choice |-> rows[selected]]
        <3>1. selected \in Profiles /\ rows[selected] \in ChoicesOf(G)
            BY DEF ValueTypes
        <3> QED
            BY <2>2, <3>1, MessagesMade
    <2>4. inbox' \in Seq(Messages(G))
        BY <1>q, <2>1, <2>3, QueueOps
    <2>5. reads' \in Seq(BOOLEAN)
        BY <1>q, <2>1, <2>2, Removed
    <2> QED
        BY <1>4, <1>q, <2>4, <2>5 DEF ReadProfile, QueueTypes, ValueTypes
<1> QED
    BY <1>1, <1>2, <1>3, <1>4

LEMMA HomeTypes ==
    ASSUME NEW G, TextTypes(G), QueueTypes(G), ValueTypes(G), HomeNext
    PROVE  QueueTypes(G)' /\ ValueTypes(G)'
<1> USE DEF uiVars, widgetVars, dbVars
<1>q. inbox \in Seq(Messages(G)) /\ reads \in Seq(BOOLEAN) /\ saves \in Seq(Saved(G))
    BY DEF QueueTypes
<1>t. inbox # <<>> => Head(inbox) \in Messages(G) /\ Tail(inbox) \in Seq(Messages(G))
    BY <1>q, QueueOps
<1>r. replaying \in Replays(G)
    BY DEF ValueTypes
<1>1. CASE StateEvent
    <2>1. replaying' \in Replays(G) /\ state' \in BOOLEAN
        BY <1>1, <1>r, <1>t, ReplayTypes, MessageShapes DEF StateEvent, EventState
    <2> QED
        BY <1>1, <1>q, <1>t, <2>1 DEF StateEvent, QueueTypes, ValueTypes
<1>2. CASE GotState
    <2>1. Head(inbox).on \in BOOLEAN /\ inbox' \in Seq(Messages(G))
        BY <1>2, <1>t, MessageShapes DEF GotState
    <2>2. reads' \in Seq(BOOLEAN)
        BY <1>2, <1>q, <2>1, QueueOps DEF GotState
    <2> QED
        BY <1>2, <1>q, <2>1, <2>2 DEF GotState, QueueTypes, ValueTypes
<1>3. CASE LoadDone
    <2>1. /\ Head(inbox).profile \in Profiles /\ Head(inbox).choice \in ChoicesOf(G)
          /\ inbox' \in Seq(Messages(G)) /\ state' \in BOOLEAN
        BY <1>3, <1>t, MessageShapes DEF LoadDone
    <2>2. replaying' \in Replays(G)
        BY <1>3, <1>r, ReplayTypes DEF LoadDone
    <2>3. profile' \in Profiles /\ profile' # None
        BY <1>3, <2>1, ChoiceAssumption DEF LoadDone
    <2>4. selections' \in ChoicesOf(G)
        BY <1>3, <2>1 DEF LoadDone, LoadAdopts, ValueTypes
    <2> QED
        BY <1>3, <1>q, <2>1, <2>2, <2>3, <2>4 DEF LoadDone, QueueTypes, ValueTypes
<1>4. CASE ReplayAnswer
    <2>1. \/ replaying' = Idle
          \/ replaying' = [at |-> "putting", todo |-> Replayed(selections), choice |-> selections]
        BY <1>4 DEF ReplayAnswer
    <2>2. Replayed(selections) \subseteq G /\ selections \in ChoicesOf(G)
        BY DEF Replayed, TextTypes, ValueTypes
    <2>a. \A g \in Replayed(selections) : selections[g] \in Proxies
        BY DEF Replayed, TextTypes
    <2>3. replaying' \in Replays(G)
        BY <2>1, <2>2, <2>a DEF Replays
    <2> QED
        BY <1>4, <1>q, <2>3 DEF ReplayAnswer, QueueTypes, ValueTypes
<1>5. ASSUME NEW g \in Groups, ReplayPut(g) PROVE QueueTypes(G)' /\ ValueTypes(G)'
    <2>1. /\ replaying \in [at : {"putting"}, todo : SUBSET G, choice : ChoicesOf(G)]
          /\ \A h \in replaying.todo : replaying.choice[h] \in Proxies
        BY <1>5, <1>r DEF ReplayPut, Replays, Idle
    <2>2. replaying' = Idle \/ replaying' = [replaying EXCEPT !.todo = replaying.todo \ {g}]
        BY <1>5 DEF ReplayPut
    <2>3. replaying' \in Replays(G)
        BY <2>1, <2>2 DEF Replays
    <2>4. replaying.choice[g] \in Proxies /\ now \in [G -> Proxies]
        BY <1>5, <2>1 DEF ReplayPut, ValueTypes
    <2>6. now' \in [G -> Proxies]
        <3>1. now' = [now EXCEPT ![g] = replaying.choice[g]] \/ now' = now
            BY <1>5 DEF ReplayPut
        <3> QED
            BY <2>4, <3>1
    <2>7. UNCHANGED <<vpn, rows, selected, saves, inbox, reads, state, profile, selections, puts,
                      widgetOn, shown, events>>
        BY <1>5 DEF ReplayPut
    <2> QED
        BY <1>q, <2>3, <2>6, <2>7 DEF QueueTypes, ValueTypes
<1> QED
    BY <1>1, <1>2, <1>3, <1>4, <1>5 DEF HomeNext

LEMMA SaveTypes ==
    ASSUME NEW G, QueueTypes(G), profile \in Profiles, NEW c \in ChoicesOf(G),
           OnSelectionsChanged(c)
    PROVE  selections' \in ChoicesOf(G) /\ saves' \in Seq(Saved(G))
<1>1. PICK m \in Saved(G) : m = [profile |-> profile, choice |-> c]
    BY MessagesMade
<1> QED
    BY <1>1, QueueOps DEF OnSelectionsChanged, Save, QueueTypes

LEMMA SectionTypes ==
    ASSUME NEW G, TextTypes(G), QueueTypes(G), ValueTypes(G),
           \/ SectionNext
           \/ \E g \in Groups : \E name \in Range(members[g]) : SelectProxy(g, name)
    PROVE  QueueTypes(G)' /\ ValueTypes(G)'
<1> USE DEF uiVars, widgetVars, dbVars
<1>s. shown \in ChoicesOf(G) /\ now \in [G -> Proxies] /\ puts \subseteq Requests(G)
    BY DEF ValueTypes
<1>1. CASE Rebuild
    BY <1>1 DEF Rebuild, QueueTypes, ValueTypes
<1>2. CASE LoadGroups
    <2>1. [g \in G |-> Default(g)] \in [G -> Proxies]
        BY DEF TextTypes
    <2>2. \/ shown' = PutIfAbsent(shown, now)
          \/ shown' = PutIfAbsent(shown, [g \in G |-> Default(g)])
          \/ shown' = shown
        BY <1>2 DEF LoadGroups, TextTypes
    <2>3. shown' \in ChoicesOf(G)
        BY <1>s, <2>1, <2>2, PutsIfAbsent DEF TextTypes
    <2> QED
        BY <1>2, <2>3 DEF LoadGroups, QueueTypes, ValueTypes
<1>3. CASE PutArrives
    <2>1. PICK p \in puts :
              \/ now' = [now EXCEPT ![p.group] = p.name] /\ puts' = puts \ {p}
              \/ now' = now /\ puts' = (puts \ {p}) \cup {[p EXCEPT !.at = "refused"]}
        BY <1>3 DEF PutArrives
    <2>2. p.group \in G /\ p.name \in Proxies /\ [p EXCEPT !.at = "refused"] \in Requests(G)
        BY <1>s, RequestShapes
    <2>3. now' \in [G -> Proxies]
        BY <1>s, <2>1, <2>2
    <2>4. puts' \subseteq Requests(G) /\ puts # {}
        BY <1>s, <2>1, <2>2
    <2> QED
        BY <1>3, <2>3, <2>4 DEF PutArrives, QueueTypes, ValueTypes
<1>4. CASE PutFailed
    <2>1. PICK p \in puts : puts' = puts \ {p} /\ shown' = TakenBack(p) /\ OnSelectionsChanged(shown')
        BY <1>4 DEF PutFailed
    <2>2. p.group \in G /\ p.prev \in Proxies
        BY <1>s, RequestShapes
    <2>3. shown' \in ChoicesOf(G)
        BY <1>s, <2>1, <2>2, Chosen DEF TakenBack
    <2>4. profile \in Profiles
        BY <2>1 DEF ValueTypes
    <2>5. selections' \in ChoicesOf(G) /\ saves' \in Seq(Saved(G))
        BY <2>1, <2>3, <2>4, SaveTypes
    <2> QED
        BY <1>4, <1>s, <2>1, <2>3, <2>4, <2>5 DEF PutFailed, QueueTypes, ValueTypes
<1>5. ASSUME NEW g \in Groups, NEW name \in Range(members[g]), SelectProxy(g, name)
      PROVE  QueueTypes(G)' /\ ValueTypes(G)'
    <2>1. g \in G /\ name \in Proxies /\ shown[g] \in Proxies
        BY <1>5, <1>s DEF SelectProxy, TextTypes, ChoicesOf
    <2>2. shown' = [shown EXCEPT ![g] = name] /\ OnSelectionsChanged(shown')
        BY <1>5 DEF SelectProxy
    <2>3. shown' \in ChoicesOf(G)
        BY <1>s, <2>1, <2>2, Chosen
    <2>4. profile \in Profiles /\ profile # None
        BY <1>5, ChoiceAssumption DEF SelectProxy, ValueTypes
    <2>5. selections' \in ChoicesOf(G) /\ saves' \in Seq(Saved(G))
        BY <2>2, <2>3, <2>4, SaveTypes
    <2>6. puts' \subseteq Requests(G) /\ events' \in Nat
        <3>1. events \in Nat /\ events' = events + 1
            BY <1>5 DEF SelectProxy, Event, ValueTypes
        <3>2. PICK kept \in BOOLEAN : kept = (selections[g] # None)
            OBVIOUS
        <3>r. [id |-> events, group |-> g, name |-> name, prev |-> shown[g],
               kept |-> kept, at |-> "sent"] \in Requests(G)
            BY <2>1, <3>1 DEF Requests
        <3>3. [id |-> events, group |-> g, name |-> name, prev |-> shown[g],
               kept |-> selections[g] # None, at |-> "sent"] \in Requests(G)
            BY <3>2, <3>r, Zenon
        <3> QED
            BY <1>5, <1>s, <3>1, <3>3 DEF SelectProxy
    <2> QED
        BY <1>5, <2>3, <2>4, <2>5, <2>6 DEF SelectProxy, QueueTypes, ValueTypes
<1> QED
    BY <1>1, <1>2, <1>3, <1>4, <1>5 DEF SectionNext

LEMMA TypedStep == Typed /\ [Next]_vars => Typed'
<1> SUFFICES ASSUME Typed, [Next]_vars PROVE Typed'
    OBVIOUS
<1>1. members' = members /\ Groups' = Groups
    <2>1. members' = members
        BY DEF Next, vars
    <2> QED
        BY <2>1 DEF Groups
<1>2. TextTypes(Groups)'
    <2>1. \A g \in Groups : Default(g)' = Default(g)
        BY <1>1 DEF Default
    <2> QED
        BY <1>1, <2>1 DEF Typed, TextTypes
<1>3. PICK G : G = Groups
    OBVIOUS
<1>4. TextTypes(G) /\ QueueTypes(G) /\ ValueTypes(G)
    BY <1>3 DEF Typed
<1>5. QueueTypes(G)' /\ ValueTypes(G)'
    <2>1. CASE UNCHANGED vars
        BY <1>4, <2>1 DEF vars, dbVars, uiVars, widgetVars, QueueTypes, ValueTypes
    <2> QED
        BY <1>4, <2>1, PlatformTypes, HomeTypes, SectionTypes DEF Next
<1> QED
    BY <1>1, <1>2, <1>3, <1>5 DEF Typed

-----------------------------------------------------------------------------
(* What the queues will bring. *)

\* The last state event has the service's state; without one the home screen has it,
\* unless a load wrote another since.
StateInv ==
    /\ \A m \in Latest(inbox, "state") : m.on = vpn
    /\ ~Has(inbox, "state") => state = vpn \/ "staleState" \in raced

\* A load that has not read is queued, or the last one has read the selected profile.
ProfileInv ==
    reads = <<>> /\ ~Has(inbox, "gotState") =>
        /\ \A m \in Latest(inbox, "profile") : m.profile = selected
        /\ ~Has(inbox, "profile") => profile = selected

\* The rows will hold what the home screen keeps, and what the loads have read.
RowInv ==
    "rowRace" \notin raced =>
        /\ profile # None => WillHold(saves, rows, profile, selections)
        /\ \A i \in 1..Len(inbox) : inbox[i].kind = "profile" =>
               WillHold(saves, rows, inbox[i].profile, inbox[i].choice)

LEMMA QueuesInit == Init => Typed /\ StateInv /\ ProfileInv /\ RowInv /\ SectionShowsHome
<1> SUFFICES ASSUME Init PROVE Typed /\ StateInv /\ ProfileInv /\ RowInv /\ SectionShowsHome
    OBVIOUS
<1> DEFINE a == [kind |-> "gotState", on |-> vpn]
           b == [kind |-> "state", on |-> vpn]
<1>1. inbox = <<a, b>> /\ a.kind = "gotState" /\ b.kind = "state" /\ b.on = vpn
    BY DEF Init
<1> HIDE DEF a, b
<1>2. inbox[1] = a /\ inbox[2] = b /\ Len(inbox) = 2
    BY <1>1
<1>3. StateInv
    <2>1. Has(inbox, "state")
        BY <1>1, <1>2 DEF Has
    <2>2. \A i \in 1..2 : inbox[i].kind = "state" => inbox[i].on = vpn
        BY <1>1, <1>2
    <2> QED
        BY <1>2, <2>1, <2>2 DEF StateInv, Latest
<1>4. ProfileInv
    BY <1>1, <1>2 DEF ProfileInv, Has
<1>5. RowInv
    <2>1. \A i \in 1..2 : inbox[i].kind # "profile"
        BY <1>1, <1>2
    <2>2. profile = None
        BY DEF Init
    <2> QED
        BY <1>2, <2>1, <2>2 DEF RowInv
<1>6. SectionShowsHome
    BY DEF Init, SectionShowsHome, NoChoices
<1> QED
    BY <1>3, <1>4, <1>5, <1>6, TypedInit

\* Events and loads keep the order in which they will be handled.
LEMMA StateStep == Typed /\ StateInv /\ [Next]_vars => StateInv'
<1> SUFFICES ASSUME Typed, StateInv, [Next]_vars PROVE StateInv'
    OBVIOUS
<1> USE DEF uiVars, widgetVars, dbVars
<1> DEFINE M == Messages(Groups)
<1>q. inbox \in Seq(M) /\ vpn \in BOOLEAN
    BY DEF Typed, QueueTypes, ValueTypes
<1>t. inbox # <<>> => Head(inbox) \in M
    BY <1>q, QueueOps
<1>1. CASE Toggle
    <2>1. PICK m \in M : m = [kind |-> "state", on |-> vpn']
        <3>1. vpn' \in BOOLEAN
            BY <1>1 DEF Toggle
        <3> QED
            BY <3>1, MessagesMade
    <2>2. inbox' = Append(inbox, m) /\ m.kind = "state" /\ m.on = vpn'
        BY <1>1, <2>1 DEF Toggle
    <2> HIDE DEF M
    <2>3. Has(inbox', "state") /\ \A x \in Latest(inbox', "state") : x = m
        BY <1>q, <2>2, HasAppend, LatestAppend
    <2> QED
        BY <2>2, <2>3 DEF StateInv
<1>2. ASSUME NEW m \in M, m.kind # "state", inbox' = Append(inbox, m),
             UNCHANGED <<vpn, state>>, "staleState" \in raced => "staleState" \in raced'
      PROVE  StateInv'
    <2> HIDE DEF M
    <2>1. /\ Has(inbox', "state") <=> Has(inbox, "state")
          /\ Latest(inbox', "state") \subseteq Latest(inbox, "state")
        BY <1>2, <1>q, HasAppend, LatestAppend
    <2> QED
        BY <1>2, <2>1 DEF StateInv
<1>3. CASE SwitchProfile
    <2>1. PICK m \in M : m = [kind |-> "gotState", on |-> vpn]
        BY <1>q, MessagesMade
    <2>2. m.kind = "gotState"
        BY <2>1
    <2> QED
        BY <1>2, <1>3, <2>1, <2>2 DEF SwitchProfile
<1>4. CASE ReadProfile
    <2>1. PICK i \in DOMAIN reads :
              inbox' = Append(inbox, [kind |-> "profile", on |-> reads[i], profile |-> selected,
                                      choice |-> rows[selected]])
        BY <1>4 DEF ReadProfile
    <2>2. reads[i] \in BOOLEAN
        BY <2>1, QueueOps DEF Typed, QueueTypes
    <2>3. selected \in Profiles /\ rows[selected] \in ChoicesOf(Groups)
        BY DEF Typed, ValueTypes
    <2>4. PICK m \in M : m = [kind |-> "profile", on |-> reads[i], profile |-> selected,
                              choice |-> rows[selected]]
        BY <2>2, <2>3, MessagesMade
    <2>5. m.kind = "profile"
        BY <2>4
    <2>6. UNCHANGED <<vpn, state>> /\ ("staleState" \in raced => "staleState" \in raced')
        BY <1>4 DEF ReadProfile, Note
    <2> QED
        BY <1>2, <2>1, <2>4, <2>5, <2>6
<1>5. CASE StateEvent
    <2>1. /\ inbox # <<>> /\ Head(inbox).kind = "state" /\ inbox' = Tail(inbox)
          /\ state' = Head(inbox).on /\ vpn' = vpn
        BY <1>5 DEF StateEvent, EventState
    <2> HIDE DEF M
    <2>2. /\ Latest(inbox', "state") \subseteq Latest(inbox, "state")
          /\ ~Has(inbox', "state") => Head(inbox) \in Latest(inbox, "state")
        BY <1>q, <2>1, TakenOff
    <2> QED
        BY <2>1, <2>2 DEF StateInv
<1>6. ASSUME inbox # <<>>, Head(inbox).kind # "state", inbox' = Tail(inbox), vpn' = vpn,
             state' = state \/ "staleState" \in raced',
             "staleState" \in raced => "staleState" \in raced'
      PROVE  StateInv'
    <2> HIDE DEF M
    <2>1. /\ Latest(inbox', "state") \subseteq Latest(inbox, "state")
          /\ ~Has(inbox', "state") => ~Has(inbox, "state")
        BY <1>6, <1>q, TakenOff
    <2> QED
        BY <1>6, <2>1 DEF StateInv
<1>7. CASE GotState
    BY <1>6, <1>7 DEF GotState
<1>8. CASE LoadDone
    <2>1. /\ inbox # <<>> /\ Head(inbox).kind = "profile" /\ inbox' = Tail(inbox) /\ vpn' = vpn
          /\ state' = Head(inbox).on
        BY <1>8 DEF LoadDone
    <2>2. /\ Head(inbox).on # state => "staleState" \in raced'
          /\ "staleState" \in raced => "staleState" \in raced'
        BY <1>8 DEF LoadDone
    <2> QED
        BY <1>6, <2>1, <2>2
<1>9. ASSUME UNCHANGED <<vpn, inbox, state>>, "staleState" \in raced => "staleState" \in raced'
      PROVE  StateInv'
    BY <1>9 DEF StateInv
<1>10. CASE RunSave
    BY <1>9, <1>10 DEF RunSave, Note
<1>11. CASE ReplayAnswer \/ \E g \in Groups : ReplayPut(g)
    BY <1>9, <1>11 DEF ReplayAnswer, ReplayPut
<1>12. CASE SectionNext
    <2>1. CASE Rebuild
        BY <1>9, <2>1 DEF Rebuild, Note
    <2>2. CASE LoadGroups \/ PutArrives
        BY <1>9, <2>2 DEF LoadGroups, PutArrives
    <2>3. CASE PutFailed
        BY <1>9, <2>3 DEF PutFailed, Note
    <2> QED
        BY <1>12, <2>1, <2>2, <2>3 DEF SectionNext
<1>13. CASE \E g \in Groups : \E name \in Range(members[g]) : SelectProxy(g, name)
    BY <1>9, <1>13 DEF SelectProxy, Note
<1>14. CASE UNCHANGED vars
    BY <1>9, <1>14 DEF vars
<1> QED
    BY <1>1, <1>3, <1>4, <1>5, <1>7, <1>8, <1>10, <1>11, <1>12, <1>13, <1>14 DEF Next, HomeNext

LEMMA ProfileStep == Typed /\ ProfileInv /\ [Next]_vars => ProfileInv'
<1> SUFFICES ASSUME Typed, ProfileInv, [Next]_vars PROVE ProfileInv'
    OBVIOUS
<1> USE DEF uiVars, widgetVars, dbVars
<1> DEFINE M == Messages(Groups)
<1>q. /\ inbox \in Seq(M) /\ reads \in Seq(BOOLEAN) /\ vpn \in BOOLEAN
      /\ selected \in Profiles /\ rows[selected] \in ChoicesOf(Groups)
    BY DEF Typed, QueueTypes, ValueTypes
<1>t. inbox # <<>> => Head(inbox) \in M
    BY <1>q, QueueOps
<1>1. CASE Toggle
    <2>1. PICK m \in M : m = [kind |-> "state", on |-> vpn']
        <3>1. vpn' \in BOOLEAN
            BY <1>1, <1>q DEF Toggle
        <3> QED
            BY <3>1, MessagesMade
    <2>2. m.kind = "state" /\ inbox' = Append(inbox, m)
        BY <1>1, <2>1 DEF Toggle
    <2> HIDE DEF M
    <2>3. /\ Has(inbox', "gotState") <=> Has(inbox, "gotState")
          /\ Has(inbox', "profile") <=> Has(inbox, "profile")
          /\ Latest(inbox', "profile") \subseteq Latest(inbox, "profile")
        BY <1>q, <2>2, HasAppend, LatestAppend
    <2> QED
        BY <1>1, <2>3 DEF Toggle, ProfileInv
<1>2. CASE SwitchProfile
    <2>1. PICK m \in M : m = [kind |-> "gotState", on |-> vpn]
        BY <1>q, MessagesMade
    <2>2. m.kind = "gotState" /\ inbox' = Append(inbox, m)
        BY <1>2, <2>1 DEF SwitchProfile
    <2> HIDE DEF M
    <2>3. Has(inbox', "gotState")
        BY <1>q, <2>2, HasAppend
    <2> QED
        BY <2>3 DEF ProfileInv
<1>3. CASE ReadProfile
    <2>1. PICK i \in DOMAIN reads :
              inbox' = Append(inbox, [kind |-> "profile", on |-> reads[i], profile |-> selected,
                                      choice |-> rows[selected]])
        BY <1>3 DEF ReadProfile
    <2>2. reads[i] \in BOOLEAN
        BY <1>q, <2>1, QueueOps
    <2>3. PICK m \in M : m = [kind |-> "profile", on |-> reads[i], profile |-> selected,
                              choice |-> rows[selected]]
        BY <1>q, <2>2, MessagesMade
    <2>4. m.kind = "profile" /\ m.profile = selected /\ inbox' = Append(inbox, m)
        BY <2>1, <2>3
    <2> HIDE DEF M
    <2>5. Has(inbox', "profile") /\ \A x \in Latest(inbox', "profile") : x = m
        BY <1>q, <2>4, HasAppend, LatestAppend
    <2> QED
        BY <1>3, <2>4, <2>5 DEF ReadProfile, ProfileInv
<1>4. CASE GotState
    <2>1. inbox # <<>> /\ reads' = Append(reads, Head(inbox).on) /\ Head(inbox).on \in BOOLEAN
        BY <1>4, <1>t, MessageShapes DEF GotState
    <2>2. reads' # <<>>
        BY <1>q, <2>1, QueueOps
    <2> QED
        BY <2>2 DEF ProfileInv
<1>5. CASE StateEvent \/ LoadDone
    <2>1. /\ inbox # <<>> /\ inbox' = Tail(inbox) /\ UNCHANGED <<reads, selected>>
          /\ Head(inbox).kind # "gotState"
          /\ IF Head(inbox).kind = "profile" THEN profile' = Head(inbox).profile
             ELSE profile' = profile
        BY <1>5 DEF StateEvent, LoadDone
    <2> HIDE DEF M
    <2>2. /\ Latest(inbox', "profile") \subseteq Latest(inbox, "profile")
          /\ Has(inbox, "profile") => Has(inbox', "profile") \/ Head(inbox).kind = "profile"
          /\ ~Has(inbox', "profile") /\ Head(inbox).kind = "profile" =>
                 Head(inbox) \in Latest(inbox, "profile")
          /\ Has(inbox, "gotState") => Has(inbox', "gotState")
        BY <1>q, <2>1, TakenOff
    <2> QED
        BY <2>1, <2>2 DEF ProfileInv
<1>6. ASSUME UNCHANGED <<inbox, reads, selected, profile>> PROVE ProfileInv'
    BY <1>6 DEF ProfileInv
<1>7. CASE RunSave
    BY <1>6, <1>7 DEF RunSave
<1>8. CASE ReplayAnswer \/ \E g \in Groups : ReplayPut(g)
    BY <1>6, <1>8 DEF ReplayAnswer, ReplayPut
<1>9. CASE SectionNext
    BY <1>6, <1>9 DEF SectionNext, Rebuild, LoadGroups, PutArrives, PutFailed
<1>10. CASE \E g \in Groups : \E name \in Range(members[g]) : SelectProxy(g, name)
    BY <1>6, <1>10 DEF SelectProxy
<1>11. CASE UNCHANGED vars
    BY <1>6, <1>11 DEF vars
<1> QED
    BY <1>1, <1>2, <1>3, <1>4, <1>5, <1>7, <1>8, <1>9, <1>10, <1>11 DEF Next, HomeNext

\* The saves and the rows a load waits for, or the load that is queued.
LEMMA RowStep == Typed /\ RowInv /\ [Next]_vars => RowInv'
<1> SUFFICES ASSUME Typed, RowInv, [Next]_vars, "rowRace" \notin raced' PROVE RowInv'
    BY DEF RowInv
<1> USE DEF uiVars, widgetVars, dbVars
<1> DEFINE M == Messages(Groups)
<1>q. /\ inbox \in Seq(M) /\ reads \in Seq(BOOLEAN) /\ saves \in Seq(Saved(Groups))
      /\ vpn \in BOOLEAN /\ selected \in Profiles /\ rows \in [Profiles -> ChoicesOf(Groups)]
      /\ profile \in Profiles \cup {None}
    BY DEF Typed, QueueTypes, ValueTypes
<1>n. "rowRace" \notin raced
    <2>1. CASE StateEvent \/ LoadDone
        BY <2>1 DEF StateEvent, LoadDone
    <2>2. CASE RunSave \/ ReadProfile \/ Rebuild \/ PutFailed
        BY <2>2 DEF RunSave, ReadProfile, Rebuild, PutFailed, Note
    <2>3. CASE \E g \in Groups : \E name \in Range(members[g]) : SelectProxy(g, name)
        BY <2>3 DEF SelectProxy, Note
    <2>4. CASE \/ Toggle \/ SwitchProfile \/ GotState \/ ReplayAnswer \/ LoadGroups \/ PutArrives
               \/ UNCHANGED vars \/ \E g \in Groups : ReplayPut(g)
        BY <2>4 DEF Toggle, SwitchProfile, GotState, ReplayAnswer, LoadGroups, PutArrives,
                    ReplayPut, vars
    <2> QED
        BY <2>1, <2>2, <2>3, <2>4 DEF Next, HomeNext, SectionNext
<1>i. /\ profile # None => WillHold(saves, rows, profile, selections)
      /\ \A i \in 1..Len(inbox) : inbox[i].kind = "profile" =>
             WillHold(saves, rows, inbox[i].profile, inbox[i].choice)
    BY <1>n DEF RowInv
\* Another message in the queue.
<1>1. ASSUME NEW m \in M, inbox' = Append(inbox, m), UNCHANGED <<saves, rows, profile, selections>>,
             m.kind = "profile" => WillHold(saves, rows, m.profile, m.choice)
      PROVE  RowInv'
    <2> HIDE DEF M
    <2>1. /\ Len(inbox) \in Nat /\ Len(inbox') = Len(inbox) + 1 /\ inbox'[Len(inbox) + 1] = m
          /\ \A i \in 1..Len(inbox) : inbox'[i] = inbox[i]
        BY <1>1, <1>q, QueueOps
    <2>2. ASSUME NEW i \in 1..Len(inbox'), inbox'[i].kind = "profile"
          PROVE  WillHold(saves, rows, inbox'[i].profile, inbox'[i].choice)
        <3>1. i \in 1..Len(inbox) \/ i = Len(inbox) + 1
            BY <2>1
        <3> QED
            BY <1>1, <1>i, <2>1, <2>2, <3>1
    <2> QED
        BY <1>1, <1>i, <2>2 DEF RowInv
<1>2. CASE Toggle
    <2>1. PICK m \in M : m = [kind |-> "state", on |-> vpn']
        <3>1. vpn' \in BOOLEAN
            BY <1>2, <1>q DEF Toggle
        <3> QED
            BY <3>1, MessagesMade
    <2>2. m.kind = "state"
        BY <2>1
    <2> QED
        BY <1>1, <1>2, <2>1, <2>2 DEF Toggle
<1>3. CASE SwitchProfile
    <2>1. PICK m \in M : m = [kind |-> "gotState", on |-> vpn]
        BY <1>q, MessagesMade
    <2>2. m.kind = "gotState"
        BY <2>1
    <2> QED
        BY <1>1, <1>3, <2>1, <2>2 DEF SwitchProfile
\* A load reads a row for which no save waits.
<1>4. CASE ReadProfile
    <2>1. PICK i \in DOMAIN reads :
              /\ inbox' = Append(inbox, [kind |-> "profile", on |-> reads[i], profile |-> selected,
                                         choice |-> rows[selected]])
              /\ Note("rowRace", i > 1 \/ \E j \in DOMAIN saves : saves[j].profile = selected)
        BY <1>4 DEF ReadProfile
    <2>2. reads[i] \in BOOLEAN /\ rows[selected] \in ChoicesOf(Groups)
        BY <1>q, <2>1, QueueOps
    <2>3. PICK m \in M : m = [kind |-> "profile", on |-> reads[i], profile |-> selected,
                              choice |-> rows[selected]]
        BY <1>q, <2>2, MessagesMade
    <2>4. m.profile = selected /\ m.choice = rows[selected] /\ inbox' = Append(inbox, m)
        BY <2>1, <2>3
    <2>5. \A j \in 1..Len(saves) : saves[j].profile # selected
        BY <1>q, <2>1, QueueOps DEF Note
    <2>6. WillHold(saves, rows, m.profile, m.choice)
        BY <2>4, <2>5 DEF WillHold
    <2> QED
        BY <1>1, <1>4, <2>4, <2>6 DEF ReadProfile
\* The first message is handled.
<1>5. ASSUME inbox # <<>>, inbox' = Tail(inbox), UNCHANGED <<saves, rows>>,
             profile' # None => WillHold(saves, rows, profile', selections')
      PROVE  RowInv'
    <2> HIDE DEF M
    <2>1. /\ Len(inbox) \in Nat /\ Len(inbox') = Len(inbox) - 1
          /\ \A i \in 1..(Len(inbox) - 1) : inbox'[i] = inbox[i + 1]
        BY <1>5, <1>q, QueueOps
    <2>2. \A i \in 1..Len(inbox') : i + 1 \in 1..Len(inbox) /\ inbox'[i] = inbox[i + 1]
        BY <2>1
    <2>3. \A i \in 1..Len(inbox') : inbox'[i].kind = "profile" =>
              WillHold(saves, rows, inbox'[i].profile, inbox'[i].choice)
        BY <1>i, <2>2
    <2> QED
        BY <1>5, <2>3 DEF RowInv
<1>6. CASE StateEvent \/ GotState
    BY <1>5, <1>6, <1>i DEF StateEvent, GotState
<1>7. CASE LoadDone
    <2>1. /\ inbox # <<>> /\ Head(inbox).kind = "profile" /\ inbox' = Tail(inbox)
          /\ UNCHANGED <<saves, rows>> /\ profile' = Head(inbox).profile
          /\ selections' = IF Head(inbox).profile # profile THEN Head(inbox).choice ELSE selections
        BY <1>7 DEF LoadDone, LoadAdopts
    <2>2. 1 \in 1..Len(inbox) /\ inbox[1] = Head(inbox)
        BY <1>q, <2>1, QueueOps
    <2>3. WillHold(saves, rows, Head(inbox).profile, Head(inbox).choice)
        BY <1>i, <2>1, <2>2
    <2>4. profile' # None => WillHold(saves, rows, profile', selections')
        BY <1>i, <2>1, <2>3
    <2> QED
        BY <1>5, <2>1, <2>4
<1>8. CASE RunSave
    <2>1. PICK i \in DOMAIN saves :
              /\ rows' = [rows EXCEPT ![saves[i].profile] = saves[i].choice]
              /\ saves' = RemoveAt(saves, i) /\ Note("rowRace", i > 1)
        BY <1>8 DEF RunSave
    <2>2. i \in 1..Len(saves) /\ Len(saves) \in Nat /\ ~(i > 1)
        BY <1>q, <2>1, QueueOps DEF Note
    <2>3. i = 1 /\ 1 \in 1..Len(saves)
        BY <2>2
    <2>4. saves[1].profile \in DOMAIN rows /\ DOMAIN rows = Profiles
        BY <1>q, <2>3, QueueOps, MessageShapes
    <2>5. \A p \in Profiles : \A c : WillHold(saves, rows, p, c) => WillHold(saves', rows', p, c)
        <3> SUFFICES ASSUME NEW p \in Profiles, NEW c, WillHold(saves, rows, p, c)
                     PROVE  WillHold(saves', rows', p, c)
            OBVIOUS
        <3>1. WillHold(RemoveAt(saves, 1), [rows EXCEPT ![saves[1].profile] = saves[1].choice],
                       p, c)
            BY <1>q, <2>3, <2>4, SaveRun
        <3> QED
            BY <2>1, <2>3, <3>1
    <2>6. \A k \in 1..Len(inbox) : inbox[k].kind = "profile" => inbox[k].profile \in Profiles
        BY <1>q, QueueOps, MessageShapes
    <2> QED
        BY <1>8, <1>i, <1>q, <2>5, <2>6 DEF RunSave, RowInv
\* A choice is kept and its save queued: no load of the profile is on its way.
<1>9. ASSUME NEW choice \in ChoicesOf(Groups), profile # None, selections' = choice,
             Save(choice), Note("rowRace", RowOnItsWay), UNCHANGED <<rows, inbox, profile>>
      PROVE  RowInv'
    <2>1. PICK s \in Saved(Groups) : s = [profile |-> profile, choice |-> choice]
        BY <1>9, <1>q, MessagesMade
    <2>2. saves' = Append(saves, s) /\ s.profile = profile /\ s.choice = choice
        BY <1>9, <2>1 DEF Save
    <2>3. /\ WillHold(saves', rows, profile, choice)
          /\ \A p, c : p # profile /\ WillHold(saves, rows, p, c) => WillHold(saves', rows, p, c)
        BY <1>q, <2>2, SaveQueued
    <2>4. \A i \in 1..Len(inbox) : inbox[i].kind = "profile" => inbox[i].profile # profile
        BY <1>9, <1>q, QueueOps DEF Note, RowOnItsWay
    <2> QED
        BY <1>9, <1>i, <2>3, <2>4 DEF RowInv
<1>10. CASE \E g \in Groups : \E name \in Range(members[g]) : SelectProxy(g, name)
    <2>1. PICK g \in Groups : \E name \in Range(members[g]) : SelectProxy(g, name)
        BY <1>10
    <2>a. PICK name \in Range(members[g]) : SelectProxy(g, name)
        BY <2>1
    <2>2. [shown EXCEPT ![g] = name] \in ChoicesOf(Groups)
        BY <2>a, Chosen DEF Typed, ValueTypes, TextTypes
    <2>3. shown' = [shown EXCEPT ![g] = name] /\ selections' = shown' /\ Save(shown')
        BY <2>a DEF SelectProxy, OnSelectionsChanged
    <2> QED
        BY <1>9, <2>a, <2>2, <2>3 DEF SelectProxy
<1>11. CASE PutFailed
    <2>1. PICK p \in puts : shown' = TakenBack(p)
        BY <1>11 DEF PutFailed
    <2>2. p \in Requests(Groups) /\ profile # None
        BY <2>1 DEF Typed, ValueTypes
    <2>3. TakenBack(p) \in ChoicesOf(Groups)
        BY <2>2, RequestShapes, Chosen DEF TakenBack, Typed, ValueTypes
    <2>4. /\ selections' = shown' /\ Save(shown') /\ Note("rowRace", RowOnItsWay)
          /\ UNCHANGED <<rows, inbox, profile>>
        BY <1>11 DEF PutFailed, OnSelectionsChanged
    <2> QED
        BY <1>9, <2>1, <2>2, <2>3, <2>4
<1>12. ASSUME UNCHANGED <<saves, rows, inbox, profile, selections>> PROVE RowInv'
    BY <1>12, <1>i DEF RowInv
<1>13. CASE ReplayAnswer \/ \E g \in Groups : ReplayPut(g)
    BY <1>12, <1>13 DEF ReplayAnswer, ReplayPut
<1>14. CASE Rebuild \/ LoadGroups \/ PutArrives
    BY <1>12, <1>14 DEF Rebuild, LoadGroups, PutArrives
<1>15. CASE UNCHANGED vars
    BY <1>12, <1>15 DEF vars
<1> QED
    BY <1>2, <1>3, <1>4, <1>6, <1>7, <1>8, <1>10, <1>11, <1>13, <1>14, <1>15
    DEF Next, HomeNext, SectionNext

-----------------------------------------------------------------------------
(* The section and the home screen. *)

LEMMA ShowsStep == Typed /\ SectionShowsHome /\ [Next]_vars => SectionShowsHome'
<1> SUFFICES ASSUME Typed, SectionShowsHome, [Next]_vars PROVE SectionShowsHome'
    OBVIOUS
<1> USE DEF uiVars, widgetVars, dbVars
<1>g. Groups' = Groups
    BY DEF Next, vars, Groups
\* What the section shows, and what the home screen keeps, stay.
<1>1. ASSUME UNCHANGED <<profile, selections, widgetYaml>>,
             "skipped" \in raced => "skipped" \in raced',
             \A g \in Groups : shown[g] # None => shown'[g] = shown[g]
      PROVE  SectionShowsHome'
    BY <1>1, <1>g DEF SectionShowsHome
<1>2. CASE Toggle \/ SwitchProfile \/ RunSave \/ ReadProfile
    BY <1>1, <1>2 DEF Toggle, SwitchProfile, RunSave, ReadProfile, Note
<1>3. CASE StateEvent \/ GotState \/ ReplayAnswer \/ PutArrives \/ \E g \in Groups : ReplayPut(g)
    BY <1>1, <1>3 DEF StateEvent, GotState, ReplayAnswer, PutArrives, ReplayPut
\* A load of another profile waits for the section's rebuild.
<1>4. CASE LoadDone
    <2>1. PICK m : /\ profile' = m.profile /\ selections' = LoadAdopts(m)
                   /\ UNCHANGED <<widgetYaml, shown>>
                   /\ "skipped" \in raced => "skipped" \in raced'
                   /\ m.profile # profile /\ widgetYaml # profile => "skipped" \in raced'
        BY <1>4 DEF LoadDone
    <2>2. CASE m.profile = profile
        BY <1>1, <2>1, <2>2 DEF LoadAdopts
    <2>3. CASE m.profile # profile
        BY <2>1, <2>3 DEF SectionShowsHome
    <2> QED
        BY <2>2, <2>3
\* The rebuild takes the text and, unless it also turns on, the choices.
<1>5. CASE Rebuild
    <2>1. /\ widgetYaml' = profile /\ UNCHANGED <<profile, selections>>
          /\ IF ~(state /\ ~widgetOn) /\ Reparse THEN shown' = selections ELSE shown' = shown
          /\ Note("skipped", state /\ ~widgetOn /\ profile # widgetYaml)
        BY <1>5 DEF Rebuild
    <2>2. CASE profile = widgetYaml
        BY <1>1, <2>1, <2>2 DEF Reparse, Note
    <2>3. CASE profile # widgetYaml /\ state /\ ~widgetOn
        BY <2>1, <2>3 DEF SectionShowsHome, Note
    <2>4. CASE profile # widgetYaml /\ ~(state /\ ~widgetOn)
        BY <2>1, <2>4 DEF SectionShowsHome, Reparse
    <2> QED
        BY <2>2, <2>3, <2>4
<1>6. CASE LoadGroups
    <2>1. now \in [Groups -> Proxies] /\ shown \in ChoicesOf(Groups)
        BY DEF Typed, ValueTypes
    <2>2. [g \in Groups |-> Default(g)] \in [Groups -> Proxies]
        BY DEF Typed, TextTypes
    <2>3. \A g \in Groups : shown[g] # None => shown'[g] = shown[g]
        BY <1>6, <2>1, <2>2, PutsIfAbsent DEF LoadGroups
    <2> QED
        BY <1>1, <1>6, <2>3 DEF LoadGroups
\* A tap or a refusal keeps what is shown.
<1>7. ASSUME selections' = shown' PROVE SectionShowsHome'
    BY <1>7 DEF SectionShowsHome
<1>8. CASE \E g \in Groups : \E name \in Range(members[g]) : SelectProxy(g, name)
    BY <1>7, <1>8 DEF SelectProxy, OnSelectionsChanged
<1>9. CASE PutFailed
    BY <1>7, <1>9 DEF PutFailed, OnSelectionsChanged
<1>10. CASE UNCHANGED vars
    BY <1>1, <1>10 DEF vars
<1> QED
    BY <1>2, <1>3, <1>4, <1>5, <1>6, <1>8, <1>9, <1>10 DEF Next, HomeNext, SectionNext

-----------------------------------------------------------------------------
(* What the engine uses. *)

\* In a queue of state events: only where the one before was off, or where the
\* reader is not surely on, is an event on.
Turns(q, on) ==
    /\ \A i \in 1..Len(q) :
           (q[i].kind = "state" /\ q[i].on /\ \A k \in 1..Len(q) : k < i => q[k].kind # "state") =>
               ~on
    /\ \A i, k \in 1..Len(q) :
           (/\ i < k /\ q[i].kind = "state" /\ q[k].kind = "state" /\ q[k].on
            /\ \A j \in 1..Len(q) : i < j /\ j < k => q[j].kind # "state") => ~q[i].on

LEMMA TurnsAppend ==
    ASSUME NEW X, NEW q \in Seq(X), NEW m \in X, NEW on, Turns(q, on),
           m.kind = "state" /\ m.on => /\ \A x \in Latest(q, "state") : ~x.on
                                       /\ ~Has(q, "state") => ~on
    PROVE  Turns(Append(q, m), on)
<1> DEFINE r == Append(q, m)
<1>1. /\ Len(q) \in Nat /\ Len(r) = Len(q) + 1 /\ r[Len(q) + 1] = m
      /\ \A i \in 1..Len(q) : r[i] = q[i]
    BY QueueOps
<1> HIDE DEF r
<1>2. /\ \A i \in 1..Len(q) : i \in 1..Len(r) /\ i < Len(q) + 1
      /\ \A i \in 1..Len(r) : i \in 1..Len(q) \/ i = Len(q) + 1
    BY <1>1
<1>3. ASSUME NEW i \in 1..Len(r), r[i].kind = "state", r[i].on,
             \A k \in 1..Len(r) : k < i => r[k].kind # "state"
      PROVE  ~on
    <2>1. CASE i \in 1..Len(q)
        <3>1. \A k \in 1..Len(q) : k < i => q[k].kind # "state"
            BY <1>1, <1>2, <1>3
        <3> QED
            BY <1>1, <1>3, <2>1, <3>1 DEF Turns
    <2>2. CASE i = Len(q) + 1
        <3>1. ~Has(q, "state")
            BY <1>1, <1>2, <1>3, <2>2 DEF Has
        <3> QED
            BY <1>1, <1>3, <2>2, <3>1
    <2> QED
        BY <1>2, <2>1, <2>2
<1>4. ASSUME NEW i \in 1..Len(r), NEW k \in 1..Len(r), i < k, r[i].kind = "state",
             r[k].kind = "state", r[k].on,
             \A j \in 1..Len(r) : i < j /\ j < k => r[j].kind # "state"
      PROVE  ~r[i].on
    <2>1. i \in 1..Len(q)
        BY <1>1, <1>4
    <2>2. CASE k \in 1..Len(q)
        <3>1. \A j \in 1..Len(q) : i < j /\ j < k => q[j].kind # "state"
            BY <1>1, <1>2, <1>4
        <3>2. q[i] = r[i] /\ q[k] = r[k]
            BY <1>1, <2>1, <2>2
        <3> QED
            BY <1>4, <2>1, <2>2, <3>1, <3>2 DEF Turns
    <2>3. CASE k = Len(q) + 1
        <3>1. \A j \in 1..Len(q) : i < j => q[j].kind # "state"
            BY <1>1, <1>2, <1>4, <2>3
        <3>2. q[i] = r[i] /\ m = r[k]
            BY <1>1, <2>1, <2>3
        <3>3. q[i] \in Latest(q, "state")
            BY <1>4, <2>1, <3>1, <3>2 DEF Latest
        <3> QED
            BY <1>4, <3>2, <3>3
    <2> QED
        BY <1>2, <2>2, <2>3
<1> QED
    BY <1>3, <1>4 DEF Turns, r

\* The first event is handled, if it is one.
LEMMA TurnsTail ==
    ASSUME NEW X, NEW q \in Seq(X), q # <<>>, NEW on, Turns(q, on)
    PROVE  /\ Head(q).kind = "state" /\ Head(q).on => ~on
           /\ Head(q).kind = "state" => Turns(Tail(q), Head(q).on)
           /\ Head(q).kind # "state" => Turns(Tail(q), on)
<1> DEFINE r == Tail(q)
<1>1. /\ Len(q) \in Nat /\ Len(q) >= 1 /\ Len(r) = Len(q) - 1 /\ Head(q) = q[1]
      /\ \A i \in 1..(Len(q) - 1) : r[i] = q[i + 1]
    BY QueueOps
<1> HIDE DEF r
<1>2. /\ \A i \in 1..Len(r) : i + 1 \in 1..Len(q) /\ r[i] = q[i + 1] /\ 1 < i + 1
      /\ 1 \in 1..Len(q) /\ \A i \in 1..Len(q) : ~(i < 1) /\ (i = 1 \/ 1 < i)
    BY <1>1
<1>a. \A k \in 1..Len(q) : 1 < k => k - 1 \in 1..Len(r) /\ r[k - 1] = q[k]
    <2> SUFFICES ASSUME NEW k \in 1..Len(q), 1 < k PROVE k - 1 \in 1..Len(r) /\ r[k - 1] = q[k]
        OBVIOUS
    <2>1. k - 1 \in 1..Len(r) /\ (k - 1) + 1 = k
        BY <1>1
    <2> QED
        BY <1>2, <2>1
<1>3. ASSUME Head(q).kind = "state", Head(q).on PROVE ~on
    BY <1>1, <1>2, <1>3 DEF Turns
\* Two events that follow each other in the tail follow each other.
<1>4. ASSUME NEW i \in 1..Len(r), NEW k \in 1..Len(r), i < k, r[i].kind = "state",
             r[k].kind = "state", r[k].on,
             \A j \in 1..Len(r) : i < j /\ j < k => r[j].kind # "state"
      PROVE  ~r[i].on
    <2>1. ASSUME NEW j \in 1..Len(q), i + 1 < j, j < k + 1 PROVE q[j].kind # "state"
        <3>1. 1 < j /\ i < j - 1 /\ j - 1 < k
            BY <2>1
        <3> QED
            BY <1>a, <1>4, <3>1
    <2>2. i + 1 \in 1..Len(q) /\ k + 1 \in 1..Len(q) /\ r[i] = q[i + 1] /\ r[k] = q[k + 1]
        BY <1>2
    <2>3. i + 1 < k + 1
        BY <1>4
    <2> QED
        BY <1>4, <2>1, <2>2, <2>3 DEF Turns
\* The first one of the tail.
<1>5. ASSUME NEW i \in 1..Len(r), r[i].kind = "state", r[i].on,
             \A k \in 1..Len(r) : k < i => r[k].kind # "state"
      PROVE  IF Head(q).kind = "state" THEN ~Head(q).on ELSE ~on
    <2>1. ASSUME NEW j \in 1..Len(q), 1 < j, j < i + 1 PROVE q[j].kind # "state"
        <3>1. j - 1 < i
            BY <2>1
        <3> QED
            BY <1>a, <1>5, <2>1, <3>1
    <2>2. i + 1 \in 1..Len(q) /\ r[i] = q[i + 1] /\ 1 < i + 1
        BY <1>2
    <2>3. CASE Head(q).kind = "state"
        BY <1>1, <1>2, <1>5, <2>1, <2>2, <2>3 DEF Turns
    <2>4. CASE Head(q).kind # "state"
        <3>1. \A j \in 1..Len(q) : j < i + 1 => q[j].kind # "state"
            BY <1>1, <1>2, <2>1, <2>4
        <3> QED
            BY <1>5, <2>2, <2>4, <3>1 DEF Turns
    <2> QED
        BY <2>3, <2>4
<1> QED
    BY <1>3, <1>4, <1>5 DEF Turns, r

\* The home screen is surely on when no load has brought another state.
SurelyOn == state /\ "staleState" \notin raced
TurnsInv == Turns(inbox, SurelyOn)

LEMMA TurnsInit == Init => TurnsInv
<1> SUFFICES ASSUME Init PROVE TurnsInv
    OBVIOUS
<1> DEFINE a == [kind |-> "gotState", on |-> vpn]
           b == [kind |-> "state", on |-> vpn]
<1>1. inbox = <<a, b>> /\ a.kind = "gotState" /\ ~state
    BY DEF Init
<1> HIDE DEF a, b
<1>2. inbox[1] = a /\ Len(inbox) = 2
    BY <1>1
<1>3. \A i, k \in 1..2 : i < k => i = 1
    OBVIOUS
<1> QED
    BY <1>1, <1>2, <1>3 DEF TurnsInv, Turns, SurelyOn

LEMMA TurnsStep == Typed /\ StateInv /\ TurnsInv /\ [Next]_vars => TurnsInv'
<1> SUFFICES ASSUME Typed, StateInv, TurnsInv, [Next]_vars PROVE TurnsInv'
    OBVIOUS
<1> USE DEF uiVars, widgetVars, dbVars
<1> DEFINE M == Messages(Groups)
<1>q. inbox \in Seq(M) /\ vpn \in BOOLEAN
    BY DEF Typed, QueueTypes, ValueTypes
<1>s. ASSUME NEW q, NEW on, NEW off, Turns(q, on), off => on PROVE Turns(q, off)
    BY <1>s DEF Turns
<1>1. CASE Toggle
    <2>1. PICK m \in M : m = [kind |-> "state", on |-> vpn']
        <3>1. vpn' \in BOOLEAN
            BY <1>1, <1>q DEF Toggle
        <3> QED
            BY <3>1, MessagesMade
    <2>2. inbox' = Append(inbox, m) /\ (m.on => ~vpn) /\ SurelyOn' = SurelyOn
        BY <1>1, <1>q, <2>1 DEF Toggle, SurelyOn
    <2>3. m.on => /\ \A x \in Latest(inbox, "state") : ~x.on
                  /\ ~Has(inbox, "state") => ~SurelyOn
        BY <2>2 DEF StateInv, SurelyOn
    <2> HIDE DEF M
    <2>4. Turns(Append(inbox, m), SurelyOn)
        BY <1>q, <2>3, TurnsAppend DEF TurnsInv
    <2> QED
        BY <2>2, <2>4 DEF TurnsInv
<1>2. ASSUME NEW m \in M, m.kind # "state", inbox' = Append(inbox, m), SurelyOn' => SurelyOn
      PROVE  TurnsInv'
    <2> HIDE DEF M
    <2>1. Turns(Append(inbox, m), SurelyOn)
        BY <1>q, <1>2, TurnsAppend DEF TurnsInv
    <2> QED
        BY <1>2, <1>s, <2>1 DEF TurnsInv
<1>3. CASE SwitchProfile
    <2>1. PICK m \in M : m = [kind |-> "gotState", on |-> vpn]
        BY <1>q, MessagesMade
    <2>2. m.kind = "gotState" /\ (SurelyOn' => SurelyOn)
        BY <1>3, <2>1 DEF SwitchProfile, SurelyOn
    <2> QED
        BY <1>2, <1>3, <2>1, <2>2 DEF SwitchProfile
<1>4. CASE ReadProfile
    <2>1. PICK i \in DOMAIN reads :
              inbox' = Append(inbox, [kind |-> "profile", on |-> reads[i], profile |-> selected,
                                      choice |-> rows[selected]])
        BY <1>4 DEF ReadProfile
    <2>2. reads[i] \in BOOLEAN /\ selected \in Profiles /\ rows[selected] \in ChoicesOf(Groups)
        BY <2>1, QueueOps DEF Typed, QueueTypes, ValueTypes
    <2>3. PICK m \in M : m = [kind |-> "profile", on |-> reads[i], profile |-> selected,
                              choice |-> rows[selected]]
        BY <2>2, MessagesMade
    <2>4. m.kind = "profile" /\ (SurelyOn' => SurelyOn)
        BY <1>4, <2>3 DEF ReadProfile, Note, SurelyOn
    <2> QED
        BY <1>2, <2>1, <2>3, <2>4
<1>5. CASE StateEvent
    <2>1. /\ inbox # <<>> /\ Head(inbox).kind = "state" /\ inbox' = Tail(inbox)
          /\ SurelyOn' => Head(inbox).on
        BY <1>5 DEF StateEvent, EventState, SurelyOn
    <2> HIDE DEF M
    <2>2. Turns(Tail(inbox), Head(inbox).on)
        BY <1>q, <2>1, TurnsTail DEF TurnsInv
    <2> QED
        BY <1>s, <2>1, <2>2 DEF TurnsInv
<1>6. ASSUME inbox # <<>>, Head(inbox).kind # "state", inbox' = Tail(inbox), SurelyOn' => SurelyOn
      PROVE  TurnsInv'
    <2> HIDE DEF M
    <2>1. Turns(Tail(inbox), SurelyOn)
        BY <1>q, <1>6, TurnsTail DEF TurnsInv
    <2> QED
        BY <1>6, <1>s, <2>1 DEF TurnsInv
<1>7. CASE GotState
    BY <1>6, <1>7 DEF GotState, SurelyOn
<1>8. CASE LoadDone
    <2>1. /\ inbox # <<>> /\ Head(inbox).kind = "profile" /\ inbox' = Tail(inbox)
          /\ state' # state => "staleState" \in raced'
          /\ "staleState" \in raced => "staleState" \in raced'
        BY <1>8 DEF LoadDone
    <2> QED
        BY <1>6, <2>1 DEF SurelyOn
<1>9. ASSUME UNCHANGED inbox, SurelyOn' => SurelyOn PROVE TurnsInv'
    BY <1>9, <1>s DEF TurnsInv
<1>10. CASE RunSave
    BY <1>9, <1>10 DEF RunSave, Note, SurelyOn
<1>11. CASE ReplayAnswer \/ \E g \in Groups : ReplayPut(g)
    BY <1>9, <1>11 DEF ReplayAnswer, ReplayPut, SurelyOn
<1>12. CASE SectionNext
    <2>1. CASE Rebuild
        BY <1>9, <2>1 DEF Rebuild, Note, SurelyOn
    <2>2. CASE LoadGroups \/ PutArrives
        BY <1>9, <2>2 DEF LoadGroups, PutArrives, SurelyOn
    <2>3. CASE PutFailed
        BY <1>9, <2>3 DEF PutFailed, Note, SurelyOn
    <2> QED
        BY <1>12, <2>1, <2>2, <2>3 DEF SectionNext
<1>13. CASE \E g \in Groups : \E name \in Range(members[g]) : SelectProxy(g, name)
    BY <1>9, <1>13 DEF SelectProxy, Note, SurelyOn
<1>14. CASE UNCHANGED vars
    BY <1>9, <1>14 DEF vars, SurelyOn
<1> QED
    BY <1>1, <1>3, <1>4, <1>5, <1>7, <1>8, <1>10, <1>11, <1>12, <1>13, <1>14 DEF Next, HomeNext

\* The members of a group that a replay asks for; of texts, none other counts.
Usable(g) == {v \in Range(members[g]) : ~ResolvesToBypass(Head(members[g]))}

\* The engine uses the choice kept for g, or a request is on its way.
Awaited(g) ==
    \/ replaying.at = "asked" \/ g \in replaying.todo
    \/ now[g] = selections[g] \/ \E p \in puts : p.group = g

\* While requests of the section are on their way, no replay is: what is shown is
\* kept, and a refusal goes back to what the engine uses.
PutInv(U, g) ==
    puts # {} =>
        /\ replaying = Idle
        /\ selections[g] # None /\ shown[g] = selections[g]
        /\ \A p, q \in puts : p.group = g /\ q.group = g => p = q
        /\ \A p \in puts : p.group = g =>
               /\ p.name = selections[g]
               /\ p.kept /\ p.prev \in U => now[g] = p.prev
GroupInv(U, g) == (selections[g] \in U => Awaited(g)) /\ PutInv(U, g)

\* The home screen has taken notice of the engine, and no load is behind an event.
Undisturbed ==
    /\ vpn /\ ~Has(inbox, "state")
    /\ "staleState" \notin raced /\ "skipped" \notin raced
EngineInv == Undisturbed => \A g \in Groups \ missed : GroupInv(Usable(g), g)

LEMMA UsableStays ==
    ASSUME members' = members, NEW g
    PROVE  Usable(g)' = Usable(g)
<1>1. Groups' = Groups
    BY DEF Groups
<1>2. \A n : ResolvesToBypass(n)' = ResolvesToBypass(n)
    BY <1>1 DEF ResolvesToBypass
<1>3. \A n : ResolvesToBypass(n)' <=> ResolvesToBypass(n)
    BY <1>2
<1> QED
    BY <1>3 DEF Usable

\* The event that the engine has started is followed by a replay.
LEMMA EventReplays ==
    ASSUME Typed, StateInv, TurnsInv, StateEvent, Undisturbed', NEW g \in Groups, g \notin missed',
           NEW U \in SUBSET Proxies
    PROVE  GroupInv(U, g)'
<1> DEFINE M == Messages(Groups)
<1>1. /\ inbox # <<>> /\ Head(inbox).kind = "state" /\ inbox' = Tail(inbox)
      /\ UNCHANGED <<vpn, selections, puts>>
      /\ IF ~state /\ Head(inbox).on THEN Replay(selections) ELSE UNCHANGED replaying
      /\ Miss(Groups, "staleState" \in raced \/ (~state /\ Head(inbox).on /\ LeftOut))
    BY DEF StateEvent, uiVars
<1>2. vpn /\ ~Has(Tail(inbox), "state") /\ inbox \in Seq(M)
    BY <1>1 DEF Undisturbed, Typed, QueueTypes
<1> HIDE DEF M
<1>3. Head(inbox) \in Latest(inbox, "state") /\ (Head(inbox).on => ~SurelyOn)
    BY <1>1, <1>2, TakenOff, TurnsTail DEF TurnsInv
<1>4. Head(inbox).on /\ ~SurelyOn
    BY <1>2, <1>3 DEF StateInv
<1>5. "staleState" \notin raced /\ ~state /\ ~LeftOut
    BY <1>1, <1>4 DEF Miss, SurelyOn
<1>6. puts' = {} /\ replaying = Idle /\ Replay(selections)
    BY <1>1, <1>4, <1>5 DEF LeftOut
<1>7. CASE selections = NoChoices
    BY <1>1, <1>6, <1>7, ChoiceAssumption DEF NoChoices, GroupInv, PutInv
<1>8. CASE selections # NoChoices
    BY <1>6, <1>8 DEF Replay, GroupInv, PutInv, Awaited
<1> QED
    BY <1>7, <1>8

\* The other profile's choices are replayed too.
LEMMA LoadReplays ==
    ASSUME Typed, LoadDone, state, "staleState" \notin raced', NEW g \in Groups, g \notin missed',
           NEW U \in SUBSET Proxies, GroupInv(U, g)
    PROVE  GroupInv(U, g)'
<1>1. PICK m : /\ state' = m.on /\ selections' = LoadAdopts(m)
               /\ IF m.profile # profile /\ m.on THEN Replay(m.choice) ELSE UNCHANGED replaying
               /\ m.on # state => "staleState" \in raced'
               /\ Miss(Groups, ((m.profile # profile /\ m.on) /\ LeftOut)
                               \/ (selections' # selections /\ puts # {}))
               /\ UNCHANGED <<now, puts, shown>>
               /\ m = Head(inbox)
    BY DEF LoadDone, widgetVars
<1>2. CASE m.profile = profile
    BY <1>1, <1>2 DEF LoadAdopts, GroupInv, PutInv, Awaited
<1>3. CASE m.profile # profile
    <2>1. m.on
        BY <1>1
    <2>2. puts' = {} /\ replaying = Idle /\ Replay(m.choice) /\ selections' = m.choice
        BY <1>1, <1>3, <2>1 DEF Miss, LeftOut, LoadAdopts
    <2>3. CASE m.choice = NoChoices
        BY <2>2, <2>3, ChoiceAssumption DEF NoChoices, GroupInv, PutInv
    <2>4. CASE m.choice # NoChoices
        BY <2>2, <2>4 DEF Replay, GroupInv, PutInv, Awaited
    <2> QED
        BY <2>3, <2>4
<1> QED
    BY <1>2, <1>3

LEMMA ReplayReaches ==
    ASSUME Typed, NEW g \in Groups, g \notin missed', NEW U \in SUBSET Proxies, GroupInv(U, g),
           U = Usable(g), vpn,
           ReplayAnswer \/ \E h \in Groups : ReplayPut(h)
    PROVE  GroupInv(U, g)'
<1>t. now \in [Groups -> Proxies] /\ replaying \in Replays(Groups)
    BY DEF Typed, ValueTypes
<1>1. CASE ReplayAnswer
    <2>1. /\ replaying.at = "asked" /\ UNCHANGED <<now, selections, puts, shown>>
          /\ \/ replaying' = IF Replayed(selections) = {} THEN Idle
                             ELSE [at |-> "putting", todo |-> Replayed(selections),
                                   choice |-> selections]
             \/ Miss(Groups, TRUE)
        BY <1>1 DEF ReplayAnswer, uiVars, widgetVars
    <2>2. puts = {}
        BY <2>1 DEF GroupInv, PutInv, Idle
    <2>3. replaying' = IF Replayed(selections) = {} THEN Idle
                       ELSE [at |-> "putting", todo |-> Replayed(selections), choice |-> selections]
        BY <2>1 DEF Miss
    <2>4. selections[g] \in U => g \in Replayed(selections)
        BY DEF Usable, Replayed
    <2>5. selections[g] \in U => g \in replaying'.todo
        BY <2>3, <2>4
    <2> QED
        BY <2>1, <2>2, <2>5 DEF GroupInv, PutInv, Awaited
<1>2. ASSUME NEW h \in Groups, ReplayPut(h) PROVE GroupInv(U, g)'
    <2>1. /\ replaying.at = "putting" /\ h \in replaying.todo
          /\ replaying' = IF replaying.todo = {h} THEN Idle
                          ELSE [replaying EXCEPT !.todo = replaying.todo \ {h}]
          /\ \/ /\ now' = [now EXCEPT ![h] = replaying.choice[h]]
                /\ Miss({h}, replaying.choice[h] # selections[h])
             \/ now' = now /\ Miss({h}, TRUE)
          /\ UNCHANGED <<selections, puts, shown>>
        BY <1>2 DEF ReplayPut, uiVars, widgetVars
    <2>2. puts = {}
        BY <2>1 DEF GroupInv, PutInv, Idle
    <2>3. CASE g = h
        BY <1>t, <2>1, <2>2, <2>3 DEF Miss, GroupInv, PutInv, Awaited
    <2>4. CASE g # h
        <3>1. now'[g] = now[g]
            BY <1>t, <2>1, <2>4
        <3>2. replaying \in [at : {"putting"}, todo : SUBSET Groups, choice : ChoicesOf(Groups)]
            BY <1>t, <2>1 DEF Replays, Idle
        <3>3. g \in replaying.todo => g \in replaying'.todo
            BY <2>1, <2>4, <3>2
        <3> QED
            BY <2>1, <2>2, <3>1, <3>3 DEF GroupInv, PutInv, Awaited
    <2> QED
        BY <2>3, <2>4
<1> QED
    BY <1>1, <1>2

LEMMA PutReaches ==
    ASSUME Typed, NEW g \in Groups, g \notin missed', NEW U \in SUBSET Proxies, GroupInv(U, g),
           PutArrives
    PROVE  GroupInv(U, g)'
<1>t. now \in [Groups -> Proxies] /\ puts \subseteq Requests(Groups)
    BY DEF Typed, ValueTypes
<1>1. PICK p \in puts :
          /\ \/ /\ now' = [now EXCEPT ![p.group] = p.name] /\ puts' = puts \ {p}
                /\ Miss({p.group}, p.name # selections[p.group])
             \/ now' = now /\ puts' = (puts \ {p}) \cup {[p EXCEPT !.at = "refused"]}
          /\ UNCHANGED <<selections, replaying, shown>>
    BY DEF PutArrives, uiVars, widgetVars
<1>2. p \in Requests(Groups) /\ p.group \in Groups
    BY <1>t, RequestShapes
<1>3. CASE now' = [now EXCEPT ![p.group] = p.name] /\ puts' = puts \ {p}
    <2>1. now'[g] = IF p.group = g THEN p.name ELSE now[g]
        BY <1>t, <1>2, <1>3
    <2>2. PutInv(U, g)'
        BY <1>1, <1>3, <2>1 DEF GroupInv, PutInv
    <2>3. selections[g] \in U => Awaited(g)'
        BY <1>1, <1>3, <2>1 DEF GroupInv, PutInv, Awaited
    <2> QED
        BY <1>1, <2>2, <2>3 DEF GroupInv
<1>4. CASE now' = now /\ puts' = (puts \ {p}) \cup {[p EXCEPT !.at = "refused"]}
    <2> DEFINE r == [p EXCEPT !.at = "refused"]
    <2>1. r.group = p.group /\ r.name = p.name /\ r.prev = p.prev /\ (r.kept <=> p.kept)
        <3>1. r.group = p.group /\ r.name = p.name /\ r.prev = p.prev
            BY <1>2 DEF Requests
        <3>2. r.kept = p.kept
            BY <1>2 DEF Requests
        <3> QED
            BY <3>1, <3>2
    <2> HIDE DEF r
    <2>a. /\ replaying = Idle /\ selections[g] # None /\ shown[g] = selections[g]
          /\ \A x, q \in puts : x.group = g /\ q.group = g => x = q
          /\ \A x \in puts : x.group = g =>
                 /\ x.name = selections[g]
                 /\ x.kept /\ x.prev \in U => now[g] = x.prev
        BY DEF GroupInv, PutInv
    <2>b. \A x \in puts' : x = r \/ x \in puts \ {p}
        BY <1>4 DEF r
    <2>c. \A x, q \in puts' : x.group = g /\ q.group = g => x = q
        BY <2>1, <2>a, <2>b
    <2>d. \A x \in puts' : x.group = g =>
              /\ x.name = selections[g]
              /\ x.kept /\ x.prev \in U => now[g] = x.prev
        BY <2>1, <2>a, <2>b
    <2>2. PutInv(U, g)'
        BY <1>1, <1>4, <2>a, <2>c, <2>d DEF PutInv
    <2>3. selections[g] \in U => Awaited(g)'
        BY <1>1, <1>4, <2>1 DEF GroupInv, Awaited, r
    <2> QED
        BY <1>1, <2>2, <2>3 DEF GroupInv
<1> QED
    BY <1>1, <1>3, <1>4

LEMMA RefusalRestores ==
    ASSUME Typed, NEW g \in Groups, g \notin missed', NEW U \in SUBSET Proxies, GroupInv(U, g),
           PutFailed
    PROVE  GroupInv(U, g)'
<1>t. shown \in ChoicesOf(Groups) /\ puts \subseteq Requests(Groups)
    BY DEF Typed, ValueTypes
<1>1. PICK p \in puts :
          /\ puts' = puts \ {p} /\ shown' = TakenBack(p) /\ selections' = shown'
          /\ Miss({p.group}, shown[p.group] # p.name \/ ~p.kept)
          /\ UNCHANGED <<now, replaying>>
    BY DEF PutFailed, OnSelectionsChanged
<1>2. p.group \in Groups /\ p.prev \in Proxies
    BY <1>t, RequestShapes
<1>3. shown'[g] = IF g = p.group THEN p.prev ELSE shown[g]
    BY <1>t, <1>1, <1>2, Chosen DEF TakenBack
<1>4. selections[g] # None /\ shown[g] = selections[g] /\ replaying = Idle
    BY <1>1 DEF GroupInv, PutInv
<1>5. CASE g = p.group
    <2>1. p.kept
        BY <1>1, <1>5 DEF Miss
    <2>2. p.prev \in U => now[g] = p.prev
        BY <1>1, <1>5, <2>1 DEF GroupInv, PutInv
    <2>3. \A q \in puts' : q.group # g
        BY <1>1, <1>5 DEF GroupInv, PutInv
    <2>4. p.prev # None
        BY <1>2, ChoiceAssumption
    <2> QED
        BY <1>1, <1>3, <1>4, <1>5, <2>2, <2>3, <2>4 DEF GroupInv, PutInv, Awaited
<1>6. CASE g # p.group
    <2>1. shown'[g] = selections[g] /\ selections'[g] = selections[g]
        BY <1>1, <1>3, <1>4, <1>6
    <2>2. PutInv(U, g)'
        BY <1>1, <1>4, <2>1 DEF GroupInv, PutInv
    <2>3. selections[g] \in U => Awaited(g)'
        BY <1>1, <1>6, <2>1 DEF GroupInv, Awaited
    <2> QED
        BY <2>1, <2>2, <2>3 DEF GroupInv
<1> QED
    BY <1>5, <1>6

LEMMA TapAsks ==
    ASSUME Typed, SectionShowsHome, NEW g \in Groups, g \notin missed', NEW U \in SUBSET Proxies,
           GroupInv(U, g), "skipped" \notin raced, state,
           NEW h \in Groups, NEW name \in Range(members[h]), SelectProxy(h, name)
    PROVE  GroupInv(U, g)'
<1>t. /\ shown \in ChoicesOf(Groups) /\ now \in [Groups -> Proxies]
      /\ puts \subseteq Requests(Groups) /\ name \in Proxies
    BY DEF Typed, ValueTypes, TextTypes
<1>1. PICK n : /\ puts' = puts \cup {n}
               /\ n.group = h /\ n.name = name /\ n.prev = shown[h]
               /\ n.kept <=> selections[h] # None
    <2> DEFINE n == [id |-> events, group |-> h, name |-> name, prev |-> shown[h],
                     kept |-> selections[h] # None, at |-> "sent"]
    <2>1. puts' = puts \cup {n}
        BY DEF SelectProxy
    <2>2. n.group = h /\ n.name = name /\ n.prev = shown[h]
        OBVIOUS
    <2>3. n.kept <=> selections[h] # None
        BY Zenon
    <2> HIDE DEF n
    <2> QED
        BY <2>1, <2>2, <2>3
<1>2. /\ shown' = [shown EXCEPT ![h] = name] /\ selections' = shown'
      /\ widgetYaml = profile /\ shown[h] # None
      /\ missed' = missed
             \cup {k \in {h} : \E p \in puts : p.group = h}
             \cup {k \in Groups : replaying # Idle}
             \cup {k \in Groups \ {h} : selections[k] = None /\ shown[k] # now[k]}
      /\ UNCHANGED <<now, replaying>>
    BY DEF SelectProxy, OnSelectionsChanged
<1>3. shown'[g] = IF g = h THEN name ELSE shown[g]
    BY <1>t, <1>2, Chosen
<1>4. replaying = Idle
    BY <1>2
<1>5. selections[g] # None => shown[g] = selections[g]
    BY <1>2 DEF SectionShowsHome
<1>6. CASE g = h
    <2>1. \A p \in puts : p.group # g
        BY <1>2, <1>6
    <2>2. n.kept /\ n.prev \in U => now[g] = n.prev
        BY <1>1, <1>4, <1>5, <1>6, <2>1 DEF GroupInv, Awaited, Idle
    <2>3. name # None
        BY <1>t, ChoiceAssumption
    <2>4. Awaited(g)'
        BY <1>1, <1>6 DEF Awaited
    <2>5. PutInv(U, g)'
        BY <1>1, <1>2, <1>3, <1>4, <1>6, <2>1, <2>2, <2>3 DEF PutInv
    <2> QED
        BY <2>4, <2>5 DEF GroupInv
<1>7. CASE g # h /\ selections[g] # None
    <2>1. shown'[g] = selections[g] /\ selections'[g] = selections[g]
        BY <1>2, <1>3, <1>5, <1>7
    <2>2. PutInv(U, g)'
        BY <1>1, <1>2, <1>4, <1>7, <2>1 DEF GroupInv, PutInv
    <2>3. selections[g] \in U => Awaited(g)'
        BY <1>1, <1>2, <2>1 DEF GroupInv, Awaited
    <2> QED
        BY <2>1, <2>2, <2>3 DEF GroupInv
<1>8. CASE g # h /\ selections[g] = None
    <2>1. shown[g] = now[g]
        BY <1>2, <1>8
    <2>2. selections'[g] = now'[g] /\ selections'[g] # None /\ shown'[g] = selections'[g]
        BY <1>t, <1>2, <1>3, <1>8, <2>1, ChoiceAssumption
    <2>3. puts = {}
        BY <1>8 DEF GroupInv, PutInv
    <2>4. Awaited(g)'
        BY <2>2 DEF Awaited
    <2>5. PutInv(U, g)'
        BY <1>1, <1>2, <1>4, <1>8, <2>2, <2>3 DEF PutInv
    <2> QED
        BY <2>4, <2>5 DEF GroupInv
<1> QED
    BY <1>6, <1>7, <1>8

LEMMA EngineStep ==
    Typed /\ StateInv /\ TurnsInv /\ SectionShowsHome /\ EngineInv /\ [Next]_vars => EngineInv'
<1>m. [Next]_vars => members' = members /\ Groups' = Groups
    <2>1. [Next]_vars => members' = members
        BY DEF Next, vars
    <2>2. members' = members => Groups' = Groups
        BY DEF Groups
    <2> QED
        BY <2>1, <2>2
<1> SUFFICES ASSUME Typed, StateInv, TurnsInv, SectionShowsHome, EngineInv, [Next]_vars,
                    Undisturbed', NEW g \in Groups, g \notin missed'
             PROVE  GroupInv(Usable(g), g)'
    BY <1>m DEF EngineInv
<1> USE DEF uiVars, widgetVars, dbVars
<1> DEFINE M == Messages(Groups)
<1>u. PICK U : U = Usable(g) /\ U = Usable(g)'
    BY <1>m, UsableStays
<1>v. U \in SUBSET Proxies
    BY <1>u DEF Usable, Typed, TextTypes
<1>q. inbox \in Seq(M) /\ vpn \in BOOLEAN
    BY DEF Typed, QueueTypes, ValueTypes
<1> SUFFICES GroupInv(U, g)'
    BY <1>u DEF GroupInv, PutInv
<1>1. CASE Toggle
    <2>1. PICK m \in M : m = [kind |-> "state", on |-> vpn']
        <3>1. vpn' \in BOOLEAN
            BY <1>1, <1>q DEF Toggle
        <3> QED
            BY <3>1, MessagesMade
    <2>2. m.kind = "state" /\ inbox' = Append(inbox, m)
        BY <1>1, <2>1 DEF Toggle
    <2> HIDE DEF M
    <2>3. Has(inbox', "state")
        BY <1>q, <2>2, HasAppend
    <2> QED
        BY <2>3 DEF Undisturbed
<1>2. CASE StateEvent
    BY <1>2, <1>v, EventReplays
\* All others leave the events in the queue.
<1>3. ASSUME \/ UNCHANGED inbox
             \/ \E m \in M : m.kind # "state" /\ inbox' = Append(inbox, m)
             \/ inbox # <<>> /\ Head(inbox).kind # "state" /\ inbox' = Tail(inbox),
             vpn' = vpn, {"staleState", "skipped"} \cap raced \subseteq raced',
             missed \subseteq missed'
      PROVE  Undisturbed /\ state /\ GroupInv(U, g)
    <2> HIDE DEF M
    <2>1. ~Has(inbox, "state")
        <3>1. CASE UNCHANGED inbox
            BY <3>1 DEF Undisturbed
        <3>2. CASE \E m \in M : m.kind # "state" /\ inbox' = Append(inbox, m)
            BY <1>q, <3>2, HasAppend DEF Undisturbed
        <3>3. CASE inbox # <<>> /\ Head(inbox).kind # "state" /\ inbox' = Tail(inbox)
            BY <1>q, <3>3, TakenOff DEF Undisturbed
        <3> QED
            BY <1>3, <3>1, <3>2, <3>3
    <2>2. Undisturbed
        BY <1>3, <2>1 DEF Undisturbed
    <2>3. state
        BY <2>2 DEF Undisturbed, StateInv
    <2> QED
        BY <1>3, <1>u, <2>2, <2>3 DEF EngineInv
\* What the group's invariant looks at stays, or what is shown becomes what is kept.
<1>4. ASSUME UNCHANGED <<now, replaying, puts, selections>>, GroupInv(U, g),
             selections[g] # None /\ shown[g] = selections[g] => shown'[g] = selections[g]
      PROVE  GroupInv(U, g)'
    BY <1>4 DEF GroupInv, PutInv, Awaited
<1>5. CASE SwitchProfile
    <2>1. PICK m \in M : m = [kind |-> "gotState", on |-> vpn]
        BY <1>q, MessagesMade
    <2>2. m.kind # "state"
        BY <2>1
    <2>3. GroupInv(U, g)
        BY <1>3, <1>5, <2>1, <2>2 DEF SwitchProfile
    <2> QED
        BY <1>4, <1>5, <2>3 DEF SwitchProfile
<1>6. CASE ReadProfile
    <2>1. PICK i \in DOMAIN reads :
              inbox' = Append(inbox, [kind |-> "profile", on |-> reads[i], profile |-> selected,
                                      choice |-> rows[selected]])
        BY <1>6 DEF ReadProfile
    <2>2. reads[i] \in BOOLEAN /\ selected \in Profiles /\ rows[selected] \in ChoicesOf(Groups)
        BY <2>1, QueueOps DEF Typed, QueueTypes, ValueTypes
    <2>3. PICK m \in M : m = [kind |-> "profile", on |-> reads[i], profile |-> selected,
                              choice |-> rows[selected]]
        BY <2>2, MessagesMade
    <2>4. m.kind # "state" /\ inbox' = Append(inbox, m)
        BY <2>1, <2>3
    <2>5. UNCHANGED <<vpn, missed, now, replaying, puts, selections, shown>> /\ raced \subseteq raced'
        BY <1>6 DEF ReadProfile, Note
    <2>6. GroupInv(U, g)
        BY <1>3, <2>4, <2>5
    <2> QED
        BY <1>4, <2>5, <2>6
<1>7. CASE GotState
    <2>1. GroupInv(U, g)
        BY <1>3, <1>7 DEF GotState
    <2> QED
        BY <1>4, <1>7, <2>1 DEF GotState
<1>8. CASE LoadDone
    <2>1. /\ inbox # <<>> /\ Head(inbox).kind # "state" /\ inbox' = Tail(inbox) /\ vpn' = vpn
          /\ raced \subseteq raced'
        BY <1>8 DEF LoadDone
    <2>2. missed \subseteq missed'
        BY <1>8 DEF LoadDone, Miss
    <2>3. state /\ GroupInv(U, g)
        BY <1>3, <2>1, <2>2
    <2> QED
        BY <1>8, <1>v, <2>3, LoadReplays DEF Undisturbed
<1>9. CASE RunSave \/ Rebuild
    <2>1. UNCHANGED <<inbox, vpn, missed, now, replaying, puts, selections>> /\ raced \subseteq raced'
        BY <1>9 DEF RunSave, Rebuild, Note
    <2>2. shown' = shown \/ shown' = selections
        BY <1>9 DEF RunSave, Rebuild
    <2>3. GroupInv(U, g)
        BY <1>3, <2>1
    <2> QED
        BY <1>4, <2>1, <2>2, <2>3
<1>10. CASE ReplayAnswer \/ \E h \in Groups : ReplayPut(h)
    <2>1. UNCHANGED <<inbox, vpn, raced>> /\ missed \subseteq missed'
        BY <1>10 DEF ReplayAnswer, ReplayPut, Miss
    <2>2. GroupInv(U, g) /\ vpn
        BY <1>3, <2>1 DEF Undisturbed
    <2> QED
        BY <1>10, <1>u, <1>v, <2>2, ReplayReaches
<1>11. CASE LoadGroups
    <2>1. now \in [Groups -> Proxies] /\ shown \in ChoicesOf(Groups)
        BY DEF Typed, ValueTypes
    <2>2. [k \in Groups |-> Default(k)] \in [Groups -> Proxies]
        BY DEF Typed, TextTypes
    <2>3. shown[g] # None => shown'[g] = shown[g]
        BY <1>11, <2>1, <2>2, PutsIfAbsent DEF LoadGroups
    <2>4. GroupInv(U, g)
        BY <1>3, <1>11 DEF LoadGroups
    <2> QED
        BY <1>4, <1>11, <2>3, <2>4 DEF LoadGroups
<1>12. CASE PutArrives
    <2>1. UNCHANGED <<inbox, vpn, raced>> /\ missed \subseteq missed'
        BY <1>12 DEF PutArrives, Miss
    <2>2. GroupInv(U, g)
        BY <1>3, <2>1
    <2> QED
        BY <1>12, <1>v, <2>2, PutReaches
<1>13. CASE PutFailed
    <2>1. UNCHANGED <<inbox, vpn>> /\ raced \subseteq raced' /\ missed \subseteq missed'
        BY <1>13 DEF PutFailed, Note, Miss
    <2>2. GroupInv(U, g)
        BY <1>3, <2>1
    <2> QED
        BY <1>13, <1>v, <2>2, RefusalRestores
<1>14. ASSUME NEW h \in Groups, NEW name \in Range(members[h]), SelectProxy(h, name)
       PROVE  GroupInv(U, g)'
    <2>1. UNCHANGED <<inbox, vpn>> /\ raced \subseteq raced' /\ missed \subseteq missed'
        BY <1>14 DEF SelectProxy, Note
    <2>2. GroupInv(U, g) /\ state /\ "skipped" \notin raced
        BY <1>3, <2>1 DEF Undisturbed
    <2> QED
        BY <1>14, <1>v, <2>2, TapAsks
<1>15. CASE UNCHANGED vars
    <2>1. UNCHANGED <<inbox, vpn, raced, missed, now, replaying, puts, selections, shown>>
        BY <1>15 DEF vars
    <2> QED
        BY <1>3, <1>4, <2>1
<1> QED
    BY <1>1, <1>2, <1>5, <1>6, <1>7, <1>8, <1>9, <1>10, <1>11, <1>12, <1>13, <1>14, <1>15
    DEF Next, HomeNext, SectionNext

-----------------------------------------------------------------------------
(* The theorems. *)

SelInv ==
    /\ Typed /\ StateInv /\ TurnsInv /\ ProfileInv /\ RowInv /\ SectionShowsHome /\ EngineInv

\* The invariant of the module: it holds at first and is kept by every step.
THEOREM SelInvariant == Spec => []SelInv
<1>1. Init => SelInv
    <2>1. Init => EngineInv
        <3> SUFFICES ASSUME Init PROVE Has(inbox, "state")
            BY DEF EngineInv, Undisturbed
        <3>1. inbox[2].kind = "state" /\ 2 \in 1..Len(inbox)
            BY DEF Init
        <3> QED
            BY <3>1 DEF Has
    <2> QED
        BY <2>1, QueuesInit, TurnsInit DEF SelInv
<1>2. SelInv /\ [Next]_vars => SelInv'
    BY TypedStep, StateStep, TurnsStep, ProfileStep, RowStep, ShowsStep, EngineStep DEF SelInv
<1> QED
    BY <1>1, <1>2, PTL DEF Spec

\* When all messages are handled the home screen shows the state of the service,
\* unless a load brought an older one (_loadState and the listener of stateStream).
THEOREM HomeShown == Spec => []HomeShowsService
<1>1. SelInv => HomeShowsService
    <2> SUFFICES ASSUME SelInv, Delivered, "staleState" \notin raced PROVE state = vpn
        BY DEF HomeShowsService
    <2>1. ~Has(inbox, "state")
        BY DEF Delivered, Has
    <2> QED
        BY <2>1 DEF SelInv, StateInv
<1> QED
    BY SelInvariant, <1>1, PTL

\* A choice is one thing on the section, on the home screen and in the profile's
\* row, for any profiles, groups and number of events (_onSelectionsChanged,
\* _loadState, didUpdateWidget, saveSelectedProxies).
THEOREM ChoicesAreOne == Spec => []ChoiceIsOne
<1>1. SelInv => HomeKeepsRow
    <2> SUFFICES ASSUME SelInv, Delivered, saves = <<>>, "rowRace" \notin raced
                 PROVE  profile = selected /\ selections = rows[profile]
        BY DEF HomeKeepsRow
    <2>1. ~Has(inbox, "gotState") /\ ~Has(inbox, "profile") /\ reads = <<>>
        BY DEF Delivered, Has
    <2>2. profile = selected
        BY <2>1 DEF SelInv, ProfileInv
    <2>3. profile # None
        BY <2>2, ChoiceAssumption DEF SelInv, Typed, ValueTypes
    <2>4. WillHold(saves, rows, profile, selections)
        BY <2>3 DEF SelInv, RowInv
    <2>5. \A i \in 1..Len(saves) : FALSE
        OBVIOUS
    <2> QED
        BY <2>2, <2>4, <2>5 DEF WillHold
<1>2. SelInv => ChoiceIsOne
    BY <1>1 DEF SelInv, ChoiceIsOne
<1> QED
    BY SelInvariant, <1>2, PTL

\* A saved choice changes only with the profile, by the user's tap, or by a refused
\* request, in its own group (_selectProxy and its catch).
THEOREM ChoicesStay == Spec => ChoiceStays
<1>1. ASSUME SelInv, [Next]_vars, NEW g \in Groups, selections[g] # None,
             selections'[g] # selections[g], widgetYaml = profile,
             "skipped" \notin raced
      PROVE  \/ profile' # profile
             \/ shown'[g] # shown[g] /\ events' # events
             \/ \E p \in puts \ puts' : p.at = "refused" /\ p.group = g
    <2> USE DEF uiVars, widgetVars, dbVars
    <2>s. shown[g] = selections[g] /\ shown \in ChoicesOf(Groups) /\ events \in Nat
        BY <1>1 DEF SelInv, SectionShowsHome, Typed, ValueTypes
    <2>1. CASE LoadDone
        BY <1>1, <2>1 DEF LoadDone, LoadAdopts
    <2>2. CASE \E h \in Groups : \E name \in Range(members[h]) : SelectProxy(h, name)
        <3>1. selections' = shown' /\ events' = events + 1
            BY <2>2 DEF SelectProxy, OnSelectionsChanged, Event
        <3> QED
            BY <1>1, <2>s, <3>1
    <2>3. CASE PutFailed
        <3>1. PICK p \in puts : /\ p.at = "refused" /\ puts' = puts \ {p}
                                /\ shown' = TakenBack(p) /\ selections' = shown'
            BY <2>3 DEF PutFailed, OnSelectionsChanged
        <3>2. p.group = g
            BY <1>1, <2>s, <3>1 DEF TakenBack, ChoicesOf
        <3> QED
            BY <3>1, <3>2
    <2>4. CASE UNCHANGED selections
        BY <1>1, <2>4
    <2>5. Toggle \/ SwitchProfile \/ RunSave \/ ReadProfile => UNCHANGED selections
        BY DEF Toggle, SwitchProfile, RunSave, ReadProfile
    <2>6. (\/ StateEvent \/ GotState \/ ReplayAnswer \/ Rebuild \/ LoadGroups \/ PutArrives
           \/ UNCHANGED vars \/ \E h \in Groups : ReplayPut(h)) => UNCHANGED selections
        BY DEF StateEvent, GotState, ReplayAnswer, Rebuild, LoadGroups, PutArrives, ReplayPut, vars
    <2> QED
        BY <1>1, <2>1, <2>2, <2>3, <2>4, <2>5, <2>6 DEF Next, HomeNext, SectionNext
<1>2. SelInv /\ [Next]_vars =>
          [\A g \in Groups :
              (selections[g] # None /\ selections'[g] # selections[g]
               /\ widgetYaml = profile /\ "skipped" \notin raced) =>
                  \/ profile' # profile
                  \/ shown'[g] # shown[g] /\ events' # events
                  \/ \E p \in puts \ puts' : p.at = "refused" /\ p.group = g]_vars
    BY <1>1
<1> QED
    BY SelInvariant, <1>2, PTL DEF Spec, ChoiceStays

\* When all is quiet a connected engine uses the saved choices, for any texts, cycles
\* and number of events (_replaySelections, replaySelectionsOnConnect, _selectProxy).
THEOREM EngineUsesChoices == Spec => []EngineUsesChoice
<1>1. SelInv => EngineUsesChoice
    <2> SUFFICES ASSUME SelInv, AtRest, vpn, raced \cap {"staleState", "skipped"} = {},
                        NEW g \in Replayed(selections) \ missed
                 PROVE  now[g] = selections[g]
        BY DEF EngineUsesChoice
    <2>1. Undisturbed
        BY DEF AtRest, Delivered, Undisturbed, Has
    <2>2. g \in Groups \ missed /\ selections[g] \in Usable(g)
        BY DEF Replayed, Usable
    <2>3. Awaited(g)
        BY <2>1, <2>2 DEF SelInv, EngineInv, GroupInv
    <2> QED
        BY <2>3 DEF AtRest, Awaited, Idle
<1> QED
    BY SelInvariant, <1>1, PTL

===============================================================================
