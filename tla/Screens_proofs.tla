------------------------------ MODULE Screens_proofs ----------------------------
(***************************************************************************)
(* The screens that follow the engine, for every value of the constants.   *)
(* Each behaviour follows one of them (part); a screen that is not followed *)
(* stays as it was in the beginning.                                       *)
(***************************************************************************)
EXTENDS Screens, SequenceTheorems, FiniteSetTheorems, WellFoundedInduction, TLAPS

-----------------------------------------------------------------------------
(* Induction and sums. *)

LEMMA SmallestNumber ==
    ASSUME NEW T \in SUBSET Nat, T # {}
    PROVE  \E m \in T : \A k \in T : m <= k
<1>1. PICK m \in T : \A k \in T : ~ (<<k, m>> \in OpToRel(<, Nat))
    BY NatLessThanWellFounded, WFMin, Zenon
<1>2. ASSUME NEW k \in T PROVE m <= k
    <2>1. ~ (<<k, m>> \in OpToRel(<, Nat))
        BY <1>1
    <2>2. ~ (k < m)
        BY <2>1, SMT DEF OpToRel
    <2> QED
        BY <2>2
<1> QED
    BY <1>1, <1>2

\* Induction over the numbers up to a limit: what holds of the first, and of a next
\* one whenever it holds of the one before, holds of all.
LEMMA Induction ==
    ASSUME NEW n \in Nat, NEW T, 0 \in T, \A k \in 1..n : k - 1 \in T => k \in T
    PROVE  \A k \in 0..n : k \in T
<1> SUFFICES ASSUME (0..n) \ T # {} PROVE FALSE
    BY Zenon
<1>1. (0..n) \ T \in SUBSET Nat
    OBVIOUS
<1>2. PICK m \in (0..n) \ T : \A k \in (0..n) \ T : m <= k
    BY <1>1, SmallestNumber
<1>3. m \in 1..n
    BY <1>2
<1>4. m - 1 \in 0..n /\ ~ (m <= m - 1)
    BY <1>3
<1>5. m - 1 \in T
    BY <1>2, <1>4
<1> QED
    BY <1>2, <1>3, <1>5

\* A sum over a finite set takes the set's elements one after the other, in an order of
\* its own; a summing function has the sums of all subsets.
Pick(s) == CHOOSE x \in s : TRUE
IsSumming(g, f, S) ==
    g = [s \in SUBSET S |-> IF s = {} THEN 0 ELSE f[Pick(s)] + g[s \ {Pick(s)}]]
Total(f, S) == MapThenSumSet(LAMBDA x : f[x], S)

\* What holds of every subset that has it of all smaller ones holds of all subsets.
LEMMA SmallerFirst ==
    ASSUME NEW S, IsFiniteSet(S), NEW T,
           \A s \in SUBSET S :
              (\A t \in SUBSET S : Cardinality(t) < Cardinality(s) => t \in T) => s \in T
    PROVE  \A s \in SUBSET S : s \in T
<1> SUFFICES ASSUME (SUBSET S) \ T # {} PROVE FALSE
    BY Zenon
<1> DEFINE Sizes == {Cardinality(s) : s \in (SUBSET S) \ T}
<1>1. Sizes \in SUBSET Nat /\ Sizes # {}
    <2>1. \A s \in SUBSET S : Cardinality(s) \in Nat
        BY FS_Subset, FS_CardinalityType
    <2> QED
        BY <2>1
<1>2. PICK m \in Sizes : \A k \in Sizes : m <= k
    <2> HIDE DEF Sizes
    <2> QED
        BY <1>1, SmallestNumber, Zenon
<1>3. PICK s \in (SUBSET S) \ T : Cardinality(s) = m
    BY <1>2
<1>4. ASSUME NEW t \in SUBSET S, Cardinality(t) < Cardinality(s) PROVE t \in T
    <2>1. Cardinality(t) \in Nat /\ Cardinality(s) \in Nat
        BY FS_Subset, FS_CardinalityType
    <2>2. ~ (m <= Cardinality(t))
        BY <1>3, <1>4, <2>1
    <2> QED
        BY <1>2, <2>2
<1> QED
    BY <1>3, <1>4

\* The rest of a set is a smaller one.
LEMMA RestIsSmaller ==
    ASSUME NEW S, IsFiniteSet(S), NEW s \in SUBSET S, NEW x \in s
    PROVE  /\ s \ {x} \in SUBSET S /\ Cardinality(s \ {x}) < Cardinality(s)
           /\ Cardinality(s) \in Nat /\ Cardinality(s \ {x}) = Cardinality(s) - 1
<1>1. IsFiniteSet(s)
    BY FS_Subset
<1>2. Cardinality(s) \in Nat /\ Cardinality(s \ {x}) = Cardinality(s) - 1
    BY <1>1, FS_CardinalityType, FS_RemoveElement
<1> QED
    BY <1>2

LEMMA PickedIsIn == \A s : s # {} => Pick(s) \in s
    BY DEF Pick

LEMMA SummingExists ==
    ASSUME NEW S, IsFiniteSet(S), NEW f
    PROVE  \E g : IsSumming(g, f, S)
<1> DEFINE Upto(n) == {s \in SUBSET S : Cardinality(s) <= n}
           Partly(g, n) ==
               g = [s \in Upto(n) |-> IF s = {} THEN 0 ELSE f[Pick(s)] + g[s \ {Pick(s)}]]
           N == {n \in Nat : \E g : Partly(g, n)}
<1>1. 0 \in N
    <2>1. \A s \in Upto(0) : s = {}
        <3> SUFFICES ASSUME NEW s \in Upto(0) PROVE s = {}
            OBVIOUS
        <3>1. IsFiniteSet(s) /\ Cardinality(s) \in Nat /\ Cardinality(s) <= 0
            BY FS_Subset, FS_CardinalityType
        <3>2. Cardinality(s) = 0
            BY <3>1
        <3> QED
            BY <3>1, <3>2, FS_EmptySet
    <2>2. Partly([s \in Upto(0) |-> 0], 0)
        BY <2>1
    <2> QED
        BY <2>2
<1>2. ASSUME NEW n \in Nat \ {0}, n - 1 \in N PROVE n \in N
    <2>1. PICK g : Partly(g, n - 1)
        BY <1>2
    <2> DEFINE h == [s \in Upto(n) |-> IF s = {} THEN 0 ELSE f[Pick(s)] + g[s \ {Pick(s)}]]
    <2>2. ASSUME NEW s \in Upto(n), s # {} PROVE s \ {Pick(s)} \in Upto(n - 1)
        <3>1. Pick(s) \in s
            BY <2>2, PickedIsIn
        <3>2. /\ s \ {Pick(s)} \in SUBSET S /\ Cardinality(s) \in Nat
              /\ Cardinality(s \ {Pick(s)}) = Cardinality(s) - 1
            BY <3>1, RestIsSmaller
        <3> QED
            BY <3>2
    <2>3. ASSUME NEW s \in Upto(n - 1) PROVE s \in Upto(n) /\ h[s] = g[s]
        <3>1. Cardinality(s) \in Nat
            BY FS_Subset, FS_CardinalityType
        <3>2. s \in Upto(n)
            BY <3>1
        <3>3. g[s] = IF s = {} THEN 0 ELSE f[Pick(s)] + g[s \ {Pick(s)}]
            <4> HIDE DEF Upto
            <4> QED
                BY <2>1
        <3> QED
            BY <3>2, <3>3
    <2>4. Partly(h, n)
        <3> HIDE DEF Upto
        <3> QED
            BY <2>2, <2>3
    <2> QED
        BY <2>4
<1>3. PICK n \in Nat : n = Cardinality(S)
    BY FS_CardinalityType
<1>4. n \in N
    <2> HIDE DEF N
    <2>1. \A k \in 1..n : k - 1 \in N => k \in N
        BY <1>2
    <2> QED
        BY <1>1, <2>1, Induction
<1>5. Upto(n) = SUBSET S
    BY <1>3, FS_Subset
<1>6. PICK g : Partly(g, n)
    BY <1>4
<1>7. IsSumming(g, f, S)
    BY <1>5, <1>6 DEF IsSumming
<1> QED
    BY <1>7

LEMMA TotalIs ==
    ASSUME NEW S, IsFiniteSet(S), NEW f
    PROVE  \E g : IsSumming(g, f, S) /\ Total(f, S) = g[S]
<1> DEFINE g == CHOOSE h : IsSumming(h, f, S)
<1>1. IsSumming(g, f, S)
    BY SummingExists, Zenon
<1>2. Total(f, S) = g[S]
    BY DEF Total, MapThenSumSet, MapThenFoldSet, IsSumming, Pick
<1> QED
    BY <1>1, <1>2

LEMMA SummingIs ==
    ASSUME NEW S, NEW f, NEW g, IsSumming(g, f, S), NEW s \in SUBSET S
    PROVE  g[s] = IF s = {} THEN 0 ELSE f[Pick(s)] + g[s \ {Pick(s)}]
    BY DEF IsSumming

\* The order does not matter.
LEMMA AnyFirst ==
    ASSUME NEW S, IsFiniteSet(S), NEW f \in [S -> Nat], NEW g, IsSumming(g, f, S)
    PROVE  \A s \in SUBSET S : g[s] \in Nat /\ \A x \in s : g[s] = f[x] + g[s \ {x}]
<1> DEFINE T == {s \in SUBSET S : g[s] \in Nat /\ \A x \in s : g[s] = f[x] + g[s \ {x}]}
<1>1. ASSUME NEW s \in SUBSET S,
             \A t \in SUBSET S : Cardinality(t) < Cardinality(s) => t \in T
      PROVE  s \in T
    <2>1. CASE s = {}
        <3>1. g[s] = 0
            BY <2>1, SummingIs
        <3> QED
            BY <2>1, <3>1
    <2>2. CASE s # {}
        <3> DEFINE c == Pick(s)
        <3>1. c \in s
            BY <2>2, PickedIsIn
        <3>2. g[s] = f[c] + g[s \ {c}]
            BY <2>2, SummingIs
        <3> HIDE DEF c
        <3>3. s \ {c} \in T
            BY <1>1, <3>1, RestIsSmaller
        <3>4. g[s] \in Nat
            BY <3>1, <3>2, <3>3
        <3>5. ASSUME NEW x \in s, x # c PROVE g[s] = f[x] + g[s \ {x}]
            <4>1. s \ {x} \in T
                <5>1. s \ {x} \in SUBSET S /\ Cardinality(s \ {x}) < Cardinality(s)
                    BY RestIsSmaller
                <5> HIDE DEF T
                <5> QED
                    BY <1>1, <5>1
            <4>2. (s \ {x}) \ {c} = (s \ {c}) \ {x}
                OBVIOUS
            <4> DEFINE r == (s \ {c}) \ {x}
            <4>3. g[s \ {c}] = f[x] + g[r]
                BY <3>3, <3>5
            <4>4. g[s \ {x}] = f[c] + g[r]
                BY <3>1, <3>5, <4>1, <4>2
            <4>5. g[r] \in Nat /\ f[x] \in Nat /\ f[c] \in Nat
                <5>1. x \in s \ {c} /\ Cardinality(s \ {c}) < Cardinality(s)
                      /\ Cardinality(s \ {c}) \in Nat /\ Cardinality(s) \in Nat
                      /\ s \ {c} \in SUBSET S
                    BY <3>1, <3>5, RestIsSmaller, FS_Subset, FS_CardinalityType
                <5>2. r \in SUBSET S /\ Cardinality(r) < Cardinality(s \ {c})
                      /\ Cardinality(r) = Cardinality(s \ {c}) - 1
                    BY <5>1, RestIsSmaller
                <5>3. Cardinality(r) < Cardinality(s)
                    <6> HIDE DEF r
                    <6> QED
                        BY <5>1, <5>2
                <5>4. r \in T
                    <6> HIDE DEF r
                    <6> QED
                        BY <1>1, <5>2, <5>3
                <5> QED
                    BY <3>1, <5>4
            <4> HIDE DEF r
            <4> QED
                BY <3>2, <4>3, <4>4, <4>5
        <3>6. \A x \in s : g[s] = f[x] + g[s \ {x}]
            BY <3>2, <3>5
        <3> QED
            BY <3>4, <3>6
    <2> QED
        BY <2>1, <2>2
<1>2. \A s \in SUBSET S : s \in T
    <2> HIDE DEF T
    <2> QED
        BY <1>1, SmallerFirst
<1> QED
    BY <1>2

\* Larger values have a larger sum.
LEMMA SumsGrow ==
    ASSUME NEW S, IsFiniteSet(S), NEW f \in [S -> Nat], NEW e \in [S -> Nat],
           NEW g, IsSumming(g, f, S), NEW h, IsSumming(h, e, S)
    PROVE  \A s \in SUBSET S : (\A x \in s : f[x] <= e[x]) => g[s] <= h[s]
<1> DEFINE T == {s \in SUBSET S : (\A x \in s : f[x] <= e[x]) => g[s] <= h[s]}
<1>1. ASSUME NEW s \in SUBSET S,
             \A t \in SUBSET S : Cardinality(t) < Cardinality(s) => t \in T
      PROVE  s \in T
    <2>1. CASE s = {}
        <3>1. g[s] = 0 /\ h[s] = 0
            BY <2>1, SummingIs
        <3> QED
            BY <3>1
    <2>2. CASE s # {}
        <3>1. PICK c \in s : TRUE
            BY <2>2
        <3>2. /\ g[s] = f[c] + g[s \ {c}] /\ h[s] = e[c] + h[s \ {c}]
            BY AnyFirst
        <3>3. s \ {c} \in T /\ s \ {c} \in SUBSET S
            BY <1>1, RestIsSmaller
        <3>4. g[s \ {c}] \in Nat /\ h[s \ {c}] \in Nat /\ f[c] \in Nat /\ e[c] \in Nat
            BY <3>3, AnyFirst
        <3>5. (\A x \in s : f[x] <= e[x]) => f[c] <= e[c] /\ g[s \ {c}] <= h[s \ {c}]
            BY <3>3
        <3>6. (\A x \in s : f[x] <= e[x]) => g[s] <= h[s]
            BY <3>2, <3>4, <3>5
        <3> QED
            BY <3>6
    <2> QED
        BY <2>1, <2>2
<1>2. \A s \in SUBSET S : s \in T
    <2> HIDE DEF T
    <2> QED
        BY <1>1, SmallerFirst
<1> QED
    BY <1>2

\* The same of the community modules' sum.
LEMMA TotalIsNat ==
    ASSUME NEW S, IsFiniteSet(S), NEW f \in [S -> Nat]
    PROVE  Total(f, S) \in Nat
<1>1. PICK g : IsSumming(g, f, S) /\ Total(f, S) = g[S]
    BY TotalIs
<1> QED
    BY <1>1, AnyFirst

LEMMA TotalGrows ==
    ASSUME NEW S, IsFiniteSet(S), NEW f \in [S -> Nat], NEW e \in [S -> Nat],
           \A x \in S : f[x] <= e[x]
    PROVE  Total(f, S) <= Total(e, S)
<1>1. PICK g : IsSumming(g, f, S) /\ Total(f, S) = g[S]
    BY TotalIs
<1>2. PICK h : IsSumming(h, e, S) /\ Total(e, S) = h[S]
    BY TotalIs
<1> QED
    BY <1>1, <1>2, SumsGrow

\* The sum follows a value that changes.
LEMMA TotalFollows ==
    ASSUME NEW S, IsFiniteSet(S), NEW f \in [S -> Nat], NEW e \in [S -> Nat], NEW c \in S,
           \A x \in S \ {c} : e[x] = f[x]
    PROVE  Total(e, S) = Total(f, S) - f[c] + e[c]
<1>1. PICK g : IsSumming(g, f, S) /\ Total(f, S) = g[S]
    BY TotalIs
<1>2. PICK h : IsSumming(h, e, S) /\ Total(e, S) = h[S]
    BY TotalIs
<1> DEFINE r == S \ {c}
<1>3. r \in SUBSET S /\ g[S] = f[c] + g[r] /\ h[S] = e[c] + h[r] /\ g[r] \in Nat /\ h[r] \in Nat
    BY <1>1, <1>2, AnyFirst
<1>4. f[c] \in Nat /\ e[c] \in Nat /\ \A x \in r : f[x] <= e[x] /\ e[x] <= f[x]
    OBVIOUS
<1> HIDE DEF r
<1>5. g[r] <= h[r]
    BY <1>1, <1>2, <1>3, <1>4, SumsGrow
<1>6. h[r] <= g[r]
    BY <1>1, <1>2, <1>3, <1>4, SumsGrow
<1> QED
    BY <1>1, <1>2, <1>3, <1>4, <1>5, <1>6

\* e is f but for the value at c.
DiffersAt(e, f, S, c) ==
    /\ IsFiniteSet(S) /\ f \in [S -> Nat] /\ e \in [S -> Nat] /\ c \in S
    /\ \A x \in S \ {c} : e[x] = f[x]

LEMMA TotalDiffers ==
    ASSUME NEW e, NEW f, NEW S, NEW c, DiffersAt(e, f, S, c)
    PROVE  Total(e, S) = Total(f, S) - f[c] + e[c]
    BY TotalFollows DEF DiffersAt

\* Nothing, added up, is nothing.
LEMMA TotalOfNothing ==
    ASSUME NEW S, IsFiniteSet(S)
    PROVE  Total([x \in S |-> 0], S) = 0
<1> DEFINE f == [x \in S |-> 0]
<1>1. PICK g : IsSumming(g, f, S) /\ Total(f, S) = g[S]
    BY TotalIs
<1> DEFINE T == {s \in SUBSET S : g[s] = 0}
<1>2. ASSUME NEW s \in SUBSET S,
             \A t \in SUBSET S : Cardinality(t) < Cardinality(s) => t \in T
      PROVE  g[s] = 0
    <2>1. CASE s = {}
        BY <1>1, <2>1, SummingIs
    <2>2. CASE s # {}
        <3>1. PICK c \in s : TRUE
            BY <2>2
        <3>2. s \ {c} \in T
            BY <1>2, RestIsSmaller
        <3>3. f \in [S -> Nat] /\ f[c] = 0
            OBVIOUS
        <3> HIDE DEF f
        <3>4. g[s] = f[c] + g[s \ {c}]
            BY <1>1, <3>3, AnyFirst
        <3> QED
            BY <3>2, <3>3, <3>4
    <2> QED
        BY <2>1, <2>2
<1>3. \A s \in SUBSET S : s \in T
    <2>1. \A s \in SUBSET S :
             (\A t \in SUBSET S : Cardinality(t) < Cardinality(s) => t \in T) => s \in T
        BY <1>2
    <2> HIDE DEF T
    <2> QED
        BY <2>1, SmallerFirst
<1> QED
    BY <1>1, <1>3

-----------------------------------------------------------------------------
(* The daily traffic. *)

\* What the month needs of the types; the amounts have no bound here.
LedgerTypes ==
    /\ latest \in Int /\ today \in Days /\ (today = latest \/ today = latest - 1)
    /\ jobs \in [1..MaxJobs -> [at : {"idle", "read", "write"}, day : Days,
                                delta : Nat, entry : Nat]]
    /\ daily \in [Days -> Nat \cup {NoRow}] /\ added \subseteq Days
    /\ lastTraffic \in Nat /\ total \in Nat
    /\ reads = [r \in 1..MaxReads |-> reads[r]]
    /\ \A r \in 1..MaxReads : reads[r] = [at |-> reads[r].at, cutoff |-> reads[r].cutoff,
                                          rows |-> reads[r].rows]

\* A reading deletes nothing from KeptDays before the latest date, and nothing
\* else takes a day's row.
KeptInv ==
    /\ \A r \in 1..MaxReads : reads[r].at = "delete" =>
           reads[r].cutoff \in Int /\ reads[r].cutoff <= latest - KeptDays
    /\ \A d \in added : daily[d] = NoRow => d < latest - KeptDays

LedgerInv == LedgerTypes /\ KeptInv

LEMMA LedgerInvInit == LedgerInit => LedgerInv
<1> SUFFICES ASSUME LedgerInit PROVE LedgerInv
    OBVIOUS
<1>1. MaxJobs \in Nat \ {0} /\ LastDay \in Nat
    BY LedgerAssumption
<1>2. 0 \in Days
    BY <1>1 DEF Days
<1>3. LedgerTypes
    BY <1>2 DEF LedgerInit, LedgerTypes, NoJob, NoRead, NoRow
<1>4. KeptInv
    BY DEF LedgerInit, KeptInv, NoRead
<1> QED
    BY <1>3, <1>4 DEF LedgerInv

\* A row, or nothing, is an amount.
LEMMA AmountIsNat == \A row \in Nat \cup {NoRow} : Amount(row) \in Nat
    BY DEF Amount, NoRow

LEMMA LedgerStep ==
    ASSUME LedgerInv, LedgerNext \/ LedgerEngineStarts \/ UNCHANGED ledgerVars
    PROVE  LedgerInv'
<1>1. LedgerTypes /\ KeptInv /\ LastDay \in Nat /\ KeptDays \in Nat /\ today \in Int
    BY LedgerAssumption DEF LedgerInv, LedgerTypes, Days
<1> USE DEF dateVars, jobVars, historyVars
<1>2. CASE Move \/ Connected \/ LoadHistory \/ LedgerEngineStarts \/ UNCHANGED ledgerVars
    <2>1. /\ UNCHANGED <<today, latest, jobs, daily, added>>
          /\ total' \in Nat /\ lastTraffic' \in Nat
        BY <1>1, <1>2 DEF Move, Connected, LoadHistory, LedgerEngineStarts, ledgerVars, LedgerTypes
    <2>2. \/ reads' = reads
          \/ \E r \in 1..MaxReads : reads' = [reads EXCEPT ![r] = NoRead]
        BY <1>1, <1>2 DEF Move, Connected, LoadHistory, LedgerEngineStarts, ledgerVars, NextRead,
                          LedgerTypes
    <2>3. LedgerTypes'
        BY <1>1, <2>1, <2>2, ZenonT(40) DEF LedgerTypes, NoRead
    <2>4. \A r \in 1..MaxReads : reads'[r].at = "delete" => reads'[r] = reads[r]
        <3>1. NoRead.at # "delete"
            BY DEF NoRead
        <3>2. ASSUME NEW r \in 1..MaxReads, reads' = [reads EXCEPT ![r] = NoRead]
              PROVE  \A q \in 1..MaxReads : reads'[q].at = "delete" => reads'[q] = reads[q]
            BY <1>1, <3>1, <3>2 DEF LedgerTypes
        <3> QED
            BY <2>2, <3>2
    <2>5. KeptInv'
        BY <1>1, <2>1, <2>4 DEF KeptInv
    <2> QED
        BY <2>3, <2>5 DEF LedgerInv
<1>3. CASE Midnight \/ Travel
    <2>1. /\ UNCHANGED <<total, lastTraffic, jobs, daily, added, reads>>
          /\ latest' \in Int /\ latest' >= latest /\ today' \in Days
          /\ today' = latest' \/ today' = latest' - 1
        BY <1>1, <1>3 DEF Midnight, Travel, LedgerTypes, Days
    <2>2. LedgerTypes'
        BY <1>1, <2>1 DEF LedgerTypes
    <2>3. KeptInv'
        <3>1. latest \in Int /\ \A d \in added : d \in Int
            BY <1>1 DEF LedgerTypes, Days
        <3> QED
            BY <1>1, <2>1, <3>1 DEF KeptInv
    <2> QED
        BY <2>2, <2>3 DEF LedgerInv
<1>4. CASE TrafficUpdated \/ GetByDate \/ Recreate
    <2>1. UNCHANGED <<today, latest, total, daily, added>> /\ lastTraffic' \in Nat
        <3>1. CASE TrafficUpdated
            BY <1>1, <3>1 DEF TrafficUpdated, LedgerTypes
        <3>2. CASE GetByDate
            BY <1>1, <3>2 DEF GetByDate, LedgerTypes
        <3>3. CASE Recreate
            BY <1>1, <3>3 DEF Recreate, LedgerTypes
        <3> QED
            BY <1>4, <3>1, <3>2, <3>3
    <2>2. jobs' \in [1..MaxJobs -> [at : {"idle", "read", "write"}, day : Days,
                                    delta : Nat, entry : Nat]]
        <3>1. CASE TrafficUpdated
            <4>1. Delta > 0 => Delta \in Nat
                BY <1>1 DEF Delta, LedgerTypes
            <4> HIDE DEF Delta
            <4>2. CASE jobs' = jobs
                BY <1>1, <4>2 DEF LedgerTypes
            <4>3. ASSUME NEW j \in DOMAIN jobs, Delta > 0,
                         jobs' = [jobs EXCEPT ![j] = [NoJob EXCEPT !.at = "read", !.day = today,
                                                                   !.delta = Delta]]
                  PROVE  jobs' \in [1..MaxJobs -> [at : {"idle", "read", "write"}, day : Days,
                                                   delta : Nat, entry : Nat]]
                <5>1. [NoJob EXCEPT !.at = "read", !.day = today, !.delta = Delta]
                        \in [at : {"idle", "read", "write"}, day : Days, delta : Nat, entry : Nat]
                    BY <1>1, <4>1, <4>3 DEF NoJob, LedgerTypes
                <5> QED
                    BY <1>1, <4>3, <5>1 DEF LedgerTypes
            <4> QED
                BY <3>1, <4>2, <4>3 DEF TrafficUpdated
        <3>2. CASE GetByDate
            <4>1. PICK j \in 1..MaxJobs : jobs' = [jobs EXCEPT
                        ![j].at = "write", ![j].entry = Amount(daily[jobs[j].day])]
                BY <1>1, <3>2 DEF GetByDate, LedgerTypes
            <4>2. Amount(daily[jobs[j].day]) \in Nat
                BY <1>1, AmountIsNat DEF LedgerTypes
            <4> QED
                BY <1>1, <4>1, <4>2, ZenonT(40) DEF LedgerTypes
        <3>3. CASE Recreate
            <4>1. NoJob \in [at : {"idle", "read", "write"}, day : Days, delta : Nat, entry : Nat]
                BY <1>1 DEF NoJob, Days
            <4> QED
                BY <1>1, <3>3, <4>1 DEF Recreate, LedgerTypes
        <3> QED
            BY <1>4, <3>1, <3>2, <3>3
    <2>3. /\ reads' = [r \in 1..MaxReads |-> reads'[r]]
          /\ \A r \in 1..MaxReads : reads'[r] \in {reads[r], NoRead}
        BY <1>1, <1>4 DEF TrafficUpdated, GetByDate, Recreate, LedgerTypes
    <2>4. LedgerTypes'
        BY <1>1, <2>1, <2>2, <2>3 DEF LedgerTypes, NoRead
    <2>5. KeptInv'
        BY <1>1, <2>1, <2>3 DEF KeptInv, NoRead
    <2> QED
        BY <2>4, <2>5 DEF LedgerInv
<1>5. CASE Upsert
    <2>1. PICK j \in 1..MaxJobs :
              /\ daily' = [daily EXCEPT ![jobs[j].day] = jobs[j].entry + jobs[j].delta]
              /\ added' = added \cup {jobs[j].day} /\ jobs' = [jobs EXCEPT ![j] = NoJob]
        BY <1>1, <1>5 DEF Upsert, LedgerTypes
    <2>2. jobs[j].day \in Days /\ jobs[j].entry + jobs[j].delta \in Nat
        BY <1>1 DEF LedgerTypes
    <2>3. NoJob \in [at : {"idle", "read", "write"}, day : Days, delta : Nat, entry : Nat]
        BY <1>1 DEF NoJob, Days
    <2>4. UNCHANGED <<today, latest, total, lastTraffic, reads>>
        BY <1>5 DEF Upsert
    <2>5. LedgerTypes'
        BY <1>1, <2>1, <2>2, <2>3, <2>4 DEF LedgerTypes
    <2>6. daily'[jobs[j].day] # NoRow
        BY <1>1, <2>1, <2>2 DEF LedgerTypes, NoRow
    <2>7. KeptInv'
        <3>1. \A d \in Days : d # jobs[j].day => daily'[d] = daily[d]
            BY <1>1, <2>1 DEF LedgerTypes
        <3> QED
            BY <1>1, <2>1, <2>4, <2>6, <3>1 DEF KeptInv, LedgerTypes
    <2> QED
        BY <2>5, <2>7 DEF LedgerInv
<1>6. CASE GetTrafficHistory \/ GetAll
    <2>1. UNCHANGED <<today, latest, total, lastTraffic, jobs, daily, added>>
        BY <1>6 DEF GetTrafficHistory, GetAll
    <2>2. PICK r \in 1..MaxReads, rec \in {[NoRead EXCEPT !.at = "delete", !.cutoff = Cutoff],
                                           [NoRead EXCEPT !.at = "getAll", !.rows = daily],
                                           [NoRead EXCEPT !.at = "answer", !.rows = daily]} :
              reads' = [reads EXCEPT ![r] = rec]
        BY <1>1, <1>6 DEF GetTrafficHistory, GetAll, NextRead, LedgerTypes
    <2>3. /\ rec = [at |-> rec.at, cutoff |-> rec.cutoff, rows |-> rec.rows]
          /\ rec.at = "delete" => rec.cutoff = Cutoff
        BY <2>2 DEF NoRead
    <2>4. Cutoff \in Int /\ Cutoff <= latest - KeptDays
        BY <1>1 DEF Cutoff, LedgerTypes
    <2>5. LedgerTypes'
        BY <1>1, <2>1, <2>2, <2>3 DEF LedgerTypes
    <2>6. KeptInv'
        BY <1>1, <2>1, <2>2, <2>3, <2>4 DEF KeptInv, LedgerTypes
    <2> QED
        BY <2>5, <2>6 DEF LedgerInv
<1>7. CASE DeleteBefore
    <2>1. UNCHANGED <<today, latest, total, lastTraffic, jobs, added>>
        BY <1>7 DEF DeleteBefore
    <2>2. PICK r \in 1..MaxReads :
              /\ reads[r].at = "delete"
              /\ daily' = [d \in Days |-> IF d < reads[r].cutoff THEN NoRow ELSE daily[d]]
              /\ reads' = [reads EXCEPT ![r] = [NoRead EXCEPT !.at = "getAll"]]
        BY <1>1, <1>7 DEF DeleteBefore, NextRead, LedgerTypes
    <2>3. LedgerTypes'
        BY <1>1, <2>1, <2>2 DEF LedgerTypes, NoRead
    <2>4. KeptInv'
        <3>1. \A q \in 1..MaxReads : reads'[q].at = "delete" => reads'[q] = reads[q]
            BY <1>1, <2>2 DEF LedgerTypes, NoRead
        <3>2. ASSUME NEW d \in added, daily'[d] = NoRow PROVE d < latest - KeptDays
            <4>1. d \in Days /\ d \in Int
                BY <1>1 DEF LedgerTypes, Days
            <4>2. reads[r].cutoff \in Int /\ reads[r].cutoff <= latest - KeptDays
                BY <1>1, <2>2 DEF KeptInv
            <4>3. d < reads[r].cutoff \/ daily[d] = NoRow
                BY <2>2, <3>2, <4>1
            <4> QED
                BY <1>1, <4>1, <4>2, <4>3 DEF KeptInv, LedgerTypes
        <3> QED
            BY <1>1, <2>1, <3>1, <3>2 DEF KeptInv
    <2> QED
        BY <2>3, <2>4 DEF LedgerInv
<1> QED
    BY <1>2, <1>3, <1>4, <1>5, <1>6, <1>7 DEF LedgerNext

\* No reading ever deletes a day of the month it is here (DailyTrafficDao:
\* deleteBefore, MainActivity: getTrafficHistory).
THEOREM MonthsAreWhole == Spec => []MonthIsWhole
<1>1. Init => LedgerInv
    BY LedgerInvInit DEF Init
<1>2. LedgerInv /\ [Next]_vars => LedgerInv'
    <2> SUFFICES ASSUME LedgerInv, [Next]_vars PROVE LedgerInv'
        OBVIOUS
    <2>1. LedgerNext \/ LedgerEngineStarts \/ UNCHANGED ledgerVars
        BY DEF Next, vars, Only, EngineStarts, EngineStops
    <2> QED
        BY <2>1, LedgerStep
<1>3. LedgerInv => MonthIsWhole
    <2> SUFFICES ASSUME LedgerInv, NEW d \in Month(today) \cap added PROVE daily[d] # NoRow
        BY DEF MonthIsWhole
    <2>1. /\ today \in Days /\ LastDay \in Nat /\ KeptDays \in Nat /\ FirstDays \subseteq 0..LastDay
          /\ today = latest \/ today = latest - 1
          /\ latest \in Int
        BY LedgerAssumption DEF LedgerInv, LedgerTypes
    <2>2. PICK f \in FirstDays : f <= today /\ today - f < KeptDays
        BY <2>1, LedgerAssumption DEF Days
    <2>3. f <= d /\ d \in Int /\ f \in Int /\ today \in Int
        BY <2>1, <2>2 DEF Month, Days
    <2>4. d >= latest - KeptDays
        BY <2>1, <2>2, <2>3
    <2> QED
        BY <2>1, <2>3, <2>4 DEF LedgerInv, KeptInv
<1> QED
    BY <1>1, <1>2, <1>3, PTL DEF Spec

-----------------------------------------------------------------------------
(* What the days add up to. *)

\* What is held of the table, in a reading and on the screen.
CountTypes ==
    /\ moved \in Nat /\ days \in [Days -> Nat \cup {NoRow}]
    /\ reads \in [1..MaxReads -> [at : {"idle", "delete", "getAll", "answer"}, cutoff : Int,
                                  rows : [Days -> Nat \cup {NoRow}]]]

\* Every day has its part of what was moved, and every coroutine what it is to add.
Deltas == [j \in 1..MaxJobs |-> jobs[j].delta]
Spent(u) == Total(u, Days) + Total(Deltas, 1..MaxJobs)

\* A row, wherever it is held, is at most the part of its day ...
HeldWithin(u) ==
    /\ \A d \in Days : Amount(daily[d]) <= u[d] /\ Amount(days[d]) <= u[d]
    /\ \A r \in 1..MaxReads, d \in Days : Amount(reads[r].rows[d]) <= u[d]

\* ... and so is what a coroutine has read.
JobsWithin(u) == \A j \in 1..MaxJobs :
    /\ jobs[j].at = "write" => jobs[j].entry <= u[jobs[j].day]
    /\ jobs[j].at = "idle" => jobs[j].delta = 0

\* The parts are within what was moved, and leave room for the next difference.
LeavesRoom(u) ==
    /\ Spent(u) <= moved
    /\ lastTraffic > 0 => Spent(u) + total - lastTraffic <= moved

CountInv ==
    CountTypes /\ \E u \in [Days -> Nat] : HeldWithin(u) /\ JobsWithin(u) /\ LeavesRoom(u)

LEMMA SetsAreFinite == IsFiniteSet(Days) /\ IsFiniteSet(1..MaxJobs)
    BY LedgerAssumption, FS_Interval DEF Days

LEMMA PartsAreNat ==
    ASSUME LedgerTypes, NEW u \in [Days -> Nat]
    PROVE  /\ Deltas \in [1..MaxJobs -> Nat]
           /\ Total(u, Days) \in Nat /\ Total(Deltas, 1..MaxJobs) \in Nat /\ Spent(u) \in Nat
<1>1. Deltas \in [1..MaxJobs -> Nat]
    BY DEF Deltas, LedgerTypes
<1>2. Total(u, Days) \in Nat /\ Total(Deltas, 1..MaxJobs) \in Nat
    BY <1>1, SetsAreFinite, TotalIsNat
<1> QED
    BY <1>1, <1>2 DEF Spent

LEMMA PartsAreNatNext ==
    ASSUME LedgerTypes', NEW u \in [Days -> Nat]
    PROVE  (Spent(u))' \in Nat
<1>1. Deltas' \in [1..MaxJobs -> Nat]
    BY DEF Deltas, LedgerTypes
<1>2. Total(u, Days) \in Nat /\ Total(Deltas', 1..MaxJobs) \in Nat
    BY <1>1, SetsAreFinite, TotalIsNat
<1> QED
    BY <1>2 DEF Spent

LEMMA CountInvInit == LedgerInit => CountInv
<1> SUFFICES ASSUME LedgerInit PROVE CountInv
    OBVIOUS
<1> DEFINE u == [d \in Days |-> 0]
<1>1. CountTypes
    BY DEF LedgerInit, CountTypes, NoRead, NoRow
<1>2. u \in [Days -> Nat] /\ \A d \in Days : u[d] = 0
    OBVIOUS
<1>3. HeldWithin(u)
    BY DEF LedgerInit, HeldWithin, Amount, NoRead, NoRow
<1>4. JobsWithin(u)
    BY DEF LedgerInit, JobsWithin, NoJob
<1>5. Spent(u) = 0
    <2>1. u = [d \in Days |-> 0] /\ Deltas = [j \in 1..MaxJobs |-> 0]
        BY DEF LedgerInit, Deltas, NoJob
    <2>2. Total(u, Days) = 0 /\ Total(Deltas, 1..MaxJobs) = 0
        BY <2>1, SetsAreFinite, TotalOfNothing, Zenon
    <2> QED
        BY <2>2 DEF Spent
<1>6. LeavesRoom(u)
    BY <1>5 DEF LeavesRoom, LedgerInit
<1> QED
    <2> HIDE DEF u
    <2> QED
        BY <1>1, <1>2, <1>3, <1>4, <1>6 DEF CountInv

LEMMA CountStep ==
    ASSUME LedgerTypes, LedgerTypes', CountInv,
           LedgerNext \/ LedgerEngineStarts \/ UNCHANGED ledgerVars
    PROVE  CountInv'
<1> USE DEF dateVars, jobVars, historyVars
<1>1. PICK u \in [Days -> Nat] : HeldWithin(u) /\ JobsWithin(u) /\ LeavesRoom(u)
    BY DEF CountInv
<1>2. /\ CountTypes /\ moved \in Nat /\ lastTraffic \in Nat /\ total \in Nat
      /\ DOMAIN jobs = 1..MaxJobs /\ DOMAIN reads = 1..MaxReads
    BY DEF CountInv, CountTypes, LedgerTypes
<1>3. Spent(u) \in Nat /\ (Spent(u))' \in Nat
    BY PartsAreNat, PartsAreNatNext
<1>4. CASE \/ Move \/ Midnight \/ Travel \/ Connected \/ LedgerEngineStarts
           \/ UNCHANGED ledgerVars
    <2>1. /\ UNCHANGED <<jobs, daily, reads, days>>
          /\ \/ moved' = moved + 1 /\ total' = total + 1 /\ lastTraffic' = lastTraffic
             \/ moved' = moved /\ total' \in {total, 0} /\ lastTraffic' \in {lastTraffic, 0}
        BY <1>4 DEF Move, Midnight, Travel, Connected, LedgerEngineStarts, ledgerVars
    <2>2. CountTypes' /\ HeldWithin(u)' /\ JobsWithin(u)' /\ (Spent(u))' = Spent(u)
        BY <1>1, <1>2, <2>1 DEF CountTypes, HeldWithin, JobsWithin, Spent, Deltas
    <2>3. LeavesRoom(u)'
        BY <1>1, <1>2, <1>3, <2>1, <2>2 DEF LeavesRoom
    <2> QED
        BY <2>2, <2>3 DEF CountInv
<1>5. CASE TrafficUpdated
    <2>1. UNCHANGED <<moved, daily, reads, days, total>> /\ lastTraffic' = total
        BY <1>5 DEF TrafficUpdated
    <2>2. CountTypes' /\ HeldWithin(u)'
        BY <1>1, <1>2, <2>1 DEF CountTypes, HeldWithin
    <2>3. CASE UNCHANGED jobs
        <3>1. JobsWithin(u)' /\ (Spent(u))' = Spent(u)
            BY <1>1, <2>3 DEF JobsWithin, Spent, Deltas
        <3>2. LeavesRoom(u)'
            BY <1>1, <1>2, <1>3, <2>1, <3>1 DEF LeavesRoom
        <3> QED
            BY <2>2, <3>1, <3>2 DEF CountInv
    <2>4. ASSUME NEW j \in 1..MaxJobs, Delta > 0, jobs[j].at = "idle",
                 jobs' = [jobs EXCEPT ![j] = [NoJob EXCEPT !.at = "read", !.day = today,
                                                           !.delta = Delta]]
          PROVE  CountInv'
        <3>1. lastTraffic > 0 /\ Delta = total - lastTraffic /\ Delta \in Nat
            BY <1>2, <2>4 DEF Delta
        <3>2. Deltas' = [Deltas EXCEPT ![j] = Delta] /\ Deltas[j] = 0
            BY <1>1, <1>2, <2>4 DEF Deltas, NoJob, LedgerTypes, JobsWithin
        <3>3. (Spent(u))' = Spent(u) + Delta
            <4>1. /\ Deltas' \in [1..MaxJobs -> Nat] /\ Deltas'[j] = Delta
                  /\ \A i \in (1..MaxJobs) \ {j} : Deltas'[i] = Deltas[i]
                <5> HIDE DEF Delta
                <5> QED
                    BY <3>1, <3>2, PartsAreNat
            <4>2. Total(Deltas', 1..MaxJobs) = Total(Deltas, 1..MaxJobs) + Delta
                <5>1. Total(Deltas', 1..MaxJobs)
                        = Total(Deltas, 1..MaxJobs) - Deltas[j] + Deltas'[j]
                    <6>1. Deltas \in [1..MaxJobs -> Nat]
                        BY PartsAreNat
                    <6>2. IsFiniteSet(1..MaxJobs)
                        BY SetsAreFinite
                    <6> DEFINE S == 1..MaxJobs
                               f == Deltas
                               e == Deltas'
                    <6>3. DiffersAt(e, f, S, j)
                        BY <4>1, <6>1, <6>2 DEF DiffersAt
                    <6> HIDE DEF S, f, e
                    <6>4. Total(e, S) = Total(f, S) - f[j] + e[j]
                        BY <6>3, TotalDiffers, Zenon
                    <6> QED
                        BY <6>4 DEF S, f, e
                <5> HIDE DEF Delta
                <5> QED
                    BY <3>1, <3>2, <4>1, <5>1, PartsAreNat
            <4> QED
                BY <3>1, <4>2, PartsAreNat DEF Spent
        <3>4. JobsWithin(u)'
            BY <1>1, <1>2, <2>4 DEF JobsWithin, NoJob, LedgerTypes
        <3>5. LeavesRoom(u)'
            BY <1>1, <1>2, <1>3, <2>1, <3>1, <3>3 DEF LeavesRoom
        <3> QED
            BY <2>2, <3>4, <3>5 DEF CountInv
    <2> QED
        BY <1>2, <1>5, <2>3, <2>4 DEF TrafficUpdated
<1>6. CASE GetByDate
    <2>1. PICK j \in 1..MaxJobs : /\ jobs[j].at = "read"
                                  /\ jobs' = [jobs EXCEPT ![j].at = "write",
                                              ![j].entry = Amount(daily[jobs[j].day])]
        BY <1>2, <1>6 DEF GetByDate
    <2>2. UNCHANGED <<moved, daily, reads, days, total, lastTraffic>>
        BY <1>6 DEF GetByDate
    <2>3. CountTypes' /\ HeldWithin(u)'
        BY <1>1, <1>2, <2>2 DEF CountTypes, HeldWithin
    <2>4. /\ jobs'[j].day = jobs[j].day /\ jobs'[j].at = "write" /\ jobs'[j].delta = jobs[j].delta
          /\ jobs'[j].entry = Amount(daily[jobs[j].day])
          /\ \A i \in 1..MaxJobs : i # j => jobs'[i] = jobs[i]
        BY <2>1, ZenonT(40) DEF LedgerTypes
    <2>5. Deltas' = Deltas
        BY <2>4 DEF Deltas
    <2>6. JobsWithin(u)'
        <3>1. jobs[j].day \in Days /\ "write" # "idle"
            BY DEF LedgerTypes
        <3>2. Amount(daily[jobs[j].day]) <= u[jobs[j].day]
            BY <1>1, <3>1 DEF HeldWithin
        <3> QED
            BY <1>1, <2>4, <3>1, <3>2 DEF JobsWithin
    <2>7. (Spent(u))' = Spent(u)
        BY <2>5 DEF Spent
    <2>8. LeavesRoom(u)'
        BY <1>1, <2>2, <2>7 DEF LeavesRoom
    <2> QED
        BY <2>3, <2>6, <2>8 DEF CountInv
<1>7. CASE Upsert
    <2>1. PICK j \in 1..MaxJobs :
              /\ jobs[j].at = "write"
              /\ daily' = [daily EXCEPT ![jobs[j].day] = jobs[j].entry + jobs[j].delta]
              /\ jobs' = [jobs EXCEPT ![j] = NoJob]
        BY <1>2, <1>7 DEF Upsert
    <2>2. UNCHANGED <<moved, reads, days, total, lastTraffic>>
        BY <1>7 DEF Upsert
    <2> DEFINE c == jobs[j].day
               x == jobs[j].delta
    <2>3. /\ c \in Days /\ x \in Nat /\ u[c] \in Nat /\ jobs[j].entry \in Nat
          /\ jobs[j].entry <= u[c]
        BY <1>1, <2>1 DEF LedgerTypes, JobsWithin
    <2>4. CountTypes'
        BY <1>2, <2>2 DEF CountTypes
    <2>5. PICK w \in [Days -> Nat] : w[c] = u[c] + x /\ \A d \in Days : d # c => w[d] = u[d]
        <3> HIDE DEF c, x
        <3>1. [u EXCEPT ![c] = u[c] + x] \in [Days -> Nat]
            BY <2>3
        <3> QED
            BY <2>3, <3>1
    <2>6. \A d \in Days : u[d] <= w[d] /\ u[d] \in Nat /\ w[d] \in Nat
        BY <2>3, <2>5
    <2>7. (Spent(w))' = Spent(u)
        <3>1. Deltas' = [Deltas EXCEPT ![j] = 0] /\ Deltas[j] = x /\ Deltas'[j] = 0
            BY <1>2, <2>1 DEF Deltas, NoJob, LedgerTypes
        <3>2. Total(Deltas', 1..MaxJobs) = Total(Deltas, 1..MaxJobs) - Deltas[j] + Deltas'[j]
            <4>1. /\ Deltas' \in [1..MaxJobs -> Nat]
                  /\ \A i \in (1..MaxJobs) \ {j} : Deltas'[i] = Deltas[i]
                BY <3>1, PartsAreNat
            <4> QED
                <5>1. Deltas \in [1..MaxJobs -> Nat]
                    BY PartsAreNat
                <5>2. IsFiniteSet(1..MaxJobs)
                    BY SetsAreFinite
                <5> DEFINE S == 1..MaxJobs
                           f == Deltas
                           e == Deltas'
                <5>3. DiffersAt(e, f, S, j)
                    BY <4>1, <5>1, <5>2 DEF DiffersAt
                <5> HIDE DEF S, f, e
                <5>4. Total(e, S) = Total(f, S) - f[j] + e[j]
                    BY <5>3, TotalDiffers, Zenon
                <5> QED
                    BY <5>4 DEF S, f, e
        <3>3. Total(Deltas', 1..MaxJobs) = Total(Deltas, 1..MaxJobs) - x
            BY <2>3, <3>1, <3>2, PartsAreNat
        <3>4. Total(w, Days) = Total(u, Days) - u[c] + (u[c] + x)
            <4> HIDE DEF c, x
            <4>1. \A d \in Days \ {c} : w[d] = u[d]
                BY <2>5
            <4> QED
                BY <2>3, <2>5, <4>1, SetsAreFinite, TotalFollows
        <3>5. Total(u, Days) \in Nat /\ Total(Deltas, 1..MaxJobs) \in Nat
            BY PartsAreNat
        <3> HIDE DEF c, x
        <3> QED
            BY <2>3, <3>3, <3>4, <3>5 DEF Spent
    <2>8. HeldWithin(w)'
        <3>1. jobs[j].entry + jobs[j].delta <= w[c]
            BY <2>3, <2>5
        <3>2. Amount(daily'[c]) = jobs[j].entry + jobs[j].delta
            BY <2>1, <2>3, SMTT(30) DEF Amount, NoRow, LedgerTypes
        <3>3. \A d \in Days : d # c => daily'[d] = daily[d]
            BY <2>1 DEF LedgerTypes
        <3>4. \A d \in Days : Amount(daily[d]) \in Nat /\ Amount(days[d]) \in Nat
            BY <1>2, AmountIsNat DEF LedgerTypes, CountTypes
        <3>5. \A r \in 1..MaxReads, d \in Days : Amount(reads[r].rows[d]) \in Nat
            <4>1. \A r \in 1..MaxReads : reads[r].rows \in [Days -> Nat \cup {NoRow}]
                BY <1>2 DEF CountTypes
            <4> QED
                BY <4>1, AmountIsNat
        <3> HIDE DEF c
        <3>6. \A d \in Days : Amount(daily'[d]) <= w[d] /\ Amount(days[d]) <= w[d]
            BY <1>1, <2>6, <3>1, <3>2, <3>3, <3>4 DEF HeldWithin
        <3>7. \A r \in 1..MaxReads, d \in Days : Amount(reads[r].rows[d]) <= w[d]
            BY <1>1, <2>6, <3>5 DEF HeldWithin
        <3> QED
            BY <2>2, <3>6, <3>7 DEF HeldWithin
    <2>9. JobsWithin(w)'
        <3>1. /\ NoJob.at = "idle" /\ NoJob.delta = 0 /\ "idle" # "write"
              /\ jobs'[j] = NoJob /\ \A i \in 1..MaxJobs : i # j => jobs'[i] = jobs[i]
            BY <1>2, <2>1 DEF NoJob
        <3>2. \A i \in 1..MaxJobs : jobs[i].entry \in Nat /\ jobs[i].day \in Days
            BY DEF LedgerTypes
        <3> HIDE DEF c
        <3>3. \A i \in 1..MaxJobs : jobs[i].entry <= u[jobs[i].day] => jobs[i].entry <= w[jobs[i].day]
            BY <2>6, <3>2
        <3> QED
            BY <1>1, <3>1, <3>3 DEF JobsWithin
    <2>10. LeavesRoom(w)'
        BY <1>1, <2>2, <2>7 DEF LeavesRoom
    <2> QED
        BY <2>4, <2>5, <2>8, <2>9, <2>10 DEF CountInv
<1>8. CASE GetTrafficHistory \/ DeleteBefore \/ GetAll \/ LoadHistory
    <2>1. UNCHANGED <<moved, jobs, total, lastTraffic>>
        BY <1>8 DEF GetTrafficHistory, DeleteBefore, GetAll, LoadHistory
    <2>2. JobsWithin(u)' /\ LeavesRoom(u)'
        BY <1>1, <2>1 DEF JobsWithin, LeavesRoom, Spent, Deltas
    <2> DEFINE Within(rows) ==
                   rows \in [Days -> Nat \cup {NoRow}] /\ \A d \in Days : Amount(rows[d]) <= u[d]
               Fine(rec) ==
                   /\ rec \in [at : {"idle", "delete", "getAll", "answer"}, cutoff : Int,
                               rows : [Days -> Nat \cup {NoRow}]]
                   /\ Within(rec.rows)
    <2>3. Within(daily) /\ Within(days) /\ \A r \in 1..MaxReads : Fine(reads[r])
        BY <1>1, <1>2 DEF HeldWithin, CountTypes, LedgerTypes
    <2>4. \A d \in Days : u[d] \in Nat
        OBVIOUS
    <2>5. Fine(NoRead)
        BY <2>4 DEF NoRead, NoRow, Amount
    <2>6. Cutoff \in Int
        BY LedgerAssumption DEF Cutoff, LedgerTypes, Days
    <2>7. /\ Fine([NoRead EXCEPT !.at = "delete", !.cutoff = Cutoff])
          /\ Fine([NoRead EXCEPT !.at = "getAll"])
          /\ Fine([NoRead EXCEPT !.at = "answer", !.rows = daily])
        <3> HIDE DEF Cutoff
        <3> QED
            BY <2>3, <2>5, <2>6 DEF NoRead
    <2>8. ASSUME NEW r \in 1..MaxReads, NEW rec, Fine(rec), NextRead(r, rec),
                 Within(daily'), Within(days')
          PROVE  CountInv'
        <3>1. \A q \in 1..MaxReads : reads'[q] \in {reads[q], rec}
            BY <1>2, <2>8 DEF NextRead, CountTypes
        <3>2. reads' = [q \in 1..MaxReads |-> reads'[q]]
            BY <1>2, <2>8 DEF NextRead, CountTypes
        <3>3. \A q \in 1..MaxReads : Fine(reads'[q])
            <4> HIDE DEF Fine
            <4> QED
                BY <2>3, <2>8, <3>1
        <3>4. CountTypes' /\ HeldWithin(u)'
            BY <1>2, <2>1, <2>8, <3>2, <3>3 DEF CountTypes, HeldWithin
        <3> QED
            BY <2>2, <3>4 DEF CountInv
    <2>9. CASE GetTrafficHistory
        BY <1>2, <2>3, <2>7, <2>8, <2>9 DEF GetTrafficHistory
    <2>10. CASE GetAll
        BY <1>2, <2>3, <2>7, <2>8, <2>10 DEF GetAll
    <2>11. CASE LoadHistory
        BY <1>2, <2>3, <2>5, <2>8, <2>11, SMTT(30) DEF LoadHistory
    <2>12. CASE DeleteBefore
        <3>1. \A d \in Days : daily'[d] \in {daily[d], NoRow}
            BY <2>12 DEF DeleteBefore
        <3>2. Amount(NoRow) = 0
            BY DEF Amount
        <3>3. daily' = [d \in Days |-> daily'[d]]
            BY <2>12 DEF DeleteBefore
        <3>4. Within(daily')
            BY <2>3, <2>4, <3>1, <3>2, <3>3
        <3>5. days' = days
            BY <2>12 DEF DeleteBefore
        <3> QED
            BY <1>2, <2>3, <2>7, <2>8, <2>12, <3>4, <3>5 DEF DeleteBefore
    <2> QED
        BY <1>8, <2>9, <2>10, <2>11, <2>12
<1>9. CASE Recreate
    <2>1. /\ UNCHANGED <<moved, daily, total>> /\ lastTraffic' = 0
          /\ jobs' = [j \in 1..MaxJobs |-> NoJob] /\ days' = [d \in Days |-> NoRow]
          /\ reads' = [r \in 1..MaxReads |-> NoRead]
        BY <1>2, <1>9 DEF Recreate
    <2>2. CountTypes'
        BY <1>2, <2>1 DEF CountTypes, NoRead, NoRow
    <2>3. HeldWithin(u)' /\ JobsWithin(u)'
        BY <1>1, <2>1 DEF HeldWithin, JobsWithin, NoRead, NoRow, Amount, NoJob
    <2>4. (Spent(u))' <= Spent(u)
        <3>1. Deltas' \in [1..MaxJobs -> Nat] /\ \A j \in 1..MaxJobs : Deltas'[j] <= Deltas[j]
            BY <2>1 DEF Deltas, NoJob, LedgerTypes
        <3>2. Total(Deltas', 1..MaxJobs) <= Total(Deltas, 1..MaxJobs)
            BY <3>1, SetsAreFinite, PartsAreNat, TotalGrows
        <3>3. Total(Deltas', 1..MaxJobs) \in Nat
            BY <3>1, SetsAreFinite, TotalIsNat
        <3> QED
            BY <3>2, <3>3, PartsAreNat DEF Spent
    <2>5. LeavesRoom(u)'
        BY <1>1, <1>2, <1>3, <2>1, <2>4 DEF LeavesRoom
    <2> QED
        BY <2>2, <2>3, <2>5 DEF CountInv
<1> QED
    BY <1>4, <1>5, <1>6, <1>7, <1>8, <1>9 DEF LedgerNext

\* The sum of the rows is one over the set of days.
LEMMA SumIsTotal ==
    ASSUME NEW table \in [Days -> Nat \cup {NoRow}]
    PROVE  Sum(table, Days) = Total([d \in Days |-> Amount(table[d])], Days)
<1> DEFINE f == [d \in Days |-> Amount(table[d])]
           Sums(h) == h = [s \in SUBSET Days |->
                              IF s = {} THEN 0 ELSE Amount(table[Pick(s)]) + h[s \ {Pick(s)}]]
           h == CHOOSE h : Sums(h)
<1>1. \A s \in SUBSET Days : s # {} => f[Pick(s)] = Amount(table[Pick(s)])
    <2>1. \A s \in SUBSET Days : s # {} => Pick(s) \in Days
        BY PickedIsIn
    <2> QED
        BY <2>1
<1>2. ASSUME NEW g PROVE IsSumming(g, f, Days) <=> Sums(g)
    <2> HIDE DEF f
    <2> QED
        BY <1>1 DEF IsSumming
<1>3. Sum(table, Days) = h[Days]
    BY DEF Sum, MapThenSumSet, MapThenFoldSet, Pick
<1>4. IsSumming(h, f, Days)
    <2> HIDE DEF f, Sums
    <2>1. \E g : Sums(g)
        BY <1>2, SetsAreFinite, SummingExists
    <2>2. Sums(h)
        BY <2>1
    <2> QED
        BY <1>2, <2>2
<1>5. PICK g : IsSumming(g, f, Days) /\ Total(f, Days) = g[Days]
    BY SetsAreFinite, TotalIs
<1>6. f \in [Days -> Nat]
    BY AmountIsNat
<1> HIDE DEF f, h
<1>7. g[Days] <= h[Days] /\ h[Days] <= g[Days] /\ g[Days] \in Nat /\ h[Days] \in Nat
    <2>1. \A d \in Days : f[d] <= f[d]
        BY <1>6
    <2> QED
        BY <1>4, <1>5, <1>6, <2>1, SetsAreFinite, SumsGrow, AnyFirst
<1> QED
    BY <1>3, <1>5, <1>7 DEF f

\* The days never add up to more than the engine moved, in the table and on the screen
\* (trafficUpdated, getByDate and upsert of its coroutines, getTrafficHistory): for any
\* number of days, overlapping coroutines and readings, and however often the engine and
\* the activity start anew.
THEOREM DaysNeverOvercount == Spec => []NeverOvercounts
<1>1. Init => LedgerInv /\ CountInv
    BY LedgerInvInit, CountInvInit DEF Init
<1>2. LedgerInv /\ CountInv /\ [Next]_vars => LedgerInv' /\ CountInv'
    <2> SUFFICES ASSUME LedgerInv, CountInv, [Next]_vars PROVE LedgerInv' /\ CountInv'
        OBVIOUS
    <2>1. LedgerNext \/ LedgerEngineStarts \/ UNCHANGED ledgerVars
        BY DEF Next, vars, Only, EngineStarts, EngineStops
    <2>2. LedgerInv'
        BY <2>1, LedgerStep
    <2> QED
        BY <2>1, <2>2, CountStep DEF LedgerInv
<1>3. LedgerInv /\ CountInv => NeverOvercounts
    <2> SUFFICES ASSUME LedgerTypes, CountInv PROVE NeverOvercounts
        BY DEF LedgerInv
    <2>1. PICK u \in [Days -> Nat] : HeldWithin(u) /\ LeavesRoom(u)
        BY DEF CountInv
    <2>2. ASSUME NEW table \in [Days -> Nat \cup {NoRow}],
                 \A d \in Days : Amount(table[d]) <= u[d]
          PROVE  Sum(table, Days) <= moved
        <3> DEFINE f == [d \in Days |-> Amount(table[d])]
        <3>1. f \in [Days -> Nat] /\ \A d \in Days : f[d] <= u[d]
            BY <2>2, AmountIsNat
        <3> HIDE DEF f
        <3>2. Total(f, Days) <= Total(u, Days) /\ Total(f, Days) \in Nat
            BY <3>1, SetsAreFinite, TotalGrows, TotalIsNat
        <3>3. moved \in Nat /\ Spent(u) <= moved
            BY <2>1 DEF CountInv, CountTypes, LeavesRoom
        <3>4. Total(f, Days) <= moved
            BY <3>2, <3>3, PartsAreNat DEF Spent
        <3>5. Sum(table, Days) = Total(f, Days)
            BY SumIsTotal DEF f
        <3> QED
            BY <3>4, <3>5
    <2>3. /\ daily \in [Days -> Nat \cup {NoRow}] /\ days \in [Days -> Nat \cup {NoRow}]
          /\ \A d \in Days : Amount(daily[d]) <= u[d] /\ Amount(days[d]) <= u[d]
        BY <2>1 DEF LedgerTypes, CountInv, CountTypes, HeldWithin
    <2> QED
        BY <2>2, <2>3 DEF NeverOvercounts
<1> QED
    BY <1>1, <1>2, <1>3, PTL DEF Spec

-----------------------------------------------------------------------------
(* The providers. *)

NoLists == [k \in Kinds |-> Nothing]

\* What is on the screen, and what each errand holds, of a kind: as new as the
\* latest update brought, unless the errand is known to be behind it.
ListedInv == \A k \in Kinds :
    /\ confirmed[k] <= version[k] /\ k \notin behind[k]
    /\ errand[k].at \in {"idle", "put"} /\ k \notin lost => lists[k] >= confirmed[k]
    /\ \A e \in Errands :
           errand[e].read[k] # Nothing => errand[e].read[k] >= confirmed[k] \/ e \in behind[k]

\* An errand has read what it is past.
ReadInv ==
    /\ \A e \in Errands :
          /\ errand[e].at \in {"idle", "put", "proxies"} => errand[e].read = NoLists
          /\ errand[e].at = "rules" => errand[e].read["proxies"] # Nothing
          /\ errand[e].at = "answer" => \A k \in Kinds : errand[e].read[k] # Nothing
    /\ ~watched => confirmed = NoLists /\ \A e \in Errands : errand[e].at = "idle"

ProvidersInv == ProvidersTypeOK /\ ReadInv /\ ListedInv

LEMMA KindsAreErrands ==
    /\ Kinds \subseteq Errands /\ "open" \in Errands \ Kinds
    /\ \A n \in Nothing..MaxFetched : n \in Int /\ n >= Nothing
    /\ MaxFetched \in Nat /\ Nothing \in Nothing..MaxFetched /\ 0..MaxFetched \subseteq Nothing..MaxFetched
    /\ NoLists \in Listed
    /\ NoErrand = [at |-> "idle", read |-> NoLists]
    BY ProvidersAssumption DEF Kinds, Errands, Nothing, NoErrand, NoLists, Listed

LEMMA ProvidersInvInit == ProvidersInit => ProvidersInv
<1> SUFFICES ASSUME ProvidersInit PROVE ProvidersInv
    OBVIOUS
<1>1. /\ version = [k \in Kinds |-> 0] /\ watched = FALSE /\ lists = NoLists
      /\ errand = [e \in Errands |-> [at |-> "idle", read |-> NoLists]]
      /\ confirmed = NoLists /\ behind = [k \in Kinds |-> {}] /\ lost = {}
    BY KindsAreErrands DEF ProvidersInit, NoLists
<1>2. 0 \in 0..MaxFetched
    BY ProvidersAssumption
<1>3. ProvidersTypeOK
    BY <1>1, <1>2, KindsAreErrands DEF ProvidersTypeOK
<1>4. ReadInv
    BY <1>1 DEF ReadInv
<1>5. ListedInv
    BY <1>1, KindsAreErrands DEF ListedInv, NoLists, Nothing
<1> QED
    BY <1>3, <1>4, <1>5 DEF ProvidersInv

\* What the steps do to the errands, one of which changes.
LEMMA OneErrand ==
    ASSUME ProvidersTypeOK, NEW e \in Errands, NEW x,
           errand' = [errand EXCEPT ![e] = x]
    PROVE  errand'[e] = x /\ \A f \in Errands : f # e => errand'[f] = errand[f]
    BY DEF ProvidersTypeOK

LEMMA Gone ==
    ASSUME ProvidersTypeOK, NEW e \in Errands, NEW at, Go(e, at)
    PROVE  /\ errand' = [errand EXCEPT ![e] = [at |-> at, read |-> errand[e].read]]
           /\ errand'[e] = [at |-> at, read |-> errand[e].read]
           /\ \A f \in Errands : f # e => errand'[f] = errand[f]
<1>1. errand[e] = [at |-> errand[e].at, read |-> errand[e].read]
    BY DEF ProvidersTypeOK
<1>2. \A a, r : [[at |-> a, read |-> r] EXCEPT !.at = at] = [at |-> at, read |-> r]
    OBVIOUS
<1>3. errand' = [errand EXCEPT ![e] = [errand[e] EXCEPT !.at = at]]
    BY DEF Go
<1>4. [errand[e] EXCEPT !.at = at] = [at |-> at, read |-> errand[e].read]
    BY <1>1, <1>2
<1>5. errand' = [errand EXCEPT ![e] = [at |-> at, read |-> errand[e].read]]
    BY <1>3, <1>4
<1> QED
    BY <1>5, OneErrand

LEMMA ProvidersStep ==
    ASSUME ProvidersInv, ProvidersNext \/ UNCHANGED providerVars
    PROVE  ProvidersInv'
<1>1. ProvidersTypeOK /\ ReadInv /\ ListedInv
    BY DEF ProvidersInv
<1>2. /\ version \in [Kinds -> 0..MaxFetched] /\ watched \in BOOLEAN /\ lists \in Listed
      /\ errand \in [Errands -> [at : {"idle", "put", "answer"} \cup Kinds, read : Listed]]
      /\ confirmed \in Listed /\ behind \in [Kinds -> SUBSET Errands] /\ lost \subseteq Kinds
    BY <1>1 DEF ProvidersTypeOK
<1>3. /\ \A k \in Kinds : version[k] \in Int /\ lists[k] \in Int /\ confirmed[k] \in Int
                          /\ lists[k] >= Nothing
      /\ \A e \in Errands, k \in Kinds : errand[e].read[k] \in Int
    BY <1>2, KindsAreErrands DEF Listed
<1> USE DEF HistoryStays
<1>4. CASE OpenProviders
    <2>1. /\ watched' /\ lists' = NoLists /\ ~watched
          /\ UNCHANGED <<version, confirmed, behind, lost>>
        BY <1>4 DEF OpenProviders, NoLists
    <2>2. /\ errand' = [errand EXCEPT !["open"] = [at |-> "proxies", read |-> errand["open"].read]]
          /\ errand'["open"] = [at |-> "proxies", read |-> errand["open"].read]
          /\ \A f \in Errands : f # "open" => errand'[f] = errand[f]
        BY <1>1, <1>4, Gone, KindsAreErrands DEF OpenProviders
    <2>3. errand["open"].read = NoLists /\ confirmed = NoLists
        BY <1>1, <2>1, KindsAreErrands DEF ReadInv
    <2>4. ProvidersTypeOK'
        BY <1>2, <2>1, <2>2, KindsAreErrands DEF ProvidersTypeOK, Kinds
    <2>5. ReadInv'
        BY <1>1, <2>1, <2>2, <2>3 DEF ReadInv
    <2>6. ListedInv'
        <3>1. \A k \in Kinds : k # "open" /\ k \in Errands
            BY KindsAreErrands
        <3>2. \A k \in Kinds : lists'[k] >= confirmed[k] /\ errand'["open"].read[k] = Nothing
            BY <1>3, <2>1, <2>2, <2>3 DEF NoLists, Nothing
        <3> QED
            BY <1>1, <2>1, <2>2, <3>1, <3>2 DEF ListedInv
    <2> QED
        BY <2>4, <2>5, <2>6 DEF ProvidersInv
<1>5. CASE LeaveProviders
    <2>1. /\ ~watched' /\ watched' \in BOOLEAN /\ UNCHANGED <<version, lists>> /\ lost' = {}
          /\ errand' = [e \in Errands |-> [at |-> "idle", read |-> NoLists]]
          /\ confirmed' = NoLists /\ behind' = [k \in Kinds |-> {}]
        BY <1>5, KindsAreErrands DEF LeaveProviders, NoLists
    <2>2. ProvidersTypeOK'
        BY <1>2, <2>1, KindsAreErrands DEF ProvidersTypeOK
    <2>3. ReadInv'
        BY <2>1 DEF ReadInv
    <2>4. ListedInv'
        <3>1. \A k \in Kinds : confirmed'[k] = Nothing /\ version[k] >= Nothing
            BY <1>2, <2>1 DEF NoLists, Nothing
        <3>2. \A e \in Errands, k \in Kinds : errand'[e].read[k] = Nothing
            BY <2>1 DEF NoLists
        <3> QED
            BY <1>3, <2>1, <3>1, <3>2 DEF ListedInv
    <2> QED
        BY <2>2, <2>3, <2>4 DEF ProvidersInv
<1>6. ASSUME NEW k \in Kinds, UpdateTap(k) \/ UpdateFails(k) PROVE ProvidersInv'
    <2>1. PICK at \in {"put", "idle"} : Go(k, at)
        BY <1>6 DEF UpdateTap, UpdateFails
    <2>2. /\ errand[k].at \in {"idle", "put"} /\ k \in Errands /\ watched
          /\ UNCHANGED <<version, watched, lists, confirmed, behind, lost>>
        BY <1>1, <1>6, KindsAreErrands DEF UpdateTap, UpdateFails, ReadInv
    <2>3. /\ errand' = [errand EXCEPT ![k] = [at |-> at, read |-> errand[k].read]]
          /\ errand'[k] = [at |-> at, read |-> errand[k].read]
          /\ \A f \in Errands : f # k => errand'[f] = errand[f]
        BY <1>1, <2>1, <2>2, Gone
    <2>4. ProvidersTypeOK'
        BY <1>2, <2>2, <2>3 DEF ProvidersTypeOK
    <2>5. ReadInv'
        BY <1>1, <2>2, <2>3 DEF ReadInv
    <2>6. ListedInv'
        BY <1>1, <2>2, <2>3, KindsAreErrands DEF ListedInv
    <2> QED
        BY <2>4, <2>5, <2>6 DEF ProvidersInv
<1>7. ASSUME NEW k \in Kinds, Updated(k) PROVE ProvidersInv'
    <2>1. /\ errand[k].at = "put" /\ version[k] < MaxFetched /\ k \in Errands /\ watched
          /\ version' = [version EXCEPT ![k] = version[k] + 1]
          /\ confirmed' = [confirmed EXCEPT ![k] = version[k] + 1]
          /\ behind' = [behind EXCEPT ![k] = HaveRead(k)] /\ lost' = lost \ {k}
          /\ Go(k, "proxies") /\ UNCHANGED <<watched, lists>>
        BY <1>1, <1>7, KindsAreErrands DEF Updated, ReadInv
    <2>2. /\ errand' = [errand EXCEPT ![k] = [at |-> "proxies", read |-> errand[k].read]]
          /\ errand'[k] = [at |-> "proxies", read |-> errand[k].read]
          /\ \A f \in Errands : f # k => errand'[f] = errand[f]
        BY <1>1, <2>1, Gone
    <2>3. /\ version[k] \in 0..MaxFetched /\ version[k] + 1 \in 0..MaxFetched
          /\ version[k] + 1 \in Nothing..MaxFetched
        BY <1>2, <2>1, KindsAreErrands DEF Nothing
    <2>4. HaveRead(k) \subseteq Errands
        BY DEF HaveRead
    <2>5. ProvidersTypeOK'
        <3>1. /\ version' \in [Kinds -> 0..MaxFetched] /\ confirmed' \in Listed
              /\ behind' \in [Kinds -> SUBSET Errands] /\ lost' \subseteq Kinds
            BY <1>2, <2>1, <2>3, <2>4 DEF Listed
        <3>2. errand' \in [Errands -> [at : {"idle", "put", "answer"} \cup Kinds, read : Listed]]
            BY <1>2, <2>1, <2>2 DEF Kinds
        <3> QED
            BY <1>2, <2>1, <3>1, <3>2 DEF ProvidersTypeOK
    <2>6. ReadInv'
        BY <1>1, <2>1, <2>2 DEF ReadInv
    <2>7. ListedInv'
        <3>1. errand[k].read = NoLists
            BY <1>1, <2>1 DEF ReadInv
        <3>2. ASSUME NEW j \in Kinds, j # k
              PROVE  /\ version'[j] = version[j] /\ confirmed'[j] = confirmed[j]
                     /\ behind'[j] = behind[j] /\ errand'[j] = errand[j] /\ j \in Errands
            BY <1>2, <2>1, <2>2, <3>2, KindsAreErrands
        <3>3. /\ version'[k] = version[k] + 1 /\ confirmed'[k] = version[k] + 1
              /\ behind'[k] = HaveRead(k)
            BY <1>2, <2>1 DEF Listed
        <3>4. \A e \in Errands, j \in Kinds : errand'[e].read[j] = errand[e].read[j]
            BY <2>2
        <3>5. \A e \in Errands : errand[e].read[k] # Nothing => e \in HaveRead(k)
            BY <3>1 DEF HaveRead, NoLists
        <3>6. k \notin HaveRead(k) /\ errand'[k].at = "proxies"
            BY <2>2 DEF HaveRead
        <3>7. \A j \in Kinds : j # k => (j \in lost' <=> j \in lost)
            BY <2>1
        <3>8. version[k] + 1 <= version[k] + 1 /\ UNCHANGED lists
            BY <1>3, <2>1
        <3> SUFFICES ASSUME NEW j \in Kinds
                     PROVE  /\ confirmed'[j] <= version'[j] /\ j \notin behind'[j]
                            /\ errand'[j].at \in {"idle", "put"} /\ j \notin lost' =>
                                   lists'[j] >= confirmed'[j]
                            /\ \A e \in Errands : errand'[e].read[j] # Nothing =>
                                   errand'[e].read[j] >= confirmed'[j] \/ e \in behind'[j]
            BY DEF ListedInv
        <3>9. CASE j = k
            BY <3>3, <3>4, <3>5, <3>6, <3>8, <3>9
        <3>10. CASE j # k
            BY <1>1, <3>2, <3>4, <3>7, <3>8, <3>10 DEF ListedInv
        <3> QED
            BY <3>9, <3>10
    <2> QED
        BY <2>5, <2>6, <2>7 DEF ProvidersInv
<1>8. ASSUME NEW e \in Errands, Get(e) PROVE ProvidersInv'
    <2> DEFINE k == errand[e].at
               at == IF k = "proxies" THEN "rules" ELSE "answer"
               read == [errand[e].read EXCEPT ![k] = version[k]]
    <2>1. /\ k \in Kinds /\ UNCHANGED <<version, watched, lists, confirmed, behind, lost>>
          /\ errand' = [errand EXCEPT ![e] = [at |-> at, read |-> read]]
        BY <1>8 DEF Get
    <2>2. errand[e].read \in Listed
        BY <1>2
    <2>3. version[k] \in Nothing..MaxFetched /\ version[k] # Nothing /\ version[k] \in Int
        BY <1>2, <2>1, KindsAreErrands DEF Nothing
    <2>4. /\ read \in Listed /\ read[k] = version[k]
          /\ \A j \in Kinds : j # k => read[j] = errand[e].read[j]
        BY <2>1, <2>2, <2>3 DEF Listed
    <2>6. /\ errand'[e] = [at |-> at, read |-> read]
          /\ \A f \in Errands : f # e => errand'[f] = errand[f]
        BY <1>1, <2>1, OneErrand, ZenonT(40)
    <2>7. at \in {"rules", "answer"} /\ (at = "rules" <=> k = "proxies") /\ watched
        BY <1>1, <2>1 DEF ReadInv, Kinds
    <2> HIDE DEF at, read, k
    <2>8. ProvidersTypeOK'
        <3>1. [at |-> at, read |-> read] \in [at : {"idle", "put", "answer"} \cup Kinds, read : Listed]
            BY <2>4, <2>7 DEF Kinds
        <3> QED
            BY <1>2, <2>1, <3>1 DEF ProvidersTypeOK
    <2>9. ReadInv'
        <3>1. at = "rules" => read["proxies"] # Nothing
            BY <2>3, <2>4, <2>7
        <3>2. at = "answer" => k = "rules" /\ errand[e].read["proxies"] # Nothing
            BY <1>1, <2>1, <2>7 DEF ReadInv, Kinds, k
        <3>3. at = "answer" => \A j \in Kinds : read[j] # Nothing
            BY <2>3, <2>4, <3>2 DEF Kinds
        <3> QED
            BY <1>1, <2>1, <2>6, <2>7, <3>1, <3>3 DEF ReadInv
    <2>10. ListedInv'
        <3>1. \A j \in Kinds : errand'[j].at \in {"idle", "put"} => errand[j].at = errand'[j].at
            BY <2>6, <2>7, KindsAreErrands
        <3>2. \A f \in Errands, j \in Kinds :
                  errand'[f].read[j] = errand[f].read[j] \/ (j = k /\ errand'[f].read[j] = version[k])
            BY <2>4, <2>6
        <3>3. version[k] >= confirmed[k]
            BY <1>1, <1>3, <2>1 DEF ListedInv
        <3> QED
            BY <1>1, <2>1, <3>1, <3>2, <3>3 DEF ListedInv
    <2> QED
        BY <2>8, <2>9, <2>10 DEF ProvidersInv
<1>9. ASSUME NEW e \in Errands, LoadFails(e) \/ TakeLists(e) PROVE ProvidersInv'
    <2>1. /\ UnderLoad(e) /\ UNCHANGED <<version, watched, confirmed>> /\ watched
          /\ errand' = [errand EXCEPT ![e] = [at |-> "idle", read |-> NoLists]]
          /\ behind' = [k \in Kinds |-> behind[k] \ {e}]
        BY <1>1, <1>9, KindsAreErrands DEF LoadFails, TakeLists, UnderLoad, ReadInv, Kinds
    <2>2. /\ errand'[e] = [at |-> "idle", read |-> NoLists]
          /\ \A f \in Errands : f # e => errand'[f] = errand[f]
        BY <1>1, <2>1, OneErrand
    <2>3. lists' \in Listed /\ lost' \subseteq Kinds /\ lost \subseteq lost'
        BY <1>2, <1>9 DEF LoadFails, TakeLists
    <2>4. ProvidersTypeOK'
        <3>1. behind' \in [Kinds -> SUBSET Errands]
            BY <1>2, <2>1
        <3>2. errand' \in [Errands -> [at : {"idle", "put", "answer"} \cup Kinds, read : Listed]]
            BY <1>2, <2>1, KindsAreErrands
        <3> QED
            BY <1>2, <2>1, <2>3, <3>1, <3>2 DEF ProvidersTypeOK
    <2>5. ReadInv'
        BY <1>1, <2>1, <2>2 DEF ReadInv
    <2>6. ListedInv'
        <3> SUFFICES ASSUME NEW k \in Kinds
                     PROVE  /\ confirmed[k] <= version[k] /\ k \notin behind'[k]
                            /\ errand'[k].at \in {"idle", "put"} /\ k \notin lost' =>
                                   lists'[k] >= confirmed[k]
                            /\ \A f \in Errands : errand'[f].read[k] # Nothing =>
                                   errand'[f].read[k] >= confirmed[k] \/ f \in behind'[k]
            BY <2>1 DEF ListedInv
        <3>1. \A f \in Errands : errand'[f].read[k] # Nothing =>
                   f # e /\ errand'[f] = errand[f]
            BY <2>2 DEF NoLists
        <3>2. \A f \in Errands : f # e => (f \in behind'[k] <=> f \in behind[k])
            BY <2>1
        <3>3. ASSUME errand'[k].at \in {"idle", "put"}, k \notin lost'
              PROVE  lists'[k] >= confirmed[k]
            <4>1. k \in Errands /\ k \notin lost
                BY <2>3, <3>3, KindsAreErrands
            <4>2. CASE LoadFails(e)
                <5>1. k # e /\ lists' = lists
                    BY <3>3, <4>2 DEF LoadFails
                <5> QED
                    BY <1>1, <2>2, <3>3, <4>1, <5>1 DEF ListedInv
            <4>3. CASE TakeLists(e)
                <5>1. lists'[k] = errand[e].read[k] /\ errand[e].read[k] # Nothing
                    BY <1>1, <4>3 DEF TakeLists, ReadInv
                <5>2. e \in behind[k] => UnderLoad(k)
                    BY <3>3, <4>3 DEF TakeLists
                <5>3. e \notin behind[k]
                    <6>1. CASE e = k
                        BY <1>1, <6>1 DEF ListedInv
                    <6>2. CASE e # k
                        BY <2>2, <3>3, <4>1, <5>2, <6>2 DEF UnderLoad, Kinds
                    <6> QED
                        BY <6>1, <6>2
                <5> QED
                    BY <1>1, <5>1, <5>3 DEF ListedInv
            <4> QED
                BY <1>9, <4>2, <4>3
        <3>4. confirmed[k] <= version[k] /\ k \notin behind'[k]
            BY <1>1, <2>1 DEF ListedInv
        <3> QED
            BY <1>1, <3>1, <3>2, <3>3, <3>4 DEF ListedInv
    <2> QED
        BY <2>4, <2>5, <2>6 DEF ProvidersInv
<1>10. CASE Refetch
    <2>1. PICK k \in Kinds : version[k] < MaxFetched /\ version' = [version EXCEPT ![k] = @ + 1]
        BY <1>10 DEF Refetch
    <2>2. UNCHANGED <<watched, lists, errand, confirmed, behind, lost>>
        BY <1>10 DEF Refetch
    <2>3. version[k] \in 0..MaxFetched /\ version[k] + 1 \in 0..MaxFetched
        BY <1>2, <2>1, KindsAreErrands
    <2>4. ProvidersTypeOK'
        BY <1>2, <2>1, <2>2, <2>3 DEF ProvidersTypeOK
    <2>5. \A j \in Kinds : version'[j] >= version[j] /\ version'[j] \in Int
        BY <1>2, <1>3, <2>1, <2>3
    <2>6. ReadInv'
        BY <1>1, <2>2 DEF ReadInv
    <2>7. ListedInv'
        <3>1. \A j \in Kinds : confirmed[j] <= version'[j]
            BY <1>1, <1>3, <2>5 DEF ListedInv
        <3> QED
            BY <1>1, <2>2, <3>1 DEF ListedInv
    <2> QED
        BY <2>4, <2>6, <2>7 DEF ProvidersInv
<1>11. CASE UNCHANGED providerVars
    <2>1. UNCHANGED <<version, watched, lists, errand, confirmed, behind, lost>>
        BY <1>11 DEF providerVars
    <2> QED
        BY <1>1, <2>1 DEF ProvidersInv, ProvidersTypeOK, ReadInv, ListedInv
<1> QED
    BY <1>4, <1>5, <1>6, <1>7, <1>8, <1>9, <1>10, <1>11 DEF ProvidersNext

\* A tile that is done with an update shows what the update brought, or newer,
\* whatever else is loaded at the time (providers_screen.dart: _onUpdate, _load).
THEOREM UpdatesAreListed == Spec => []UpdateIsListed
<1>1. Init => ProvidersInv
    BY ProvidersInvInit DEF Init
<1>2. ProvidersInv /\ [Next]_vars => ProvidersInv'
    <2> SUFFICES ASSUME ProvidersInv, [Next]_vars PROVE ProvidersInv'
        OBVIOUS
    <2>1. ProvidersNext \/ UNCHANGED providerVars
        BY DEF Next, vars, Only, EngineStarts, EngineStops
    <2> QED
        BY <2>1, ProvidersStep
<1>3. ProvidersInv => UpdateIsListed
    BY DEF ProvidersInv, ListedInv, UpdateIsListed
<1> QED
    BY <1>1, <1>2, <1>3, PTL DEF Spec
-----------------------------------------------------------------------------
(* The connections. *)

Polled == [conns : SUBSET Conn, late : BOOLEAN]
Has(k, c) == c \in answers[k].conns
Served == 1..Len(answers)

\* What this screen has shown once, is closing or has closed.
Known == listed \cup away \cup {c \in Conn : closing[c] # "none"}

ConnTypes ==
    /\ live \subseteq begun /\ begun \subseteq Conn
    /\ listed \subseteq begun /\ away \subseteq begun
    /\ answers \in Seq(Polled) /\ closing \in [Conn -> {"none", "asked", "done"}]
    /\ \A c \in Conn : closing[c] # "none" => c \in begun
    /\ \A k \in Served : answers[k].conns \subseteq begun

\* A connection is begun once: it is in answers that follow each other.
OnceInv ==
    /\ \A c \in Conn : \A i, j, k \in Served : i < j /\ j < k /\ Has(i, c) /\ Has(k, c) => Has(j, c)
    /\ \A c \in live : \A i, j \in Served : i < j /\ Has(i, c) => Has(j, c)

\* An answer in order comes from after the beginning of what the screen knows.
KnownInv ==
    \A c \in Known : \A j \in Served : ~answers[j].late =>
        /\ \A k \in Served : j < k /\ Has(k, c) => Has(j, c)
        /\ c \in live => Has(j, c)

\* What was closed is gone; only an overtaken answer has it that is not dismissed.
AwayInv ==
    /\ \A c \in Conn : closing[c] = "done" => c \notin live
    /\ \A c \in away : /\ c \notin live
                       /\ c \notin dismissed => \A k \in Served : Has(k, c) => answers[k].late

ConnInv == ConnTypes /\ OnceInv /\ KnownInv /\ AwayInv /\ ClosedStayAway

LEMMA ConnInvInit == ConnInit => ConnInv
<1> SUFFICES ASSUME ConnInit PROVE ConnInv
    OBVIOUS
<1>1. /\ live = {} /\ begun = {} /\ listed = {} /\ away = {} /\ answers = <<>>
      /\ closing = [c \in Conn |-> "none"]
    BY DEF ConnInit
<1>2. Served = {}
    BY <1>1 DEF Served
<1>3. ConnTypes
    BY <1>1, <1>2 DEF ConnTypes
<1> QED
    BY <1>1, <1>2, <1>3 DEF ConnInv, OnceInv, KnownInv, AwayInv, ClosedStayAway

\* An answer is served behind the others.
LEMMA ServedBehind ==
    ASSUME NEW s \in Seq(Polled), NEW a \in Polled
    PROVE  /\ Append(s, a) \in Seq(Polled) /\ Len(s) \in Nat /\ Len(Append(s, a)) = Len(s) + 1
           /\ \A k \in 1..Len(s) : Append(s, a)[k] = s[k]
           /\ Append(s, a)[Len(s) + 1] = a
    BY AppendProperties

LEMMA ServePollStep ==
    ASSUME ConnInv, ServePoll
    PROVE  ConnInv'
<1>1. ConnTypes /\ OnceInv /\ KnownInv /\ AwayInv /\ ClosedStayAway
    BY DEF ConnInv
<1>2. UNCHANGED <<live, begun, listed, dismissed, closing, away, stale>>
    BY DEF ServePoll, engineConns, viewVars
<1> DEFINE a == [conns |-> live, late |-> FALSE]
<1>3. CASE answers' = answers
    BY <1>1, <1>2, <1>3 DEF ConnInv, ConnTypes, OnceInv, KnownInv, AwayInv, ClosedStayAway, Has,
                            Served, Known
<1>4. CASE answers' = Append(answers, a)
    <2>1. a \in Polled /\ a.conns = live /\ ~a.late
        BY <1>1 DEF ConnTypes, Polled
    <2>2. PICK n \in Nat :
              /\ answers' \in Seq(Polled) /\ Len(answers) \in Nat
              /\ n = Len(answers) + 1 /\ Len(answers') = n
              /\ \A k \in Served : answers'[k] = answers[k]
              /\ answers'[n] = a
        BY <1>1, <1>4, <2>1, ServedBehind DEF ConnTypes, Served
    <2>3. /\ Served' = Served \cup {n}
          /\ \A k \in Served : k \in Nat /\ k < n
        BY <2>2 DEF Served
    <2> HIDE DEF a
    <2>4. /\ \A c \in Conn, k \in Served : Has(k, c)' <=> Has(k, c)
          /\ \A c \in Conn : Has(n, c)' <=> c \in live
        BY <2>1, <2>2, <2>3 DEF Has
    <2>5. ConnTypes'
        BY <1>1, <1>2, <2>1, <2>2, <2>3 DEF ConnTypes
    <2>6. \A i, j \in Served' : i < j => i \in Served /\ (j = n \/ j \in Served)
        BY <2>2, <2>3 DEF Served
    <2>7. OnceInv'
        <3>1. ASSUME NEW c \in Conn, NEW i \in Served', NEW j \in Served', NEW k \in Served',
                     i < j, j < k, Has(i, c)', Has(k, c)'
              PROVE  Has(j, c)'
            <4>1. i \in Served /\ j \in Served /\ (k = n \/ k \in Served)
                BY <2>6, <3>1
            <4> QED
                BY <1>1, <2>4, <3>1, <4>1 DEF OnceInv
        <3>2. ASSUME NEW c \in live', NEW i \in Served', NEW j \in Served', i < j, Has(i, c)'
              PROVE  Has(j, c)'
            <4>1. i \in Served /\ (j = n \/ j \in Served) /\ c \in live /\ c \in Conn
                BY <1>1, <1>2, <2>6, <3>2 DEF ConnTypes
            <4> QED
                BY <1>1, <2>4, <3>2, <4>1 DEF OnceInv
        <3> QED
            BY <3>1, <3>2 DEF OnceInv
    <2>8. Known' = Known /\ Known \subseteq Conn
        BY <1>1, <1>2 DEF Known, ConnTypes
    <2>9. KnownInv'
        <3> SUFFICES ASSUME NEW c \in Known, NEW j \in Served', ~answers'[j].late
                     PROVE  /\ \A k \in Served' : j < k /\ Has(k, c)' => Has(j, c)'
                            /\ c \in live => Has(j, c)'
            BY <1>2, <2>8 DEF KnownInv
        <3>1. CASE j = n
            BY <2>3, <2>4, <2>6, <2>8, <3>1
        <3>2. CASE j \in Served
            <4>1. /\ \A k \in Served : j < k /\ Has(k, c) => Has(j, c)
                  /\ c \in live => Has(j, c)
                BY <1>1, <2>2, <3>2 DEF KnownInv
            <4> QED
                BY <2>3, <2>4, <2>8, <3>2, <4>1
        <3> QED
            BY <2>3, <3>1, <3>2
    <2>10. AwayInv'
        <3>1. away \subseteq Conn
            BY <1>1 DEF ConnTypes
        <3> QED
            BY <1>1, <1>2, <2>2, <2>3, <2>4, <3>1 DEF AwayInv
    <2>11. ClosedStayAway'
        BY <1>1, <1>2 DEF ClosedStayAway
    <2> QED
        BY <2>5, <2>7, <2>9, <2>10, <2>11 DEF ConnInv
<1> QED
    BY <1>3, <1>4 DEF ServePoll, Answer

LEMMA TakePollStep ==
    ASSUME ConnInv, TakePoll
    PROVE  ConnInv'
<1>1. ConnTypes /\ OnceInv /\ KnownInv /\ AwayInv /\ ClosedStayAway
    BY DEF ConnInv
<1>2. UNCHANGED <<live, begun, closing, away>>
    BY DEF TakePoll, engineConns
<1>3. PICK i \in DOMAIN answers :
        /\ answers' = [k \in 1..(Len(answers) - 1) |->
               [answers[IF k < i THEN k ELSE k + 1] EXCEPT
                  !.late = @ \/ (IF k < i THEN k ELSE k + 1) < i \/ answers[i].late]]
        /\ stale' = answers[i].late
        /\ dismissed' = dismissed \cap answers[i].conns
        /\ listed' = answers[i].conns \ dismissed'
    BY DEF TakePoll, StillDismissed
<1> DEFINE m(k) == IF k < i THEN k ELSE k + 1
           late == answers[i].late
           n == Len(answers)
<1>4. n \in Nat /\ i \in Served /\ Served = 1..n /\ i \in Nat
    BY <1>1 DEF ConnTypes, Served
<1>5. \A k \in 1..(n - 1) : m(k) \in Served /\ m(k) # i
    BY <1>4
<1>6. \A j, k \in 1..(n - 1) : j < k => m(j) < m(k)
    BY <1>4
<1>7. /\ \A k \in Served : answers[k] \in Polled
      /\ answers' = [k \in 1..(n - 1) |-> [answers[m(k)] EXCEPT !.late = @ \/ m(k) < i \/ late]]
    BY <1>1, <1>3, <1>4 DEF ConnTypes
<1> HIDE DEF m, late, n
<1>8. \A k \in 1..(n - 1) :
          /\ answers'[k] \in Polled /\ answers'[k].conns = answers[m(k)].conns
          /\ ~answers'[k].late => ~answers[m(k)].late /\ ~(m(k) < i) /\ ~late
    <2> SUFFICES ASSUME NEW k \in 1..(n - 1)
                 PROVE  /\ answers'[k] \in Polled /\ answers'[k].conns = answers[m(k)].conns
                        /\ ~answers'[k].late => ~answers[m(k)].late /\ ~(m(k) < i) /\ ~late
        OBVIOUS
    <2>1. answers[m(k)] \in Polled
        BY <1>5, <1>7
    <2>2. answers'[k] = [answers[m(k)] EXCEPT !.late = answers[m(k)].late \/ m(k) < i \/ late]
        BY <1>7
    <2> QED
        BY <2>1, <2>2 DEF Polled
<1>9. answers' \in Seq(Polled) /\ Len(answers') = n - 1
    <2>1. n - 1 \in Nat
        BY <1>4
    <2>2. answers' = [k \in 1..(n - 1) |-> answers'[k]]
        BY <1>7
    <2> QED
        BY <1>8, <2>1, <2>2
<1>10. Served' = 1..(n - 1)
    BY <1>9 DEF Served
<1>11. \A k \in Served', c \in Conn : Has(k, c)' <=> Has(m(k), c)
    BY <1>8, <1>10 DEF Has
<1>12. /\ listed' \subseteq answers[i].conns /\ answers[i].conns \subseteq begun /\ begun \subseteq Conn
       /\ \A c \in listed' : Has(i, c)
    BY <1>1, <1>3, <1>4 DEF ConnTypes, Has
<1>13. \A k \in Served' : ~answers'[k].late => ~late /\ i < m(k) /\ ~answers[m(k)].late
    <2>1. \A k \in Served' : m(k) \in Nat
        BY <1>4, <1>5, <1>10
    <2> QED
        BY <1>4, <1>5, <1>8, <1>10, <2>1
<1>14. ConnTypes'
    BY <1>1, <1>2, <1>5, <1>8, <1>9, <1>10, <1>12 DEF ConnTypes
<1>15. OnceInv'
    BY <1>1, <1>2, <1>5, <1>6, <1>10, <1>11 DEF OnceInv, ConnTypes
<1>16. KnownInv'
    <2> SUFFICES ASSUME NEW c \in Known', NEW j \in Served', ~answers'[j].late
                 PROVE  /\ \A k \in Served' : j < k /\ Has(k, c)' => Has(j, c)'
                        /\ c \in live => Has(j, c)'
        BY <1>2 DEF KnownInv
    <2>1. c \in Conn /\ (c \in Known \/ Has(i, c))
        BY <1>1, <1>2, <1>12 DEF Known, ConnTypes
    <2>2. /\ m(j) \in Served /\ i < m(j) /\ ~answers[m(j)].late
          /\ \A k \in Served' : j < k => m(j) < m(k) /\ m(k) \in Served
        BY <1>5, <1>6, <1>10, <1>13
    <2>3. CASE c \in Known
        BY <1>1, <1>11, <2>1, <2>2, <2>3 DEF KnownInv
    <2>4. CASE Has(i, c)
        BY <1>1, <1>4, <1>11, <2>1, <2>2, <2>4 DEF OnceInv
    <2> QED
        BY <2>1, <2>3, <2>4
<1>17. AwayInv'
    <2> SUFFICES ASSUME NEW c \in away, c \notin dismissed',
                        NEW k \in Served', Has(k, c)', ~answers'[k].late
                 PROVE  FALSE
        BY <1>1, <1>2 DEF AwayInv
    <2>1. c \in Conn /\ c \in Known
        BY <1>1 DEF ConnTypes, Known
    <2>2. /\ m(k) \in Served /\ i < m(k) /\ ~answers[m(k)].late /\ ~late /\ Has(m(k), c)
        BY <1>5, <1>10, <1>11, <1>13, <2>1
    <2>3. c \in dismissed
        BY <1>1, <2>2 DEF AwayInv
    <2>4. Has(i, c)
        BY <1>1, <1>4, <2>1, <2>2 DEF KnownInv, late
    <2> QED
        BY <1>3, <2>3, <2>4 DEF Has
<1>18. ClosedStayAway'
    <2> SUFFICES ASSUME NEW c \in away, c \in listed', ~late PROVE FALSE
        BY <1>2, <1>3 DEF ClosedStayAway, late
    <2>1. Has(i, c) /\ c \notin dismissed
        BY <1>3, <1>12 DEF Has
    <2> QED
        BY <1>1, <1>4, <2>1 DEF AwayInv, late
<1> QED
    BY <1>14, <1>15, <1>16, <1>17, <1>18 DEF ConnInv

\* The other steps leave the answers as they are; what they take to be known,
\* closed or alive is little.
LEMMA ConnOthers ==
    ASSUME ConnInv, answers' = answers, ConnTypes',
           \A c \in live' : c \in live \/ c \notin begun,
           Known' \subseteq Known,
           \A c \in Conn : closing'[c] = "done" => c \notin live',
           \A c \in away' : c \notin live' /\ (c \in away \/ c \in dismissed'),
           dismissed \subseteq dismissed',
           ClosedStayAway'
    PROVE  ConnInv'
<1>1. ConnTypes /\ OnceInv /\ KnownInv /\ AwayInv
    BY DEF ConnInv
<1>2. Served' = Served
    BY DEF Served
<1>3. \A c \in live', k \in Served : Has(k, c) => c \in live
    BY <1>1 DEF ConnTypes, Has
<1>4. OnceInv'
    BY <1>1, <1>2, <1>3 DEF OnceInv, Has, ConnTypes
<1>5. Known \subseteq begun
    BY <1>1 DEF Known, ConnTypes
<1>6. KnownInv'
    BY <1>1, <1>2, <1>3, <1>5 DEF KnownInv, Has
<1>7. AwayInv'
    BY <1>1, <1>2 DEF AwayInv, Has
<1> QED
    BY <1>4, <1>6, <1>7 DEF ConnInv

LEMMA ConnInvStep ==
    ASSUME ConnInv, ConnNext \/ ConnEngineStops \/ UNCHANGED connVars
    PROVE  ConnInv'
<1>1. ConnTypes /\ OnceInv /\ KnownInv /\ AwayInv /\ ClosedStayAway
    BY DEF ConnInv
<1>t. /\ live \subseteq begun /\ begun \subseteq Conn /\ listed \subseteq begun /\ away \subseteq begun
      /\ answers \in Seq(Polled) /\ closing \in [Conn -> {"none", "asked", "done"}]
      /\ \A c \in Conn : closing[c] # "none" => c \in begun
      /\ \A k \in Served : answers[k].conns \subseteq begun
    BY <1>1 DEF ConnTypes
<1> USE DEF engineConns, viewVars, requestVars
<1>2. CASE CloseConnections
    <2>1. /\ answers' = <<>> /\ away' = {} /\ listed' = {} /\ UNCHANGED <<live, begun>>
          /\ closing' = [c \in Conn |-> "none"]
        BY <1>2 DEF CloseConnections
    <2>2. Served' = {}
        BY <2>1 DEF Served
    <2>3. ConnTypes'
        BY <1>t, <2>1, <2>2 DEF ConnTypes
    <2> QED
        BY <2>1, <2>2, <2>3 DEF ConnInv, OnceInv, KnownInv, AwayInv, ClosedStayAway
<1>3. CASE Begin \/ Finish \/ ConnEngineStops \/ ServeCloseAll
    <2>1. /\ UNCHANGED <<answers, listed, dismissed, closing, away, stale>>
          /\ \A c \in live' : c \in live \/ c \notin begun
          /\ live' \subseteq begun' /\ begun \subseteq begun' /\ begun' \subseteq Conn
        BY <1>t, <1>3 DEF Begin, Finish, ConnEngineStops, ServeCloseAll
    <2>2. ConnTypes' /\ Known' = Known /\ ClosedStayAway'
        BY <1>1, <1>t, <2>1 DEF ConnTypes, Known, ClosedStayAway, Served
    <2>3. /\ \A c \in Conn : closing'[c] = "done" => c \notin live'
          /\ \A c \in away' : c \notin live' /\ (c \in away \/ c \in dismissed')
        BY <1>1, <1>t, <2>1 DEF AwayInv
    <2> QED
        BY <2>1, <2>2, <2>3, ConnOthers
<1>4. CASE ServeClose
    <2>1. PICK c \in Conn : /\ closing[c] = "asked" /\ live' = live \ {c}
                            /\ closing' = [closing EXCEPT ![c] = Answer("done", "none")]
        BY <1>4 DEF ServeClose
    <2>2. UNCHANGED <<begun, answers, listed, dismissed, away, stale>>
        BY <1>4 DEF ServeClose
    <2>3. Answer("done", "none") \in {"done", "none"}
        BY DEF Answer
    <2>4. /\ closing' \in [Conn -> {"none", "asked", "done"}]
          /\ \A d \in Conn : closing'[d] # "none" => closing[d] # "none"
          /\ \A d \in Conn : closing'[d] = "done" => d \notin live'
        BY <1>1, <1>t, <2>1, <2>3 DEF AwayInv
    <2>5. ConnTypes' /\ Known' \subseteq Known /\ ClosedStayAway'
        BY <1>1, <1>t, <2>1, <2>2, <2>4 DEF ConnTypes, Known, ClosedStayAway, Served
    <2>6. \A d \in away' : d \notin live' /\ (d \in away \/ d \in dismissed')
        BY <1>1, <2>1, <2>2 DEF AwayInv
    <2> QED
        BY <2>1, <2>2, <2>4, <2>5, <2>6, ConnOthers
<1>5. CASE OpenConnections \/ PollTick \/ Pause \/ Resume \/ CloseAll \/ UNCHANGED connVars
    <2>1. UNCHANGED <<live, begun, answers, listed, dismissed, closing, away, stale>>
        BY <1>5 DEF OpenConnections, PollTick, Pause, Resume, CloseAll, connVars
    <2> QED
        BY <1>1, <2>1 DEF ConnInv, ConnTypes, OnceInv, KnownInv, AwayInv, ClosedStayAway, Has,
                          Served, Known
<1>6. CASE CloseOne
    <2>1. PICK c \in listed : closing' = [closing EXCEPT ![c] = "asked"]
        BY <1>6 DEF CloseOne
    <2>2. UNCHANGED <<live, begun, answers, listed, dismissed, away, stale>>
        BY <1>6 DEF CloseOne
    <2>3. /\ closing' \in [Conn -> {"none", "asked", "done"}]
          /\ \A d \in Conn : closing'[d] # "none" => closing[d] # "none" \/ d = c
          /\ \A d \in Conn : closing'[d] = "done" => closing[d] = "done"
        BY <1>t, <2>1
    <2>4. ConnTypes' /\ Known' \subseteq Known /\ ClosedStayAway'
        BY <1>1, <1>t, <2>1, <2>2, <2>3 DEF ConnTypes, Known, ClosedStayAway, Served
    <2>5. /\ \A d \in Conn : closing'[d] = "done" => d \notin live'
          /\ \A d \in away' : d \notin live' /\ (d \in away \/ d \in dismissed')
        BY <1>1, <2>2, <2>3 DEF AwayInv
    <2> QED
        BY <2>2, <2>4, <2>5, ConnOthers
<1>7. CASE Closed
    <2>1. PICK c \in Conn :
              /\ closing[c] = "done" /\ closing' = [closing EXCEPT ![c] = "none"]
              /\ dismissed' = dismissed \cup {c} /\ listed' = listed \ {c}
              /\ away' = away \cup {c}
        BY <1>7 DEF Closed
    <2>2. UNCHANGED <<live, begun, answers, stale>>
        BY <1>7 DEF Closed
    <2>3. c \in begun /\ c \in Known /\ c \notin live
        BY <1>1, <1>t, <2>1 DEF Known, AwayInv
    <2>4. /\ closing' \in [Conn -> {"none", "asked", "done"}]
          /\ \A d \in Conn : closing'[d] # "none" => closing[d] = closing'[d]
        BY <1>t, <2>1
    <2>5. ConnTypes' /\ Known' \subseteq Known /\ ClosedStayAway'
        BY <1>1, <1>t, <2>1, <2>2, <2>3, <2>4 DEF ConnTypes, Known, ClosedStayAway, Served
    <2>6. /\ \A d \in Conn : closing'[d] = "done" => d \notin live'
          /\ \A d \in away' : d \notin live' /\ (d \in away \/ d \in dismissed')
        BY <1>1, <2>1, <2>2, <2>3, <2>4 DEF AwayInv
    <2> QED
        BY <2>1, <2>2, <2>5, <2>6, ConnOthers
<1>8. CASE ClosedAll
    <2>1. UNCHANGED <<live, begun, answers, dismissed, closing, away, stale>> /\ listed' = {}
        BY <1>8 DEF ClosedAll
    <2>2. ConnTypes' /\ Known' \subseteq Known /\ ClosedStayAway'
        BY <1>1, <1>t, <2>1 DEF ConnTypes, Known, ClosedStayAway, Served
    <2>3. /\ \A d \in Conn : closing'[d] = "done" => d \notin live'
          /\ \A d \in away' : d \notin live' /\ (d \in away \/ d \in dismissed')
        BY <1>1, <2>1 DEF AwayInv
    <2> QED
        BY <2>1, <2>2, <2>3, ConnOthers
<1> QED
    BY <1>2, <1>3, <1>4, <1>5, <1>6, <1>7, <1>8, ServePollStep, TakePollStep
       DEF ConnNext, ConnDart, ConnEngine, ConnUser

\* A connection the user closed does not come back, unless answers overtook each
\* other (connections_screen.dart: _closeConnection, _poll).
THEOREM ClosedOnesStayAway == Spec => []ClosedStayAway
<1>1. Init => ConnInv
    BY ConnInvInit DEF Init
<1>2. ConnInv /\ [Next]_vars => ConnInv'
    <2> SUFFICES ASSUME ConnInv, [Next]_vars PROVE ConnInv'
        OBVIOUS
    <2>1. ConnNext \/ ConnEngineStops \/ UNCHANGED connVars
        BY DEF Next, vars, Only, EngineStarts, EngineStops
    <2> QED
        BY <2>1, ConnInvStep
<1>3. ConnInv => ClosedStayAway
    BY DEF ConnInv
<1> QED
    BY <1>1, <1>2, <1>3, PTL DEF Spec
-----------------------------------------------------------------------------
(* The card of the mode. *)

CardTypes ==
    /\ states \in Seq(BOOLEAN) /\ isVpnConnected \in BOOLEAN /\ patching \in BOOLEAN
    /\ up \in BOOLEAN /\ engineMode \in Modes
    /\ loads \in [Loads -> Modes \cup {"none", "asked", "failed"}]
    /\ patch \in Modes \cup {"none", "accepted", "refused"} /\ (patching <=> patch # "none")

\* The states on their way turn on and off by turns, up to what the engine is.
InTurn(s, shown, last) ==
    /\ s = <<>> => shown = last
    /\ s # <<>> => s[1] # shown /\ s[Len(s)] = last
    /\ \A k \in 1..(Len(s) - 1) : s[k + 1] # s[k]
TurnsInv == part = "mode" => InTurn(states, isVpnConnected, up)

\* A choice crosses the loads in progress; the others hold the engine's mode.
LoadInv ==
    /\ patching => Loading \subseteq crossed
    /\ \A l \in Loads : loads[l] \in Modes /\ l \notin crossed => loads[l] = engineMode

\* Nothing is on its way that would make the card read the mode anew.
AllAre(s, b) == \A k \in 1..Len(s) : s[k] = b
NoneOn(s) == AllAre(s, FALSE)
Quiet == Loading = {} /\ NoneOn(states)

ShownInv ==
    /\ ~adrift /\ ~patching /\ Quiet => mode = engineMode
    /\ ~adrift /\ patching /\ ~patchCrossed /\ Quiet =>
           /\ patch \in Modes => mode = patch /\ prev = engineMode
           /\ patch = "accepted" => mode = engineMode
           /\ patch = "refused" => prev = engineMode

CardInv == CardTypes /\ TurnsInv /\ LoadInv /\ ShownInv

LEMMA CardInvInit == Init => CardInv
<1> SUFFICES ASSUME Init PROVE CardInv
    OBVIOUS
<1>1. /\ states = <<>> /\ isVpnConnected = FALSE /\ up = FALSE
      /\ patching = FALSE /\ patch = "none" /\ loads = [l \in Loads |-> "none"]
      /\ mode = FirstMode /\ engineMode = FirstMode
    BY DEF Init, ModeInit
<1>2. CardTypes
    <2>1. states \in Seq(BOOLEAN)
        BY <1>1, EmptySeq
    <2>2. /\ loads \in [Loads -> Modes \cup {"none", "asked", "failed"}]
          /\ patch \in Modes \cup {"none", "accepted", "refused"} /\ engineMode \in Modes
        BY <1>1, ModeAssumption
    <2>3. up \in BOOLEAN /\ patching \in BOOLEAN /\ (patching <=> patch # "none")
        BY <1>1
    <2> QED
        BY <1>1, <2>1, <2>2, <2>3 DEF CardTypes
<1>3. TurnsInv
    <2>1. isVpnConnected = up /\ Len(states) = 0
        BY <1>1, EmptySeq
    <2> QED
        BY <1>1, <2>1 DEF TurnsInv, InTurn
<1>4. LoadInv
    BY <1>1, ModeAssumption DEF LoadInv
<1>5. ShownInv
    BY <1>1 DEF ShownInv
<1> QED
    BY <1>2, <1>3, <1>4, <1>5 DEF CardInv

\* One more state at the end, and one less at the beginning.
LEMMA OneMoreState ==
    ASSUME NEW B, NEW s \in Seq(B), NEW b \in B, NEW shown, NEW last, NEW off,
           InTurn(s, shown, last), b # last
    PROVE  /\ Append(s, b) \in Seq(B) /\ InTurn(Append(s, b), shown, b)
           /\ (AllAre(Append(s, b), off) => (AllAre(s, off) /\ b = off))
<1> DEFINE t == Append(s, b)
<1>1. /\ t \in Seq(B) /\ Len(s) \in Nat /\ Len(t) = Len(s) + 1
      /\ \A k \in 1..Len(s) : t[k] = s[k]
      /\ t[Len(s) + 1] = b
    BY AppendProperties
<1>2. t # <<>> /\ (s = <<>> <=> Len(s) = 0)
    BY <1>1, EmptySeq
<1> HIDE DEF t
<1>3. t[1] # shown /\ t[Len(t)] = b
    <2>1. CASE Len(s) = 0
        BY <1>1, <1>2, <2>1 DEF InTurn
    <2>2. CASE Len(s) # 0
        BY <1>1, <1>2, <2>2 DEF InTurn
    <2> QED
        BY <2>1, <2>2
<1>4. \A k \in 1..(Len(t) - 1) : t[k + 1] # t[k]
    <2> SUFFICES ASSUME NEW k \in 1..Len(s) PROVE t[k + 1] # t[k]
        BY <1>1
    <2>1. CASE k = Len(s)
        BY <1>1, <1>2, <2>1 DEF InTurn
    <2>2. CASE k # Len(s)
        BY <1>1, <2>2 DEF InTurn
    <2> QED
        BY <2>1, <2>2
<1>5. AllAre(t, off) => AllAre(s, off) /\ b = off
    BY <1>1 DEF AllAre
<1> QED
    BY <1>1, <1>2, <1>3, <1>4, <1>5 DEF InTurn, t

LEMMA OneLessState ==
    ASSUME NEW B, NEW s \in Seq(B), NEW shown, NEW last, NEW off,
           InTurn(s, shown, last), s # <<>>
    PROVE  /\ Tail(s) \in Seq(B) /\ Head(s) \in B /\ Head(s) # shown
           /\ InTurn(Tail(s), Head(s), last)
           /\ (Head(s) = off /\ AllAre(Tail(s), off) => AllAre(s, off))
<1> DEFINE t == Tail(s)
<1>1. /\ t \in Seq(B) /\ Len(s) \in Nat \ {0} /\ Len(t) = Len(s) - 1 /\ Head(s) = s[1]
      /\ \A k \in 1..Len(t) : t[k] = s[k + 1]
    BY HeadTailProperties
<1>2. (t = <<>> <=> Len(s) = 1) /\ s[1] \in B
    <2>1. t = <<>> <=> Len(t) = 0
        BY <1>1, EmptySeq
    <2>2. 1 \in 1..Len(s)
        BY <1>1
    <2>3. s[1] \in B
        BY <2>2, ElementOfSeq
    <2> HIDE DEF t
    <2> QED
        BY <1>1, <2>1, <2>3
<1> HIDE DEF t
<1>3. CASE Len(s) = 1
    <2>1. t = <<>> /\ Len(t) = 0 /\ s[Len(s)] = s[1] /\ s # <<>>
        BY <1>1, <1>2, <1>3
    <2>2. s[1] # shown /\ s[1] = last
        BY <2>1 DEF InTurn
    <2>3. InTurn(t, s[1], last)
        BY <2>1, <2>2 DEF InTurn
    <2>4. s[1] = off => AllAre(s, off)
        BY <1>3 DEF AllAre
    <2> QED
        BY <1>1, <1>2, <2>2, <2>3, <2>4 DEF t
<1>4. CASE Len(s) # 1
    <2>1. t[1] # s[1] /\ t[Len(t)] = last /\ s[1] # shown
        BY <1>1, <1>2, <1>4 DEF InTurn
    <2>2. \A k \in 1..(Len(t) - 1) : t[k + 1] # t[k]
        BY <1>1, <1>4 DEF InTurn
    <2>3. s[1] = off /\ AllAre(t, off) => AllAre(s, off)
        <3> SUFFICES ASSUME s[1] = off, AllAre(t, off), NEW k \in 1..Len(s) PROVE s[k] = off
            BY DEF AllAre
        <3>1. CASE k # 1
            <4>1. k - 1 \in 1..Len(t) /\ (k - 1) + 1 = k
                BY <1>1, <3>1
            <4>2. t[k - 1] = s[k]
                BY <1>1, <4>1
            <4> QED
                BY <4>1, <4>2 DEF AllAre
        <3> QED
            BY <3>1
    <2> QED
        BY <1>1, <1>2, <1>4, <2>1, <2>2, <2>3 DEF InTurn, t
<1> QED
    BY <1>3, <1>4

LEMMA CardStep ==
    ASSUME CardInv, UNCHANGED part,
           \/ part = "mode" /\ (ModeNext \/ (ApiStart /\ ModeEngineStarts)
                                         \/ (ApiStop /\ ModeEngineStops))
           \/ UNCHANGED cardVars /\ up' \in BOOLEAN /\ (part # "mode" \/ UNCHANGED up)
    PROVE  CardInv'
<1>1. CardTypes /\ TurnsInv /\ LoadInv /\ ShownInv
    BY DEF CardInv
<1>t. /\ states \in Seq(BOOLEAN) /\ isVpnConnected \in BOOLEAN /\ patching \in BOOLEAN
      /\ up \in BOOLEAN /\ engineMode \in Modes
      /\ loads \in [Loads -> Modes \cup {"none", "asked", "failed"}]
      /\ patch \in Modes \cup {"none", "accepted", "refused"} /\ (patching <=> patch # "none")
    BY <1>1 DEF CardTypes
<1>m. /\ "none" \notin Modes /\ "asked" \notin Modes /\ "failed" \notin Modes
      /\ "accepted" \notin Modes /\ "refused" \notin Modes
    BY ModeAssumption
<1>l. \A l \in Loads : loads[l] \in Modes => l \in Loading
    BY <1>m DEF Loading
<1> USE DEF loadVars, patchVars, apiVars
<1>2. CASE UNCHANGED cardVars /\ up' \in BOOLEAN /\ (part # "mode" \/ UNCHANGED up)
    BY <1>1, <1>2 DEF CardInv, CardTypes, TurnsInv, LoadInv, ShownInv, Quiet, Loading, cardVars
<1> SUFFICES ASSUME part = "mode",
                    ModeNext \/ (ApiStart /\ ModeEngineStarts) \/ (ApiStop /\ ModeEngineStops)
             PROVE  CardInv'
    BY <1>2
<1>u. InTurn(states, isVpnConnected, up)
    BY <1>1 DEF TurnsInv
<1>3. CASE (ApiStart /\ ModeEngineStarts) \/ (ApiStop /\ ModeEngineStops)
    <2>1. /\ up' \in BOOLEAN /\ up' # up /\ states' = Append(states, up')
          /\ UNCHANGED <<isVpnConnected, mode, patching, prev, patch, loads, adrift>>
        BY <1>t, <1>3 DEF ApiStart, ApiStop, ModeEngineStarts, ModeEngineStops
    <2>2. /\ states' \in Seq(BOOLEAN) /\ InTurn(states', isVpnConnected, up')
          /\ NoneOn(states') => NoneOn(states) /\ up' = FALSE
        <3> DEFINE b == up'
        <3>1. b \in BOOLEAN /\ b # up /\ states' = Append(states, b)
            BY <2>1
        <3> HIDE DEF b
        <3>2. /\ Append(states, b) \in Seq(BOOLEAN) /\ InTurn(Append(states, b), isVpnConnected, b)
              /\ (AllAre(Append(states, b), FALSE) => (AllAre(states, FALSE) /\ b = FALSE))
            <4> DEFINE B == BOOLEAN
                       off == FALSE
            <4>1. states \in Seq(B) /\ b \in B
                BY <1>t, <3>1
            <4>2. b # up
                BY <3>1
            <4> HIDE DEF B, off
            <4>3. /\ Append(states, b) \in Seq(B) /\ InTurn(Append(states, b), isVpnConnected, b)
                  /\ (AllAre(Append(states, b), off) => (AllAre(states, off) /\ b = off))
                BY <1>u, <4>1, <4>2, OneMoreState, Zenon
            <4> QED
                BY <4>3 DEF B, off
        <3> QED
            BY <3>1, <3>2 DEF b, NoneOn
    <2>3. CardTypes' /\ TurnsInv'
        <3>1. engineMode' \in Modes
            BY <1>t, <1>3 DEF ModeEngineStarts, ModeEngineStops
        <3>2. CardTypes'
            BY <1>t, <2>1, <2>2, <3>1, Zenon DEF CardTypes
        <3>3. TurnsInv'
            BY <2>1, <2>2 DEF TurnsInv
        <3> QED
            BY <3>2, <3>3
    <2>4. Loading' = Loading
        BY <2>1 DEF Loading
    <2>5. CASE ApiStart /\ ModeEngineStarts
        <3>1. up' /\ crossed' = crossed \cup Loading
            BY <2>5 DEF ApiStart, ModeEngineStarts
        <3>2. LoadInv'
            BY <1>l, <2>1, <2>4, <3>1 DEF LoadInv
        <3>3. ShownInv'
            BY <2>2, <3>1 DEF ShownInv, Quiet
        <3> QED
            BY <2>3, <3>2, <3>3 DEF CardInv
    <2>6. CASE ApiStop /\ ModeEngineStops
        <3>1. UNCHANGED <<engineMode, crossed, patchCrossed>>
            BY <2>6 DEF ModeEngineStops
        <3>2. LoadInv'
            BY <1>1, <2>1, <2>4, <3>1 DEF LoadInv
        <3>3. ShownInv'
            BY <1>1, <2>1, <2>2, <2>4, <3>1 DEF ShownInv, Quiet
        <3> QED
            BY <2>3, <3>2, <3>3 DEF CardInv
    <2> QED
        BY <1>3, <2>5, <2>6
<1>n. CASE ModeNext
    <2>u. UNCHANGED up
        BY <1>n DEF ModeNext
    <2>1. CASE ServeLoad
        <3>1. PICK l \in Loads : /\ loads[l] = "asked"
                                 /\ loads' = [loads EXCEPT ![l] = Answer(engineMode, "failed")]
            BY <2>1 DEF ServeLoad
        <3>2. UNCHANGED <<engineMode, states, isVpnConnected, mode, crossed, patching, prev,
                          patch, patchCrossed, adrift>>
            BY <2>1 DEF ServeLoad
        <3>3. Answer(engineMode, "failed") \in {engineMode, "failed"}
            BY DEF Answer
        <3>4. loads' \in [Loads -> Modes \cup {"none", "asked", "failed"}]
            BY <1>t, <3>1, <3>3
        <3>5. CardTypes' /\ TurnsInv'
            BY <1>1, <1>t, <2>u, <3>2, <3>4 DEF CardTypes, TurnsInv
        <3>6. Loading' = Loading /\ Loading # {}
            BY <1>t, <1>m, <3>1, <3>3 DEF Loading
        <3>7. LoadInv'
            BY <1>1, <1>t, <1>m, <3>1, <3>2, <3>3, <3>6 DEF LoadInv
        <3>8. ShownInv'
            BY <3>6 DEF ShownInv, Quiet
        <3> QED
            BY <3>5, <3>7, <3>8 DEF CardInv
    <2>2. CASE ServePatch
        <3>1. /\ patch \in Modes /\ patch' \in {"accepted", "refused"}
              /\ engineMode' = IF patch' = "accepted" THEN patch ELSE engineMode
              /\ UNCHANGED <<states, isVpnConnected, mode, loads, crossed, patching, prev,
                             patchCrossed, adrift>>
            BY <2>2 DEF ServePatch
        <3>2. patching /\ Loading' = Loading /\ Quiet' = Quiet
            BY <1>t, <1>m, <3>1 DEF Loading, Quiet
        <3>3. CardTypes' /\ TurnsInv'
            BY <1>1, <1>t, <2>u, <3>1, <3>2 DEF CardTypes, TurnsInv
        <3>4. LoadInv'
            BY <1>1, <1>l, <3>1, <3>2 DEF LoadInv
        <3>5. ShownInv'
            BY <1>1, <1>m, <3>1, <3>2 DEF ShownInv
        <3> QED
            BY <3>3, <3>4, <3>5 DEF CardInv
    <2>3. CASE TurnsOn \/ TurnsOff
        <3>1. /\ states # <<>> /\ states' = Tail(states) /\ isVpnConnected' = Head(states)
              /\ UNCHANGED <<engineMode, mode, patching, prev, patch, patchCrossed, adrift>>
            <4>1. Head(states) \in BOOLEAN
                BY <1>t, <2>3, HeadTailProperties DEF TurnsOn, TurnsOff
            <4> QED
                BY <2>3, <4>1 DEF TurnsOn, TurnsOff
        <3>2. /\ states' \in Seq(BOOLEAN) /\ Head(states) \in BOOLEAN
              /\ Head(states) # isVpnConnected /\ InTurn(states', isVpnConnected', up)
              /\ (Head(states) = FALSE /\ NoneOn(states') => NoneOn(states))
            <4>1. states # <<>>
                BY <3>1
            <4>2. /\ Tail(states) \in Seq(BOOLEAN) /\ Head(states) \in BOOLEAN
                  /\ Head(states) # isVpnConnected
                  /\ InTurn(Tail(states), Head(states), up)
                  /\ (Head(states) = FALSE /\ NoneOn(Tail(states)) => NoneOn(states))
                BY <1>t, <1>u, <4>1, OneLessState DEF NoneOn
            <4>3. states' = Tail(states) /\ isVpnConnected' = Head(states)
                BY <3>1
            <4> QED
                BY <4>2, <4>3
        <3>3. TurnsInv'
            BY <2>u, <3>2 DEF TurnsInv
        <3>4. CASE TurnsOff
            <4>1. UNCHANGED <<loads, crossed>> /\ Head(states) = FALSE
                BY <3>2, <3>4 DEF TurnsOff
            <4>2. Loading' = Loading
                BY <4>1 DEF Loading
            <4>3. CardTypes' /\ LoadInv'
                BY <1>1, <1>t, <2>u, <3>1, <3>2, <4>1, <4>2 DEF CardTypes, LoadInv
            <4>4. ShownInv'
                BY <1>1, <3>1, <3>2, <4>1, <4>2 DEF ShownInv, Quiet
            <4> QED
                BY <3>3, <4>3, <4>4 DEF CardInv
        <3>5. CASE TurnsOn
            <4>1. ~isVpnConnected
                BY <3>2, <3>5 DEF TurnsOn
            <4>2. PICK l \in Loads \ Loading :
                      /\ loads' = [loads EXCEPT ![l] = "asked"]
                      /\ crossed' = IF patching THEN crossed \cup {l} ELSE crossed
                BY <3>5, <4>1 DEF TurnsOn, LoadConfig
            <4>3. Loading' = Loading \cup {l}
                BY <1>t, <4>2 DEF Loading
            <4>4. CardTypes'
                BY <1>t, <2>u, <3>1, <3>2, <4>2 DEF CardTypes
            <4>5. LoadInv'
                BY <1>1, <1>t, <1>m, <3>1, <4>2, <4>3 DEF LoadInv
            <4>6. ShownInv'
                BY <4>3 DEF ShownInv, Quiet
            <4> QED
                BY <3>3, <4>4, <4>5, <4>6 DEF CardInv
        <3> QED
            BY <2>3, <3>4, <3>5
    <2>4. CASE TakeLoad
        <3>1. PICK l \in Loads :
                  /\ loads[l] \notin {"none", "asked"}
                  /\ loads' = [loads EXCEPT ![l] = "none"] /\ crossed' = crossed \ {l}
                  /\ IF loads[l] \in Modes
                     THEN mode' = loads[l] /\ adrift' = (l \in crossed)
                     ELSE UNCHANGED mode /\ adrift' = TRUE
            BY <2>4 DEF TakeLoad
        <3>2. UNCHANGED <<engineMode, states, isVpnConnected, patching, prev, patch, patchCrossed>>
            BY <2>4 DEF TakeLoad
        <3>3. l \in Loading /\ Loading' = Loading \ {l}
            BY <1>t, <3>1 DEF Loading
        <3>4. CardTypes' /\ TurnsInv'
            BY <1>1, <1>t, <2>u, <3>1, <3>2 DEF CardTypes, TurnsInv
        <3>5. LoadInv'
            BY <1>1, <1>t, <1>m, <3>1, <3>2, <3>3 DEF LoadInv
        <3>6. ~adrift' => loads[l] \in Modes /\ l \notin crossed /\ mode' = loads[l]
            BY <3>1
        <3>7. ~adrift' => ~patching /\ mode' = engineMode
            BY <1>1, <3>3, <3>6 DEF LoadInv
        <3>8. ShownInv'
            BY <3>2, <3>7 DEF ShownInv
        <3> QED
            BY <3>4, <3>5, <3>8 DEF CardInv
    <2>5. CASE SetMode
        <3>1. /\ ~patching /\ prev' = mode /\ mode' \in Modes /\ patching' = TRUE
              /\ patch' = mode' /\ patchCrossed' = (states # <<>> \/ ~up)
              /\ crossed' = crossed \cup Loading
              /\ UNCHANGED <<engineMode, states, isVpnConnected, loads, adrift>>
            BY <2>5 DEF SetMode
        <3>2. Loading' = Loading /\ Quiet' = Quiet
            BY <3>1 DEF Loading, Quiet
        <3>3. CardTypes' /\ TurnsInv'
            BY <1>1, <1>t, <1>m, <2>u, <3>1 DEF CardTypes, TurnsInv
        <3>4. LoadInv'
            BY <1>l, <3>1, <3>2 DEF LoadInv
        <3>5. ShownInv'
            BY <1>1, <1>m, <3>1, <3>2 DEF ShownInv
        <3> QED
            BY <3>3, <3>4, <3>5 DEF CardInv
    <2>6. CASE PatchAnswered
        <3>1. /\ patch \in {"accepted", "refused"} /\ patch' = "none"
              /\ patching' = FALSE /\ patchCrossed' = FALSE
              /\ mode' = IF patch = "refused" THEN prev ELSE mode
              /\ adrift' = (adrift \/ patchCrossed)
              /\ UNCHANGED <<engineMode, states, isVpnConnected, prev, loads, crossed>>
            BY <2>6 DEF PatchAnswered
        <3>2. Loading' = Loading /\ Quiet' = Quiet /\ patching
            BY <1>t, <3>1 DEF Loading, Quiet
        <3>3. CardTypes' /\ TurnsInv'
            BY <1>1, <1>t, <2>u, <3>1 DEF CardTypes, TurnsInv
        <3>4. LoadInv'
            BY <1>1, <3>1 DEF LoadInv
        <3>5. ShownInv'
            BY <1>1, <3>1, <3>2 DEF ShownInv
        <3> QED
            BY <3>3, <3>4, <3>5 DEF CardInv
    <2> QED
        BY <1>n, <2>1, <2>2, <2>3, <2>4, <2>5, <2>6 DEF ModeNext
<1> QED
    BY <1>3, <1>n

\* When the VPN is on and nothing is under way, the card shows the mode the engine
\* is in, unless the last answer it took was crossed (mode_card.dart: _loadConfig,
\* _setMode).
THEOREM CardsAgree == Spec => []CardAgrees
<1>1. Init => CardInv
    BY CardInvInit
<1>2. CardInv /\ [Next]_vars => CardInv'
    <2> SUFFICES ASSUME CardInv, [Next]_vars PROVE CardInv'
        OBVIOUS
    <2>1. UNCHANGED part
        BY DEF Next, vars, Only, EngineStarts, EngineStops
    <2>2. up' \in BOOLEAN
        <3>1. up \in BOOLEAN
            BY DEF CardInv, CardTypes
        <3>2. ApiStart \/ ApiStop \/ UNCHANGED up
            BY DEF Next, vars, EngineStarts, EngineStops, LogsNext, ConnNext, ModeNext, SettingsNext,
                   ProvidersNext, LedgerNext, apiVars
        <3> QED
            BY <3>1, <3>2 DEF ApiStart, ApiStop
    <2>3. \/ part = "mode" /\ (ModeNext \/ (ApiStart /\ ModeEngineStarts)
                                        \/ (ApiStop /\ ModeEngineStops))
          \/ UNCHANGED cardVars /\ part # "mode"
          \/ UNCHANGED cardVars /\ UNCHANGED up
        BY DEF Next, vars, Only, EngineStarts, EngineStops, apiVars
    <2> QED
        BY <2>1, <2>2, <2>3, CardStep
<1>3. CardInv => CardAgrees
    <2> SUFFICES ASSUME CardInv, states = <<>>, Loading = {}, ~patching, ~adrift
                 PROVE  mode = engineMode
        BY DEF CardAgrees
    <2>1. NoneOn(states)
        BY DEF NoneOn, AllAre
    <2> QED
        BY <2>1 DEF CardInv, ShownInv, Quiet
<1> QED
    BY <1>1, <1>2, <1>3, PTL DEF Spec
-----------------------------------------------------------------------------
(* A switch of the settings. *)

Answers == {"none", "accepted", "refused"}
Tapped(B) == [v : Values, prev : Values, answer : Answers, overlaps : B, crossed : B]

SettingsTypes ==
    /\ patches \in Seq(Tapped(BOOLEAN)) /\ setting \in Values /\ allowLan \in Values
    /\ load \in Values \cup {"none", "asked", "failed"}

\* While the configuration is loaded, every tap meets that load, and what is not
\* outdated when it arrives is the setting.
ConfigsInv ==
    /\ load # "none" => astray /\ \A k \in 1..Len(patches) : patches[k].crossed
    /\ load # "none" /\ patches # <<>> => outdated
    /\ load \in Values /\ ~outdated => load = setting

\* With nothing under way, and with a tap that nothing came across.
RestInv == patches = <<>> /\ ~astray => allowLan = setting
OneTapInv ==
    Len(patches) = 1 /\ ~patches[1].overlaps /\ ~patches[1].crossed =>
        /\ patches[1].answer \in {"none", "accepted"} => allowLan = patches[1].v
        /\ patches[1].answer = "accepted" => setting = patches[1].v
        /\ patches[1].answer \in {"none", "refused"} /\ ~astray => patches[1].prev = setting

\* Taps that overlap: some answer will leave the switch astray, or they are served
\* in order and the last tap is what the switch shows and what is asked for.
InOrder(s) == \A j, k \in 1..Len(s) : j < k /\ s[j].answer = "none" => s[k].answer # "accepted"
Undisturbed(s) ==
    InOrder(s) /\ \A k \in 1..Len(s) : ~s[k].crossed /\ s[k].answer # "refused"
OverlapInv ==
    /\ Len(patches) > 1 => \A k \in 1..Len(patches) : patches[k].overlaps
    /\ patches # <<>> /\ patches[1].overlaps /\ ~astray /\ Undisturbed(patches) =>
           IF patches[Len(patches)].answer = "none" THEN allowLan = patches[Len(patches)].v
           ELSE allowLan = setting

SwitchInv == SettingsTypes /\ ConfigsInv /\ RestInv /\ OneTapInv /\ OverlapInv

LEMMA TapShapes ==
    ASSUME NEW p \in Tapped(BOOLEAN), NEW b \in BOOLEAN
    PROVE  /\ p.v \in Values /\ p.prev \in Values /\ p.answer \in Answers
           /\ LET c == [p EXCEPT !.crossed = TRUE]
              IN  /\ c \in Tapped(BOOLEAN) /\ c.v = p.v /\ c.prev = p.prev
                  /\ c.answer = p.answer /\ c.overlaps = p.overlaps /\ c.crossed
           /\ LET o == [p EXCEPT !.overlaps = TRUE]
              IN  /\ o \in Tapped(BOOLEAN) /\ o.v = p.v /\ o.prev = p.prev
                  /\ o.answer = p.answer /\ o.overlaps /\ o.crossed = p.crossed
           /\ LET r == [p EXCEPT !.answer = "refused"]
              IN  /\ r \in Tapped(BOOLEAN) /\ r.v = p.v /\ r.prev = p.prev
                  /\ r.answer = "refused" /\ r.overlaps = p.overlaps /\ r.crossed = p.crossed
           /\ LET a == [p EXCEPT !.answer = "accepted", !.crossed = b]
              IN  /\ a \in Tapped(BOOLEAN) /\ a.v = p.v /\ a.prev = p.prev
                  /\ a.answer = "accepted" /\ a.overlaps = p.overlaps
                  /\ a.crossed = b
<1>1. p.v \in Values /\ p.prev \in Values /\ p.answer \in Answers
    BY DEF Tapped
<1>2. LET c == [p EXCEPT !.crossed = TRUE]
      IN  /\ c \in Tapped(BOOLEAN) /\ c.v = p.v /\ c.prev = p.prev
          /\ c.answer = p.answer /\ c.overlaps = p.overlaps /\ c.crossed
    BY DEF Tapped
<1>3. LET o == [p EXCEPT !.overlaps = TRUE]
      IN  /\ o \in Tapped(BOOLEAN) /\ o.v = p.v /\ o.prev = p.prev
          /\ o.answer = p.answer /\ o.overlaps /\ o.crossed = p.crossed
    BY DEF Tapped
<1>4. LET r == [p EXCEPT !.answer = "refused"]
      IN  /\ r \in Tapped(BOOLEAN) /\ r.v = p.v /\ r.prev = p.prev
          /\ r.answer = "refused" /\ r.overlaps = p.overlaps /\ r.crossed = p.crossed
    BY DEF Tapped, Answers
<1>5. LET a == [p EXCEPT !.answer = "accepted", !.crossed = b]
      IN  /\ a \in Tapped(BOOLEAN) /\ a.v = p.v /\ a.prev = p.prev
          /\ a.answer = "accepted" /\ a.overlaps = p.overlaps
          /\ a.crossed = b
    BY DEF Tapped, Answers
<1> QED
    BY <1>1, <1>2, <1>3, <1>4, <1>5

LEMMA MappedSeq ==
    ASSUME NEW X, NEW s \in Seq(X), NEW f, f = [k \in DOMAIN s |-> f[k]],
           \A k \in 1..Len(s) : f[k] \in X
    PROVE  f \in Seq(X) /\ Len(f) = Len(s)
<1>1. Len(s) \in Nat /\ DOMAIN s = 1..Len(s)
    BY LenProperties
<1>2. f \in [1..Len(s) -> X]
    BY <1>1
<1>3. f \in Seq(X)
    BY <1>1, <1>2, SeqDef
<1> QED
    BY <1>1, <1>2, <1>3, LenProperties

\* A sequence without its k-th element.
LEMMA Removed ==
    ASSUME NEW X, NEW s \in Seq(X), NEW k \in 1..Len(s)
    PROVE  /\ RemoveAt(s, k) \in Seq(X) /\ Len(RemoveAt(s, k)) = Len(s) - 1
           /\ \A j \in 1..(Len(s) - 1) :
                 RemoveAt(s, k)[j] = IF j < k THEN s[j] ELSE s[j + 1]
<1> DEFINE before == SubSeq(s, 1, k - 1)
           after == SubSeq(s, k + 1, Len(s))
           t == before \o after
<1>1. Len(s) \in Nat /\ k \in 1..Len(s) /\ \A i \in 1..Len(s) : s[i] \in X
    BY LenProperties, ElementOfSeq
<1>2. /\ before \in Seq(X) /\ Len(before) = k - 1
      /\ \A i \in 1..(k - 1) : before[i] = s[i]
    <2>1. \A i \in 1..(k - 1) : s[i] \in X
        BY <1>1
    <2>2. 1 \in Int /\ k - 1 \in Int
        BY <1>1
    <2>3. /\ before \in Seq(X) /\ Len(before) = IF 1 <= k - 1 THEN (k - 1) - 1 + 1 ELSE 0
          /\ \A i \in 1..((k - 1) - 1 + 1) : before[i] = s[1 + i - 1]
        BY <2>1, <2>2, SubSeqProperties
    <2> HIDE DEF before
    <2>4. Len(before) = k - 1
        BY <1>1, <2>3
    <2>5. \A i \in 1..(k - 1) : before[i] = s[i]
        <3> SUFFICES ASSUME NEW i \in 1..(k - 1) PROVE before[i] = s[i]
            OBVIOUS
        <3>1. i \in 1..((k - 1) - 1 + 1) /\ 1 + i - 1 = i
            BY <1>1
        <3> QED
            BY <2>3, <3>1
    <2> QED
        BY <2>3, <2>4, <2>5
<1>3. /\ after \in Seq(X) /\ Len(after) = Len(s) - k
      /\ \A i \in 1..(Len(s) - k) : after[i] = s[k + i]
    <2>1. \A i \in (k + 1)..Len(s) : s[i] \in X
        BY <1>1
    <2>2. k + 1 \in Int /\ Len(s) \in Int
        BY <1>1
    <2>3. /\ after \in Seq(X)
          /\ Len(after) = IF k + 1 <= Len(s) THEN Len(s) - (k + 1) + 1 ELSE 0
          /\ \A i \in 1..(Len(s) - (k + 1) + 1) : after[i] = s[(k + 1) + i - 1]
        BY <2>1, <2>2, SubSeqProperties
    <2> HIDE DEF after
    <2> QED
        BY <1>1, <2>3
<1>4. RemoveAt(s, k) = t
    BY DEF RemoveAt
<1> HIDE DEF before, after
<1>5. /\ t \in Seq(X) /\ Len(t) = Len(before) + Len(after)
      /\ \A i \in 1..(Len(before) + Len(after)) :
            t[i] = IF i <= Len(before) THEN before[i] ELSE after[i - Len(before)]
    BY <1>2, <1>3, ConcatProperties
<1> HIDE DEF t
<1>6. \A j \in 1..(Len(s) - 1) : t[j] = IF j < k THEN s[j] ELSE s[j + 1]
    <2> SUFFICES ASSUME NEW j \in 1..(Len(s) - 1)
                 PROVE  t[j] = IF j < k THEN s[j] ELSE s[j + 1]
        OBVIOUS
    <2>1. t[j] = IF j <= k - 1 THEN before[j] ELSE after[j - (k - 1)]
        BY <1>1, <1>2, <1>3, <1>5
    <2>2. CASE j < k
        BY <1>1, <1>2, <2>1, <2>2
    <2>3. CASE ~(j < k)
        <3>1. j - (k - 1) \in 1..(Len(s) - k) /\ k + (j - (k - 1)) = j + 1
            BY <1>1, <2>3
        <3>2. t[j] = after[j - (k - 1)]
            BY <1>1, <2>1, <2>3
        <3>3. after[j - (k - 1)] = s[k + (j - (k - 1))]
            BY <1>3, <3>1
        <3> QED
            BY <2>3, <3>1, <3>2, <3>3
    <2> QED
        BY <2>2, <2>3
<1> QED
    BY <1>1, <1>2, <1>3, <1>4, <1>5, <1>6

LEMMA SwitchInvInit == Init => SwitchInv
<1> SUFFICES ASSUME Init PROVE SwitchInv
    OBVIOUS
<1>1. /\ patches = <<>> /\ load = "asked" /\ astray = TRUE
      /\ setting = "off" /\ allowLan = "off" /\ outdated = FALSE
    BY DEF Init, SettingsInit
<1>2. patches \in Seq(Tapped(BOOLEAN)) /\ Len(patches) = 0
    BY <1>1, EmptySeq
<1> QED
    BY <1>1, <1>2 DEF SwitchInv, SettingsTypes, ConfigsInv, RestInv, OneTapInv, OverlapInv, Values

LEMMA SwitchStep ==
    ASSUME SwitchInv, SettingsNext \/ SettingsEngineStarts \/ UNCHANGED settingsVars
    PROVE  SwitchInv'
<1>t. /\ patches \in Seq(Tapped(BOOLEAN)) /\ setting \in Values /\ allowLan \in Values
      /\ load \in Values \cup {"none", "asked", "failed"}
      /\ ConfigsInv /\ RestInv /\ OneTapInv /\ OverlapInv
    BY DEF SwitchInv, SettingsTypes
<1>n. /\ Len(patches) \in Nat /\ DOMAIN patches = 1..Len(patches)
      /\ (patches = <<>> <=> Len(patches) = 0)
      /\ \A k \in 1..Len(patches) : patches[k] \in Tapped(BOOLEAN)
    BY <1>t, LenProperties, ElementOfSeq, EmptySeq
<1>v. Values = {"on", "off"} /\ Answers = {"none", "accepted", "refused"}
    BY DEF Values, Answers
<1>1. CASE UNCHANGED settingsVars
    BY <1>t, <1>1 DEF settingsVars, SwitchInv, SettingsTypes, ConfigsInv, RestInv, OneTapInv,
                      OverlapInv
<1>2. CASE SettingsEngineStarts
    <2>1. /\ setting' \in Values /\ astray' = TRUE
          /\ outdated' = (outdated \/ load \in Values)
          /\ UNCHANGED <<allowLan, load>>
        BY <1>2 DEF SettingsEngineStarts
    <2> DEFINE f == [k \in DOMAIN patches |->
                        IF patches[k].answer = "accepted"
                        THEN [patches[k] EXCEPT !.crossed = TRUE] ELSE patches[k]]
    <2>2. \A k \in 1..Len(patches) :
             /\ f[k] \in Tapped(BOOLEAN) /\ f[k].v = patches[k].v
             /\ f[k].prev = patches[k].prev /\ f[k].answer = patches[k].answer
             /\ f[k].overlaps = patches[k].overlaps
             /\ patches[k].crossed \/ patches[k].answer = "accepted" => f[k].crossed
        BY <1>n, TapShapes, ZenonT(40)
    <2>3. patches' = f /\ f = [k \in DOMAIN patches |-> f[k]]
        BY <1>2 DEF SettingsEngineStarts
    <2> HIDE DEF f
    <2>4. f \in Seq(Tapped(BOOLEAN)) /\ Len(f) = Len(patches)
        <3>1. (\A k \in 1..Len(patches) : f[k] \in Tapped(BOOLEAN)) /\ f = [k \in DOMAIN patches |-> f[k]]
            BY <2>2, <2>3
        <3> QED
            BY <1>t, <3>1, MappedSeq
    <2>5. patches' = <<>> <=> patches = <<>>
        BY <1>n, <2>3, <2>4, EmptySeq
    <2>6. ConfigsInv'
        BY <1>t, <1>n, <2>1, <2>2, <2>3, <2>4, <2>5 DEF ConfigsInv
    <2>7. OneTapInv'
        BY <1>t, <1>n, <2>1, <2>2, <2>3, <2>4 DEF OneTapInv
    <2>8. OverlapInv'
        BY <1>t, <1>n, <2>1, <2>2, <2>3, <2>4 DEF OverlapInv
    <2> QED
        BY <1>t, <2>1, <2>3, <2>4, <2>6, <2>7, <2>8 DEF SwitchInv, SettingsTypes, RestInv
<1>3. CASE ServeConfigs
    <2>1. /\ load = "asked" /\ load' \in {setting, "failed"}
          /\ UNCHANGED <<setting, allowLan, outdated, patches, astray>>
        BY <1>3 DEF ServeConfigs, Answer
    <2>2. SettingsTypes' /\ RestInv' /\ OneTapInv' /\ OverlapInv'
        BY <1>t, <2>1 DEF SettingsTypes, RestInv, OneTapInv, OverlapInv
    <2>3. ConfigsInv'
        BY <1>t, <1>v, <2>1 DEF ConfigsInv
    <2> QED
        BY <2>2, <2>3 DEF SwitchInv
<1>4. CASE OpenApp
    <2>1. /\ patches' = <<>> /\ load' = "asked" /\ astray' = TRUE /\ allowLan' = "off"
        BY <1>4 DEF OpenApp
    <2>2. setting' \in Values
        <3>1. PICK s \in {setting} \cup {patches[k].v : k \in DOMAIN patches} : setting' = s
            BY <1>4 DEF OpenApp
        <3>2. \A k \in DOMAIN patches : patches[k].v \in Values
            BY <1>n, TapShapes, ZenonT(40)
        <3> QED
            BY <1>t, <3>1, <3>2
    <2>3. patches' \in Seq(Tapped(BOOLEAN)) /\ Len(patches') = 0
        BY <2>1, EmptySeq
    <2> QED
        BY <1>v, <2>1, <2>2, <2>3
           DEF SwitchInv, SettingsTypes, ConfigsInv, RestInv, OneTapInv, OverlapInv
<1>5. CASE TakeConfigs
    <2>1. /\ load \notin {"none", "asked"} /\ load' = "none" /\ UNCHANGED setting
          /\ load \in Values => allowLan' = load /\ astray' = outdated
          /\ load \notin Values => UNCHANGED <<allowLan, astray>>
        BY <1>5 DEF TakeConfigs
    <2> DEFINE f == [k \in DOMAIN patches |-> [patches[k] EXCEPT !.crossed = TRUE]]
    <2>2. \A k \in 1..Len(patches) :
             /\ f[k] \in Tapped(BOOLEAN) /\ f[k].crossed
             /\ f[k].overlaps = patches[k].overlaps
        BY <1>n, TapShapes
    <2>3. patches' = f /\ f = [k \in DOMAIN patches |-> f[k]]
        BY <1>5 DEF TakeConfigs
    <2> HIDE DEF f
    <2>4. f \in Seq(Tapped(BOOLEAN)) /\ Len(f) = Len(patches)
        BY <1>t, <2>2, <2>3, MappedSeq
    <2>5. patches' = <<>> <=> patches = <<>>
        BY <1>n, <2>3, <2>4, EmptySeq
    <2>6. RestInv'
        BY <1>t, <2>1, <2>5 DEF RestInv, ConfigsInv
    <2>7. OneTapInv'
        BY <1>n, <2>2, <2>3, <2>4 DEF OneTapInv
    <2>8. OverlapInv'
        <3>1. patches' # <<>> => ~Undisturbed(patches')
            <4> SUFFICES ASSUME patches' # <<>> PROVE ~Undisturbed(patches')
                OBVIOUS
            <4>1. 1 \in 1..Len(patches)
                BY <1>n, <2>5
            <4>2. 1 \in 1..Len(patches') /\ patches'[1].crossed
                BY <2>2, <2>3, <2>4, <4>1
            <4> QED
                BY <4>2 DEF Undisturbed
        <3>2. Len(patches') > 1 => \A k \in 1..Len(patches') : patches'[k].overlaps
            BY <1>t, <2>2, <2>3, <2>4 DEF OverlapInv
        <3> QED
            BY <3>1, <3>2 DEF OverlapInv
    <2>9. SettingsTypes'
        BY <1>t, <2>1, <2>3, <2>4 DEF SettingsTypes
    <2>10. ConfigsInv'
        BY <1>v, <2>1 DEF ConfigsInv
    <2> QED
        BY <2>6, <2>7, <2>8, <2>9, <2>10 DEF SwitchInv
<1>6. CASE Tap
    <2> DEFINE f == [k \in DOMAIN patches |-> [patches[k] EXCEPT !.overlaps = TRUE]]
               p == Patch(Other(allowLan), allowLan)
    <2>1. /\ allowLan' = Other(allowLan) /\ patches' = Append(f, p)
          /\ outdated' = (load # "none") /\ UNCHANGED <<setting, load, astray>>
        BY <1>6 DEF Tap
    <2>2. Other(allowLan) \in Values
        BY <1>v DEF Other
    <2>3. /\ p \in Tapped(BOOLEAN) /\ p.v = allowLan' /\ p.prev = allowLan /\ p.answer = "none"
          /\ (p.overlaps <=> patches # <<>>) /\ (p.crossed <=> load # "none")
        BY <1>t, <1>v, <2>1, <2>2 DEF Patch, Tapped
    <2>4. \A k \in 1..Len(patches) :
             /\ f[k] \in Tapped(BOOLEAN) /\ f[k].overlaps
             /\ f[k].answer = patches[k].answer /\ f[k].crossed = patches[k].crossed
        BY <1>n, TapShapes
    <2>5. f = [k \in DOMAIN patches |-> f[k]]
        OBVIOUS
    <2> HIDE DEF f, p
    <2>6. f \in Seq(Tapped(BOOLEAN)) /\ Len(f) = Len(patches)
        BY <1>t, <2>4, <2>5, MappedSeq
    <2>7. /\ patches' \in Seq(Tapped(BOOLEAN)) /\ Len(patches') = Len(patches) + 1
          /\ patches' # <<>> /\ patches'[Len(patches) + 1] = p
          /\ \A k \in 1..Len(patches) : patches'[k] = f[k]
        BY <1>n, <2>1, <2>3, <2>6, AppendProperties, EmptySeq
    <2>8. SettingsTypes'
        BY <1>t, <2>1, <2>2, <2>7 DEF SettingsTypes
    <2>9. ConfigsInv'
        <3>1. load' # "none" => astray' /\ \A k \in 1..Len(patches') : patches'[k].crossed
            <4> SUFFICES ASSUME load # "none", NEW k \in 1..(Len(patches) + 1)
                         PROVE  astray /\ patches'[k].crossed
                BY <2>1, <2>7
            <4>1. CASE k \in 1..Len(patches)
                BY <1>t, <2>4, <2>7, <4>1 DEF ConfigsInv
            <4>2. CASE k = Len(patches) + 1
                BY <1>t, <2>3, <2>7, <4>2 DEF ConfigsInv
            <4> QED
                BY <1>n, <4>1, <4>2
        <3>2. load' \in Values => outdated'
            BY <1>v, <2>1
        <3> QED
            BY <2>1, <3>1, <3>2 DEF ConfigsInv
    <2>10. OneTapInv'
        <3> SUFFICES ASSUME Len(patches') = 1, ~patches'[1].overlaps, ~patches'[1].crossed
                     PROVE  /\ patches'[1].answer = "none" /\ allowLan' = patches'[1].v
                            /\ ~astray' => patches'[1].prev = setting'
            BY DEF OneTapInv
        <3>1. Len(patches) = 0 /\ patches'[1] = p
            BY <1>n, <2>7
        <3> QED
            BY <1>t, <1>n, <2>1, <2>3, <3>1 DEF RestInv
    <2>11. OverlapInv'
        <3>1. ASSUME Len(patches') > 1, NEW k \in 1..Len(patches') PROVE patches'[k].overlaps
            <4>1. CASE k \in 1..Len(patches)
                BY <2>4, <2>7, <4>1
            <4>2. CASE k = Len(patches) + 1
                BY <1>n, <2>3, <2>7, <3>1, <4>2
            <4> QED
                BY <1>n, <2>7, <4>1, <4>2
        <3>2. patches'[Len(patches')].answer = "none" /\ allowLan' = patches'[Len(patches')].v
            BY <2>3, <2>7
        <3> QED
            BY <3>1, <3>2 DEF OverlapInv
    <2> QED
        BY <2>7, <2>8, <2>9, <2>10, <2>11 DEF SwitchInv, RestInv
<1>7. CASE ServeSwitch
    <2>1. PICK k \in DOMAIN patches :
              /\ patches[k].answer = "none"
              /\ \/ setting' = patches[k].v /\ patches' = [patches EXCEPT ![k] = Accepted(k)]
                 \/ /\ patches' = [patches EXCEPT ![k].answer = "refused"]
                    /\ UNCHANGED setting
        BY <1>7 DEF ServeSwitch
    <2>2. UNCHANGED <<allowLan, load, outdated, astray>>
        BY <1>7 DEF ServeSwitch
    <2>3. k \in 1..Len(patches) /\ patches # <<>>
        BY <1>n, <2>1
    <2>4. PICK e \in Tapped(BOOLEAN) :
              /\ patches' = [patches EXCEPT ![k] = e]
              /\ e.v = patches[k].v /\ e.prev = patches[k].prev
              /\ e.overlaps = patches[k].overlaps /\ (patches[k].crossed => e.crossed)
              /\ \/ /\ e.answer = "accepted" /\ setting' = patches[k].v
                    /\ e.crossed <=> (patches[k].crossed
                                      \/ \E i \in 1..Len(patches) :
                                            i > k /\ patches[i].answer = "accepted")
                 \/ e.answer = "refused" /\ UNCHANGED setting
        <3>1. patches[k] \in Tapped(BOOLEAN)
            BY <1>n, <2>3
        <3>2. CASE setting' = patches[k].v /\ patches' = [patches EXCEPT ![k] = Accepted(k)]
            <4> DEFINE b == patches[k].crossed
                            \/ \E i \in DOMAIN patches : i > k /\ patches[i].answer = "accepted"
            <4>1. b \in BOOLEAN
                OBVIOUS
            <4>2. Accepted(k) = [patches[k] EXCEPT !.answer = "accepted", !.crossed = b]
                BY DEF Accepted
            <4>3. b <=> (patches[k].crossed
                         \/ \E i \in 1..Len(patches) : i > k /\ patches[i].answer = "accepted")
                BY <1>n
            <4> HIDE DEF b
            <4>4. /\ Accepted(k) \in Tapped(BOOLEAN) /\ Accepted(k).v = patches[k].v
                  /\ Accepted(k).prev = patches[k].prev /\ Accepted(k).answer = "accepted"
                  /\ Accepted(k).overlaps = patches[k].overlaps
                  /\ Accepted(k).crossed = b
                BY <3>1, <4>1, <4>2 DEF Tapped, Answers
            <4> QED
                BY <3>2, <4>3, <4>4
        <3>3. CASE patches' = [patches EXCEPT ![k].answer = "refused"] /\ UNCHANGED setting
            <4> DEFINE r == [patches[k] EXCEPT !.answer = "refused"]
            <4>1. patches' = [patches EXCEPT ![k] = r]
                BY <3>3
            <4>2. /\ r \in Tapped(BOOLEAN) /\ r.v = patches[k].v /\ r.prev = patches[k].prev
                  /\ r.answer = "refused" /\ r.overlaps = patches[k].overlaps
                  /\ r.crossed = patches[k].crossed
                BY <3>1, TapShapes
            <4> QED
                BY <3>3, <4>1, <4>2
        <3> QED
            BY <2>1, <3>2, <3>3
    <2>5. /\ patches' \in Seq(Tapped(BOOLEAN)) /\ Len(patches') = Len(patches)
          /\ \A j \in 1..Len(patches) : patches'[j] = IF j = k THEN e ELSE patches[j]
        BY <1>t, <2>3, <2>4, ExceptSeq
    <2>6. patches' # <<>>
        BY <1>n, <2>3, <2>5, EmptySeq
    <2>7. SettingsTypes'
        <3>1. patches[k].v \in Values
            BY <1>n, <2>3, TapShapes
        <3> QED
            BY <1>t, <2>2, <2>4, <2>5, <3>1 DEF SettingsTypes
    <2>8. ConfigsInv'
        <3>1. load' \in Values => outdated'
            BY <1>t, <1>v, <2>2, <2>3 DEF ConfigsInv
        <3>2. load' # "none" => astray' /\ \A j \in 1..Len(patches') : patches'[j].crossed
            BY <1>t, <2>2, <2>3, <2>4, <2>5 DEF ConfigsInv
        <3>3. load' # "none" => outdated'
            BY <1>t, <2>2, <2>3 DEF ConfigsInv
        <3> QED
            BY <3>1, <3>2, <3>3 DEF ConfigsInv
    <2>9. OneTapInv'
        <3> SUFFICES ASSUME Len(patches') = 1, ~patches'[1].overlaps, ~patches'[1].crossed
                     PROVE  /\ patches'[1].answer = "accepted" => /\ allowLan' = patches'[1].v
                                                                 /\ setting' = patches'[1].v
                            /\ patches'[1].answer = "refused" /\ ~astray' =>
                                   patches'[1].prev = setting'
                            /\ patches'[1].answer # "none"
            BY DEF OneTapInv
        <3>1. Len(patches) = 1 /\ k = 1 /\ patches'[1] = e
            <4>1. Len(patches) = 1
                BY <2>5
            <4>2. k = 1
                BY <2>3, <4>1
            <4> QED
                BY <2>3, <2>5, <4>1, <4>2
        <3>2. ~patches[1].overlaps /\ ~patches[1].crossed /\ patches[1].answer = "none"
            BY <2>1, <2>4, <3>1
        <3>3. allowLan = patches[1].v /\ (~astray => patches[1].prev = setting)
            BY <1>t, <3>1, <3>2 DEF OneTapInv
        <3> QED
            BY <2>2, <2>4, <3>1, <3>3
    <2>10. OverlapInv'
        <3>1. Len(patches') > 1 => \A j \in 1..Len(patches') : patches'[j].overlaps
            BY <1>t, <2>3, <2>4, <2>5 DEF OverlapInv
        <3>2. ASSUME patches'[1].overlaps, ~astray', Undisturbed(patches')
              PROVE  IF patches'[Len(patches')].answer = "none"
                     THEN allowLan' = patches'[Len(patches')].v ELSE allowLan' = setting'
            <4>1. e.answer # "refused" /\ ~e.crossed
                BY <2>3, <2>5, <3>2 DEF Undisturbed
            <4>2. /\ e.answer = "accepted" /\ setting' = patches[k].v /\ ~patches[k].crossed
                  /\ \A i \in 1..Len(patches) : i > k => patches[i].answer # "accepted"
                BY <2>4, <4>1
            <4>3. \A j \in 1..Len(patches) : ~patches[j].crossed /\ patches[j].answer # "refused"
                BY <2>1, <2>5, <3>2, <4>2 DEF Undisturbed
            <4>4. InOrder(patches)
                BY <1>n, <2>1, <2>3, <2>5, <3>2, <4>2 DEF Undisturbed, InOrder
            <4>5. 1 \in 1..Len(patches) /\ Len(patches) \in 1..Len(patches)
                BY <1>n, <2>3
            <4>6. patches[1].overlaps
                BY <2>4, <2>5, <3>2, <4>5
            <4>7. IF patches[Len(patches)].answer = "none"
                  THEN allowLan = patches[Len(patches)].v ELSE allowLan = setting
                BY <1>t, <2>2, <2>3, <3>2, <4>3, <4>4, <4>6 DEF OverlapInv, Undisturbed
            <4>8. CASE k = Len(patches)
                BY <2>1, <2>2, <2>4, <2>5, <4>2, <4>5, <4>7, <4>8
            <4>9. CASE k # Len(patches)
                <5>1. Len(patches) > k
                    BY <1>n, <2>3, <4>9
                <5>2. patches[Len(patches)].answer = "none"
                    <6>1. patches[Len(patches)].answer \in Answers
                        BY <1>n, <4>5, TapShapes
                    <6>2. /\ patches[Len(patches)].answer # "accepted"
                          /\ patches[Len(patches)].answer # "refused"
                        BY <4>2, <4>3, <4>5, <5>1
                    <6> QED
                        BY <1>v, <6>1, <6>2
                <5> QED
                    BY <2>2, <2>5, <4>5, <4>7, <4>9, <5>2
            <4> QED
                BY <4>8, <4>9
        <3> QED
            BY <3>1, <3>2 DEF OverlapInv
    <2> QED
        BY <2>6, <2>7, <2>8, <2>9, <2>10 DEF SwitchInv, RestInv
<1>8. CASE TakePatch
    <2>1. PICK k \in DOMAIN patches :
              /\ patches[k].answer # "none" /\ patches' = Taken(k)
              /\ allowLan' = IF patches[k].answer = "refused" THEN patches[k].prev ELSE allowLan
              /\ astray' = Astray(patches[k])
        BY <1>8 DEF TakePatch
    <2>2. UNCHANGED <<setting, load, outdated>>
        BY <1>8 DEF TakePatch
    <2> DEFINE p == patches[k]
               f == [j \in DOMAIN patches |->
                        IF j < k /\ patches[j].answer = "none" /\ patches[k].answer = "accepted"
                        THEN [patches[j] EXCEPT !.crossed = TRUE] ELSE patches[j]]
    <2>3. /\ p \in Tapped(BOOLEAN) /\ p.answer \in {"accepted", "refused"}
          /\ p.v \in Values /\ p.prev \in Values /\ k \in 1..Len(patches) /\ patches # <<>>
        <3>1. k \in 1..Len(patches) /\ patches # <<>> /\ p \in Tapped(BOOLEAN)
            BY <1>n, <2>1
        <3>2. p.answer \in Answers /\ p.answer # "none"
            BY <2>1, <3>1, TapShapes
        <3>3. p.v \in Values /\ p.prev \in Values
            BY <3>1, TapShapes
        <3> QED
            BY <1>v, <3>1, <3>2, <3>3
    <2>4. \A j \in 1..Len(patches) :
             /\ f[j] \in Tapped(BOOLEAN) /\ f[j].v = patches[j].v
             /\ f[j].prev = patches[j].prev /\ f[j].answer = patches[j].answer
             /\ f[j].overlaps = patches[j].overlaps
             /\ patches[j].crossed => f[j].crossed
             /\ (j < k /\ patches[j].answer = "none" /\ p.answer = "accepted") => f[j].crossed
        BY <1>n, TapShapes, ZenonT(40)
    <2>5. patches' = RemoveAt(f, k) /\ f = [j \in DOMAIN patches |-> f[j]]
        BY <2>1 DEF Taken
    <2>6. /\ astray' = (p.crossed \/ (p.overlaps /\ p.answer = "refused")
                                  \/ (astray /\ (p.overlaps \/ p.answer = "refused")))
          /\ allowLan' = IF p.answer = "refused" THEN p.prev ELSE allowLan
        BY <2>1 DEF Astray
    <2>7. p = patches[k]
        OBVIOUS
    <2> HIDE DEF f, p
    <2>8. f \in Seq(Tapped(BOOLEAN)) /\ Len(f) = Len(patches)
        <3>1. (\A j \in 1..Len(patches) : f[j] \in Tapped(BOOLEAN)) /\ f = [j \in DOMAIN patches |-> f[j]]
            BY <2>4, <2>5
        <3> QED
            BY <1>t, <3>1, MappedSeq
    <2>9. /\ patches' \in Seq(Tapped(BOOLEAN)) /\ Len(patches') = Len(patches) - 1
          /\ \A j \in 1..(Len(patches) - 1) : patches'[j] = IF j < k THEN f[j] ELSE f[j + 1]
        <3>1. k \in 1..Len(f)
            BY <2>3, <2>8
        <3>2. /\ RemoveAt(f, k) \in Seq(Tapped(BOOLEAN)) /\ Len(RemoveAt(f, k)) = Len(f) - 1
              /\ \A j \in 1..(Len(f) - 1) : RemoveAt(f, k)[j] = IF j < k THEN f[j] ELSE f[j + 1]
            BY <2>8, <3>1, Removed
        <3> QED
            BY <2>5, <2>8, <3>2
    <2>10. patches' = <<>> <=> Len(patches) = 1
        BY <1>n, <2>3, <2>9, EmptySeq
    <2>11. SettingsTypes'
        BY <1>t, <2>2, <2>3, <2>6, <2>9 DEF SettingsTypes
    <2>12. \A j \in 1..Len(patches') :
              \E i \in 1..Len(patches) : i # k /\ patches'[j] = f[i]
        <3> SUFFICES ASSUME NEW j \in 1..(Len(patches) - 1)
                     PROVE  \E i \in 1..Len(patches) : i # k /\ patches'[j] = f[i]
            BY <2>9
        <3>1. CASE j < k
            BY <1>n, <2>3, <2>9, <3>1
        <3>2. CASE ~(j < k)
            <4>1. j + 1 \in 1..Len(patches) /\ j + 1 # k
                BY <1>n, <2>3, <3>2
            <4> QED
                BY <2>9, <3>2, <4>1
        <3> QED
            BY <3>1, <3>2
    <2>13. ConfigsInv'
        <3>1. load # "none" => astray' /\ \A j \in 1..Len(patches') : patches'[j].crossed
            <4> SUFFICES ASSUME load # "none"
                         PROVE  astray' /\ \A j \in 1..Len(patches') : patches'[j].crossed
                OBVIOUS
            <4>1. \A i \in 1..Len(patches) : patches[i].crossed /\ f[i].crossed
                BY <1>t, <2>4 DEF ConfigsInv
            <4>2. p.crossed
                BY <2>3, <2>7, <4>1
            <4>3. ASSUME NEW j \in 1..Len(patches') PROVE patches'[j].crossed
                BY <2>12, <4>1
            <4> QED
                BY <2>6, <4>2, <4>3
        <3> QED
            BY <1>t, <2>2, <2>3, <3>1 DEF ConfigsInv
    <2>14. CASE Len(patches) = 1
        <3>1. k = 1 /\ p = patches[1] /\ Len(patches') = 0 /\ patches' = <<>>
            BY <2>3, <2>7, <2>9, <2>10, <2>14
        <3>2. ASSUME ~astray' PROVE allowLan' = setting'
            <4>1. ~p.crossed
                BY <2>6, <3>2
            <4>2. CASE ~p.overlaps
                <5>1. /\ p.answer = "accepted" => allowLan = p.v /\ setting = p.v
                      /\ p.answer = "refused" /\ ~astray => p.prev = setting
                    BY <1>t, <2>14, <3>1, <4>1, <4>2 DEF OneTapInv
                <5> QED
                    BY <2>2, <2>3, <2>6, <3>2, <5>1
            <4>3. CASE p.overlaps
                <5>1. p.answer = "accepted" /\ ~astray
                    BY <2>3, <2>6, <3>2, <4>3
                <5>2. Undisturbed(patches)
                    BY <2>14, <3>1, <4>1, <5>1 DEF Undisturbed, InOrder
                <5>3. allowLan = setting
                    BY <1>t, <2>3, <2>14, <3>1, <4>3, <5>1, <5>2 DEF OverlapInv
                <5> QED
                    BY <2>2, <2>6, <5>1, <5>3
            <4> QED
                BY <4>2, <4>3
        <3>3. RestInv' /\ OneTapInv' /\ OverlapInv'
            BY <3>1, <3>2 DEF RestInv, OneTapInv, OverlapInv
        <3> QED
            BY <2>11, <2>13, <3>3 DEF SwitchInv
    <2>15. CASE Len(patches) # 1
        <3>1. Len(patches) > 1 /\ \A j \in 1..Len(patches) : patches[j].overlaps
            BY <1>t, <1>n, <2>3, <2>15 DEF OverlapInv
        <3>2. p.overlaps /\ \A j \in 1..Len(patches) : f[j].overlaps
            BY <2>3, <2>4, <2>7, <3>1
        <3>3. \A j \in 1..Len(patches') : patches'[j].overlaps
            BY <2>12, <3>2
        <3>4. 1 \in 1..Len(patches') /\ patches' # <<>>
            BY <2>9, <2>10, <3>1, <1>n
        <3>5. OneTapInv'
            BY <3>3, <3>4 DEF OneTapInv
        <3>6. ASSUME ~astray', Undisturbed(patches')
              PROVE  IF patches'[Len(patches')].answer = "none"
                     THEN allowLan' = patches'[Len(patches')].v ELSE allowLan' = setting'
            <4>1. p.answer = "accepted" /\ ~astray /\ ~p.crossed /\ UNCHANGED allowLan
                BY <2>3, <2>6, <3>2, <3>6
            <4> DEFINE at(i) == IF i < k THEN i ELSE i - 1
            <4>2. \A i \in 1..Len(patches) : i # k =>
                      at(i) \in 1..Len(patches') /\ patches'[at(i)] = f[i]
                <5> SUFFICES ASSUME NEW i \in 1..Len(patches), i # k
                             PROVE  at(i) \in 1..Len(patches') /\ patches'[at(i)] = f[i]
                    OBVIOUS
                <5>1. CASE i < k
                    BY <1>n, <2>3, <2>9, <5>1
                <5>2. CASE i > k
                    <6>1. at(i) = i - 1 /\ i - 1 \in 1..(Len(patches) - 1) /\ ~(i - 1 < k)
                          /\ (i - 1) + 1 = i
                        BY <1>n, <2>3, <5>2
                    <6> HIDE DEF at
                    <6> QED
                        BY <2>9, <6>1
                <5> QED
                    BY <2>3, <5>1, <5>2
            <4>3. \A i, j \in 1..Len(patches) : i # k /\ j # k /\ i < j => at(i) < at(j)
                BY <2>3
            <4> HIDE DEF at
            <4>4. \A i \in 1..Len(patches) : i # k =>
                      /\ ~f[i].crossed /\ ~patches[i].crossed /\ patches[i].answer # "refused"
                      /\ i < k => patches[i].answer # "none"
                <5> SUFFICES ASSUME NEW i \in 1..Len(patches), i # k
                             PROVE  /\ ~f[i].crossed /\ ~patches[i].crossed
                                    /\ patches[i].answer # "refused"
                                    /\ i < k => patches[i].answer # "none"
                    OBVIOUS
                <5>1. ~f[i].crossed /\ f[i].answer # "refused"
                    BY <3>6, <4>2 DEF Undisturbed
                <5> QED
                    BY <2>4, <4>1, <5>1
            <4>5. ASSUME NEW i \in 1..Len(patches), NEW j \in 1..Len(patches), i < j,
                         patches[i].answer = "none", patches[j].answer = "accepted"
                  PROVE  FALSE
                <5>1. i # k
                    BY <2>3, <2>7, <4>5
                <5>2. j # k
                    BY <4>4, <4>5, <5>1
                <5>3. at(i) \in 1..Len(patches') /\ at(j) \in 1..Len(patches') /\ at(i) < at(j)
                    BY <4>2, <4>3, <4>5, <5>1, <5>2
                <5>4. patches'[at(i)].answer = "none" /\ patches'[at(j)].answer = "accepted"
                    BY <2>4, <4>2, <4>5, <5>1, <5>2
                <5> QED
                    BY <3>6, <5>3, <5>4 DEF Undisturbed, InOrder
            <4>6. Undisturbed(patches)
                <5>1. InOrder(patches)
                    BY <4>5 DEF InOrder
                <5>2. \A i \in 1..Len(patches) :
                         ~patches[i].crossed /\ patches[i].answer # "refused"
                    BY <2>7, <4>1, <4>4
                <5> QED
                    BY <5>1, <5>2 DEF Undisturbed
            <4> DEFINE n == Len(patches)
            <4>7. n \in 1..n /\ n - 1 \in 1..n /\ Len(patches') = n - 1 /\ 1 \in 1..n
                BY <1>n, <2>9, <3>1
            <4>8. IF patches[n].answer = "none" THEN allowLan = patches[n].v
                  ELSE allowLan = setting
                BY <1>t, <2>3, <3>1, <4>1, <4>6, <4>7 DEF OverlapInv
            <4>9. CASE k = n
                <5>1. allowLan = setting
                    BY <2>7, <4>1, <4>8, <4>9
                <5>2. patches'[n - 1] = f[n - 1] /\ n - 1 < k
                    BY <2>9, <4>7, <4>9
                <5>3. patches'[Len(patches')].answer # "none"
                    BY <2>4, <4>4, <4>7, <5>2
                <5> QED
                    BY <2>2, <4>1, <5>1, <5>3
            <4>10. CASE k # n
                <5>1. patches'[n - 1] = f[n]
                    <6>1. ~(n - 1 < k) /\ (n - 1) + 1 = n /\ n - 1 \in 1..(n - 1)
                        BY <1>n, <2>3, <4>7, <4>10
                    <6> QED
                        BY <2>9, <6>1
                <5>2. f[n].answer = patches[n].answer /\ f[n].v = patches[n].v
                    BY <2>4, <4>7
                <5> QED
                    BY <2>2, <4>1, <4>7, <4>8, <5>1, <5>2
            <4> QED
                BY <4>9, <4>10
        <3>7. OverlapInv'
            BY <3>3, <3>6 DEF OverlapInv
        <3> QED
            BY <2>11, <2>13, <3>4, <3>5, <3>7 DEF SwitchInv, RestInv
    <2> QED
        BY <2>14, <2>15
<1> QED
    BY <1>1, <1>2, <1>3, <1>4, <1>5, <1>6, <1>7, <1>8 DEF SettingsNext

\* When nothing is under way the switch shows what the engine is configured with,
\* unless it was left astray by a restart, a refusal among taps that overlap, or
\* answers that came across each other (settings_screen.dart: _loadConfig,
\* onChanged).
THEOREM SwitchesAgree == Spec => []SwitchAgrees
<1>1. Init => SwitchInv
    BY SwitchInvInit
<1>2. SwitchInv /\ [Next]_vars => SwitchInv'
    <2> SUFFICES ASSUME SwitchInv, [Next]_vars PROVE SwitchInv'
        OBVIOUS
    <2>1. SettingsNext \/ SettingsEngineStarts \/ UNCHANGED settingsVars
        BY DEF Next, vars, Only, EngineStarts, EngineStops
    <2> QED
        BY <2>1, SwitchStep
<1>3. SwitchInv => SwitchAgrees
    BY DEF SwitchInv, RestInv, SwitchAgrees
<1> QED
    BY <1>1, <1>2, <1>3, PTL DEF Spec
===============================================================================
