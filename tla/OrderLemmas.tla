----------------------------- MODULE OrderLemmas -----------------------------
(***************************************************************************)
(* Facts about numbers, finite sets and sequences that the proofs of       *)
(* several parts need.                                                     *)
(***************************************************************************)
EXTENDS Integers, Sequences, FiniteSetsExt, SequencesExt, Listing, FiniteSetTheorems,
        FunctionTheorems, SequenceTheorems, WellFoundedInduction, TLAPS

\* A set of naturals has a least one.
LEMMA LeastNatural ==
    ASSUME NEW T \in SUBSET Nat, T # {}
    PROVE  \E x \in T : \A y \in T : x <= y
<1>1. PICK x \in T : \A y \in T : <<y, x>> \notin OpToRel(<, Nat)
    BY NatLessThanWellFounded, WFMin
<1>2. OpToRel(<, Nat) = {ss \in Nat \X Nat : ss[1] < ss[2]}
    BY Zenon DEF OpToRel
<1>3. \A y \in T : x <= y
    <2>1. SUFFICES ASSUME NEW y \in T, y < x PROVE FALSE
        OBVIOUS
    <2>2. <<y, x>> \in Nat \X Nat
        OBVIOUS
    <2>3. QED
        BY <1>1, <1>2, <2>1, <2>2
<1>4. QED
    BY <1>3

LEMMA FirstNumbers ==
    ASSUME NEW n \in Nat
    PROVE  IsFiniteSet(1 .. n) /\ Cardinality(1 .. n) = n
<1>1. IsFiniteSet(1 .. n) /\ Cardinality(1 .. n) = IF 1 > n THEN 0 ELSE n - 1 + 1
    BY FS_Interval
<1>2. QED
    BY <1>1

\* A list that names nothing twice is as long as it names things.
LEMMA LengthOfDistinct ==
    ASSUME NEW S, NEW list \in Seq(S),
           \A i, j \in DOMAIN list : i # j => list[i] # list[j]
    PROVE  IsFiniteSet(Range(list)) /\ Cardinality(Range(list)) = Len(list)
<1> DEFINE n == Len(list)
<1>1. n \in Nat /\ DOMAIN list = 1..n
    BY LenProperties
<1>2. IsFiniteSet(1..n) /\ Cardinality(1..n) = n
    BY <1>1, FirstNumbers
<1>3. \E f : f \in Bijection(1..n, Range(list))
    <2>1. list \in [1..n -> Range(list)]
        BY <1>1, LenProperties DEF Range
    <2>2. list \in Bijection(1..n, Range(list))
        BY <1>1, <2>1 DEF Bijection, Injection, Surjection, IsInjective, Range
    <2>3. QED
        BY <2>2
<1> HIDE DEF n
<1>4. QED
    BY <1>2, <1>3, FS_Bijection, Fun_ExistsBijSymmetric DEF n, ExistsBijection

-----------------------------------------------------------------------------
\* What is before an element in a strict order of S, which is a set of pairs.
StrictOrder(R, S) ==
    /\ \A i \in S : <<i, i>> \notin R
    /\ \A i, j, h \in S : <<i, j>> \in R /\ <<j, h>> \in R => <<i, h>> \in R
    /\ \A i, j \in S : i # j => <<i, j>> \in R \/ <<j, i>> \in R

Before(R, S, i) == {j \in S : <<j, i>> \in R}

\* Counting what is before each numbers the elements of a finite set.
Numbers(R, S) ==
    /\ \A i \in S : IsFiniteSet(Before(R, S, i)) /\ Cardinality(Before(R, S, i)) \in 0 .. Cardinality(S) - 1
    /\ \A i, j \in S : <<i, j>> \in R => Cardinality(Before(R, S, i)) < Cardinality(Before(R, S, j))
    /\ \A n \in 1 .. Cardinality(S) : \E i \in S : Cardinality(Before(R, S, i)) = n - 1

LEMMA OrderNumbers ==
    ASSUME NEW S, IsFiniteSet(S), NEW R, StrictOrder(R, S)
    PROVE  Numbers(R, S)
<1> DEFINE c(i) == Cardinality(Before(R, S, i))
           n == Cardinality(S)
<1>1. n \in Nat
    BY FS_CardinalityType
<1>2. \A i \in S : /\ IsFiniteSet(Before(R, S, i)) /\ c(i) \in Nat /\ c(i) <= n
                   /\ c(i) # n
    <2> TAKE i \in S
    <2>1. Before(R, S, i) \subseteq S /\ i \notin Before(R, S, i)
        BY DEF Before, StrictOrder
    <2>2. IsFiniteSet(Before(R, S, i)) /\ c(i) <= n /\ (n = c(i) => S = Before(R, S, i))
        BY <2>1, FS_Subset
    <2>3. QED
        BY <2>1, <2>2, FS_CardinalityType
<1>3. \A i, j \in S : <<i, j>> \in R => c(i) < c(j)
    <2> SUFFICES ASSUME NEW i \in S, NEW j \in S, <<i, j>> \in R PROVE c(i) < c(j)
        OBVIOUS
    <2>1. Before(R, S, i) \subseteq Before(R, S, j) /\ i \in Before(R, S, j) /\ i \notin Before(R, S, i)
        BY DEF Before, StrictOrder
    <2>2. c(i) <= c(j) /\ c(i) # c(j)
        BY <1>2, <2>1, FS_Subset
    <2>3. c(i) \in Nat /\ c(j) \in Nat
        BY <1>2
    <2> HIDE DEF c
    <2>4. QED
        BY <2>2, <2>3
<1> HIDE DEF c, n
<1>4. \A i, j \in S : c(i) = c(j) => i = j
    <2> SUFFICES ASSUME NEW i \in S, NEW j \in S, c(i) = c(j), i # j PROVE FALSE
        OBVIOUS
    <2>1. <<i, j>> \in R \/ <<j, i>> \in R
        BY DEF StrictOrder
    <2>2. c(i) \in Nat /\ c(j) \in Nat
        BY <1>2
    <2>3. QED
        BY <1>3, <2>1, <2>2
<1>5. \A m \in 1 .. n : \E i \in S : c(i) = m - 1
    <2> DEFINE f == [i \in S |-> c(i) + 1]
    <2>1. \A i \in S : c(i) + 1 \in 1 .. n
        BY <1>1, <1>2
    <2>2. f \in [S -> 1 .. n]
        BY <2>1
    <2>3. \A i, j \in S : f[i] = f[j] => i = j
        <3>1. \A i, j \in S : c(i) \in Nat /\ c(j) \in Nat
            BY <1>2
        <3>2. QED
            BY <1>4, <3>1
    <2>4. f \in Injection(S, 1 .. n)
        BY <2>2, <2>3 DEF Injection, IsInjective
    <2>5. IsFiniteSet(1 .. n) /\ Cardinality(1 .. n) = n
        BY <1>1, FirstNumbers
    <2> HIDE DEF f
    <2>6. f \in Surjection(S, 1 .. n)
        BY <2>4, <2>5, FS_Injection DEF n
    <2>7. \A m \in 1 .. n : \E i \in S : f[i] = m
        BY <2>6 DEF Surjection
    <2>8. \A i \in S : f[i] = c(i) + 1 /\ c(i) \in Nat
        BY <1>2 DEF f
    <2>9. QED
        BY <2>7, <2>8
<1>6. \A i \in S : c(i) \in 0 .. n - 1
    BY <1>1, <1>2
<1>7. QED
    BY <1>2, <1>3, <1>5, <1>6 DEF Numbers, c, n

\* A finite set has a first element in any order.
LEMMA FirstInOrder ==
    ASSUME NEW S, IsFiniteSet(S), S # {}, NEW R, StrictOrder(R, S)
    PROVE  \E x \in S : \A y \in S : <<y, x>> \notin R
<1>1. Numbers(R, S)
    BY OrderNumbers
<1>2. 1 \in 1 .. Cardinality(S)
    BY FS_EmptySet, FS_CardinalityType
<1>3. PICK x \in S : Cardinality(Before(R, S, x)) = 1 - 1
    BY <1>1, <1>2 DEF Numbers
<1>4. Before(R, S, x) = {}
    BY <1>1, <1>3, FS_EmptySet DEF Numbers
<1>5. QED
    BY <1>4 DEF Before

-----------------------------------------------------------------------------
\* A set of naturals has a least one, and a finite one a greatest.
LEMMA MinIsLeast ==
    ASSUME NEW T \in SUBSET Nat, T # {}
    PROVE  Min(T) \in T /\ \A y \in T : Min(T) <= y
BY LeastNatural DEF Min

LEMMA MaxIsGreatest ==
    ASSUME NEW T \in SUBSET Nat, T # {}, IsFiniteSet(T)
    PROVE  Max(T) \in T /\ \A y \in T : Max(T) >= y
<1> DEFINE R == {p \in T \X T : p[1] > p[2]}
<1>1. \A i, j \in T : <<i, j>> \in R <=> i > j
    OBVIOUS
<1>2. StrictOrder(R, T)
    BY <1>1 DEF StrictOrder
<1> HIDE DEF R
<1>3. PICK x \in T : \A y \in T : <<y, x>> \notin R
    BY <1>2, FirstInOrder
<1>4. \A y \in T : x >= y
    <2>1. \A y \in T : ~(y > x) /\ y \in Nat /\ x \in Nat
        BY <1>1, <1>3
    <2>2. QED
        BY <2>1
<1>5. QED
    BY <1>4 DEF Max

\* What Listed lists: every member, in the order.
LEMMA ListedIsInOrder ==
    ASSUME NEW S, IsFiniteSet(S), NEW R, StrictOrder(R, S)
    PROVE  /\ Listed(S, R) \in Seq(S)
           /\ \A x \in S : \E k \in DOMAIN Listed(S, R) : Listed(S, R)[k] = x
           /\ \A j, k \in DOMAIN Listed(S, R) : j < k <=> <<Listed(S, R)[j], Listed(S, R)[k]>> \in R
<1> DEFINE n == Cardinality(S)
           c(x) == Cardinality(Before(R, S, x))
           list == Listed(S, R)
<1>1. Numbers(R, S) /\ n \in Nat
    BY OrderNumbers, FS_CardinalityType
<1>2. list = [k \in 1 .. n |-> CHOOSE x \in S : c(x) = k - 1]
    BY Zenon DEF Listed, Before
<1>3. DOMAIN list = 1 .. n
    BY <1>2
<1>4. \A k \in 1 .. n : \E x \in S : c(x) = k - 1
    BY <1>1 DEF Numbers
<1>5. \A x \in S : c(x) \in 0 .. n - 1
    BY <1>1 DEF Numbers
<1>6. \A x, y \in S : <<x, y>> \in R => c(x) < c(y)
    BY <1>1 DEF Numbers
<1> HIDE DEF c, n
<1>7. \A k \in 1 .. n : list[k] \in S /\ c(list[k]) = k - 1
    <2> TAKE k \in 1 .. n
    <2>1. list[k] = CHOOSE x \in S : c(x) = k - 1
        BY <1>2
    <2> HIDE DEF list
    <2>2. QED
        BY <1>4, <2>1
<1> HIDE DEF list
<1>8. \A x, y \in S : c(x) = c(y) => x = y
    <2> SUFFICES ASSUME NEW x \in S, NEW y \in S, c(x) = c(y), x # y PROVE FALSE
        OBVIOUS
    <2>1. <<x, y>> \in R \/ <<y, x>> \in R
        BY DEF StrictOrder
    <2>2. QED
        BY <1>5, <1>6, <2>1
<1>9. \A x \in S : \E k \in 1 .. n : list[k] = x
    <2> TAKE x \in S
    <2>1. PICK k \in 1 .. n : k - 1 = c(x)
        BY <1>1, <1>5
    <2>2. list[k] \in S /\ c(list[k]) = c(x)
        BY <1>7, <2>1
    <2>3. QED
        BY <1>8, <2>2
<1>10. \A j, k \in 1 .. n : j < k <=> <<list[j], list[k]>> \in R
    <2> TAKE j, k \in 1 .. n
    <2>1. /\ list[j] \in S /\ c(list[j]) = j - 1
          /\ list[k] \in S /\ c(list[k]) = k - 1
        BY <1>7
    <2>2. CASE j < k
        <3>1. list[j] # list[k] /\ ~(c(list[k]) < c(list[j]))
            BY <2>1, <2>2
        <3>2. QED
            BY <1>6, <2>1, <2>2, <3>1 DEF StrictOrder
    <2>3. CASE ~(j < k)
        <3>1. ~(c(list[j]) < c(list[k]))
            BY <2>1, <2>3
        <3>2. QED
            BY <1>6, <2>1, <2>3, <3>1
    <2>4. QED
        BY <2>2, <2>3
<1>11. list \in Seq(S)
    <2>1. list = [k \in 1 .. n |-> list[k]]
        BY <1>2 DEF list
    <2>2. list \in [1 .. n -> S]
        BY <1>7, <2>1
    <2>3. QED
        BY <1>1, <2>2, SeqDef
<1>12. QED
    BY <1>3, <1>9, <1>10, <1>11 DEF list

LEMMA UpwardsIsOrder ==
    ASSUME NEW S \in SUBSET Nat
    PROVE  StrictOrder(Upwards(S), S)
BY DEF StrictOrder, Upwards
=============================================================================
