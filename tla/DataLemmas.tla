------------------------------ MODULE DataLemmas ------------------------------
(***************************************************************************)
(* Facts about finite sets, the least of a set of numbers and sums, which   *)
(* the proofs about the catalogue and the data structures share.            *)
(***************************************************************************)
EXTENDS SequencesExt, FiniteSetsExt, FunctionTheorems, FiniteSetTheorems, TLAPS

-----------------------------------------------------------------------------
(* Induction, with the cases it is about as a set.                           *)

\* A set of subsets that has every subset whose smaller ones it has, has all.
LEMMA SubsetInduction ==
  ASSUME NEW S, IsFiniteSet(S), NEW G,
         \A T \in SUBSET S : (\A x \in T : T \ {x} \in G) => T \in G
  PROVE  SUBSET S \subseteq G
<1> DEFINE B == (SUBSET S) \ G
<1>1. SUFFICES ASSUME B # {} PROVE FALSE
  OBVIOUS
<1>2. \E T \in B : \A U \in B : <<U, T>> \notin StrictSubsetOrdering(S)
  <2>1. B \subseteq FiniteSubsetsOf(S)
    BY FS_FiniteSubsetsOfFinite
  <2>2. IsWellFoundedOn(StrictSubsetOrdering(S), FiniteSubsetsOf(S))
    BY FS_StrictSubsetOrderingWellFounded
  <2> HIDE DEF B
  <2>3. QED
    BY <1>1, <2>1, <2>2, WFMin
<1>3. PICK T \in B : \A U \in B : <<U, T>> \notin StrictSubsetOrdering(S)
  BY <1>2
<1>4. ASSUME NEW x \in T PROVE T \ {x} \in G
  <2>1. T \ {x} \in SUBSET S /\ T \ {x} \subseteq T /\ T \ {x} # T
    OBVIOUS
  <2>2. <<T \ {x}, T>> \in StrictSubsetOrdering(S)
    BY <2>1 DEF StrictSubsetOrdering
  <2>3. QED
    BY <1>3, <2>1, <2>2
<1>5. QED
  BY <1>3, <1>4

\* The same for a set that grows by one element at a time.
LEMMA SetInduction ==
  ASSUME NEW S, IsFiniteSet(S), NEW G, {} \in G,
         \A T \in SUBSET S : \A x \in S \ T : T \in G => T \cup {x} \in G
  PROVE  S \in G
<1>1. ASSUME NEW T \in SUBSET S, \A x \in T : T \ {x} \in G
      PROVE  T \in G
  <2>1. CASE T = {}
    BY <2>1
  <2>2. CASE T # {}
    <3>1. PICK x \in T : TRUE
      BY <2>2
    <3>2. T \ {x} \in SUBSET S /\ x \in S \ (T \ {x}) /\ (T \ {x}) \cup {x} = T
      OBVIOUS
    <3>3. QED
      BY <1>1, <3>2
  <2>3. QED
    BY <2>1, <2>2
<1>2. QED
  BY <1>1, SubsetInduction

\* The relation < on the naturals, as a set of pairs.
LessThan == {p \in Nat \X Nat : p[1] < p[2]}

\* A set of numbers that is not empty has a least one.
LEMMA LeastNumber ==
  ASSUME NEW S \in SUBSET Nat, S # {}
  PROVE  \E n \in S : \A m \in S : n <= m
<1>1. IsWellFoundedOn(LessThan, Nat)
  BY NatLessThanWellFounded DEF OpToRel, LessThan
<1>2. PICK n \in S : \A m \in S : <<m, n>> \notin LessThan
  BY <1>1, WFMin
<1>3. \A m \in S : ~ (m < n)
  BY <1>2 DEF LessThan
<1>4. QED
  BY <1>3

\* Min finds it.
LEMMA MinProperty ==
  ASSUME NEW S \in SUBSET Nat, S # {}
  PROVE  Min(S) \in S /\ \A n \in S : Min(S) <= n
BY LeastNumber DEF Min

\* Max finds the greatest of some places.
LEMMA MaxProperty ==
  ASSUME NEW n \in Nat, NEW S \in SUBSET (1 .. n), S # {}
  PROVE  Max(S) \in S /\ \A m \in S : m <= Max(S)
<1> DEFINE R == {n - m : m \in S}
<1>1. R \in SUBSET Nat /\ R # {}
  <2>1. \A m \in S : n - m \in Nat
    OBVIOUS
  <2>2. QED
    BY <2>1
<1>2. PICK r \in R : \A q \in R : r <= q
  <2> HIDE DEF R
  <2>1. QED
    BY <1>1, LeastNumber
<1>3. PICK x \in S : r = n - x
  BY <1>2
<1>4. \A m \in S : x >= m
  <2>1. ASSUME NEW m \in S PROVE x >= m
    <3>1. n - x <= n - m
      BY <1>2, <1>3
    <3>2. QED
      BY <3>1
  <2>2. QED
    BY <2>1
<1>5. QED
  BY <1>3, <1>4 DEF Max

\* Induction on numbers.
LEMMA NumberInduction ==
  ASSUME NEW G, 0 \in G, \A n \in Nat : n \in G => n + 1 \in G
  PROVE  Nat \subseteq G
<1>1. SUFFICES ASSUME Nat \ G # {} PROVE FALSE
  OBVIOUS
<1>2. PICK n \in Nat \ G : \A m \in Nat \ G : n <= m
  BY <1>1, LeastNumber
<1>3. n - 1 \in Nat /\ n - 1 \in G
  BY <1>2
<1>4. QED
  BY <1>2, <1>3

\* A function of numbers that is defined by recursion on the numbers up to N exists.
LEMMA RecursionExists ==
  ASSUME NEW N \in Nat, NEW a \in Nat, NEW F \in [Nat -> [Nat -> Nat]]
  PROVE  \E w \in [0 .. N -> Nat] : w[0] = a /\ \A n \in 1 .. N : w[n] = F[n][w[n - 1]]
<1> DEFINE Is(m, w) == w \in [0 .. m -> Nat] /\ w[0] = a /\ \A n \in 1 .. m : w[n] = F[n][w[n - 1]]
           G == {m \in Nat : \E w : Is(m, w)}
<1>1. 0 \in G
  <2>1. Is(0, [n \in 0 .. 0 |-> a])
    OBVIOUS
  <2>2. QED
    BY <2>1
<1>2. ASSUME NEW m \in Nat, m \in G PROVE m + 1 \in G
  <2>1. PICK w : Is(m, w)
    BY <1>2
  <2> DEFINE v == [n \in 0 .. (m + 1) |-> IF n = m + 1 THEN F[m + 1][w[m]] ELSE w[n]]
  <2>2. w[m] \in Nat /\ F[m + 1] \in [Nat -> Nat] /\ F[m + 1][w[m]] \in Nat
    <3>1. m \in 0 .. m /\ m + 1 \in Nat
      OBVIOUS
    <3>2. w[m] \in Nat /\ F[m + 1] \in [Nat -> Nat]
      BY <2>1, <3>1
    <3>3. QED
      BY <3>2
  <2>3. v \in [0 .. (m + 1) -> Nat] /\ v[0] = a
    <3>1. \A n \in 0 .. (m + 1) : n = m + 1 \/ n \in 0 .. m
      OBVIOUS
    <3>2. \A n \in 0 .. (m + 1) : v[n] = IF n = m + 1 THEN F[m + 1][w[m]] ELSE w[n]
      OBVIOUS
    <3>3. \A n \in 0 .. (m + 1) : v[n] \in Nat
      BY <2>1, <2>2, <3>1, <3>2
    <3>4. 0 \in 0 .. (m + 1) /\ 0 # m + 1
      OBVIOUS
    <3>5. v[0] = a
      BY <2>1, <3>2, <3>4
    <3>6. QED
      BY <3>3, <3>5
  <2>4. ASSUME NEW n \in 1 .. (m + 1) PROVE v[n] = F[n][v[n - 1]]
    <3>1. n - 1 \in 0 .. m /\ v[n - 1] = w[n - 1]
      OBVIOUS
    <3>2. CASE n = m + 1
      BY <3>1, <3>2
    <3>3. CASE n # m + 1
      <4>1. n \in 1 .. m /\ v[n] = w[n]
        BY <3>3
      <4>2. QED
        BY <2>1, <3>1, <4>1
    <3>4. QED
      BY <3>2, <3>3
  <2>5. Is(m + 1, v)
    BY <2>3, <2>4
  <2> HIDE DEF Is, v
  <2>6. QED
    BY <2>5
<1>3. N \in G
  <2> HIDE DEF G
  <2>1. QED
    BY <1>1, <1>2, NumberInduction
<1>4. QED
  BY <1>3

-----------------------------------------------------------------------------
(* The elements of a sequence.                                               *)

\* There are as many as places, or fewer.
LEMMA ElementsAreFinite ==
  ASSUME NEW S, NEW s \in Seq(S)
  PROVE  IsFiniteSet(ToSet(s)) /\ Cardinality(ToSet(s)) <= Len(s)
<1>1. Len(s) \in Nat
  OBVIOUS
<1>2. IsFiniteSet(1 .. Len(s)) /\ Cardinality(1 .. Len(s)) = Len(s)
  BY <1>1, FS_Interval
<1>3. s \in Surjection(1 .. Len(s), ToSet(s))
  BY DEF Surjection, ToSet
<1>4. QED
  BY <1>2, <1>3, FS_Surjection

\* And what adding one does to them: at the end.
LEMMA ElementsOfAppend ==
  ASSUME NEW S, NEW s \in Seq(S), NEW x \in S, NEW t, t = Append(s, x)
  PROVE  ToSet(t) = ToSet(s) \cup {x}
<1>1. DOMAIN t = DOMAIN s \cup {Len(s) + 1}
  OBVIOUS
<1>2. /\ \A i \in DOMAIN s : t[i] = s[i] /\ i # Len(s) + 1
      /\ t[Len(s) + 1] = x
  OBVIOUS
<1>3. QED
  BY <1>1, <1>2 DEF ToSet

\* In front.
LEMMA ElementsOfPrepend ==
  ASSUME NEW S, NEW s \in Seq(S), NEW t \in Seq(S), NEW x,
         Len(t) = Len(s) + 1, t[1] = x, \A i \in 1 .. Len(s) : t[i + 1] = s[i]
  PROVE  ToSet(t) = ToSet(s) \cup {x}
<1>1. t \in Seq(S) /\ Len(t) = Len(s) + 1 /\ t[1] = x
  OBVIOUS
<1>2. \A i \in 1 .. Len(s) : t[i + 1] = s[i]
  OBVIOUS
<1>3. \A i \in 1 .. Len(t) : i = 1 \/ (i - 1 \in 1 .. Len(s) /\ t[i] = s[i - 1])
  OBVIOUS
<1>4. \A y \in ToSet(t) : y \in ToSet(s) \cup {x}
  BY <1>1, <1>3 DEF ToSet
<1>5. \A i \in DOMAIN s : i + 1 \in DOMAIN t /\ t[i + 1] = s[i]
  BY <1>1, <1>2
<1>6. x \in ToSet(t)
  BY <1>1 DEF ToSet
<1>7. \A y \in ToSet(s) : y \in ToSet(t)
  BY <1>5 DEF ToSet
<1>8. QED
  BY <1>4, <1>6, <1>7

\* What RemoveAt leaves, and where it was.
LEMMA RemoveAtPlaces ==
  ASSUME NEW S, NEW s \in Seq(S), NEW i \in 1 .. Len(s)
  PROVE  /\ RemoveAt(s, i) \in Seq(S) /\ Len(RemoveAt(s, i)) = Len(s) - 1
         /\ \A j \in 1 .. (Len(s) - 1) :
              RemoveAt(s, i)[j] = IF j < i THEN s[j] ELSE s[j + 1]
<1> DEFINE l == SubSeq(s, 1, i - 1)
           r == SubSeq(s, i + 1, Len(s))
<1>1. l \in Seq(S) /\ Len(l) = i - 1 /\ \A j \in 1 .. (i - 1) : l[j] = s[j]
  OBVIOUS
<1>2. r \in Seq(S) /\ Len(r) = Len(s) - i /\ \A j \in 1 .. (Len(s) - i) : r[j] = s[i + j]
  OBVIOUS
<1>3. RemoveAt(s, i) = l \o r
  BY DEF RemoveAt
<1> HIDE DEF l, r
<1>4. l \o r \in Seq(S) /\ Len(l \o r) = Len(s) - 1
  <2>1. l \in Seq(S) /\ r \in Seq(S)
    BY <1>1, <1>2
  <2>2. l \o r \in Seq(S) /\ Len(l \o r) = Len(l) + Len(r)
    BY <2>1
  <2>3. QED
    BY <1>1, <1>2, <2>2
<1>5. \A j \in 1 .. (Len(s) - 1) : (l \o r)[j] = IF j < i THEN s[j] ELSE s[j + 1]
  BY <1>1, <1>2
<1>6. QED
  BY <1>3, <1>4, <1>5

-----------------------------------------------------------------------------
(* Sums.                                                                     *)

\* What it is to be the partial sums of f, by the element that is taken next.
IsSums(f, S, sum) ==
  /\ sum \in [SUBSET S -> Int]
  /\ \A T \in SUBSET S :
       sum[T] = IF T = {} THEN 0
                ELSE f[CHOOSE x \in T : TRUE] + sum[T \ {CHOOSE x \in T : TRUE}]

\* The partial sums of a function on a finite set exist, up to any size.
LEMMA SumsExist ==
  ASSUME NEW S, IsFiniteSet(S), NEW f \in [S -> Int]
  PROVE  \E sum : IsSums(f, S, sum)
<1> DEFINE Pick(T) == CHOOSE x \in T : TRUE
           Upto(n, T) == IsFiniteSet(T) /\ Cardinality(T) <= n
           Good(n, sum) ==
             /\ sum \in [SUBSET S -> Int]
             /\ \A T \in SUBSET S : Cardinality(T) <= n =>
                  sum[T] = IF T = {} THEN 0 ELSE f[Pick(T)] + sum[T \ {Pick(T)}]
           G == {n \in Nat : \E sum : Good(n, sum)}
<1>1. ASSUME NEW T \in SUBSET S, T # {}
      PROVE  /\ Pick(T) \in T /\ T \ {Pick(T)} \in SUBSET S
             /\ Cardinality(T) \in Nat \ {0} /\ Cardinality(T \ {Pick(T)}) = Cardinality(T) - 1
  <2>1. Pick(T) \in T
    BY <1>1
  <2>2. IsFiniteSet(T) /\ Cardinality(T) \in Nat /\ Cardinality(T) # 0
    BY <1>1, FS_Subset, FS_CardinalityType, FS_EmptySet
  <2> HIDE DEF Pick
  <2>3. QED
    BY <2>1, <2>2, FS_RemoveElement
<1>2. Cardinality({}) = 0 /\ \A T \in SUBSET S : Cardinality(T) \in Nat /\ (Cardinality(T) = 0 => T = {})
  BY FS_Subset, FS_CardinalityType, FS_EmptySet
<1> HIDE DEF Pick
<1>3. 0 \in G
  <2>1. [T \in SUBSET S |-> 0] \in [SUBSET S -> Int]
    OBVIOUS
  <2>2. Good(0, [T \in SUBSET S |-> 0])
    BY <1>2, <2>1
  <2>3. QED
    BY <2>2
<1>4. ASSUME NEW n \in Nat, n \in G PROVE n + 1 \in G
  <2>1. PICK sum : Good(n, sum)
    BY <1>4
  <2> DEFINE more == [T \in SUBSET S |-> IF T = {} THEN 0 ELSE f[Pick(T)] + sum[T \ {Pick(T)}]]
  <2>2. more \in [SUBSET S -> Int]
    <3>1. ASSUME NEW T \in SUBSET S, T # {} PROVE f[Pick(T)] + sum[T \ {Pick(T)}] \in Int
      <4>1. f[Pick(T)] \in Int /\ sum[T \ {Pick(T)}] \in Int
        BY <1>1, <2>1, <3>1
      <4>2. QED
        BY <4>1
    <3>2. QED
      BY <3>1
  <2>3. \A T \in SUBSET S : Cardinality(T) <= n => more[T] = sum[T]
    BY <2>1
  <2>4. ASSUME NEW T \in SUBSET S, Cardinality(T) <= n + 1, T # {}
        PROVE  more[T \ {Pick(T)}] = sum[T \ {Pick(T)}]
    <3>1. T \ {Pick(T)} \in SUBSET S /\ Cardinality(T \ {Pick(T)}) <= n
      BY <1>1, <2>4
    <3> HIDE DEF more
    <3>2. QED
      BY <2>3, <3>1
  <2>5. Good(n + 1, more)
    <3>1. \A T \in SUBSET S : more[T] = IF T = {} THEN 0 ELSE f[Pick(T)] + sum[T \ {Pick(T)}]
      OBVIOUS
    <3> HIDE DEF more
    <3>2. QED
      BY <2>2, <2>4, <3>1
  <2> HIDE DEF more, Good
  <2>6. QED
    BY <2>5
<1>5. Nat \subseteq G
  <2> HIDE DEF G
  <2>1. QED
    BY <1>3, <1>4, NumberInduction
<1>6. PICK sum : Good(Cardinality(S), sum)
  BY <1>2, <1>5
<1>7. \A T \in SUBSET S : Cardinality(T) <= Cardinality(S)
  BY FS_Subset
<1>8. IsSums(f, S, sum)
  BY <1>6, <1>7 DEF IsSums, Pick
<1>9. QED
  BY <1>8

\* They are what SumFunctionOnSet takes the sum of S from.
LEMMA SumOfAll ==
  ASSUME NEW S, IsFiniteSet(S), NEW f \in [S -> Int], NEW sum, IsSums(f, S, sum)
  PROVE  SumFunctionOnSet(f, S) = sum[S]
<1> DEFINE Pick(T) == CHOOSE x \in T : TRUE
           Next(g) == [T \in SUBSET S |-> IF T = {} THEN 0 ELSE f[Pick(T)] + g[T \ {Pick(T)}]]
           iter == CHOOSE g : g = Next(g)
<1>1. SumFunctionOnSet(f, S) = iter[S]
  BY DEF SumFunctionOnSet, FoldFunctionOnSet, MapThenFoldSet
<1>2. sum = Next(sum)
  BY DEF IsSums
<1>3. iter = Next(iter)
  <2> HIDE DEF Next
  <2>1. QED
    BY <1>2
<1> DEFINE G == {T \in SUBSET S : iter[T] = sum[T]}
<1>4. ASSUME NEW T \in SUBSET S, \A x \in T : T \ {x} \in G
      PROVE  T \in G
  <2>1. T # {} => Pick(T) \in T
    OBVIOUS
  <2>2. /\ iter[T] = IF T = {} THEN 0 ELSE f[Pick(T)] + iter[T \ {Pick(T)}]
        /\ sum[T] = IF T = {} THEN 0 ELSE f[Pick(T)] + sum[T \ {Pick(T)}]
    <3> HIDE DEF iter, Pick
    <3>1. QED
      BY <1>2, <1>3
  <2> HIDE DEF iter, Pick
  <2>3. QED
    BY <1>4, <2>1, <2>2
<1>5. S \in G
  <2> HIDE DEF G
  <2>1. QED
    BY <1>4, SubsetInduction
<1>6. QED
  BY <1>1, <1>5

\* The sum of a function is a number, a natural one if the summands are, and 0 if
\* they are.
LEMMA SumType ==
  ASSUME NEW S, IsFiniteSet(S), NEW f \in [S -> Int]
  PROVE  /\ SumFunction(f) \in Int
         /\ (\A x \in S : f[x] \in Nat) => SumFunction(f) \in Nat
         /\ (\A x \in S : f[x] = 0) => SumFunction(f) = 0
<1>1. PICK sum : IsSums(f, S, sum)
  BY SumsExist
<1>2. SumFunction(f) = sum[S] /\ S \in SUBSET S
  BY <1>1, SumOfAll DEF SumFunction
<1> DEFINE G == {T \in SUBSET S :
                   /\ (\A x \in S : f[x] \in Nat) => sum[T] \in Nat
                   /\ (\A x \in S : f[x] = 0) => sum[T] = 0}
<1>3. ASSUME NEW T \in SUBSET S, \A x \in T : T \ {x} \in G
      PROVE  T \in G
  <2>1. sum[T] = IF T = {} THEN 0 ELSE f[CHOOSE x \in T : TRUE] + sum[T \ {CHOOSE x \in T : TRUE}]
    BY <1>1 DEF IsSums
  <2>2. CASE T = {}
    BY <2>1, <2>2
  <2>3. CASE T # {}
    <3>1. PICK x \in T : sum[T] = f[x] + sum[T \ {x}]
      BY <2>1, <2>3
    <3>2. f[x] \in Int /\ sum[T \ {x}] \in Int /\ T \ {x} \in G
      BY <1>1, <1>3 DEF IsSums
    <3>3. (\A z \in S : f[z] \in Nat) => sum[T] \in Nat
      BY <3>1, <3>2
    <3>4. (\A z \in S : f[z] = 0) => sum[T] = 0
      BY <3>1, <3>2
    <3>5. QED
      BY <3>3, <3>4
  <2>4. QED
    BY <2>2, <2>3
<1>4. S \in G
  <2> HIDE DEF G
  <2>1. QED
    BY <1>3, SubsetInduction
<1>5. sum[S] \in Int
  BY <1>1, <1>2 DEF IsSums
<1>6. QED
  BY <1>2, <1>4, <1>5

\* A summand that changes, changes the sum by as much.
LEMMA SumChange ==
  ASSUME NEW S, IsFiniteSet(S), NEW f \in [S -> Int], NEW y \in S, NEW v \in Int
  PROVE  SumFunction([f EXCEPT ![y] = v]) = SumFunction(f) - f[y] + v
<1> DEFINE h == [f EXCEPT ![y] = v]
<1>1. h \in [S -> Int] /\ h[y] = v /\ \A x \in S \ {y} : h[x] = f[x]
  OBVIOUS
<1> HIDE DEF h
<1>2. PICK sf : IsSums(f, S, sf)
  BY SumsExist
<1>3. PICK sh : IsSums(h, S, sh)
  BY <1>1, SumsExist
<1>4. SumFunction(f) = sf[S] /\ SumFunction(h) = sh[S] /\ S \in SUBSET S
  BY <1>1, <1>2, <1>3, SumOfAll DEF SumFunction
<1> DEFINE G == {T \in SUBSET S : sh[T] = sf[T] + (IF y \in T THEN v - f[y] ELSE 0)}
<1>5. ASSUME NEW T \in SUBSET S, \A x \in T : T \ {x} \in G
      PROVE  T \in G
  <2>1. /\ sf[T] = IF T = {} THEN 0 ELSE f[CHOOSE x \in T : TRUE] + sf[T \ {CHOOSE x \in T : TRUE}]
        /\ sh[T] = IF T = {} THEN 0 ELSE h[CHOOSE x \in T : TRUE] + sh[T \ {CHOOSE x \in T : TRUE}]
    BY <1>2, <1>3 DEF IsSums
  <2>2. CASE T = {}
    BY <2>1, <2>2
  <2>3. CASE T # {}
    <3>1. PICK x \in T : sf[T] = f[x] + sf[T \ {x}] /\ sh[T] = h[x] + sh[T \ {x}]
      BY <2>1, <2>3
    <3>2. sf[T \ {x}] \in Int /\ sh[T \ {x}] \in Int /\ f[x] \in Int /\ f[y] \in Int
      BY <1>2, <1>3 DEF IsSums
    <3>3. sh[T \ {x}] = sf[T \ {x}] + (IF y \in T \ {x} THEN v - f[y] ELSE 0)
      BY <1>5
    <3>4. CASE x = y
      BY <1>1, <3>1, <3>2, <3>3, <3>4
    <3>5. CASE x # y
      BY <1>1, <3>1, <3>2, <3>3, <3>5
    <3>6. QED
      BY <3>4, <3>5
  <2>4. QED
    BY <2>2, <2>3
<1>6. S \in G
  <2> HIDE DEF G
  <2>1. QED
    BY <1>5, SubsetInduction
<1>7. sf[S] \in Int /\ f[y] \in Int
  BY <1>2 DEF IsSums
<1>8. QED
  BY <1>4, <1>6, <1>7 DEF h
=============================================================================
