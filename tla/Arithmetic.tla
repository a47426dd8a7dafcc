----------------------------- MODULE Arithmetic -----------------------------
(***************************************************************************)
(* Facts about numbers that the proofs of the components rest on and the   *)
(* library does not have in a form the provers can use: induction, sums    *)
(* over finite sets and powers of two.  Induction is stated for sets of    *)
(* numbers, since the provers cannot instantiate a theorem whose parameter *)
(* is a predicate.                                                         *)
(***************************************************************************)
EXTENDS Integers, FiniteSetsExt, FiniteSetTheorems, WellFoundedInduction, TLAPS

\* Every nonempty set of naturals has a least element.
LEMMA Least ==
    ASSUME NEW S \in SUBSET Nat, S # {}
    PROVE  \E x \in S : \A y \in S : x <= y
<1> DEFINE R == OpToRel(<, Nat)
<1>1. IsWellFoundedOn(R, Nat)
    BY NatLessThanWellFounded
<1> HIDE DEF R
<1>2. PICK x \in S : \A y \in S : ~ (<<y, x>> \in R)
    BY <1>1, WFMin
<1>3. \A y \in S : y < x => <<y, x>> \in R
    BY DEF R, OpToRel
<1>4. \A y \in S : x <= y
  <2> SUFFICES ASSUME NEW y \in S PROVE x <= y
    OBVIOUS
  <2>1. ~(y < x)
    BY <1>2, <1>3
  <2>2. x \in Nat /\ y \in Nat
    OBVIOUS
  <2> QED
    BY <2>1, <2>2
<1> QED
    BY <1>4

\* A set with 0 and the successor of each of its numbers has them all.
LEMMA SetInduction ==
    ASSUME NEW S, 0 \in S, \A n \in Nat : n \in S => n + 1 \in S
    PROVE  Nat \subseteq S
<1> SUFFICES ASSUME Nat \ S # {} PROVE FALSE
    OBVIOUS
<1>1. PICK x \in Nat \ S : \A y \in Nat \ S : x <= y
    BY Least
<1>2. x # 0 /\ x - 1 \in Nat /\ x - 1 \in S
    BY <1>1
<1>3. x - 1 + 1 \in S
    BY <1>2
<1> QED
    BY <1>1, <1>3

Choose(s) == CHOOSE x \in s : TRUE
SumEq(F, g, S) == F = [s \in SUBSET S |-> IF s = {} THEN 0 ELSE g[Choose(s)] + F[s \ {Choose(s)}]]
Summing(g, S) == CHOOSE F : SumEq(F, g, S)

\* SumFunction with its recursion spelled out.
LEMMA SumIs == ASSUME NEW g PROVE SumFunction(g) = Summing(g, DOMAIN g)[DOMAIN g]
BY DEF SumFunction, SumFunctionOnSet, FoldFunctionOnSet, MapThenFoldSet, Summing, SumEq, Choose

\* A nonempty set without the element chosen from it is smaller.
LEMMA Smaller ==
    ASSUME NEW S, IsFiniteSet(S), NEW s \in SUBSET S, s # {}
    PROVE  /\ Choose(s) \in s
           /\ s \ {Choose(s)} \in SUBSET S
           /\ IsFiniteSet(s) /\ IsFiniteSet(s \ {Choose(s)})
           /\ Cardinality(s) \in Nat \ {0}
           /\ Cardinality(s \ {Choose(s)}) = Cardinality(s) - 1
<1>1. Choose(s) \in s
    BY DEF Choose
<1>2. IsFiniteSet(s)
    BY FS_Subset
<1>3. Cardinality(s) \in Nat /\ Cardinality(s) # 0
    BY <1>2, FS_CardinalityType, FS_EmptySet
<1>4. IsFiniteSet(s \ {Choose(s)}) /\ Cardinality(s \ {Choose(s)}) = Cardinality(s) - 1
    BY <1>1, <1>2, FS_RemoveElement
<1> QED
    BY <1>1, <1>2, <1>3, <1>4

\* The recursion has a solution: it is built up by the number of summands.
LEMMA SumExists ==
    ASSUME NEW S, IsFiniteSet(S), NEW g \in [S -> Int]
    PROVE  \E F \in [SUBSET S -> Int] : SumEq(F, g, S)
<1> DEFINE Small(n) == {s \in SUBSET S : Cardinality(s) <= n}
           Solves(F, n) == /\ F \in [SUBSET S -> Int]
                           /\ \A s \in Small(n) : F[s] = IF s = {} THEN 0
                                ELSE g[Choose(s)] + F[s \ {Choose(s)}]
           Good == {n \in Nat : \E F : Solves(F, n)}
<1>1. 0 \in Good
  <2> DEFINE F == [s \in SUBSET S |-> 0]
  <2>1. ASSUME NEW s \in Small(0) PROVE s = {}
    <3>1. s # {} => Cardinality(s) \in Nat \ {0}
      BY Smaller
    <3>2. Cardinality(s) <= 0
      OBVIOUS
    <3> QED
      BY <3>1, <3>2
  <2>2. Solves(F, 0)
    BY <2>1
  <2> QED
    BY <2>2
<1>2. ASSUME NEW n \in Nat, n \in Good PROVE n + 1 \in Good
  <2>1. PICK F : Solves(F, n)
    BY <1>2
  <2> DEFINE G == [s \in SUBSET S |-> IF s \in Small(n) THEN F[s]
                                      ELSE g[Choose(s)] + F[s \ {Choose(s)}]]
  <2>2. ASSUME NEW s \in SUBSET S, s \notin Small(n)
        PROVE  s # {} /\ Choose(s) \in S /\ s \ {Choose(s)} \in SUBSET S
    <3>1. s # {}
      BY <2>2, FS_EmptySet
    <3> QED
      BY <3>1, Smaller
  <2>3. G \in [SUBSET S -> Int]
    BY <2>1, <2>2
  <2>4. ASSUME NEW s \in Small(n + 1)
        PROVE  G[s] = IF s = {} THEN 0 ELSE g[Choose(s)] + G[s \ {Choose(s)}]
    <3>1. CASE s = {}
      <4>1. s \in Small(n)
        BY <3>1, FS_EmptySet
      <4> QED
        BY <3>1, <4>1, <2>1
    <3>2. CASE s # {}
      <4>0. /\ Cardinality(s) \in Nat /\ Cardinality(s) <= n + 1
            /\ Cardinality(s \ {Choose(s)}) = Cardinality(s) - 1
            /\ s \ {Choose(s)} \in SUBSET S
        BY <3>2, Smaller
      <4>1. s \ {Choose(s)} \in Small(n)
        BY <4>0
      <4>2. G[s \ {Choose(s)}] = F[s \ {Choose(s)}]
        BY <4>1
      <4>3. G[s] = g[Choose(s)] + F[s \ {Choose(s)}]
        BY <3>2, <2>1
      <4> QED
        BY <3>2, <4>2, <4>3
    <3> QED
      BY <3>1, <3>2
  <2>5. Solves(G, n + 1)
    BY <2>3, <2>4
  <2> HIDE DEF Solves
  <2> QED
    BY <2>5
<1>3. Cardinality(S) \in Good
  <2>1. Cardinality(S) \in Nat
    BY FS_CardinalityType
  <2> HIDE DEF Good
  <2> QED
    BY <1>1, <1>2, <2>1, SetInduction
<1>4. PICK F : Solves(F, Cardinality(S))
    BY <1>3
<1>5. ASSUME NEW s \in SUBSET S PROVE s \in Small(Cardinality(S))
    BY FS_Subset
<1>6. SumEq(F, g, S)
    BY <1>4, <1>5 DEF SumEq
<1> QED
    BY <1>4, <1>6

\* The function built by Summing is the sum over every subset of S.
LEMMA SummingSums ==
    ASSUME NEW S, IsFiniteSet(S), NEW g \in [S -> Int]
    PROVE  SumEq(Summing(g, S), g, S) /\ Summing(g, S) \in [SUBSET S -> Int]
<1> DEFINE F == Summing(g, S)
<1>1. SumEq(F, g, S)
    BY SumExists DEF Summing
<1> HIDE DEF F
<1> DEFINE Good == {n \in Nat : \A s \in SUBSET S : Cardinality(s) <= n => F[s] \in Int}
<1>2. 0 \in Good
  <2>1. ASSUME NEW s \in SUBSET S, Cardinality(s) <= 0 PROVE F[s] \in Int
    <3>0. s # {} => Cardinality(s) \in Nat \ {0}
      BY Smaller
    <3>1. s = {}
      BY <2>1, <3>0
    <3> QED
      BY <3>1, <1>1 DEF SumEq
  <2> QED
    BY <2>1
<1>3. ASSUME NEW n \in Nat, n \in Good PROVE n + 1 \in Good
  <2>1. ASSUME NEW s \in SUBSET S, Cardinality(s) <= n + 1 PROVE F[s] \in Int
    <3>1. CASE s = {}
      BY <3>1, <1>1 DEF SumEq
    <3>2. CASE s # {}
      <4>1. /\ Choose(s) \in S /\ s \ {Choose(s)} \in SUBSET S /\ Cardinality(s) \in Nat
            /\ Cardinality(s \ {Choose(s)}) = Cardinality(s) - 1
        BY <3>2, Smaller
      <4>2. Cardinality(s \ {Choose(s)}) <= n
        BY <2>1, <4>1
      <4>3. F[s \ {Choose(s)}] \in Int
        BY <1>3, <4>1, <4>2
      <4>4. F[s] = g[Choose(s)] + F[s \ {Choose(s)}]
        BY <1>1, <3>2 DEF SumEq
      <4> QED
        BY <4>1, <4>3, <4>4
    <3> QED
      BY <3>1, <3>2
  <2> QED
    BY <2>1
<1>4. Cardinality(S) \in Good
  <2>1. Cardinality(S) \in Nat
    BY FS_CardinalityType
  <2> HIDE DEF Good
  <2> QED
    BY <1>2, <1>3, <2>1, SetInduction
<1>5. ASSUME NEW s \in SUBSET S PROVE F[s] \in Int
    BY <1>4, FS_Subset
<1>6. F \in [SUBSET S -> Int]
    BY <1>1, <1>5 DEF SumEq
<1> QED
    BY <1>1, <1>6 DEF F

\* A sum changes by what one summand changes by.
LEMMA SumChanges ==
    ASSUME NEW S, IsFiniteSet(S), NEW g \in [S -> Int], NEW h \in [S -> Int], NEW p \in S,
           \A x \in S \ {p} : h[x] = g[x]
    PROVE  /\ SumFunction(g) \in Int
           /\ SumFunction(h) = SumFunction(g) + (h[p] - g[p])
<1> DEFINE F == Summing(g, S)
           G == Summing(h, S)
<1>1. /\ F \in [SUBSET S -> Int] /\ SumEq(F, g, S)
      /\ G \in [SUBSET S -> Int] /\ SumEq(G, h, S)
    BY SummingSums
<1> HIDE DEF F, G
<1> DEFINE Diff(s) == G[s] = F[s] + IF p \in s THEN h[p] - g[p] ELSE 0
           Good == {n \in Nat : \A s \in SUBSET S : Cardinality(s) = n => Diff(s)}
<1>2. 0 \in Good
  <2>1. ASSUME NEW s \in SUBSET S, Cardinality(s) = 0 PROVE Diff(s)
    <3>1. s = {}
      BY <2>1, Smaller
    <3> QED
      BY <3>1, <1>1 DEF SumEq
  <2> QED
    BY <2>1
<1>3. ASSUME NEW n \in Nat, n \in Good PROVE n + 1 \in Good
  <2>1. ASSUME NEW s \in SUBSET S, Cardinality(s) = n + 1 PROVE Diff(s)
    <3> DEFINE c == Choose(s)
               r == s \ {c}
    <3>1. s # {}
      BY <2>1, FS_EmptySet
    <3>2. c \in s /\ r \in SUBSET S /\ Cardinality(r) = n
      BY <2>1, <3>1, Smaller
    <3>3. Diff(r)
      BY <1>3, <3>2
    <3>4. F[s] = g[c] + F[r] /\ G[s] = h[c] + G[r]
      BY <1>1, <3>1 DEF SumEq
    <3>5. F[r] \in Int /\ G[r] \in Int /\ g[c] \in Int /\ h[c] \in Int /\ g[p] \in Int /\ h[p] \in Int
      BY <1>1, <3>2
    <3> HIDE DEF c
    <3>6. CASE c = p
      BY <3>2, <3>3, <3>4, <3>5, <3>6
    <3>7. CASE c # p
      BY <3>2, <3>3, <3>4, <3>5, <3>7
    <3> QED
      BY <3>6, <3>7
  <2> QED
    BY <2>1
<1>4. Diff(S)
  <2>1. Cardinality(S) \in Nat
    BY FS_CardinalityType
  <2>2. Cardinality(S) \in Good
    <3> HIDE DEF Good
    <3> QED
      BY <1>2, <1>3, <2>1, SetInduction
  <2> QED
    BY <2>2
<1>5. SumFunction(g) = F[S] /\ SumFunction(h) = G[S]
    BY SumIs DEF F, G
<1> QED
    BY <1>1, <1>4, <1>5

\* Nothing added up is 0.
LEMMA SumOfZeros ==
    ASSUME NEW S, IsFiniteSet(S)
    PROVE  SumFunction([x \in S |-> 0]) = 0
<1> DEFINE g == [x \in S |-> 0]
           F == Summing(g, S)
<1>0. g \in [S -> Int]
    OBVIOUS
<1>1. SumEq(F, g, S)
  <2> HIDE DEF g
  <2> QED
    BY <1>0, SummingSums
<1> HIDE DEF F
<1> DEFINE Good == {n \in Nat : \A s \in SUBSET S : Cardinality(s) = n => F[s] = 0}
<1>2. 0 \in Good
  <2>1. ASSUME NEW s \in SUBSET S, Cardinality(s) = 0 PROVE F[s] = 0
    <3>1. s = {}
      BY <2>1, Smaller
    <3> QED
      BY <3>1, <1>1 DEF SumEq
  <2> QED
    BY <2>1
<1>3. ASSUME NEW n \in Nat, n \in Good PROVE n + 1 \in Good
  <2>1. ASSUME NEW s \in SUBSET S, Cardinality(s) = n + 1 PROVE F[s] = 0
    <3> DEFINE c == Choose(s)
               r == s \ {c}
    <3>1. s # {}
      BY <2>1, FS_EmptySet
    <3>2. c \in s /\ r \in SUBSET S /\ Cardinality(r) = n
      <4> HIDE DEF g
      <4>1. c \in s /\ r \in SUBSET S /\ Cardinality(r) = Cardinality(s) - 1
        BY <3>1, Smaller
      <4> QED
        BY <2>1, <4>1
    <3>3. F[r] = 0
      BY <1>3, <3>2
    <3>4. F[s] = g[c] + F[r]
      BY <1>1, <3>1 DEF SumEq
    <3> QED
      BY <3>2, <3>3, <3>4
  <2> QED
    BY <2>1
<1>4. Cardinality(S) \in Good
  <2>1. Cardinality(S) \in Nat
    BY FS_CardinalityType
  <2> HIDE DEF Good
  <2> QED
    BY <1>2, <1>3, <2>1, SetInduction
<1>5. SumFunction(g) = F[S]
    BY SumIs DEF F
<1> QED
    BY <1>4, <1>5

-----------------------------------------------------------------------------
(* Powers of two.  2^n is the number of subsets of a set of n elements,     *)
(* which is all the library says of it.                                     *)

LEMMA PowerNat == ASSUME NEW n \in Nat PROVE 2^n \in Nat
<1>1. IsFiniteSet(1..n) /\ Cardinality(1..n) = n
    BY FS_Interval
<1>2. IsFiniteSet(SUBSET (1..n)) /\ Cardinality(SUBSET (1..n)) = 2^n
    BY <1>1, FS_SUBSET
<1> QED
    BY <1>2, FS_CardinalityType

\* The subsets of 1..n+1 are those without n+1, and as many with it.
LEMMA PowerSucc == ASSUME NEW n \in Nat PROVE 2^(n + 1) = 2 * 2^n
<1> DEFINE A == SUBSET (1..n)
           B == {s \cup {n + 1} : s \in A}
<1>1. IsFiniteSet(1..n) /\ Cardinality(1..n) = n
    BY FS_Interval
<1>2. IsFiniteSet(1..(n + 1)) /\ Cardinality(1..(n + 1)) = n + 1
    BY FS_Interval
<1>3. IsFiniteSet(A) /\ Cardinality(A) = 2^n
    BY <1>1, FS_SUBSET
<1>4. Cardinality(SUBSET (1..(n + 1))) = 2^(n + 1)
    BY <1>2, FS_SUBSET
<1>5. n + 1 \notin 1..n /\ 1..(n + 1) = (1..n) \cup {n + 1}
    OBVIOUS
<1>6. SUBSET (1..(n + 1)) = A \cup B
  <2>1. ASSUME NEW s \in SUBSET (1..(n + 1)) PROVE s \in A \cup B
    <3>1. s \ {n + 1} \in A
      BY <1>5
    <3>2. n + 1 \in s => s = (s \ {n + 1}) \cup {n + 1}
      OBVIOUS
    <3>3. n + 1 \notin s => s \in A
      BY <1>5
    <3> QED
      BY <3>1, <3>2, <3>3
  <2>2. ASSUME NEW s \in A \cup B PROVE s \in SUBSET (1..(n + 1))
    BY <1>5
  <2> QED
    BY <2>1, <2>2
<1>7. A \cap B = {}
    BY <1>5
<1>8. ExistsBijection(A, B)
  <2> DEFINE f == [s \in A |-> s \cup {n + 1}]
  <2>1. \A s \in A : n + 1 \notin s
    BY <1>5
  <2>2. ASSUME NEW s \in A, NEW t \in A, s \cup {n + 1} = t \cup {n + 1} PROVE s = t
    BY <2>1, <2>2
  <2>3. f \in [A -> B]
    OBVIOUS
  <2>4. ASSUME NEW s \in A, NEW t \in A, f[s] = f[t] PROVE s = t
    BY <2>2, <2>4
  <2>5. ASSUME NEW b \in B PROVE \E s \in A : f[s] = b
    OBVIOUS
  <2> HIDE DEF f, A, B
  <2>6. f \in Bijection(A, B)
    BY <2>3, <2>4, <2>5 DEF Bijection, Injection, Surjection, IsInjective
  <2> QED
    BY <2>6 DEF ExistsBijection
<1>9. IsFiniteSet(B) /\ Cardinality(B) = 2^n
    BY <1>3, <1>8, FS_Bijection
<1> HIDE DEF A, B
<1>10. Cardinality(A \cup B) = Cardinality(A) + Cardinality(B) - Cardinality(A \cap B)
    BY <1>3, <1>9, FS_Union
<1>11. Cardinality(A \cap B) = 0
    BY <1>7, FS_EmptySet
<1>12. 2^(n + 1) = Cardinality(A \cup B)
    BY <1>4, <1>6
<1> DEFINE x == 2^n
<1>13. x \in Nat /\ Cardinality(A) = x /\ Cardinality(B) = x
    BY <1>3, <1>9, PowerNat
<1> HIDE DEF x
<1>14. Cardinality(A \cup B) = 2 * x
    BY <1>10, <1>11, <1>13
<1> QED
    BY <1>12, <1>14 DEF x

\* Powers of two are positive and outgrow their exponents.
LEMMA PowerPositive ==
    /\ 2^0 = 1
    /\ \A n \in Nat : 2^n \in Nat \ {0} /\ n < 2^n
<1>1. 2^0 = 1
    OBVIOUS
<1> DEFINE Good == {n \in Nat : 2^n \in Nat \ {0} /\ n < 2^n}
<1>2. 0 \in Good
    BY <1>1
<1>3. ASSUME NEW n \in Nat, n \in Good PROVE n + 1 \in Good
  <2> DEFINE x == 2^n
             y == 2^(n + 1)
  <2>1. x \in Nat \ {0} /\ n < x /\ y = 2 * x
    BY <1>3, PowerSucc
  <2> HIDE DEF x, y
  <2>2. y \in Nat \ {0} /\ n + 1 < y
    BY <2>1
  <2> QED
    BY <2>2 DEF y
<1> HIDE DEF Good
<1>4. Nat \subseteq Good
    BY <1>2, <1>3, SetInduction
<1> QED
    BY <1>1, <1>4 DEF Good

\* A larger exponent gives no smaller power.
LEMMA PowerMonotone ==
    ASSUME NEW i \in Nat, NEW j \in Nat, i <= j
    PROVE  2^i <= 2^j
<1> DEFINE Good == {n \in Nat : 2^i <= 2^(i + n)}
<1>1. 0 \in Good
  <2>1. i + 0 = i /\ 2^i \in Nat
    BY PowerNat
  <2>2. 2^(i + 0) = 2^i
    BY <2>1
  <2> QED
    BY <2>1, <2>2
<1>2. ASSUME NEW n \in Nat, n \in Good PROVE n + 1 \in Good
  <2> DEFINE x == 2^(i + n)
             y == 2^(i + (n + 1))
             z == 2^i
  <2>1. i + n \in Nat /\ i + (n + 1) = (i + n) + 1
    OBVIOUS
  <2>2. y = 2 * x /\ x \in Nat /\ z \in Nat /\ z <= x
    BY <1>2, <2>1, PowerSucc, PowerNat
  <2> HIDE DEF x, y, z
  <2>3. z <= y
    BY <2>2
  <2> QED
    BY <2>3 DEF y, z
<1> HIDE DEF Good
<1>3. j - i \in Good
    BY <1>1, <1>2, SetInduction
<1>4. i + (j - i) = j
    OBVIOUS
<1> QED
    BY <1>3, <1>4 DEF Good

\* Division with remainder.
LEMMA DivFacts ==
    ASSUME NEW a \in Nat, NEW d \in Nat \ {0}
    PROVE  /\ a \div d \in Nat /\ a % d \in 0..(d-1)
           /\ a = d * (a \div d) + (a % d)
BY SMTT(30)

\* Division of a multiple.
LEMMA DivMultiple ==
    ASSUME NEW m \in Int, NEW d \in Nat \ {0}
    PROVE  (m * d) \div d = m
OBVIOUS

Steps(L, S) == [1..L -> [S -> S]]
Iterates(f, L, a, F) == f[0] = a /\ \A n \in 1..L : f[n] = F[n][f[n-1]]

\* A recursion over 0..L has a solution: it is built up step by step.
LEMMA Recursion ==
    ASSUME NEW L \in Nat, NEW S, NEW a \in S, NEW F \in Steps(L, S)
    PROVE  \E f \in [0..L -> S] : Iterates(f, L, a, F)
<1> USE DEF Steps, Iterates
<1> DEFINE Solves(f, n) == /\ f \in [0..L -> S] /\ f[0] = a
                           /\ \A i \in 1..L : i <= n => f[i] = F[i][f[i-1]]
           Good == {n \in Nat : \E f : Solves(f, n)}
<1>1. 0 \in Good
  <2>1. Solves([i \in 0..L |-> a], 0)
    OBVIOUS
  <2> QED
    BY <2>1
<1>2. ASSUME NEW n \in Nat, n \in Good PROVE n + 1 \in Good
  <2>1. PICK f : Solves(f, n)
    BY <1>2
  <2>2. PICK g : g = [i \in 0..L |-> IF i <= n THEN f[i] ELSE IF i = n + 1 THEN F[i][f[i-1]] ELSE a]
    OBVIOUS
  <2>3. \A i \in 1..L : i - 1 \in 0..L /\ F[i][f[i-1]] \in S
    BY <2>1
  <2>4. g \in [0..L -> S] /\ g[0] = a
    BY <2>1, <2>2, <2>3
  <2>5. ASSUME NEW i \in 1..L, i <= n + 1 PROVE g[i] = F[i][g[i-1]]
    <3>1. i - 1 \in 0..L /\ i - 1 <= n /\ g[i-1] = f[i-1]
      BY <2>2, <2>3, <2>5
    <3>2. g[i] = F[i][f[i-1]]
      BY <2>1, <2>2, <2>5
    <3> QED
      BY <3>1, <3>2
  <2>6. Solves(g, n + 1)
    BY <2>4, <2>5
  <2> HIDE DEF Solves
  <2> QED
    BY <2>6
<1>3. L \in Good
  <2> HIDE DEF Good
  <2> QED
    BY <1>1, <1>2, SetInduction
<1> QED
    BY <1>3

\* So has one over all numbers: the solutions over 0..n agree.
LEMMA NatRecursion ==
    ASSUME NEW S, NEW a \in S, NEW G \in [S -> S]
    PROVE  \E f \in [Nat -> S] : f[0] = a /\ \A n \in Nat : f[n + 1] = G[f[n]]
<1> DEFINE Solves(f, n) == f \in [0..n -> S] /\ f[0] = a /\ \A i \in 1..n : f[i] = G[f[i - 1]]
<1>1. ASSUME NEW n \in Nat PROVE \E f : Solves(f, n)
  <2> DEFINE F == [i \in 1..n |-> G]
  <2>1. F \in Steps(n, S)
    BY DEF Steps
  <2>2. PICK f \in [0..n -> S] : Iterates(f, n, a, F)
    <3> HIDE DEF F
    <3> QED
      BY <2>1, Recursion
  <2>3. Solves(f, n)
    BY <2>2 DEF Iterates
  <2> HIDE DEF Solves
  <2> QED
    BY <2>3
<1>2. ASSUME NEW n \in Nat, NEW f, NEW g, Solves(f, n), Solves(g, n + 1)
      PROVE  f[n] = g[n]
  <2> DEFINE Same == {i \in Nat : i <= n => f[i] = g[i]}
  <2>1. 0 \in Same
    BY <1>2
  <2>2. ASSUME NEW i \in Nat, i \in Same PROVE i + 1 \in Same
    <3>1. CASE i + 1 <= n
      <4>1. i + 1 \in 1..n /\ i + 1 \in 1..(n + 1) /\ i <= n /\ i + 1 - 1 = i
        BY <3>1
      <4>2. f[i + 1] = G[f[i]] /\ g[i + 1] = G[g[i]]
        BY <1>2, <4>1
      <4> QED
        BY <2>2, <4>1, <4>2
    <3> QED
      BY <3>1
  <2>3. n \in Same
    <3> HIDE DEF Same
    <3> QED
      BY <2>1, <2>2, SetInduction
  <2> QED
    BY <2>3
<1> DEFINE The(n) == CHOOSE f : Solves(f, n)
<1>3. ASSUME NEW n \in Nat PROVE Solves(The(n), n)
  <2> HIDE DEF Solves
  <2> QED
    BY <1>1
<1> HIDE DEF The
<1> PICK h : h = [n \in Nat |-> The(n)[n]]
    OBVIOUS
<1>4. \A n \in Nat : The(n)[n] \in S
  <2> SUFFICES ASSUME NEW n \in Nat PROVE The(n)[n] \in S
    OBVIOUS
  <2>1. The(n) \in [0..n -> S] /\ n \in 0..n
    BY <1>3
  <2> QED
    BY <2>1
<1>5. h \in [Nat -> S]
    BY <1>4
<1>6. h[0] = a
    BY <1>3
<1>7. ASSUME NEW n \in Nat PROVE h[n + 1] = G[h[n]]
  <2>1. Solves(The(n), n) /\ Solves(The(n + 1), n + 1) /\ n + 1 \in Nat
    BY <1>3
  <2>2. The(n)[n] = The(n + 1)[n]
    <3> HIDE DEF Solves
    <3> QED
      BY <1>2, <2>1
  <2>3. n + 1 \in 1..(n + 1) /\ n + 1 - 1 = n
    OBVIOUS
  <2>4. The(n + 1)[n + 1] = G[The(n + 1)[n]]
    BY <2>1, <2>3
  <2> QED
    BY <2>2, <2>4
<1> QED
    BY <1>5, <1>6, <1>7

=============================================================================
