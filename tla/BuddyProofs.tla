----------------------------- MODULE BuddyProofs -----------------------------
(***************************************************************************)
(* Proofs about Buddy, for every size of the region, of the smallest block *)
(* and of the metadata: the blocks partition the region, merging goes as   *)
(* far as it can, and the manager implements MemoryManager.                *)
(***************************************************************************)
EXTENDS Buddy, Arithmetic

-----------------------------------------------------------------------------
(* Sizes and buddies.                                                       *)

\* Blocks double in size with every order.
LEMMA SizeFacts ==
    /\ Size(0) = 1
    /\ \A k \in Nat : Size(k) \in Nat \ {0} /\ k < Size(k) /\ Size(k + 1) = 2 * Size(k)
    /\ \A i, j \in Nat : i <= j => Size(i) <= Size(j)
BY PowerPositive, PowerSucc, PowerMonotone DEF Size

\* A block of order k starts at a multiple of its size.
Aligned(b, k) == \E m \in Nat : b = m * Size(k)

\* The lower half of an aligned block, and its buddy.
LEMMA LowerHalf ==
    ASSUME NEW b, NEW k \in Nat, Aligned(b, k + 1)
    PROVE  /\ Aligned(b, k) /\ Aligned(b + Size(k), k)
           /\ BuddyOf(b, k) = b + Size(k) /\ BuddyOf(b + Size(k), k) = b
<1> DEFINE d == Size(k)
<1>1. d \in Nat \ {0} /\ Size(k + 1) = 2 * d
    BY SizeFacts
<1>2. PICK h \in Nat : b = h * (2 * d)
    BY <1>1 DEF Aligned
<1>3. /\ b = (2 * h) * d /\ b + d = (2 * h + 1) * d /\ b \in Nat
      /\ 2 * h \in Nat /\ 2 * h + 1 \in Nat
    BY <1>1, <1>2
<1>4. b \div d = 2 * h /\ (b + d) \div d = 2 * h + 1
  <2> HIDE DEF d
  <2>1. ((2 * h) * d) \div d = 2 * h
    BY <1>1, <1>3, DivMultiple
  <2>2. ((2 * h + 1) * d) \div d = 2 * h + 1
    BY <1>1, <1>3, DivMultiple
  <2> QED
    BY <1>3, <2>1, <2>2
<1>5. (2 * h) % 2 = 0 /\ (2 * h + 1) % 2 = 1
    OBVIOUS
<1>6. Aligned(b, k) /\ Aligned(b + d, k)
    BY <1>3 DEF Aligned
<1>7. BuddyOf(b, k) = b + d /\ BuddyOf(b + d, k) = b
    BY <1>1, <1>3, <1>4, <1>5 DEF BuddyOf
<1> QED
    BY <1>6, <1>7

\* Two buddies are the halves of an aligned block of the next order.
LEMMA BuddyPair ==
    ASSUME NEW b, NEW k \in Nat, Aligned(b, k)
    PROVE  \E low \in Nat :
              /\ Aligned(low, k) /\ Aligned(low + Size(k), k) /\ Aligned(low, k + 1)
              /\ BuddyOf(low, k) = low + Size(k)
              /\ BuddyOf(low + Size(k), k) = low
              /\ b = low \/ b = low + Size(k)
<1> DEFINE d == Size(k)
<1>1. d \in Nat \ {0} /\ Size(k + 1) = 2 * d
    BY SizeFacts
<1>2. PICK m \in Nat : b = m * d
    BY DEF Aligned
<1>3. PICK h \in Nat : m = 2 * h \/ m = 2 * h + 1
  <2>1. m \div 2 \in Nat /\ (m = 2 * (m \div 2) \/ m = 2 * (m \div 2) + 1)
    OBVIOUS
  <2> QED
    BY <2>1
<1> DEFINE low == h * (2 * d)
<1>4. low \in Nat /\ (b = low \/ b = low + d)
    BY <1>1, <1>2, <1>3
<1>5. Aligned(low, k + 1)
    BY <1>1 DEF Aligned
<1> HIDE DEF low
<1> QED
    BY <1>4, <1>5, LowerHalf

\* An aligned block is aligned for every lower order.
LEMMA AlignedLower ==
    ASSUME NEW b, NEW k \in Nat, NEW j \in 0..k, Aligned(b, k)
    PROVE  Aligned(b, j)
<1> DEFINE Good == {n \in Nat : n <= k => Aligned(b, k - n)}
<1>1. 0 \in Good
  <2>1. k - 0 = k
    OBVIOUS
  <2> QED
    BY <2>1
<1>2. ASSUME NEW n \in Nat, n \in Good PROVE n + 1 \in Good
  <2> SUFFICES ASSUME n + 1 <= k PROVE Aligned(b, k - (n + 1))
    OBVIOUS
  <2> DEFINE i == k - (n + 1)
  <2>1. i \in Nat /\ k - n = i + 1 /\ n <= k
    OBVIOUS
  <2>2. PICK m \in Nat : b = m * Size(k - n)
    BY <1>2, <2>1 DEF Aligned
  <2>3. Size(k - n) = 2 * Size(i) /\ Size(i) \in Nat
    BY <2>1, SizeFacts
  <2>4. b = (2 * m) * Size(i) /\ 2 * m \in Nat
    BY <2>2, <2>3
  <2> QED
    BY <2>4 DEF Aligned
<1> HIDE DEF Good
<1>3. k - j \in Good
    BY <1>1, <1>2, SetInduction
<1>4. k - (k - j) = j /\ k - j <= k
    OBVIOUS
<1> QED
    BY <1>3, <1>4 DEF Good

\* The region has a largest order.
LEMMA MaxFacts == max_k \in Orders /\ Managed = 0..(Size(max_k) - 1)
<1> DEFINE Fits == {k \in Orders : Size(k) <= HeapMinBlocks}
           S == {MaxOrder - k : k \in Fits}
<1>1. 0 \in Fits
    BY SizeFacts, BuddyAssumption DEF Orders
<1>2. S \in SUBSET Nat /\ S # {}
    BY <1>1, BuddyAssumption DEF Orders
<1>3. PICK x \in S : \A y \in S : x <= y
    BY <1>2, Least
<1>4. PICK k \in Fits : x = MaxOrder - k
    BY <1>3
<1>5. \A j \in Fits : j <= k
  <2> SUFFICES ASSUME NEW j \in Fits PROVE j <= k
    OBVIOUS
  <2>1. MaxOrder - k <= MaxOrder - j
    BY <1>3, <1>4
  <2>2. k \in Nat /\ j \in Nat /\ MaxOrder \in Nat
    BY BuddyAssumption DEF Orders
  <2> QED
    BY <2>1, <2>2
<1>6. \E i \in Orders : /\ Size(i) <= HeapMinBlocks
                        /\ \A j \in Orders : Size(j) <= HeapMinBlocks => j <= i
    BY <1>5
<1> QED
    BY <1>6 DEF max_k, Managed

\* Every request has a target order.
LEMMA TargetFacts ==
    ASSUME NEW size \in Nat
    PROVE  TargetOrder(size) \in Nat
<1> DEFINE req == Required(size)
           S == {k \in Nat : MinBlockSize * Size(k) >= req}
<1>1. req \in Nat /\ req <= size + MetaSize + FreeBlockSize
    BY BuddyAssumption DEF Required
<1>2. req \in S
  <2>1. Size(req) \in Nat /\ req < Size(req)
    BY <1>1, SizeFacts
  <2>2. MinBlockSize \in Nat \ {0}
    BY BuddyAssumption
  <2> HIDE DEF req
  <2>3. MinBlockSize * Size(req) >= Size(req)
    BY <2>1, <2>2
  <2>4. MinBlockSize * Size(req) \in Nat
    BY <2>1, <2>2
  <2> QED
    BY <1>1, <2>1, <2>3, <2>4
<1>3. PICK k \in S : \A j \in S : k <= j
  <2> HIDE DEF req
  <2>1. S \in SUBSET Nat /\ S # {}
    BY <1>2
  <2> QED
    BY <2>1, Least
<1>4. k \in 0..(size + MetaSize + FreeBlockSize)
    BY <1>1, <1>2, <1>3, BuddyAssumption
<1>5. \A j \in 0..(k-1) : MinBlockSize * Size(j) < req
  <2> SUFFICES ASSUME NEW j \in 0..(k-1) PROVE MinBlockSize * Size(j) < req
    OBVIOUS
  <2>1. j \in Nat /\ j \notin S
    BY <1>3
  <2>2. MinBlockSize * Size(j) \in Nat
    <3>1. Size(j) \in Nat /\ MinBlockSize \in Nat
      BY <2>1, SizeFacts, BuddyAssumption
    <3> QED
      BY <3>1
  <2> QED
    BY <1>1, <2>1, <2>2
<1>6. MinBlockSize * Size(k) >= req
    OBVIOUS
<1>7. TargetOrder(size) \in 0..(size + MetaSize + FreeBlockSize)
    BY <1>4, <1>5, <1>6 DEF TargetOrder
<1> QED
    BY <1>7, BuddyAssumption

-----------------------------------------------------------------------------
(* Lists.                                                                   *)

Listed(q, x) == \E i \in DOMAIN q : q[i] = x

\* A list with a new element in front.
LEMMA PutFirst ==
    ASSUME NEW S, NEW q \in Seq(S), NEW x \in S, IsInjective(q), ~Listed(q, x)
    PROVE  /\ <<x>> \o q \in Seq(S)
           /\ IsInjective(<<x>> \o q)
           /\ \A y : Listed(<<x>> \o q, y) <=> y = x \/ Listed(q, y)
<1> DEFINE r == <<x>> \o q
<1>1. /\ r \in Seq(S) /\ Len(r) = Len(q) + 1 /\ r[1] = x
      /\ \A i \in 1..Len(q) : r[i + 1] = q[i]
      /\ DOMAIN q = 1..Len(q) /\ DOMAIN r = 1..Len(r) /\ Len(q) \in Nat
    OBVIOUS
<1> HIDE DEF r
<1>2. ASSUME NEW i \in DOMAIN r, i # 1 PROVE i - 1 \in DOMAIN q /\ r[i] = q[i - 1]
  <2>1. i - 1 \in 1..Len(q) /\ (i - 1) + 1 = i
    BY <1>1, <1>2
  <2>2. r[(i - 1) + 1] = q[i - 1]
    BY <1>1, <2>1
  <2> QED
    BY <1>1, <2>1, <2>2
<1>3. IsInjective(r)
  <2> SUFFICES ASSUME NEW i \in DOMAIN r, NEW j \in DOMAIN r, r[i] = r[j] PROVE i = j
    BY DEF IsInjective
  <2>1. CASE i = 1 /\ j = 1
    BY <2>1
  <2>2. CASE i = 1 /\ j # 1
    BY <2>2, <1>1, <1>2 DEF Listed
  <2>3. CASE i # 1 /\ j = 1
    BY <2>3, <1>1, <1>2 DEF Listed
  <2>4. CASE i # 1 /\ j # 1
    <3>1. i - 1 = j - 1
      BY <2>4, <1>2 DEF IsInjective
    <3> QED
      BY <3>1, <1>1
  <2> QED
    BY <2>1, <2>2, <2>3, <2>4
<1>4. ASSUME NEW y PROVE Listed(r, y) <=> y = x \/ Listed(q, y)
  <2>1. ASSUME Listed(r, y) PROVE y = x \/ Listed(q, y)
    BY <2>1, <1>1, <1>2 DEF Listed
  <2>2. ASSUME y = x PROVE Listed(r, y)
    <3>1. 1 \in DOMAIN r
      BY <1>1
    <3> QED
      BY <2>2, <3>1, <1>1 DEF Listed
  <2>3. ASSUME Listed(q, y) PROVE Listed(r, y)
    <3>1. PICK i \in 1..Len(q) : q[i] = y
      BY <2>3, <1>1 DEF Listed
    <3>2. i + 1 \in DOMAIN r /\ r[i + 1] = y
      BY <1>1, <3>1
    <3> QED
      BY <3>2 DEF Listed
  <2> QED
    BY <2>1, <2>2, <2>3
<1> QED
    BY <1>1, <1>3, <1>4 DEF r

\* A sequence without its k-th element.
LEMMA Without ==
    ASSUME NEW S, NEW q \in Seq(S), IsInjective(q), NEW k \in 1..Len(q), NEW r \in Seq(S),
           Len(r) = Len(q) - 1,
           \A i \in 1..Len(r) : r[i] = IF i < k THEN q[i] ELSE q[i + 1]
    PROVE  /\ IsInjective(r)
           /\ \A y : Listed(r, y) <=> Listed(q, y) /\ y # q[k]
<1>1. DOMAIN q = 1..Len(q) /\ DOMAIN r = 1..Len(r) /\ Len(q) \in Nat \ {0}
    OBVIOUS
<1> DEFINE f(i) == IF i < k THEN i ELSE i + 1
<1>2. \A i \in DOMAIN r : r[i] = q[f(i)] /\ f(i) \in DOMAIN q /\ f(i) # k
    BY <1>1
<1>3. IsInjective(r)
  <2> SUFFICES ASSUME NEW i \in DOMAIN r, NEW j \in DOMAIN r, r[i] = r[j] PROVE i = j
    BY DEF IsInjective
  <2>1. f(i) = f(j)
    BY <1>2 DEF IsInjective
  <2> QED
    BY <1>1, <2>1
<1>4. ASSUME NEW y PROVE Listed(r, y) <=> Listed(q, y) /\ y # q[k]
  <2>1. ASSUME Listed(r, y) PROVE Listed(q, y) /\ y # q[k]
    <3>1. PICK i \in DOMAIN r : r[i] = y
      BY <2>1 DEF Listed
    <3>2. q[f(i)] = y /\ f(i) \in DOMAIN q /\ f(i) # k /\ k \in DOMAIN q
      BY <1>1, <1>2, <3>1
    <3> QED
      BY <3>2 DEF Listed, IsInjective
  <2>2. ASSUME Listed(q, y), y # q[k] PROVE Listed(r, y)
    <3>1. PICK i \in DOMAIN q : q[i] = y
      BY <2>2 DEF Listed
    <3>2. i # k
      BY <2>2, <3>1
    <3>3. CASE i < k
      <4>1. i \in DOMAIN r /\ r[i] = y
        BY <1>1, <3>1, <3>3
      <4> QED
        BY <4>1 DEF Listed
    <3>4. CASE i > k
      <4>1. i - 1 \in DOMAIN r /\ ~(i - 1 < k) /\ (i - 1) + 1 = i
        BY <1>1, <3>1, <3>4
      <4>2. r[i - 1] = y
        BY <1>1, <3>1, <4>1
      <4> QED
        BY <4>1, <4>2 DEF Listed
    <3> QED
      BY <1>1, <3>1, <3>2, <3>3, <3>4
  <2> QED
    BY <2>1, <2>2
<1> QED
    BY <1>3, <1>4

\* A list without its first element.
LEMMA TakeFirst ==
    ASSUME NEW S, NEW q \in Seq(S), IsInjective(q), q # <<>>
    PROVE  /\ Tail(q) \in Seq(S) /\ Head(q) \in S /\ Listed(q, Head(q))
           /\ IsInjective(Tail(q))
           /\ \A y : Listed(Tail(q), y) <=> Listed(q, y) /\ y # Head(q)
<1>1. /\ Tail(q) \in Seq(S) /\ Len(Tail(q)) = Len(q) - 1 /\ Head(q) = q[1] /\ Len(q) \in Nat \ {0}
      /\ \A i \in 1..Len(Tail(q)) : Tail(q)[i] = q[i + 1]
    OBVIOUS
<1>2. 1 \in 1..Len(q) /\ q[1] \in S /\ DOMAIN q = 1..Len(q)
    BY <1>1
<1>3. \A i \in 1..Len(Tail(q)) : Tail(q)[i] = IF i < 1 THEN q[i] ELSE q[i + 1]
    BY <1>1
<1>4. /\ IsInjective(Tail(q))
      /\ \A y : Listed(Tail(q), y) <=> Listed(q, y) /\ y # q[1]
    BY <1>1, <1>2, <1>3, Without
<1> QED
    BY <1>1, <1>2, <1>4 DEF Listed

\* Sequences are functions.
LEMMA SeqIntro ==
    ASSUME NEW S, NEW n \in Nat, NEW q \in [1..n -> S]
    PROVE  q \in Seq(S) /\ Len(q) = n
OBVIOUS

\* A list without one of its elements (remove_from_list).
LEMMA TakeOut ==
    ASSUME NEW S, NEW q \in Seq(S), IsInjective(q), NEW x, Listed(q, x)
    PROVE  /\ RemoveFirst(q, x) \in Seq(S)
           /\ IsInjective(RemoveFirst(q, x))
           /\ \A y : Listed(RemoveFirst(q, x), y) <=> Listed(q, y) /\ y # x
<1> DEFINE I == {i \in 1..Len(q) : q[i] = x}
<1>1. DOMAIN q = 1..Len(q) /\ Len(q) \in Nat
    OBVIOUS
<1>2. PICK k \in 1..Len(q) : q[k] = x
    BY <1>1 DEF Listed
<1>3. I = {k}
    BY <1>1, <1>2 DEF IsInjective
<1>4. SelectInSeq(q, LAMBDA v : v = x) = k
  <2>1. SelectInSeq(q, LAMBDA v : v = x) = IF I # {} THEN Min(I) ELSE 0
    BY DEF SelectInSeq
  <2>2. Min({k}) = k
    BY DEF Min
  <2> QED
    BY <1>3, <2>1, <2>2
<1>5. RemoveFirst(q, x) = SubSeq(q, 1, k - 1) \o SubSeq(q, k + 1, Len(q))
    BY <1>2, <1>4 DEF RemoveFirst, RemoveAt
<1> DEFINE a == SubSeq(q, 1, k - 1)
           b == SubSeq(q, k + 1, Len(q))
           r == a \o b
<1>6. /\ a \in Seq(S) /\ Len(a) = k - 1 /\ \A i \in 1..(k - 1) : a[i] = q[i]
      /\ b \in Seq(S) /\ Len(b) = Len(q) - k /\ \A i \in 1..(Len(q) - k) : b[i] = q[k + i]
  <2>0. q \in [1..Len(q) -> S] /\ k \in Nat /\ k - 1 \in Nat /\ Len(q) - k \in Nat
    BY <1>1, <1>2
  <2>1. a = [i \in 1..(k - 1) |-> q[i]]
    BY <1>1, <1>2, <2>0
  <2>2. b = [i \in 1..(Len(q) - k) |-> q[k + i]]
    BY <1>1, <1>2, <2>0
  <2> HIDE DEF a, b
  <2>3. \A i \in 1..(k - 1) : i \in 1..Len(q) /\ q[i] \in S
    BY <1>1, <1>2, <2>0
  <2>4. \A i \in 1..(Len(q) - k) : k + i \in 1..Len(q) /\ q[k + i] \in S
    BY SMTT(40), <1>1, <1>2, <2>0
  <2>5. a \in Seq(S) /\ Len(a) = k - 1
    <3>1. a \in [1..(k - 1) -> S]
      BY <2>1, <2>3
    <3> QED
      BY <2>0, <3>1, SeqIntro
  <2>6. b \in Seq(S) /\ Len(b) = Len(q) - k
    <3>1. b \in [1..(Len(q) - k) -> S]
      BY <2>2, <2>4
    <3> QED
      BY <2>0, <3>1, SeqIntro
  <2> QED
    BY <2>1, <2>2, <2>5, <2>6
<1> HIDE DEF a, b
<1>7. /\ r \in Seq(S) /\ Len(r) = Len(q) - 1
      /\ \A i \in 1..Len(r) : r[i] = IF i < k THEN q[i] ELSE q[i + 1]
  <2>1. r \in Seq(S) /\ Len(r) = Len(q) - 1
    <3>0. a \in Seq(S) /\ b \in Seq(S)
      BY <1>6
    <3>1. Len(r) = Len(a) + Len(b) /\ r \in Seq(S)
      BY <3>0
    <3> QED
      BY <1>1, <1>2, <1>6, <3>1
  <2>2. ASSUME NEW i \in 1..Len(r) PROVE r[i] = IF i < k THEN q[i] ELSE q[i + 1]
    <3>1. CASE i < k
      BY <1>1, <1>6, <2>1, <3>1
    <3>2. CASE ~(i < k)
      <4>1. i - (k - 1) \in 1..(Len(q) - k) /\ k + (i - (k - 1)) = i + 1
        BY <1>1, <1>2, <2>1, <3>2
      <4>2. r[i] = b[i - (k - 1)]
        BY <1>1, <1>6, <2>1, <3>2
      <4>3. b[i - (k - 1)] = q[k + (i - (k - 1))]
        BY <1>6, <4>1
      <4> QED
        BY <3>2, <4>1, <4>2, <4>3
    <3> QED
      BY <3>1, <3>2
  <2> QED
    BY <2>1, <2>2
<1>8. r = RemoveFirst(q, x)
    BY <1>5 DEF a, b
<1> HIDE DEF r
<1>9. IsInjective(r) /\ \A y : Listed(r, y) <=> Listed(q, y) /\ y # q[k]
    BY <1>7, Without
<1> QED
    BY <1>2, <1>7, <1>8, <1>9

-----------------------------------------------------------------------------
(* The parts of a block of order k at b that is halved down to order t.     *)

Part(b, k, t, x, l) == \/ x = b /\ l = t
                       \/ l \in t..(k - 1) /\ x = b + Size(l)

\* The parts lie in the block, at multiples of their size; the buddy of each
\* upper half starts where the block starts.
LEMMA PartFacts ==
    ASSUME NEW b \in Nat, NEW k \in Nat, NEW t \in 0..k, Aligned(b, k),
           NEW x, NEW l, Part(b, k, t, x, l)
    PROVE  /\ x \in Nat /\ l \in t..k /\ Aligned(x, l)
           /\ b <= x /\ x + Size(l) <= b + Size(k)
           /\ x # b => x = b + Size(l) /\ l < k /\ BuddyOf(x, l) = b
<1>1. t \in Nat /\ t <= k
    OBVIOUS
<1>2. CASE x = b /\ l = t
  <2>1. Aligned(x, l) /\ Size(t) \in Nat /\ Size(k) \in Nat /\ Size(t) <= Size(k)
    BY <1>1, <1>2, AlignedLower, SizeFacts
  <2> QED
    BY <1>1, <1>2, <2>1
<1>3. CASE l \in t..(k - 1) /\ x = b + Size(l)
  <2>1. l \in Nat /\ l + 1 \in Nat /\ l + 1 <= k /\ l + 1 \in 0..k /\ l \in t..k /\ l < k
    BY <1>1, <1>3
  <2>2. /\ Size(l) \in Nat \ {0} /\ Size(k) \in Nat /\ Size(l + 1) = 2 * Size(l)
        /\ Size(l + 1) <= Size(k)
    BY <2>1, SizeFacts
  <2>3. Aligned(b, l + 1)
    BY <2>1, AlignedLower
  <2>4. Aligned(b, l) /\ BuddyOf(b, l) = b + Size(l) /\ Aligned(b + Size(l), l)
        /\ BuddyOf(b + Size(l), l) = b
    BY <2>1, <2>3, LowerHalf
  <2> QED
    BY <1>3, <2>1, <2>2, <2>4
<1> QED
    BY <1>2, <1>3 DEF Part

\* Two parts that share a unit are the same.
LEMMA PartsDisjoint ==
    ASSUME NEW b \in Nat, NEW k \in Nat, NEW t \in 0..k,
           NEW x, NEW l, Part(b, k, t, x, l), NEW y, NEW m, Part(b, k, t, y, m),
           x < y + Size(m), y < x + Size(l)
    PROVE  x = y /\ l = m
<1>1. t \in Nat /\ t <= k /\ l \in Nat /\ m \in Nat /\ t <= l /\ t <= m
    BY DEF Part
<1>2. /\ Size(l) \in Nat /\ Size(m) \in Nat
      /\ Size(t) \in Nat /\ Size(t) <= Size(l) /\ Size(t) <= Size(m)
    BY <1>1, SizeFacts
<1>3. l < m => Size(l) + Size(l) <= Size(m)
  <2>1. l < m => l + 1 <= m
    BY <1>1
  <2>2. l + 1 \in Nat /\ Size(l + 1) = 2 * Size(l)
    BY <1>1, SizeFacts
  <2>3. l < m => Size(l + 1) <= Size(m)
    BY <1>1, <2>1, <2>2, SizeFacts
  <2> QED
    BY <1>1, <1>2, <2>2, <2>3
<1>4. m < l => Size(m) + Size(m) <= Size(l)
  <2>1. m < l => m + 1 <= l
    BY <1>1
  <2>2. m + 1 \in Nat /\ Size(m + 1) = 2 * Size(m)
    BY <1>1, SizeFacts
  <2>3. m < l => Size(m + 1) <= Size(l)
    BY <1>1, <2>1, <2>2, SizeFacts
  <2> QED
    BY <1>1, <1>2, <2>2, <2>3
<1>5. CASE x = b /\ l = t /\ y = b /\ m = t
    BY <1>5
<1>6. CASE x = b /\ l = t /\ y = b + Size(m)
    BY <1>2, <1>6
<1>7. CASE x = b + Size(l) /\ y = b /\ m = t
    BY <1>2, <1>7
<1>8. CASE x = b + Size(l) /\ y = b + Size(m)
  <2>1. ~(l < m) /\ ~(m < l)
    BY <1>2, <1>3, <1>4, <1>8
  <2> QED
    BY <1>1, <1>8, <2>1
<1> QED
    BY <1>5, <1>6, <1>7, <1>8 DEF Part

\* The parts make up the block.
LEMMA PartsCover ==
    ASSUME NEW b \in Nat, NEW k \in Nat, NEW t \in 0..k,
           NEW u \in Nat, b <= u, u < b + Size(k)
    PROVE  \E x, l : Part(b, k, t, x, l) /\ x <= u /\ u < x + Size(l)
<1>0. t \in Nat /\ t <= k /\ Size(t) \in Nat /\ Size(k) \in Nat
  <2>1. t \in Nat /\ t <= k
    OBVIOUS
  <2> QED
    BY <2>1, SizeFacts
<1>1. CASE u < b + Size(t)
    BY <1>1 DEF Part
<1>2. CASE ~(u < b + Size(t))
  <2> DEFINE S == {n \in Nat : u < b + Size(n)}
  <2>1. S \in SUBSET Nat /\ k \in S
    OBVIOUS
  <2>2. PICK n \in S : \A j \in S : n <= j
    <3> HIDE DEF S
    <3> QED
      BY <2>1, Least
  <2>3. n \in Nat /\ u < b + Size(n) /\ n <= k
    BY <2>1, <2>2
  <2>4. t < n
    <3>1. n <= t => Size(n) <= Size(t)
      BY <1>0, <2>3, SizeFacts
    <3>2. Size(n) \in Nat
      BY <2>3, SizeFacts
    <3> QED
      BY <1>0, <1>2, <2>3, <3>1, <3>2
  <2> DEFINE l == n - 1
  <2>5. l \in Nat /\ l \in t..(k - 1) /\ n = l + 1 /\ ~(n <= l)
    BY <1>0, <2>3, <2>4
  <2>6. ~(u < b + Size(l))
    BY <2>2, <2>5
  <2>7. Size(n) = 2 * Size(l) /\ Size(l) \in Nat
    BY <2>5, SizeFacts
  <2> HIDE DEF l, S
  <2>8. b + Size(l) <= u /\ u < (b + Size(l)) + Size(l)
    BY <2>3, <2>6, <2>7
  <2>9. Part(b, k, t, b + Size(l), l)
    BY <2>5 DEF Part
  <2> QED
    BY <2>8, <2>9
<1> QED
    BY <1>1, <1>2

-----------------------------------------------------------------------------
(* The inductive invariant.  A block is free, in use, or the one that       *)
(* mm_free is merging.                                                      *)

Free(b, k) == k \in Orders /\ Listed(buddy_lists[k], b)
Used(b, k) == b \in DOMAIN order /\ order[b] = k
Pending(b, k) == buddy_pc = "merge" /\ b = block_to_free /\ k = current_order
Block(b, k) == Free(b, k) \/ Used(b, k) \/ Pending(b, k)

Fits(b, k) == b \in Nat /\ k \in 0..max_k /\ b + Size(k) <= Size(max_k) /\ Aligned(b, k)

\* Blocks lie in the region, at multiples of their size.
Placed == \A b, k : Block(b, k) => Fits(b, k)

\* Two blocks that share a unit are the same block ...
Apart(b, k, c, l) == b < c + Size(l) /\ c < b + Size(k) => b = c /\ k = l
Disjoint == \A b, k, c, l : Block(b, k) /\ Block(c, l) => Apart(b, k, c, l)

\* ... which is only one of free, in use and being freed ...
Exclusive == \A b, k : /\ ~(Free(b, k) /\ Used(b, k))
                       /\ ~(Free(b, k) /\ Pending(b, k))
                       /\ ~(Used(b, k) /\ Pending(b, k))

\* ... and on its list once.
Once == \A k \in Orders : IsInjective(buddy_lists[k])

Has(b, k, u) == b <= u /\ u < b + Size(k)
Cover == \A u \in Managed : \E b, k : Block(b, k) /\ Has(b, k, u)

Merged == \A b, k : Free(b, k) /\ k < max_k => ~Free(BuddyOf(b, k), k)

Blocks == Placed /\ Disjoint /\ Exclusive /\ Cover
IInv == BuddyTypeOK /\ Once /\ Blocks /\ Merged

\* The orders in use.
LEMMA OrderFacts ==
    /\ Orders \subseteq Nat /\ max_k \in Nat /\ 0..max_k \subseteq Orders
    /\ Size(max_k) \in Nat \ {0}
<1>1. Orders \subseteq Nat /\ max_k \in Nat /\ 0..max_k \subseteq Orders
    BY MaxFacts, BuddyAssumption DEF Orders
<1> QED
    BY <1>1, SizeFacts

\* What it means to lie in the region.
LEMMA FitsFacts ==
    ASSUME NEW b, NEW k, Fits(b, k)
    PROVE  /\ b \in Nat /\ k \in Nat /\ k \in Orders /\ k <= max_k /\ Aligned(b, k)
           /\ Size(k) \in Nat \ {0} /\ b + Size(k) <= Size(max_k) /\ b \in Managed
           /\ \A u : Has(b, k, u) /\ u \in Nat => u \in Managed
<1>1. /\ b \in Nat /\ k \in Nat /\ k \in Orders /\ k <= max_k /\ Aligned(b, k)
      /\ b + Size(k) <= Size(max_k)
    BY OrderFacts DEF Fits
<1>2. Size(k) \in Nat \ {0} /\ Size(max_k) \in Nat
    BY <1>1, SizeFacts, OrderFacts
<1> QED
    BY <1>1, <1>2, MaxFacts DEF Has

-----------------------------------------------------------------------------
(* mm_alloc                                                                 *)

\* The free block b of order k is halved down to order t and its start handed out.
Splits(b, k, t) ==
    /\ t \in 0..k
    /\ Free(b, k)
    /\ \A x, l : Free(x, l)' <=> \/ Free(x, l) /\ ~(x = b /\ l = k)
                                 \/ l \in t..(k - 1) /\ x = b + Size(l)
    /\ buddy_lists' \in [Orders -> Seq(Managed)] /\ Once'
    /\ order' = [x \in DOMAIN order \cup {b} |-> IF x = b THEN t ELSE order[x]]
    /\ buddy_pc = "idle" /\ UNCHANGED <<buddy_pc, block_to_free, current_order>>

\* That is what mm_alloc does.
LEMMA AllocStep ==
    ASSUME IInv, NEW size \in BuddyRequest, buddy_mm_alloc(size)
    PROVE  \E b, k, t : Splits(b, k, t)
<1>1. PICK t : t = TargetOrder(size)
    OBVIOUS
<1>2. t \in Nat
  <2>1. size \in Nat
    <3>1. Size(max_k) \in Nat /\ MinBlockSize \in Nat
      BY OrderFacts, BuddyAssumption
    <3> QED
      BY <3>1 DEF BuddyRequest
  <2> QED
    BY <1>1, <2>1, TargetFacts
<1>3. PICK k \in Orders :
         /\ FoundAt(k, t)
         /\ buddy_lists' = Split(Head(buddy_lists[k]), k, t)
         /\ order' = [x \in DOMAIN order \cup {Head(buddy_lists[k])} |->
                        IF x = Head(buddy_lists[k]) THEN t ELSE order[x]]
    BY <1>1 DEF buddy_mm_alloc
<1>4. PICK b : b = Head(buddy_lists[k])
    OBVIOUS
<1>5. buddy_pc = "idle" /\ UNCHANGED <<buddy_pc, block_to_free, current_order>>
    BY DEF buddy_mm_alloc
<1>6. /\ buddy_lists \in [Orders -> Seq(Managed)]
      /\ \A j \in Orders : IsInjective(buddy_lists[j])
    BY DEF IInv, BuddyTypeOK, Once
<1>7. /\ buddy_lists[k] # <<>> /\ k \in Nat /\ t \in 0..k
      /\ \A j \in t..(k - 1) : buddy_lists[j] = <<>>
    BY <1>2, <1>3, OrderFacts DEF FoundAt
<1>8. /\ Tail(buddy_lists[k]) \in Seq(Managed) /\ Listed(buddy_lists[k], b)
      /\ IsInjective(Tail(buddy_lists[k]))
      /\ \A y : Listed(Tail(buddy_lists[k]), y) <=> Listed(buddy_lists[k], y) /\ y # b
    BY <1>4, <1>6, <1>7, TakeFirst
<1>9. Free(b, k) /\ Fits(b, k)
    BY <1>8 DEF Free, IInv, Blocks, Placed, Block
<1>10. b \in Nat /\ k \in Nat /\ b + Size(k) <= Size(max_k) /\ Aligned(b, k)
    BY <1>9, FitsFacts
<1>11. \A j \in Orders : buddy_lists'[j] = CASE j = k -> Tail(buddy_lists[k])
                                             [] j \in t..(k-1) -> <<b + Size(j)>> \o buddy_lists[j]
                                             [] OTHER -> buddy_lists[j]
    BY <1>3, <1>4 DEF Split
<1>12. ASSUME NEW j \in Orders
       PROVE  /\ buddy_lists'[j] \in Seq(Managed) /\ IsInjective(buddy_lists'[j])
              /\ \A x : Listed(buddy_lists'[j], x) <=>
                    \/ Listed(buddy_lists[j], x) /\ ~(x = b /\ j = k)
                    \/ j \in t..(k - 1) /\ x = b + Size(j)
  <2>0. j \in Nat
    BY OrderFacts
  <2>1. CASE j = k
    <3>1. ~(j \in t..(k - 1)) /\ buddy_lists'[j] = Tail(buddy_lists[k])
      BY <2>1, <1>7, <1>11
    <3> QED
      BY <2>1, <3>1, <1>8
  <2>2. CASE j \in t..(k - 1)
    <3>1. j # k /\ buddy_lists[j] = <<>> /\ buddy_lists'[j] = <<b + Size(j)>> \o buddy_lists[j]
      BY <2>0, <2>2, <1>2, <1>7, <1>11
    <3>2. b + Size(j) \in Managed
      <4>1. Part(b, k, t, b + Size(j), j)
        BY <2>2 DEF Part
      <4>2. b + Size(j) \in Nat /\ (b + Size(j)) + Size(j) <= b + Size(k)
        BY <4>1, <1>7, <1>10, PartFacts
      <4>3. Size(j) \in Nat \ {0} /\ Size(k) \in Nat /\ Size(max_k) \in Nat
        BY <2>0, <1>7, SizeFacts, OrderFacts
      <4> QED
        BY SMTT(40), <4>2, <4>3, <1>10, MaxFacts
    <3>3. \A x : ~Listed(buddy_lists[j], x)
      BY <3>1 DEF Listed
    <3>4. buddy_lists[j] \in Seq(Managed) /\ IsInjective(buddy_lists[j])
      BY <1>6
    <3>5. /\ buddy_lists'[j] \in Seq(Managed) /\ IsInjective(buddy_lists'[j])
          /\ \A y : Listed(buddy_lists'[j], y) <=> y = b + Size(j) \/ Listed(buddy_lists[j], y)
      <4>1. PICK q : q = buddy_lists[j]
        OBVIOUS
      <4>2. PICK c : c = b + Size(j)
        OBVIOUS
      <4>3. q \in Seq(Managed) /\ c \in Managed /\ IsInjective(q) /\ ~Listed(q, c)
        BY <3>2, <3>3, <3>4, <4>1, <4>2
      <4>4. /\ <<c>> \o q \in Seq(Managed) /\ IsInjective(<<c>> \o q)
            /\ \A y : Listed(<<c>> \o q, y) <=> y = c \/ Listed(q, y)
        BY <4>3, PutFirst
      <4>5. buddy_lists'[j] = <<c>> \o q
        BY <3>1, <4>1, <4>2
      <4> QED
        BY <4>1, <4>2, <4>4, <4>5
    <3> QED
      BY <2>2, <3>3, <3>5
  <2>3. CASE j # k /\ ~(j \in t..(k - 1))
    <3>1. buddy_lists'[j] = buddy_lists[j]
      BY <2>3, <1>11
    <3> QED
      BY <2>3, <3>1, <1>6
  <2> QED
    BY <2>1, <2>2, <2>3
<1>13. buddy_lists' \in [Orders -> Seq(Managed)]
  <2>1. buddy_lists' = [j \in Orders |-> buddy_lists'[j]]
    BY <1>3 DEF Split
  <2> QED
    BY <2>1, <1>12
<1>14. Once'
    BY <1>12 DEF Once
<1>15. ASSUME NEW x, NEW l
       PROVE  Free(x, l)' <=> \/ Free(x, l) /\ ~(x = b /\ l = k)
                              \/ l \in t..(k - 1) /\ x = b + Size(l)
  <2>1. l \in t..(k - 1) => l \in Orders
    <3>1. k \in 0..MaxOrder /\ MaxOrder \in Nat
      BY BuddyAssumption DEF Orders
    <3> QED
      BY <3>1, <1>2 DEF Orders
  <2>2. CASE l \in Orders
    BY <2>2, <1>12 DEF Free
  <2>3. CASE l \notin Orders
    BY <2>1, <2>3 DEF Free
  <2> QED
    BY <2>2, <2>3
<1> QED
    BY <1>3, <1>4, <1>5, <1>7, <1>9, <1>13, <1>14, <1>15 DEF Splits

\* Halving a free block leaves the blocks in order.
LEMMA AllocBlocks ==
    ASSUME IInv, NEW b, NEW k, NEW t, Splits(b, k, t)
    PROVE  /\ Blocks' /\ Merged'
           /\ b \in Managed /\ Fits(b, t)
           /\ \A c \in DOMAIN order : Apart(b, t, c, order[c]) /\ c # b
<1> USE DEF IInv, Blocks
<1>0. /\ t \in 0..k /\ Free(b, k)
      /\ \A x, l : Free(x, l)' <=> \/ Free(x, l) /\ ~(x = b /\ l = k)
                                   \/ l \in t..(k - 1) /\ x = b + Size(l)
      /\ order' = [x \in DOMAIN order \cup {b} |-> IF x = b THEN t ELSE order[x]]
      /\ buddy_pc = "idle" /\ buddy_pc' = "idle"
    BY DEF Splits
<1> USE <1>0
<1>1. Block(b, k) /\ Fits(b, k)
    BY DEF Block, Placed
<1>2. /\ b \in Nat /\ k \in Nat /\ t \in Nat /\ k <= max_k /\ b + Size(k) <= Size(max_k)
      /\ Aligned(b, k) /\ Size(k) \in Nat \ {0} /\ b \in Managed /\ t <= k
  <2>1. k \in Nat
    BY <1>1, FitsFacts
  <2> QED
    BY <1>1, <2>1, FitsFacts
<1>3. ASSUME NEW x, NEW l PROVE ~Pending(x, l) /\ ~Pending(x, l)'
    BY DEF Pending
<1>4. b \notin DOMAIN order
  <2> SUFFICES ASSUME b \in DOMAIN order PROVE FALSE
    OBVIOUS
  <2>1. PICK l : l = order[b]
    OBVIOUS
  <2>2. Used(b, l) /\ Block(b, l)
    BY <2>1 DEF Used, Block
  <2>3. Size(l) \in Nat \ {0}
    BY <2>2, FitsFacts DEF Placed
  <2>4. b < b + Size(k) /\ b < b + Size(l)
    BY <1>2, <2>3
  <2>5. k = l
    BY <1>1, <2>2, <2>4 DEF Disjoint, Apart
  <2> QED
    BY <2>2, <2>5 DEF Exclusive
<1>5. ASSUME NEW x, NEW l PROVE Used(x, l)' <=> Used(x, l) \/ (x = b /\ l = t)
    BY <1>4 DEF Used
<1> DEFINE Rest(x, l) == Block(x, l) /\ ~(x = b /\ l = k)
<1>6. ASSUME NEW x, NEW l, Block(x, l)' PROVE Rest(x, l) \/ Part(b, k, t, x, l)
  <2>1. CASE Free(x, l)'
    BY <2>1 DEF Part, Block
  <2>2. CASE Used(x, l)'
    <3>1. CASE Used(x, l)
      BY <3>1 DEF Block, Exclusive
    <3> QED
      BY <2>2, <3>1, <1>5 DEF Part
  <2> QED
    BY <1>3, <1>6, <2>1, <2>2 DEF Block
<1>7. ASSUME NEW x, NEW l, Rest(x, l) \/ Part(b, k, t, x, l) PROVE Block(x, l)'
  <2>1. CASE Rest(x, l)
    <3>1. Free(x, l) \/ Used(x, l)
      BY <2>1, <1>3 DEF Block
    <3>2. Free(x, l) => Free(x, l)'
      BY <2>1
    <3>3. Used(x, l) => Used(x, l)'
      BY <1>5
    <3> QED
      BY <3>1, <3>2, <3>3 DEF Block
  <2>2. CASE Part(b, k, t, x, l)
    <3>1. Free(x, l)' \/ Used(x, l)'
      BY <2>2, <1>5 DEF Part
    <3> QED
      BY <3>1 DEF Block
  <2> QED
    BY <1>7, <2>1, <2>2
<1>8. ASSUME NEW x, NEW l, Part(b, k, t, x, l)
      PROVE  /\ Fits(x, l) /\ x \in Nat /\ l \in Nat /\ Size(l) \in Nat \ {0}
             /\ b <= x /\ x + Size(l) <= b + Size(k)
  <2>1. /\ x \in Nat /\ l \in t..k /\ Aligned(x, l)
        /\ b <= x /\ x + Size(l) <= b + Size(k)
    BY <1>2, <1>8, PartFacts
  <2>2. l \in Nat /\ l \in 0..max_k
    BY <1>2, <2>1, OrderFacts
  <2>3. Size(l) \in Nat \ {0}
    BY <2>2, SizeFacts
  <2>4. x + Size(l) <= Size(max_k)
    BY <1>2, <2>1, <2>3, OrderFacts
  <2> QED
    BY <2>1, <2>2, <2>3, <2>4 DEF Fits
<1>9. ASSUME NEW x, NEW l, Rest(x, l) PROVE x \in Nat /\ l \in Nat /\ Size(l) \in Nat \ {0}
  <2>1. Fits(x, l)
    BY <1>9 DEF Placed
  <2> QED
    BY <2>1, FitsFacts
<1>10. ASSUME NEW x, NEW l, Rest(x, l), NEW y, NEW m, Part(b, k, t, y, m)
       PROVE  ~(x < y + Size(m) /\ y < x + Size(l))
  <2>1. x \in Nat /\ Size(l) \in Nat
    BY <1>9, <1>10
  <2>2. y \in Nat /\ Size(m) \in Nat /\ b <= y /\ y + Size(m) <= b + Size(k)
    BY <1>8, <1>10
  <2>3. ~(x < b + Size(k) /\ b < x + Size(l))
    BY <1>1, <1>10 DEF Disjoint, Apart
  <2> QED
    BY <1>2, <2>1, <2>2, <2>3
<1> HIDE DEF Rest
<1>11. Placed'
  <2>1. ASSUME NEW x, NEW l, Block(x, l)' PROVE Fits(x, l)
    <3>1. CASE Rest(x, l)
      BY <3>1 DEF Rest, Placed
    <3> QED
      BY <2>1, <3>1, <1>6, <1>8
  <2> QED
    BY <2>1 DEF Placed
<1>12. Disjoint'
  <2>1. ASSUME NEW x, NEW l, Block(x, l)', NEW y, NEW m, Block(y, m)' PROVE Apart(x, l, y, m)
    <3>1. CASE Rest(x, l) /\ Rest(y, m)
      BY <3>1 DEF Rest, Disjoint
    <3>2. CASE Rest(x, l) /\ Part(b, k, t, y, m)
      BY <3>2, <1>10 DEF Apart
    <3>3. CASE Part(b, k, t, x, l) /\ Rest(y, m)
      BY <3>3, <1>10 DEF Apart
    <3>4. CASE Part(b, k, t, x, l) /\ Part(b, k, t, y, m)
      BY <3>4, <1>2, PartsDisjoint DEF Apart
    <3> QED
      BY <2>1, <3>1, <3>2, <3>3, <3>4, <1>6
  <2> QED
    BY <2>1 DEF Disjoint
<1>13. ASSUME NEW x, NEW l PROVE ~(Free(x, l)' /\ Used(x, l)')
  <2>1. CASE x = b /\ l = t
    <3>1. ~(l \in t..(k - 1) /\ x = b + Size(l))
      <4>1. Size(t) \in Nat \ {0}
        BY <1>2, SizeFacts
      <4> QED
        BY <1>2, <2>1, <4>1
    <3>2. ASSUME Free(x, l), ~(x = b /\ l = k) PROVE FALSE
      <4>1. Block(x, l) /\ Size(l) \in Nat \ {0}
        BY <1>2, <2>1, <3>2, SizeFacts DEF Block
      <4>2. b < b + Size(k) /\ b < b + Size(l)
        BY <1>2, <4>1
      <4> QED
        BY <1>1, <2>1, <3>2, <4>1, <4>2 DEF Disjoint, Apart
    <3> QED
      BY <3>1, <3>2
  <2>2. CASE ~(x = b /\ l = t) /\ Used(x, l)
    <3>1. Rest(x, l)
      BY <2>2 DEF Rest, Block, Exclusive
    <3>2. ~Free(x, l)
      BY <2>2 DEF Exclusive
    <3>3. ASSUME l \in t..(k - 1), x = b + Size(l) PROVE FALSE
      <4>1. Part(b, k, t, x, l)
        BY <3>3 DEF Part
      <4>2. x < x + Size(l) /\ x \in Nat
        BY <1>9, <3>1
      <4> QED
        BY <1>10, <3>1, <4>1, <4>2
    <3> QED
      BY <3>2, <3>3
  <2> QED
    BY <2>1, <2>2, <1>5
<1>14. Exclusive'
  <2>1. ASSUME NEW x, NEW l
        PROVE  /\ ~(Free(x, l)' /\ Used(x, l)') /\ ~(Free(x, l)' /\ Pending(x, l)')
               /\ ~(Used(x, l)' /\ Pending(x, l)')
    BY <1>3, <1>13
  <2> QED
    BY <2>1 DEF Exclusive
<1>15. Cover'
  <2>1. ASSUME NEW u \in Managed PROVE \E x, l : Block(x, l)' /\ Has(x, l, u)
    <3>1. PICK x, l : Block(x, l) /\ Has(x, l, u)
      BY DEF Cover
    <3>2. CASE x = b /\ l = k
      <4>1. u \in Nat
        BY OrderFacts DEF Managed
      <4>2. PICK y, m : Part(b, k, t, y, m) /\ y <= u /\ u < y + Size(m)
        BY <1>2, <3>1, <3>2, <4>1, PartsCover DEF Has
      <4> QED
        BY <1>7, <4>2 DEF Has
    <3>3. CASE ~(x = b /\ l = k)
      BY <1>7, <3>1, <3>3 DEF Rest
    <3> QED
      BY <3>2, <3>3
  <2> QED
    BY <2>1 DEF Cover
<1>16. Merged'
  <2>1. ASSUME NEW x, NEW l, Free(x, l)', l < max_k, Free(BuddyOf(x, l), l)' PROVE FALSE
    <3>1. PICK y : y = BuddyOf(x, l)
      OBVIOUS
    <3>2. Free(y, l)'
      BY <2>1, <3>1
    <3>3. BuddyOf(y, l) = x
      <4>1. Fits(x, l)
        BY <2>1, <1>11 DEF Placed, Block
      <4>2. Aligned(x, l) /\ l \in Nat
        BY <4>1, FitsFacts
      <4> QED
        BY <3>1, <4>2, BuddyPair
    <3>4. ~(x = b /\ l \in t..(k - 1)) /\ ~(y = b /\ l \in t..(k - 1))
      <4>1. ASSUME NEW z, Free(z, l)', z = b, l \in t..(k - 1) PROVE FALSE
        <5>1. l \in Nat /\ Size(l) \in Nat \ {0} /\ l # k
          BY <1>2, <4>1, SizeFacts
        <5>2. z # b + Size(l)
          BY <1>2, <4>1, <5>1
        <5>3. Free(z, l)
          BY <4>1, <5>2
        <5>4. b < b + Size(k) /\ b < b + Size(l)
          BY <1>2, <5>1
        <5> QED
          BY <1>1, <4>1, <5>1, <5>3, <5>4 DEF Disjoint, Apart, Block
      <4> QED
        BY <2>1, <3>2, <4>1
    <3>5. ASSUME NEW z, l \in t..(k - 1), z = b + Size(l) PROVE BuddyOf(z, l) = b
      <4>1. Part(b, k, t, z, l)
        BY <3>5 DEF Part
      <4>2. l \in Nat
        BY <1>2, <3>5
      <4>3. Size(l) \in Nat \ {0}
        BY <4>2, SizeFacts
      <4>4. z # b
        BY <1>2, <3>5, <4>3
      <4> QED
        BY <1>2, <4>1, <4>4, PartFacts
    <3>6. ~(l \in t..(k - 1) /\ x = b + Size(l)) /\ ~(l \in t..(k - 1) /\ y = b + Size(l))
      BY <3>1, <3>3, <3>4, <3>5
    <3>7. Free(x, l) /\ Free(y, l)
      BY <2>1, <3>2, <3>6
    <3> QED
      BY <2>1, <3>1, <3>7 DEF Merged
  <2> QED
    BY <2>1 DEF Merged
<1>17. Part(b, k, t, b, t) /\ Fits(b, t)
  <2>1. Part(b, k, t, b, t)
    BY DEF Part
  <2> QED
    BY <2>1, <1>8
<1>18. ASSUME NEW c \in DOMAIN order PROVE Apart(b, t, c, order[c]) /\ c # b
  <2>1. PICK l : l = order[c]
    OBVIOUS
  <2>2. Used(c, l) /\ c # b
    BY <2>1, <1>4 DEF Used
  <2>3. Rest(c, l)
    BY <2>2 DEF Rest, Block
  <2>4. Apart(b, t, c, l)
    BY <2>3, <1>10, <1>17 DEF Apart
  <2> QED
    BY <2>1, <2>2, <2>4
<1> QED
    BY <1>2, <1>11, <1>12, <1>14, <1>15, <1>16, <1>17, <1>18

-----------------------------------------------------------------------------
(* mm_free                                                                  *)

\* Steps that keep the blocks and only pass one from one owner to another.
LEMMA SameBlocks ==
    ASSUME IInv, \A x, l : Block(x, l)' <=> Block(x, l)
    PROVE  Placed' /\ Disjoint' /\ Cover'
<1>1. Placed'
  <2>1. ASSUME NEW x, NEW l, Block(x, l)' PROVE Fits(x, l)
    BY <2>1 DEF IInv, Blocks, Placed
  <2> QED
    BY <2>1 DEF Placed
<1>2. Disjoint'
  <2>1. ASSUME NEW x, NEW l, Block(x, l)', NEW y, NEW m, Block(y, m)' PROVE Apart(x, l, y, m)
    BY <2>1 DEF IInv, Blocks, Disjoint
  <2> QED
    BY <2>1 DEF Disjoint
<1>3. Cover'
  <2>1. ASSUME NEW u \in Managed PROVE \E x, l : Block(x, l)' /\ Has(x, l, u)
    BY DEF IInv, Blocks, Cover
  <2> QED
    BY <2>1 DEF Cover
<1> QED
    BY <1>1, <1>2, <1>3

\* mm_free takes a block out of use.
LEMMA FreeStep == ASSUME IInv, NEW b \in DOMAIN order, buddy_mm_free(b) PROVE IInv'
<1>1. PICK k : k = order[b]
    OBVIOUS
<1>2. /\ buddy_pc = "idle" /\ buddy_pc' = "merge" /\ block_to_free' = b /\ current_order' = k
      /\ order' = [x \in DOMAIN order \ {b} |-> order[x]] /\ buddy_lists' = buddy_lists
    BY <1>1 DEF buddy_mm_free
<1>3. BuddyTypeOK'
  <2>1. /\ DOMAIN order \subseteq Managed /\ order \in [DOMAIN order -> Orders]
        /\ buddy_lists \in [Orders -> Seq(Managed)]
    BY DEF IInv, BuddyTypeOK
  <2>2. b \in Managed /\ k \in Orders
    BY <1>1, <2>1
  <2> QED
    BY <1>2, <2>1, <2>2 DEF BuddyTypeOK
<1>4. ASSUME NEW x, NEW l
      PROVE  /\ Free(x, l)' <=> Free(x, l)
             /\ Used(x, l)' <=> Used(x, l) /\ x # b
             /\ ~Pending(x, l)
             /\ Pending(x, l)' <=> x = b /\ l = k
             /\ Used(b, k)
             /\ Used(x, l) /\ x = b => l = k
  <2>1. Free(x, l)' <=> Free(x, l)
    BY <1>2 DEF Free
  <2>2. Used(x, l)' <=> Used(x, l) /\ x # b
    BY <1>2 DEF Used
  <2>3. ~Pending(x, l)
    BY <1>2 DEF Pending
  <2>4. Pending(x, l)' <=> x = b /\ l = k
    BY <1>2 DEF Pending
  <2>5. Used(b, k) /\ (Used(x, l) /\ x = b => l = k)
    BY <1>1 DEF Used
  <2> QED
    BY <2>1, <2>2, <2>3, <2>4, <2>5
<1>5. ASSUME NEW x, NEW l PROVE Block(x, l)' <=> Block(x, l)
  <2>1. Block(x, l)' => Block(x, l)
    BY <1>4 DEF Block
  <2>2. Block(x, l) => Block(x, l)'
    BY <1>4 DEF Block
  <2> QED
    BY <2>1, <2>2
<1>6. Placed' /\ Disjoint' /\ Cover'
    BY <1>5, SameBlocks
<1>7. Exclusive'
  <2>1. ASSUME NEW x, NEW l
        PROVE  /\ ~(Free(x, l)' /\ Used(x, l)') /\ ~(Free(x, l)' /\ Pending(x, l)')
               /\ ~(Used(x, l)' /\ Pending(x, l)')
    BY <1>4 DEF IInv, Blocks, Exclusive
  <2> QED
    BY <2>1 DEF Exclusive
<1>8. Merged'
  <2>1. ASSUME NEW x, NEW l, Free(x, l)', l < max_k, Free(BuddyOf(x, l), l)' PROVE FALSE
    BY <1>2, <2>1 DEF IInv, Merged, Free
  <2> QED
    BY <2>1 DEF Merged
<1>9. Once'
    BY <1>2 DEF IInv, Once
<1> QED
    BY <1>3, <1>6, <1>7, <1>8, <1>9 DEF IInv, Blocks

\* is_buddy_free finds the buddy on its list.
LEMMA BuddyListed ==
    ASSUME BuddyTypeOK, NEW b, NEW k \in Orders
    PROVE  BuddyIsFree(b, k) <=> k < MaxOrder /\ Free(BuddyOf(b, k), k)
<1>1. buddy_lists[k] \in Seq(Managed)
    BY DEF BuddyTypeOK
<1>2. DOMAIN buddy_lists[k] = 1..Len(buddy_lists[k])
    BY <1>1
<1> QED
    BY <1>2 DEF BuddyIsFree, Free, Listed, Contains

\* The freed block goes on its list.
LEMMA InsertStep == ASSUME IInv, Insert PROVE IInv'
<1>1. PICK b, k : b = block_to_free /\ k = current_order
    OBVIOUS
<1>2. /\ buddy_pc = "merge" /\ buddy_pc' = "idle" /\ block_to_free' = 0 /\ current_order' = 0
      /\ buddy_lists' = [buddy_lists EXCEPT ![k] = <<b>> \o @] /\ order' = order
      /\ ~BuddyIsFree(b, k)
    BY <1>1 DEF Insert
<1>3. /\ buddy_lists \in [Orders -> Seq(Managed)] /\ k \in Orders /\ b \in Managed
      /\ \A j \in Orders : IsInjective(buddy_lists[j])
    BY <1>1 DEF IInv, BuddyTypeOK, Once
<1>4. Pending(b, k) /\ ~Free(b, k) /\ ~Used(b, k) /\ Fits(b, k)
  <2>1. Pending(b, k)
    BY <1>1, <1>2 DEF Pending
  <2> QED
    BY <2>1 DEF IInv, Blocks, Exclusive, Placed, Block
<1>5. /\ <<b>> \o buddy_lists[k] \in Seq(Managed) /\ IsInjective(<<b>> \o buddy_lists[k])
      /\ \A y : Listed(<<b>> \o buddy_lists[k], y) <=> y = b \/ Listed(buddy_lists[k], y)
  <2>1. PICK q : q = buddy_lists[k]
    OBVIOUS
  <2>2. q \in Seq(Managed) /\ IsInjective(q) /\ ~Listed(q, b)
    BY <1>3, <1>4, <2>1 DEF Free
  <2>3. /\ <<b>> \o q \in Seq(Managed) /\ IsInjective(<<b>> \o q)
        /\ \A y : Listed(<<b>> \o q, y) <=> y = b \/ Listed(q, y)
    BY <1>3, <2>2, PutFirst
  <2> QED
    BY <2>1, <2>3
<1>6. /\ buddy_lists' \in [Orders -> Seq(Managed)]
      /\ buddy_lists'[k] = <<b>> \o buddy_lists[k]
      /\ \A j \in Orders \ {k} : buddy_lists'[j] = buddy_lists[j]
    BY <1>2, <1>3, <1>5
<1>7. BuddyTypeOK'
  <2>1. 0 \in Managed /\ 0 \in Orders
    BY OrderFacts, BuddyAssumption DEF Managed, Orders
  <2> QED
    BY <1>2, <1>6, <2>1 DEF IInv, BuddyTypeOK
<1>8. Once'
    BY <1>3, <1>5, <1>6 DEF Once
<1>9. ASSUME NEW x, NEW l
      PROVE  /\ Free(x, l)' <=> Free(x, l) \/ (x = b /\ l = k)
             /\ Used(x, l)' <=> Used(x, l)
             /\ Pending(x, l) <=> x = b /\ l = k
             /\ ~Pending(x, l)'
  <2>1. Free(x, l)' <=> Free(x, l) \/ (x = b /\ l = k)
    <3>1. CASE l = k
      BY <3>1, <1>3, <1>5, <1>6 DEF Free
    <3>2. CASE l # k
      BY <3>2, <1>6 DEF Free
    <3> QED
      BY <3>1, <3>2
  <2>2. Used(x, l)' <=> Used(x, l)
    BY <1>2 DEF Used
  <2>3. Pending(x, l) <=> x = b /\ l = k
    BY <1>1, <1>2 DEF Pending
  <2>4. ~Pending(x, l)'
    BY <1>2 DEF Pending
  <2> QED
    BY <2>1, <2>2, <2>3, <2>4
<1>10. ASSUME NEW x, NEW l PROVE Block(x, l)' <=> Block(x, l)
  <2>1. Block(x, l)' => Block(x, l)
    BY <1>9 DEF Block
  <2>2. Block(x, l) => Block(x, l)'
    BY <1>9 DEF Block
  <2> QED
    BY <2>1, <2>2
<1>11. Placed' /\ Disjoint' /\ Cover'
    BY <1>10, SameBlocks
<1>12. Exclusive'
  <2>1. ASSUME NEW x, NEW l
        PROVE  /\ ~(Free(x, l)' /\ Used(x, l)') /\ ~(Free(x, l)' /\ Pending(x, l)')
               /\ ~(Used(x, l)' /\ Pending(x, l)')
    BY <1>4, <1>9 DEF IInv, Blocks, Exclusive
  <2> QED
    BY <2>1 DEF Exclusive
<1>13. Merged'
  <2>1. ASSUME NEW x, NEW l, Free(x, l)', l < max_k, Free(BuddyOf(x, l), l)' PROVE FALSE
    <3>1. PICK y : y = BuddyOf(x, l)
      OBVIOUS
    <3>2. Free(y, l)'
      BY <2>1, <3>1
    <3>3. Fits(x, l)
      BY <2>1, <1>11 DEF Placed, Block
    <3>4. Aligned(x, l) /\ l \in Nat /\ x \in Nat /\ Size(l) \in Nat \ {0}
      BY <3>3, FitsFacts
    <3>5. BuddyOf(y, l) = x /\ y # x
      <4>1. PICK low \in Nat : /\ BuddyOf(low, l) = low + Size(l)
                               /\ BuddyOf(low + Size(l), l) = low
                               /\ x = low \/ x = low + Size(l)
        BY <3>4, BuddyPair
      <4> QED
        BY <3>1, <3>4, <4>1
    <3>6. CASE ~(x = b /\ l = k) /\ ~(y = b /\ l = k)
      <4>1. Free(x, l) /\ Free(y, l)
        BY <2>1, <3>2, <3>6, <1>9
      <4> QED
        BY <2>1, <3>1, <4>1 DEF IInv, Merged
    <3>7. ~Free(BuddyOf(b, k), k) \/ ~(k < max_k)
      <4>1. BuddyIsFree(b, k) <=> k < MaxOrder /\ Free(BuddyOf(b, k), k)
        BY <1>3, BuddyListed DEF IInv
      <4>2. k < max_k => k < MaxOrder
        BY <1>3, MaxFacts, BuddyAssumption DEF Orders
      <4> QED
        BY <1>2, <4>1, <4>2
    <3>8. CASE x = b /\ l = k
      <4>1. Free(y, l)
        BY <3>2, <3>5, <3>8, <1>9
      <4> QED
        BY <2>1, <3>1, <3>7, <3>8, <4>1
    <3>9. CASE y = b /\ l = k
      <4>1. Free(x, l)
        BY <2>1, <3>5, <3>9, <1>9
      <4> QED
        BY <2>1, <3>5, <3>7, <3>9, <4>1
    <3> QED
      BY <3>6, <3>8, <3>9
  <2> QED
    BY <2>1 DEF Merged
<1> QED
    BY <1>7, <1>8, <1>11, <1>12, <1>13 DEF IInv, Blocks

\* The block being freed and its buddy, when that is free, are the halves of a
\* block of the next order.
LEMMA MergeFacts ==
    ASSUME NEW b, NEW k, NEW c, NEW low, Fits(b, k), Fits(c, k), c = BuddyOf(b, k),
           low = IF c < b THEN c ELSE b
    PROVE  /\ Fits(low, k + 1) /\ Size(k + 1) = 2 * Size(k) /\ k < max_k
           /\ b # c /\ {b, c} = {low, low + Size(k)}
<1>1. /\ b \in Nat /\ c \in Nat /\ k \in Nat /\ k <= max_k /\ Aligned(b, k)
      /\ Size(k) \in Nat \ {0} /\ b + Size(k) <= Size(max_k) /\ c + Size(k) <= Size(max_k)
      /\ Size(max_k) \in Nat /\ max_k \in Nat
    BY FitsFacts, OrderFacts
<1>2. PICK n \in Nat : /\ Aligned(n, k + 1)
                       /\ BuddyOf(n, k) = n + Size(k)
                       /\ BuddyOf(n + Size(k), k) = n
                       /\ b = n \/ b = n + Size(k)
    BY <1>1, BuddyPair
<1>3. low = n /\ b # c /\ {b, c} = {n, n + Size(k)} /\ n + Size(k) + Size(k) <= Size(max_k)
  <2>1. CASE b = n
    BY <1>1, <1>2, <2>1
  <2>2. CASE b = n + Size(k)
    BY <1>1, <1>2, <2>2
  <2> QED
    BY <1>2, <2>1, <2>2
<1>4. k < max_k
  <2>1. k # max_k
    BY <1>1, <1>3
  <2> QED
    BY <1>1, <2>1
<1>5. Size(k + 1) = 2 * Size(k)
    BY <1>1, SizeFacts
<1>6. Fits(low, k + 1)
    BY <1>1, <1>2, <1>3, <1>4, <1>5 DEF Fits
<1> QED
    BY <1>3, <1>4, <1>5, <1>6

\* The freed block and its buddy become one.
LEMMA MergeStep == ASSUME IInv, Merge PROVE IInv'
<1>1. PICK b, k : b = block_to_free /\ k = current_order
    OBVIOUS
<1>2. PICK c : c = BuddyOf(b, k)
    OBVIOUS
<1>3. PICK low : low = IF c < b THEN c ELSE b
    OBVIOUS
<1>4. /\ buddy_pc = "merge" /\ buddy_pc' = "merge" /\ block_to_free' = low /\ current_order' = k + 1
      /\ buddy_lists' = [buddy_lists EXCEPT ![k] = RemoveFirst(@, c)] /\ order' = order
      /\ BuddyIsFree(b, k)
    BY <1>1, <1>2, <1>3 DEF Merge
<1>5. /\ buddy_lists \in [Orders -> Seq(Managed)] /\ k \in Orders /\ b \in Managed
      /\ \A j \in Orders : IsInjective(buddy_lists[j])
    BY <1>1 DEF IInv, BuddyTypeOK, Once
<1>6. Free(c, k) /\ Fits(c, k) /\ ~Used(c, k)
  <2>1. Free(c, k)
    BY <1>2, <1>4, <1>5, BuddyListed DEF IInv
  <2> QED
    BY <2>1 DEF IInv, Blocks, Exclusive, Placed, Block
<1>7. Pending(b, k) /\ ~Free(b, k) /\ ~Used(b, k) /\ Fits(b, k)
  <2>1. Pending(b, k)
    BY <1>1, <1>4 DEF Pending
  <2> QED
    BY <2>1 DEF IInv, Blocks, Exclusive, Placed, Block
<1>8. /\ Fits(low, k + 1) /\ Size(k + 1) = 2 * Size(k) /\ k < max_k
      /\ b # c /\ {b, c} = {low, low + Size(k)}
    BY <1>2, <1>3, <1>6, <1>7, MergeFacts
<1>9. k \in Nat /\ Size(k) \in Nat \ {0} /\ low \in Nat /\ low \in Managed /\ k + 1 \in Orders
    BY <1>7, <1>8, FitsFacts
<1>10. /\ RemoveFirst(buddy_lists[k], c) \in Seq(Managed)
       /\ IsInjective(RemoveFirst(buddy_lists[k], c))
       /\ \A y : Listed(RemoveFirst(buddy_lists[k], c), y) <=> Listed(buddy_lists[k], y) /\ y # c
  <2>1. PICK q : q = buddy_lists[k]
    OBVIOUS
  <2>2. q \in Seq(Managed) /\ IsInjective(q) /\ Listed(q, c)
    BY <1>5, <1>6, <2>1 DEF Free
  <2>3. /\ RemoveFirst(q, c) \in Seq(Managed) /\ IsInjective(RemoveFirst(q, c))
        /\ \A y : Listed(RemoveFirst(q, c), y) <=> Listed(q, y) /\ y # c
    BY <2>2, TakeOut
  <2> QED
    BY <2>1, <2>3
<1>11. /\ buddy_lists' \in [Orders -> Seq(Managed)]
       /\ buddy_lists'[k] = RemoveFirst(buddy_lists[k], c)
       /\ \A j \in Orders \ {k} : buddy_lists'[j] = buddy_lists[j]
    BY <1>4, <1>5, <1>10
<1>12. BuddyTypeOK'
    BY <1>4, <1>9, <1>11 DEF IInv, BuddyTypeOK
<1>13. Once'
    BY <1>5, <1>10, <1>11 DEF Once
<1>14. ASSUME NEW x, NEW l
       PROVE  /\ Free(x, l)' <=> Free(x, l) /\ ~(x = c /\ l = k)
              /\ Used(x, l)' <=> Used(x, l)
              /\ Pending(x, l) <=> x = b /\ l = k
              /\ Pending(x, l)' <=> x = low /\ l = k + 1
  <2>1. Free(x, l)' <=> Free(x, l) /\ ~(x = c /\ l = k)
    <3>1. CASE l = k
      BY <3>1, <1>5, <1>10, <1>11 DEF Free
    <3>2. CASE l # k
      BY <3>2, <1>11 DEF Free
    <3> QED
      BY <3>1, <3>2
  <2>2. Used(x, l)' <=> Used(x, l)
    BY <1>4 DEF Used
  <2>3. Pending(x, l) <=> x = b /\ l = k
    BY <1>1, <1>4 DEF Pending
  <2>4. Pending(x, l)' <=> x = low /\ l = k + 1
    BY <1>4 DEF Pending
  <2> QED
    BY <2>1, <2>2, <2>3, <2>4
<1> DEFINE Rest(x, l) == Block(x, l) /\ ~(l = k /\ x \in {b, c})
           New(x, l) == x = low /\ l = k + 1
<1>15. ASSUME NEW x, NEW l, Block(x, l)' PROVE Rest(x, l) \/ New(x, l)
  <2>1. CASE Free(x, l)'
    BY <2>1, <1>7, <1>14 DEF Block
  <2>2. CASE Used(x, l)'
    BY <2>2, <1>6, <1>7, <1>14 DEF Block
  <2> QED
    BY <1>14, <1>15, <2>1, <2>2 DEF Block
<1>16. ASSUME NEW x, NEW l, Rest(x, l) \/ New(x, l) PROVE Block(x, l)'
  <2>1. CASE Rest(x, l)
    BY <2>1, <1>14 DEF Block
  <2>2. CASE New(x, l)
    BY <2>2, <1>14 DEF Block
  <2> QED
    BY <1>16, <2>1, <2>2
<1>17. ASSUME NEW x, NEW l, Rest(x, l)
       PROVE  ~(x < low + Size(k + 1) /\ low < x + Size(l))
  <2>1. Fits(x, l)
    BY <1>17 DEF IInv, Blocks, Placed
  <2>2. x \in Nat /\ Size(l) \in Nat \ {0}
    BY <2>1, FitsFacts
  <2>3. Block(b, k) /\ Block(c, k)
    BY <1>6, <1>7 DEF Block
  <2>4. ~(x < b + Size(k) /\ b < x + Size(l)) /\ ~(x < c + Size(k) /\ c < x + Size(l))
    BY <1>17, <2>3 DEF IInv, Blocks, Disjoint, Apart
  <2>5. /\ ~(x < low + Size(k) /\ low < x + Size(l))
        /\ ~(x < low + Size(k) + Size(k) /\ low + Size(k) < x + Size(l))
    BY <1>8, <2>4
  <2> QED
    BY <1>8, <1>9, <2>2, <2>5
<1> HIDE DEF Rest
<1>18. Placed'
  <2>1. ASSUME NEW x, NEW l, Block(x, l)' PROVE Fits(x, l)
    <3>1. CASE Rest(x, l)
      BY <3>1 DEF Rest, IInv, Blocks, Placed
    <3> QED
      BY <2>1, <3>1, <1>8, <1>15
  <2> QED
    BY <2>1 DEF Placed
<1>19. Disjoint'
  <2>1. ASSUME NEW x, NEW l, Block(x, l)', NEW y, NEW m, Block(y, m)' PROVE Apart(x, l, y, m)
    <3>1. CASE Rest(x, l) /\ Rest(y, m)
      BY <3>1 DEF Rest, IInv, Blocks, Disjoint
    <3>2. CASE Rest(x, l) /\ New(y, m)
      BY <3>2, <1>17 DEF Apart
    <3>3. CASE New(x, l) /\ Rest(y, m)
      BY <3>3, <1>17 DEF Apart
    <3>4. CASE New(x, l) /\ New(y, m)
      BY <3>4 DEF Apart
    <3> QED
      BY <2>1, <3>1, <3>2, <3>3, <3>4, <1>15
  <2> QED
    BY <2>1 DEF Disjoint
<1>20. ~Block(low, k + 1)
  <2>1. ASSUME Block(low, k + 1) PROVE FALSE
    <3>1. Rest(low, k + 1)
      BY <1>9, <2>1 DEF Rest
    <3>2. low < low + Size(k + 1)
      BY <1>8, <1>9
    <3> QED
      BY <1>17, <3>1, <3>2
  <2> QED
    BY <2>1
<1>21. Exclusive'
  <2>1. ASSUME NEW x, NEW l
        PROVE  /\ ~(Free(x, l)' /\ Used(x, l)') /\ ~(Free(x, l)' /\ Pending(x, l)')
               /\ ~(Used(x, l)' /\ Pending(x, l)')
    <3>1. ~(Free(x, l) /\ Used(x, l))
      BY DEF IInv, Blocks, Exclusive
    <3>2. Pending(x, l)' => ~Free(x, l) /\ ~Used(x, l)
      BY <1>14, <1>20 DEF Block
    <3> QED
      BY <1>14, <3>1, <3>2
  <2> QED
    BY <2>1 DEF Exclusive
<1>22. Cover'
  <2>1. ASSUME NEW u \in Managed PROVE \E x, l : Block(x, l)' /\ Has(x, l, u)
    <3>1. PICK x, l : Block(x, l) /\ Has(x, l, u)
      BY DEF IInv, Blocks, Cover
    <3>2. CASE l = k /\ x \in {b, c}
      <4>1. u \in Nat
        BY OrderFacts DEF Managed
      <4>2. x = low \/ x = low + Size(k)
        BY <1>8, <3>2
      <4>3. Has(low, k + 1, u)
        BY <1>8, <1>9, <3>1, <3>2, <4>1, <4>2 DEF Has
      <4> QED
        BY <1>16, <4>3
    <3>3. CASE ~(l = k /\ x \in {b, c})
      BY <1>16, <3>1, <3>3 DEF Rest
    <3> QED
      BY <3>2, <3>3
  <2> QED
    BY <2>1 DEF Cover
<1>23. Merged'
  <2>1. ASSUME NEW x, NEW l, Free(x, l)', l < max_k, Free(BuddyOf(x, l), l)' PROVE FALSE
    <3>1. PICK y : y = BuddyOf(x, l)
      OBVIOUS
    <3>2. Free(x, l) /\ Free(y, l)
      BY <2>1, <3>1, <1>14
    <3> QED
      BY <2>1, <3>1, <3>2 DEF IInv, Merged
  <2> QED
    BY <2>1 DEF Merged
<1> QED
    BY <1>12, <1>13, <1>18, <1>19, <1>21, <1>22, <1>23 DEF IInv, Blocks

-----------------------------------------------------------------------------
(* The theorems.                                                            *)

\* mm_init
LEMMA InitHolds == buddy_mm_init => IInv
<1> SUFFICES ASSUME buddy_mm_init PROVE IInv
    OBVIOUS
<1>0. 0 \in Managed /\ 0 \in Orders /\ max_k \in Orders
    BY OrderFacts, MaxFacts, BuddyAssumption DEF Managed, Orders
<1>1. /\ buddy_lists[max_k] = <<0>> /\ \A k \in Orders : k # max_k => buddy_lists[k] = <<>>
      /\ DOMAIN order = {} /\ buddy_pc = "idle"
    BY <1>0 DEF buddy_mm_init
<1>2. BuddyTypeOK
  <2>1. <<0>> \in Seq(Managed) /\ <<>> \in Seq(Managed)
    BY <1>0
  <2> QED
    BY <1>0, <2>1 DEF buddy_mm_init, BuddyTypeOK
<1>3. ASSUME NEW b, NEW k PROVE Block(b, k) <=> b = 0 /\ k = max_k
  <2>1. Free(b, k) <=> b = 0 /\ k = max_k
    BY <1>0, <1>1 DEF Free, Listed
  <2>2. ~Used(b, k) /\ ~Pending(b, k)
    BY <1>1 DEF Used, Pending
  <2> QED
    BY <2>1, <2>2 DEF Block
<1>4. Once
    BY <1>1 DEF Once, IsInjective
<1>5. Fits(0, max_k)
  <2>1. 0 = 0 * Size(max_k)
    BY OrderFacts
  <2> QED
    BY <2>1, OrderFacts DEF Fits, Aligned
<1>6. Placed
    BY <1>3, <1>5 DEF Placed
<1>7. Disjoint
    BY <1>3 DEF Disjoint, Apart
<1>8. Exclusive
    BY <1>1 DEF Exclusive, Used, Pending
<1>9. Cover
  <2>1. ASSUME NEW u \in Managed PROVE Block(0, max_k) /\ Has(0, max_k, u)
    BY <1>3, OrderFacts DEF Has, Managed
  <2> QED
    BY <2>1 DEF Cover
<1>10. Merged
  <2>1. ASSUME NEW b, NEW k, Free(b, k), k < max_k PROVE FALSE
    BY <1>3, <2>1, OrderFacts DEF Block
  <2> QED
    BY <2>1 DEF Merged
<1> QED
    BY <1>2, <1>4, <1>6, <1>7, <1>8, <1>9, <1>10 DEF IInv, Blocks

\* mm_alloc
LEMMA AllocPreserves == ASSUME IInv, NEW size \in BuddyRequest, buddy_mm_alloc(size) PROVE IInv'
<1>1. PICK b, k, t : Splits(b, k, t)
    BY AllocStep
<1>2. Blocks' /\ Merged' /\ b \in Managed /\ Fits(b, t)
    BY <1>1, AllocBlocks
<1>3. t \in Orders
    BY <1>2, FitsFacts
<1>4. BuddyTypeOK'
    BY <1>1, <1>2, <1>3 DEF IInv, BuddyTypeOK, Splits
<1> QED
    BY <1>1, <1>2, <1>4 DEF IInv, Splits

\* The invariant is inductive.
LEMMA NextPreserves == IInv /\ [BuddyNext]_buddyVars => IInv'
<1> SUFFICES ASSUME IInv, [BuddyNext]_buddyVars PROVE IInv'
    OBVIOUS
<1>1. CASE \E size \in BuddyRequest : buddy_mm_alloc(size)
    BY <1>1, AllocPreserves
<1>2. CASE \E b \in DOMAIN order : buddy_mm_free(b)
    BY <1>2, FreeStep
<1>3. CASE Merge
    BY <1>3, MergeStep
<1>4. CASE Insert
    BY <1>4, InsertStep
<1>5. CASE UNCHANGED buddyVars
    BY <1>5 DEF buddyVars, IInv, BuddyTypeOK, Once, Blocks, Placed, Disjoint, Exclusive, Cover, Merged,
                Block, Free, Used, Pending
<1> QED
    BY <1>1, <1>2, <1>3, <1>4, <1>5 DEF BuddyNext

\* The invariant holds in every reachable state.
LEMMA Invariance == BuddySpec => []IInv
BY InitHolds, NextPreserves, PTL DEF BuddySpec

\* The free blocks of the properties are those of the invariant, ...
LEMMA InFreeBlocks ==
    ASSUME NEW blk
    PROVE  blk \in BuddyFreeBlocks <=> \E b, k : blk = <<b, k>> /\ Free(b, k)
BY DEF BuddyFreeBlocks, ToSet, Free, Listed

\* ... and so are the blocks in use.
LEMMA InUsedBlocks ==
    ASSUME NEW blk
    PROVE  blk \in UsedBlocks <=> \E b, k : blk = <<b, k>> /\ Used(b, k)
BY DEF UsedBlocks, Used

\* Between calls the free blocks and the blocks in use make up the region, each
\* unit once, and no free block is on a list twice: for every size of the region,
\* through any history of splitting in mm_alloc and merging in mm_free.
THEOREM BlocksPartitionTheRegion == BuddySpec => []Partition
<1>1. IInv => Partition
  <2> SUFFICES ASSUME IInv, buddy_pc = "idle"
               PROVE  /\ BuddyFreeBlocks \cap UsedBlocks = {}
                      /\ \A u \in Managed : \E blk \in BuddyFreeBlocks \cup UsedBlocks : u \in BuddyUnits(blk)
                      /\ \A x, y \in BuddyFreeBlocks \cup UsedBlocks : x # y => BuddyUnits(x) \cap BuddyUnits(y) = {}
    BY DEF Partition, IInv, Once
  <2> USE DEF IInv, Blocks
  <2>1. ASSUME NEW blk \in BuddyFreeBlocks \cup UsedBlocks
        PROVE  \E b, k : /\ blk = <<b, k>> /\ Block(b, k)
                         /\ b \in Nat /\ Size(k) \in Nat \ {0}
                         /\ \A u : u \in BuddyUnits(blk) <=> u \in Int /\ Has(b, k, u)
    <3>1. PICK b, k : blk = <<b, k>> /\ Block(b, k)
      BY InFreeBlocks, InUsedBlocks DEF Block
    <3>2. Fits(b, k)
      BY <3>1 DEF Placed
    <3>3. b \in Nat /\ Size(k) \in Nat \ {0}
      BY <3>2, FitsFacts
    <3>4. BuddyUnits(blk) = b..(b + Size(k) - 1)
      BY <3>1 DEF BuddyUnits
    <3>5. \A u : u \in BuddyUnits(blk) <=> u \in Int /\ Has(b, k, u)
      BY <3>3, <3>4 DEF Has
    <3> QED
      BY <3>1, <3>3, <3>5
  <2>2. BuddyFreeBlocks \cap UsedBlocks = {}
    <3> SUFFICES ASSUME NEW blk \in BuddyFreeBlocks, blk \in UsedBlocks PROVE FALSE
      OBVIOUS
    <3>1. PICK b, k : blk = <<b, k>> /\ Free(b, k)
      BY InFreeBlocks
    <3>2. PICK c, l : blk = <<c, l>> /\ Used(c, l)
      BY InUsedBlocks
    <3>3. b = c /\ k = l
      BY <3>1, <3>2
    <3> QED
      BY <3>1, <3>2, <3>3 DEF Exclusive
  <2>3. ASSUME NEW u \in Managed
        PROVE  \E blk \in BuddyFreeBlocks \cup UsedBlocks : u \in BuddyUnits(blk)
    <3>1. PICK b, k : Block(b, k) /\ Has(b, k, u)
      BY DEF Cover
    <3>2. PICK blk : blk = <<b, k>>
      OBVIOUS
    <3>3. blk \in BuddyFreeBlocks \cup UsedBlocks
      BY <3>1, <3>2, InFreeBlocks, InUsedBlocks DEF Block, Pending
    <3>4. PICK c, l : blk = <<c, l>> /\ \A v : v \in BuddyUnits(blk) <=> v \in Int /\ Has(c, l, v)
      BY <2>1, <3>3
    <3>5. c = b /\ l = k /\ u \in Int
      BY <3>2, <3>4 DEF Managed
    <3> QED
      BY <3>1, <3>3, <3>4, <3>5
  <2>4. ASSUME NEW x \in BuddyFreeBlocks \cup UsedBlocks, NEW y \in BuddyFreeBlocks \cup UsedBlocks,
               NEW u \in BuddyUnits(x), u \in BuddyUnits(y)
        PROVE  x = y
    <3>1. PICK b, k : /\ x = <<b, k>> /\ Block(b, k) /\ b \in Nat /\ Size(k) \in Nat \ {0}
                      /\ \A v : v \in BuddyUnits(x) <=> v \in Int /\ Has(b, k, v)
      BY <2>1
    <3>2. PICK c, l : /\ y = <<c, l>> /\ Block(c, l) /\ c \in Nat /\ Size(l) \in Nat \ {0}
                      /\ \A v : v \in BuddyUnits(y) <=> v \in Int /\ Has(c, l, v)
      BY <2>1
    <3>3. u \in Int /\ Has(b, k, u) /\ Has(c, l, u)
      BY <2>4, <3>1, <3>2
    <3>4. b < c + Size(l) /\ c < b + Size(k)
      BY <3>1, <3>2, <3>3 DEF Has
    <3>5. b = c /\ k = l
      BY <3>1, <3>2, <3>4 DEF Disjoint, Apart
    <3> QED
      BY <3>1, <3>2, <3>5
  <2> QED
    BY <2>2, <2>3, <2>4
<1> QED
    BY <1>1, Invariance, PTL

\* Between calls no block is free together with its buddy: mm_free's loop merges
\* as far as it can.
THEOREM MergingIsComplete == BuddySpec => []FullyMerged
<1>1. IInv => FullyMerged
  <2> SUFFICES ASSUME IInv, NEW blk \in BuddyFreeBlocks, blk[2] < max_k,
                      <<BuddyOf(blk[1], blk[2]), blk[2]>> \in BuddyFreeBlocks
               PROVE  FALSE
    BY DEF FullyMerged
  <2>1. PICK b, k : blk = <<b, k>> /\ Free(b, k)
    BY InFreeBlocks
  <2>2. <<BuddyOf(b, k), k>> \in BuddyFreeBlocks /\ k < max_k
    BY <2>1
  <2>3. PICK c, l : <<BuddyOf(b, k), k>> = <<c, l>> /\ Free(c, l)
    BY <2>2, InFreeBlocks
  <2>4. Free(BuddyOf(b, k), k)
    BY <2>3
  <2> QED
    BY <2>1, <2>2, <2>4 DEF IInv, Merged
<1> QED
    BY <1>1, Invariance, PTL

\* mm_alloc hands out units of the region that no block in use has, and mm_free
\* takes one block back; splitting and merging do not touch the blocks in use.
THEOREM BuddyIsAMemoryManager == BuddySpec => BuddyImplementsMemoryManager
<1> DEFINE bar == [b \in DOMAIN order |-> BuddyUnits(<<b, order[b]>>)]
<1>1. buddy_mm_init => BuddyHeap!Init
    BY DEF buddy_mm_init, BuddyHeap!Init
<1>2. ASSUME IInv, [BuddyNext]_buddyVars PROVE [BuddyHeap!Next]_bar
  <2>1. ASSUME NEW size \in BuddyRequest, buddy_mm_alloc(size) PROVE BuddyHeap!Next
    <3>1. PICK b, k, t : Splits(b, k, t)
      BY <1>2, <2>1, AllocStep
    <3>2. order' = [x \in DOMAIN order \cup {b} |-> IF x = b THEN t ELSE order[x]]
      BY <3>1 DEF Splits
    <3>3. /\ b \in Managed /\ Fits(b, t)
          /\ \A c \in DOMAIN order : Apart(b, t, c, order[c]) /\ c # b
      BY <1>2, <3>1, AllocBlocks
    <3>4. b \in Nat /\ Size(t) \in Nat \ {0} /\ b + Size(t) <= Size(max_k) /\ Size(max_k) \in Nat
      BY <3>3, FitsFacts, OrderFacts
    <3>5. PICK e : e = b + Size(t) - 1
      OBVIOUS
    <3>6. e \in Managed /\ b \in b..e /\ b..e \subseteq Managed
      BY <3>4, <3>5 DEF Managed
    <3>7. ASSUME NEW c \in DOMAIN order, NEW u \in b..e, u \in bar[c] PROVE FALSE
      <4>1. PICK l : l = order[c]
        OBVIOUS
      <4>2. Used(c, l) /\ Fits(c, l)
        BY <1>2, <4>1 DEF Used, IInv, Blocks, Placed, Block
      <4>3. c \in Nat /\ Size(l) \in Nat
        BY <4>2, FitsFacts
      <4>4. u \in c..(c + Size(l) - 1)
        BY <3>7, <4>1 DEF BuddyUnits
      <4>5. b < c + Size(l) /\ c < b + Size(t)
        BY <3>4, <3>5, <4>3, <4>4
      <4> QED
        BY <3>3, <4>1, <4>5 DEF Apart
    <3>8. (b..e) \cap BuddyHeap!InUse = {}
      BY <3>7 DEF BuddyHeap!InUse
    <3>9. bar' = [x \in DOMAIN bar \cup {b} |-> IF x = b THEN b..e ELSE bar[x]]
      <4>1. DOMAIN order' = DOMAIN order \cup {b}
        BY <3>2
      <4>2. order'[b] = t /\ \A x \in DOMAIN order : x # b => order'[x] = order[x]
        BY <3>2
      <4>3. BuddyUnits(<<b, t>>) = b..e
        BY <3>5 DEF BuddyUnits
      <4>4. bar' = [x \in DOMAIN order' |-> BuddyUnits(<<x, order'[x]>>)]
        BY DEF BuddyUnits
      <4>5. DOMAIN bar = DOMAIN order
        OBVIOUS
      <4>6. ASSUME NEW x \in DOMAIN order \cup {b}
            PROVE  BuddyUnits(<<x, order'[x]>>) = IF x = b THEN b..e ELSE bar[x]
        <5>1. CASE x = b
          BY <5>1, <4>2, <4>3
        <5>2. CASE x # b
          <6>1. x \in DOMAIN order /\ order'[x] = order[x]
            BY <5>2, <4>2
          <6>2. bar[x] = BuddyUnits(<<x, order[x]>>)
            BY <6>1
          <6> QED
            BY <5>2, <6>1, <6>2
        <5> QED
          BY <5>1, <5>2
      <4> HIDE DEF bar
      <4> QED
        BY <4>1, <4>4, <4>5, <4>6
    <3>10. BuddyHeap!Alloc(b, b..e)
      BY <3>6, <3>8, <3>9 DEF BuddyHeap!Alloc
    <3> QED
      BY <3>3, <3>6, <3>10 DEF BuddyHeap!Next
  <2>2. ASSUME NEW b \in DOMAIN order, buddy_mm_free(b) PROVE BuddyHeap!Next
    <3>1. order' = [x \in DOMAIN order \ {b} |-> order[x]]
      BY <2>2 DEF buddy_mm_free
    <3>2. bar' = [x \in DOMAIN bar \ {b} |-> bar[x]]
      BY <3>1 DEF BuddyUnits
    <3>3. BuddyHeap!Free(b)
      BY <3>2 DEF BuddyHeap!Free
    <3> QED
      BY <3>3 DEF BuddyHeap!Next
  <2>3. CASE UNCHANGED order
    BY <2>3 DEF BuddyUnits
  <2> QED
    BY <1>2, <2>1, <2>2, <2>3 DEF BuddyNext, buddyVars, Merge, Insert
<1> QED
    BY <1>1, <1>2, Invariance, PTL DEF BuddySpec, BuddyImplementsMemoryManager, BuddyHeap!Spec

=============================================================================
