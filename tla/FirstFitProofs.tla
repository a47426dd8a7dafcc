--------------------------- MODULE FirstFitProofs ---------------------------
(***************************************************************************)
(* Proofs about FirstFit, for any size of heap, unit and size_t.           *)
(***************************************************************************)
EXTENDS FirstFit, Arithmetic

\* Where block headers are: on the list, in use, or in mm_free's hands.
Headers ==
    /\ Base \in Free /\ size[Base] = 0
    /\ Base \notin InUse
    /\ Free \cap InUse = {}
    /\ DOMAIN size = Free \cup InUse \cup (IF loop = "insert" THEN {bp} ELSE {})
    /\ loop = "insert" => bp \notin Free /\ bp \notin InUse /\ bp # Base

\* Blocks are not empty, end in the region, and end before the next begins.
Apart ==
    /\ \A x \in DOMAIN size : x # Base => size[x] >= 1 /\ x + size[x] <= HeapUnits + 1
    /\ \A x, y \in DOMAIN size : x < y => x + size[x] <= y

\* The list is a ring in address order.
Ring ==
    \A x \in Free :
        /\ ptr[x] \in Free
        /\ \/ x < ptr[x] /\ \A y \in Free : y <= x \/ ptr[x] <= y
           \/ ptr[x] = Base /\ \A y \in Free : y <= x

\* The search loops stay on the list.
OnList ==
    /\ freep \in Free
    /\ loop = "search" => prevp \in Free /\ p = ptr[prevp] /\ nunits = UnitsFor(nbytes)
    /\ loop = "insert" => p \in Free

Merged == \A x, y \in Free : x # Base => x + size[x] # y

Covered ==
    \A u \in 1..HeapUnits : \E x \in DOMAIN size : x <= u /\ u < x + size[x]

\* The nodes mm_alloc has seen are those after freep and before p.
Seen(x) == IF freep < p THEN freep < x /\ x < p ELSE freep < x \/ x < p
SeenAreSmall == loop = "search" => \A x \in Free : Seen(x) => size[x] < nunits

IInv ==
    /\ MmTypeOK /\ Headers /\ Apart /\ Ring /\ OnList /\ Merged /\ Covered
    /\ SeenAreSmall /\ RoomForRequest

-----------------------------------------------------------------------------
(* Functions that gain or lose one argument.                                *)

\* With adds or changes one argument.
LEMMA WithFacts ==
    ASSUME NEW f, NEW x, NEW y
    PROVE  /\ DOMAIN With(f, x, y) = DOMAIN f \cup {x}
           /\ With(f, x, y)[x] = y
           /\ \A z \in DOMAIN f : z # x => With(f, x, y)[z] = f[z]
BY DEF With

\* Without removes one.
LEMMA WithoutFacts ==
    ASSUME NEW f, NEW x
    PROVE  /\ DOMAIN Without(f, x) = DOMAIN f \ {x}
           /\ \A z \in DOMAIN f : z # x => Without(f, x)[z] = f[z]
BY DEF Without

\* A number is its own remainder modulo a larger one.
LEMMA SmallRemainder ==
    ASSUME NEW a \in Nat, NEW d \in Nat \ {0}, a < d
    PROVE  a % d = a
<1> DEFINE q == a \div d
           r == a % d
           m == d * q
<1>1. q \in Nat /\ r \in Nat /\ a = m + r
    BY DivFacts
<1> HIDE DEF q, r
<1>2. q >= 1 => m >= d
    BY <1>1
<1>3. m \in Nat
    BY <1>1
<1>4. q = 0
    <2> HIDE DEF m
    <2> QED  BY <1>1, <1>2, <1>3
<1>5. m = 0
    BY <1>4
<1>6. r = a
    <2> HIDE DEF m
    <2> QED  BY <1>1, <1>5
<1> QED  BY <1>6 DEF r

\* A request takes at least the header's unit, and a request whose size does
\* not wrap takes enough units.
LEMMA UnitsForFacts ==
    ASSUME NEW n \in 0..SizeMax
    PROVE  /\ UnitsFor(n) \in Nat /\ UnitsFor(n) >= 1
           /\ n + UnitSize - 1 <= SizeMax => n <= (UnitsFor(n) - 1) * UnitSize
<1> DEFINE s == n + UnitSize - 1
           w == s % (SizeMax + 1)
<1>1. s \in Nat /\ SizeMax + 1 \in Nat \ {0} /\ UnitSize \in Nat \ {0}
    BY HeapAssumption
<1>2. w \in Nat
    BY <1>1, DivFacts
<1>3. /\ w \div UnitSize \in Nat /\ w % UnitSize \in 0..(UnitSize - 1)
      /\ w = UnitSize * (w \div UnitSize) + (w % UnitSize)
    BY <1>1, <1>2, DivFacts
<1>4. UnitsFor(n) = w \div UnitSize + 1
    BY DEF UnitsFor
<1>5. ASSUME s <= SizeMax PROVE w = s
    <2> DEFINE d == SizeMax + 1
    <2>1. s \in Nat /\ d \in Nat \ {0} /\ s < d
        BY <1>1, <1>5, HeapAssumption
    <2> HIDE DEF s, d
    <2>2. s % d = s
        BY <2>1, SmallRemainder
    <2> QED  BY <2>2 DEF d
<1>6. ASSUME s <= SizeMax PROVE n <= (UnitsFor(n) - 1) * UnitSize
    <2>1. w = n + UnitSize - 1
        BY <1>5, <1>6
    <2>2. n <= UnitSize * (w \div UnitSize)
        <3> DEFINE q == UnitSize * (w \div UnitSize)
        <3>1. q \in Nat /\ w = q + (w % UnitSize)
            BY <1>1, <1>3
        <3> HIDE DEF q
        <3>2. n <= q
            BY <1>1, <1>3, <2>1, <3>1
        <3> QED  BY <3>2 DEF q
    <2>3. (UnitsFor(n) - 1) * UnitSize = UnitSize * (w \div UnitSize)
        BY <1>1, <1>3, <1>4
    <2> QED  BY <2>2, <2>3
<1>7. UnitsFor(n) \in Nat /\ UnitsFor(n) >= 1
    BY <1>3, <1>4
<1> QED  BY <1>6, <1>7

-----------------------------------------------------------------------------
(* The invariant is inductive.                                              *)

USE DEF heapVars, mmCallVars, Free, InUse

\* mm_init
LEMMA InitIInv == mm_init => IInv
<1> SUFFICES ASSUME mm_init PROVE IInv
    OBVIOUS
<1>1. /\ Free = {Base, 1} /\ ptr[Base] = 1 /\ ptr[1] = Base
      /\ DOMAIN size = {Base, 1} /\ size[Base] = 0 /\ size[1] = HeapUnits
      /\ InUse = {} /\ freep = Base /\ loop = "idle"
    BY DEF mm_init, Base
<1>2. MmTypeOK
    BY <1>1, HeapAssumption DEF mm_init, MmTypeOK, Addr, Base
<1>3. Headers /\ Apart /\ Ring /\ OnList /\ Merged
    BY <1>1, HeapAssumption DEF Headers, Apart, Ring, OnList, Merged, Base
<1>4. Covered
    <2> SUFFICES ASSUME NEW u \in 1..HeapUnits
                 PROVE  \E x \in DOMAIN size : x <= u /\ u < x + size[x]
        BY DEF Covered
    <2> QED  BY <1>1, HeapAssumption
<1>5. SeenAreSmall /\ RoomForRequest
    BY <1>1 DEF SeenAreSmall, RoomForRequest
<1> QED  BY <1>2, <1>3, <1>4, <1>5 DEF IInv

\* What every step may use of the state before it.
LEMMA StateFacts ==
    ASSUME IInv
    PROVE  /\ HeapUnits \in Nat \ {0} /\ UnitSize \in Nat \ {0} /\ SizeMax \in Nat
           /\ \A x \in Free : x \in DOMAIN size /\ ptr[x] \in Free
           /\ \A x \in InUse : x \in DOMAIN size /\ allocated[x] \in 0..SizeMax
           /\ \A x \in DOMAIN size : x \in Nat /\ x <= HeapUnits /\ size[x] \in Nat
           /\ freep \in Free
BY HeapAssumption DEF IInv, MmTypeOK, Headers, Ring, OnList, Addr

\* The request is noted and the search starts behind freep.
LEMMA AllocIInv ==
    ASSUME IInv, NEW n \in Request, mm_alloc(n)
    PROVE  IInv'
<1> USE StateFacts
<1>1. n \in 0..SizeMax /\ nunits' = UnitsFor(n) /\ nunits' \in Nat
    BY UnitsForFacts DEF mm_alloc, Request
<1>2. MmTypeOK'
    BY <1>1 DEF IInv, MmTypeOK, mm_alloc, Addr, OnList, Ring
<1>3. Headers' /\ Apart' /\ Ring' /\ OnList' /\ Merged' /\ Covered' /\ RoomForRequest'
    BY <1>1 DEF IInv, mm_alloc, Headers, Apart, Ring, OnList, Merged, Covered, RoomForRequest
<1>4. SeenAreSmall'
    BY DEF IInv, mm_alloc, SeenAreSmall, Seen, Ring, Base
<1> QED  BY <1>2, <1>3, <1>4 DEF IInv

\* What holds at a node the search has reached.
LEMMA SearchFacts ==
    ASSUME IInv, loop = "search"
    PROVE  /\ p \in Free /\ prevp \in Free /\ p = ptr[prevp]
           /\ nunits \in Nat /\ nunits >= 1 /\ nunits = UnitsFor(nbytes)
           /\ nbytes \in 0..SizeMax
           /\ p \in DOMAIN size /\ p \in Nat /\ size[p] \in Nat
           /\ size[p] >= nunits => p # Base /\ p # prevp
<1> USE StateFacts
<1>1. /\ p \in Free /\ prevp \in Free /\ p = ptr[prevp] /\ nbytes \in 0..SizeMax
      /\ nunits = UnitsFor(nbytes) /\ p \in DOMAIN size
    BY DEF IInv, OnList, Ring, MmTypeOK
<1>2. nunits \in Nat /\ nunits >= 1
    BY <1>1, UnitsForFacts
<1>3. ASSUME size[p] >= nunits PROVE p # Base /\ p # prevp
    <2>1. p # Base
        BY <1>1, <1>2, <1>3 DEF IInv, Headers
    <2>2. p # prevp
        BY <1>1, <2>1 DEF IInv, Ring
    <2> QED  BY <2>1, <2>2
<1> QED  BY <1>1, <1>2, <1>3

\* A block too small is passed.
LEMMA SearchOnIInv ==
    ASSUME IInv, SearchOn
    PROVE  IInv'
<1> USE StateFacts, SearchFacts
<1>1. MmTypeOK'
    BY DEF IInv, MmTypeOK, SearchOn, Addr, Ring
<1>2. Headers' /\ Apart' /\ Ring' /\ OnList' /\ Merged' /\ Covered' /\ RoomForRequest'
    BY DEF IInv, SearchOn, Headers, Apart, Ring, OnList, Merged, Covered, RoomForRequest
<1>3. SeenAreSmall'
    BY DEF IInv, SearchOn, SeenAreSmall, Seen, Ring, Base
<1> QED  BY <1>1, <1>2, <1>3 DEF IInv

\* The search ends without a block.
LEMMA FailIInv ==
    ASSUME IInv, Fail
    PROVE  IInv'
<1> USE StateFacts, HeapAssumption
<1>1. MmTypeOK'
    BY DEF IInv, MmTypeOK, Fail, Return, Addr, Base
<1>2. Headers' /\ Apart' /\ Ring' /\ OnList' /\ Merged' /\ Covered' /\ RoomForRequest'
    BY DEF IInv, Fail, Return, Headers, Apart, Ring, OnList, Merged, Covered, RoomForRequest
<1>3. SeenAreSmall'
    BY DEF Fail, Return, SeenAreSmall
<1> QED  BY <1>1, <1>2, <1>3 DEF IInv

\* A block is cut in two.
LEMMA TakeTailIInv ==
    ASSUME IInv, TakeTail
    PROVE  IInv'
<1> USE StateFacts, SearchFacts, HeapAssumption
<1> DEFINE b == p + size[p] - nunits
<1>1. loop = "search" /\ size[p] > nunits /\ p # Base
    BY DEF TakeTail
<1>2. /\ b \in Nat /\ p < b /\ b + nunits = p + size[p] /\ b <= HeapUnits
      /\ \A x \in DOMAIN size : p < x => b + nunits <= x
    BY <1>1 DEF IInv, Apart
<1>3. b \notin DOMAIN size /\ b # Base
    BY <1>1, <1>2 DEF Base
<1>4. /\ DOMAIN size' = DOMAIN size \cup {b}
      /\ size'[p] = size[p] - nunits /\ size'[b] = nunits
      /\ \A x \in DOMAIN size : x # p => size'[x] = size[x]
    BY <1>3 DEF TakeTail, With
<1>5. /\ InUse' = InUse \cup {b} /\ allocated'[b] = nbytes
      /\ \A x \in InUse : allocated'[x] = allocated[x]
    BY <1>3 DEF TakeTail, With
<1>6. ptr' = ptr /\ freep' = prevp /\ loop' = "idle"
    BY DEF TakeTail, Return
<1> HIDE DEF b
<1>7. MmTypeOK'
    <2>1. allocated' \in [InUse' -> 0..SizeMax] /\ InUse' \subseteq Addr
        BY <1>1, <1>2, <1>5 DEF IInv, MmTypeOK, TakeTail, With, Addr
    <2>2. size' \in [DOMAIN size' -> 0..HeapUnits] /\ DOMAIN size' \subseteq Addr
        <3>1. \A x \in DOMAIN size' : size'[x] \in 0..HeapUnits /\ x \in Addr
            BY <1>1, <1>2, <1>4 DEF IInv, MmTypeOK, Addr
        <3>2. size' = [x \in DOMAIN size' |-> size'[x]]
            BY DEF TakeTail, With
        <3> QED  BY <3>1, <3>2
    <2>3. free_mem_size' \in Int /\ freep' \in Addr
        BY <1>1, <1>6 DEF IInv, MmTypeOK, TakeTail, Addr
    <2> QED  BY <1>6, <2>1, <2>2, <2>3 DEF IInv, MmTypeOK, TakeTail, Return, Addr, Base
<1>8. Headers'
    BY <1>1, <1>3, <1>4, <1>5, <1>6 DEF IInv, Headers
<1>9. Apart'
    BY <1>1, <1>2, <1>3, <1>4 DEF IInv, Apart
<1>10. Ring' /\ OnList'
    BY <1>1, <1>6 DEF IInv, Ring, OnList
<1>11. Merged'
    BY <1>1, <1>2, <1>3, <1>4, <1>6 DEF IInv, Merged, Headers, Apart
<1>12. Covered'
    <2> SUFFICES ASSUME NEW u \in 1..HeapUnits
                 PROVE  \E x \in DOMAIN size' : x <= u /\ u < x + size'[x]
        BY DEF Covered
    <2>1. PICK x \in DOMAIN size : x <= u /\ u < x + size[x]
        BY DEF IInv, Covered
    <2>2. CASE x # p
        BY <1>4, <2>1, <2>2
    <2>3. CASE x = p /\ u < b
        <3>1. p + size'[p] = b
            BY <1>1, <1>2, <1>4
        <3> QED  BY <1>1, <1>4, <2>1, <2>3, <3>1
    <2>4. CASE x = p /\ ~(u < b)
        BY <1>1, <1>2, <1>4, <2>1, <2>4
    <2> QED  BY <2>2, <2>3, <2>4
<1>13. SeenAreSmall'
    BY <1>6 DEF SeenAreSmall
<1>14. RoomForRequest'
    <2>1. p \notin InUse
        BY <1>1 DEF IInv, Headers
    <2>2. nbytes + UnitSize - 1 <= SizeMax => nbytes <= (nunits - 1) * UnitSize
        BY <1>1, UnitsForFacts
    <2> QED  BY <1>3, <1>4, <1>5, <2>1, <2>2 DEF IInv, RoomForRequest
<1> QED  BY <1>7, <1>8, <1>9, <1>10, <1>11, <1>12, <1>13, <1>14 DEF IInv

\* A block leaves the list as it is.
LEMMA TakeWholeIInv ==
    ASSUME IInv, TakeWhole
    PROVE  IInv'
<1> USE StateFacts, SearchFacts, HeapAssumption
<1>1. loop = "search" /\ size[p] = nunits /\ p # Base /\ p # prevp
    BY DEF TakeWhole
<1>2. ptr[p] # p /\ ptr[p] \in Free
    BY <1>1 DEF IInv, Ring
<1>3. /\ Free' = Free \ {p} /\ ptr'[prevp] = ptr[p]
      /\ \A x \in Free : x # p /\ x # prevp => ptr'[x] = ptr[x]
    BY <1>1 DEF TakeWhole, With, Without
<1>4. /\ InUse' = InUse \cup {p} /\ allocated'[p] = nbytes
      /\ \A x \in InUse : x # p => allocated'[x] = allocated[x]
    BY DEF TakeWhole, With
<1>5. size' = size /\ freep' = prevp /\ loop' = "idle"
    BY DEF TakeWhole, Return
<1>6. MmTypeOK'
    <2>1. allocated' \in [InUse' -> 0..SizeMax] /\ InUse' \subseteq Addr
        BY <1>1, <1>4 DEF IInv, MmTypeOK, TakeWhole, With, Addr
    <2>2. ptr' \in [Free' -> Addr] /\ Free' \subseteq Addr
        <3>1. \A x \in Free' : ptr'[x] \in Addr /\ x \in Addr
            BY <1>1, <1>2, <1>3 DEF IInv, MmTypeOK
        <3>2. ptr' = [x \in Free' |-> ptr'[x]]
            BY DEF TakeWhole, With
        <3> QED  BY <3>1, <3>2
    <2>3. free_mem_size' \in Int /\ freep' \in Addr
        BY <1>1, <1>5 DEF IInv, MmTypeOK, TakeWhole, Addr
    <2> QED  BY <1>5, <2>1, <2>2, <2>3 DEF IInv, MmTypeOK, TakeWhole, Return, Addr, Base
<1>7. Headers'
    BY <1>1, <1>3, <1>4, <1>5 DEF IInv, Headers
<1>8. Apart' /\ Covered' /\ SeenAreSmall'
    BY <1>5 DEF IInv, Apart, Covered, SeenAreSmall
<1>9. Ring'
    BY <1>1, <1>2, <1>3 DEF IInv, Ring, Base
<1>10. OnList'
    BY <1>1, <1>3, <1>5 DEF IInv, OnList
<1>11. Merged'
    BY <1>3, <1>5 DEF IInv, Merged
<1>12. RoomForRequest'
    <2>1. nbytes + UnitSize - 1 <= SizeMax => nbytes <= (nunits - 1) * UnitSize
        BY <1>1, UnitsForFacts
    <2> QED  BY <1>1, <1>4, <1>5, <2>1 DEF IInv, RoomForRequest
<1> QED  BY <1>6, <1>7, <1>8, <1>9, <1>10, <1>11, <1>12 DEF IInv

\* A block in use passes into mm_free's hands.
LEMMA FreeIInv ==
    ASSUME IInv, NEW b \in InUse, mm_free(b)
    PROVE  IInv'
<1> USE StateFacts, HeapAssumption
<1>1. /\ InUse' = InUse \ {b}
      /\ \A x \in InUse : x # b => allocated'[x] = allocated[x]
    BY DEF mm_free, Without
<1>2. ptr' = ptr /\ size' = size /\ freep' = freep /\ bp' = b /\ p' = freep /\ loop' = "insert"
    BY DEF mm_free
<1>3. MmTypeOK'
    <2>1. allocated' \in [InUse' -> 0..SizeMax] /\ InUse' \subseteq Addr
        BY DEF IInv, MmTypeOK, mm_free, Without
    <2> QED  BY <1>2, <2>1 DEF IInv, MmTypeOK, mm_free, Addr
<1>4. Headers'
    BY <1>1, <1>2 DEF IInv, Headers, mm_free
<1>5. Apart' /\ Ring' /\ OnList' /\ Merged' /\ Covered' /\ SeenAreSmall'
    BY <1>2 DEF IInv, Apart, Ring, OnList, Merged, Covered, SeenAreSmall
<1>6. RoomForRequest'
    BY <1>1, <1>2 DEF IInv, RoomForRequest
<1> QED  BY <1>3, <1>4, <1>5, <1>6 DEF IInv

\* The place for the block is not here.
LEMMA InsertOnIInv ==
    ASSUME IInv, InsertOn
    PROVE  IInv'
<1> USE StateFacts, HeapAssumption
<1>1. p \in Free
    BY DEF IInv, OnList, InsertOn
<1>2. MmTypeOK'
    BY <1>1 DEF IInv, MmTypeOK, InsertOn, Addr
<1>3. Headers' /\ Apart' /\ Ring' /\ OnList' /\ Merged' /\ Covered' /\ SeenAreSmall' /\ RoomForRequest'
    BY <1>1 DEF IInv, InsertOn, Headers, Apart, Ring, OnList, Merged, Covered,
                SeenAreSmall, RoomForRequest
<1> QED  BY <1>2, <1>3 DEF IInv

\* The upper neighbour, if the freed block swallows it.
Swallowed == IF JoinsUpper THEN {ptr[p]} ELSE {}

\* Where the freed block lies, and what it becomes with its upper neighbour.
LEMMA InsertFacts ==
    ASSUME IInv, loop = "insert", InsertHere
    PROVE  /\ p \in Free /\ bp \in DOMAIN size /\ bp \notin Free /\ bp \notin InUse /\ bp # Base
           /\ p < bp
           /\ \A y \in Free : y <= p \/ bp < y
           /\ Swallowed \subseteq Free \ {p, Base}
           /\ \A r \in Swallowed : r = bp + size[bp] /\ Grown = size[bp] + size[r]
           /\ Swallowed = {} => Grown = size[bp]
           /\ Grown \in Nat /\ Grown >= size[bp] /\ bp + Grown <= HeapUnits + 1
           /\ \A y \in DOMAIN size \ Swallowed : bp < y => bp + Grown <= y
           /\ \A y \in Free \ Swallowed : bp + Grown # y
           /\ Beyond \in Free \ Swallowed
           /\ \/ bp < Beyond /\ \A y \in Free \ Swallowed : y <= p \/ Beyond <= y
              \/ Beyond = Base /\ \A y \in Free \ Swallowed : y <= p
           /\ DOMAIN Ptr0 = Free \ Swallowed
           /\ \A x \in Free \ Swallowed : Ptr0[x] = ptr[x]
           /\ DOMAIN Size0 = DOMAIN size \ Swallowed
           /\ \A x \in DOMAIN size \ Swallowed : Size0[x] = size[x]
<1> USE StateFacts, HeapAssumption
<1>1. p \in Free /\ bp \in DOMAIN size /\ bp \notin Free /\ bp \notin InUse /\ bp # Base
    BY DEF IInv, OnList, Headers
<1>2. /\ ptr[p] \in Free
      /\ \/ p < bp /\ bp < ptr[p] /\ \A y \in Free : y <= p \/ ptr[p] <= y
         \/ p < bp /\ ptr[p] = Base /\ \A y \in Free : y <= p
    BY <1>1 DEF IInv, Ring, InsertHere, Base
<1>3. size[bp] >= 1 /\ bp + size[bp] <= HeapUnits + 1
    BY <1>1 DEF IInv, Apart
<1>4. CASE JoinsUpper
    <2> DEFINE u == ptr[p]
    <2>1. u = bp + size[bp] /\ bp < u /\ u # Base /\ u # p /\ u \in DOMAIN size
        BY <1>1, <1>2, <1>3, <1>4 DEF JoinsUpper, Base
    <2>2. Swallowed = {u} /\ Grown = size[bp] + size[u] /\ Beyond = ptr[u]
        BY <1>4 DEF Swallowed, Grown, Beyond
    <2>3. bp + Grown = u + size[u] /\ u + size[u] <= HeapUnits + 1
        BY <1>1, <2>1, <2>2 DEF IInv, Apart
    <2>4. \A y \in DOMAIN size \ Swallowed : bp < y => bp + Grown <= y
        <3> SUFFICES ASSUME NEW y \in DOMAIN size, y # u, bp < y PROVE u + size[u] <= y
            BY <2>2, <2>3
        <3>1. bp + size[bp] <= y
            BY <1>1 DEF IInv, Apart
        <3>2. u < y
            BY <2>1, <3>1
        <3> QED  BY <2>1, <3>2 DEF IInv, Apart
    <2>5. \A y \in Free \ Swallowed : bp + Grown # y
        BY <1>2, <2>1, <2>3 DEF IInv, Merged
    <2>6. ptr[u] # u /\ ptr[u] \in Free
        BY <1>2, <2>1 DEF IInv, Ring
    <2>7. \/ u < ptr[u] /\ \A y \in Free : y <= u \/ ptr[u] <= y
          \/ ptr[u] = Base /\ \A y \in Free : y <= u
        BY <1>2 DEF IInv, Ring
    <2>8. \A y \in Free : y <= p \/ u <= y
        BY <1>2, <2>1
    <2>9. /\ DOMAIN Ptr0 = Free \ Swallowed
          /\ \A x \in Free \ Swallowed : Ptr0[x] = ptr[x]
          /\ DOMAIN Size0 = DOMAIN size \ Swallowed
          /\ \A x \in DOMAIN size \ Swallowed : Size0[x] = size[x]
        BY <1>4, <2>2 DEF Ptr0, Size0, Without
    <2>10. \/ bp < Beyond /\ \A y \in Free \ Swallowed : y <= p \/ Beyond <= y
           \/ Beyond = Base /\ \A y \in Free \ Swallowed : y <= p
        <3>1. p \in Nat /\ bp \in Nat /\ u \in Nat /\ ptr[u] \in Nat /\ Free \subseteq Nat
            BY <1>1, <1>2, <2>6
        <3>2. CASE u < ptr[u] /\ \A y \in Free : y <= u \/ ptr[u] <= y
            <4>1. bp < Beyond
                BY <2>1, <2>2, <3>1, <3>2
            <4>2. \A y \in Free \ Swallowed : y <= p \/ Beyond <= y
                BY <2>2, <2>8, <3>1, <3>2
            <4> QED  BY <4>1, <4>2
        <3>3. CASE ptr[u] = Base /\ \A y \in Free : y <= u
            BY <2>2, <2>8, <3>1, <3>3
        <3> QED  BY <2>7, <3>2, <3>3
    <2>11. \A y \in Free : y <= p \/ bp < y
        BY <1>1, <2>1, <2>8
    <2>12. Grown \in Nat /\ Grown >= size[bp] /\ Beyond \in Free \ Swallowed
        BY <1>1, <2>1, <2>2, <2>6
    <2> QED  BY <1>1, <1>2, <2>1, <2>2, <2>3, <2>4, <2>5, <2>9, <2>10, <2>11, <2>12
<1>5. CASE ~JoinsUpper
    <2>1. Swallowed = {} /\ Grown = size[bp] /\ Beyond = ptr[p] /\ Ptr0 = ptr /\ Size0 = size
        BY <1>1, <1>5 DEF Swallowed, Grown, Beyond, Ptr0, Size0
    <2>2. \A y \in DOMAIN size : bp < y => bp + size[bp] <= y
        BY <1>1 DEF IInv, Apart
    <2>3. \A y \in Free : bp + size[bp] # y
        <3> SUFFICES ASSUME NEW y \in Free, bp + size[bp] = y PROVE FALSE
            OBVIOUS
        <3>1. bp < y /\ y # ptr[p]
            BY <1>1, <1>3, <1>5 DEF JoinsUpper
        <3>2. p < bp /\ bp < ptr[p] /\ ptr[p] < y
            BY <1>1, <1>2, <3>1
        <3>3. bp + size[bp] <= ptr[p]
            BY <1>2, <2>2, <3>2
        <3>4. ptr[p] \in Nat /\ y \in Nat /\ bp \in Nat /\ size[bp] \in Nat
            BY <1>1, <1>2
        <3> QED  BY <3>2, <3>3, <3>4
    <2>4. \A y \in Free : y <= p \/ bp < y
        BY <1>1, <1>2
    <2> QED  BY <1>1, <1>2, <1>3, <2>1, <2>2, <2>3, <2>4
<1> QED  BY <1>4, <1>5

\* The freed block goes on the list.
LEMMA InsertApartIInv ==
    ASSUME IInv, InsertApart
    PROVE  IInv'
<1> USE StateFacts, HeapAssumption
<1>1. loop = "insert" /\ InsertHere /\ p + size[p] # bp
    BY DEF InsertApart, JoinsLower
<1> USE InsertFacts, <1>1
<1>2. /\ Free' = (Free \ Swallowed) \cup {bp} /\ ptr'[p] = bp /\ ptr'[bp] = Beyond
      /\ \A x \in Free \ Swallowed : x # p => ptr'[x] = ptr[x]
    BY DEF InsertApart, With
<1>3. /\ DOMAIN size' = DOMAIN size \ Swallowed /\ size'[bp] = Grown
      /\ \A x \in DOMAIN size \ Swallowed : x # bp => size'[x] = size[x]
    BY DEF InsertApart, With
<1>4. allocated' = allocated /\ freep' = bp /\ loop' = "idle"
    BY DEF InsertApart, Return
<1>5. Swallowed \cap InUse = {}
    BY DEF IInv, Headers
<1>6. MmTypeOK'
    <2>1. ptr' \in [Free' -> Addr] /\ Free' \subseteq Addr
        <3>1. \A x \in Free' : ptr'[x] \in Addr /\ x \in Addr
            BY <1>2 DEF IInv, MmTypeOK
        <3>2. ptr' = [x \in Free' |-> ptr'[x]]
            BY DEF InsertApart, With
        <3> QED  BY <3>1, <3>2
    <2>2. size' \in [DOMAIN size' -> 0..HeapUnits] /\ DOMAIN size' \subseteq Addr
        <3>1. \A x \in DOMAIN size' : size'[x] \in 0..HeapUnits /\ x \in Addr
            <4>1. bp \in Nat /\ bp >= 1
                BY DEF Base
            <4>2. Grown \in 0..HeapUnits
                BY <4>1
            <4> QED  BY <1>3, <4>2 DEF IInv, MmTypeOK
        <3>2. size' = [x \in DOMAIN size' |-> size'[x]]
            BY DEF InsertApart, With
        <3> QED  BY <3>1, <3>2
    <2> QED  BY <1>4, <2>1, <2>2 DEF IInv, MmTypeOK, InsertApart, Return, Addr, Base
<1>7. Headers'
    <2>1. Base \in Free' /\ size'[Base] = 0 /\ Base \notin InUse'
        BY <1>2, <1>3, <1>4 DEF IInv, Headers
    <2>2. Free' \cap InUse' = {}
        BY <1>2, <1>4 DEF IInv, Headers
    <2>3. DOMAIN size' = Free' \cup InUse'
        BY <1>2, <1>3, <1>4, <1>5 DEF IInv, Headers
    <2> QED  BY <1>4, <2>1, <2>2, <2>3 DEF Headers
<1>8. Apart'
    <2>1. \A x \in DOMAIN size' : x # Base => size'[x] >= 1 /\ x + size'[x] <= HeapUnits + 1
        BY <1>3 DEF IInv, Apart
    <2>2. ASSUME NEW x \in DOMAIN size', NEW y \in DOMAIN size', x < y
          PROVE  x + size'[x] <= y
        BY <1>3, <2>2 DEF IInv, Apart
    <2> QED  BY <2>1, <2>2 DEF Apart
<1>9. Ring'
    <2> SUFFICES ASSUME NEW x \in Free'
                 PROVE  /\ ptr'[x] \in Free'
                        /\ \/ x < ptr'[x] /\ \A y \in Free' : y <= x \/ ptr'[x] <= y
                           \/ ptr'[x] = Base /\ \A y \in Free' : y <= x
        BY DEF Ring
    <2>1. CASE x = p
        BY <1>2, <2>1
    <2>2. CASE x = bp
        BY <1>2, <2>2
    <2>3. CASE x # p /\ x # bp
        <3>1. x \in Free \ Swallowed /\ ptr'[x] = ptr[x] /\ x \in Nat /\ p \in Nat /\ bp \in Nat
            BY <1>2, <2>3
        <3>2. ptr[x] \notin Swallowed
            <4> SUFFICES ASSUME ptr[x] = ptr[p], ptr[p] # Base PROVE FALSE
                BY <3>1 DEF Swallowed
            <4> QED  BY <2>3, <3>1 DEF IInv, Ring
        <3>3. ptr[x] \in Free'
            BY <1>2, <3>1, <3>2
        <3>4. CASE ptr[x] = Base /\ \A y \in Free : y <= x
            <4>1. bp < x
                BY <2>3, <3>1, <3>4
            <4> QED  BY <1>2, <3>1, <3>3, <3>4, <4>1
        <3>5. CASE x < ptr[x] /\ \A y \in Free : y <= x \/ ptr[x] <= y
            BY <1>2, <2>3, <3>1, <3>3, <3>5
        <3> QED  BY <3>1, <3>3, <3>4, <3>5 DEF IInv, Ring
    <2> QED  BY <2>1, <2>2, <2>3
<1>10. OnList' /\ SeenAreSmall'
    BY <1>2, <1>4 DEF OnList, SeenAreSmall
<1>11. Merged'
    <2> SUFFICES ASSUME NEW x \in Free', NEW y \in Free', x # Base, x + size'[x] = y
                 PROVE  FALSE
        BY DEF Merged
    <2>1. CASE x = bp
        <3>1. size[bp] >= 1 /\ bp \in Nat /\ size[bp] \in Nat
            BY DEF IInv, Apart
        <3>2. y # bp
            BY <1>3, <2>1, <3>1
        <3> QED  BY <1>2, <1>3, <2>1, <3>2
    <2>2. CASE x # bp /\ y = bp
        <3>1. x \in Free \ Swallowed /\ size'[x] = size[x]
            BY <1>2, <1>3, <2>2
        <3>2. x < p \/ x = p
            BY <2>2, <3>1
        <3> QED  BY <2>2, <3>1, <3>2 DEF IInv, Apart
    <2>3. CASE x # bp /\ y # bp
        BY <1>2, <1>3, <2>3 DEF IInv, Merged
    <2> QED  BY <2>1, <2>2, <2>3
<1>12. Covered'
    <2> SUFFICES ASSUME NEW k \in 1..HeapUnits
                 PROVE  \E x \in DOMAIN size' : x <= k /\ k < x + size'[x]
        BY DEF Covered
    <2>1. PICK x \in DOMAIN size : x <= k /\ k < x + size[x]
        BY DEF IInv, Covered
    <2>2. CASE x \in Swallowed
        <3>1. bp <= k /\ k < bp + Grown
            BY <2>1, <2>2
        <3> QED  BY <1>3, <3>1
    <2>3. CASE x = bp
        <3>1. bp <= k /\ k < bp + Grown
            BY <2>1, <2>3
        <3> QED  BY <1>3, <3>1
    <2>4. CASE x \notin Swallowed /\ x # bp
        BY <1>3, <2>1, <2>4
    <2> QED  BY <2>2, <2>3, <2>4
<1>13. RoomForRequest'
    BY <1>3, <1>4, <1>5 DEF IInv, RoomForRequest
<1> QED  BY <1>6, <1>7, <1>8, <1>9, <1>10, <1>11, <1>12, <1>13 DEF IInv

\* The freed block becomes part of the block below it.
LEMMA InsertJoinedIInv ==
    ASSUME IInv, InsertJoined
    PROVE  IInv'
<1> USE StateFacts, HeapAssumption
<1>1. loop = "insert" /\ InsertHere /\ p + size[p] = bp
    BY DEF InsertJoined, JoinsLower
<1> USE InsertFacts, <1>1
<1> DEFINE Gone == Swallowed \cup {bp}
<1>2. /\ p # Base /\ p \in Nat /\ bp \in Nat /\ size[p] \in Nat /\ size[p] >= 1
      /\ p + (size[p] + Grown) = bp + Grown
    BY DEF IInv, Headers, Apart, Base
<1>3. /\ Free' = Free \ Swallowed /\ ptr'[p] = Beyond
      /\ \A x \in Free \ Swallowed : x # p => ptr'[x] = ptr[x]
    BY DEF InsertJoined, With
<1>4. /\ DOMAIN size' = DOMAIN size \ Gone /\ size'[p] = size[p] + Grown
      /\ \A x \in DOMAIN size \ Gone : x # p => size'[x] = size[x]
    BY DEF InsertJoined, With, Without
<1>5. allocated' = allocated /\ freep' = p /\ loop' = "idle"
    BY DEF InsertJoined, Return
<1>6. Swallowed \cap InUse = {} /\ p \notin InUse
    BY DEF IInv, Headers
<1>7. MmTypeOK'
    <2>1. ptr' \in [Free' -> Addr] /\ Free' \subseteq Addr
        <3>1. \A x \in Free' : ptr'[x] \in Addr /\ x \in Addr
            BY <1>3 DEF IInv, MmTypeOK
        <3>2. ptr' = [x \in Free' |-> ptr'[x]]
            BY DEF InsertJoined, With
        <3> QED  BY <3>1, <3>2
    <2>2. size' \in [DOMAIN size' -> 0..HeapUnits] /\ DOMAIN size' \subseteq Addr
        <3>1. size'[p] \in 0..HeapUnits
            BY <1>2, <1>4 DEF Base
        <3>2. \A x \in DOMAIN size' : size'[x] \in 0..HeapUnits /\ x \in Addr
            BY <1>4, <3>1 DEF IInv, MmTypeOK
        <3>3. size' = [x \in DOMAIN size' |-> size'[x]]
            BY DEF InsertJoined, With
        <3> QED  BY <3>2, <3>3
    <2> QED  BY <1>5, <2>1, <2>2 DEF IInv, MmTypeOK, InsertJoined, Return, Addr, Base
<1>8. Headers'
    <2>1. Base \in Free' /\ size'[Base] = 0 /\ Base \notin InUse'
        BY <1>2, <1>3, <1>4, <1>5 DEF IInv, Headers
    <2>2. Free' \cap InUse' = {}
        BY <1>3, <1>5 DEF IInv, Headers
    <2>3. DOMAIN size' = Free' \cup InUse'
        BY <1>3, <1>4, <1>5, <1>6 DEF IInv, Headers
    <2> QED  BY <1>5, <2>1, <2>2, <2>3 DEF Headers
<1>9. Apart'
    <2>1. \A x \in DOMAIN size' : x # Base => size'[x] >= 1 /\ x + size'[x] <= HeapUnits + 1
        BY <1>2, <1>4 DEF IInv, Apart
    <2>2. ASSUME NEW x \in DOMAIN size', NEW y \in DOMAIN size', x < y
          PROVE  x + size'[x] <= y
        <3>1. x \in DOMAIN size \ Gone /\ y \in DOMAIN size \ Gone
            BY <1>4
        <3>2. CASE x = p
            <4>1. bp <= y /\ y # bp /\ y \in Nat
                BY <1>1, <2>2, <3>1, <3>2 DEF IInv, Apart
            <4>2. bp + Grown <= y
                BY <1>2, <3>1, <4>1
            <4> QED  BY <1>2, <1>4, <3>2, <4>2
        <3>3. CASE x # p
            BY <1>4, <2>2, <3>1, <3>3 DEF IInv, Apart
        <3> QED  BY <3>2, <3>3
    <2> QED  BY <2>1, <2>2 DEF Apart
<1>10. Ring'
    <2> SUFFICES ASSUME NEW x \in Free'
                 PROVE  /\ ptr'[x] \in Free'
                        /\ \/ x < ptr'[x] /\ \A y \in Free' : y <= x \/ ptr'[x] <= y
                           \/ ptr'[x] = Base /\ \A y \in Free' : y <= x
        BY DEF Ring
    <2>1. CASE x = p
        BY <1>2, <1>3, <2>1
    <2>2. CASE x # p
        <3>1. x \in Free \ Swallowed /\ ptr'[x] = ptr[x] /\ x \in Nat
            BY <1>3, <2>2
        <3>2. ptr[x] \notin Swallowed
            <4> SUFFICES ASSUME ptr[x] = ptr[p], ptr[p] # Base PROVE FALSE
                BY <3>1 DEF Swallowed
            <4> QED  BY <1>2, <2>2, <3>1 DEF IInv, Ring
        <3>3. ptr[x] \in Free'
            BY <1>3, <3>1, <3>2
        <3> QED  BY <1>3, <3>1, <3>3 DEF IInv, Ring
    <2> QED  BY <2>1, <2>2
<1>11. OnList' /\ SeenAreSmall'
    BY <1>3, <1>5 DEF OnList, SeenAreSmall
<1>12. Merged'
    <2> SUFFICES ASSUME NEW x \in Free', NEW y \in Free', x # Base, x + size'[x] = y
                 PROVE  FALSE
        BY DEF Merged
    <2>1. CASE x = p
        BY <1>2, <1>3, <1>4, <2>1
    <2>2. CASE x # p
        <3>1. x \in DOMAIN size \ Gone
            BY <1>3
        <3> QED  BY <1>3, <1>4, <2>2, <3>1 DEF IInv, Merged
    <2> QED  BY <2>1, <2>2
<1>13. Covered'
    <2> SUFFICES ASSUME NEW k \in 1..HeapUnits
                 PROVE  \E x \in DOMAIN size' : x <= k /\ k < x + size'[x]
        BY DEF Covered
    <2>1. PICK x \in DOMAIN size : x <= k /\ k < x + size[x]
        BY DEF IInv, Covered
    <2>2. CASE x \in Gone \cup {p}
        <3>1. p <= k /\ k < bp + Grown
            BY <1>2, <2>1, <2>2
        <3>2. p \in DOMAIN size' /\ p + size'[p] = bp + Grown
            BY <1>2, <1>4
        <3> QED  BY <3>1, <3>2
    <2>3. CASE x \notin Gone \cup {p}
        BY <1>4, <2>1, <2>3
    <2> QED  BY <2>2, <2>3
<1>14. RoomForRequest'
    <2>1. \A b \in InUse : size'[b] = size[b]
        BY <1>4, <1>6
    <2> QED  BY <1>5, <2>1 DEF IInv, RoomForRequest
<1> QED  BY <1>7, <1>8, <1>9, <1>10, <1>11, <1>12, <1>13, <1>14 DEF IInv

\* The invariant is inductive.
LEMMA NextIInv ==
    ASSUME IInv, [MmNext]_mmVars
    PROVE  IInv'
<1>1. CASE \E n \in Request : mm_alloc(n)
    BY <1>1, AllocIInv
<1>2. CASE \E b \in InUse : mm_free(b)
    BY <1>2, FreeIInv
<1>3. CASE Step
    BY <1>3, TakeTailIInv, TakeWholeIInv, SearchOnIInv, FailIInv, InsertOnIInv,
       InsertApartIInv, InsertJoinedIInv DEF Step
<1>4. CASE UNCHANGED mmVars
    BY <1>4 DEF mmVars, IInv, MmTypeOK, Headers, Apart, Ring, OnList, Merged, Covered,
                SeenAreSmall, Seen, RoomForRequest
<1> QED  BY <1>1, <1>2, <1>3, <1>4 DEF MmNext

\* The invariant holds in every reachable state.
LEMMA InvariantHolds == MmSpec => []IInv
BY InitIInv, NextIInv, PTL DEF MmSpec

-----------------------------------------------------------------------------
(* Theorems.                                                                *)

\* Every pointer of the allocator stays inside the region or at base.
THEOREM FirstFitTypes == MmSpec => []MmTypeOK
<1>1. IInv => MmTypeOK
    BY DEF IInv
<1> QED  BY <1>1, InvariantHolds, PTL

\* No unit of the heap is ever lost: between calls each one is in a free block
\* or in a block in use (mm_alloc, mm_free).
THEOREM NothingIsLost == MmSpec => []NoUnitLost
<1>1. ASSUME IInv PROVE NoUnitLost
    <2> SUFFICES ASSUME loop = "idle", NEW u \in 1..HeapUnits
                 PROVE  \E x \in FreeBlocks \cup InUse : u \in Units(x)
        BY DEF NoUnitLost
    <2> USE StateFacts, <1>1
    <2>1. PICK x \in DOMAIN size : x <= u /\ u < x + size[x]
        BY DEF IInv, Covered
    <2>2. x \in Free \cup InUse /\ x \in Nat /\ size[x] \in Nat
        BY <1>1 DEF IInv, Headers
    <2>3. x # Base
        BY <1>1, <2>1 DEF IInv, Headers, Base
    <2>4. u \in Units(x)
        BY <2>1, <2>2 DEF Units
    <2> QED  BY <2>2, <2>3, <2>4 DEF FreeBlocks
<1> QED  BY <1>1, InvariantHolds, PTL

\* The free list never holds two blocks that touch (mm_free's merging).
THEOREM StaysCoalesced == MmSpec => []Coalesced
<1>1. IInv => Coalesced
    BY DEF IInv, Merged, Coalesced, FreeBlocks
<1> QED  BY <1>1, InvariantHolds, PTL

\* A block is as large as was asked for (the rounding in mm_alloc).
THEOREM BlocksAreLargeEnough == MmSpec => []RoomForRequest
<1>1. IInv => RoomForRequest
    BY DEF IInv
<1> QED  BY <1>1, InvariantHolds, PTL

\* mm_alloc returns NULL only after it has seen every free block.
THEOREM SearchIsExhaustive == MmSpec => FailsOnlyWhenFull
<1>1. ASSUME IInv, [MmNext]_mmVars
      PROVE  [loop = "search" /\ loop' = "idle" /\ allocated' = allocated
                => \A x \in FreeBlocks : size[x] < nunits]_mmVars
    <2> USE StateFacts, <1>1
    <2> SUFFICES ASSUME loop = "search", loop' = "idle", allocated' = allocated,
                        NEW x \in FreeBlocks
                 PROVE  size[x] < nunits
        OBVIOUS
    <2> USE SearchFacts
    <2>1. ~TakeTail
        <3> SUFFICES ASSUME TakeTail PROVE FALSE
            OBVIOUS
        <3>1. p + size[p] - nunits \in InUse
            BY DEF TakeTail, With
        <3>2. p < p + size[p] - nunits /\ p + size[p] - nunits < p + size[p]
            BY DEF TakeTail
        <3> QED  BY <3>1, <3>2 DEF IInv, Apart
    <2>2. ~TakeWhole
        <3> SUFFICES ASSUME TakeWhole PROVE FALSE
            OBVIOUS
        <3>1. p \in InUse
            BY DEF TakeWhole, With
        <3> QED  BY <3>1 DEF IInv, Headers
    <2>3. Fail
        BY <2>1, <2>2 DEF MmNext, Step, mm_alloc, mm_free, SearchOn, InsertOn, InsertApart,
                          InsertJoined, mmVars
    <2>4. x \in Free /\ x \in Nat /\ freep \in Nat /\ p = freep /\ size[p] < nunits
        BY <2>3 DEF Fail, FreeBlocks
    <2>5. CASE x = p
        BY <2>4, <2>5
    <2>6. CASE x # p
        BY <2>4, <2>6 DEF IInv, SeenAreSmall, Seen
    <2> QED  BY <2>5, <2>6
<1> QED  BY <1>1, InvariantHolds, PTL DEF MmSpec, FailsOnlyWhenFull

\* The allocator implements the interface: a block handed out lies in the region
\* and shares no unit with a block in use, through any history of calls.
THEOREM FirstFitImplements == MmSpec => ImplementsMemoryManager
<1> DEFINE blocks == [b \in InUse |-> Units(b)]
<1>1. mm_init => Heap!Init
    BY DEF mm_init, Heap!Init, InUse
<1>2. ASSUME IInv, [MmNext]_mmVars
      PROVE  [Heap!Next]_blocks
    <2> USE StateFacts, <1>1, <1>2
    <2>1. ASSUME UNCHANGED <<size, allocated>> PROVE blocks' = blocks
        BY <2>1 DEF Units
    <2>2. CASE \E n \in Request : mm_alloc(n)
        BY <2>1, <2>2 DEF mm_alloc
    <2>3. CASE SearchOn \/ Fail \/ InsertOn \/ UNCHANGED mmVars
        BY <2>1, <2>3 DEF SearchOn, Fail, InsertOn, mmVars
    <2>4. ASSUME NEW b \in InUse, mm_free(b) PROVE Heap!Free(b)
        BY <2>4 DEF mm_free, Without, Heap!Free, Units
    <2>5. CASE InsertApart \/ InsertJoined
        <3>1. loop = "insert" /\ InsertHere /\ allocated' = allocated
            BY <2>5 DEF InsertApart, InsertJoined
        <3>2. \A b \in InUse : b # bp /\ b # p /\ b \notin Swallowed
            BY <3>1, InsertFacts DEF IInv, Headers
        <3>3. \A b \in InUse : size'[b] = size[b]
            BY <2>5, <3>1, <3>2, InsertFacts DEF InsertApart, InsertJoined, With, Without
        <3> QED  BY <3>1, <3>3 DEF Units
    <2>6. ASSUME NEW b \in DOMAIN size', NEW n \in Nat, n >= 1, b \in 1..HeapUnits,
                 b \notin InUse, b + n <= HeapUnits + 1,
                 \A x \in InUse : x + size[x] <= b \/ b + n <= x,
                 InUse' = InUse \cup {b}, size'[b] = n,
                 \A x \in InUse : size'[x] = size[x]
          PROVE  Heap!Alloc(b, b..(b + n - 1)) /\ b + n - 1 \in 1..HeapUnits
        <3>1. blocks' = [t \in InUse \cup {b} |-> IF t = b THEN b..(b + n - 1) ELSE blocks[t]]
            BY <2>6 DEF Units
        <3>2. (b..(b + n - 1)) \subseteq 1..HeapUnits /\ b \in b..(b + n - 1)
            BY <2>6
        <3>3. \A x \in InUse : (b..(b + n - 1)) \cap Units(x) = {}
            BY <2>6 DEF Units
        <3>4. (b..(b + n - 1)) \cap Heap!InUse = {}
            BY <3>3 DEF Heap!InUse
        <3>5. b + n - 1 \in 1..HeapUnits
            BY <2>6
        <3>6. DOMAIN blocks = InUse
            OBVIOUS
        <3>7. blocks' = [t \in DOMAIN blocks \cup {b} |-> IF t = b THEN b..(b + n - 1) ELSE blocks[t]]
            BY <3>1, <3>6
        <3>8. Heap!Alloc(b, b..(b + n - 1))
            BY <3>2, <3>4, <3>7 DEF Heap!Alloc
        <3> QED  BY <3>5, <3>8
    <2>7. CASE TakeTail
        <3> DEFINE b == p + size[p] - nunits
        <3>1. loop = "search" /\ size[p] > nunits /\ p \in DOMAIN size /\ p # Base /\ p \notin InUse
            BY <2>7, SearchFacts DEF TakeTail, IInv, Headers
        <3>2. p \in Nat /\ size[p] \in Nat /\ nunits \in Nat /\ nunits >= 1
            BY <3>1, SearchFacts
        <3>3. b \in Nat /\ p < b /\ b + nunits = p + size[p] /\ b + nunits <= HeapUnits + 1
            BY <3>1, <3>2 DEF IInv, Apart
        <3>4. \A x \in DOMAIN size : x = p \/ x + size[x] <= p \/ b + nunits <= x
            BY <3>1, <3>2, <3>3 DEF IInv, Apart
        <3>5. b \notin DOMAIN size
            BY <3>2, <3>3, <3>4
        <3>6. /\ InUse' = InUse \cup {b} /\ size'[b] = nunits
              /\ \A x \in InUse : size'[x] = size[x] /\ b \in DOMAIN size'
            BY <2>7, <3>1, <3>5 DEF TakeTail, With
        <3>7. \A x \in InUse : x + size[x] <= b \/ b + nunits <= x
            BY <3>1, <3>2, <3>3, <3>4
        <3>8. b \in DOMAIN size' /\ b \in 1..HeapUnits /\ b \notin InUse
            BY <2>7, <3>2, <3>3, <3>5 DEF TakeTail, With
        <3> HIDE DEF b
        <3>9. Heap!Alloc(b, b..(b + nunits - 1)) /\ b + nunits - 1 \in 1..HeapUnits
            BY <2>6, <3>2, <3>3, <3>6, <3>7, <3>8
        <3> QED  BY <3>8, <3>9 DEF Heap!Next
    <2>8. CASE TakeWhole
        <3>1. loop = "search" /\ size[p] = nunits /\ p \in DOMAIN size /\ p # Base /\ p \notin InUse
            BY <2>8, SearchFacts DEF TakeWhole, IInv, Headers
        <3>2. p \in Nat /\ nunits \in Nat /\ nunits >= 1
            BY <3>1, SearchFacts
        <3>3. InUse' = InUse \cup {p} /\ size' = size
            BY <2>8 DEF TakeWhole, With
        <3>4. p + nunits <= HeapUnits + 1 /\ p \in 1..HeapUnits
            BY <3>1, <3>2 DEF IInv, Apart, Base
        <3>5. \A x \in InUse : x + size[x] <= p \/ p + nunits <= x
            BY <3>1, <3>2 DEF IInv, Apart
        <3>6. Heap!Alloc(p, p..(p + nunits - 1)) /\ p + nunits - 1 \in 1..HeapUnits
            BY <2>6, <3>1, <3>2, <3>3, <3>4, <3>5
        <3> QED  BY <3>4, <3>6 DEF Heap!Next
    <2> QED  BY <2>2, <2>3, <2>4, <2>5, <2>7, <2>8 DEF MmNext, Step, Heap!Next
<1> QED  BY <1>1, <1>2, InvariantHolds, PTL DEF MmSpec, ImplementsMemoryManager, Heap!Spec

-----------------------------------------------------------------------------
(* The statistics.  Between mm_free's first lines and its insertion of the  *)
(* block, free_mem_size already counts a block that is not on the list.     *)

Counted == free_mem_size = UnitSize * (SumFunction(FreeUnits) + IF loop = "insert" THEN size[bp] ELSE 0)

\* What FreeUnits holds.
LEMMA FreeUnitsFacts ==
    ASSUME IInv
    PROVE  /\ IsFiniteSet(1..HeapUnits) /\ FreeUnits \in [1..HeapUnits -> Int]
           /\ SumFunction(FreeUnits) \in Int
<1>1. HeapUnits \in Nat \ {0}
    BY HeapAssumption
<1>2. IsFiniteSet(1..HeapUnits)
    BY <1>1, FS_Interval
<1>3. FreeUnits \in [1..HeapUnits -> Int]
    BY StateFacts DEF FreeUnits
<1>4. 1 \in 1..HeapUnits
    BY <1>1
<1>5. SumFunction(FreeUnits) \in Int
  <2>1. PICK g : g = FreeUnits
      OBVIOUS
  <2>2. SumFunction(g) \in Int
      BY <1>2, <1>3, <1>4, <2>1, SumChanges
  <2> QED  BY <2>1, <2>2
<1> QED  BY <1>2, <1>3, <1>5

\* The sum after a step that changes the summands of at most two blocks.
LEMMA FreeUnitsChange ==
    ASSUME IInv, IInv', NEW x \in 1..HeapUnits, NEW y \in 1..HeapUnits, x # y,
           \A z \in 1..HeapUnits : z # x /\ z # y => FreeUnits'[z] = FreeUnits[z]
    PROVE  /\ FreeUnits[x] \in Int /\ FreeUnits'[x] \in Int
           /\ FreeUnits[y] \in Int /\ FreeUnits'[y] \in Int
           /\ SumFunction(FreeUnits) \in Int
           /\ SumFunction(FreeUnits') = SumFunction(FreeUnits) + (FreeUnits'[x] - FreeUnits[x])
                                          + (FreeUnits'[y] - FreeUnits[y])
<1>1. PICK g, h : g = FreeUnits /\ h = FreeUnits'
    OBVIOUS
<1>2. /\ IsFiniteSet(1..HeapUnits) /\ g \in [1..HeapUnits -> Int] /\ h \in [1..HeapUnits -> Int]
      /\ SumFunction(g) \in Int
    <2>1. IsFiniteSet(1..HeapUnits) /\ FreeUnits \in [1..HeapUnits -> Int] /\ SumFunction(FreeUnits) \in Int
        BY FreeUnitsFacts
    <2>2. FreeUnits' \in [1..HeapUnits -> Int]
        <3>1. \A z \in Free' : size'[z] \in Int
            BY HeapAssumption DEF IInv, MmTypeOK, Headers
        <3> QED  BY <3>1 DEF FreeUnits
    <2> QED  BY <1>1, <2>1, <2>2
<1> DEFINE m == [g EXCEPT ![x] = h[x]]
<1>3. m \in [1..HeapUnits -> Int] /\ m[x] = h[x] /\ m[y] = g[y]
      /\ \A z \in (1..HeapUnits) \ {x} : m[z] = g[z]
    BY <1>2
<1>4. \A z \in (1..HeapUnits) \ {y} : h[z] = m[z]
    BY <1>1, <1>3
<1> HIDE DEF m
<1>5. SumFunction(m) = SumFunction(g) + (m[x] - g[x])
    BY ZenonT(60), <1>2, <1>3, SumChanges
<1>6. SumFunction(h) = SumFunction(m) + (h[y] - m[y])
    BY ZenonT(60), <1>2, <1>3, <1>4, SumChanges
<1>7. SumFunction(h) = SumFunction(g) + (h[x] - g[x]) + (h[y] - g[y])
    BY <1>3, <1>5, <1>6
<1>8. g[x] \in Int /\ h[x] \in Int /\ g[y] \in Int /\ h[y] \in Int
    BY <1>2
<1> QED  BY <1>1, <1>2, <1>7, <1>8

\* The sum after a step that changes the summand of one block.
LEMMA FreeUnitsChangeOne ==
    ASSUME IInv, IInv', NEW x \in 1..HeapUnits,
           \A z \in 1..HeapUnits : z # x => FreeUnits'[z] = FreeUnits[z]
    PROVE  /\ FreeUnits[x] \in Int /\ FreeUnits'[x] \in Int
           /\ SumFunction(FreeUnits) \in Int
           /\ SumFunction(FreeUnits') = SumFunction(FreeUnits) + (FreeUnits'[x] - FreeUnits[x])
<1>1. PICK g, h : g = FreeUnits /\ h = FreeUnits'
    OBVIOUS
<1>2. IsFiniteSet(1..HeapUnits) /\ g \in [1..HeapUnits -> Int] /\ h \in [1..HeapUnits -> Int]
    <2>1. IsFiniteSet(1..HeapUnits) /\ FreeUnits \in [1..HeapUnits -> Int]
        BY FreeUnitsFacts
    <2>2. FreeUnits' \in [1..HeapUnits -> Int]
        <3>1. \A z \in Free' : size'[z] \in Int
            BY HeapAssumption DEF IInv, MmTypeOK, Headers
        <3> QED  BY <3>1 DEF FreeUnits
    <2> QED  BY <1>1, <2>1, <2>2
<1>3. SumFunction(g) \in Int /\ SumFunction(h) = SumFunction(g) + (h[x] - g[x])
    BY ZenonT(60), <1>1, <1>2, SumChanges
<1>4. g[x] \in Int /\ h[x] \in Int
    BY <1>2
<1> QED  BY <1>1, <1>3, <1>4

\* mm_init counts the one block there is.
LEMMA InitCounted == mm_init => Counted
<1> SUFFICES ASSUME mm_init PROVE Counted
    OBVIOUS
<1>1. HeapUnits \in Nat \ {0} /\ UnitSize \in Nat
    BY HeapAssumption
<1> DEFINE zero == [x \in 1..HeapUnits |-> 0]
           one == [x \in 1..HeapUnits |-> IF x = 1 THEN HeapUnits ELSE 0]
<1>2. FreeUnits = one
    BY <1>1 DEF mm_init, FreeUnits, Base
<1>3. /\ IsFiniteSet(1..HeapUnits) /\ 1 \in 1..HeapUnits /\ one[1] = HeapUnits /\ zero[1] = 0
      /\ zero \in [1..HeapUnits -> Int] /\ one \in [1..HeapUnits -> Int]
      /\ \A x \in (1..HeapUnits) \ {1} : one[x] = zero[x]
    BY <1>1, FS_Interval
<1>4. SumFunction(zero) = 0
    BY <1>3, SumOfZeros
<1> HIDE DEF zero, one
<1>5. SumFunction(one) = SumFunction(zero) + (one[1] - zero[1])
    BY <1>3, SumChanges
<1>6. SumFunction(FreeUnits) = HeapUnits
    BY <1>1, <1>2, <1>3, <1>4, <1>5
<1> QED  BY <1>1, <1>6 DEF mm_init, Counted

\* Each step keeps the count.
LEMMA NextCounted ==
    ASSUME IInv, IInv', Counted, [MmNext]_mmVars
    PROVE  Counted'
<1> USE StateFacts, HeapAssumption
<1>0. SumFunction(FreeUnits) \in Int /\ free_mem_size \in Int
    BY FreeUnitsFacts DEF IInv, MmTypeOK
<1>1. ASSUME UNCHANGED <<ptr, size, free_mem_size, bp>>, loop' = "insert" <=> loop = "insert"
      PROVE  Counted'
    <2>1. FreeUnits' = FreeUnits
        BY <1>1 DEF FreeUnits
    <2> QED  BY <1>1, <2>1 DEF Counted
<1>2. CASE \E n \in Request : mm_alloc(n)
    BY <1>1, <1>2 DEF mm_alloc
<1>3. CASE \E b \in InUse : mm_free(b)
    <2>1. PICK b \in InUse : mm_free(b)
        BY <1>3
    <2>2. FreeUnits' = FreeUnits
        BY <2>1 DEF FreeUnits, mm_free
    <2>3. /\ loop = "idle" /\ loop' = "insert" /\ size'[bp'] = size[b] /\ size[b] \in Nat
          /\ free_mem_size' = free_mem_size + size[b] * UnitSize
        BY <2>1 DEF mm_free
    <2>4. UnitSize \in Nat
        OBVIOUS
    <2> QED  BY <1>0, <2>2, <2>3, <2>4 DEF Counted
<1>4. CASE SearchOn \/ Fail
    <2>1. loop = "search" /\ loop' \in {"search", "idle"} /\ UNCHANGED <<ptr, size, free_mem_size>>
        BY <1>4 DEF SearchOn, Fail, Return
    <2>2. FreeUnits' = FreeUnits
        BY <2>1 DEF FreeUnits
    <2> QED  BY <2>1, <2>2 DEF Counted
<1>5. CASE InsertOn
    BY <1>1, <1>5 DEF InsertOn
<1>6. CASE TakeTail
    <2> USE SearchFacts
    <2> DEFINE b == p + size[p] - nunits
    <2>1. /\ loop = "search" /\ size[p] > nunits /\ p # Base /\ p \in Free /\ nunits \in Nat
          /\ loop' = "idle" /\ ptr' = ptr /\ free_mem_size' = free_mem_size - nunits * UnitSize
        BY <1>6 DEF TakeTail, Return
    <2>2. b \notin DOMAIN size
        BY <2>1 DEF IInv, Apart
    <2>3. /\ size'[p] = size[p] - nunits
          /\ \A x \in Free : x # p => size'[x] = size[x]
        BY <1>6, <2>1, <2>2 DEF TakeTail, With
    <2>4. p \in 1..HeapUnits
        BY <2>1 DEF Base
    <2>5. \A x \in 1..HeapUnits : x # p => FreeUnits'[x] = FreeUnits[x]
        BY <2>1, <2>3 DEF FreeUnits
    <2>6. FreeUnits[p] = size[p] /\ FreeUnits'[p] = size[p] - nunits
        BY <2>1, <2>3, <2>4 DEF FreeUnits
    <2>7. PICK q : q = p
        OBVIOUS
    <2>8. SumFunction(FreeUnits') = SumFunction(FreeUnits) + (FreeUnits'[q] - FreeUnits[q])
        BY <2>4, <2>5, <2>7, FreeUnitsChangeOne
    <2>9. SumFunction(FreeUnits') = SumFunction(FreeUnits) - nunits
        BY <1>0, <2>1, <2>6, <2>7, <2>8
    <2>10. free_mem_size = UnitSize * SumFunction(FreeUnits)
        BY <1>0, <2>1 DEF Counted
    <2>11. free_mem_size' = UnitSize * SumFunction(FreeUnits')
        BY <1>0, <2>1, <2>9, <2>10
    <2> QED  BY <1>0, <2>1, <2>9, <2>11 DEF Counted
<1>7. CASE TakeWhole
    <2> USE SearchFacts
    <2>1. /\ loop = "search" /\ size[p] = nunits /\ p # Base /\ p # prevp /\ p \in Free /\ nunits \in Nat
          /\ prevp \in Free
          /\ loop' = "idle" /\ size' = size /\ free_mem_size' = free_mem_size - nunits * UnitSize
        BY <1>7 DEF TakeWhole, Return, IInv, Headers, Ring
    <2>2. Free' = Free \ {p}
        BY <1>7, <2>1 DEF TakeWhole, With, Without
    <2>4. p \in 1..HeapUnits
        BY <2>1 DEF Base
    <2>5. \A x \in 1..HeapUnits : x # p => FreeUnits'[x] = FreeUnits[x]
        BY <2>1, <2>2 DEF FreeUnits
    <2>6. FreeUnits[p] = nunits /\ FreeUnits'[p] = 0
        BY <2>1, <2>2, <2>4 DEF FreeUnits
    <2>7. PICK q : q = p
        OBVIOUS
    <2>8. SumFunction(FreeUnits') = SumFunction(FreeUnits) + (FreeUnits'[q] - FreeUnits[q])
        BY <2>4, <2>5, <2>7, FreeUnitsChangeOne
    <2>9. SumFunction(FreeUnits') = SumFunction(FreeUnits) - nunits
        BY <1>0, <2>1, <2>6, <2>7, <2>8
    <2>10. free_mem_size = UnitSize * SumFunction(FreeUnits)
        BY <1>0, <2>1 DEF Counted
    <2>11. free_mem_size' = UnitSize * SumFunction(FreeUnits')
        BY <1>0, <2>1, <2>9, <2>10
    <2> QED  BY <1>0, <2>1, <2>9, <2>11 DEF Counted
<1>8. ASSUME InsertApart \/ InsertJoined
      PROVE  Counted'
    <2>1. /\ loop = "insert" /\ InsertHere /\ loop' = "idle" /\ free_mem_size' = free_mem_size
        BY <1>8 DEF InsertApart, InsertJoined, Return
    <2> USE InsertFacts, <2>1
    \* The block that grows: the freed one, or the one below it.
    <2>2. PICK q : /\ q \in 1..HeapUnits /\ q \notin Swallowed
                   /\ FreeUnits'[q] = FreeUnits[q] + Grown /\ FreeUnits[q] \in Int
                   /\ \A x \in 1..HeapUnits : x # q /\ x \notin Swallowed => FreeUnits'[x] = FreeUnits[x]
                   /\ \A x \in Swallowed : FreeUnits'[x] = 0 /\ FreeUnits[x] = size[x] /\ x \in 1..HeapUnits
        <3>0. Swallowed \subseteq 1..HeapUnits /\ bp \in 1..HeapUnits /\ bp \notin Swallowed
            BY DEF Base
        <3>1. CASE InsertApart
            <4>1. /\ Free' = (Free \ Swallowed) \cup {bp}
                  /\ size'[bp] = Grown
                  /\ \A x \in Free \ Swallowed : size'[x] = size[x]
                BY <3>0, <3>1 DEF InsertApart, With
            <4>2. FreeUnits'[bp] = Grown /\ FreeUnits[bp] = 0
                BY <3>0, <4>1 DEF FreeUnits
            <4>3. \A x \in 1..HeapUnits : x # bp /\ x \notin Swallowed => FreeUnits'[x] = FreeUnits[x]
                BY <4>1 DEF FreeUnits
            <4>4. \A x \in Swallowed : FreeUnits'[x] = 0 /\ FreeUnits[x] = size[x]
                BY <3>0, <4>1 DEF FreeUnits
            <4> QED  BY <3>0, <4>2, <4>3, <4>4
        <3>2. CASE InsertJoined
            <4>0. p + size[p] = bp /\ p # Base /\ p \in 1..HeapUnits /\ size[p] \in Nat
                BY <3>2 DEF InsertJoined, JoinsLower, IInv, Headers, Base
            <4>1. /\ Free' = Free \ Swallowed
                  /\ size'[p] = size[p] + Grown
                  /\ \A x \in Free \ Swallowed : x # p => size'[x] = size[x]
                BY SMTT(40), <3>0, <3>2 DEF InsertJoined, With, Without
            <4>2. FreeUnits'[p] = size[p] + Grown /\ FreeUnits[p] = size[p] /\ p \notin Swallowed
                BY <4>0, <4>1 DEF FreeUnits
            <4>3. \A x \in 1..HeapUnits : x # p /\ x \notin Swallowed => FreeUnits'[x] = FreeUnits[x]
                BY <4>1 DEF FreeUnits
            <4>4. \A x \in Swallowed : FreeUnits'[x] = 0 /\ FreeUnits[x] = size[x]
                BY <3>0, <4>1 DEF FreeUnits
            <4> QED  BY <3>0, <4>0, <4>2, <4>3, <4>4
        <3> QED  BY <1>8, <3>1, <3>2
    <2>3. SumFunction(FreeUnits') = SumFunction(FreeUnits) + size[bp]
        <3>1. CASE Swallowed = {}
            <4>1. SumFunction(FreeUnits') = SumFunction(FreeUnits) + (FreeUnits'[q] - FreeUnits[q])
                BY <2>2, <3>1, FreeUnitsChangeOne
            <4>2. Grown = size[bp] /\ size[bp] \in Nat
                BY <3>1
            <4> QED  BY <1>0, <2>2, <4>1, <4>2
        <3>2. CASE Swallowed # {}
            <4>1. PICK r : Swallowed = {r}
                BY <3>2 DEF Swallowed
            <4>2. /\ Grown = size[bp] + size[r] /\ size[bp] \in Nat /\ size[r] \in Nat
                  /\ r \in 1..HeapUnits /\ r # q
                  /\ FreeUnits'[r] = 0 /\ FreeUnits[r] = size[r]
                BY <2>2, <4>1
            <4>3. \A x \in 1..HeapUnits : x # q /\ x # r => FreeUnits'[x] = FreeUnits[x]
                BY <2>2, <4>1
            <4>4. SumFunction(FreeUnits') = SumFunction(FreeUnits) + (FreeUnits'[q] - FreeUnits[q])
                                              + (FreeUnits'[r] - FreeUnits[r])
                BY <2>2, <4>2, <4>3, FreeUnitsChange
            <4> QED  BY <1>0, <2>2, <4>2, <4>4
        <3> QED  BY <3>1, <3>2
    <2>4. free_mem_size = UnitSize * (SumFunction(FreeUnits) + size[bp])
        BY <2>1 DEF Counted
    <2>5. SumFunction(FreeUnits') \in Int /\ SumFunction(FreeUnits') + 0 = SumFunction(FreeUnits')
        BY <1>0, <2>3
    <2> QED  BY <2>1, <2>3, <2>4, <2>5 DEF Counted
<1>9. CASE UNCHANGED mmVars
    BY <1>1, <1>9 DEF mmVars
<1> QED  BY <1>2, <1>3, <1>4, <1>5, <1>6, <1>7, <1>8, <1>9 DEF MmNext, Step

\* Between calls mm_get_stats reports exactly the memory on the free list,
\* however often blocks were cut, taken whole and merged.
THEOREM StatisticsAreExact == MmSpec => []StatsAreRight
<1>1. IInv /\ Counted => StatsAreRight
    <2> SUFFICES ASSUME IInv, Counted, loop = "idle"
                 PROVE  free_mem_size = UnitSize * SumFunction(FreeUnits)
        BY DEF StatsAreRight
    <2>1. SumFunction(FreeUnits) \in Int
        BY FreeUnitsFacts
    <2>2. SumFunction(FreeUnits) + 0 = SumFunction(FreeUnits)
        BY <2>1
    <2> QED  BY <2>2 DEF Counted
<1>2. IInv /\ IInv' /\ Counted /\ [MmNext]_mmVars => Counted'
    BY NextCounted
<1> QED  BY <1>1, <1>2, InitCounted, InvariantHolds, PTL DEF MmSpec

=============================================================================
