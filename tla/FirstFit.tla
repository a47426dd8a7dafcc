------------------------------ MODULE FirstFit ------------------------------
(***************************************************************************)
(* The default memory manager, Kernel/memory/first_fit_mm.c: a circular    *)
(* list of free blocks in address order, searched from where the last      *)
(* search ended, whose neighbours are merged when a block is freed.        *)
(*                                                                         *)
(* Addresses count headers (UNIT_SIZE bytes): the managed region is        *)
(* 1..HeapUnits and the static header `base' is 0, below it.  A header's   *)
(* s.ptr is kept only while it is on the free list and its s.size only     *)
(* while it heads a block: nothing reads them otherwise.  Each turn of the *)
(* two search loops is a step.  The calls come one at a time, as they do   *)
(* when they are made with interrupts off (every system call).             *)
(***************************************************************************)
EXTENDS Integers, FiniteSetsExt

CONSTANTS HeapUnits,    \* total_size / UNIT_SIZE
          UnitSize,     \* UNIT_SIZE
          SizeMax       \* SIZE_MAX: a size_t is in 0..SizeMax

ASSUME HeapAssumption ==
    /\ HeapUnits \in Nat \ {0}
    /\ UnitSize \in Nat \ {0}
    /\ SizeMax \in Nat

VARIABLES
    ptr,            \* s.ptr of the headers on the free list
    size,           \* s.size of base and of every block's header
    freep,          \* freep
    free_mem_size,  \* free_mem_size
    allocated,      \* the headers of the blocks in use |-> bytes asked for
    loop,           \* "idle", or the search loop the call is in
    nbytes, nunits, \* mm_alloc's argument and the units it needs
    p, prevp,       \* the loops' pointers
    bp              \* mm_free's block

heapVars == <<ptr, size, freep, free_mem_size, allocated>>
mmCallVars == <<loop, nbytes, nunits, p, prevp, bp>>
mmVars == <<heapVars, mmCallVars>>

Base == 0
Addr == 0..HeapUnits
Free == DOMAIN ptr
InUse == DOMAIN allocated

MmTypeOK ==
    /\ Free \subseteq Addr /\ ptr \in [Free -> Addr]
    /\ DOMAIN size \subseteq Addr /\ size \in [DOMAIN size -> 0..HeapUnits]
    /\ freep \in Addr
    /\ free_mem_size \in Int
    /\ InUse \subseteq Addr /\ allocated \in [InUse -> 0..SizeMax]
    /\ loop \in {"idle", "search", "insert"}
    /\ nbytes \in 0..SizeMax
    /\ nunits \in Nat
    /\ p \in Addr /\ prevp \in Addr /\ bp \in Addr

\* f with y added or changed at x, and f without x.
With(f, x, y) == [z \in DOMAIN f \cup {x} |-> IF z = x THEN y ELSE f[z]]
Without(f, x) == [z \in DOMAIN f \ {x} |-> f[z]]

\* mm_init
mm_init ==
    /\ ptr = [x \in {Base, 1} |-> IF x = Base THEN 1 ELSE Base]
    /\ size = [x \in {Base, 1} |-> IF x = Base THEN 0 ELSE HeapUnits]
    /\ freep = Base
    /\ free_mem_size = HeapUnits * UnitSize
    /\ allocated = [x \in {} |-> 0]
    /\ loop = "idle"
    /\ nbytes = 0 /\ nunits = 0
    /\ p = Base /\ prevp = Base /\ bp = Base

\* The call ends, and its local variables with it.
Return ==
    /\ loop' = "idle"
    /\ nbytes' = 0 /\ nunits' = 0
    /\ p' = Base /\ prevp' = Base /\ bp' = Base

-----------------------------------------------------------------------------
(* mm_alloc.                                                                *)

\* Fault: the bytes are rounded down.  (Definitions named Bad... are faulty
\* variants of the one after them; they show that a property can fail.)
BadUnitsFor(n) == n \div UnitSize + 1

\* The payload's units plus the header's; the sum is computed in a size_t.
UnitsFor(n) == ((n + UnitSize - 1) % (SizeMax + 1)) \div UnitSize + 1

\* A request for 0 bytes returns NULL at once.
mm_alloc(n) ==
    /\ loop = "idle"
    /\ n # 0
    /\ nbytes' = n
    /\ nunits' = UnitsFor(n)
    /\ prevp' = freep
    /\ p' = ptr[freep]
    /\ loop' = "search"
    /\ UNCHANGED <<heapVars, bp>>

\* Fault: the cut is made one unit too late.
BadTakeTail ==
    LET b == p + size[p] - nunits + 1 IN
    /\ loop = "search" /\ size[p] > nunits
    /\ size' = With(With(size, p, size[p] - nunits), b, nunits)
    /\ allocated' = With(allocated, b, nbytes)
    /\ freep' = prevp
    /\ free_mem_size' = free_mem_size - nunits * UnitSize
    /\ Return
    /\ UNCHANGED ptr

\* Fault: the units taken are not subtracted from the statistics.
BadTakeCount ==
    LET b == p + size[p] - nunits IN
    /\ loop = "search" /\ size[p] > nunits
    /\ size' = With(With(size, p, size[p] - nunits), b, nunits)
    /\ allocated' = With(allocated, b, nbytes)
    /\ freep' = prevp
    /\ Return
    /\ UNCHANGED <<ptr, free_mem_size>>

\* p is larger than needed: its last units are cut off.
TakeTail ==
    LET b == p + size[p] - nunits IN
    /\ loop = "search" /\ size[p] > nunits
    /\ size' = With(With(size, p, size[p] - nunits), b, nunits)
    /\ allocated' = With(allocated, b, nbytes)
    /\ freep' = prevp
    /\ free_mem_size' = free_mem_size - nunits * UnitSize
    /\ Return
    /\ UNCHANGED ptr

\* Fault: the rest of the list is cut off with the block.
BadTakeWhole ==
    /\ loop = "search" /\ size[p] = nunits
    /\ ptr' = With([x \in {y \in Free : y < p} |-> ptr[x]], prevp, Base)
    /\ allocated' = With(allocated, p, nbytes)
    /\ freep' = prevp
    /\ free_mem_size' = free_mem_size - nunits * UnitSize
    /\ Return
    /\ UNCHANGED size

\* p fits exactly and leaves the list.
TakeWhole ==
    /\ loop = "search" /\ size[p] = nunits
    /\ ptr' = With(Without(ptr, p), prevp, ptr[p])
    /\ allocated' = With(allocated, p, nbytes)
    /\ freep' = prevp
    /\ free_mem_size' = free_mem_size - nunits * UnitSize
    /\ Return
    /\ UNCHANGED size

SearchOn ==
    /\ loop = "search" /\ size[p] < nunits
    /\ p # freep
    /\ prevp' = p
    /\ p' = ptr[p]
    /\ UNCHANGED <<heapVars, loop, nbytes, nunits, bp>>

\* Fault: the search ends at the node before freep.
BadFail ==
    /\ loop = "search" /\ size[p] < nunits
    /\ ptr[p] = freep
    /\ Return
    /\ UNCHANGED heapVars

\* Back at freep: the call returns NULL.
Fail ==
    /\ loop = "search" /\ size[p] < nunits
    /\ p = freep
    /\ Return
    /\ UNCHANGED heapVars

-----------------------------------------------------------------------------
(* mm_free.                                                                 *)

mm_free(b) ==
    /\ loop = "idle"
    /\ b \in InUse
    /\ bp' = b
    /\ allocated' = Without(allocated, b)
    /\ free_mem_size' = free_mem_size + size[b] * UnitSize
    /\ p' = freep
    /\ loop' = "insert"
    /\ UNCHANGED <<ptr, size, freep, nbytes, nunits, prevp>>

\* Fault: the end of the list is not recognised.
BadInsertHere == bp > p /\ bp < ptr[p]

\* bp belongs right after p: between p and its successor, or at the end.
InsertHere ==
    \/ bp > p /\ bp < ptr[p]
    \/ p >= ptr[p] /\ (bp > p \/ bp < ptr[p])

InsertOn ==
    /\ loop = "insert" /\ ~InsertHere
    /\ p' = ptr[p]
    /\ UNCHANGED <<heapVars, loop, nbytes, nunits, prevp, bp>>

JoinsUpper == bp + size[bp] = ptr[p]
JoinsLower == p + size[p] = bp

\* bp's size and successor once it has swallowed its upper neighbour.
Grown  == size[bp] + IF JoinsUpper THEN size[ptr[p]] ELSE 0
Beyond == IF JoinsUpper THEN ptr[ptr[p]] ELSE ptr[p]

\* The list and the headers without that neighbour.
Ptr0  == IF JoinsUpper THEN Without(ptr, ptr[p]) ELSE ptr
Size0 == IF JoinsUpper THEN Without(size, ptr[p]) ELSE size

\* Fault: the lower neighbour is never merged.
BadInsertApart ==
    /\ loop = "insert" /\ InsertHere
    /\ ptr' = With(With(Ptr0, p, bp), bp, Beyond)
    /\ size' = With(Size0, bp, Grown)
    /\ freep' = bp
    /\ Return
    /\ UNCHANGED <<free_mem_size, allocated>>

InsertApart ==
    /\ loop = "insert" /\ InsertHere /\ ~JoinsLower
    /\ ptr' = With(With(Ptr0, p, bp), bp, Beyond)
    /\ size' = With(Size0, bp, Grown)
    /\ freep' = bp
    /\ Return
    /\ UNCHANGED <<free_mem_size, allocated>>

\* p swallows bp.
InsertJoined ==
    /\ loop = "insert" /\ InsertHere /\ JoinsLower
    /\ ptr' = With(Ptr0, p, Beyond)
    /\ size' = With(Without(Size0, bp), p, size[p] + Grown)
    /\ freep' = p
    /\ Return
    /\ UNCHANGED <<free_mem_size, allocated>>

-----------------------------------------------------------------------------
Request == 1..SizeMax

Step == TakeTail \/ TakeWhole \/ SearchOn \/ Fail \/ InsertOn \/ InsertApart \/ InsertJoined

MmNext ==
    \/ \E n \in Request : mm_alloc(n)
    \/ \E b \in InUse : mm_free(b)
    \/ Step

\* A call runs with interrupts off until it returns.
MmFairness == WF_mmVars(Step)

MmSpec == mm_init /\ [][MmNext]_mmVars /\ MmFairness

-----------------------------------------------------------------------------
(* Properties.                                                              *)

Units(x) == x..(x + size[x] - 1)
FreeBlocks == Free \ {Base}

\* mm_alloc hands out memory nobody uses and mm_free takes one block back,
\* through any history of splits and merges.
Heap == INSTANCE MemoryManager WITH
            Region <- 1..HeapUnits, blocks <- [b \in InUse |-> Units(b)]
ImplementsMemoryManager == Heap!Spec

\* Between calls every unit is in a block: no memory leaks out of the free list
\* and the blocks in use.
NoUnitLost ==
    loop = "idle" => \A u \in 1..HeapUnits : \E x \in FreeBlocks \cup InUse : u \in Units(x)

\* Between calls no two free blocks touch: mm_free merges with both neighbours,
\* wherever freep happens to stand.
Coalesced ==
    loop = "idle" => \A x, y \in FreeBlocks : x + size[x] # y

\* mm_alloc returns NULL only when no free block is large enough, although its
\* search starts in the middle of the list.
FailsOnlyWhenFull ==
    [][loop = "search" /\ loop' = "idle" /\ allocated' = allocated
         => \A x \in FreeBlocks : size[x] < nunits]_mmVars

\* A block has room for the bytes asked for, unless rounding them up to units
\* exceeds a size_t.
RoomForRequest ==
    \A b \in InUse : allocated[b] + UnitSize - 1 <= SizeMax
        => allocated[b] <= (size[b] - 1) * UnitSize

\* mm_get_stats reports the memory that is really free (between calls).
FreeUnits == [x \in 1..HeapUnits |-> IF x \in Free THEN size[x] ELSE 0]
StatsAreRight == loop = "idle" => free_mem_size = UnitSize * SumFunction(FreeUnits)

\* Both search loops end.
CallsReturn == loop # "idle" ~> loop = "idle"

=============================================================================
