-------------------------------- MODULE Buddy --------------------------------
(***************************************************************************)
(* The alternative memory manager, Kernel/memory/buddy_system_mm.c: blocks *)
(* of MIN_BLOCK_SIZE * 2^k bytes, a list of the free ones per order k, and *)
(* merging of a freed block with its buddy as long as that one is free.    *)
(*                                                                         *)
(* Addresses are offsets from start_addr in units of MIN_BLOCK_SIZE.  The  *)
(* calls come one at a time, as they do with interrupts off; each turn of  *)
(* mm_free's merging loop is a step.                                       *)
(***************************************************************************)
EXTENDS Integers, Sequences, SequencesExt

CONSTANTS MaxOrder,      \* MAX_ORDER
          HeapMinBlocks, \* total_size / MIN_BLOCK_SIZE
          MinBlockSize,  \* MIN_BLOCK_SIZE
          MetaSize,      \* sizeof(alloc_metadata_t)
          FreeBlockSize  \* sizeof(free_block_t)

ASSUME BuddyAssumption ==
    /\ MaxOrder \in Nat
    /\ HeapMinBlocks \in Nat \ {0}
    /\ MinBlockSize \in Nat \ {0}
    /\ MetaSize \in Nat /\ FreeBlockSize \in 0..MinBlockSize

VARIABLES
    buddy_lists,    \* the free blocks of each order, first in the list first
    order,          \* metadata->order of the blocks in use
    buddy_pc,       \* "idle", or "merge" in mm_free's loop
    block_to_free,  \* mm_free's block
    current_order   \* and its order so far

buddyVars == <<buddy_lists, order, buddy_pc, block_to_free, current_order>>

Orders == 0..MaxOrder
Size(k) == 2^k

\* The loop of mm_init: the largest order whose block fits the region.
max_k == CHOOSE k \in Orders : /\ Size(k) <= HeapMinBlocks
                               /\ \A j \in Orders : Size(j) <= HeapMinBlocks => j <= k

Managed == 0..(Size(max_k) - 1)

BuddyTypeOK ==
    /\ buddy_lists \in [Orders -> Seq(Managed)]
    /\ DOMAIN order \subseteq Managed /\ order \in [DOMAIN order -> Orders]
    /\ buddy_pc \in {"idle", "merge"}
    /\ block_to_free \in Managed
    /\ current_order \in Orders

\* mm_init
buddy_mm_init ==
    /\ buddy_lists = [k \in Orders |-> IF k = max_k THEN <<0>> ELSE <<>>]
    /\ order = [b \in {} |-> 0]
    /\ buddy_pc = "idle" /\ block_to_free = 0 /\ current_order = 0

-----------------------------------------------------------------------------
Required(size) == IF size + MetaSize < FreeBlockSize THEN FreeBlockSize ELSE size + MetaSize

\* The smallest order whose blocks are large enough.
TargetOrder(size) ==
    CHOOSE k \in 0..(size + MetaSize + FreeBlockSize) :
        /\ MinBlockSize * Size(k) >= Required(size)
        /\ \A j \in 0..(k-1) : MinBlockSize * Size(j) < Required(size)

\* The lowest order from `target' on that has a free block.
FoundAt(k, target) ==
    /\ k \in target..MaxOrder
    /\ buddy_lists[k] # <<>>
    /\ \A j \in target..(k-1) : buddy_lists[j] = <<>>

\* Fault: the lower half is put on the list instead of the upper one.  (Definitions
\* named Bad... are faulty variants of the one after them; they show that a
\* property can fail.)
BadSplit(b, k, target) ==
    [j \in Orders |-> CASE j = k -> Tail(buddy_lists[k])
                        [] j \in target..(k-1) -> <<b>> \o buddy_lists[j]
                        [] OTHER -> buddy_lists[j]]

\* The lists once block b of order k has been halved down to order `target':
\* the upper half goes to the front of its list each time.
Split(b, k, target) ==
    [j \in Orders |-> CASE j = k -> Tail(buddy_lists[k])
                        [] j \in target..(k-1) -> <<b + Size(j)>> \o buddy_lists[j]
                        [] OTHER -> buddy_lists[j]]

\* With nothing found, or a request of 0 bytes, mm_alloc returns NULL.
buddy_mm_alloc(size) ==
    LET target == TargetOrder(size) IN
    /\ buddy_pc = "idle"
    /\ size # 0
    /\ \E k \in Orders :
          LET b == Head(buddy_lists[k]) IN
          /\ FoundAt(k, target)
          /\ buddy_lists' = Split(b, k, target)
          /\ order' = [x \in DOMAIN order \cup {b} |-> IF x = b THEN target ELSE order[x]]
    /\ UNCHANGED <<buddy_pc, block_to_free, current_order>>

-----------------------------------------------------------------------------
buddy_mm_free(b) ==
    /\ buddy_pc = "idle"
    /\ b \in DOMAIN order
    /\ block_to_free' = b
    /\ current_order' = order[b]
    /\ order' = [x \in DOMAIN order \ {b} |-> order[x]]
    /\ buddy_pc' = "merge"
    /\ UNCHANGED buddy_lists

\* Fault: the neighbour above is taken for the buddy.
BadBuddyOf(b, k) == b + Size(k)

\* relative_addr ^ block_size; a block of order k starts at a multiple of its size.
BuddyOf(b, k) == IF (b \div Size(k)) % 2 = 0 THEN b + Size(k) ELSE b - Size(k)

\* is_buddy_free
BuddyIsFree(b, k) == k < MaxOrder /\ Contains(buddy_lists[k], BuddyOf(b, k))

\* Fault: the buddy stays on its list.
BadMerge ==
    LET buddy == BuddyOf(block_to_free, current_order) IN
    /\ buddy_pc = "merge" /\ BuddyIsFree(block_to_free, current_order)
    /\ block_to_free' = IF buddy < block_to_free THEN buddy ELSE block_to_free
    /\ current_order' = current_order + 1
    /\ UNCHANGED <<buddy_lists, order, buddy_pc>>

Merge ==
    LET buddy == BuddyOf(block_to_free, current_order) IN
    /\ buddy_pc = "merge" /\ BuddyIsFree(block_to_free, current_order)
    /\ buddy_lists' = [buddy_lists EXCEPT ![current_order] = RemoveFirst(@, buddy)]
    /\ block_to_free' = IF buddy < block_to_free THEN buddy ELSE block_to_free
    /\ current_order' = current_order + 1
    /\ UNCHANGED <<order, buddy_pc>>

Insert ==
    /\ buddy_pc = "merge" /\ ~BuddyIsFree(block_to_free, current_order)
    /\ buddy_lists' = [buddy_lists EXCEPT ![current_order] = <<block_to_free>> \o @]
    /\ buddy_pc' = "idle" /\ block_to_free' = 0 /\ current_order' = 0
    /\ UNCHANGED order

-----------------------------------------------------------------------------
\* Requests from one byte to more than the region holds.
BuddyRequest == 1..(MinBlockSize * Size(max_k))

BuddyNext ==
    \/ \E size \in BuddyRequest : buddy_mm_alloc(size)
    \/ \E b \in DOMAIN order : buddy_mm_free(b)
    \/ Merge
    \/ Insert

BuddySpec == buddy_mm_init /\ [][BuddyNext]_buddyVars

-----------------------------------------------------------------------------
(* Properties.                                                              *)

\* The free blocks as pairs of address and order, and the units of a block.
BuddyFreeBlocks == UNION {{<<b, k>> : b \in ToSet(buddy_lists[k])} : k \in Orders}
UsedBlocks == {<<b, order[b]>> : b \in DOMAIN order}
BuddyUnits(blk) == blk[1]..(blk[1] + Size(blk[2]) - 1)

\* mm_alloc hands out memory nobody uses and mm_free takes one block back,
\* through any history of splitting and merging.
BuddyHeap == INSTANCE MemoryManager WITH
            Region <- Managed, blocks <- [b \in DOMAIN order |-> BuddyUnits(<<b, order[b]>>)]
BuddyImplementsMemoryManager == BuddyHeap!Spec

\* Between calls the free blocks and the blocks in use cover the managed region,
\* each unit once, and no free block is listed twice (mm_alloc, mm_free).
Partition ==
    /\ BuddyTypeOK
    /\ buddy_pc = "idle" =>
        /\ BuddyFreeBlocks \cap UsedBlocks = {}
        /\ \A u \in Managed : \E blk \in BuddyFreeBlocks \cup UsedBlocks : u \in BuddyUnits(blk)
        /\ \A x, y \in BuddyFreeBlocks \cup UsedBlocks : x # y => BuddyUnits(x) \cap BuddyUnits(y) = {}
        /\ \A k \in Orders : IsInjective(buddy_lists[k])

\* Between calls no block and its buddy are both free: merging goes as far as it
\* can, so that memory freed completely is one block again (mm_free's loop).
FullyMerged ==
    buddy_pc = "idle" => \A blk \in BuddyFreeBlocks :
        blk[2] < max_k => <<BuddyOf(blk[1], blk[2]), blk[2]>> \notin BuddyFreeBlocks

=============================================================================
