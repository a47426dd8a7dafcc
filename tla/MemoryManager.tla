---------------------------- MODULE MemoryManager ----------------------------
(***************************************************************************)
(* What Kernel/include/memory_manager.h promises, whichever of the two     *)
(* memory managers is linked in: a block handed out lies in the managed    *)
(* region and shares no byte with any other block in use.                  *)
(***************************************************************************)
EXTENDS Integers

CONSTANT Region          \* the units of the managed region

VARIABLE blocks          \* the blocks in use: first unit |-> set of units

InUse == UNION {blocks[s] : s \in DOMAIN blocks}

Init == blocks = [s \in {} |-> {}]

Alloc(s, units) ==
    /\ s \in units /\ units \subseteq Region
    /\ units \cap InUse = {}
    /\ blocks' = [t \in DOMAIN blocks \cup {s} |-> IF t = s THEN units ELSE blocks[t]]

Free(s) ==
    /\ s \in DOMAIN blocks
    /\ blocks' = [t \in DOMAIN blocks \ {s} |-> blocks[t]]

Next == \/ \E s, e \in Region : Alloc(s, s..e)
        \/ \E s \in DOMAIN blocks : Free(s)

Spec == Init /\ [][Next]_blocks

=============================================================================
