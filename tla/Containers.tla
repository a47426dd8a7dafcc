----------------------------- MODULE Containers -----------------------------
(***************************************************************************)
(* The kernel's queue (Kernel/datastructures/queue.c) and array (array.c)  *)
(* down to their nodes and blocks.  The other modules take a queue for a   *)
(* sequence; QueueIsSequence and ArrayIsSequence are what allows it.       *)
(***************************************************************************)
EXTENDS Naturals, Sequences, SequencesExt

CONSTANTS Node, NoNode,    \* addresses of nodes, and the null pointer
          Element,         \* what the containers hold
          BLOCK_SIZE,      \* the array grows by this many elements
          MaxElements      \* bound on the array's size
ASSUME ContainersAssumption == NoNode \notin Node /\ BLOCK_SIZE \in Nat \ {0}

VARIABLES
    head, tail, cyclicIter, elemCount, \* the queue
    data, next,                        \* its nodes
    freeNodes,                         \* memory
    contents,                          \* history: the elements queued, in order
    base, count, dim, iter,            \* the array
    elements                           \* history: the elements added, in order

queueVars == <<head, tail, cyclicIter, elemCount, data, next, freeNodes, contents>>
arrayVars == <<base, count, dim, iter, elements>>

createQueue ==
    /\ head = NoNode /\ tail = NoNode /\ cyclicIter = NoNode /\ elemCount = 0
    /\ data = [n \in Node |-> CHOOSE e \in Element : TRUE]
    /\ next = [n \in Node \cup {NoNode} |-> NoNode]
    /\ freeNodes = Node
    /\ contents = <<>>

\* The i-th node from the head, or NoNode.
At[i \in Nat] == IF i <= 1 THEN head ELSE next[At[i - 1]]
NodeAt(i) == At[i]

\* A new node at the tail; without memory for it the queue is left alone.
enqueue(e) ==
    \E new \in freeNodes :
        /\ freeNodes' = freeNodes \ {new}
        /\ data' = [data EXCEPT ![new] = e]
        /\ next' = [next EXCEPT ![new] = NoNode,
                                ![tail] = IF head = NoNode THEN @ ELSE new]
        /\ head' = IF head = NoNode THEN new ELSE head
        /\ tail' = new
        /\ elemCount' = elemCount + 1
        /\ contents' = Append(contents, e)
        /\ UNCHANGED cyclicIter

dequeue ==
    /\ head # NoNode
    /\ head' = next[head]
    /\ cyclicIter' = IF next[head] = NoNode THEN NoNode
                     ELSE IF cyclicIter = head THEN next[head] ELSE cyclicIter
    /\ tail' = IF next[head] = NoNode THEN NoNode ELSE tail
    /\ freeNodes' = freeNodes \cup {head}
    /\ elemCount' = elemCount - 1
    /\ contents' = Tail(contents)
    /\ UNCHANGED <<data, next>>

\* Mutant: the tail is not corrected.
BadTailWithout(current, prev) == tail
\* The tail once node current, which follows prev, is gone.
TailWithout(current, prev) == IF current = tail THEN prev ELSE tail

\* The first node with the element is unlinked; an iterator on it moves on.
queueRemove(e) ==
    \E k \in 1..elemCount :
        LET current == NodeAt(k)
            prev == IF k = 1 THEN NoNode ELSE NodeAt(k - 1) IN
        /\ data[current] = e /\ \A j \in 1..(k - 1) : data[NodeAt(j)] # e
        /\ head' = IF prev = NoNode THEN next[current] ELSE head
        /\ next' = IF prev = NoNode THEN next ELSE [next EXCEPT ![prev] = next[current]]
        /\ tail' = TailWithout(current, prev)
        /\ cyclicIter' = IF cyclicIter = current THEN next[current] ELSE cyclicIter
        /\ freeNodes' = freeNodes \cup {current}
        /\ elemCount' = elemCount - 1
        /\ contents' = RemoveFirst(contents, e)
        /\ UNCHANGED data

queueFree ==
    /\ head' = NoNode /\ tail' = NoNode /\ cyclicIter' = NoNode /\ elemCount' = 0
    /\ freeNodes' = freeNodes \cup {NodeAt(i) : i \in 1..elemCount}
    /\ contents' = <<>>
    /\ UNCHANGED <<data, next>>

MoveIter(n) ==
    /\ cyclicIter' = n
    /\ UNCHANGED <<head, tail, elemCount, data, next, freeNodes, contents>>

\* The node after n on the iterator's way round.
Round(n) == IF next[n] = NoNode THEN head ELSE next[n]
queueBeginCyclicIter == head # NoNode /\ MoveIter(head)
queueNextCyclicIter == cyclicIter # NoNode /\ MoveIter(Round(cyclicIter))
queuePeek == data[head]

\* A search uses the iterator and leaves it after the element, or at the head.
queueElementExists(e) ==
    \/ \E k \in 1..elemCount :
         /\ data[NodeAt(k)] = e /\ \A j \in 1..(k - 1) : data[NodeAt(j)] # e
         /\ MoveIter(Round(NodeAt(k)))
    \/ head # NoNode /\ (\A k \in 1..elemCount : data[NodeAt(k)] # e) /\ MoveIter(head)

QueueNext ==
    \/ \E e \in Element : enqueue(e) \/ queueRemove(e) \/ queueElementExists(e)
    \/ dequeue \/ queueFree \/ queueBeginCyclicIter \/ queueNextCyclicIter

-----------------------------------------------------------------------------
(* The array.                                                               *)

\* The iterator is not initialised.
createArray ==
    /\ base = [i \in 0..(BLOCK_SIZE - 1) |-> NoNode] /\ dim = BLOCK_SIZE
    /\ count = 0 /\ iter \in 0..MaxElements
    /\ elements = <<>>

\* A full array moves to a larger block first; this fails without memory.
arrayAdd(e) ==
    LET grown == [i \in 0..(dim + BLOCK_SIZE - 1) |-> IF i < dim THEN base[i] ELSE NoNode]
        full == count = dim IN
    /\ count < MaxElements
    /\ \/ /\ base' = [(IF full THEN grown ELSE base) EXCEPT ![count] = e]
          /\ dim' = IF full THEN dim + BLOCK_SIZE ELSE dim
          /\ count' = count + 1 /\ elements' = Append(elements, e)
       \/ full /\ UNCHANGED <<base, dim, count, elements>>
    /\ UNCHANGED iter

setElemByIndex(i, e) ==
    /\ i < count
    /\ base' = [base EXCEPT ![i] = e]
    /\ elements' = [elements EXCEPT ![i + 1] = e]
    /\ UNCHANGED <<count, dim, iter>>

arrayResetSize == count' = 0 /\ elements' = <<>> /\ UNCHANGED <<base, dim, iter>>
arrayBeginIter == iter' = 0 /\ UNCHANGED <<base, count, dim, elements>>
arrayHasNext == iter < count
getElemByIndex(i) == base[i]
arrayGetNext == arrayHasNext /\ iter' = iter + 1 /\ UNCHANGED <<base, count, dim, elements>>

ArrayNext ==
    \/ \E e \in Element : arrayAdd(e) \/ \E i \in 0..(MaxElements - 1) : setElemByIndex(i, e)
    \/ arrayResetSize \/ arrayBeginIter \/ arrayGetNext

ContainersNext ==
    \/ QueueNext /\ UNCHANGED arrayVars
    \/ ArrayNext /\ UNCHANGED queueVars
ContainersSpec == createQueue /\ createArray /\ [][ContainersNext]_<<queueVars, arrayVars>>

-----------------------------------------------------------------------------
(* Properties.                                                              *)

\* Through any sequence of calls the nodes from head to tail hold exactly the
\* elements of the sequence the queue stands for, and elemCount counts them;
\* neither they nor the iterator is ever a freed node.
QueueIsSequence ==
    LET chain == {NodeAt(i) : i \in 1..elemCount} IN
    /\ elemCount = Len(contents)
    /\ \A i \in 1..elemCount : NodeAt(i) # NoNode /\ data[NodeAt(i)] = contents[i]
    /\ elemCount > 0 => queuePeek = Head(contents)
    /\ NodeAt(elemCount + 1) = NoNode
    /\ tail = IF elemCount = 0 THEN NoNode ELSE NodeAt(elemCount)
    /\ cyclicIter \in chain \cup {NoNode}
    /\ chain \cap freeNodes = {} /\ chain \cup freeNodes = Node

\* The array holds the elements added, across its moves to larger blocks.
ArrayIsSequence ==
    /\ count = Len(elements) /\ count <= dim /\ DOMAIN base = 0..(dim - 1)
    /\ \A i \in 0..(count - 1) : getElemByIndex(i) = elements[i + 1]

\* Both containers are the sequences their callers take them for.
ContainersAgree == QueueIsSequence /\ ArrayIsSequence

=============================================================================
