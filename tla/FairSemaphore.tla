---------------------------- MODULE FairSemaphore ----------------------------
(***************************************************************************)
(* What the kernel's semaphores promise: a wait either takes a token or    *)
(* joins a first-in first-out line, and a post either hands a token to the *)
(* head of the line or leaves it in the semaphore.  Waiting and posting    *)
(* are atomic here; Semaphore.tla shows that the code implements this.     *)
(***************************************************************************)
EXTENDS Naturals, Sequences

CONSTANTS Proc, Sem, InitialValue

VARIABLES value,    \* tokens nobody holds
          line      \* the processes waiting, in the order of their waits

vars == <<value, line>>

Init == value = InitialValue /\ line = [s \in Sem |-> <<>>]

\* A wait that returns at once, and one that has to stand in line.
Take(s) ==
    /\ value[s] > 0
    /\ value' = [value EXCEPT ![s] = @ - 1]
    /\ UNCHANGED line

Queue(p, s) ==
    /\ value[s] = 0
    /\ \A t \in Sem : \A i \in DOMAIN line[t] : line[t][i] # p
    /\ line' = [line EXCEPT ![s] = Append(@, p)]
    /\ UNCHANGED value

\* A post with nobody in line, and one that serves the first in line.
Leave(s) ==
    /\ line[s] = <<>>
    /\ value' = [value EXCEPT ![s] = @ + 1]
    /\ UNCHANGED line

Serve(s) ==
    /\ line[s] # <<>>
    /\ line' = [line EXCEPT ![s] = Tail(@)]
    /\ UNCHANGED value

Next == \E s \in Sem : \/ Take(s) \/ Leave(s) \/ Serve(s)
                       \/ \E p \in Proc : Queue(p, s)

Spec == Init /\ [][Next]_vars

=============================================================================
