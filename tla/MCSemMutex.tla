----------------------------- MODULE MCSemMutex -----------------------------
(* Small instances of SemMutex for TLC. *)
EXTENDS SemMutex
CONSTANTS p1, p2, p3, mutex
MCProc == {p1, p2, p3}
MCSem == {mutex}
MCInitialValue == [s \in {mutex} |-> 1]
MCInc == [p \in MCProc |-> IF p = p2 THEN 0 - 1 ELSE 1]
=============================================================================
