----------------------------- MODULE MCScheduler -----------------------------
(* Small instances of Scheduler for TLC. *)
EXTENDS Scheduler
CONSTANTS idle, init, a, b
\* Bounds the stale entries that set_priority can leave in the queues.
QueueBound == \A l \in Priority : Len(queues[l]) <= 3
MCProc == {idle, init, a, b}
MCProcNice == {idle, init, a}
=============================================================================
