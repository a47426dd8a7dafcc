------------------------------ MODULE Semaphore ------------------------------
(***************************************************************************)
(* semWait and semPost of Kernel/sem.c on one CPU with a timer.            *)
(*                                                                         *)
(* A system call enters the kernel with interrupts off, so it runs         *)
(* undisturbed until it turns them on; block_process and unblock_process   *)
(* do (their _sti does not restore the flag, it sets it).  A process in    *)
(* KernelProc calls the semaphores from kernel code that has interrupts on *)
(* already: create_process, wait_child after it has slept, the loops of    *)
(* getKeyboardCharacter and writePipe.  The locks are spin locks: with     *)
(* interrupts off nobody can release the one a process spins on.           *)
(*                                                                         *)
(* The scheduler is abstracted to: any READY process may be next.          *)
(***************************************************************************)
EXTENDS Naturals, Sequences

CONSTANTS Proc,          \* processes, none of them init
          KernelProc,    \* those that call with interrupts on
          Sem,           \* open semaphores
          InitialValue,  \* the value semOpen gave each
          Idle, None

ASSUME ConstantAssumption ==
    /\ KernelProc \subseteq Proc
    /\ InitialValue \in [Sem -> Nat]
    /\ Idle \notin Proc
    /\ None \notin Proc \cup Sem

VARIABLES
    state,           \* p->state
    running_process, \* running_process
    intr,            \* the interrupt flag (IF) of each process's context
    pc,              \* where each process is in semWait or semPost
    op,              \* the call each process is in: "wait" or "post"
    target,          \* its parameter target_semaphore
    unblocked_pid,   \* semPost's local variable
    value,           \* s->value
    blockedProcesses,\* s->blockedProcesses
    lock,            \* s->lock: the process that set it, or None
    registry_lock    \* global_semaphore_registry->lock, likewise

procVars == <<state, running_process, intr>>
callVars == <<pc, op, target, unblocked_pid>>
semVars  == <<value, blockedProcesses, lock, registry_lock>>
vars == <<procVars, callVars, semVars>>

Label == {"user", "registry", "lookup", "acquire", "decide", "enqueued",
          "block", "force", "reforce", "wake", "release"}

TypeOK ==
    /\ state \in [Proc -> {"READY", "RUNNING", "BLOCKED", "TERMINATED"}]
    /\ running_process \in Proc \cup {Idle}
    /\ intr \in [Proc -> BOOLEAN]
    /\ pc \in [Proc -> Label]
    /\ op \in [Proc -> {"wait", "post"}]
    /\ target \in [Proc -> Sem \cup {None}]
    /\ unblocked_pid \in [Proc -> Proc \cup {None}]
    /\ value \in [Sem -> Nat]
    /\ blockedProcesses \in [Sem -> Seq(Proc)]
    /\ lock \in [Sem -> Proc \cup {None}]
    /\ registry_lock \in Proc \cup {None}

Init ==
    /\ state = [p \in Proc |-> "READY"]
    /\ running_process = Idle
    /\ intr = [p \in Proc |-> TRUE]
    /\ pc = [p \in Proc |-> "user"]
    /\ op = [p \in Proc |-> "wait"]
    /\ target = [p \in Proc |-> None]
    /\ unblocked_pid = [p \in Proc |-> None]
    /\ value = InitialValue
    /\ blockedProcesses = [s \in Sem |-> <<>>]
    /\ lock = [s \in Sem |-> None]
    /\ registry_lock = None

-----------------------------------------------------------------------------
(* The CPU.                                                                 *)

At(p, l) == running_process = p /\ pc[p] = l

Goto(p, l) == pc' = [pc EXCEPT ![p] = l]

\* schedule(), called with the process states st: a RUNNING process goes back
\* to READY, and some READY process runs next.
Schedule(st) ==
    LET back == [p \in Proc |-> IF st[p] = "RUNNING" THEN "READY" ELSE st[p]]
    IN  \/ \E q \in Proc :
             /\ back[q] = "READY"
             /\ state' = [back EXCEPT ![q] = "RUNNING"]
             /\ running_process' = q
        \/ /\ \A q \in Proc : back[q] # "READY"
           /\ state' = back
           /\ running_process' = Idle

\* The timer interrupt.
TimerTick ==
    /\ running_process \in Proc => intr[running_process]
    /\ Schedule(state)
    /\ UNCHANGED <<intr, callVars, semVars>>

-----------------------------------------------------------------------------
(* Entering semWait or semPost, and the part they share.                    *)

Call(p, o, s) ==
    /\ At(p, "user")
    /\ op' = [op EXCEPT ![p] = o]
    /\ target' = [target EXCEPT ![p] = s]
    /\ intr' = [intr EXCEPT ![p] = p \in KernelProc]
    /\ Goto(p, "registry")
    /\ UNCHANGED <<state, running_process, unblocked_pid, semVars>>

\* is_semaphore_valid takes the registry's lock (or spins) and drops it.
LockRegistry(p) ==
    /\ At(p, "registry")
    /\ registry_lock = None
    /\ registry_lock' = p
    /\ Goto(p, "lookup")
    /\ UNCHANGED <<procVars, op, target, unblocked_pid, value, blockedProcesses, lock>>

UnlockRegistry(p) ==
    /\ At(p, "lookup")
    /\ registry_lock' = None
    /\ Goto(p, "acquire")
    /\ UNCHANGED <<procVars, op, target, unblocked_pid, value, blockedProcesses, lock>>

\* semLock(&target_semaphore->lock), or one more turn of its loop.
semLock(p) ==
    /\ At(p, "acquire")
    /\ lock[target[p]] = None
    /\ lock' = [lock EXCEPT ![target[p]] = p]
    /\ Goto(p, "decide")
    /\ UNCHANGED <<procVars, op, target, unblocked_pid, value, blockedProcesses, registry_lock>>

Spin(p) ==
    /\ \/ At(p, "registry") /\ registry_lock # None
       \/ At(p, "acquire") /\ lock[target[p]] # None
    /\ UNCHANGED vars

\* The last semUnlock; the system call returns with interrupts on.
semUnlock(p) ==
    /\ At(p, "release")
    /\ lock' = [lock EXCEPT ![target[p]] = None]
    /\ intr' = [intr EXCEPT ![p] = TRUE]
    /\ Goto(p, "user")
    /\ UNCHANGED <<state, running_process, op, target, unblocked_pid, value,
                   blockedProcesses, registry_lock>>

-----------------------------------------------------------------------------
(* semWait.                                                                 *)

\* Faulty variants (named Bad...) show that the properties can fail.
\* Fault: the value is not decremented.
BadTake(p) ==
    /\ At(p, "decide") /\ op[p] = "wait"
    /\ value[target[p]] # 0
    /\ Goto(p, "release")
    /\ UNCHANGED <<procVars, op, target, unblocked_pid, value, blockedProcesses, lock, registry_lock>>

semWait_take(p) ==
    /\ At(p, "decide") /\ op[p] = "wait"
    /\ value[target[p]] # 0
    /\ value' = [value EXCEPT ![target[p]] = @ - 1]
    /\ Goto(p, "release")
    /\ UNCHANGED <<procVars, op, target, unblocked_pid, blockedProcesses, lock, registry_lock>>

\* Fault: last in, first out.
BadEnqueue(p) ==
    /\ At(p, "decide") /\ op[p] = "wait"
    /\ value[target[p]] = 0
    /\ blockedProcesses' = [blockedProcesses EXCEPT ![target[p]] = <<p>> \o @]
    /\ Goto(p, "enqueued")
    /\ UNCHANGED <<procVars, op, target, unblocked_pid, value, lock, registry_lock>>

\* Memory for the node is there; without it semWait returns -1 and does not wait
\* (lines 214-217).
semWait_enqueue(p) ==
    /\ At(p, "decide") /\ op[p] = "wait"
    /\ value[target[p]] = 0
    /\ blockedProcesses' = [blockedProcesses EXCEPT ![target[p]] = Append(@, p)]
    /\ Goto(p, "enqueued")
    /\ UNCHANGED <<procVars, op, target, unblocked_pid, value, lock, registry_lock>>

semWait_unlock(p) ==
    /\ At(p, "enqueued")
    /\ lock' = [lock EXCEPT ![target[p]] = None]
    /\ Goto(p, "block")
    /\ UNCHANGED <<procVars, op, target, unblocked_pid, value, blockedProcesses, registry_lock>>

block_process(p) ==
    /\ At(p, "block")
    /\ state' = [state EXCEPT ![p] = "BLOCKED"]
    /\ intr' = [intr EXCEPT ![p] = TRUE]
    /\ Goto(p, "force")
    /\ UNCHANGED <<running_process, op, target, unblocked_pid, semVars>>

\* The int 0x20 of block_process, and the second one of semWait.
ForceSchedule(p) ==
    /\ At(p, "force") \/ At(p, "reforce")
    /\ Goto(p, IF pc[p] = "force" THEN "reforce" ELSE "user")
    /\ Schedule(state)
    /\ UNCHANGED <<intr, op, target, unblocked_pid, semVars>>

-----------------------------------------------------------------------------
(* semPost.                                                                 *)

\* value is a uint16_t.
semPost_increment(p) ==
    /\ At(p, "decide") /\ op[p] = "post"
    /\ blockedProcesses[target[p]] = <<>>
    /\ value' = [value EXCEPT ![target[p]] = (@ + 1) % 65536]
    /\ Goto(p, "release")
    /\ UNCHANGED <<procVars, op, target, unblocked_pid, blockedProcesses, lock, registry_lock>>

\* Fault: the value grows although a waiter gets the token.
BadDequeueAndCount(p) ==
    /\ At(p, "decide") /\ op[p] = "post"
    /\ blockedProcesses[target[p]] # <<>>
    /\ unblocked_pid' = [unblocked_pid EXCEPT ![p] = Head(blockedProcesses[target[p]])]
    /\ blockedProcesses' = [blockedProcesses EXCEPT ![target[p]] = Tail(@)]
    /\ value' = [value EXCEPT ![target[p]] = @ + 1]
    /\ Goto(p, "wake")
    /\ UNCHANGED <<procVars, op, target, lock, registry_lock>>

\* Fault: the waiter taken out of the queue is not woken.
BadDequeueOnly(p) ==
    /\ At(p, "decide") /\ op[p] = "post"
    /\ blockedProcesses[target[p]] # <<>>
    /\ blockedProcesses' = [blockedProcesses EXCEPT ![target[p]] = Tail(@)]
    /\ Goto(p, "release")
    /\ UNCHANGED <<procVars, op, target, unblocked_pid, value, lock, registry_lock>>

semPost_dequeue(p) ==
    /\ At(p, "decide") /\ op[p] = "post"
    /\ blockedProcesses[target[p]] # <<>>
    /\ unblocked_pid' = [unblocked_pid EXCEPT ![p] = Head(blockedProcesses[target[p]])]
    /\ blockedProcesses' = [blockedProcesses EXCEPT ![target[p]] = Tail(@)]
    /\ Goto(p, "wake")
    /\ UNCHANGED <<procVars, op, target, value, lock, registry_lock>>

\* unblock_process does nothing unless the process is BLOCKED; otherwise it
\* turns interrupts on while the semaphore is still locked.
unblock_process(p) ==
    LET q == unblocked_pid[p] IN
    /\ At(p, "wake")
    /\ IF state[q] = "BLOCKED"
       THEN /\ state' = [state EXCEPT ![q] = "READY"]
            /\ intr' = [intr EXCEPT ![p] = TRUE]
       ELSE UNCHANGED <<state, intr>>
    /\ unblocked_pid' = [unblocked_pid EXCEPT ![p] = None]
    /\ Goto(p, "release")
    /\ UNCHANGED <<running_process, op, target, semVars>>

\* The steps of a process inside semWait or semPost.
SemStep(p) ==
    \/ LockRegistry(p) \/ UnlockRegistry(p) \/ semLock(p) \/ semUnlock(p)
    \/ semWait_take(p) \/ semWait_enqueue(p) \/ semWait_unlock(p)
    \/ block_process(p) \/ ForceSchedule(p)
    \/ semPost_increment(p) \/ semPost_dequeue(p) \/ unblock_process(p)

=============================================================================
