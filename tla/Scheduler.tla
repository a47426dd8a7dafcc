------------------------------ MODULE Scheduler ------------------------------
(***************************************************************************)
(* The process scheduler of Kernel/scheduler.c: one ready queue per        *)
(* priority level, round robin within a level, and aging, which moves a    *)
(* process that has waited AgingThreshold passes to the highest level.     *)
(*                                                                         *)
(* There is one CPU.  Every gate of the IDT is an interrupt gate, so       *)
(* schedule() (timer interrupt, or int 0x20 issued by the kernel) runs     *)
(* with interrupts off and nothing interleaves with it.  Its loops are     *)
(* still modelled one iteration per step, with the CPU's position in       *)
(* schedule() as state: a loop that never ends is then a behaviour that    *)
(* never leaves schedule().                                                *)
(*                                                                         *)
(* Outside schedule() interrupts are on.  The code between a _cli and its  *)
(* _sti is one step; pc[c] records the place between two such sections at  *)
(* which process c can be interrupted.  unblock_process and block_process  *)
(* test the PCB's state before their _cli (lines 316 and 327): a caller    *)
(* whose interrupts are off (a system call before it first sleeps, the     *)
(* keyboard handler) runs them in one step, any other (semPost and semWait *)
(* after a sleep, process_terminator) can be interrupted after the test.   *)
(* The step that then acts on a process which is no longer BLOCKED is the  *)
(* race that `raced' records.                                              *)
(***************************************************************************)
EXTENDS Integers, Sequences

CONSTANTS Proc,             \* process control blocks
          Idle,             \* idle_proc (PID 0)
          InitProc,         \* the init process (PID 1)
          NoProc,           \* the NULL pointer
          MaxPriority,      \* MAX_PRIORITY; MIN_PRIORITY is 0
          AgingBoost,       \* AGING_BOOST
          AgingThreshold,   \* AGING_THRESHOLD
          DefaultQuantum    \* DEFAULT_QUANTUM

ASSUME ProcAssumption ==
    /\ Idle \in Proc
    /\ InitProc \in Proc
    /\ Idle # InitProc
    /\ NoProc \notin Proc

ASSUME LimitAssumption ==
    /\ MaxPriority \in Nat
    /\ AgingBoost \in Nat \ {0}
    /\ AgingThreshold \in Nat \ {0}
    /\ DefaultQuantum \in Nat \ {0}

VARIABLES
    state,              \* p->state; "FREE" is a PCB that is not allocated
    priority,           \* p->priority
    original_priority,  \* p->original_priority
    quantum_remaining,  \* p->quantum_remaining
    wait_ticks,         \* p->wait_ticks
    queues,             \* process_priority_table
    running_process,    \* running_process
    pc,                 \* where a process is in a kernel call with IF = 1
    tested,             \* the process c's unblock_process found BLOCKED
    raced,              \* history: a process was woken that was not BLOCKED
    cpu,                \* "user", or the part of schedule() being executed
    level,              \* loop variable `priority' of apply_aging
    cyclicIter          \* queues[level]'s cyclic iterator; 0 is NULL

pcbVars   == <<state, priority, original_priority, quantum_remaining, wait_ticks>>
agingVars == <<level, cyclicIter>>
raceVars  == <<tested, raced>>
vars == <<pcbVars, queues, running_process, pc, raceVars, cpu, agingVars>>

Priority == 0..MaxPriority

ProcessState == {"FREE", "READY", "RUNNING", "BLOCKED", "TERMINATED"}

TypeOK ==
    /\ state \in [Proc -> ProcessState]
    /\ priority \in [Proc -> Priority]
    /\ original_priority \in [Proc -> Priority]
    /\ quantum_remaining \in [Proc -> 0..DefaultQuantum]
    /\ wait_ticks \in [Proc -> 0..AgingThreshold-1]
    /\ queues \in [Priority -> Seq(Proc)]
    /\ running_process \in Proc \cup {NoProc}
    /\ pc \in [Proc -> {"user", "force", "reap", "block", "unblock"}]
    /\ tested \in [Proc -> Proc \cup {NoProc}]
    /\ raced \in BOOLEAN
    /\ cpu \in {"user", "aging", "dispatch"}
    /\ level \in Nat
    /\ cyclicIter \in Nat

-----------------------------------------------------------------------------
(* The queue operations the scheduler uses (Kernel/datastructures/queue.c).  *)

\* Elements are compared by PID; two allocated PCBs have different PIDs.
FirstMatch(q, p) ==
    CHOOSE k \in DOMAIN q : q[k] = p /\ \A j \in 1..(k-1) : q[j] # p

InQueue(q, p) == \E k \in DOMAIN q : q[k] = p

CutAt(q, k) == [j \in 1..(Len(q)-1) |-> IF j < k THEN q[j] ELSE q[j+1]]

queueRemove(q, p) == IF InQueue(q, p) THEN CutAt(q, FirstMatch(q, p)) ELSE q

\* Fault: newest first.  (Definitions named Bad... are faulty variants of the
\* definition after them; they show that a property can fail.)
BadEnqueue(q, p) == <<p>> \o q

\* The node comes from mm_alloc.  When that fails enqueue returns NULL, which the
\* caller stores as the level's queue, and the next use of the level panics; memory
\* does not run out in this model.
enqueue(q, p) == Append(q, p)

\* The node queueNextCyclicIter leaves the iterator at.
IterNext(q, k) == IF k = Len(q) THEN 1 ELSE k + 1

\* Where an iterator at node k stands once node r has been unlinked.
IterAfterRemove(q, k, r) ==
    IF k > r THEN k - 1
    ELSE IF k = r /\ r = Len(q) THEN 0
    ELSE k

-----------------------------------------------------------------------------
(* The state at the end of init_scheduler, with interrupts on since         *)
(* load_idt: main() goes on as the idle process and is to create init.      *)

Init ==
    /\ state = [p \in Proc |-> IF p = Idle THEN "RUNNING" ELSE "FREE"]
    /\ priority = [p \in Proc |-> 0]
    /\ original_priority = [p \in Proc |-> 0]
    /\ quantum_remaining = [p \in Proc |-> DefaultQuantum]
    /\ wait_ticks = [p \in Proc |-> 0]
    /\ queues = [l \in Priority |-> <<>>]
    /\ running_process = Idle
    /\ pc = [p \in Proc |-> "user"]
    /\ tested = [p \in Proc |-> NoProc]
    /\ raced = FALSE
    /\ cpu = "user"
    /\ level = 0
    /\ cyclicIter = 0

-----------------------------------------------------------------------------
(* Steps outside schedule().                                                *)

\* c is executing and is not inside one of the calls below.
Executes(c) == cpu = "user" /\ running_process = c /\ pc[c] = "user"

\* The queue table after add_to_scheduler(p), p->priority being k.
Added(p, k) == [queues EXCEPT ![k] = enqueue(@, p)]

\* The queue table after remove_from_all_priority_queues(p).
Removed(p) == [queues EXCEPT ![priority[p]] = queueRemove(@, p)]

\* create_process from its second _cli on: p becomes READY and is enqueued.
\* c then goes on to reap_terminated_processes.  main() creates init (create_init)
\* and nothing else, and has nobody to reap.
create_process(c, p, k) ==
    /\ Executes(c)
    /\ c = Idle <=> p = InitProc
    /\ c = Idle => k = 0
    /\ state[p] = "FREE"
    /\ state' = [state EXCEPT ![p] = "READY"]
    /\ priority' = [priority EXCEPT ![p] = k]
    /\ original_priority' = [original_priority EXCEPT ![p] = k]
    /\ quantum_remaining' = [quantum_remaining EXCEPT ![p] = DefaultQuantum]
    /\ wait_ticks' = [wait_ticks EXCEPT ![p] = 0]
    /\ queues' = Added(p, k)
    /\ pc' = [pc EXCEPT ![c] = IF c = Idle THEN "user" ELSE "reap", ![p] = "user"]
    /\ UNCHANGED <<running_process, cpu, raceVars, agingVars>>

\* The tail of create_process, and the call in wait_child.
reap_terminated_processes(c) ==
    /\ cpu = "user" /\ running_process = c /\ c # Idle
    /\ pc[c] \in {"user", "reap"}
    /\ pc[c] = "user" => \E p \in Proc : state[p] = "TERMINATED"
    /\ state' = [p \in Proc |-> IF state[p] = "TERMINATED" THEN "FREE" ELSE state[p]]
    /\ pc' = [pc EXCEPT ![c] = "user"]
    /\ UNCHANGED <<priority, original_priority, quantum_remaining, wait_ticks,
                   queues, running_process, cpu, raceVars, agingVars>>

\* yield_cpu up to the int 0x20.
yield_cpu(c) ==
    /\ Executes(c) /\ c # Idle
    /\ quantum_remaining' = [quantum_remaining EXCEPT ![c] = 0]
    /\ pc' = [pc EXCEPT ![c] = "force"]
    /\ UNCHANGED <<state, priority, original_priority, wait_ticks, queues,
                   running_process, cpu, raceVars, agingVars>>

\* Fault: the process stays in its queue.
BadBlock(c, p) ==
    /\ Executes(c) /\ c # Idle
    /\ p \notin {Idle, InitProc}
    /\ state[p] \notin {"FREE", "BLOCKED", "TERMINATED"}
    /\ state' = [state EXCEPT ![p] = "BLOCKED"]
    /\ wait_ticks' = [wait_ticks EXCEPT ![p] = 0]
    /\ pc' = IF p = c THEN [pc EXCEPT ![c] = "force"] ELSE pc
    /\ UNCHANGED <<priority, original_priority, quantum_remaining, queues,
                   running_process, cpu, raceVars, agingVars>>

\* Fault: init may be blocked.
BadBlockInit(c, p) ==
    /\ Executes(c) /\ c # Idle
    /\ p # Idle
    /\ state[p] \notin {"FREE", "BLOCKED", "TERMINATED"}
    /\ queues' = Removed(p)
    /\ state' = [state EXCEPT ![p] = "BLOCKED"]
    /\ wait_ticks' = [wait_ticks EXCEPT ![p] = 0]
    /\ pc' = IF p = c THEN [pc EXCEPT ![c] = "force"] ELSE pc
    /\ UNCHANGED <<priority, original_priority, quantum_remaining,
                   running_process, cpu, raceVars, agingVars>>

\* block_process(p) called by c with interrupts off.  If p is c it still has to
\* leave the CPU.
block_process(c, p) ==
    /\ Executes(c) /\ c # Idle
    /\ p \notin {Idle, InitProc}
    /\ state[p] \notin {"FREE", "BLOCKED", "TERMINATED"}
    /\ queues' = Removed(p)
    /\ state' = [state EXCEPT ![p] = "BLOCKED"]
    /\ wait_ticks' = [wait_ticks EXCEPT ![p] = 0]
    /\ pc' = IF p = c THEN [pc EXCEPT ![c] = "force"] ELSE pc
    /\ UNCHANGED <<priority, original_priority, quantum_remaining,
                   running_process, cpu, raceVars, agingVars>>

\* block_process(c) called by c with interrupts on: it is interruptible between
\* the test of its state and the _cli.
block_process_test(c) ==
    /\ Executes(c) /\ c \notin {Idle, InitProc}
    /\ pc' = [pc EXCEPT ![c] = "block"]
    /\ UNCHANGED <<pcbVars, queues, running_process, raceVars, cpu, agingVars>>

block_process_act(c) ==
    /\ cpu = "user" /\ running_process = c /\ pc[c] = "block"
    /\ queues' = Removed(c)
    /\ state' = [state EXCEPT ![c] = "BLOCKED"]
    /\ wait_ticks' = [wait_ticks EXCEPT ![c] = 0]
    /\ pc' = [pc EXCEPT ![c] = "force"]
    /\ UNCHANGED <<priority, original_priority, quantum_remaining,
                   running_process, raceVars, cpu, agingVars>>

\* Fault: the process is not put back into a queue.
BadUnblock(p) ==
    /\ cpu = "user"
    /\ p \notin {Idle, InitProc}
    /\ state[p] = "BLOCKED"
    /\ state' = [state EXCEPT ![p] = "READY"]
    /\ UNCHANGED <<priority, original_priority, quantum_remaining, wait_ticks,
                   queues, running_process, pc, cpu, raceVars, agingVars>>

\* unblock_process(p) with interrupts off: a system call of the running process,
\* or an interrupt handler (the keyboard handler posts to a semaphore).
unblock_process(p) ==
    /\ cpu = "user"
    /\ p \notin {Idle, InitProc}
    /\ state[p] = "BLOCKED"
    /\ state' = [state EXCEPT ![p] = "READY"]
    /\ queues' = Added(p, priority[p])
    /\ UNCHANGED <<priority, original_priority, quantum_remaining, wait_ticks,
                   running_process, pc, cpu, raceVars, agingVars>>

\* unblock_process(p) called by c with interrupts on: the test of p's state.
unblock_process_test(c, p) ==
    /\ Executes(c) /\ c # Idle
    /\ p \notin {c, Idle, InitProc}
    /\ state[p] = "BLOCKED"
    /\ pc' = [pc EXCEPT ![c] = "unblock"]
    /\ tested' = [tested EXCEPT ![c] = p]
    /\ UNCHANGED <<pcbVars, queues, running_process, raced, cpu, agingVars>>

\* From its _cli on: p is made READY and enqueued whatever has become of it.
unblock_process_act(c) ==
    LET p == tested[c] IN
    /\ cpu = "user" /\ running_process = c /\ pc[c] = "unblock"
    /\ state' = [state EXCEPT ![p] = "READY"]
    /\ queues' = Added(p, priority[p])
    /\ raced' = (raced \/ state[p] # "BLOCKED")
    /\ tested' = [tested EXCEPT ![c] = NoProc]
    /\ pc' = [pc EXCEPT ![c] = "user"]
    /\ UNCHANGED <<priority, original_priority, quantum_remaining, wait_ticks,
                   running_process, cpu, agingVars>>

\* set_priority(p, k): the PCB changes, the queues do not.
set_priority(c, p, k) ==
    /\ Executes(c) /\ c # Idle
    /\ state[p] # "FREE"
    /\ priority' = [priority EXCEPT ![p] = k]
    /\ original_priority' = [original_priority EXCEPT ![p] = k]
    /\ quantum_remaining' = [quantum_remaining EXCEPT ![p] = DefaultQuantum]
    /\ UNCHANGED <<state, wait_ticks, queues, running_process, pc, cpu, raceVars, agingVars>>

\* Fault: running_process still points to the terminated process.
BadTerminator(c) ==
    /\ Executes(c) /\ c \notin {Idle, InitProc}
    /\ state' = [state EXCEPT ![c] = "TERMINATED"]
    /\ queues' = Removed(c)
    /\ UNCHANGED <<priority, original_priority, quantum_remaining, wait_ticks,
                   running_process, pc, cpu, raceVars, agingVars>>

\* process_terminator: c leaves the scheduler and waits to be reaped.
process_terminator(c) ==
    /\ Executes(c) /\ c \notin {Idle, InitProc}
    /\ state' = [state EXCEPT ![c] = "TERMINATED"]
    /\ queues' = Removed(c)
    /\ running_process' = NoProc
    /\ UNCHANGED <<priority, original_priority, quantum_remaining, wait_ticks,
                   pc, cpu, raceVars, agingVars>>

\* kill_process(p): p's PCB is freed at once.  The caller is the running
\* process, or the keyboard handler killing the running process (Ctrl+C).
kill_process(p) ==
    /\ cpu = "user"
    /\ p \notin {Idle, InitProc}
    /\ state[p] # "FREE"
    /\ \/ running_process = p
       \/ running_process \in Proc \ {Idle} /\ pc[running_process] = "user"
    /\ state' = [state EXCEPT ![p] = "FREE"]
    /\ queues' = Removed(p)
    /\ running_process' = IF running_process = p THEN NoProc ELSE running_process
    /\ pc' = [pc EXCEPT ![p] = "user"]
    /\ tested' = [tested EXCEPT ![p] = NoProc]
    /\ UNCHANGED <<priority, original_priority, quantum_remaining, wait_ticks,
                   raced, cpu, agingVars>>

-----------------------------------------------------------------------------
(* schedule().                                                              *)

EnterSchedule ==
    /\ cpu = "user"
    /\ cpu' = "aging"
    /\ level' = 0
    /\ cyclicIter' = 1
    /\ UNCHANGED <<pcbVars, queues, running_process, raceVars>>

\* The timer interrupt; also the int 0x20 at the end of main(), and the one that
\* follows once no process owns the CPU (the end of process_terminator and of
\* kill_process on the running process).
TimerTick ==
    /\ EnterSchedule
    /\ UNCHANGED pc

\* _force_scheduler_interrupt
ForceSchedule(c) ==
    /\ running_process = c
    /\ pc[c] = "force"
    /\ EnterSchedule
    /\ pc' = [pc EXCEPT ![c] = "user"]

\* apply_aging visits the node under the iterator of the current level.
Visits(p) ==
    /\ cpu = "aging"
    /\ level <= MaxPriority - AgingBoost
    /\ cyclicIter \in DOMAIN queues[level]
    /\ p = queues[level][cyclicIter]

Ages(p) == state[p] = "READY" /\ p # Idle

\* The loop test of apply_aging with the iterator at node k: at the head, or
\* past the last node, the level is finished.
AgingContinue(k) ==
    IF k \in {0, 1}
    THEN level' = level + 1 /\ cyclicIter' = 1
    ELSE level' = level /\ cyclicIter' = k

\* `continue': the loop test is not evaluated.
AgingSkip(p) ==
    /\ Visits(p) /\ ~Ages(p)
    /\ cyclicIter' = IterNext(queues[level], cyclicIter)
    /\ UNCHANGED <<pcbVars, queues, running_process, pc, raceVars, cpu, level>>

\* Fault: the threshold is compared before the increment.
BadAgingCount(p) ==
    /\ Visits(p) /\ Ages(p)
    /\ wait_ticks[p] < AgingThreshold
    /\ wait_ticks' = [wait_ticks EXCEPT ![p] = @ + 1]
    /\ AgingContinue(IterNext(queues[level], cyclicIter))
    /\ UNCHANGED <<state, priority, original_priority, quantum_remaining,
                   queues, running_process, pc, raceVars, cpu>>

AgingCount(p) ==
    /\ Visits(p) /\ Ages(p)
    /\ wait_ticks[p] + 1 < AgingThreshold
    /\ wait_ticks' = [wait_ticks EXCEPT ![p] = @ + 1]
    /\ AgingContinue(IterNext(queues[level], cyclicIter))
    /\ UNCHANGED <<state, priority, original_priority, quantum_remaining,
                   queues, running_process, pc, raceVars, cpu>>

\* Fault: the waiting time restarts but the process is not moved up.
BadAgingRaise(p) ==
    /\ Visits(p) /\ Ages(p)
    /\ wait_ticks[p] + 1 >= AgingThreshold
    /\ wait_ticks' = [wait_ticks EXCEPT ![p] = 0]
    /\ AgingContinue(IterNext(queues[level], cyclicIter))
    /\ UNCHANGED <<state, priority, original_priority, quantum_remaining,
                   queues, running_process, pc, raceVars, cpu>>

AgingRaise(p) ==
    LET q == queues[level]
        r == FirstMatch(q, p)
    IN  /\ Visits(p) /\ Ages(p)
        /\ wait_ticks[p] + 1 >= AgingThreshold
        /\ priority' = [priority EXCEPT ![p] = MaxPriority]
        /\ queues' = [l \in Priority |->
                        LET q1 == IF l = level THEN CutAt(q, r) ELSE queues[l]
                        IN  IF l = MaxPriority THEN enqueue(q1, p) ELSE q1]
        /\ wait_ticks' = [wait_ticks EXCEPT ![p] = 0]
        /\ AgingContinue(IterAfterRemove(q, IterNext(q, cyclicIter), r))
        /\ UNCHANGED <<state, original_priority, quantum_remaining,
                       running_process, pc, raceVars, cpu>>

\* Fault: an empty level is not left.
BadAgingEmptyLevel ==
    /\ cpu = "aging"
    /\ level <= MaxPriority - AgingBoost
    /\ queues[level] = <<>>
    /\ cyclicIter' = 1
    /\ UNCHANGED <<pcbVars, queues, running_process, pc, raceVars, cpu, level>>

\* The level's queue is empty.
AgingEmptyLevel ==
    /\ cpu = "aging"
    /\ level <= MaxPriority - AgingBoost
    /\ queues[level] = <<>>
    /\ level' = level + 1
    /\ cyclicIter' = 1
    /\ UNCHANGED <<pcbVars, queues, running_process, pc, raceVars, cpu>>

AgingDone ==
    /\ cpu = "aging"
    /\ level > MaxPriority - AgingBoost
    /\ cpu' = "dispatch"
    /\ level' = 0
    /\ cyclicIter' = 0
    /\ UNCHANGED <<pcbVars, queues, running_process, pc, raceVars>>

\* The interrupted process was RUNNING; its quantum has run out.
QuantumLeft == quantum_remaining[running_process] - 1 > 0

Interrupted == running_process # NoProc /\ state[running_process] = "RUNNING"

KeepRunning ==
    /\ cpu = "dispatch"
    /\ Interrupted /\ QuantumLeft
    /\ quantum_remaining' = [quantum_remaining EXCEPT ![running_process] = @ - 1]
    /\ cpu' = "user"
    /\ UNCHANGED <<state, priority, original_priority, wait_ticks, queues,
                   running_process, pc, raceVars, agingVars>>

\* PCB states, queues and quanta after the interrupted process was put back.
StateBack == IF Interrupted THEN [state EXCEPT ![running_process] = "READY"] ELSE state

QueuesBack == IF Interrupted /\ running_process # Idle
              THEN Added(running_process, priority[running_process])
              ELSE queues

QuantumBack == IF Interrupted
               THEN [quantum_remaining EXCEPT ![running_process] = DefaultQuantum]
               ELSE quantum_remaining

Runnable(p) == StateBack[p] = "READY" /\ p # Idle

\* Fault: the levels are searched from the lowest up.
BadFirstRunnable(l, i) ==
    /\ i \in DOMAIN QueuesBack[l]
    /\ Runnable(QueuesBack[l][i])
    /\ \A j \in 1..(i-1) : ~Runnable(QueuesBack[l][j])
    /\ \A m \in 0..(l-1) : \A j \in DOMAIN QueuesBack[m] :
          ~Runnable(QueuesBack[m][j])

\* Node i of level l is the first the search loop of schedule() does not drop.
FirstRunnable(l, i) ==
    /\ i \in DOMAIN QueuesBack[l]
    /\ Runnable(QueuesBack[l][i])
    /\ \A j \in 1..(i-1) : ~Runnable(QueuesBack[l][j])
    /\ \A m \in (l+1)..MaxPriority : \A j \in DOMAIN QueuesBack[m] :
          ~Runnable(QueuesBack[m][j])

\* Fault: reset_aging is not called for the process chosen.
BadSwitchTo(l, i) ==
    LET next == QueuesBack[l][i] IN
    /\ cpu = "dispatch"
    /\ ~(Interrupted /\ QuantumLeft)
    /\ FirstRunnable(l, i)
    /\ queues' = [m \in Priority |->
                    CASE m > l -> <<>>
                      [] m = l -> SubSeq(QueuesBack[m], i+1, Len(QueuesBack[m]))
                      [] m < l -> QueuesBack[m]]
    /\ state' = [StateBack EXCEPT ![next] = "RUNNING"]
    /\ quantum_remaining' = [QuantumBack EXCEPT ![next] = DefaultQuantum]
    /\ running_process' = next
    /\ cpu' = "user"
    /\ UNCHANGED <<wait_ticks, priority, original_priority, pc, raceVars, agingVars>>

SwitchTo(l, i) ==
    LET next == QueuesBack[l][i] IN
    /\ cpu = "dispatch"
    /\ ~(Interrupted /\ QuantumLeft)
    /\ FirstRunnable(l, i)
    /\ queues' = [m \in Priority |->
                    CASE m > l -> <<>>
                      [] m = l -> SubSeq(QueuesBack[m], i+1, Len(QueuesBack[m]))
                      [] m < l -> QueuesBack[m]]
    /\ state' = [StateBack EXCEPT ![next] = "RUNNING"]
    /\ quantum_remaining' = [QuantumBack EXCEPT ![next] = DefaultQuantum]
    /\ wait_ticks' = [wait_ticks EXCEPT ![next] = 0]
    /\ running_process' = next
    /\ cpu' = "user"
    /\ UNCHANGED <<priority, original_priority, pc, raceVars, agingVars>>

SwitchToIdle ==
    /\ cpu = "dispatch"
    /\ ~(Interrupted /\ QuantumLeft)
    /\ \A m \in Priority : \A j \in DOMAIN QueuesBack[m] : ~Runnable(QueuesBack[m][j])
    /\ queues' = [m \in Priority |-> <<>>]
    /\ state' = [StateBack EXCEPT ![Idle] = "RUNNING"]
    /\ quantum_remaining' = QuantumBack
    /\ running_process' = Idle
    /\ cpu' = "user"
    /\ UNCHANGED <<priority, original_priority, wait_ticks, pc, raceVars, agingVars>>

Dispatch ==
    \/ KeepRunning
    \/ \E l \in Priority : \E i \in DOMAIN QueuesBack[l] : SwitchTo(l, i)
    \/ SwitchToIdle

Aging ==
    \/ \E p \in Proc : AgingSkip(p) \/ AgingCount(p) \/ AgingRaise(p)
    \/ AgingEmptyLevel
    \/ AgingDone

-----------------------------------------------------------------------------
(* Specifications.  NextNice is what the code does: set_priority changes    *)
(* every process.  Next lets it change any process that is not in a queue   *)
(* (itself, a blocked process), and follows the program up to the first     *)
(* race: the properties of Spec hold until then, and nothing is said of     *)
(* what a PCB queued twice, or freed and queued, does afterwards.           *)

KernelCall(c) ==
    \/ \E p \in Proc, k \in Priority : create_process(c, p, k)
    \/ reap_terminated_processes(c)
    \/ yield_cpu(c)
    \/ \E p \in Proc : block_process(c, p) \/ unblock_process_test(c, p)
    \/ block_process_test(c)
    \/ block_process_act(c)
    \/ unblock_process_act(c)
    \/ process_terminator(c)
    \/ ForceSchedule(c)

Step ==
    \/ \E c \in Proc : KernelCall(c)
    \/ \E p \in Proc : unblock_process(p) \/ kill_process(p)
    \/ TimerTick
    \/ Aging
    \/ Dispatch

NextCalm ==
    /\ ~raced
    /\ \/ Step
       \/ \E c, p \in Proc, k \in Priority : state[p] # "READY" /\ set_priority(c, p, k)

AfterRace == raced /\ UNCHANGED vars

Next == NextCalm \/ AfterRace

NextNice ==
    \/ Step
    \/ \E c, p \in Proc, k \in Priority : set_priority(c, p, k)

\* The timer keeps interrupting, and the CPU keeps executing schedule().
Fairness ==
    /\ WF_vars(~raced /\ TimerTick)
    /\ WF_vars(~raced /\ Aging)
    /\ WF_vars(~raced /\ Dispatch)

FairnessNice == WF_vars(TimerTick) /\ WF_vars(Aging) /\ WF_vars(Dispatch)

Spec     == Init /\ [][Next]_vars /\ Fairness
SpecNice == Init /\ [][NextNice]_vars /\ FairnessNice

-----------------------------------------------------------------------------
(* Properties.                                                              *)

\* Every process in a queue is READY and sits in the queue of its priority.
QueuedIsReady ==
    \A l \in Priority : \A i \in DOMAIN queues[l] :
        /\ queues[l][i] # Idle
        /\ state[queues[l][i]] = "READY"
        /\ priority[queues[l][i]] = l

\* No process stands twice in a queue.
QueuedOnce ==
    \A l \in Priority : \A i, j \in DOMAIN queues[l] :
        queues[l][i] = queues[l][j] => i = j

\* Every READY process can be found by the dispatcher.
ReadyIsQueued ==
    \A p \in Proc \ {Idle} :
        state[p] = "READY" => InQueue(queues[priority[p]], p)

\* A READY process is in some queue, so the dispatcher can still reach it, even
\* when set_priority has moved its PCB to another level (add_to_scheduler).
ReadyIsReachable ==
    \A p \in Proc \ {Idle} :
        state[p] = "READY" => \E l \in Priority : InQueue(queues[l], p)

QueueTidy == QueuedIsReady /\ QueuedOnce /\ ReadyIsQueued

\* The ready queues hold exactly the READY processes, each once and at its own
\* priority: blocking, waking, exiting, being killed, aging and being preempted
\* in any order, with callers interrupted between unblock_process's test and its
\* _cli, neither lose a process nor leave a stale entry behind, unless such a
\* caller wakes a process that has been woken or killed since its test
\* (add_to_scheduler, remove_from_all_priority_queues, schedule).
QueueDiscipline == raced \/ QueueTidy

\* Whoever is RUNNING owns the CPU; the owner is alive, and it is not RUNNING
\* only between blocking itself and its int 0x20 (block_process line 335-339),
\* where an interrupt may already have made it READY again.  The idle process
\* is always there to take over.
CpuOwnership ==
    /\ state[Idle] \in {"READY", "RUNNING"}
    /\ \A p \in Proc : state[p] = "RUNNING" => running_process = p
    /\ running_process \in Proc =>
         \/ state[running_process] = "RUNNING"
         \/ /\ state[running_process] \in {"READY", "BLOCKED"}
            /\ running_process # Idle
            /\ pc[running_process] = "force" \/ cpu # "user"

\* Only waiting in a ready queue accumulates waiting time: a process that runs
\* or is blocked starts again from zero, and the idle process never ages
\* (apply_aging, reset_aging).
WaitTicksOnlyWhileReady ==
    \A p \in Proc : p = Idle \/ state[p] \in {"RUNNING", "BLOCKED"} => wait_ticks[p] = 0

\* schedule() is work-conserving and honours priorities: when it gives the CPU
\* away, no process of higher priority than the chosen one is READY, and the
\* idle process is chosen only when nobody is READY.
DispatchesHighest ==
    [][cpu = "dispatch" /\ ~(Interrupted /\ QuantumLeft) =>
         /\ running_process' \in Proc
         /\ \A p \in Proc \ {Idle} : state'[p] = "READY" =>
              running_process' # Idle /\ priority[p] <= priority[running_process']]_vars

\* The idle process's saved context is main() after its last int 0x20, where the
\* code is unreachable (kernel.c line 120): once main() has been switched away
\* from it is never resumed, because init, which cannot be blocked or killed, is
\* always there to run instead.
MainNeverResumes == [][running_process # Idle => running_process' # Idle]_vars

\* Within a level the order of arrival is kept: a process is overtaken neither by
\* one that stood behind it nor by one that enters the queue after it, whatever is
\* removed from the middle (enqueue, dequeue, queueRemove, apply_aging).
NoOvertaking ==
    [][\A l \in Priority : \A x, y \in Proc :
         /\ x # y
         /\ InQueue(queues[l], x) /\ InQueue(queues'[l], x) /\ InQueue(queues'[l], y)
         /\ InQueue(queues[l], y) => FirstMatch(queues[l], x) < FirstMatch(queues[l], y)
         => FirstMatch(queues'[l], x) < FirstMatch(queues'[l], y)]_vars

\* Aging defeats starvation: a READY process eventually runs, unless it is
\* blocked or killed meanwhile (apply_aging together with round robin), or the
\* race of unblock_process happens.
NoStarvation ==
    \A p \in Proc \ {Idle} : state[p] = "READY" ~> state[p] # "READY" \/ raced

\* schedule() always returns to some process (scheduler.h: "Picks the next
\* READY process ... Marks it RUNNING and returns its saved RSP").
ScheduleReturns == cpu = "aging" ~> cpu = "user"

=============================================================================
