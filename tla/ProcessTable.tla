---------------------------- MODULE ProcessTable ----------------------------
(***************************************************************************)
(* The process table and the life of a process (Kernel/process.c): its     *)
(* creation, the wait for it, its end by return, kill or Ctrl+C, the       *)
(* adoption of its children, and init's watch over the shell (kernel.c).   *)
(*                                                                         *)
(* A step is a stretch of code that runs with interrupts off, or that      *)
(* touches nothing others see; between two steps of a process any other    *)
(* may run.  The loops over the table and over a list of children          *)
(* (reparent_children, reap_terminated_processes, the end of wait_child)   *)
(* run with interrupts on in the code and are taken as one step each.      *)
(* The address of a PCB (Pcb) is given out again after it is freed, and so *)
(* is a PID.  Pipes are the subject of Pipeline.tla.                       *)
(*                                                                         *)
(* The kernel relies on rules of use that it does not enforce: creations   *)
(* do not overlap, nobody kills or blocks a process that is still being    *)
(* created or blocks one inside the kernel, a process another one waits    *)
(* for is only killed by Ctrl+C, and the PCB of a process that ends before *)
(* the call that created it has returned is not given out again before it  *)
(* has (sys_create_process reads the PID from it).  No action forbids what *)
(* the code allows: a step that breaks a rule sets the history variable    *)
(* reckless, and the properties say what holds until then.  Behaviours are *)
(* followed beyond that step only if Reckless is TRUE.                     *)
(*                                                                         *)
(* The calls on one semaphore that follow each other in process_terminator *)
(* (semOpen, semPost, semClose, lines 580-590, with interrupts on) are one *)
(* step: before and after the post only the count of users differs.        *)
(***************************************************************************)
EXTENDS SemTable, FiniteSets, Integers

CONSTANTS MAX_PROCESSES, MAX_CHILDREN,
          Pcb,         \* addresses of PCBs: what memory can hold
          MaxCreated,  \* bound on the number of calls to create_process
          IdlePcb, InitPcb,
          Reckless,    \* whether behaviours go on after a rule was broken
          NULL

ASSUME TableAssumption ==
    /\ MAX_PROCESSES \in Nat /\ MAX_PROCESSES >= 3
    /\ MAX_CHILDREN \in Nat /\ MaxCreated \in Nat
    /\ {IdlePcb, InitPcb} \subseteq Pcb /\ IdlePcb # InitPcb
    /\ IsFiniteSet(Pcb) /\ NULL \notin Pcb \cup Nat
    /\ Reckless \in BOOLEAN

Pid == 0..(MAX_PROCESSES - 1)
INIT_PID == 1

VARIABLES
    process_table, \* process_table[pid]
    proc,          \* the PCBs; state NONE is free memory, NEW not yet in use
    scheduled,     \* the processes known to the scheduler
    sems,          \* the semaphores wait_<pid>
    asleep,        \* the PIDs of BLOCKED processes
    shell_proc,    \* init's idea of the shell
    pc, arg,       \* each process's place in a kernel routine, and its operand
    created,       \* calls to create_process so far
    reused,        \* history: PIDs that have had more than one process
    disowned,      \* history: processes their parent no longer lists
    reckless       \* history: a rule of use was broken

vars == <<process_table, proc, scheduled, sems, asleep, shell_proc, pc, arg,
          created, reused, disowned, reckless>>

\* Memory never used; what create_process starts from (child_count is read as 0).
NoProcess == [pid |-> 0, ppid |-> 0, state |-> "NONE", children |-> <<>>,
              foreground |-> FALSE, program |-> "command"]

TypeOK ==
    /\ process_table \in [Pid -> Pcb \cup {NULL}]
    /\ \A p \in Pcb :
         /\ proc[p].pid \in Pid /\ proc[p].ppid \in Pid
         /\ proc[p].state \in {"NONE", "NEW", "READY", "TERMINATED"}
         /\ Len(proc[p].children) <= MAX_CHILDREN
    /\ scheduled \subseteq Pcb
    /\ sems \in [Pid -> SemRecord(Pid)]
    /\ asleep \subseteq Pid
    /\ shell_proc \in Pcb \cup {NULL}
    /\ \A p \in Pcb : pc[p] # "user" => arg[p] # NULL
    /\ created \in 0..MaxCreated /\ reused \subseteq Pid /\ disowned \subseteq Pcb
    /\ reckless \in BOOLEAN

\* After main() has created the idle process and init.
Init ==
    /\ proc = [p \in Pcb |->
                 IF p = IdlePcb THEN [NoProcess EXCEPT !.state = "READY", !.program = "idle"]
                 ELSE IF p = InitPcb THEN [NoProcess EXCEPT !.pid = INIT_PID,
                                             !.state = "READY", !.program = "init"]
                 ELSE NoProcess]
    /\ process_table = [i \in Pid |-> CASE i = 0 -> IdlePcb [] i = INIT_PID -> InitPcb
                                        [] OTHER -> NULL]
    /\ scheduled = {InitPcb}
    /\ sems = [initSemQueue(Pid) EXCEPT ![INIT_PID].users = 1]
    /\ asleep = {}
    /\ shell_proc = NULL
    /\ pc = [p \in Pcb |-> "user"] /\ arg = [p \in Pcb |-> NULL]
    /\ created = 0 /\ reused = {} /\ disowned = {} /\ reckless = FALSE

Runs(p) == p \in scheduled /\ proc[p].state = "READY" /\ proc[p].pid \notin asleep
Goto(p, l, q) == pc' = [pc EXCEPT ![p] = l] /\ arg' = [arg EXCEPT ![p] = q]

Sems == [sems |-> sems, asleep |-> asleep]
SetSems(k) == sems' = k.sems /\ asleep' = k.asleep

\* A step that keeps to a rule of use, or breaks it.
Rule(kept) == reckless' = (reckless \/ ~kept)

-----------------------------------------------------------------------------
(* create_process, called by p.                                             *)

\* The slots assign_pid would give out, and the first of them.
FreeSlots == {i \in Pid : \/ process_table[i] = NULL
                          \/ proc[process_table[i]].state = "TERMINATED"}
assign_pid == CHOOSE i \in FreeSlots : \A j \in FreeSlots : i <= j

\* Freed memory keeps what it held until it is given out again; this much of it
\* may still be read.
Freed(q) == [NoProcess EXCEPT !.pid = proc[q].pid, !.foreground = proc[q].foreground]
FreeMemory == {q \in Pcb : proc[q].state = "NONE"}
mm_alloc == CHOOSE q \in FreeMemory : TRUE

\* Who is between choosing a PID and filling its slot, and who is being created.
Creating == {p \in Pcb : pc[p] \in {"assigned", "linked"}}
Unborn == {arg[p] : p \in {r \in Pcb : pc[r] \in {"assigned", "linked", "inserted",
                                                   "scheduled", "assign"}}}

create_process_pid(p, program, foreground) ==
    /\ FreeMemory # {} /\ FreeSlots # {}
    /\ created < MaxCreated /\ created' = created + 1
    /\ Rule(Creating = {} /\ mm_alloc \notin Unborn)
    /\ LET q == mm_alloc IN
         /\ proc' = [proc EXCEPT ![q] = [NoProcess EXCEPT !.pid = assign_pid, !.state = "NEW",
                                           !.foreground = foreground, !.program = program]]
         /\ Goto(p, "assigned", q)
         /\ disowned' = disowned \ {q}
    /\ UNCHANGED <<process_table, scheduled, sems, asleep, shell_proc, reused>>

\* The parent lists the child if there is room.
HasRoom(p) == Len(proc[p].children) < MAX_CHILDREN
create_process_link(p) ==
    LET q == arg[p]
        room == HasRoom(p) IN
    /\ Runs(p) /\ pc[p] = "assigned"
    /\ proc' = [proc EXCEPT ![q].ppid = proc[p].pid,
                            ![q].state = "READY",
                            ![p].children = IF room THEN Append(@, proc[q].pid) ELSE @]
    /\ disowned' = IF room THEN disowned ELSE disowned \cup {q}
    /\ Goto(p, "linked", q)
    /\ UNCHANGED <<process_table, scheduled, sems, asleep, shell_proc, created, reused, reckless>>

\* No memory for argv: the PCB is freed, the parent's list keeps the PID.
create_process_fail(p) ==
    /\ Runs(p) /\ pc[p] = "linked"
    /\ FreeMemory = {}
    /\ proc' = [proc EXCEPT ![arg[p]] = Freed(arg[p])]
    /\ shell_proc' = IF proc[p].program = "init" THEN NULL ELSE shell_proc
    /\ Goto(p, "user", NULL)
    /\ UNCHANGED <<process_table, scheduled, sems, asleep, created, reused, disowned, reckless>>

create_process_insert(p) ==
    LET q == arg[p]
        pid == proc[q].pid IN
    /\ Runs(p) /\ pc[p] = "linked"
    /\ process_table' = [process_table EXCEPT ![pid] = q]
    /\ reused' = IF is_semaphore_valid(Sems, pid) THEN reused \cup {pid} ELSE reused
    /\ SetSems(semOpen(Sems, pid, 0))
    /\ Goto(p, "inserted", q)
    /\ UNCHANGED <<proc, scheduled, shell_proc, created, disowned, reckless>>

\* add_to_scheduler makes the process READY, whatever it was.
create_process_schedule(p) ==
    /\ Runs(p) /\ pc[p] = "inserted"
    /\ proc' = [proc EXCEPT ![arg[p]].state = "READY"]
    /\ scheduled' = scheduled \cup {arg[p]}
    /\ Goto(p, "scheduled", arg[p])
    /\ UNCHANGED <<process_table, sems, asleep, shell_proc, created, reused, disowned, reckless>>

\* What reap_terminated_processes frees.
Dead == {i \in Pid : process_table[i] # NULL /\ proc[process_table[i]].state = "TERMINATED"}
Reaped(ps) == [q \in Pcb |-> IF \E i \in Dead : process_table[i] = q
                             THEN Freed(q) ELSE ps[q]]
\* Mutant: the memory is freed and the slot keeps its pointer.
BadReap(ps) == proc' = Reaped(ps) /\ UNCHANGED process_table
reap_terminated_processes(ps) ==
    /\ proc' = Reaped(ps)
    /\ process_table' = [i \in Pid |-> IF i \in Dead THEN NULL ELSE process_table[i]]

\* The last line of create_process.  The shell waits for a foreground command
\* and not for a background one; the test programs may wait for any child.
create_process_reap(p) ==
    LET q == arg[p] IN
    /\ Runs(p) /\ pc[p] = "scheduled"
    /\ reap_terminated_processes(proc)
    /\ \/ proc[p].program = "init" /\ Goto(p, "assign", q)
       \/ proc[p].program = "shell" /\ proc[q].foreground /\ Goto(p, "created", proc[q].pid)
       \/ proc[p].program = "shell" /\ ~proc[q].foreground /\ Goto(p, "user", NULL)
       \/ proc[p].program = "command" /\ \/ Goto(p, "created", proc[q].pid)
                                         \/ Goto(p, "user", NULL)
    /\ UNCHANGED <<scheduled, sems, asleep, shell_proc, created, reused, disowned, reckless>>

-----------------------------------------------------------------------------
(* wait_child, called by p for the process with this PID.                   *)

wait_child(p) ==
    LET c == arg[p] IN
    /\ Runs(p) /\ pc[p] = "created"
    /\ IF process_table[c] = NULL
       THEN Goto(p, "user", NULL) /\ UNCHANGED <<sems, asleep>>
       ELSE Goto(p, "waiting", c)
            /\ SetSems(semWait(semOpen(Sems, c, 0), c, proc[p].pid))
    /\ UNCHANGED <<process_table, proc, scheduled, shell_proc, created, reused, disowned, reckless>>

\* Awake again: wait_child strikes the PID off the list of children.
wait_child_return(p) ==
    LET c == arg[p] IN
    /\ Runs(p) /\ pc[p] = "waiting"
    /\ SetSems(semClose(Sems, c))
    /\ reap_terminated_processes([proc EXCEPT ![p].children = RemoveFirst(@, c)])
    /\ disowned' = disowned \cup {q \in Pcb : proc[q].state # "NONE" /\ proc[q].pid = c}
    /\ Goto(p, "user", NULL)
    /\ UNCHANGED <<scheduled, shell_proc, created, reused, reckless>>

-----------------------------------------------------------------------------
(* The end of a process.                                                    *)

\* Whether a PID leads to a process that has not ended.
Alive(c) == process_table[c] # NULL /\ proc[process_table[c]].state # "TERMINATED"
\* Mutant: the walk over the children starts at the second.
BadAdopted(d) == LET all == proc[process_table[d]].children IN
                 {all[i] : i \in {j \in 2..Len(all) : Alive(all[j])}}
\* The children of the process in slot d that init adopts.
Adopted(d) == LET all == proc[process_table[d]].children IN
              {all[i] : i \in {j \in 1..Len(all) : Alive(all[j])}}
\* init's list of children after that walk, as far as there is room.
Heirs(d) ==
    LET all == proc[process_table[d]].children
        heirs[n \in 0..Len(all)] ==
            IF n = 0 THEN proc[InitPcb].children
            ELSE IF all[n] \in Adopted(d) /\ Len(heirs[n-1]) < MAX_CHILDREN
            THEN Append(heirs[n-1], all[n])
            ELSE heirs[n-1]
    IN  heirs[Len(all)]
reparent_children(d) ==
    [q \in Pcb |->
       IF q = process_table[d] THEN [proc[q] EXCEPT !.children = <<>>]
       ELSE IF q = InitPcb THEN [proc[q] EXCEPT !.children = Heirs(d)]
       ELSE IF \E c \in Adopted(d) : process_table[c] = q THEN [proc[q] EXCEPT !.ppid = INIT_PID]
       ELSE proc[q]]

\* Mutant: no post.
BadPostExit(pid) == semClose(semOpen(Sems, pid, 0), pid)
\* The token for whoever waits, or will wait, for the process.
PostExit(pid) == semClose(semPost(semOpen(Sems, pid, 0), pid), pid)

\* process_terminator: where a process's entry point returns to.  The shell's
\* returns when it finds no memory.
process_terminator(p) ==
    /\ Runs(p) /\ pc[p] = "user"
    /\ \/ proc[p].program = "command"
       \/ proc[p].program = "shell" /\ FreeMemory = {}
    /\ proc' = reparent_children(proc[p].pid)
    /\ Goto(p, "reparented", p)
    /\ UNCHANGED <<process_table, scheduled, sems, asleep, shell_proc, created, reused, disowned, reckless>>

process_terminator_post(p) ==
    /\ Runs(p) /\ pc[p] = "reparented"
    /\ SetSems(PostExit(proc[p].pid))
    /\ Goto(p, "posted", p)
    /\ UNCHANGED <<process_table, proc, scheduled, shell_proc, created, reused, disowned, reckless>>

\* shell_proc once process q is gone.
ForgetShell(q) == IF shell_proc = q THEN NULL ELSE shell_proc

\* remove_process_from_scheduler turns interrupts on: a preemption there and
\* the rest of process_terminator, which would reset shell_proc, never runs.
process_terminator_end(p) ==
    /\ Runs(p) /\ pc[p] = "posted"
    /\ proc' = [proc EXCEPT ![p].state = "TERMINATED"]
    /\ scheduled' = scheduled \ {p}
    /\ shell_proc' \in {shell_proc, ForgetShell(p)}
    /\ Goto(p, "user", NULL)
    /\ UNCHANGED <<process_table, sems, asleep, created, reused, disowned, reckless>>

\* kill_process up to its semPost.  A system call runs with interrupts off, and
\* stays so (killing_cli) unless the post wakes somebody.
kill_process(p, pid) ==
    /\ pid \notin {0, INIT_PID} /\ process_table[pid] # NULL
    /\ proc' = reparent_children(pid)
    /\ SetSems(PostExit(pid))
    /\ Goto(p, IF sems[pid].blockedProcesses # <<>> THEN "killing" ELSE "killing_cli",
            process_table[pid])
    /\ UNCHANGED <<process_table, scheduled, shell_proc, created, reused, disowned>>

\* Its rest.  With interrupts on again before mm_free(p), a process that kills
\* itself may not get there.
kill_process_end(p) ==
    LET q == arg[p]
        pid == proc[q].pid IN
    /\ Runs(p) /\ pc[p] \in {"killing", "killing_cli"}
    /\ \/ proc' = [proc EXCEPT ![q] = Freed(q)]
       \/ q = p /\ proc' = [proc EXCEPT ![q].state = "TERMINATED"]
    /\ process_table' = [process_table EXCEPT ![pid] = NULL]
    /\ shell_proc' = ForgetShell(q)
    /\ scheduled' = scheduled \ {q}
    /\ asleep' = asleep \ {pid}
    /\ pc' = [pc EXCEPT ![p] = "user", ![q] = "user"]
    /\ arg' = [arg EXCEPT ![p] = NULL, ![q] = NULL]
    /\ UNCHANGED <<sems, created, reused, disowned, reckless>>

Uninterrupted(p) == \A q \in Pcb \ {p} : pc[q] # "killing_cli"

\* Ctrl+C: the keyboard's interrupt kills the process it interrupts.
kill_foreground_processes(p) ==
    /\ Runs(p) /\ proc[p].foreground /\ pc[p] \notin {"killing", "killing_cli"}
    /\ Rule(p \notin Unborn)
    /\ kill_process(p, proc[p].pid)

-----------------------------------------------------------------------------
(* What the programs call.                                                  *)

\* init_process: a new shell when the last one has ended.  The memory of a freed
\* PCB (NONE) still reads TERMINATED until it is given out again.
init_process ==
    /\ Runs(InitPcb) /\ pc[InitPcb] = "user"
    /\ shell_proc # NULL => proc[shell_proc].state \in {"TERMINATED", "NONE"}
    /\ create_process_pid(InitPcb, "shell", TRUE)

\* No memory or no PID: create_process returns NULL before it has done anything.
init_process_fail ==
    /\ Runs(InitPcb) /\ pc[InitPcb] = "user"
    /\ shell_proc # NULL => proc[shell_proc].state \in {"TERMINATED", "NONE"}
    /\ FreeMemory = {} \/ FreeSlots = {}
    /\ shell_proc' = NULL
    /\ UNCHANGED <<process_table, proc, scheduled, sems, asleep, pc, arg, created, reused,
                   disowned, reckless>>

\* create_shell assigns shell_proc after create_process has returned.
create_shell ==
    /\ Runs(InitPcb) /\ pc[InitPcb] = "assign"
    /\ shell_proc' = arg[InitPcb]
    /\ Goto(InitPcb, "user", NULL)
    /\ UNCHANGED <<process_table, proc, scheduled, sems, asleep, created, reused, disowned, reckless>>

\* The shell, or a test program, starts a command.
createProcess(p) ==
    /\ Runs(p) /\ pc[p] = "user"
    /\ \/ proc[p].program = "shell"
          /\ \E foreground \in BOOLEAN : create_process_pid(p, "command", foreground)
       \/ proc[p].program = "command" /\ create_process_pid(p, "command", FALSE)

\* The kill command and test_processes.
sys_kill(p) ==
    /\ Runs(p) /\ pc[p] = "user" /\ proc[p].program = "command"
    /\ \E pid \in Pid :
         /\ process_table[pid] # NULL
         /\ Rule(process_table[pid] \notin Unborn /\ sems[pid].blockedProcesses = <<>>)
         /\ kill_process(p, pid)

\* block_process and unblock_process; neither touches init.  The block
\* command toggles (sys_block_process).
sys_block_process(p) ==
    /\ Runs(p) /\ pc[p] = "user" /\ proc[p].program = "command"
    /\ \E pid \in Pid \ {0, INIT_PID} :
         LET q == process_table[pid] IN
         /\ q # NULL /\ proc[q].state = "READY"
         /\ Rule(q \notin Unborn /\ pc[q] = "user")
         /\ asleep' = IF pid \in asleep THEN asleep \ {pid} ELSE asleep \cup {pid}
    /\ UNCHANGED <<process_table, proc, scheduled, sems, shell_proc, pc, arg, created, reused, disowned>>

Kernel(p) ==
    \/ create_process_link(p) \/ create_process_fail(p) \/ create_process_insert(p)
    \/ create_process_schedule(p) \/ create_process_reap(p)
    \/ wait_child(p) \/ wait_child_return(p)
    \/ process_terminator_post(p) \/ process_terminator_end(p) \/ kill_process_end(p)

Program(p) ==
    \/ createProcess(p) \/ process_terminator(p) \/ sys_kill(p)
    \/ sys_block_process(p) \/ kill_foreground_processes(p)

\* Whether the behaviour is followed from here.
Followed == Reckless \/ ~reckless
InitLoop == init_process \/ init_process_fail \/ create_shell

Next ==
    \/ Followed /\ Uninterrupted(InitPcb) /\ InitLoop
    \/ \E p \in Pcb : Followed /\ Uninterrupted(p) /\ (Kernel(p) \/ Program(p))

\* The scheduler starves nobody (Scheduler.tla): init keeps running, and kernel
\* routines get done.
Fairness ==
    /\ WF_vars(Followed /\ Uninterrupted(InitPcb) /\ InitLoop)
    /\ \A p \in Pcb : WF_vars(Followed /\ Uninterrupted(p) /\ Kernel(p))

Spec == Init /\ [][Next]_vars /\ Fairness
-----------------------------------------------------------------------------
(* Properties.                                                              *)

\* What the ps command lists: the process shown for each PID, or nothing.
ps == [i \in Pid |-> IF i \in FreeSlots THEN NULL ELSE process_table[i]]

\* Every process the scheduler knows is the one its PID finds, no two share a
\* PID, and the table never leads to freed memory.  assign_pid is to find "an empty
\* slot (NULL) or one with a TERMINATED process" (process.c line 119).
TableAgrees ==
    /\ \A p \in scheduled : proc[p].state = "READY" /\ ps[proc[p].pid] = p
    /\ \A i \in Pid : process_table[i] # NULL =>
         proc[process_table[i]].pid = i /\ proc[process_table[i]].state # "NONE"

\* The types, and the agreement of table, PCBs and scheduler through any sequence
\* of creations, ends, kills and reaps (assign_pid to line 242, 392, 504) in which
\* no rule of use has been broken.
TableSound == reckless \/ (TypeOK /\ TableAgrees)

\* Until a rule of use is broken, a process whose parent has ended has been adopted
\* by init, unless its parent had already dropped it from its list
\* (reparent_children; README line 148).
OrphansAdopted == reckless \/
    \A q \in scheduled \ disowned :
        proc[q].program # "idle" /\ q # InitPcb => ps[proc[q].ppid] # NULL

\* Until a rule of use is broken, whoever sleeps in wait_child stands in line for a
\* process that has yet to post, so that no wait outlives what it waits for.
Posted(q) == \/ pc[q] = "posted"
             \/ \E r \in Pcb : pc[r] \in {"killing", "killing_cli"} /\ arg[r] = q
NoStuckWaiter == reckless \/
    \A p \in scheduled :
        pc[p] = "waiting" /\ proc[p].pid \in asleep =>
            /\ ps[arg[p]] # NULL /\ ~Posted(ps[arg[p]])
            /\ \E i \in DOMAIN sems[arg[p]].blockedProcesses :
                 sems[arg[p]].blockedProcesses[i] = proc[p].pid

\* README line 166: a wait returns when the child has ended, until a rule of use is
\* broken.  With PIDs used for the first time: a token left by, or a line joined by,
\* an earlier process of the same PID ends the wait early.
WaitsForExit ==
    [][reckless' \/ \A p \in scheduled :
         pc[p] = "waiting" /\ pc'[p] = "user" /\ {arg[p], proc[p].pid} \cap reused = {}
           => ps[arg[p]] = NULL \/ Posted(ps[arg[p]]) \/ p \notin scheduled']_vars

\* README line 145: init creates a new shell whenever the last one has ended, as
\* long as there is memory for one.  The bound on creations must not be reached, and
\* no rule of use be broken, for this to count.
Watchdog ==
    []<>(\/ FreeMemory = {} \/ created = MaxCreated \/ reckless
         \/ \E p \in scheduled : proc[p].program = "shell")

=============================================================================
