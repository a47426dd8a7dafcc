------------------------------ MODULE SemMutex ------------------------------
(***************************************************************************)
(* A semaphore of value 1 guarding a read-modify-write of a shared         *)
(* variable.  This is what the processes of test_sync do with `global'     *)
(* (my_process_inc, slowInc), from user mode, and what concurrent readers  *)
(* of the keyboard do with `to_read' under keyboard_mutex                  *)
(* (getKeyboardCharacter), from kernel code with interrupts on.            *)
(***************************************************************************)
EXTENDS Semaphore, Integers, FiniteSets, FiniteSetsExt

CONSTANTS Mutex,      \* the semaphore
          Inc,        \* what each process adds
          Rounds      \* how often each process does it

\* The process table has MAX_PROCESSES slots.
ASSUME ClientAssumption ==
    /\ IsFiniteSet(Proc)
    /\ Sem = {Mutex} /\ InitialValue[Mutex] = 1
    /\ Inc \in [Proc -> Int]
    /\ Rounds \in Nat

VARIABLES global,     \* the shared variable
          aux,        \* each process's copy of it
          at,         \* each process's place in its own program
          round       \* iterations completed

clientVars == <<global, aux, at, round>>
allVars == <<vars, clientVars>>

ClientInit ==
    /\ Init
    /\ global = 0
    /\ aux = [p \in Proc |-> 0]
    /\ at = [p \in Proc |-> "wait"]
    /\ round = [p \in Proc |-> 0]

Then(p, l) == at' = [at EXCEPT ![p] = l]

Wait(p) ==
    /\ at[p] = "wait" /\ round[p] < Rounds
    /\ Call(p, "wait", Mutex)
    /\ Then(p, "read")
    /\ UNCHANGED <<global, aux, round>>

Read(p) ==
    /\ At(p, "user") /\ at[p] = "read"
    /\ aux' = [aux EXCEPT ![p] = global]
    /\ Then(p, IF p \in KernelProc THEN "write" ELSE "yield")
    /\ UNCHANGED <<vars, global, round>>

\* my_yield
Yield(p) ==
    /\ At(p, "user") /\ at[p] = "yield"
    /\ Then(p, "write")
    /\ Schedule(state)
    /\ UNCHANGED <<intr, callVars, semVars, global, aux, round>>

Write(p) ==
    /\ At(p, "user") /\ at[p] = "write"
    /\ global' = aux[p] + Inc[p]
    /\ Then(p, "post")
    /\ UNCHANGED <<vars, aux, round>>

Post(p) ==
    /\ at[p] = "post"
    /\ Call(p, "post", Mutex)
    /\ Then(p, "wait")
    /\ round' = [round EXCEPT ![p] = @ + 1]
    /\ UNCHANGED <<global, aux>>

\* The process has done its rounds and returns.  my_sem_open and
\* my_sem_close only count users: the semaphore lasts while a process uses it.
Exit(p) ==
    /\ At(p, "user") /\ at[p] = "wait" /\ round[p] = Rounds
    /\ Schedule([state EXCEPT ![p] = "TERMINATED"])
    /\ UNCHANGED <<intr, callVars, semVars, clientVars>>

Kernel(p) == SemStep(p) /\ UNCHANGED clientVars

Execute(p) ==
    \/ Wait(p) \/ Read(p) \/ Yield(p) \/ Write(p) \/ Post(p) \/ Exit(p) \/ Kernel(p)

Next ==
    \/ \E p \in Proc : Execute(p)
    \/ \E p \in Proc : Spin(p) /\ UNCHANGED clientVars
    \/ TimerTick /\ UNCHANGED clientVars

\* The CPU executes, the timer interrupts and the scheduler starves nobody
\* (Scheduler.tla's NoStarvation).
Fairness ==
    /\ \A p \in Proc : SF_allVars(Execute(p))
    /\ WF_allVars(TimerTick /\ UNCHANGED clientVars)
    /\ \A p \in Proc : SF_allVars(TimerTick /\ UNCHANGED clientVars /\ running_process' = p)

Spec     == ClientInit /\ [][Next]_allVars
FairSpec == Spec /\ Fairness

-----------------------------------------------------------------------------
(* Properties.                                                              *)

\* p has the token: it took it, was handed it, or has not yet given it back.
Holds(p) ==
    \/ at[p] \in {"yield", "write", "post"}
    \/ at[p] = "read" /\ pc[p] = "user"
    \/ op[p] = "wait" /\ pc[p] = "release"
    \/ /\ pc[p] \in {"block", "force", "reforce"}
       /\ \A i \in DOMAIN blockedProcesses[Mutex] : blockedProcesses[Mutex][i] # p
    \/ op[p] = "post" /\ pc[p] \in {"registry", "lookup", "acquire", "decide"}

\* A token is never lost and never made: in every interleaving of waits, posts,
\* hand-offs and preemptions the semaphore and the processes together hold
\* exactly the one it was opened with, and every variable keeps its type (semWait,
\* semPost).
TokenConserved == TypeOK /\ value[Mutex] + Cardinality({p \in Proc : Holds(p)}) = 1

\* What each process has added so far.
Updates == [p \in Proc |-> Inc[p] * (round[p] + IF at[p] = "post" THEN 1 ELSE 0)]

\* No update is lost: whenever nobody is between reading and writing, the shared
\* variable is the sum of the updates made (test_sync's result is then 0).
NoLostUpdate ==
    (\A p \in Proc : at[p] \notin {"yield", "write"}) =>
        global = SumFunction(Updates)

\* p sleeps in semWait although it is not in the semaphore's queue and nobody
\* who took it out is about to wake it.
MissedWakeup(p) ==
    /\ state[p] = "BLOCKED"
    /\ \A i \in DOMAIN blockedProcesses[Mutex] : blockedProcesses[Mutex][i] # p
    /\ \A q \in Proc : ~(pc[q] = "wake" /\ unblocked_pid[q] = p)

\* A process that waits from a system call, with interrupts off between the
\* queue and the sleep, never misses its wake-up, whoever else uses the
\* semaphore (semWait lines 210-222, semPost lines 171-178).
NoLostWakeup == \A p \in Proc \ KernelProc : ~MissedWakeup(p)

\* The same of every process: sem.c line 170, "Unblock a waiting process".
WaitersAreWoken == \A p \in Proc : ~MissedWakeup(p)

\* sem.c implements the atomic, first-in first-out semaphore.
Fair == INSTANCE FairSemaphore WITH line <- blockedProcesses
ImplementsFairSemaphore == Fair!Spec

\* README: test_sync with semaphores ends ("el resultado final debe ser 0").
AllFinish == <>(\A p \in Proc : state[p] = "TERMINATED")

=============================================================================
