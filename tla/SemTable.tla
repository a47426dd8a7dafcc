------------------------------ MODULE SemTable ------------------------------
(***************************************************************************)
(* The kernel's registry of named semaphores (Kernel/sem.c) as operators   *)
(* on a table: a name is bound to a semaphore while somebody uses it.      *)
(* Waiting and posting are atomic here; Semaphore.tla looks inside them    *)
(* and SemMutex.tla shows that they implement FairSemaphore.  This is a    *)
(* refinement of safety only: semPost's lock is held across the _sti of    *)
(* unblock_process (scheduler.c line 322), so that a call need not return, *)
(* and no liveness carries over.  What the modules above state as holding  *)
(* with these operators is safety.                                         *)
(*                                                                         *)
(* The operators take and return a record k with the fields                *)
(*   sems    the registry: what each name is bound to                      *)
(*   asleep  the processes that semWait has blocked                        *)
(* Processes are known to a semaphore by their PID only.                   *)
(***************************************************************************)
EXTENDS Naturals, Sequences, SequencesExt

\* The width of a semaphore's value.
UINT16_MAX == 65535

\* No semaphore has this name.
NoSem == [users |-> 0, value |-> 0, blockedProcesses |-> <<>>]

SemRecord(Pid) == [users : Nat, value : 0..UINT16_MAX, blockedProcesses : Seq(Pid)]

\* initSemQueue: the registry is empty.
initSemQueue(Name) == [n \in Name |-> NoSem]

\* Whether the registry holds the semaphore.
is_semaphore_valid(k, n) == k.sems[n].users > 0

\* Opening a name that is bound counts one more user, and the value asked for
\* is ignored.
semOpen(k, n, value) ==
    IF is_semaphore_valid(k, n)
    THEN [k EXCEPT !.sems[n].users = @ + 1]
    ELSE [k EXCEPT !.sems[n] = [users |-> 1, value |-> value, blockedProcesses |-> <<>>]]

\* The last user's close forgets the semaphore, and whoever waits in it.
semClose(k, n) ==
    IF ~is_semaphore_valid(k, n) THEN k
    ELSE IF k.sems[n].users = 1 THEN [k EXCEPT !.sems[n] = NoSem]
    ELSE [k EXCEPT !.sems[n].users = @ - 1]

\* A post wakes the first in line, whoever has that PID by now, or counts up;
\* value is a uint16_t.
semPost(k, n) ==
    IF ~is_semaphore_valid(k, n) THEN k
    ELSE IF k.sems[n].blockedProcesses = <<>>
    THEN [k EXCEPT !.sems[n].value = (@ + 1) % (UINT16_MAX + 1)]
    ELSE [k EXCEPT !.sems[n].blockedProcesses = Tail(@),
                   !.asleep = @ \ {Head(k.sems[n].blockedProcesses)}]

\* Mutant: the caller goes on without a token.
BadSemWait(k, n, pid) == k

\* A wait takes a token or puts the caller to sleep at the end of the line.
semWait(k, n, pid) ==
    IF ~is_semaphore_valid(k, n) THEN k
    ELSE IF k.sems[n].value = 0
    THEN [k EXCEPT !.sems[n].blockedProcesses = Append(@, pid),
                   !.asleep = @ \cup {pid}]
    ELSE [k EXCEPT !.sems[n].value = @ - 1]

\* Strikes a PID off the line without waking it.
removeFromSemaphore(k, n, pid) ==
    [k EXCEPT !.sems[n].blockedProcesses = RemoveFirst(@, pid)]

\* count posts in a row: the loops of wake_all and closePipe.
PostTimes(k, n, count) ==
    LET Posted[i \in 0..count] == IF i = 0 THEN k ELSE semPost(Posted[i - 1], n)
    IN  Posted[count]

=============================================================================
