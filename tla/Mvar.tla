-------------------------------- MODULE Mvar --------------------------------
(***************************************************************************)
(* The mvar command (Userland/Shell/commands/mvar.c): writers and readers  *)
(* that pass letters through one shared byte of the kernel                 *)
(* (Kernel/shared_mvar.c), kept apart by two named semaphores.  The parent *)
(* creates the processes and ends; writers and readers never do, unless    *)
(* they are killed, which is not modelled.                                 *)
(***************************************************************************)
EXTENDS SemTable

CONSTANTS NumWriters, NumReaders   \* the arguments of the command
ASSUME MvarAssumption ==
    NumWriters \in Nat \ {0} /\ NumReaders \in Nat \ {0}

\* Processes in the order of their creation.
Writers == 1..NumWriters
Readers == (NumWriters + 1)..(NumWriters + NumReaders)
MvarProc == Writers \cup Readers

\* The letter of a writer; 0 is the empty byte.
letter(w) == 1 + ((w - 1) % 26)

VARIABLES
    sems, asleep,        \* the semaphores (SemTable)
    shared_mvar_value,   \* the kernel's byte
    parent,              \* 0 before mvarInit, then the next process to create
    pc, value,           \* each process's place, and the value a reader got
    unread               \* history: the letters put and not yet got

vars == <<sems, asleep, shared_mvar_value, parent, pc, value, unread>>

Sems == [sems |-> sems, asleep |-> asleep]
SetSems(k) == sems' = k.sems /\ asleep' = k.asleep

Init ==
    /\ sems = initSemQueue({"empty", "full"}) /\ asleep = {}
    /\ shared_mvar_value = 0
    /\ parent = 0
    /\ pc = [p \in MvarProc |-> "none"] /\ value = [r \in Readers |-> 0]
    /\ unread = <<>>

\* Mutant: two writers may put at once.
BadMvarInit ==
    /\ parent = 0 /\ parent' = 1
    /\ SetSems(semOpen(semOpen(Sems, "empty", 2), "full", 0))
    /\ UNCHANGED <<shared_mvar_value, pc, value, unread>>
\* Where memory or a semaphore is refused the command closes what it has opened and
\* ends: nothing has changed.
mvarInit ==
    /\ parent = 0 /\ parent' = 1
    /\ shared_mvar_value' = 0
    /\ SetSems(semOpen(semOpen(Sems, "empty", 1), "full", 0))
    /\ UNCHANGED <<pc, value, unread>>

\* _mvar: the writers, then the readers; a creation may fail.
_mvar ==
    /\ parent \in MvarProc /\ parent' = parent + 1
    /\ \E start \in {"delay", "failed"} : pc' = [pc EXCEPT ![parent] = start]
    /\ UNCHANGED <<sems, asleep, shared_mvar_value, value, unread>>

\* A wait goes on with a token, or sleeps.
Wait(p, s, go) ==
    LET k == semWait(Sems, s, p) IN
    /\ pc[p] = "delay"
    /\ SetSems(k)
    /\ pc' = [pc EXCEPT ![p] = IF p \in k.asleep THEN "waiting" ELSE go]
    /\ UNCHANGED <<shared_mvar_value, parent, value, unread>>
Awake(p, go) ==
    /\ pc[p] = "waiting" /\ p \notin asleep
    /\ pc' = [pc EXCEPT ![p] = go]
    /\ UNCHANGED <<sems, asleep, shared_mvar_value, parent, value, unread>>
Post(p, s, from, go) ==
    /\ pc[p] = from
    /\ SetSems(semPost(Sems, s))
    /\ pc' = [pc EXCEPT ![p] = go]
    /\ UNCHANGED <<shared_mvar_value, parent, value, unread>>

\* mvarPut.
mvarPut_set(w) ==
    /\ pc[w] = "put"
    /\ shared_mvar_value' = letter(w)
    /\ unread' = Append(unread, letter(w))
    /\ pc' = [pc EXCEPT ![w] = "posting"]
    /\ UNCHANGED <<sems, asleep, parent, value>>
_mvar_writer(w) ==
    \/ Wait(w, "empty", "put") \/ Awake(w, "put")
    \/ mvarPut_set(w) \/ Post(w, "full", "posting", "delay")

\* mvarGet.
mvarGet_get(r) ==
    /\ pc[r] = "get"
    /\ value' = [value EXCEPT ![r] = shared_mvar_value]
    /\ unread' = IF unread = <<>> THEN <<>> ELSE Tail(unread)
    /\ pc' = [pc EXCEPT ![r] = "clear"]
    /\ UNCHANGED <<sems, asleep, shared_mvar_value, parent>>
mvarGet_clear(r) ==
    /\ pc[r] = "clear"
    /\ shared_mvar_value' = 0
    /\ pc' = [pc EXCEPT ![r] = "posting"]
    /\ UNCHANGED <<sems, asleep, parent, value, unread>>

\* Mutant: the reader does not say that the MVar is empty.
BadGetPost(r) ==
    /\ pc[r] = "posting"
    /\ pc' = [pc EXCEPT ![r] = "print"]
    /\ UNCHANGED <<sems, asleep, shared_mvar_value, parent, value, unread>>
mvarGet_post(r) == Post(r, "empty", "posting", "print")

\* A reader prints the letter; it takes 0 for a failure and ends.
Report(r) ==
    /\ pc[r] = "print"
    /\ pc' = [pc EXCEPT ![r] = IF value[r] = 0 THEN "failed" ELSE "delay"]
    /\ value' = [value EXCEPT ![r] = 0]
    /\ UNCHANGED <<sems, asleep, shared_mvar_value, parent, unread>>
_mvar_reader(r) ==
    \/ Wait(r, "full", "get") \/ Awake(r, "get")
    \/ mvarGet_get(r) \/ mvarGet_clear(r) \/ mvarGet_post(r) \/ Report(r)

Next == \/ mvarInit \/ _mvar
        \/ \E w \in Writers : _mvar_writer(w)
        \/ \E r \in Readers : _mvar_reader(r)

Spec == Init /\ [][Next]_vars
-----------------------------------------------------------------------------
(* Properties.                                                              *)

\* README line 86: every reader gets the letter that was put last, which no
\* reader has had before; no put overwrites a letter and no get finds the byte
\* empty, for any number and any interleaving of writers and readers.
EachLetterOnce ==
    [][/\ \A r \in Readers : pc[r] = "get" /\ pc'[r] = "clear" =>
            unread # <<>> /\ value'[r] = Head(unread)
       /\ Len(unread') <= 1]_vars

\* Woken(p): p was given the token while it slept.  Holder(p): p has it, from its
\* semWait to its semPost.
Woken(p) == pc[p] = "waiting" /\ p \notin asleep
Holder(p) ==
    \/ p \in Writers /\ pc[p] \in {"put", "posting"}
    \/ p \in Readers /\ pc[p] \in {"get", "clear", "posting"}
    \/ Woken(p)

\* The token that empty and full pass between them is never lost: somebody who does
\* not sleep has it, or it lies in a semaphore that nobody waits for; and whoever
\* sleeps stands in a line (mvarPut and mvarGet, for any number and any interleaving
\* of writers and readers).  So the program never comes to a state in which all its
\* processes sleep.
TokenKept ==
    parent > 0 =>
        /\ \A p \in asleep : \E n \in {"empty", "full"} :
             \E i \in DOMAIN sems[n].blockedProcesses : sems[n].blockedProcesses[i] = p
        /\ \/ \E p \in MvarProc : Holder(p)
           \/ \E n \in {"empty", "full"} :
                sems[n].value = 1 /\ sems[n].blockedProcesses = <<>>

=============================================================================
