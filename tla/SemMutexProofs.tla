--------------------------- MODULE SemMutexProofs ---------------------------
(***************************************************************************)
(* Proofs about SemMutex, for any number of processes, any mixture of      *)
(* callers with interrupts on and off and any number of rounds: the token  *)
(* is conserved, no wake-up of a system call is lost, no update is lost,   *)
(* and sem.c implements the fair semaphore.                                *)
(***************************************************************************)
EXTENDS SemMutex, Arithmetic

Place == {"wait", "read", "yield", "write", "post"}
Line == blockedProcesses[Mutex]
InLine(p) == \E i \in DOMAIN Line : Line[i] = p

Types ==
    /\ TypeOK
    /\ at \in [Proc -> Place]
    /\ aux \in [Proc -> Int] /\ global \in Int
    /\ round \in [Proc -> Nat]

\* Where a process is in its program while it is inside a call.
Calls ==
    \A p \in Proc :
        /\ pc[p] # "user" => target[p] = Mutex
        /\ pc[p] # "user" /\ op[p] = "wait" => at[p] = "read"
        /\ pc[p] # "user" /\ op[p] = "post" => at[p] = "wait"
        /\ pc[p] \in {"enqueued", "block", "force", "reforce"} => op[p] = "wait"
        /\ pc[p] = "wake" => op[p] = "post"

\* The semaphore's lock is held from semLock to semUnlock, by one process.
Locked ==
    \A p \in Proc : pc[p] \in {"decide", "enqueued", "wake", "release"} => lock[Mutex] = p

\* Who has the CPU runs, or has just blocked itself.
Cpu ==
    /\ \A p \in Proc : state[p] = "RUNNING" => running_process = p
    /\ \A p \in Proc : running_process = p => \/ state[p] = "RUNNING"
                                              \/ state[p] = "BLOCKED" /\ pc[p] = "force"
    /\ \A p \in Proc : state[p] = "BLOCKED" => pc[p] \in {"force", "reforce"}

\* The line holds processes that wait, each once; one that has got to its int 0x20
\* sleeps until it is taken out.
OnceEach == \A i, j \in DOMAIN Line : Line[i] = Line[j] => i = j
Waiting ==
    /\ OnceEach
    /\ \A p \in Proc : InLine(p) =>
          /\ pc[p] \in {"enqueued", "block", "force", "reforce"}
          /\ pc[p] \in {"force", "reforce"} => state[p] = "BLOCKED"
    /\ \A p \in Proc : pc[p] = "enqueued" => InLine(p)

\* One token: in the semaphore, or with one process.
Token ==
    /\ value[Mutex] \in {0, 1}
    /\ \A p, q \in Proc : Holds(p) /\ Holds(q) => p = q
    /\ (\E p \in Proc : Holds(p)) <=> value[Mutex] = 0

\* A system call keeps the CPU until it turns interrupts on.
Undisturbed ==
    \A p \in Proc \ KernelProc :
        /\ pc[p] \in {"registry", "lookup", "acquire", "decide", "enqueued", "block"} =>
              running_process = p /\ ~intr[p]
        /\ pc[p] \in {"enqueued", "block"} => InLine(p)

\* Whoever sleeps will be woken.
Woken == \A p \in Proc \ KernelProc : state[p] = "BLOCKED" =>
            InLine(p) \/ \E q \in Proc : pc[q] = "wake" /\ unblocked_pid[q] = p

\* The process a post is about to wake is out of the line.
Taken == \A p \in Proc : pc[p] = "wake" => /\ unblocked_pid[p] \in Proc
                                           /\ ~InLine(unblocked_pid[p])

IInv == Types /\ Calls /\ Locked /\ Cpu /\ Waiting /\ Token /\ Undisturbed /\ Woken /\ Taken

-----------------------------------------------------------------------------
USE ConstantAssumption, ClientAssumption
    DEF At, Goto, Then, vars, procVars, callVars, semVars, clientVars

\* schedule() leaves BLOCKED and TERMINATED processes alone, and makes one of the
\* others, if there is one, RUNNING.
LEMMA ScheduleFacts ==
    ASSUME NEW st \in [Proc -> {"READY", "RUNNING", "BLOCKED", "TERMINATED"}], Schedule(st)
    PROVE  /\ state' \in [Proc -> {"READY", "RUNNING", "BLOCKED", "TERMINATED"}]
           /\ running_process' \in Proc \cup {Idle}
           /\ \A q \in Proc : state'[q] = "RUNNING" <=> running_process' = q
           /\ \A q \in Proc : state'[q] = "BLOCKED" <=> st[q] = "BLOCKED"
BY DEF Schedule

\* Holding the token, with the line as a predicate.
LEMMA HoldsNow ==
    ASSUME NEW p \in Proc
    PROVE  Holds(p) <=> \/ at[p] \in {"yield", "write", "post"}
                        \/ at[p] = "read" /\ pc[p] = "user"
                        \/ op[p] = "wait" /\ pc[p] = "release"
                        \/ pc[p] \in {"block", "force", "reforce"} /\ ~InLine(p)
                        \/ op[p] = "post" /\ pc[p] \in {"registry", "lookup", "acquire", "decide"}
BY DEF Holds, InLine, Line

\* The same after the step.
LEMMA HoldsNext ==
    ASSUME NEW p \in Proc
    PROVE  Holds(p)' <=> \/ at'[p] \in {"yield", "write", "post"}
                         \/ at'[p] = "read" /\ pc'[p] = "user"
                         \/ op'[p] = "wait" /\ pc'[p] = "release"
                         \/ pc'[p] \in {"block", "force", "reforce"} /\ ~InLine(p)'
                         \/ op'[p] = "post" /\ pc'[p] \in {"registry", "lookup", "acquire", "decide"}
BY DEF Holds, InLine, Line

\* Nothing changes for a process whose place does not.
LEMMA HoldsSame ==
    ASSUME NEW q \in Proc, at'[q] = at[q], pc'[q] = pc[q], op'[q] = op[q],
           InLine(q)' <=> InLine(q)
    PROVE  Holds(q)' <=> Holds(q)
<1>1. CASE InLine(q)
    BY <1>1, HoldsNow, HoldsNext
<1>2. CASE ~InLine(q)
    BY <1>2, HoldsNow, HoldsNext
<1> QED
    BY <1>1, <1>2

\* The line under the three things that happen to it.
LEMMA SameLine ==
    ASSUME UNCHANGED blockedProcesses, OnceEach
    PROVE  OnceEach' /\ \A q \in Proc : InLine(q)' <=> InLine(q)
BY DEF OnceEach, InLine, Line

\* Who joins the line at its end is in it once, and everybody else as before.
LEMMA JoinLine ==
    ASSUME Types, NEW p \in Proc, ~InLine(p), OnceEach,
           blockedProcesses' = [blockedProcesses EXCEPT ![Mutex] = Append(@, p)]
    PROVE  /\ blockedProcesses' \in [Sem -> Seq(Proc)]
           /\ OnceEach'
           /\ \A q \in Proc : InLine(q)' <=> InLine(q) \/ q = p
<1>1. Line \in Seq(Proc) /\ Line' = Append(Line, p)
    BY DEF Types, TypeOK, Line
<1>2. Line' \in Seq(Proc) /\ Len(Line') = Len(Line) + 1 /\ Line'[Len(Line) + 1] = p
      /\ \A i \in 1..Len(Line) : Line'[i] = Line[i]
    BY <1>1
<1>3. blockedProcesses' \in [Sem -> Seq(Proc)]
    BY <1>1, <1>2 DEF Types, TypeOK, Line
<1>4. DOMAIN Line = 1..Len(Line) /\ DOMAIN Line' = 1..Len(Line') /\ Len(Line) \in Nat
    BY <1>1, <1>2
<1>5. OnceEach'
    BY SMTT(40), <1>2, <1>4 DEF OnceEach, InLine
<1>6. ASSUME NEW q \in Proc PROVE InLine(q)' <=> InLine(q) \/ q = p
  <2>1. ASSUME InLine(q)' PROVE InLine(q) \/ q = p
    BY SMTT(40), <2>1, <1>2, <1>4 DEF InLine
  <2>2. ASSUME InLine(q) PROVE InLine(q)'
    <3>1. PICK i \in 1..Len(Line) : Line[i] = q
      BY <2>2, <1>4 DEF InLine
    <3>2. i \in DOMAIN Line' /\ Line'[i] = q
      BY <3>1, <1>2, <1>4
    <3> QED
      BY <3>2 DEF InLine
  <2>3. ASSUME q = p PROVE InLine(q)'
    <3>1. Len(Line) + 1 \in DOMAIN Line'
      BY <1>2, <1>4
    <3> QED
      BY <2>3, <3>1, <1>2 DEF InLine
  <2> QED
    BY <2>1, <2>2, <2>3
<1> QED
    BY <1>3, <1>5, <1>6

\* The token under the four things that happen to it.
LEMMA TokenStays ==
    ASSUME Token, value'[Mutex] = value[Mutex], \A q \in Proc : Holds(q)' <=> Holds(q)
    PROVE  Token'
BY DEF Token

\* A waiter finds the value at one and takes it.
LEMMA TokenTaken ==
    ASSUME Token, NEW p \in Proc, value[Mutex] = 1, value'[Mutex] = 0,
           \A q \in Proc : Holds(q)' <=> Holds(q) \/ q = p
    PROVE  Token'
BY DEF Token

\* A poster finds nobody in line and leaves the token in the value.
LEMMA TokenLeft ==
    ASSUME Token, NEW p \in Proc, Holds(p), value'[Mutex] = 1,
           \A q \in Proc : Holds(q)' <=> Holds(q) /\ q # p
    PROVE  Token'
BY DEF Token

\* A poster passes the token to r, the first in line.
LEMMA TokenPassed ==
    ASSUME Token, NEW p \in Proc, Holds(p), value'[Mutex] = value[Mutex], NEW r \in Proc,
           \A q \in Proc : Holds(q)' <=> q = r
    PROVE  Token'
BY DEF Token

\* The first in line leaves it, and everybody else stays.
LEMMA LeaveLine ==
    ASSUME Types, OnceEach, Line # <<>>,
           blockedProcesses' = [blockedProcesses EXCEPT ![Mutex] = Tail(@)]
    PROVE  /\ blockedProcesses' \in [Sem -> Seq(Proc)]
           /\ OnceEach'
           /\ Head(Line) \in Proc /\ InLine(Head(Line))
           /\ \A q \in Proc : InLine(q)' <=> InLine(q) /\ q # Head(Line)
<1>1. Line \in Seq(Proc) /\ Line' = Tail(Line)
    BY DEF Types, TypeOK, Line
<1>2. Line' \in Seq(Proc) /\ Len(Line') = Len(Line) - 1 /\ Len(Line) \in Nat \ {0}
      /\ \A i \in 1..Len(Line') : Line'[i] = Line[i + 1]
    BY <1>1
<1>3. blockedProcesses' \in [Sem -> Seq(Proc)]
    BY <1>1, <1>2 DEF Types, TypeOK, Line
<1>4. DOMAIN Line = 1..Len(Line) /\ DOMAIN Line' = 1..Len(Line')
    BY <1>1, <1>2
<1>5. Head(Line) = Line[1] /\ 1 \in DOMAIN Line /\ Line[1] \in Proc
    BY <1>1, <1>2
<1>6. OnceEach'
  <2> SUFFICES ASSUME NEW i \in 1..Len(Line'), NEW j \in 1..Len(Line'), Line'[i] = Line'[j]
               PROVE  i = j
    BY <1>4 DEF OnceEach
  <2>1. Line[i + 1] = Line[j + 1] /\ i + 1 \in 1..Len(Line) /\ j + 1 \in 1..Len(Line)
    BY <1>2
  <2> QED
    BY SMTT(40), <2>1, <1>4 DEF OnceEach
<1>7. ASSUME NEW q \in Proc PROVE InLine(q)' <=> InLine(q) /\ q # Head(Line)
  <2>1. ASSUME InLine(q)' PROVE InLine(q) /\ q # Head(Line)
    <3>1. PICK i \in 1..Len(Line') : Line'[i] = q
      BY <2>1, <1>4 DEF InLine
    <3>2. Line[i + 1] = q /\ i + 1 \in DOMAIN Line /\ i + 1 # 1
      BY <3>1, <1>2, <1>4
    <3> QED
      BY <3>2, <1>5 DEF InLine, OnceEach
  <2>2. ASSUME InLine(q), q # Head(Line) PROVE InLine(q)'
    <3>1. PICK i \in 1..Len(Line) : Line[i] = q
      BY <2>2, <1>4 DEF InLine
    <3>2. i - 1 \in 1..Len(Line') /\ Line'[i - 1] = q
      BY <3>1, <2>2, <1>2, <1>5
    <3> QED
      BY <3>2, <1>4 DEF InLine
  <2> QED
    BY <2>1, <2>2
<1> QED
    BY <1>3, <1>5, <1>6, <1>7 DEF InLine

\* A process calls semWait.
LEMMA WaitInv ==
    ASSUME IInv, NEW p \in Proc, Wait(p)
    PROVE  IInv'
<1>0. OnceEach' /\ \A q \in Proc : InLine(q)' <=> InLine(q)
    BY SameLine DEF IInv, Waiting, Wait, Call
<1>1. Types'
    BY <1>0
    DEF IInv, Types, TypeOK, Place, Label, Wait, Call
<1>2. Calls'
    BY <1>0
    DEF IInv, Types, TypeOK, Place, Label, Calls, Wait, Call
<1>3. Locked'
    BY <1>0
    DEF IInv, Types, TypeOK, Place, Label, Calls, Locked, Wait, Call
<1>4. Cpu'
    BY <1>0
    DEF IInv, Types, TypeOK, Place, Label, Cpu, Wait, Call
<1>5. Waiting'
    BY <1>0
    DEF IInv, Types, TypeOK, Place, Label, Calls, Cpu, Waiting, Locked, Wait, Call
<1>6. Token'
  <2>1. ASSUME NEW q \in Proc, q # p PROVE Holds(q)' <=> Holds(q)
    <3>1. at'[q] = at[q] /\ pc'[q] = pc[q] /\ op'[q] = op[q]
      BY <2>1 DEF IInv, Types, TypeOK, Wait, Call
    <3> QED
      BY <1>0, <3>1, HoldsSame
  <2>2. pc[p] = "user" /\ pc'[p] = "registry" /\ at[p] = "wait" /\ at'[p] = "read" /\ op'[p] = "wait"
    BY DEF IInv, Types, TypeOK, Wait, Call
  <2>3. /\ pc[p] # "user" /\ op[p] = "wait" => at[p] = "read"
        /\ pc[p] # "user" /\ op[p] = "post" => at[p] = "wait"
        /\ op[p] \in {"wait", "post"}
        /\ pc[p] \in {"enqueued", "block", "force", "reforce"} => op[p] = "wait"
        /\ pc[p] = "wake" => op[p] = "post"
        /\ pc[p] = "enqueued" => InLine(p)
    BY DEF IInv, Types, TypeOK, Calls, Waiting
  <2>4. Holds(p)' <=> Holds(p)
    BY <1>0, <2>2, <2>3, HoldsNow, HoldsNext
  <2>5. value'[Mutex] = value[Mutex]
    BY DEF Wait, Call
  <2> QED
    BY <2>1, <2>4, <2>5, TokenStays DEF IInv
<1>7. Undisturbed'
  <2>1. p \notin KernelProc => ~intr'[p]
    BY DEF IInv, Types, TypeOK, Wait, Call
  <2> QED
    BY <1>0, <2>1
    DEF IInv, Types, TypeOK, Undisturbed, Cpu, Wait, Post, Call, Label
<1>8. Woken'
    BY <1>0
    DEF IInv, Types, TypeOK, Place, Label, Calls, Woken, Undisturbed, Cpu, Waiting, Wait,
        Call
<1>9. Taken'
    BY <1>0
    DEF IInv, Types, TypeOK, Place, Label, Taken, Locked, Wait, Call
<1> QED
    BY <1>1, <1>2, <1>3, <1>4, <1>5, <1>6, <1>7, <1>8, <1>9 DEF IInv

\* It copies the shared variable.
LEMMA ReadInv ==
    ASSUME IInv, NEW p \in Proc, Read(p)
    PROVE  IInv'
<1>0. OnceEach' /\ \A q \in Proc : InLine(q)' <=> InLine(q)
    BY SameLine DEF IInv, Waiting, Read
<1>1. Types'
    BY <1>0
    DEF IInv, Types, TypeOK, Place, Label, Read
<1>2. Calls'
    BY <1>0
    DEF IInv, Types, TypeOK, Place, Label, Calls, Read
<1>3. Locked'
    BY <1>0
    DEF IInv, Types, TypeOK, Place, Label, Calls, Locked, Read
<1>4. Cpu'
    BY <1>0
    DEF IInv, Types, TypeOK, Place, Label, Cpu, Read
<1>5. Waiting'
    BY <1>0
    DEF IInv, Types, TypeOK, Place, Label, Calls, Cpu, Waiting, Locked, Read
<1>6. Token'
  <2>1. ASSUME NEW q \in Proc, q # p PROVE Holds(q)' <=> Holds(q)
    <3>1. at'[q] = at[q] /\ pc'[q] = pc[q] /\ op'[q] = op[q]
      BY <2>1 DEF IInv, Types, TypeOK, Read
    <3> QED
      BY <1>0, <3>1, HoldsSame
  <2>2. pc[p] = "user" /\ pc'[p] = "user" /\ at[p] = "read" /\ at'[p] \in {"yield", "write"} /\ op'[p] = op[p]
    BY DEF IInv, Types, TypeOK, Read
  <2>3. /\ pc[p] # "user" /\ op[p] = "wait" => at[p] = "read"
        /\ pc[p] # "user" /\ op[p] = "post" => at[p] = "wait"
        /\ op[p] \in {"wait", "post"}
        /\ pc[p] \in {"enqueued", "block", "force", "reforce"} => op[p] = "wait"
        /\ pc[p] = "wake" => op[p] = "post"
        /\ pc[p] = "enqueued" => InLine(p)
    BY DEF IInv, Types, TypeOK, Calls, Waiting
  <2>4. Holds(p)' <=> Holds(p)
    BY <1>0, <2>2, <2>3, HoldsNow, HoldsNext
  <2>5. value'[Mutex] = value[Mutex]
    BY DEF Read
  <2> QED
    BY <2>1, <2>4, <2>5, TokenStays DEF IInv
<1>7. Undisturbed'
    BY <1>0
    DEF IInv, Types, TypeOK, Place, Label, Undisturbed, Waiting, Cpu, Read
<1>8. Woken'
    BY <1>0
    DEF IInv, Types, TypeOK, Place, Label, Calls, Woken, Undisturbed, Cpu, Waiting, Read
<1>9. Taken'
    BY <1>0
    DEF IInv, Types, TypeOK, Place, Label, Taken, Locked, Read
<1> QED
    BY <1>1, <1>2, <1>3, <1>4, <1>5, <1>6, <1>7, <1>8, <1>9 DEF IInv

\* It writes the shared variable.
LEMMA WriteInv ==
    ASSUME IInv, NEW p \in Proc, Write(p)
    PROVE  IInv'
<1>0. OnceEach' /\ \A q \in Proc : InLine(q)' <=> InLine(q)
    BY SameLine DEF IInv, Waiting, Write
<1>1. Types'
    BY <1>0
    DEF IInv, Types, TypeOK, Place, Label, Write
<1>2. Calls'
    BY <1>0
    DEF IInv, Types, TypeOK, Place, Label, Calls, Write
<1>3. Locked'
    BY <1>0
    DEF IInv, Types, TypeOK, Place, Label, Calls, Locked, Write
<1>4. Cpu'
    BY <1>0
    DEF IInv, Types, TypeOK, Place, Label, Cpu, Write
<1>5. Waiting'
    BY <1>0
    DEF IInv, Types, TypeOK, Place, Label, Calls, Cpu, Waiting, Locked, Write
<1>6. Token'
  <2>1. ASSUME NEW q \in Proc, q # p PROVE Holds(q)' <=> Holds(q)
    <3>1. at'[q] = at[q] /\ pc'[q] = pc[q] /\ op'[q] = op[q]
      BY <2>1 DEF IInv, Types, TypeOK, Write
    <3> QED
      BY <1>0, <3>1, HoldsSame
  <2>2. pc[p] = "user" /\ pc'[p] = "user" /\ at[p] = "write" /\ at'[p] = "post" /\ op'[p] = op[p]
    BY DEF IInv, Types, TypeOK, Write
  <2>3. /\ pc[p] # "user" /\ op[p] = "wait" => at[p] = "read"
        /\ pc[p] # "user" /\ op[p] = "post" => at[p] = "wait"
        /\ op[p] \in {"wait", "post"}
        /\ pc[p] \in {"enqueued", "block", "force", "reforce"} => op[p] = "wait"
        /\ pc[p] = "wake" => op[p] = "post"
        /\ pc[p] = "enqueued" => InLine(p)
    BY DEF IInv, Types, TypeOK, Calls, Waiting
  <2>4. Holds(p)' <=> Holds(p)
    BY <1>0, <2>2, <2>3, HoldsNow, HoldsNext
  <2>5. value'[Mutex] = value[Mutex]
    BY DEF Write
  <2> QED
    BY <2>1, <2>4, <2>5, TokenStays DEF IInv
<1>7. Undisturbed'
    BY <1>0
    DEF IInv, Types, TypeOK, Place, Label, Undisturbed, Waiting, Cpu, Write
<1>8. Woken'
    BY <1>0
    DEF IInv, Types, TypeOK, Place, Label, Calls, Woken, Undisturbed, Cpu, Waiting, Write
<1>9. Taken'
    BY <1>0
    DEF IInv, Types, TypeOK, Place, Label, Taken, Locked, Write
<1> QED
    BY <1>1, <1>2, <1>3, <1>4, <1>5, <1>6, <1>7, <1>8, <1>9 DEF IInv

\* It calls semPost.
LEMMA PostInv ==
    ASSUME IInv, NEW p \in Proc, Post(p)
    PROVE  IInv'
<1>0. OnceEach' /\ \A q \in Proc : InLine(q)' <=> InLine(q)
    BY SameLine DEF IInv, Waiting, Post, Call
<1>1. Types'
    BY <1>0
    DEF IInv, Types, TypeOK, Place, Label, Post, Call
<1>2. Calls'
    BY <1>0
    DEF IInv, Types, TypeOK, Place, Label, Calls, Post, Call
<1>3. Locked'
    BY <1>0
    DEF IInv, Types, TypeOK, Place, Label, Calls, Locked, Post, Call
<1>4. Cpu'
    BY <1>0
    DEF IInv, Types, TypeOK, Place, Label, Cpu, Post, Call
<1>5. Waiting'
    BY <1>0
    DEF IInv, Types, TypeOK, Place, Label, Calls, Cpu, Waiting, Locked, Post, Call
<1>6. Token'
  <2>1. ASSUME NEW q \in Proc, q # p PROVE Holds(q)' <=> Holds(q)
    <3>1. at'[q] = at[q] /\ pc'[q] = pc[q] /\ op'[q] = op[q]
      BY <2>1 DEF IInv, Types, TypeOK, Post, Call
    <3> QED
      BY <1>0, <3>1, HoldsSame
  <2>2. pc[p] = "user" /\ pc'[p] = "registry" /\ at[p] = "post" /\ at'[p] = "wait" /\ op'[p] = "post"
    BY DEF IInv, Types, TypeOK, Post, Call
  <2>3. /\ pc[p] # "user" /\ op[p] = "wait" => at[p] = "read"
        /\ pc[p] # "user" /\ op[p] = "post" => at[p] = "wait"
        /\ op[p] \in {"wait", "post"}
        /\ pc[p] \in {"enqueued", "block", "force", "reforce"} => op[p] = "wait"
        /\ pc[p] = "wake" => op[p] = "post"
        /\ pc[p] = "enqueued" => InLine(p)
    BY DEF IInv, Types, TypeOK, Calls, Waiting
  <2>4. Holds(p)' <=> Holds(p)
    BY <1>0, <2>2, <2>3, HoldsNow, HoldsNext
  <2>5. value'[Mutex] = value[Mutex]
    BY DEF Post, Call
  <2> QED
    BY <2>1, <2>4, <2>5, TokenStays DEF IInv
<1>7. Undisturbed'
  <2>1. p \notin KernelProc => ~intr'[p]
    BY DEF IInv, Types, TypeOK, Post, Call
  <2> QED
    BY <1>0, <2>1
    DEF IInv, Types, TypeOK, Undisturbed, Cpu, Wait, Post, Call, Label
<1>8. Woken'
    BY <1>0
    DEF IInv, Types, TypeOK, Place, Label, Calls, Woken, Undisturbed, Cpu, Waiting, Post,
        Call
<1>9. Taken'
    BY <1>0
    DEF IInv, Types, TypeOK, Place, Label, Taken, Locked, Post, Call
<1> QED
    BY <1>1, <1>2, <1>3, <1>4, <1>5, <1>6, <1>7, <1>8, <1>9 DEF IInv

\* is_semaphore_valid takes the registry's lock
LEMMA LockRegistryInv ==
    ASSUME IInv, NEW p \in Proc, LockRegistry(p), UNCHANGED clientVars
    PROVE  IInv'
<1>0. OnceEach' /\ \A q \in Proc : InLine(q)' <=> InLine(q)
    BY SameLine DEF IInv, Waiting, LockRegistry
<1>1. Types'
    BY <1>0
    DEF IInv, Types, TypeOK, Place, Label, LockRegistry
<1>2. Calls'
    BY <1>0
    DEF IInv, Types, TypeOK, Place, Label, Calls, LockRegistry
<1>3. Locked'
    BY <1>0
    DEF IInv, Types, TypeOK, Place, Label, Calls, Locked, LockRegistry
<1>4. Cpu'
    BY <1>0
    DEF IInv, Types, TypeOK, Place, Label, Cpu, LockRegistry
<1>5. Waiting'
    BY <1>0
    DEF IInv, Types, TypeOK, Place, Label, Calls, Cpu, Waiting, Locked, LockRegistry
<1>6. Token'
  <2>1. ASSUME NEW q \in Proc, q # p PROVE Holds(q)' <=> Holds(q)
    <3>1. at'[q] = at[q] /\ pc'[q] = pc[q] /\ op'[q] = op[q]
      BY <2>1 DEF IInv, Types, TypeOK, LockRegistry
    <3> QED
      BY <1>0, <3>1, HoldsSame
  <2>2. pc[p] = "registry" /\ pc'[p] = "lookup" /\ at'[p] = at[p] /\ op'[p] = op[p]
    BY DEF IInv, Types, TypeOK, LockRegistry
  <2>3. /\ pc[p] # "user" /\ op[p] = "wait" => at[p] = "read"
        /\ pc[p] # "user" /\ op[p] = "post" => at[p] = "wait"
        /\ op[p] \in {"wait", "post"}
        /\ pc[p] \in {"enqueued", "block", "force", "reforce"} => op[p] = "wait"
        /\ pc[p] = "wake" => op[p] = "post"
        /\ pc[p] = "enqueued" => InLine(p)
    BY DEF IInv, Types, TypeOK, Calls, Waiting
  <2>4. Holds(p)' <=> Holds(p)
    BY <1>0, <2>2, <2>3, HoldsNow, HoldsNext
  <2>5. value'[Mutex] = value[Mutex]
    BY DEF LockRegistry
  <2> QED
    BY <2>1, <2>4, <2>5, TokenStays DEF IInv
<1>7. Undisturbed'
    BY <1>0
    DEF IInv, Types, TypeOK, Place, Label, Undisturbed, Waiting, Cpu, LockRegistry
<1>8. Woken'
    BY <1>0
    DEF IInv, Types, TypeOK, Place, Label, Calls, Woken, Undisturbed, Cpu, Waiting,
        LockRegistry
<1>9. Taken'
    BY <1>0
    DEF IInv, Types, TypeOK, Place, Label, Taken, Locked, LockRegistry
<1> QED
    BY <1>1, <1>2, <1>3, <1>4, <1>5, <1>6, <1>7, <1>8, <1>9 DEF IInv

\* and drops it.
LEMMA UnlockRegistryInv ==
    ASSUME IInv, NEW p \in Proc, UnlockRegistry(p), UNCHANGED clientVars
    PROVE  IInv'
<1>0. OnceEach' /\ \A q \in Proc : InLine(q)' <=> InLine(q)
    BY SameLine DEF IInv, Waiting, UnlockRegistry
<1>1. Types'
    BY <1>0
    DEF IInv, Types, TypeOK, Place, Label, UnlockRegistry
<1>2. Calls'
    BY <1>0
    DEF IInv, Types, TypeOK, Place, Label, Calls, UnlockRegistry
<1>3. Locked'
    BY <1>0
    DEF IInv, Types, TypeOK, Place, Label, Calls, Locked, UnlockRegistry
<1>4. Cpu'
    BY <1>0
    DEF IInv, Types, TypeOK, Place, Label, Cpu, UnlockRegistry
<1>5. Waiting'
    BY <1>0
    DEF IInv, Types, TypeOK, Place, Label, Calls, Cpu, Waiting, Locked, UnlockRegistry
<1>6. Token'
  <2>1. ASSUME NEW q \in Proc, q # p PROVE Holds(q)' <=> Holds(q)
    <3>1. at'[q] = at[q] /\ pc'[q] = pc[q] /\ op'[q] = op[q]
      BY <2>1 DEF IInv, Types, TypeOK, UnlockRegistry
    <3> QED
      BY <1>0, <3>1, HoldsSame
  <2>2. pc[p] = "lookup" /\ pc'[p] = "acquire" /\ at'[p] = at[p] /\ op'[p] = op[p]
    BY DEF IInv, Types, TypeOK, UnlockRegistry
  <2>3. /\ pc[p] # "user" /\ op[p] = "wait" => at[p] = "read"
        /\ pc[p] # "user" /\ op[p] = "post" => at[p] = "wait"
        /\ op[p] \in {"wait", "post"}
        /\ pc[p] \in {"enqueued", "block", "force", "reforce"} => op[p] = "wait"
        /\ pc[p] = "wake" => op[p] = "post"
        /\ pc[p] = "enqueued" => InLine(p)
    BY DEF IInv, Types, TypeOK, Calls, Waiting
  <2>4. Holds(p)' <=> Holds(p)
    BY <1>0, <2>2, <2>3, HoldsNow, HoldsNext
  <2>5. value'[Mutex] = value[Mutex]
    BY DEF UnlockRegistry
  <2> QED
    BY <2>1, <2>4, <2>5, TokenStays DEF IInv
<1>7. Undisturbed'
    BY <1>0
    DEF IInv, Types, TypeOK, Place, Label, Undisturbed, Waiting, Cpu, UnlockRegistry
<1>8. Woken'
    BY <1>0
    DEF IInv, Types, TypeOK, Place, Label, Calls, Woken, Undisturbed, Cpu, Waiting,
        UnlockRegistry
<1>9. Taken'
    BY <1>0
    DEF IInv, Types, TypeOK, Place, Label, Taken, Locked, UnlockRegistry
<1> QED
    BY <1>1, <1>2, <1>3, <1>4, <1>5, <1>6, <1>7, <1>8, <1>9 DEF IInv

\* The semaphore is locked
LEMMA LockInv ==
    ASSUME IInv, NEW p \in Proc, semLock(p), UNCHANGED clientVars
    PROVE  IInv'
<1>0. OnceEach' /\ \A q \in Proc : InLine(q)' <=> InLine(q)
    BY SameLine DEF IInv, Waiting, semLock
<1>1. Types'
    BY <1>0
    DEF IInv, Types, TypeOK, Place, Label, semLock
<1>2. Calls'
    BY <1>0
    DEF IInv, Types, TypeOK, Place, Label, Calls, semLock
<1>3. Locked'
    BY <1>0
    DEF IInv, Types, TypeOK, Place, Label, Calls, Locked, semLock
<1>4. Cpu'
    BY <1>0
    DEF IInv, Types, TypeOK, Place, Label, Cpu, semLock
<1>5. Waiting'
    BY <1>0
    DEF IInv, Types, TypeOK, Place, Label, Calls, Cpu, Waiting, Locked, semLock
<1>6. Token'
  <2>1. ASSUME NEW q \in Proc, q # p PROVE Holds(q)' <=> Holds(q)
    <3>1. at'[q] = at[q] /\ pc'[q] = pc[q] /\ op'[q] = op[q]
      BY <2>1 DEF IInv, Types, TypeOK, semLock
    <3> QED
      BY <1>0, <3>1, HoldsSame
  <2>2. pc[p] = "acquire" /\ pc'[p] = "decide" /\ at'[p] = at[p] /\ op'[p] = op[p]
    BY DEF IInv, Types, TypeOK, semLock
  <2>3. /\ pc[p] # "user" /\ op[p] = "wait" => at[p] = "read"
        /\ pc[p] # "user" /\ op[p] = "post" => at[p] = "wait"
        /\ op[p] \in {"wait", "post"}
        /\ pc[p] \in {"enqueued", "block", "force", "reforce"} => op[p] = "wait"
        /\ pc[p] = "wake" => op[p] = "post"
        /\ pc[p] = "enqueued" => InLine(p)
    BY DEF IInv, Types, TypeOK, Calls, Waiting
  <2>4. Holds(p)' <=> Holds(p)
    BY <1>0, <2>2, <2>3, HoldsNow, HoldsNext
  <2>5. value'[Mutex] = value[Mutex]
    BY DEF semLock
  <2> QED
    BY <2>1, <2>4, <2>5, TokenStays DEF IInv
<1>7. Undisturbed'
    BY <1>0
    DEF IInv, Types, TypeOK, Place, Label, Undisturbed, Waiting, Cpu, semLock
<1>8. Woken'
    BY <1>0
    DEF IInv, Types, TypeOK, Place, Label, Calls, Woken, Undisturbed, Cpu, Waiting, semLock
<1>9. Taken'
    BY <1>0
    DEF IInv, Types, TypeOK, Place, Label, Taken, Locked, semLock
<1> QED
    BY <1>1, <1>2, <1>3, <1>4, <1>5, <1>6, <1>7, <1>8, <1>9 DEF IInv

\* and unlocked.
LEMMA UnlockInv ==
    ASSUME IInv, NEW p \in Proc, semUnlock(p), UNCHANGED clientVars
    PROVE  IInv'
<1>0. OnceEach' /\ \A q \in Proc : InLine(q)' <=> InLine(q)
    BY SameLine DEF IInv, Waiting, semUnlock
<1>1. Types'
    BY <1>0
    DEF IInv, Types, TypeOK, Place, Label, semUnlock
<1>2. Calls'
    BY <1>0
    DEF IInv, Types, TypeOK, Place, Label, Calls, semUnlock
<1>3. Locked'
    BY <1>0
    DEF IInv, Types, TypeOK, Place, Label, Calls, Locked, semUnlock
<1>4. Cpu'
    BY <1>0
    DEF IInv, Types, TypeOK, Place, Label, Cpu, semUnlock
<1>5. Waiting'
    BY <1>0
    DEF IInv, Types, TypeOK, Place, Label, Calls, Cpu, Waiting, Locked, semUnlock
<1>6. Token'
  <2>1. ASSUME NEW q \in Proc, q # p PROVE Holds(q)' <=> Holds(q)
    <3>1. at'[q] = at[q] /\ pc'[q] = pc[q] /\ op'[q] = op[q]
      BY <2>1 DEF IInv, Types, TypeOK, semUnlock
    <3> QED
      BY <1>0, <3>1, HoldsSame
  <2>2. pc[p] = "release" /\ pc'[p] = "user" /\ at'[p] = at[p] /\ op'[p] = op[p]
    BY DEF IInv, Types, TypeOK, semUnlock
  <2>3. /\ pc[p] # "user" /\ op[p] = "wait" => at[p] = "read"
        /\ pc[p] # "user" /\ op[p] = "post" => at[p] = "wait"
        /\ op[p] \in {"wait", "post"}
        /\ pc[p] \in {"enqueued", "block", "force", "reforce"} => op[p] = "wait"
        /\ pc[p] = "wake" => op[p] = "post"
        /\ pc[p] = "enqueued" => InLine(p)
    BY DEF IInv, Types, TypeOK, Calls, Waiting
  <2>4. Holds(p)' <=> Holds(p)
    BY <1>0, <2>2, <2>3, HoldsNow, HoldsNext
  <2>5. value'[Mutex] = value[Mutex]
    BY DEF semUnlock
  <2> QED
    BY <2>1, <2>4, <2>5, TokenStays DEF IInv
<1>7. Undisturbed'
    BY <1>0
    DEF IInv, Types, TypeOK, Place, Label, Undisturbed, Waiting, Cpu, semUnlock
<1>8. Woken'
    BY <1>0
    DEF IInv, Types, TypeOK, Place, Label, Calls, Woken, Undisturbed, Cpu, Waiting,
        semUnlock
<1>9. Taken'
    BY <1>0
    DEF IInv, Types, TypeOK, Place, Label, Taken, Locked, semUnlock
<1> QED
    BY <1>1, <1>2, <1>3, <1>4, <1>5, <1>6, <1>7, <1>8, <1>9 DEF IInv

\* A wait takes the token.
LEMMA TakeInv ==
    ASSUME IInv, NEW p \in Proc, semWait_take(p), UNCHANGED clientVars
    PROVE  IInv'
<1>0. OnceEach' /\ \A q \in Proc : InLine(q)' <=> InLine(q)
    BY SameLine DEF IInv, Waiting, semWait_take
<1>1. Types'
  <2>1. value' \in [Sem -> Nat]
    BY DEF IInv, Types, TypeOK, Calls, semWait_take
  <2> QED
    BY <2>1 DEF IInv, Types, TypeOK, Place, Label, semWait_take
<1>2. Calls'
    BY <1>0
    DEF IInv, Types, TypeOK, Place, Label, Calls, semWait_take
<1>3. Locked'
    BY <1>0
    DEF IInv, Types, TypeOK, Place, Label, Calls, Locked, semWait_take
<1>4. Cpu'
    BY <1>0
    DEF IInv, Types, TypeOK, Place, Label, Cpu, semWait_take
<1>5. Waiting'
    BY <1>0
    DEF IInv, Types, TypeOK, Place, Label, Calls, Cpu, Waiting, Locked, semWait_take
<1>6. Token'
  <2>1. ASSUME NEW q \in Proc, q # p PROVE Holds(q)' <=> Holds(q)
    <3>1. at'[q] = at[q] /\ pc'[q] = pc[q] /\ op'[q] = op[q]
      BY <2>1 DEF IInv, Types, TypeOK, semWait_take
    <3> QED
      BY <1>0, <3>1, HoldsSame
  <2>2. pc[p] = "decide" /\ pc'[p] = "release" /\ at'[p] = at[p] /\ op[p] = "wait" /\ op'[p] = op[p]
    BY DEF IInv, Types, TypeOK, semWait_take
  <2>3. /\ pc[p] # "user" /\ op[p] = "wait" => at[p] = "read"
        /\ pc[p] # "user" /\ op[p] = "post" => at[p] = "wait"
        /\ op[p] \in {"wait", "post"}
        /\ pc[p] \in {"enqueued", "block", "force", "reforce"} => op[p] = "wait"
        /\ pc[p] = "wake" => op[p] = "post"
        /\ pc[p] = "enqueued" => InLine(p)
    BY DEF IInv, Types, TypeOK, Calls, Waiting
  <2>4. Holds(p)'
    BY <1>0, <2>2, <2>3, HoldsNext
  <2>5. value[Mutex] = 1 /\ value'[Mutex] = 0
    BY DEF IInv, Token, Calls, Types, TypeOK, semWait_take
  <2> QED
    BY <2>1, <2>4, <2>5, TokenTaken DEF IInv
<1>7. Undisturbed'
    BY <1>0
    DEF IInv, Types, TypeOK, Place, Label, Undisturbed, Waiting, Cpu, semWait_take
<1>8. Woken'
    BY <1>0
    DEF IInv, Types, TypeOK, Place, Label, Calls, Woken, Undisturbed, Cpu, Waiting,
        semWait_take
<1>9. Taken'
    BY <1>0
    DEF IInv, Types, TypeOK, Place, Label, Taken, Locked, semWait_take
<1> QED
    BY <1>1, <1>2, <1>3, <1>4, <1>5, <1>6, <1>7, <1>8, <1>9 DEF IInv

\* A waiter unlocks the semaphore
LEMMA DropLockInv ==
    ASSUME IInv, NEW p \in Proc, semWait_unlock(p), UNCHANGED clientVars
    PROVE  IInv'
<1>0. OnceEach' /\ \A q \in Proc : InLine(q)' <=> InLine(q)
    BY SameLine DEF IInv, Waiting, semWait_unlock
<1>1. Types'
    BY <1>0
    DEF IInv, Types, TypeOK, Place, Label, semWait_unlock
<1>2. Calls'
    BY <1>0
    DEF IInv, Types, TypeOK, Place, Label, Calls, semWait_unlock
<1>3. Locked'
    BY <1>0
    DEF IInv, Types, TypeOK, Place, Label, Calls, Locked, semWait_unlock
<1>4. Cpu'
    BY <1>0
    DEF IInv, Types, TypeOK, Place, Label, Cpu, semWait_unlock
<1>5. Waiting'
    BY <1>0
    DEF IInv, Types, TypeOK, Place, Label, Calls, Cpu, Waiting, Locked, semWait_unlock
<1>6. Token'
  <2>1. ASSUME NEW q \in Proc, q # p PROVE Holds(q)' <=> Holds(q)
    <3>1. at'[q] = at[q] /\ pc'[q] = pc[q] /\ op'[q] = op[q]
      BY <2>1 DEF IInv, Types, TypeOK, semWait_unlock
    <3> QED
      BY <1>0, <3>1, HoldsSame
  <2>2. pc[p] = "enqueued" /\ pc'[p] = "block" /\ at'[p] = at[p] /\ op'[p] = op[p]
    BY DEF IInv, Types, TypeOK, semWait_unlock
  <2>3. /\ pc[p] # "user" /\ op[p] = "wait" => at[p] = "read"
        /\ pc[p] # "user" /\ op[p] = "post" => at[p] = "wait"
        /\ op[p] \in {"wait", "post"}
        /\ pc[p] \in {"enqueued", "block", "force", "reforce"} => op[p] = "wait"
        /\ pc[p] = "wake" => op[p] = "post"
        /\ pc[p] = "enqueued" => InLine(p)
    BY DEF IInv, Types, TypeOK, Calls, Waiting
  <2>4. Holds(p)' <=> Holds(p)
    BY <1>0, <2>2, <2>3, HoldsNow, HoldsNext
  <2>5. value'[Mutex] = value[Mutex]
    BY DEF semWait_unlock
  <2> QED
    BY <2>1, <2>4, <2>5, TokenStays DEF IInv
<1>7. Undisturbed'
    BY <1>0
    DEF IInv, Types, TypeOK, Place, Label, Undisturbed, Waiting, Cpu, semWait_unlock
<1>8. Woken'
    BY <1>0
    DEF IInv, Types, TypeOK, Place, Label, Calls, Woken, Undisturbed, Cpu, Waiting,
        semWait_unlock
<1>9. Taken'
    BY <1>0
    DEF IInv, Types, TypeOK, Place, Label, Taken, Locked, semWait_unlock
<1> QED
    BY <1>1, <1>2, <1>3, <1>4, <1>5, <1>6, <1>7, <1>8, <1>9 DEF IInv

\* and blocks itself.
LEMMA BlockInv ==
    ASSUME IInv, NEW p \in Proc, block_process(p), UNCHANGED clientVars
    PROVE  IInv'
<1>0. OnceEach' /\ \A q \in Proc : InLine(q)' <=> InLine(q)
    BY SameLine DEF IInv, Waiting, block_process
<1>1. Types'
    BY <1>0
    DEF IInv, Types, TypeOK, Place, Label, block_process
<1>2. Calls'
    BY <1>0
    DEF IInv, Types, TypeOK, Place, Label, Calls, block_process
<1>3. Locked'
    BY <1>0
    DEF IInv, Types, TypeOK, Place, Label, Calls, Locked, block_process
<1>4. Cpu'
    BY <1>0
    DEF IInv, Types, TypeOK, Place, Label, Cpu, block_process
<1>5. Waiting'
    BY <1>0
    DEF IInv, Types, TypeOK, Place, Label, Calls, Cpu, Waiting, Locked, block_process
<1>6. Token'
  <2>1. ASSUME NEW q \in Proc, q # p PROVE Holds(q)' <=> Holds(q)
    <3>1. at'[q] = at[q] /\ pc'[q] = pc[q] /\ op'[q] = op[q]
      BY <2>1 DEF IInv, Types, TypeOK, block_process
    <3> QED
      BY <1>0, <3>1, HoldsSame
  <2>2. pc[p] = "block" /\ pc'[p] = "force" /\ at'[p] = at[p] /\ op'[p] = op[p]
    BY DEF IInv, Types, TypeOK, block_process
  <2>3. /\ pc[p] # "user" /\ op[p] = "wait" => at[p] = "read"
        /\ pc[p] # "user" /\ op[p] = "post" => at[p] = "wait"
        /\ op[p] \in {"wait", "post"}
        /\ pc[p] \in {"enqueued", "block", "force", "reforce"} => op[p] = "wait"
        /\ pc[p] = "wake" => op[p] = "post"
        /\ pc[p] = "enqueued" => InLine(p)
    BY DEF IInv, Types, TypeOK, Calls, Waiting
  <2>4. Holds(p)' <=> Holds(p)
    BY <1>0, <2>2, <2>3, HoldsNow, HoldsNext
  <2>5. value'[Mutex] = value[Mutex]
    BY DEF block_process
  <2> QED
    BY <2>1, <2>4, <2>5, TokenStays DEF IInv
<1>7. Undisturbed'
    BY <1>0
    DEF IInv, Types, TypeOK, Place, Label, Undisturbed, Waiting, Cpu, block_process
<1>8. Woken'
    BY <1>0
    DEF IInv, Types, TypeOK, Place, Label, Calls, Woken, Undisturbed, Cpu, Waiting,
        block_process
<1>9. Taken'
    BY <1>0
    DEF IInv, Types, TypeOK, Place, Label, Taken, Locked, block_process
<1> QED
    BY <1>1, <1>2, <1>3, <1>4, <1>5, <1>6, <1>7, <1>8, <1>9 DEF IInv

\* A post leaves the token in the semaphore.
LEMMA IncrementInv ==
    ASSUME IInv, NEW p \in Proc, semPost_increment(p), UNCHANGED clientVars
    PROVE  IInv'
<1>0. OnceEach' /\ \A q \in Proc : InLine(q)' <=> InLine(q)
    BY SameLine DEF IInv, Waiting, semPost_increment
<1>1. Types'
  <2>1. value' \in [Sem -> Nat]
    BY DEF IInv, Types, TypeOK, Calls, semPost_increment
  <2> QED
    BY <2>1 DEF IInv, Types, TypeOK, Place, Label, semPost_increment
<1>2. Calls'
    BY <1>0
    DEF IInv, Types, TypeOK, Place, Label, Calls, semPost_increment
<1>3. Locked'
    BY <1>0
    DEF IInv, Types, TypeOK, Place, Label, Calls, Locked, semPost_increment
<1>4. Cpu'
    BY <1>0
    DEF IInv, Types, TypeOK, Place, Label, Cpu, semPost_increment
<1>5. Waiting'
    BY <1>0
    DEF IInv, Types, TypeOK, Place, Label, Calls, Cpu, Waiting, Locked, semPost_increment
<1>6. Token'
  <2>1. ASSUME NEW q \in Proc, q # p PROVE Holds(q)' <=> Holds(q)
    <3>1. at'[q] = at[q] /\ pc'[q] = pc[q] /\ op'[q] = op[q]
      BY <2>1 DEF IInv, Types, TypeOK, semPost_increment
    <3> QED
      BY <1>0, <3>1, HoldsSame
  <2>2. pc[p] = "decide" /\ pc'[p] = "release" /\ at'[p] = at[p] /\ op[p] = "post" /\ op'[p] = op[p]
    BY DEF IInv, Types, TypeOK, semPost_increment
  <2>3. /\ pc[p] # "user" /\ op[p] = "wait" => at[p] = "read"
        /\ pc[p] # "user" /\ op[p] = "post" => at[p] = "wait"
        /\ op[p] \in {"wait", "post"}
        /\ pc[p] \in {"enqueued", "block", "force", "reforce"} => op[p] = "wait"
        /\ pc[p] = "wake" => op[p] = "post"
        /\ pc[p] = "enqueued" => InLine(p)
    BY DEF IInv, Types, TypeOK, Calls, Waiting
  <2>4. Holds(p) /\ ~Holds(p)'
    BY <1>0, <2>2, <2>3, HoldsNow, HoldsNext
  <2>5. value[Mutex] = 0
    BY <2>4 DEF IInv, Token
  <2>6. (0 + 1) % 65536 = 1
    OBVIOUS
  <2>7. value'[Mutex] = 1
    BY <2>5, <2>6 DEF IInv, Calls, Types, TypeOK, semPost_increment
  <2> QED
    BY <2>1, <2>4, <2>7, TokenLeft DEF IInv
<1>7. Undisturbed'
    BY <1>0
    DEF IInv, Types, TypeOK, Place, Label, Undisturbed, Waiting, Cpu, semPost_increment
<1>8. Woken'
    BY <1>0
    DEF IInv, Types, TypeOK, Place, Label, Calls, Woken, Undisturbed, Cpu, Waiting,
        semPost_increment
<1>9. Taken'
    BY <1>0
    DEF IInv, Types, TypeOK, Place, Label, Taken, Locked, semPost_increment
<1> QED
    BY <1>1, <1>2, <1>3, <1>4, <1>5, <1>6, <1>7, <1>8, <1>9 DEF IInv

\* A post wakes the process it took out.
LEMMA unBlockInv ==
    ASSUME IInv, NEW p \in Proc, unblock_process(p), UNCHANGED clientVars
    PROVE  IInv'
<1>0. OnceEach' /\ \A q \in Proc : InLine(q)' <=> InLine(q)
    BY SameLine DEF IInv, Waiting, unblock_process
<1>1. Types'
    BY ZenonT(60), <1>0
    DEF IInv, Types, TypeOK, Place, Label, unblock_process
<1>2. Calls'
    BY <1>0
    DEF IInv, Types, TypeOK, Place, Label, Calls, unblock_process
<1>3. Locked'
    BY <1>0
    DEF IInv, Types, TypeOK, Place, Label, Calls, Locked, unblock_process
<1>4. Cpu'
    BY <1>0
    DEF IInv, Types, TypeOK, Place, Label, Cpu, unblock_process
<1>5. Waiting'
  <2>1. ASSUME NEW q \in Proc, InLine(q)
        PROVE  pc'[q] = pc[q] /\ (state[q] = "BLOCKED" => q # unblocked_pid[p])
    BY ZenonT(60), <2>1 DEF IInv, Types, TypeOK, Waiting, Taken, unblock_process
  <2> QED
    BY <1>0, <2>1 DEF IInv, Types, TypeOK, Waiting, Taken, unblock_process, Label
<1>6. Token'
  <2>1. ASSUME NEW q \in Proc, q # p PROVE Holds(q)' <=> Holds(q)
    <3>1. at'[q] = at[q] /\ pc'[q] = pc[q] /\ op'[q] = op[q]
      BY <2>1 DEF IInv, Types, TypeOK, unblock_process
    <3> QED
      BY <1>0, <3>1, HoldsSame
  <2>2. pc[p] = "wake" /\ pc'[p] = "release" /\ at'[p] = at[p] /\ op'[p] = op[p]
    BY DEF IInv, Types, TypeOK, unblock_process
  <2>3. /\ pc[p] # "user" /\ op[p] = "wait" => at[p] = "read"
        /\ pc[p] # "user" /\ op[p] = "post" => at[p] = "wait"
        /\ op[p] \in {"wait", "post"}
        /\ pc[p] \in {"enqueued", "block", "force", "reforce"} => op[p] = "wait"
        /\ pc[p] = "wake" => op[p] = "post"
        /\ pc[p] = "enqueued" => InLine(p)
    BY DEF IInv, Types, TypeOK, Calls, Waiting
  <2>4. Holds(p)' <=> Holds(p)
    BY <1>0, <2>2, <2>3, HoldsNow, HoldsNext
  <2>5. value'[Mutex] = value[Mutex]
    BY DEF unblock_process
  <2> QED
    BY <2>1, <2>4, <2>5, TokenStays DEF IInv
<1>7. Undisturbed'
    BY <1>0
    DEF IInv, Types, TypeOK, Place, Label, Undisturbed, Waiting, Cpu, unblock_process
<1>8. Woken'
  <2>1. ASSUME NEW q \in Proc \ KernelProc, state'[q] = "BLOCKED", ~InLine(q)'
        PROVE  \E r \in Proc : pc'[r] = "wake" /\ unblocked_pid'[r] = q
    <3>1. state[q] = "BLOCKED"
      BY <2>1 DEF IInv, Types, TypeOK, Taken, unblock_process
    <3>2. PICK r \in Proc : pc[r] = "wake" /\ unblocked_pid[r] = q
      BY <1>0, <2>1, <3>1 DEF IInv, Woken
    <3>3. r # p
      BY <2>1, <3>1, <3>2 DEF IInv, Types, TypeOK, unblock_process
    <3> QED
      BY <3>2, <3>3 DEF IInv, Types, TypeOK, unblock_process
  <2> QED
    BY <2>1 DEF Woken
<1>9. Taken'
    BY <1>0
    DEF IInv, Types, TypeOK, Place, Label, Taken, Locked, unblock_process
<1> QED
    BY <1>1, <1>2, <1>3, <1>4, <1>5, <1>6, <1>7, <1>8, <1>9 DEF IInv

\* A process yields.
LEMMA YieldInv ==
    ASSUME IInv, NEW p \in Proc, Yield(p)
    PROVE  IInv'
<1>0. /\ state' \in [Proc -> {"READY", "RUNNING", "BLOCKED", "TERMINATED"}]
      /\ running_process' \in Proc \cup {Idle}
      /\ \A q \in Proc : state'[q] = "RUNNING" <=> running_process' = q
      /\ \A q \in Proc : state'[q] = "BLOCKED" <=> state[q] = "BLOCKED"
      /\ OnceEach' /\ \A q \in Proc : InLine(q)' <=> InLine(q)
  <2>1. OnceEach' /\ \A q \in Proc : InLine(q)' <=> InLine(q)
    BY SameLine DEF IInv, Waiting, Yield
  <2> QED
    BY <2>1, ScheduleFacts DEF IInv, Types, TypeOK, Yield
<1>1. Types'
    BY <1>0
    DEF IInv, Types, TypeOK, Place, Label, Yield
<1>2. Calls'
    BY <1>0
    DEF IInv, Types, TypeOK, Place, Label, Calls, Yield
<1>3. Locked'
    BY <1>0
    DEF IInv, Types, TypeOK, Place, Label, Calls, Locked, Yield
<1>4. Cpu'
    BY <1>0
    DEF IInv, Types, TypeOK, Place, Label, Cpu, Yield
<1>5. Waiting'
    BY <1>0
    DEF IInv, Types, TypeOK, Place, Label, Calls, Cpu, Waiting, Locked, Yield
<1>6. Token'
  <2>1. ASSUME NEW q \in Proc, q # p PROVE Holds(q)' <=> Holds(q)
    <3>1. at'[q] = at[q] /\ pc'[q] = pc[q] /\ op'[q] = op[q]
      BY <2>1 DEF IInv, Types, TypeOK, Yield
    <3> QED
      BY <1>0, <3>1, HoldsSame
  <2>2. pc[p] = "user" /\ pc'[p] = "user" /\ at[p] = "yield" /\ at'[p] = "write" /\ op'[p] = op[p]
    BY DEF IInv, Types, TypeOK, Yield
  <2>3. /\ pc[p] # "user" /\ op[p] = "wait" => at[p] = "read"
        /\ pc[p] # "user" /\ op[p] = "post" => at[p] = "wait"
        /\ op[p] \in {"wait", "post"}
        /\ pc[p] \in {"enqueued", "block", "force", "reforce"} => op[p] = "wait"
        /\ pc[p] = "wake" => op[p] = "post"
        /\ pc[p] = "enqueued" => InLine(p)
    BY DEF IInv, Types, TypeOK, Calls, Waiting
  <2>4. Holds(p)' <=> Holds(p)
    BY <1>0, <2>2, <2>3, HoldsNow, HoldsNext
  <2>5. value'[Mutex] = value[Mutex]
    BY DEF Yield
  <2> QED
    BY <2>1, <2>4, <2>5, TokenStays DEF IInv
<1>7. Undisturbed'
    BY <1>0
    DEF IInv, Types, TypeOK, Place, Label, Undisturbed, Waiting, Cpu, Yield
<1>8. Woken'
    BY <1>0
    DEF IInv, Types, TypeOK, Place, Label, Calls, Woken, Undisturbed, Cpu, Waiting, Yield
<1>9. Taken'
    BY <1>0
    DEF IInv, Types, TypeOK, Place, Label, Taken, Locked, Yield
<1> QED
    BY <1>1, <1>2, <1>3, <1>4, <1>5, <1>6, <1>7, <1>8, <1>9 DEF IInv

\* A process that has blocked itself gives up the CPU.
LEMMA ForceInv ==
    ASSUME IInv, NEW p \in Proc, ForceSchedule(p), UNCHANGED clientVars
    PROVE  IInv'
<1>0. /\ state' \in [Proc -> {"READY", "RUNNING", "BLOCKED", "TERMINATED"}]
      /\ running_process' \in Proc \cup {Idle}
      /\ \A q \in Proc : state'[q] = "RUNNING" <=> running_process' = q
      /\ \A q \in Proc : state'[q] = "BLOCKED" <=> state[q] = "BLOCKED"
      /\ OnceEach' /\ \A q \in Proc : InLine(q)' <=> InLine(q)
  <2>1. OnceEach' /\ \A q \in Proc : InLine(q)' <=> InLine(q)
    BY SameLine DEF IInv, Waiting, ForceSchedule
  <2> QED
    BY <2>1, ScheduleFacts DEF IInv, Types, TypeOK, ForceSchedule
<1>1. Types'
    BY <1>0
    DEF IInv, Types, TypeOK, Place, Label, ForceSchedule
<1>2. Calls'
    BY <1>0
    DEF IInv, Types, TypeOK, Place, Label, Calls, ForceSchedule
<1>3. Locked'
    BY <1>0
    DEF IInv, Types, TypeOK, Place, Label, Calls, Locked, ForceSchedule
<1>4. Cpu'
    BY <1>0
    DEF IInv, Types, TypeOK, Place, Label, Cpu, ForceSchedule
<1>5. Waiting'
    BY <1>0
    DEF IInv, Types, TypeOK, Place, Label, Calls, Cpu, Waiting, Locked, ForceSchedule
<1>6. Token'
  <2>1. ASSUME NEW q \in Proc, q # p PROVE Holds(q)' <=> Holds(q)
    <3>1. at'[q] = at[q] /\ pc'[q] = pc[q] /\ op'[q] = op[q]
      BY <2>1 DEF IInv, Types, TypeOK, ForceSchedule
    <3> QED
      BY <1>0, <3>1, HoldsSame
  <2>2. /\ at'[p] = at[p] /\ op'[p] = op[p]
        /\ \/ pc[p] = "force" /\ pc'[p] = "reforce"
           \/ pc[p] = "reforce" /\ pc'[p] = "user" /\ ~InLine(p)
    BY DEF IInv, Waiting, Cpu, Types, TypeOK, ForceSchedule
  <2>3. /\ pc[p] # "user" /\ op[p] = "wait" => at[p] = "read"
        /\ pc[p] # "user" /\ op[p] = "post" => at[p] = "wait"
        /\ op[p] \in {"wait", "post"}
        /\ pc[p] \in {"enqueued", "block", "force", "reforce"} => op[p] = "wait"
        /\ pc[p] = "wake" => op[p] = "post"
        /\ pc[p] = "enqueued" => InLine(p)
    BY DEF IInv, Types, TypeOK, Calls, Waiting
  <2>4. Holds(p)' <=> Holds(p)
    BY <1>0, <2>2, <2>3, HoldsNow, HoldsNext
  <2>5. value'[Mutex] = value[Mutex]
    BY DEF ForceSchedule
  <2> QED
    BY <2>1, <2>4, <2>5, TokenStays DEF IInv
<1>7. Undisturbed'
    BY <1>0
    DEF IInv, Types, TypeOK, Place, Label, Undisturbed, Waiting, Cpu, ForceSchedule
<1>8. Woken'
    BY <1>0
    DEF IInv, Types, TypeOK, Place, Label, Calls, Woken, Undisturbed, Cpu, Waiting,
        ForceSchedule
<1>9. Taken'
    BY <1>0
    DEF IInv, Types, TypeOK, Place, Label, Taken, Locked, ForceSchedule
<1> QED
    BY <1>1, <1>2, <1>3, <1>4, <1>5, <1>6, <1>7, <1>8, <1>9 DEF IInv

\* A process returns.
LEMMA ExitInv ==
    ASSUME IInv, NEW p \in Proc, Exit(p)
    PROVE  IInv'
<1>0. /\ state' \in [Proc -> {"READY", "RUNNING", "BLOCKED", "TERMINATED"}]
      /\ running_process' \in Proc \cup {Idle}
      /\ \A q \in Proc : state'[q] = "RUNNING" <=> running_process' = q
      /\ \A q \in Proc : state'[q] = "BLOCKED" <=> state[q] = "BLOCKED"
      /\ OnceEach' /\ \A q \in Proc : InLine(q)' <=> InLine(q)
  <2>1. OnceEach' /\ \A q \in Proc : InLine(q)' <=> InLine(q)
    BY SameLine DEF IInv, Waiting, Exit
  <2>2. /\ [state EXCEPT ![p] = "TERMINATED"] \in [Proc -> {"READY", "RUNNING", "BLOCKED", "TERMINATED"}]
        /\ \A q \in Proc : [state EXCEPT ![p] = "TERMINATED"][q] = "BLOCKED" <=> state[q] = "BLOCKED"
    BY DEF IInv, Types, TypeOK, Cpu, Exit
  <2> QED
    BY ZenonT(60), <2>1, <2>2, ScheduleFacts DEF IInv, Types, TypeOK, Exit
<1>1. Types'
    BY <1>0
    DEF IInv, Types, TypeOK, Place, Label, Exit
<1>2. Calls'
    BY <1>0
    DEF IInv, Types, TypeOK, Place, Label, Calls, Exit
<1>3. Locked'
    BY <1>0
    DEF IInv, Types, TypeOK, Place, Label, Calls, Locked, Exit
<1>4. Cpu'
    BY <1>0
    DEF IInv, Types, TypeOK, Place, Label, Cpu, Exit
<1>5. Waiting'
    BY <1>0
    DEF IInv, Types, TypeOK, Place, Label, Calls, Cpu, Waiting, Locked, Exit
<1>6. Token'
  <2>1. ASSUME NEW q \in Proc, q # p PROVE Holds(q)' <=> Holds(q)
    <3>1. at'[q] = at[q] /\ pc'[q] = pc[q] /\ op'[q] = op[q]
      BY <2>1 DEF IInv, Types, TypeOK, Exit
    <3> QED
      BY <1>0, <3>1, HoldsSame
  <2>2. pc[p] = "user" /\ pc'[p] = "user" /\ at'[p] = at[p] /\ op'[p] = op[p]
    BY DEF IInv, Types, TypeOK, Exit
  <2>3. /\ pc[p] # "user" /\ op[p] = "wait" => at[p] = "read"
        /\ pc[p] # "user" /\ op[p] = "post" => at[p] = "wait"
        /\ op[p] \in {"wait", "post"}
        /\ pc[p] \in {"enqueued", "block", "force", "reforce"} => op[p] = "wait"
        /\ pc[p] = "wake" => op[p] = "post"
        /\ pc[p] = "enqueued" => InLine(p)
    BY DEF IInv, Types, TypeOK, Calls, Waiting
  <2>4. Holds(p)' <=> Holds(p)
    BY <1>0, <2>2, <2>3, HoldsNow, HoldsNext
  <2>5. value'[Mutex] = value[Mutex]
    BY DEF Exit
  <2> QED
    BY <2>1, <2>4, <2>5, TokenStays DEF IInv
<1>7. Undisturbed'
    BY <1>0
    DEF IInv, Types, TypeOK, Place, Label, Undisturbed, Waiting, Cpu, Exit
<1>8. Woken'
    BY <1>0
    DEF IInv, Types, TypeOK, Place, Label, Calls, Woken, Undisturbed, Cpu, Waiting, Exit
<1>9. Taken'
    BY <1>0
    DEF IInv, Types, TypeOK, Place, Label, Taken, Locked, Exit
<1> QED
    BY <1>1, <1>2, <1>3, <1>4, <1>5, <1>6, <1>7, <1>8, <1>9 DEF IInv

\* The timer interrupts.
LEMMA TickInv ==
    ASSUME IInv, TimerTick, UNCHANGED clientVars
    PROVE  IInv'
<1>0. /\ state' \in [Proc -> {"READY", "RUNNING", "BLOCKED", "TERMINATED"}]
      /\ running_process' \in Proc \cup {Idle}
      /\ \A q \in Proc : state'[q] = "RUNNING" <=> running_process' = q
      /\ \A q \in Proc : state'[q] = "BLOCKED" <=> state[q] = "BLOCKED"
      /\ OnceEach' /\ \A q \in Proc : InLine(q)' <=> InLine(q)
  <2>1. OnceEach' /\ \A q \in Proc : InLine(q)' <=> InLine(q)
    BY SameLine DEF IInv, Waiting, TimerTick
  <2> QED
    BY <2>1, ScheduleFacts DEF IInv, Types, TypeOK, TimerTick
<1>1. Types'
    BY <1>0
    DEF IInv, Types, TypeOK, Place, Label, TimerTick
<1>2. Calls'
    BY <1>0
    DEF IInv, Types, TypeOK, Place, Label, Calls, TimerTick
<1>3. Locked'
    BY <1>0
    DEF IInv, Types, TypeOK, Place, Label, Calls, Locked, TimerTick
<1>4. Cpu'
    BY <1>0
    DEF IInv, Types, TypeOK, Place, Label, Cpu, TimerTick
<1>5. Waiting'
    BY <1>0
    DEF IInv, Types, TypeOK, Place, Label, Calls, Cpu, Waiting, Locked, TimerTick
<1>6. Token'
  <2>1. ASSUME NEW q \in Proc PROVE Holds(q)' <=> Holds(q)
    <3>1. at'[q] = at[q] /\ pc'[q] = pc[q] /\ op'[q] = op[q]
      BY DEF TimerTick
    <3> QED
      BY <1>0, <3>1, HoldsSame
  <2>2. value' = value
    BY DEF TimerTick
  <2> QED
    BY <2>1, <2>2, TokenStays DEF IInv
<1>7. Undisturbed'
    BY SMTT(40), <1>0
    DEF IInv, Types, TypeOK, Place, Label, Undisturbed, Waiting, Cpu, TimerTick
<1>8. Woken'
    BY <1>0
    DEF IInv, Types, TypeOK, Place, Label, Calls, Woken, Undisturbed, Cpu, Waiting,
        TimerTick
<1>9. Taken'
    BY <1>0
    DEF IInv, Types, TypeOK, Place, Label, Taken, Locked, TimerTick
<1> QED
    BY <1>1, <1>2, <1>3, <1>4, <1>5, <1>6, <1>7, <1>8, <1>9 DEF IInv

\* A waiter joins the line.
LEMMA EnqueueInv ==
    ASSUME IInv, NEW p \in Proc, semWait_enqueue(p), UNCHANGED clientVars
    PROVE  IInv'
<1>0. /\ target[p] = Mutex /\ op[p] = "wait" /\ at[p] = "read" /\ pc[p] = "decide" /\ ~InLine(p)
      /\ blockedProcesses' \in [Sem -> Seq(Proc)] /\ OnceEach'
      /\ \A q \in Proc : InLine(q)' <=> InLine(q) \/ q = p
  <2>1. target[p] = Mutex /\ op[p] = "wait" /\ at[p] = "read" /\ pc[p] = "decide" /\ ~InLine(p)
    BY DEF IInv, Calls, Waiting, semWait_enqueue
  <2> QED
    BY <2>1, JoinLine DEF IInv, Waiting, semWait_enqueue
<1>1. Types'
    BY <1>0
    DEF IInv, Types, TypeOK, Place, Label, semWait_enqueue
<1>2. Calls'
    BY <1>0
    DEF IInv, Types, TypeOK, Place, Label, Calls, semWait_enqueue
<1>3. Locked'
    BY <1>0
    DEF IInv, Types, TypeOK, Place, Label, Calls, Locked, semWait_enqueue
<1>4. Cpu'
    BY <1>0
    DEF IInv, Types, TypeOK, Place, Label, Cpu, semWait_enqueue
<1>5. Waiting'
    BY <1>0
    DEF IInv, Types, TypeOK, Place, Label, Calls, Cpu, Waiting, Locked, semWait_enqueue
<1>6. Token'
  <2>1. ASSUME NEW q \in Proc, q # p PROVE Holds(q)' <=> Holds(q)
    <3>1. at'[q] = at[q] /\ pc'[q] = pc[q] /\ op'[q] = op[q]
      BY <2>1 DEF IInv, Types, TypeOK, semWait_enqueue
    <3> QED
      BY <1>0, <2>1, <3>1, HoldsSame
  <2>2. pc[p] = "decide" /\ pc'[p] = "enqueued" /\ at'[p] = at[p] /\ op'[p] = op[p]
    BY DEF IInv, Types, TypeOK, semWait_enqueue
  <2>3. /\ pc[p] # "user" /\ op[p] = "wait" => at[p] = "read"
        /\ pc[p] # "user" /\ op[p] = "post" => at[p] = "wait"
        /\ op[p] \in {"wait", "post"}
        /\ pc[p] \in {"enqueued", "block", "force", "reforce"} => op[p] = "wait"
        /\ pc[p] = "wake" => op[p] = "post"
        /\ pc[p] = "enqueued" => InLine(p)
    BY DEF IInv, Types, TypeOK, Calls, Waiting
  <2>4. Holds(p)' <=> Holds(p)
    BY <1>0, <2>2, <2>3, HoldsNow, HoldsNext
  <2>5. value'[Mutex] = value[Mutex]
    BY DEF semWait_enqueue
  <2> QED
    BY <2>1, <2>4, <2>5, TokenStays DEF IInv
<1>7. Undisturbed'
    BY <1>0
    DEF IInv, Types, TypeOK, Place, Label, Undisturbed, Waiting, Cpu, semWait_enqueue
<1>8. Woken'
    BY <1>0
    DEF IInv, Types, TypeOK, Place, Label, Calls, Woken, Undisturbed, Cpu, Waiting,
        semWait_enqueue
<1>9. Taken'
    BY <1>0
    DEF IInv, Types, TypeOK, Place, Label, Taken, Locked, semWait_enqueue
<1> QED
    BY <1>1, <1>2, <1>3, <1>4, <1>5, <1>6, <1>7, <1>8, <1>9 DEF IInv

\* A post takes the first waiter out of the line.
LEMMA DequeueInv ==
    ASSUME IInv, NEW p \in Proc, semPost_dequeue(p), UNCHANGED clientVars
    PROVE  IInv'
<1>0. PICK h \in Proc :
      /\ target[p] = Mutex /\ op[p] = "post" /\ at[p] = "wait" /\ pc[p] = "decide" /\ ~InLine(p)
      /\ blockedProcesses' \in [Sem -> Seq(Proc)] /\ OnceEach'
      /\ InLine(h) /\ unblocked_pid' = [unblocked_pid EXCEPT ![p] = h]
      /\ \A q \in Proc : InLine(q)' <=> InLine(q) /\ q # h
  <2>1. target[p] = Mutex /\ op[p] = "post" /\ at[p] = "wait" /\ pc[p] = "decide" /\ ~InLine(p)
    BY DEF IInv, Calls, Waiting, semPost_dequeue
  <2>2. Line # <<>> /\ unblocked_pid' = [unblocked_pid EXCEPT ![p] = Head(Line)]
    BY <2>1 DEF semPost_dequeue, Line
  <2> QED
    BY <2>1, <2>2, LeaveLine DEF IInv, Waiting, semPost_dequeue
<1>1. Types'
  <2>1. unblocked_pid' \in [Proc -> Proc \cup {None}] /\ pc' \in [Proc -> Label]
    BY SMTT(40), <1>0 DEF IInv, Types, TypeOK, semPost_dequeue, Label
  <2>2. UNCHANGED <<state, running_process, intr, op, target, value, lock, registry_lock,
                    global, aux, at, round>>
    BY DEF semPost_dequeue
  <2> QED
    BY <1>0, <2>1, <2>2 DEF IInv, Types, TypeOK
<1>2. Calls'
    BY ZenonT(60), <1>0
    DEF IInv, Types, TypeOK, Place, Label, Calls, semPost_dequeue
<1>3. Locked'
    BY <1>0
    DEF IInv, Types, TypeOK, Place, Label, Calls, Locked, semPost_dequeue
<1>4. Cpu'
    BY SMTT(40), <1>0
    DEF IInv, Types, TypeOK, Place, Label, Cpu, semPost_dequeue
<1>5. Waiting'
    BY SMTT(40), <1>0
    DEF IInv, Types, TypeOK, Place, Label, Calls, Cpu, Waiting, Locked, semPost_dequeue
<1>6. Token'
  <2>1. pc'[p] = "wake" /\ op'[p] = "post" /\ at'[p] = "wait" /\ h # p
    BY <1>0 DEF IInv, Types, TypeOK, semPost_dequeue
  <2>2. Holds(p)
    BY <1>0, HoldsNow
  <2>3. ~Holds(p)'
    BY <2>1, HoldsNext
  <2>4. pc[h] \in {"block", "force", "reforce"} /\ pc'[h] = pc[h]
    BY <1>0, <2>1 DEF IInv, Types, TypeOK, Waiting, Locked, semPost_dequeue
  <2>5. Holds(h)'
    BY <1>0, <2>4, HoldsNext
  <2>6. ASSUME NEW q \in Proc, q # p, q # h PROVE ~Holds(q)'
    <3>1. at'[q] = at[q] /\ pc'[q] = pc[q] /\ op'[q] = op[q]
      BY <2>6 DEF IInv, Types, TypeOK, semPost_dequeue
    <3>2. Holds(q)' <=> Holds(q)
      BY <1>0, <2>6, <3>1, HoldsSame
    <3> QED
      BY <3>2, <2>2, <2>6 DEF IInv, Token
  <2>7. value'[Mutex] = value[Mutex]
    BY DEF semPost_dequeue
  <2>8. \A q \in Proc : Holds(q)' <=> q = h
    BY <1>0, <2>3, <2>5, <2>6
  <2> QED
    BY <1>0, <2>2, <2>7, <2>8, TokenPassed DEF IInv
<1>7. Undisturbed'
    BY <1>0
    DEF IInv, Types, TypeOK, Place, Label, Undisturbed, Waiting, Cpu, semPost_dequeue
<1>8. Woken'
  <2>1. ASSUME NEW q \in Proc \ KernelProc, state'[q] = "BLOCKED", ~InLine(q)'
        PROVE  \E r \in Proc : pc'[r] = "wake" /\ unblocked_pid'[r] = q
    <3>1. state[q] = "BLOCKED"
      BY <2>1 DEF semPost_dequeue
    <3>2. CASE q = h
      <4>1. pc'[p] = "wake" /\ unblocked_pid'[p] = h
        BY <1>0 DEF IInv, Types, TypeOK, semPost_dequeue
      <4> QED
        BY <3>2, <4>1
    <3>3. CASE q # h
      <4>1. PICK r \in Proc : pc[r] = "wake" /\ unblocked_pid[r] = q
        BY <1>0, <2>1, <3>1, <3>3 DEF IInv, Woken
      <4>2. r # p
        BY <1>0, <4>1
      <4> QED
        BY <1>0, <4>1, <4>2 DEF IInv, Types, TypeOK, semPost_dequeue
    <3> QED
      BY <3>2, <3>3
  <2> QED
    BY <2>1 DEF Woken
<1>9. Taken'
    BY SMTT(40), <1>0
    DEF IInv, Types, TypeOK, Place, Label, Taken, Locked, semPost_dequeue
<1> QED
    BY <1>1, <1>2, <1>3, <1>4, <1>5, <1>6, <1>7, <1>8, <1>9 DEF IInv


-----------------------------------------------------------------------------
\* It holds when the semaphore has been opened.
LEMMA InitInv == ClientInit => IInv
<1> SUFFICES ASSUME ClientInit PROVE IInv
    OBVIOUS
<1>1. Line = <<>> /\ value[Mutex] = 1
    BY DEF ClientInit, Init, Line
<1>2. \A p \in Proc : ~InLine(p)
    BY <1>1 DEF InLine
<1>3. Types
    BY DEF Types, TypeOK, Place, Label, ClientInit, Init
<1>4. \A p \in Proc : ~Holds(p)
    BY HoldsNow DEF ClientInit, Init
<1>5. Token
    BY <1>1, <1>4 DEF Token
<1>6. Waiting
    BY <1>1, <1>2 DEF Waiting, OnceEach, ClientInit, Init
<1>7. Calls /\ Locked /\ Cpu /\ Undisturbed /\ Woken /\ Taken
    BY DEF Calls, Locked, Cpu, Undisturbed, Woken, Taken, ClientInit, Init
<1> QED
    BY <1>3, <1>5, <1>6, <1>7 DEF IInv

\* Nothing changes when nothing happens.
LEMMA StutterInv == IInv /\ UNCHANGED allVars => IInv'
<1> SUFFICES ASSUME IInv, UNCHANGED allVars PROVE IInv'
    OBVIOUS
<1>0. OnceEach' /\ \A q \in Proc : InLine(q)' <=> InLine(q)
    BY SameLine DEF IInv, Waiting, allVars
<1>1. \A q \in Proc : Holds(q)' <=> Holds(q)
    BY <1>0, HoldsSame DEF allVars
<1>2. Token'
    BY <1>1, TokenStays DEF IInv, allVars
<1>3. Types'
    BY DEF IInv, Types, TypeOK, allVars
<1>4. Calls' /\ Locked' /\ Cpu'
    BY DEF IInv, Calls, Locked, Cpu, allVars
<1>5. Waiting' /\ Undisturbed' /\ Woken' /\ Taken'
    BY <1>0 DEF IInv, Types, TypeOK, Waiting, Undisturbed, Woken, Taken, allVars
<1> QED
    BY <1>2, <1>3, <1>4, <1>5 DEF IInv

\* Every step of the client or of the semaphore keeps the invariant.
LEMMA NextInv == IInv /\ [Next]_allVars => IInv'
<1> SUFFICES ASSUME IInv, [Next]_allVars PROVE IInv'
    OBVIOUS
<1>1. ASSUME NEW p \in Proc, Execute(p) PROVE IInv'
  <2>1. CASE Kernel(p)
    BY <2>1, LockRegistryInv, UnlockRegistryInv, LockInv, UnlockInv, TakeInv,
       EnqueueInv, DropLockInv, BlockInv, ForceInv, IncrementInv,
       DequeueInv, unBlockInv
    DEF Kernel, SemStep
  <2>2. CASE ~Kernel(p)
    BY <1>1, <2>2, WaitInv, ReadInv, YieldInv, WriteInv, PostInv, ExitInv DEF Execute
  <2> QED
    BY <2>1, <2>2
<1>2. ASSUME NEW p \in Proc, Spin(p), UNCHANGED clientVars PROVE IInv'
    BY <1>2, StutterInv DEF Spin, allVars
<1>3. CASE TimerTick /\ UNCHANGED clientVars
    BY <1>3, TickInv
<1>4. CASE UNCHANGED allVars
    BY <1>4, StutterInv
<1> QED
    BY <1>1, <1>2, <1>3, <1>4 DEF Next

\* The invariant holds throughout.
LEMMA InvariantHolds == Spec => []IInv
BY InitInv, NextInv, PTL DEF Spec

-----------------------------------------------------------------------------
\* The token is conserved and every variable keeps its type, in every interleaving
\* of waits, posts, hand-offs and preemptions (semWait, semPost).
THEOREM TheTokenIsConserved == Spec => []TokenConserved
<1>1. IInv => TokenConserved
  <2> SUFFICES ASSUME IInv PROVE TokenConserved
    OBVIOUS
  <2> DEFINE H == {p \in Proc : Holds(p)}
  <2>1. value[Mutex] + Cardinality(H) = 1
    <3>1. CASE \E p \in Proc : Holds(p)
      <4>1. PICK p \in Proc : Holds(p)
        BY <3>1
      <4>2. H = {p}
        BY <4>1 DEF IInv, Token
      <4>3. Cardinality(H) = 1
        BY <4>2, FS_Singleton
      <4> QED
        BY <3>1, <4>3 DEF IInv, Token
    <3>2. CASE \A p \in Proc : ~Holds(p)
      <4>1. H = {}
        BY <3>2
      <4>2. Cardinality(H) = 0
        BY <4>1, FS_EmptySet
      <4> QED
        BY <3>2, <4>2 DEF IInv, Token
    <3> QED
      BY <3>1, <3>2
  <2> QED
    BY <2>1 DEF TokenConserved, IInv, Types
<1> QED
    BY <1>1, InvariantHolds, PTL

\* No wake-up of a system call is lost: a process that sleeps in semWait stands in
\* line or is about to be woken by whoever took it out (semWait lines 210-222,
\* semPost lines 171-178).
THEOREM NoWakeupIsLost == Spec => []NoLostWakeup
<1>1. IInv => NoLostWakeup
    BY DEF IInv, Woken, NoLostWakeup, MissedWakeup, InLine, Line
<1> QED
    BY <1>1, InvariantHolds, PTL

\* A process between a wait that has returned and its post.
Inside(p) == \/ at[p] \in {"yield", "write", "post"}
             \/ at[p] = "read" /\ pc[p] = "user"

\* Between a wait that has returned and its post a process is alone: nobody else
\* is there (slowInc between my_sem_wait and my_sem_post).
THEOREM MutualExclusion == Spec => [](\A p, q \in Proc : Inside(p) /\ Inside(q) => p = q)
<1>1. IInv => (\A p, q \in Proc : Inside(p) /\ Inside(q) => p = q)
    BY HoldsNow DEF IInv, Token, Inside
<1> QED
    BY <1>1, InvariantHolds, PTL

-----------------------------------------------------------------------------
(* No update is lost.                                                       *)

\* The shared variable is at all times the sum of the updates, and whoever is
\* between reading and writing has it as it is.
Exact ==
    /\ global = SumFunction(Updates)
    /\ \A p \in Proc : at[p] \in {"yield", "write"} => aux[p] = global

\* Updates are integers.
LEMMA UpdatesType == Types => Updates \in [Proc -> Int]
BY DEF Types, Updates

\* At the start nothing has been added.
LEMMA InitExact == ClientInit => Exact
<1> SUFFICES ASSUME ClientInit PROVE Exact
    OBVIOUS
<1>1. Updates = [p \in Proc |-> 0]
    BY DEF ClientInit, Updates
<1>2. SumFunction(Updates) = 0
    BY <1>1, SumOfZeros
<1> QED
    BY <1>2 DEF Exact, ClientInit

\* A write adds the process's own increment.
LEMMA WriteExact ==
    ASSUME IInv, IInv', Exact, NEW p \in Proc, Write(p)
    PROVE  Exact'
<1>1. Updates \in [Proc -> Int] /\ Updates' \in [Proc -> Int]
    BY UpdatesType DEF IInv, Types, Updates
<1>2. \A q \in Proc \ {p} : Updates'[q] = Updates[q]
    BY DEF Updates, IInv, Types, Write
<1>3. Updates'[p] - Updates[p] = Inc[p]
  <2>1. Updates[p] = Inc[p] * (round[p] + 0) /\ Updates'[p] = Inc[p] * (round[p] + 1)
    BY DEF Updates, IInv, Types, Write
  <2>2. Inc[p] \in Int /\ round[p] \in Int
    BY DEF IInv, Types
  <2> QED
    BY <2>1, <2>2
<1>4. SumFunction(Updates') = SumFunction(Updates) + Inc[p]
    BY <1>1, <1>2, <1>3, SumChanges
<1>5. aux[p] = global
    BY DEF Exact, Write
<1>6. \A q \in Proc : at'[q] \notin {"yield", "write"}
  <2>1. Holds(p)
    BY HoldsNow DEF Write
  <2>2. ASSUME NEW q \in Proc, at'[q] \in {"yield", "write"} PROVE FALSE
    <3>1. q # p /\ at[q] \in {"yield", "write"}
      BY <2>2 DEF IInv, Types, Write
    <3>2. Holds(q)
      BY <3>1, HoldsNow
    <3> QED
      BY <2>1, <3>1, <3>2 DEF IInv, Token
  <2> QED
    BY <2>2
<1> QED
    BY <1>4, <1>5, <1>6 DEF Exact, Write

\* The other steps change neither the updates nor the variable.
LEMMA OtherExact ==
    ASSUME IInv, Exact, [Next]_allVars, ~ \E p \in Proc : Write(p)
    PROVE  Exact'
<1>1. CASE \E p \in Proc : Read(p)
  <2>1. PICK p \in Proc : Read(p)
    BY <1>1
  <2>2. Updates' = Updates
    BY <2>1 DEF Updates, IInv, Types, Read
  <2> QED
    BY <2>1, <2>2 DEF Exact, IInv, Types, Read
<1>2. CASE \E p \in Proc : Post(p)
  <2>1. PICK p \in Proc : Post(p)
    BY <1>2
  <2>2. \A q \in Proc : round'[q] + (IF at'[q] = "post" THEN 1 ELSE 0)
                          = round[q] + (IF at[q] = "post" THEN 1 ELSE 0)
    BY <2>1 DEF IInv, Types, Post
  <2>3. Updates' = Updates
    BY <2>2 DEF Updates
  <2> QED
    BY <2>1, <2>3 DEF Exact, IInv, Types, Post
<1>3. CASE \E p \in Proc : Wait(p) \/ Yield(p)
  <2>1. PICK p \in Proc : Wait(p) \/ Yield(p)
    BY <1>3
  <2>2. \A q \in Proc : (at'[q] = "post") <=> (at[q] = "post")
    BY <2>1 DEF IInv, Types, Wait, Yield
  <2>3. Updates' = Updates
    BY <2>1, <2>2 DEF Updates, Wait, Yield
  <2> QED
    BY <2>1, <2>3 DEF Exact, IInv, Types, Wait, Yield
<1>4. CASE UNCHANGED clientVars
    BY <1>4 DEF Exact, Updates
<1> QED
    BY <1>1, <1>2, <1>3, <1>4 DEF Next, Execute, Kernel, Exit, allVars

\* No update of the shared variable is lost, for any number of processes, of
\* rounds and any increments: test_sync's result is the sum of what was added.
THEOREM NoUpdateIsLost == Spec => []NoLostUpdate
<1>1. IInv /\ IInv' /\ Exact /\ [Next]_allVars => Exact'
    BY WriteExact, OtherExact
<1>2. Spec => []Exact
    BY <1>1, InitExact, InvariantHolds, PTL DEF Spec
<1>3. Exact => NoLostUpdate
    BY DEF Exact, NoLostUpdate
<1> QED
    BY <1>2, <1>3, PTL

-----------------------------------------------------------------------------
(* sem.c implements the fair semaphore.                                     *)

\* A step of a process inside semWait or semPost is a step of the fair semaphore,
\* or leaves its tokens and its line alone.
LEMMA KernelRefines ==
    ASSUME IInv, NEW p \in Proc, SemStep(p)
    PROVE  Fair!Next \/ UNCHANGED Fair!vars
<1> USE DEF Fair!vars
<1>1. CASE semWait_take(p)
  <2>1. target[p] = Mutex /\ value[Mutex] \in {0, 1}
    BY <1>1 DEF semWait_take, IInv, Calls, Token
  <2>2. Fair!Take(Mutex)
    BY <1>1, <2>1 DEF semWait_take, Fair!Take
  <2> QED
    BY <2>2 DEF Fair!Next
<1>2. CASE semWait_enqueue(p)
  <2>1. target[p] = Mutex /\ ~InLine(p)
    BY <1>2 DEF semWait_enqueue, IInv, Calls, Waiting
  <2>2. Fair!Queue(p, Mutex)
    BY <1>2, <2>1 DEF semWait_enqueue, Fair!Queue, InLine, Line
  <2> QED
    BY <2>2 DEF Fair!Next
<1>3. CASE semPost_increment(p)
  <2>1. target[p] = Mutex /\ op[p] = "post" /\ pc[p] = "decide"
    BY <1>3 DEF semPost_increment, IInv, Calls
  <2>2. value[Mutex] = 0
    BY <2>1, HoldsNow DEF IInv, Token
  <2>3. (0 + 1) % 65536 = 0 + 1
    OBVIOUS
  <2>4. Fair!Leave(Mutex)
    BY <1>3, <2>1, <2>2, <2>3 DEF semPost_increment, Fair!Leave
  <2> QED
    BY <2>4 DEF Fair!Next
<1>4. CASE semPost_dequeue(p)
  <2>1. target[p] = Mutex
    BY <1>4 DEF semPost_dequeue, IInv, Calls
  <2>2. Fair!Serve(Mutex)
    BY <1>4, <2>1 DEF semPost_dequeue, Fair!Serve
  <2> QED
    BY <2>2 DEF Fair!Next
<1>5. CASE UNCHANGED <<value, blockedProcesses>>
    BY <1>5
<1> QED
    BY <1>1, <1>2, <1>3, <1>4, <1>5
    DEF SemStep, LockRegistry, UnlockRegistry, semLock, semUnlock, semWait_unlock,
        block_process, ForceSchedule, unblock_process

\* sem.c implements the atomic, first-in first-out semaphore, for any number of
\* processes: each of its steps is one wait, one post, or invisible.
THEOREM SemaphoreIsFair == Spec => ImplementsFairSemaphore
<1>1. ClientInit => Fair!Init
    BY DEF ClientInit, Init, Fair!Init
<1>2. IInv /\ [Next]_allVars => [Fair!Next]_(Fair!vars)
  <2> SUFFICES ASSUME IInv, [Next]_allVars PROVE Fair!Next \/ UNCHANGED Fair!vars
    OBVIOUS
  <2>1. CASE \E p \in Proc : Kernel(p)
    BY <2>1, KernelRefines DEF Kernel
  <2>2. CASE UNCHANGED <<value, blockedProcesses>>
    BY <2>2 DEF Fair!vars
  <2> QED
    BY <2>1, <2>2
    DEF Next, Execute, Wait, Read, Yield, Write, Post, Exit, Spin, TimerTick, Call,
        allVars
<1> QED
    BY <1>1, <1>2, InvariantHolds, PTL DEF Spec, ImplementsFairSemaphore, Fair!Spec

=============================================================================
