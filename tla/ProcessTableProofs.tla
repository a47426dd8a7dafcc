-------------------------- MODULE ProcessTableProofs --------------------------
(***************************************************************************)
(* Proofs about ProcessTable, for any number of slots, PCBs, children and  *)
(* creations, until a rule of use is broken (reckless).                    *)
(***************************************************************************)
EXTENDS ProcessTable, Arithmetic

Label == {"user", "assigned", "linked", "inserted", "scheduled", "assign", "created",
          "waiting", "reparented", "posted", "killing", "killing_cli"}
Names == {"created", "waiting"}      \* the operand is a PID

Record == [pid : Pid, ppid : Pid, state : {"NONE", "NEW", "READY", "TERMINATED"},
           children : Seq(Pid), foreground : BOOLEAN,
           program : {"idle", "init", "shell", "command"}]

\* Where the processes are in the kernel: the operand is a PID or a PCB.
Places ==
    /\ pc \in [Pcb -> Label] /\ arg \in [Pcb -> Pcb \cup Pid \cup {NULL}]
    /\ \A p \in Pcb : IF pc[p] = "user" THEN TRUE
                      ELSE IF pc[p] \in Names THEN arg[p] \in Pid ELSE arg[p] \in Pcb

Types ==
    /\ process_table \in [Pid -> Pcb \cup {NULL}]
    /\ proc \in [Pcb -> Record]
    /\ \A p \in Pcb : Len(proc[p].children) <= MAX_CHILDREN
    /\ scheduled \subseteq Pcb
    /\ sems \in [Pid -> SemRecord(Pid)] /\ asleep \subseteq Pid
    /\ shell_proc \in Pcb \cup {NULL}
    /\ Places
    /\ created \in 0..MaxCreated /\ reused \subseteq Pid /\ disowned \subseteq Pcb

\* A slot leads to the process whose PID is its index.
Slots == \A i \in Pid : process_table[i] # NULL =>
            proc[process_table[i]].pid = i /\ proc[process_table[i]].state # "NONE"

InTable(q) == process_table[proc[q].pid] = q

\* The scheduler knows only live processes of the table, and only they are inside
\* the kernel.
Known == /\ \A p \in scheduled : proc[p].state = "READY" /\ InTable(p)
         /\ \A p \in Pcb : pc[p] # "user" => p \in scheduled

\* init is never waited for, killed or ended.
InitLives ==
    /\ InitPcb \in scheduled /\ proc[InitPcb].pid = INIT_PID /\ proc[InitPcb].program = "init"
    /\ ~proc[InitPcb].foreground
    /\ pc[InitPcb] \in {"user", "assigned", "linked", "inserted", "scheduled", "assign"}

\* What is being created belongs to its creator alone: its PID is still free until
\* it is in the table, and nobody schedules it before.
Holding == {"assigned", "linked", "inserted"}
Held ==
    /\ \A p \in Pcb : pc[p] \in Holding =>
         /\ arg[p] \notin scheduled
         /\ proc[arg[p]].state = IF pc[p] = "assigned" THEN "NEW" ELSE "READY"
    /\ \A p \in Creating : /\ \A i \in Pid : process_table[i] # arg[p]
                           /\ proc[arg[p]].pid \in FreeSlots
    /\ \A p \in Pcb : pc[p] = "inserted" => InTable(arg[p])
    /\ \A p, r \in Pcb : pc[p] = "inserted" /\ pc[r] = "inserted" /\ arg[p] = arg[r] => p = r
    /\ \A p, r \in Creating : p = r

\* Who is about to be freed is in the table and nobody is creating it; only one
\* process is killed with interrupts off.
Killed ==
    /\ \A p \in Pcb : pc[p] = "killing" => arg[p] = p
    /\ \A p \in Pcb : pc[p] = "killing_cli" =>
         /\ InTable(arg[p]) /\ arg[p] # InitPcb
         /\ \A r \in Pcb : pc[r] \in Holding => arg[r] # arg[p]
    /\ \A p, r \in Pcb : pc[p] = "killing_cli" /\ pc[r] = "killing_cli" => p = r

IInv == Types /\ Slots /\ Known /\ InitLives /\ Held /\ Killed

\* r is being killed by somebody else.
Condemned(r) == \E s \in Pcb : pc[s] = "killing_cli" /\ arg[s] = r

Ending == {"reparented", "posted", "killing"}

\* r lists q among its children and has not begun to end.
ParentOf(r, q) ==
    /\ r # q /\ r \in scheduled /\ proc[r].pid = proc[q].ppid
    /\ pc[r] \notin Ending /\ ~Condemned(r)
    /\ \E i \in 1..Len(proc[r].children) : proc[r].children[i] = proc[q].pid

\* q runs, or somebody is about to let it run.
Born(q) == \/ q \in scheduled
           \/ \E p \in Pcb : pc[p] \in {"linked", "inserted"} /\ arg[p] = q /\ ~Condemned(p)

\* init, or somebody who lists q, answers for it.
Answered(q) == proc[q].ppid = INIT_PID \/ \E r \in Pcb : ParentOf(r, q)

\* Somebody answers for every process its parent has not dropped.
Family ==
    /\ \A q \in Pcb \ disowned : q # InitPcb /\ Born(q) => Answered(q)
    /\ \A p \in Pcb : pc[p] = "linked" => proc[arg[p]].ppid = proc[p].pid

-----------------------------------------------------------------------------
(* The operators of the model.                                             *)

\* What the operators of SemTable take and return.
Registry == [sems : [Pid -> SemRecord(Pid)], asleep : SUBSET Pid]

\* What is bound to a name, whatever a step makes of it.
LEMMA SemFields ==
    /\ UINT16_MAX \in Nat
    /\ \A e \in SemRecord(Pid) :
         /\ e.users \in Nat /\ e.value \in 0..UINT16_MAX /\ e.blockedProcesses \in Seq(Pid)
         /\ \A u \in Nat : [e EXCEPT !.users = u] \in SemRecord(Pid)
         /\ \A v \in 0..UINT16_MAX : [e EXCEPT !.value = v] \in SemRecord(Pid)
         /\ \A s \in Seq(Pid) : [e EXCEPT !.blockedProcesses = s] \in SemRecord(Pid)
    /\ NoSem \in SemRecord(Pid)
    /\ [users |-> 1, value |-> 0, blockedProcesses |-> <<>>] \in SemRecord(Pid)
<1>1. UINT16_MAX \in Nat
    BY SMT DEF UINT16_MAX
<1>2. <<>> \in Seq(Pid)
    OBVIOUS
<1> QED  BY <1>1, <1>2, SMT DEF SemRecord, NoSem

\* The registry with one record or the sleepers changed.
LEMMA RegistryFields ==
    ASSUME NEW k \in Registry
    PROVE  /\ k.sems \in [Pid -> SemRecord(Pid)] /\ k.asleep \in SUBSET Pid
           /\ \A n \in Pid, e \in SemRecord(Pid) : [k EXCEPT !.sems[n] = e] \in Registry
           /\ \A n \in Pid, e \in SemRecord(Pid), a \in SUBSET Pid :
                [k EXCEPT !.sems[n] = e, !.asleep = a] \in Registry
<1>1. PICK f, z : k = [sems |-> f, asleep |-> z] /\ f \in [Pid -> SemRecord(Pid)] /\ z \in SUBSET Pid
    BY SMT DEF Registry
<1> HIDE DEF Registry
<1>2. k.sems = f /\ k.asleep = z
    BY <1>1, SMT
<1>3. \A g \in [Pid -> SemRecord(Pid)], a \in SUBSET Pid : [sems |-> g, asleep |-> a] \in Registry
    BY SMT DEF Registry
<1>4. ASSUME NEW n \in Pid, NEW e \in SemRecord(Pid)
      PROVE  [k EXCEPT !.sems[n] = e] \in Registry
  <2>1. PICK g : g = [f EXCEPT ![n] = e]
      OBVIOUS
  <2>2. g \in [Pid -> SemRecord(Pid)]
      BY <1>1, <2>1
  <2>3. [k EXCEPT !.sems[n] = e] = [sems |-> g, asleep |-> z]
      BY <1>1, <2>1
  <2> QED  BY <1>1, <1>3, <2>2, <2>3
<1>5. ASSUME NEW n \in Pid, NEW e \in SemRecord(Pid), NEW a \in SUBSET Pid
      PROVE  [k EXCEPT !.sems[n] = e, !.asleep = a] \in Registry
  <2>1. PICK g : g = [f EXCEPT ![n] = e]
      OBVIOUS
  <2>2. g \in [Pid -> SemRecord(Pid)]
      BY <1>1, <2>1
  <2>3. [k EXCEPT !.sems[n] = e, !.asleep = a] = [sems |-> g, asleep |-> a]
    <3>1. [k EXCEPT !.sems[n] = e] = [sems |-> g, asleep |-> z]
        BY <1>1, <2>1
    <3>2. [[sems |-> g, asleep |-> z] EXCEPT !.asleep = a] = [sems |-> g, asleep |-> a]
        OBVIOUS
    <3>3. [k EXCEPT !.sems[n] = e, !.asleep = a] = [[k EXCEPT !.sems[n] = e] EXCEPT !.asleep = a]
        BY <1>1, <2>1
    <3> QED  BY <3>1, <3>2, <3>3
  <2> QED  BY <1>3, <2>2, <2>3
<1> QED  BY <1>1, <1>2, <1>4, <1>5

\* Every operation on a semaphore keeps the registry well formed.
LEMMA SemTypes ==
    ASSUME NEW k \in Registry, NEW n \in Pid
    PROVE  /\ semOpen(k, n, 0) \in Registry
           /\ semClose(k, n) \in Registry
           /\ semPost(k, n) \in Registry
           /\ \A pid \in Pid : semWait(k, n, pid) \in Registry
<1>1. PICK e : e = k.sems[n]
    OBVIOUS
<1>2. e \in SemRecord(Pid)
    BY <1>1, RegistryFields
<1>3. /\ UINT16_MAX \in Nat
      /\ e.users \in Nat /\ e.value \in 0..UINT16_MAX /\ e.blockedProcesses \in Seq(Pid)
    BY <1>2, SemFields
<1>4. semOpen(k, n, 0) \in Registry
  <2>1. [k EXCEPT !.sems[n].users = @ + 1] = [k EXCEPT !.sems[n] = [e EXCEPT !.users = e.users + 1]]
      BY <1>1
  <2>2. [e EXCEPT !.users = e.users + 1] \in SemRecord(Pid)
    <3>1. e.users + 1 \in Nat
        BY <1>3
    <3> QED  BY <1>2, <3>1, SemFields
  <2> QED  BY <2>1, <2>2, SemFields, RegistryFields DEF semOpen
<1>5. semClose(k, n) \in Registry
  <2>1. [k EXCEPT !.sems[n].users = @ - 1] = [k EXCEPT !.sems[n] = [e EXCEPT !.users = e.users - 1]]
      BY <1>1
  <2>2. e.users > 0 => [e EXCEPT !.users = e.users - 1] \in SemRecord(Pid)
    <3>1. e.users > 0 => e.users - 1 \in Nat
        BY <1>3
    <3> QED  BY <1>2, <3>1, SemFields
  <2> QED  BY <1>1, <2>1, <2>2, SemFields, RegistryFields DEF semClose, is_semaphore_valid
<1>6. semPost(k, n) \in Registry
  <2>1. [k EXCEPT !.sems[n].value = (@ + 1) % (UINT16_MAX + 1)]
          = [k EXCEPT !.sems[n] = [e EXCEPT !.value = (e.value + 1) % (UINT16_MAX + 1)]]
      BY <1>1
  <2>2. (e.value + 1) % (UINT16_MAX + 1) \in 0..UINT16_MAX
      BY <1>3
  <2>3. [k EXCEPT !.sems[n].blockedProcesses = Tail(@), !.asleep = @ \ {Head(k.sems[n].blockedProcesses)}]
          = [k EXCEPT !.sems[n] = [e EXCEPT !.blockedProcesses = Tail(e.blockedProcesses)],
                      !.asleep = k.asleep \ {Head(e.blockedProcesses)}]
      BY <1>1
  <2>4. e.blockedProcesses # <<>> => Tail(e.blockedProcesses) \in Seq(Pid)
      BY <1>3
  <2>5. k.asleep \ {Head(e.blockedProcesses)} \in SUBSET Pid
      BY RegistryFields
  <2>6. [e EXCEPT !.value = (e.value + 1) % (UINT16_MAX + 1)] \in SemRecord(Pid)
      BY <1>2, <2>2, SemFields
  <2>7. e.blockedProcesses # <<>> =>
           [e EXCEPT !.blockedProcesses = Tail(e.blockedProcesses)] \in SemRecord(Pid)
      BY <1>2, <2>4, SemFields
  <2> QED  BY <1>1, <2>1, <2>3, <2>5, <2>6, <2>7, RegistryFields DEF semPost
<1>7. ASSUME NEW pid \in Pid PROVE semWait(k, n, pid) \in Registry
  <2>1. [k EXCEPT !.sems[n].value = @ - 1] = [k EXCEPT !.sems[n] = [e EXCEPT !.value = e.value - 1]]
      BY <1>1
  <2>2. e.value # 0 => e.value - 1 \in 0..UINT16_MAX
      BY <1>3
  <2>3. [k EXCEPT !.sems[n].blockedProcesses = Append(@, pid), !.asleep = @ \cup {pid}]
          = [k EXCEPT !.sems[n] = [e EXCEPT !.blockedProcesses = Append(e.blockedProcesses, pid)],
                      !.asleep = k.asleep \cup {pid}]
      BY <1>1
  <2>4. Append(e.blockedProcesses, pid) \in Seq(Pid)
      BY <1>3
  <2>5. k.asleep \cup {pid} \in SUBSET Pid
      BY RegistryFields
  <2>6. e.value # 0 => [e EXCEPT !.value = e.value - 1] \in SemRecord(Pid)
      BY <1>2, <2>2, SemFields
  <2>7. [e EXCEPT !.blockedProcesses = Append(e.blockedProcesses, pid)] \in SemRecord(Pid)
      BY <1>2, <2>4, SemFields
  <2> QED  BY <1>1, <2>1, <2>3, <2>5, <2>6, <2>7, RegistryFields DEF semWait
<1> QED  BY <1>4, <1>5, <1>6, <1>7

\* A step that applies operations of SemTable keeps their types.
LEMMA SemStep ==
    ASSUME NEW k \in Registry, SetSems(k)
    PROVE  sems' \in [Pid -> SemRecord(Pid)] /\ asleep' \subseteq Pid
    BY DEF SetSems, Registry

\* wait_child strikes one PID off the list: the rest stays.
LEMMA Struck ==
    ASSUME NEW s \in Seq(Pid), NEW e \in Pid
    PROVE  /\ RemoveFirst(s, e) \in Seq(Pid) /\ Len(RemoveFirst(s, e)) <= Len(s)
           /\ \A i \in 1..Len(s) : s[i] # e =>
                \E j \in 1..Len(RemoveFirst(s, e)) : RemoveFirst(s, e)[j] = s[i]
<1> DEFINE I == {i \in 1..Len(s) : s[i] = e}
<1>1. CASE I = {}
  <2>1. RemoveFirst(s, e) = s
      BY <1>1 DEF RemoveFirst
  <2> QED  BY <2>1
<1>2. CASE I # {}
  <2>1. PICK m \in I : \A y \in I : m <= y
    <3>1. I \in SUBSET Nat
        OBVIOUS
    <3> HIDE DEF I
    <3> QED  BY <1>2, <3>1, Least
  <2>2. Min(I) = m
    <3>1. \A x, y \in I : x <= y /\ y <= x => x = y
        OBVIOUS
    <3>2. \A x \in I : (\A y \in I : x <= y) => x = m
        BY <2>1, <3>1
    <3> HIDE DEF I
    <3> QED  BY <2>1, <3>2 DEF Min
  <2>3. SelectInSeq(s, LAMBDA v : v = e) = m
    <3>1. SelectInSeq(s, LAMBDA v : v = e) = IF I # {} THEN Min(I) ELSE 0
        BY DEF SelectInSeq
    <3> QED  BY <1>2, <2>2, <3>1
  <2>4. RemoveFirst(s, e) = RemoveAt(s, SelectInSeq(s, LAMBDA v : v = e))
      BY <1>2 DEF RemoveFirst
  <2>5. RemoveFirst(s, e) = SubSeq(s, 1, m-1) \o SubSeq(s, m+1, Len(s))
      BY <2>3, <2>4 DEF RemoveAt
  <2>6. PICK a : a = SubSeq(s, 1, m-1)
      OBVIOUS
  <2>7. PICK b : b = SubSeq(s, m+1, Len(s))
      OBVIOUS
  <2>8. /\ m \in 1..Len(s) /\ Len(s) \in Nat /\ s[m] = e
        /\ a \in Seq(Pid) /\ Len(a) = m - 1 /\ \A i \in 1..(m-1) : a[i] = s[i]
        /\ b \in Seq(Pid) /\ Len(b) = Len(s) - m /\ \A i \in 1..(Len(s)-m) : b[i] = s[i+m]
      BY <2>6, <2>7
  <2>9. PICK r : r = a \o b
      OBVIOUS
  <2>10. /\ r \in Seq(Pid) /\ Len(r) = Len(s) - 1
         /\ \A i \in 1..(m-1) : r[i] = s[i]
         /\ \A i \in m..(Len(s)-1) : r[i] = s[i+1]
    <3>0. a \in Seq(Pid) /\ b \in Seq(Pid)
        BY <2>8
    <3>1. r \in Seq(Pid)
        BY <3>0, <2>9
    <3>2. Len(r) = Len(a) + Len(b)
        BY <3>0, <2>9
    <3>3. \A i \in 1..Len(r) : r[i] = IF i <= Len(a) THEN a[i] ELSE b[i - Len(a)]
        BY <3>0, <2>9
    <3>4. Len(r) = Len(s) - 1 /\ Len(a) = m - 1 /\ m \in 1..Len(s) /\ Len(s) \in Nat
        BY <2>8, <3>2
    <3>5. ASSUME NEW i \in 1..(m-1) PROVE r[i] = s[i]
      <4>1. i \in 1..Len(r) /\ i <= Len(a)
          BY <3>4
      <4>2. r[i] = a[i]
          BY <3>3, <4>1
      <4> QED  BY <2>8, <4>2
    <3>6. ASSUME NEW i \in m..(Len(s)-1) PROVE r[i] = s[i+1]
      <4>1. r[i] = b[i - (m - 1)]
          BY <3>3, <3>4
      <4>2. i - (m - 1) \in 1..(Len(s)-m) /\ (i - (m - 1)) + m = i + 1
          BY <3>4
      <4> QED  BY <2>8, <4>1, <4>2
    <3> QED  BY <3>1, <3>4, <3>5, <3>6
  <2>11. \A i \in 1..Len(s) : s[i] # e => \E j \in 1..Len(r) : r[j] = s[i]
    <3> SUFFICES ASSUME NEW i \in 1..Len(s), s[i] # e
                 PROVE  \E j \in 1..Len(r) : r[j] = s[i]
        OBVIOUS
    <3>1. CASE i < m
      <4>1. i \in 1..Len(r) /\ r[i] = s[i]
          BY <2>8, <2>10, <3>1
      <4> QED  BY <4>1
    <3>2. CASE i > m
      <4>1. i - 1 \in 1..Len(r) /\ r[i-1] = s[i]
          BY <2>8, <2>10, <3>2
      <4> QED  BY <4>1
    <3>3. CASE i = m
        BY <2>8, <3>3
    <3>4. i \in Nat /\ m \in Nat
        BY <2>8
    <3> QED  BY <3>1, <3>2, <3>3, <3>4
  <2>12. RemoveFirst(s, e) = r
      BY <2>5, <2>6, <2>7, <2>9
  <2>13. Len(r) <= Len(s)
      BY <2>8, <2>10
  <2> QED  BY <2>10, <2>11, <2>12, <2>13
<1> QED  BY <1>1, <1>2

\* What a list of children may be.
List == {s \in Seq(Pid) : Len(s) <= MAX_CHILDREN}

\* reparent_children leaves init a list of PIDs that fits.
LEMMA HeirsType ==
    ASSUME NEW d \in Pid, proc[process_table[d]].children \in Seq(Pid),
           proc[InitPcb].children \in List
    PROVE  Heirs(d) \in List
<1>1. PICK all : all = proc[process_table[d]].children
    OBVIOUS
<1>2. PICK a : a = proc[InitPcb].children
    OBVIOUS
<1>3. PICK A : A = Adopted(d)
    OBVIOUS
<1>4. PICK L : L = Len(all)
    OBVIOUS
<1>5. /\ all \in Seq(Pid) /\ a \in List /\ L \in Nat /\ MAX_CHILDREN \in Nat
      /\ \A n \in 1..L : all[n] \in Pid
    BY <1>1, <1>2, <1>4, TableAssumption
<1> DEFINE Step(n, s) == IF all[n] \in A /\ Len(s) < MAX_CHILDREN THEN Append(s, all[n]) ELSE s
           Eq(f) == f = [n \in 0..L |-> IF n = 0 THEN a ELSE Step(n, f[n-1])]
<1>6. Heirs(d) = (CHOOSE f : Eq(f))[L]
    BY <1>1, <1>2, <1>3, <1>4 DEF Heirs
<1>7. ASSUME NEW n \in 1..L, NEW s \in List PROVE Step(n, s) \in List
  <2>1. s \in Seq(Pid) /\ Len(s) \in Nat
      BY DEF List
  <2>2. Append(s, all[n]) \in Seq(Pid) /\ Len(Append(s, all[n])) = Len(s) + 1
      BY <1>5, <2>1
  <2>3. Len(s) < MAX_CHILDREN => Append(s, all[n]) \in List
      BY <1>5, <2>1, <2>2 DEF List
  <2> QED  BY <2>3
<1> HIDE DEF Step
<1>8. \E f \in [0..L -> List] : Eq(f)
  <2>1. PICK F : F = [n \in 1..L |-> [s \in List |-> Step(n, s)]]
      OBVIOUS
  <2>2. F \in [1..L -> [List -> List]]
      BY <1>7, <2>1
  <2>3. \A n \in 1..L, s \in List : F[n][s] = Step(n, s)
      BY <2>1
  <2>4. PICK f \in [0..L -> List] : Iterates(f, L, a, F)
    <3>1. L \in Nat /\ a \in List /\ F \in Steps(L, List)
        BY <1>5, <2>2 DEF Steps
    <3> HIDE DEF Eq
    <3> QED  BY <3>1, Recursion
  <2>5. \A n \in 1..L : n - 1 \in 0..L
      BY <1>5
  <2>6. \A n \in 0..L : f[n] = IF n = 0 THEN a ELSE Step(n, f[n-1])
      BY <1>5, <2>3, <2>4, <2>5 DEF Iterates
  <2>7. f = [n \in 0..L |-> f[n]]
      BY <2>4
  <2> QED  BY <2>4, <2>6, <2>7
<1>9. PICK h : h = CHOOSE f : Eq(f)
    OBVIOUS
<1>10. Eq(h)
    BY <1>8, <1>9
<1>11. h[0] = a /\ \A n \in 1..L : h[n] = Step(n, h[n-1])
    BY <1>5, <1>10
<1> DEFINE Good == {n \in Nat : n <= L => h[n] \in List}
<1>12. 0 \in Good
    BY <1>5, <1>11
<1>13. ASSUME NEW n \in Nat, n \in Good PROVE n + 1 \in Good
  <2>1. n + 1 <= L => n + 1 \in 1..L /\ (n + 1) - 1 = n /\ h[n] \in List
      BY <1>5, <1>13
  <2>2. n + 1 <= L => h[n + 1] = Step(n + 1, h[n])
      BY <1>11, <2>1
  <2> QED  BY <1>7, <2>1, <2>2
<1>14. L \in Good
  <2> HIDE DEF Good
  <2> QED  BY <1>5, <1>12, <1>13, SetInduction
<1> QED  BY <1>5, <1>6, <1>9, <1>14

\* INIT_PID and 0 are PIDs.
LEMMA PidFacts == /\ 0 \in Pid /\ INIT_PID \in Pid /\ INIT_PID # 0 /\ Pid \in SUBSET Nat
                  /\ NULL \notin Pcb /\ NULL \notin Pid
                  /\ IdlePcb \in Pcb /\ InitPcb \in Pcb /\ IdlePcb # InitPcb
    BY TableAssumption DEF Pid, INIT_PID

\* The fields of a PCB.
LEMMA RecordFields ==
    ASSUME NEW e \in Record
    PROVE  /\ e.pid \in Pid /\ e.ppid \in Pid /\ e.children \in Seq(Pid)
           /\ e.state \in {"NONE", "NEW", "READY", "TERMINATED"}
           /\ e.foreground \in BOOLEAN /\ e.program \in {"idle", "init", "shell", "command"}
    BY SMT DEF Record

\* A PCB with its list of children replaced.
LEMMA WithChildren ==
    ASSUME NEW e \in Record, NEW s \in Seq(Pid), NEW r, r = [e EXCEPT !.children = s]
    PROVE  /\ r \in Record /\ r.children = s
           /\ r.pid = e.pid /\ r.ppid = e.ppid /\ r.state = e.state
           /\ r.foreground = e.foreground /\ r.program = e.program
    BY SMT DEF Record

\* A PCB with its parent replaced.
LEMMA WithParent ==
    ASSUME NEW e \in Record, NEW c \in Pid, NEW r, r = [e EXCEPT !.ppid = c]
    PROVE  /\ r \in Record /\ r.ppid = c
           /\ r.pid = e.pid /\ r.children = e.children /\ r.state = e.state
           /\ r.foreground = e.foreground /\ r.program = e.program
    BY SMT DEF Record

\* A PCB with its state replaced.
LEMMA WithState ==
    ASSUME NEW e \in Record, NEW c \in {"NONE", "NEW", "READY", "TERMINATED"},
           NEW r, r = [e EXCEPT !.state = c]
    PROVE  /\ r \in Record /\ r.state = c
           /\ r.pid = e.pid /\ r.children = e.children /\ r.ppid = e.ppid
           /\ r.foreground = e.foreground /\ r.program = e.program
    BY SMT DEF Record

\* A PCB just freed.
LEMMA FreedFields ==
    ASSUME NEW q \in Pcb, proc[q] \in Record, NEW r, r = Freed(q)
    PROVE  /\ r \in Record /\ r.state = "NONE" /\ r.pid = proc[q].pid /\ r.children = <<>>
           /\ r.foreground = proc[q].foreground
<1>1. proc[q].pid \in Pid /\ proc[q].foreground \in BOOLEAN /\ 0 \in Pid
    BY RecordFields, PidFacts
<1>2. PICK i, b : i = proc[q].pid /\ b = proc[q].foreground
    OBVIOUS
<1>3. r = [pid |-> i, ppid |-> 0, state |-> "NONE", children |-> <<>>,
           foreground |-> b, program |-> "command"]
    BY <1>2 DEF Freed, NoProcess
<1>4. <<>> \in Seq(Pid)
    OBVIOUS
<1> QED  BY <1>1, <1>2, <1>3, <1>4, SMT DEF Record

Allocated(i, b, g) == [NoProcess EXCEPT !.pid = i, !.state = "NEW", !.foreground = b, !.program = g]

\* A PCB just allocated.
LEMMA NewFields ==
    ASSUME NEW i \in Pid, NEW b \in BOOLEAN, NEW g \in {"shell", "command"}, NEW r,
           r = Allocated(i, b, g)
    PROVE  /\ r \in Record /\ r.state = "NEW" /\ r.pid = i /\ r.children = <<>>
           /\ r.foreground = b /\ r.program = g
<1>1. r = [pid |-> i, ppid |-> 0, state |-> "NEW", children |-> <<>>,
           foreground |-> b, program |-> g]
    BY DEF NoProcess, Allocated
<1>2. <<>> \in Seq(Pid) /\ 0 \in Pid
    BY PidFacts
<1> QED  BY <1>1, <1>2, SMT DEF Record

\* reparent_children changes lists and parents only: the dying process lists
\* nobody any more, and the living children it listed are init's.
LEMMA Reparented ==
    ASSUME Types, NEW d \in Pid, process_table[d] # NULL, NEW R, R = reparent_children(d)
    PROVE  /\ R \in [Pcb -> Record]
           /\ \A q \in Pcb :
                /\ R[q].pid = proc[q].pid /\ R[q].state = proc[q].state
                /\ R[q].foreground = proc[q].foreground /\ R[q].program = proc[q].program
                /\ Len(R[q].children) <= MAX_CHILDREN
                /\ q \notin {InitPcb, process_table[d]} => R[q].children = proc[q].children
                /\ R[q].ppid = proc[q].ppid \/ R[q].ppid = INIT_PID
                /\ q \notin {InitPcb, process_table[d]} /\ (\E c \in Adopted(d) : process_table[c] = q)
                     => R[q].ppid = INIT_PID
                /\ (\A c \in Pid : process_table[c] # q) => R[q].ppid = proc[q].ppid
<1>1. PICK o : o = process_table[d]
    OBVIOUS
<1>2. o \in Pcb /\ InitPcb \in Pcb /\ INIT_PID \in Pid
    BY <1>1, PidFacts DEF Types
<1>3. PICK h : h = Heirs(d)
    OBVIOUS
<1>4. PICK A : A = {q \in Pcb : \E c \in Adopted(d) : process_table[c] = q}
    OBVIOUS
<1>5. h \in Seq(Pid) /\ Len(h) <= MAX_CHILDREN
  <2>1. proc[o].children \in Seq(Pid) /\ proc[InitPcb].children \in Seq(Pid)
      BY <1>2, RecordFields DEF Types
  <2>2. proc[InitPcb].children \in List
      BY <1>2, <2>1 DEF List, Types
  <2>3. h \in List
      BY <1>1, <1>3, <2>1, <2>2, HeirsType
  <2> QED  BY <2>3 DEF List
<1>6. PICK none : none = <<>>
    OBVIOUS
<1>7. none \in Seq(Pid) /\ Len(none) <= MAX_CHILDREN
    BY <1>6, TableAssumption
<1>8. R = [q \in Pcb |-> IF q = o THEN [proc[q] EXCEPT !.children = none]
                         ELSE IF q = InitPcb THEN [proc[q] EXCEPT !.children = h]
                         ELSE IF q \in A THEN [proc[q] EXCEPT !.ppid = INIT_PID]
                         ELSE proc[q]]
    BY <1>1, <1>3, <1>4, <1>6 DEF reparent_children
<1>9. ASSUME NEW q \in Pcb
      PROVE  /\ R[q] \in Record /\ R[q].pid = proc[q].pid /\ R[q].state = proc[q].state
             /\ R[q].foreground = proc[q].foreground /\ R[q].program = proc[q].program
             /\ Len(R[q].children) <= MAX_CHILDREN
             /\ q \notin {InitPcb, o} => R[q].children = proc[q].children
             /\ R[q].ppid = proc[q].ppid \/ R[q].ppid = INIT_PID
             /\ q \notin {InitPcb, o} /\ q \in A => R[q].ppid = INIT_PID
             /\ q \notin A => R[q].ppid = proc[q].ppid
  <2>1. PICK e : e = proc[q]
      OBVIOUS
  <2>2. PICK r : r = R[q]
      OBVIOUS
  <2>3. e \in Record /\ Len(e.children) <= MAX_CHILDREN
      BY <2>1 DEF Types
  <2>4. CASE q = o
    <3>1. r = [e EXCEPT !.children = none]
        BY <1>8, <2>1, <2>2, <2>4
    <3> QED  BY <1>7, <2>1, <2>2, <2>3, <2>4, <3>1, WithChildren
  <2>5. CASE q = InitPcb /\ q # o
    <3>1. r = [e EXCEPT !.children = h]
        BY <1>8, <2>1, <2>2, <2>5
    <3> QED  BY <1>5, <2>1, <2>2, <2>3, <2>5, <3>1, WithChildren
  <2>6. CASE q # InitPcb /\ q # o /\ q \in A
    <3>1. r = [e EXCEPT !.ppid = INIT_PID]
        BY <1>8, <2>1, <2>2, <2>6
    <3> QED  BY <1>2, <2>1, <2>2, <2>3, <2>6, <3>1, WithParent
  <2>7. CASE q # InitPcb /\ q # o /\ q \notin A
    <3>1. r = e
        BY <1>8, <2>1, <2>2, <2>7
    <3> QED  BY <2>1, <2>2, <2>3, <2>7, <3>1
  <2> QED  BY <2>4, <2>5, <2>6, <2>7
<1>10. R \in [Pcb -> Record]
  <2>1. R = [q \in Pcb |-> R[q]]
      BY <1>8
  <2> QED  BY <1>9, <2>1
<1>11. A \subseteq {q \in Pcb : \E c \in Pid : process_table[c] = q}
  <2>1. proc[o].children \in Seq(Pid)
      BY <1>2, RecordFields DEF Types
  <2>2. \A i \in 1..Len(proc[o].children) : proc[o].children[i] \in Pid
      BY <2>1
  <2>3. Adopted(d) \subseteq Pid
      BY <1>1, <2>2 DEF Adopted
  <2> QED  BY <1>4, <2>3
<1> QED  BY <1>1, <1>4, <1>9, <1>10, <1>11

-----------------------------------------------------------------------------
(* Steps that create, schedule and end nobody.                             *)

\* Where p goes, and its new operand; the others stay where they are.
Moves(p) == \A r \in Pcb \ {p} : pc'[r] = pc[r] /\ arg'[r] = arg[r]

\* Processes keep their PID, and only the ones that have ended are freed.
Keeps ==
    /\ \A q \in Pcb :
         /\ proc'[q].pid = proc[q].pid
         /\ proc[q].state # "TERMINATED" =>
              /\ proc'[q].state = proc[q].state /\ proc'[q].program = proc[q].program
              /\ proc'[q].foreground = proc[q].foreground
         /\ proc[q].state = "TERMINATED" => proc'[q].state \in {"TERMINATED", "NONE"}
    /\ \A i \in Pid : \/ process_table'[i] = process_table[i]
                      \/ i \in Dead /\ process_table'[i] = NULL
    /\ \A i \in Pid : process_table'[i] # NULL => proc'[process_table'[i]].state # "NONE"

\* p takes a step inside the kernel that creates, schedules and ends nobody.
QuietStep(p) ==
    /\ scheduled' = scheduled /\ Keeps /\ Moves(p)
    /\ pc'[p] \notin Holding
    /\ p = InitPcb => pc'[p] \in {"user", "scheduled", "assign"}
    /\ pc'[p] = "killing" => arg'[p] = p
    /\ pc'[p] = "killing_cli" =>
         /\ process_table'[proc[arg'[p]].pid] = arg'[p] /\ arg'[p] # InitPcb
         /\ \A r \in Pcb \ {p} : pc[r] \in Holding => arg[r] # arg'[p]

\* Such a step keeps the invariant.
LEMMA Quiet ==
    ASSUME IInv, Types', NEW p \in scheduled, Uninterrupted(p), QuietStep(p)
    PROVE  IInv'
<1> USE DEF IInv
<1>0. p \in Pcb /\ p \in scheduled'
    BY DEF Types, QuietStep
<1>1. /\ process_table \in [Pid -> Pcb \cup {NULL}] /\ proc \in [Pcb -> Record]
      /\ scheduled \subseteq Pcb /\ pc \in [Pcb -> Label]
      /\ \A q \in Pcb : proc[q].pid \in Pid /\ proc[q].state \in {"NONE", "NEW", "READY", "TERMINATED"}
    BY RecordFields DEF Types, Places
<1>2. Slots'
    BY <1>1 DEF Slots, QuietStep, Keeps
<1>3. \A i \in Pid : process_table[i] # NULL /\ i \notin Dead => process_table'[i] = process_table[i]
    BY DEF QuietStep, Keeps
<1>4. \A q \in Pcb : InTable(q) /\ proc[q].state # "TERMINATED" => InTable(q)'
  <2> SUFFICES ASSUME NEW q \in Pcb, InTable(q), proc[q].state # "TERMINATED"
               PROVE  process_table'[proc'[q].pid] = q
      BY DEF InTable
  <2>1. proc[q].pid \in Pid /\ process_table[proc[q].pid] = q /\ q # NULL
      BY <1>1, PidFacts DEF InTable
  <2>2. proc[q].pid \notin Dead
      BY <2>1 DEF Dead
  <2>3. proc'[q].pid = proc[q].pid
      BY DEF QuietStep, Keeps
  <2> QED  BY <1>3, <2>1, <2>2, <2>3
<1>5. Known'
  <2>1. ASSUME NEW q \in scheduled' PROVE proc'[q].state = "READY" /\ InTable(q)'
    <3>1. q \in scheduled /\ q \in Pcb
        BY <1>1 DEF QuietStep
    <3>2. proc[q].state = "READY" /\ InTable(q)
        BY <3>1 DEF Known
    <3>3. proc'[q].state = "READY"
        BY <3>1, <3>2 DEF QuietStep, Keeps
    <3> QED  BY <1>4, <3>1, <3>2, <3>3
  <2>2. ASSUME NEW q \in Pcb, pc'[q] # "user" PROVE q \in scheduled'
      BY <1>0, <2>2 DEF Known, QuietStep, Moves
  <2> QED  BY <2>1, <2>2 DEF Known
<1>6. InitLives'
  <2>1. proc[InitPcb].state = "READY" /\ InitPcb \in Pcb
      BY PidFacts DEF InitLives, Known
  <2>2. /\ InitPcb \in scheduled' /\ proc'[InitPcb].pid = INIT_PID
        /\ proc'[InitPcb].program = "init" /\ ~proc'[InitPcb].foreground
      BY <2>1 DEF InitLives, QuietStep, Keeps
  <2>3. pc'[InitPcb] \in {"user", "assigned", "linked", "inserted", "scheduled", "assign"}
    <3>1. CASE p = InitPcb
        BY <3>1 DEF QuietStep
    <3>2. CASE p # InitPcb
        BY <2>1, <3>2 DEF QuietStep, Moves, InitLives
    <3> QED  BY <3>1, <3>2
  <2> QED  BY <2>2, <2>3 DEF InitLives
<1>7. ASSUME NEW r \in Pcb, pc'[r] \in Holding
      PROVE  r # p /\ pc'[r] = pc[r] /\ arg'[r] = arg[r] /\ arg[r] \in Pcb
  <2>1. r # p
      BY <1>7 DEF QuietStep
  <2>2. pc'[r] = pc[r] /\ arg'[r] = arg[r]
      BY <2>1 DEF QuietStep, Moves
  <2>3. arg[r] \in Pcb
      BY <1>7, <2>2 DEF Types, Places, Holding, Names
  <2> QED  BY <2>1, <2>2, <2>3
<1>8. Creating' \subseteq Creating
    BY <1>7 DEF Creating, Holding
<1>9. FreeSlots \subseteq FreeSlots'
  <2> SUFFICES ASSUME NEW i \in Pid, process_table[i] = NULL \/ proc[process_table[i]].state = "TERMINATED",
                      process_table'[i] # NULL
               PROVE  proc'[process_table'[i]].state = "TERMINATED"
      BY DEF FreeSlots
  <2>1. process_table'[i] = process_table[i] /\ process_table[i] \in Pcb
      BY <1>1 DEF QuietStep, Keeps
  <2>2. proc[process_table[i]].state = "TERMINATED"
      BY <2>1
  <2> QED  BY <2>1, <2>2 DEF QuietStep, Keeps
<1>10. Held'
  <2>1. ASSUME NEW r \in Pcb, pc'[r] \in Holding
        PROVE  /\ arg'[r] \notin scheduled'
               /\ proc'[arg'[r]].state = IF pc'[r] = "assigned" THEN "NEW" ELSE "READY"
    <3>1. /\ arg[r] \notin scheduled
          /\ proc[arg[r]].state = IF pc[r] = "assigned" THEN "NEW" ELSE "READY"
        BY <1>7, <2>1 DEF Held
    <3>2. proc'[arg[r]].state = proc[arg[r]].state
        BY <1>7, <2>1, <3>1 DEF QuietStep, Keeps
    <3>3. scheduled' = scheduled
        BY DEF QuietStep
    <3> QED  BY <1>7, <2>1, <3>1, <3>2, <3>3
  <2>2. ASSUME NEW r \in Creating'
        PROVE  /\ \A i \in Pid : process_table'[i] # arg'[r]
               /\ proc'[arg'[r]].pid \in FreeSlots'
    <3>1. r \in Pcb /\ pc'[r] \in Holding /\ r \in Creating
        BY <1>8 DEF Creating, Holding
    <3>2. arg'[r] = arg[r] /\ arg[r] \in Pcb /\ arg[r] # NULL
        BY <1>7, <3>1, PidFacts
    <3>3. (\A i \in Pid : process_table[i] # arg[r]) /\ proc[arg[r]].pid \in FreeSlots
        BY <3>1 DEF Held
    <3>4. \A i \in Pid : process_table'[i] # arg[r]
        BY <3>2, <3>3 DEF QuietStep, Keeps
    <3>5. proc'[arg[r]].pid = proc[arg[r]].pid
        BY <3>2 DEF QuietStep, Keeps
    <3> QED  BY <1>9, <3>2, <3>3, <3>4, <3>5
  <2>3. ASSUME NEW r \in Pcb, pc'[r] = "inserted" PROVE InTable(arg[r])' /\ arg'[r] = arg[r] /\ pc[r] = "inserted"
    <3>1. arg'[r] = arg[r] /\ pc[r] = "inserted" /\ arg[r] \in Pcb
        BY <1>7, <2>3 DEF Holding
    <3>2. InTable(arg[r]) /\ proc[arg[r]].state = "READY"
        BY <3>1 DEF Held, Holding
    <3>3. InTable(arg[r])'
        BY <1>4, <3>1, <3>2
    <3> QED  BY <3>1, <3>3
  <2> QED  BY <1>8, <2>1, <2>2, <2>3 DEF Held
<1>11. Killed'
  <2>1. ASSUME NEW r \in Pcb, pc'[r] = "killing" PROVE arg'[r] = r
      BY <2>1 DEF Killed, QuietStep, Moves
  <2>2. ASSUME NEW r \in Pcb, pc'[r] = "killing_cli"
        PROVE  r = p
      BY <2>2 DEF QuietStep, Moves, Uninterrupted
  <2>3. ASSUME pc'[p] = "killing_cli"
        PROVE  /\ InTable(arg[p])' /\ arg'[p] # InitPcb
               /\ \A r \in Pcb : pc'[r] \in Holding => arg'[r] # arg'[p]
    <3>1. arg'[p] \in Pcb
        BY <1>0, <2>3 DEF Types, Places, Names
    <3>2. proc'[arg'[p]].pid = proc[arg'[p]].pid
        BY <3>1 DEF QuietStep, Keeps
    <3>3. InTable(arg[p])'
        BY <2>3, <3>2 DEF QuietStep, InTable
    <3>4. \A r \in Pcb : pc'[r] \in Holding => arg'[r] # arg'[p]
        BY <1>7, <2>3 DEF QuietStep
    <3> QED  BY <2>3, <3>3, <3>4 DEF QuietStep
  <2> QED  BY <2>1, <2>2, <2>3 DEF Killed
<1> QED  BY <1>2, <1>5, <1>6, <1>10, <1>11

\* Where Goto leads.
LEMMA GotoFacts ==
    ASSUME Types, NEW p \in Pcb, NEW l \in Label, NEW v \in Pcb \cup Pid \cup {NULL}, Goto(p, l, v),
           l = "user" \/ (l \in Names /\ v \in Pid) \/ (l \notin Names /\ v \in Pcb)
    PROVE  Moves(p) /\ pc'[p] = l /\ arg'[p] = v /\ Places'
<1>1. /\ pc \in [Pcb -> Label] /\ arg \in [Pcb -> Pcb \cup Pid \cup {NULL}]
      /\ pc' = [pc EXCEPT ![p] = l] /\ arg' = [arg EXCEPT ![p] = v]
    BY DEF Types, Places, Goto
<1>2. pc'[p] = l /\ arg'[p] = v /\ Moves(p)
    BY <1>1 DEF Moves
<1>3. pc' \in [Pcb -> Label] /\ arg' \in [Pcb -> Pcb \cup Pid \cup {NULL}]
    BY <1>1
<1>4. ASSUME NEW r \in Pcb
      PROVE  IF pc'[r] = "user" THEN TRUE
             ELSE IF pc'[r] \in Names THEN arg'[r] \in Pid ELSE arg'[r] \in Pcb
  <2>1. CASE r = p
      BY <1>2, <2>1
  <2>2. CASE r # p
      BY <1>2, <2>2 DEF Moves, Types, Places
  <2> QED  BY <2>1, <2>2
<1> QED  BY <1>2, <1>3, <1>4 DEF Places

\* The semaphores are a registry.
LEMMA SemsFacts == Types => Sems \in Registry
    BY DEF Types, Sems, Registry

\* A step that leaves the table and what ps shows of a process.
LEMMA KeepsSame ==
    ASSUME Types, Slots, process_table' = process_table,
           \A q \in Pcb : /\ proc'[q].pid = proc[q].pid /\ proc'[q].state = proc[q].state
                          /\ proc'[q].program = proc[q].program
                          /\ proc'[q].foreground = proc[q].foreground
    PROVE  Keeps
<1>1. \A i \in Pid : process_table[i] # NULL => process_table[i] \in Pcb
    BY DEF Types
<1> QED  BY <1>1 DEF Keeps, Slots

\* reap_terminated_processes frees what has ended and nothing else.
LEMMA ReapFacts ==
    ASSUME Types, Slots, NEW was \in [Pcb -> Record],
           \A q \in Pcb : /\ was[q].pid = proc[q].pid /\ was[q].state = proc[q].state
                          /\ was[q].program = proc[q].program
                          /\ was[q].foreground = proc[q].foreground
                          /\ Len(was[q].children) <= MAX_CHILDREN,
           reap_terminated_processes(was)
    PROVE  /\ Keeps /\ process_table' \in [Pid -> Pcb \cup {NULL}] /\ proc' \in [Pcb -> Record]
           /\ \A q \in Pcb : Len(proc'[q].children) <= MAX_CHILDREN
           /\ \A q \in Pcb : proc[q].state # "TERMINATED" => proc'[q] = was[q]
<1>1. PICK D : D = {q \in Pcb : \E i \in Dead : process_table[i] = q}
    OBVIOUS
<1>2. proc' = [q \in Pcb |-> IF q \in D THEN Freed(q) ELSE was[q]]
    BY <1>1 DEF reap_terminated_processes, Reaped
<1>3. process_table' = [i \in Pid |-> IF i \in Dead THEN NULL ELSE process_table[i]]
    BY DEF reap_terminated_processes
<1>4. process_table \in [Pid -> Pcb \cup {NULL}] /\ proc \in [Pcb -> Record]
    BY DEF Types
<1>5. \A q \in D : q \in Pcb /\ proc[q].state = "TERMINATED"
    BY <1>1 DEF Dead
<1>6. \A i \in Pid \ Dead : process_table[i] \notin D
    BY <1>1, <1>4 DEF Dead, Slots
<1>7. ASSUME NEW q \in Pcb
      PROVE  /\ proc'[q] \in Record /\ proc'[q].pid = proc[q].pid
             /\ Len(proc'[q].children) <= MAX_CHILDREN
             /\ q \in D => proc'[q].state = "NONE"
             /\ q \notin D => proc'[q] = was[q]
  <2>1. CASE q \in D
    <3>1. PICK r : r = Freed(q)
        OBVIOUS
    <3>2. proc'[q] = r
        BY <1>2, <2>1, <3>1
    <3>3. r \in Record /\ r.state = "NONE" /\ r.pid = proc[q].pid /\ r.children = <<>>
        BY <1>4, <3>1, FreedFields
    <3>4. Len(r.children) <= MAX_CHILDREN
        BY <3>3, TableAssumption
    <3> QED  BY <2>1, <3>2, <3>3, <3>4
  <2>2. CASE q \notin D
    <3>1. proc'[q] = was[q]
        BY <1>2, <2>2
    <3> QED  BY <2>2, <3>1
  <2> QED  BY <2>1, <2>2
<1>8. proc' \in [Pcb -> Record]
  <2>1. proc' = [q \in Pcb |-> proc'[q]]
      BY <1>2
  <2> QED  BY <1>7, <2>1
<1>9. process_table' \in [Pid -> Pcb \cup {NULL}]
    BY <1>3, <1>4
<1>10. Keeps
  <2>1. ASSUME NEW q \in Pcb
        PROVE  /\ proc'[q].pid = proc[q].pid
               /\ proc[q].state # "TERMINATED" =>
                    /\ proc'[q].state = proc[q].state /\ proc'[q].program = proc[q].program
                    /\ proc'[q].foreground = proc[q].foreground
               /\ proc[q].state = "TERMINATED" => proc'[q].state \in {"TERMINATED", "NONE"}
    <3>1. CASE q \in D
        BY <1>5, <1>7, <3>1
    <3>2. CASE q \notin D
      <4>1. proc'[q] = was[q]
          BY <1>7, <3>2
      <4> QED  BY <4>1
    <3> QED  BY <3>1, <3>2
  <2>2. ASSUME NEW i \in Pid
        PROVE  \/ process_table'[i] = process_table[i]
               \/ i \in Dead /\ process_table'[i] = NULL
      BY <1>3
  <2>3. ASSUME NEW i \in Pid, process_table'[i] # NULL
        PROVE  proc'[process_table'[i]].state # "NONE"
    <3>1. i \notin Dead /\ process_table'[i] = process_table[i]
        BY <1>3, <2>3
    <3>2. PICK q : q = process_table[i]
        OBVIOUS
    <3>3. q \in Pcb /\ q \notin D /\ proc[q].state # "NONE"
        BY <1>4, <1>6, <2>3, <3>1, <3>2 DEF Slots
    <3>4. proc'[q].state = proc[q].state
      <4>1. proc'[q] = was[q]
          BY <1>7, <3>3
      <4> QED  BY <3>3, <4>1
    <3> QED  BY <3>1, <3>2, <3>3, <3>4
  <2> QED  BY <2>1, <2>2, <2>3 DEF Keeps
<1> QED  BY <1>5, <1>7, <1>8, <1>9, <1>10

\* What a process that acts is like.
LEMMA Actor ==
    ASSUME IInv, NEW p \in Pcb, Runs(p)
    PROVE  /\ p \in scheduled /\ proc[p].state = "READY" /\ process_table[proc[p].pid] = p
           /\ proc[p].pid \in Pid /\ proc[p] \in Record
           /\ pc[p] \in {"created", "waiting", "reparented", "posted", "killing", "killing_cli"}
                => p # InitPcb
           /\ p = InitPcb => proc[p].pid = INIT_PID /\ proc[p].program = "init" /\ ~proc[p].foreground
           /\ proc[p].pid = INIT_PID => p = InitPcb
<1>1. proc[p] \in Record /\ proc[InitPcb].pid = INIT_PID /\ InitPcb \in scheduled /\ p \in scheduled
    BY DEF IInv, Types, InitLives, Runs
<1>2. InTable(p) /\ InTable(InitPcb) /\ proc[p].state = "READY"
    BY <1>1 DEF IInv, Known
<1> QED  BY <1>1, <1>2, RecordFields DEF InTable, IInv, InitLives

\* wait_child.
LEMMA WaitChild ==
    ASSUME IInv, NEW p \in Pcb, wait_child(p)
    PROVE  Types' /\ QuietStep(p)
<1>1. Types /\ Slots
    BY DEF IInv
<1>2. Runs(p) /\ pc[p] = "created" /\ p # InitPcb
    BY Actor DEF wait_child
<1>3. arg[p] \in Pid /\ proc[p].pid \in Pid
    BY <1>1, <1>2, Actor DEF Types, Places, Names
<1>4. PICK l, v : /\ Goto(p, l, v) /\ l \in {"user", "waiting"}
                  /\ l = "user" => v = NULL
                  /\ l = "waiting" => v = arg[p]
    BY DEF wait_child
<1>5. /\ Moves(p) /\ pc'[p] = l /\ arg'[p] = v /\ Places'
  <2>1. /\ l \in Label /\ v \in Pcb \cup Pid \cup {NULL}
        /\ l = "user" \/ (l \in Names /\ v \in Pid) \/ (l \notin Names /\ v \in Pcb)
      BY <1>3, <1>4 DEF Label, Names
  <2> QED  BY <1>1, <1>4, <2>1, GotoFacts
<1>6. sems' \in [Pid -> SemRecord(Pid)] /\ asleep' \subseteq Pid
  <2>1. PICK k : k = semWait(semOpen(Sems, arg[p], 0), arg[p], proc[p].pid)
      OBVIOUS
  <2>2. k \in Registry
      BY <1>1, <1>3, <2>1, SemTypes, SemsFacts
  <2>3. SetSems(k) \/ UNCHANGED <<sems, asleep>>
      BY <2>1 DEF wait_child
  <2> QED  BY <1>1, <2>2, <2>3, SemStep DEF Types
<1>7. UNCHANGED <<process_table, proc, scheduled, shell_proc, created, reused, disowned>>
    BY DEF wait_child
<1>8. Types'
    BY <1>1, <1>5, <1>6, <1>7 DEF Types
<1>9. Keeps
    BY <1>1, <1>7, KeepsSame
<1> QED  BY <1>2, <1>4, <1>5, <1>7, <1>8, <1>9 DEF QuietStep, Holding

\* The end of wait_child.
LEMMA WaitChildReturn ==
    ASSUME IInv, NEW p \in Pcb, wait_child_return(p)
    PROVE  Types' /\ QuietStep(p)
<1>1. Types /\ Slots
    BY DEF IInv
<1>2. Runs(p) /\ pc[p] = "waiting" /\ p # InitPcb
    BY Actor DEF wait_child_return
<1>3. arg[p] \in Pid /\ proc[p] \in Record
    BY <1>1, <1>2, Actor DEF Types, Places, Names
<1>4. Goto(p, "user", NULL)
    BY DEF wait_child_return
<1>5. /\ Moves(p) /\ pc'[p] = "user" /\ arg'[p] = NULL /\ Places'
  <2>1. "user" \in Label /\ NULL \in Pcb \cup Pid \cup {NULL}
      BY DEF Label
  <2> QED  BY <1>1, <1>4, <2>1, GotoFacts
<1>6. sems' \in [Pid -> SemRecord(Pid)] /\ asleep' \subseteq Pid
    BY <1>1, <1>3, SemTypes, SemsFacts, SemStep DEF wait_child_return
<1>7. PICK was : was = [proc EXCEPT ![p].children = RemoveFirst(@, arg[p])]
    OBVIOUS
<1>8. reap_terminated_processes(was)
    BY <1>7 DEF wait_child_return
<1>9. /\ was \in [Pcb -> Record]
      /\ \A q \in Pcb : /\ was[q].pid = proc[q].pid /\ was[q].state = proc[q].state
                        /\ was[q].program = proc[q].program
                        /\ was[q].foreground = proc[q].foreground
                        /\ Len(was[q].children) <= MAX_CHILDREN
  <2>1. PICK s : s = RemoveFirst(proc[p].children, arg[p])
      OBVIOUS
  <2>2. s \in Seq(Pid) /\ Len(s) <= MAX_CHILDREN
    <3>1. proc[p].children \in Seq(Pid) /\ Len(proc[p].children) <= MAX_CHILDREN
        BY <1>1, <1>3, RecordFields DEF Types
    <3>2. s \in Seq(Pid) /\ Len(s) <= Len(proc[p].children)
        BY <1>3, <2>1, <3>1, Struck
    <3>3. Len(s) \in Nat /\ Len(proc[p].children) \in Nat /\ MAX_CHILDREN \in Nat
        BY <3>1, <3>2, TableAssumption
    <3> QED  BY <3>1, <3>2, <3>3
  <2>3. PICK r : r = [proc[p] EXCEPT !.children = s]
      OBVIOUS
  <2>4. was = [proc EXCEPT ![p] = r]
      BY <1>7, <2>1, <2>3
  <2>5. /\ r \in Record /\ r.children = s /\ r.pid = proc[p].pid /\ r.state = proc[p].state
        /\ r.foreground = proc[p].foreground /\ r.program = proc[p].program
      BY <1>3, <2>2, <2>3, WithChildren
  <2>6. proc \in [Pcb -> Record] /\ \A q \in Pcb : Len(proc[q].children) <= MAX_CHILDREN
      BY <1>1 DEF Types
  <2>7. was \in [Pcb -> Record] /\ was[p] = r /\ \A q \in Pcb \ {p} : was[q] = proc[q]
      BY <2>4, <2>5, <2>6
  <2> QED  BY <2>2, <2>5, <2>6, <2>7
<1>10. /\ Keeps /\ process_table' \in [Pid -> Pcb \cup {NULL}] /\ proc' \in [Pcb -> Record]
       /\ \A q \in Pcb : Len(proc'[q].children) <= MAX_CHILDREN
    BY <1>1, <1>8, <1>9, ReapFacts
<1>11. UNCHANGED <<scheduled, shell_proc, created, reused>> /\ disowned' \subseteq Pcb
    BY <1>1 DEF wait_child_return, Types
<1>12. Types'
    BY <1>1, <1>5, <1>6, <1>10, <1>11 DEF Types
<1> QED  BY <1>2, <1>5, <1>10, <1>11, <1>12 DEF QuietStep, Holding

\* The last line of create_process.
LEMMA CreateProcessReap ==
    ASSUME IInv, NEW p \in Pcb, create_process_reap(p)
    PROVE  Types' /\ QuietStep(p)
<1>1. Types /\ Slots
    BY DEF IInv
<1>2. Runs(p) /\ pc[p] = "scheduled"
    BY DEF create_process_reap
<1>3. arg[p] \in Pcb /\ proc[arg[p]].pid \in Pid
    BY <1>1, <1>2, RecordFields DEF Types, Places, Names
<1>4. PICK l, v : /\ Goto(p, l, v) /\ l \in {"user", "assign", "created"}
                  /\ l = "user" => v = NULL
                  /\ l = "assign" => v = arg[p]
                  /\ l = "created" => v = proc[arg[p]].pid /\ proc[p].program # "init"
    BY DEF create_process_reap
<1>5. /\ Moves(p) /\ pc'[p] = l /\ arg'[p] = v /\ Places'
  <2>1. /\ l \in Label /\ v \in Pcb \cup Pid \cup {NULL}
        /\ l = "user" \/ (l \in Names /\ v \in Pid) \/ (l \notin Names /\ v \in Pcb)
      BY <1>3, <1>4 DEF Label, Names
  <2> QED  BY <1>1, <1>4, <2>1, GotoFacts
<1>6. reap_terminated_processes(proc)
    BY DEF create_process_reap
<1>7. proc \in [Pcb -> Record] /\ \A q \in Pcb : Len(proc[q].children) <= MAX_CHILDREN
    BY <1>1 DEF Types
<1>8. /\ Keeps /\ process_table' \in [Pid -> Pcb \cup {NULL}] /\ proc' \in [Pcb -> Record]
      /\ \A q \in Pcb : Len(proc'[q].children) <= MAX_CHILDREN
    BY <1>1, <1>6, <1>7, ReapFacts
<1>9. UNCHANGED <<scheduled, sems, asleep, shell_proc, created, reused, disowned>>
    BY DEF create_process_reap
<1>10. Types'
    BY <1>1, <1>5, <1>8, <1>9 DEF Types
<1>11. p = InitPcb => l # "created"
    BY <1>2, <1>4, Actor
<1> QED  BY <1>4, <1>5, <1>8, <1>9, <1>10, <1>11 DEF QuietStep, Holding

\* create_shell's assignment.
LEMMA CreateShell ==
    ASSUME IInv, create_shell
    PROVE  Types' /\ QuietStep(InitPcb)
<1>1. Types /\ Slots
    BY DEF IInv
<1>2. InitPcb \in Pcb /\ pc[InitPcb] = "assign" /\ Goto(InitPcb, "user", NULL)
    BY PidFacts DEF create_shell
<1>3. arg[InitPcb] \in Pcb
    BY <1>1, <1>2 DEF Types, Places, Names
<1>5. /\ Moves(InitPcb) /\ pc'[InitPcb] = "user" /\ arg'[InitPcb] = NULL /\ Places'
  <2>1. "user" \in Label /\ NULL \in Pcb \cup Pid \cup {NULL}
      BY DEF Label
  <2> QED  BY <1>1, <1>2, <2>1, GotoFacts
<1>6. UNCHANGED <<process_table, proc, scheduled, sems, asleep, created, reused, disowned>>
      /\ shell_proc' \in Pcb
    BY <1>3 DEF create_shell
<1>7. Types'
    BY <1>1, <1>5, <1>6 DEF Types
<1>8. Keeps
    BY <1>1, <1>6, KeepsSame
<1> QED  BY <1>5, <1>6, <1>7, <1>8 DEF QuietStep, Holding

\* The start of process_terminator.
LEMMA ProcessTerminator ==
    ASSUME IInv, NEW p \in Pcb, process_terminator(p)
    PROVE  Types' /\ QuietStep(p)
<1>1. Types /\ Slots
    BY DEF IInv
<1>2. Runs(p) /\ pc[p] = "user" /\ p # InitPcb /\ Goto(p, "reparented", p)
    BY Actor DEF process_terminator
<1>3. proc[p].pid \in Pid /\ process_table[proc[p].pid] # NULL
    BY <1>2, Actor, PidFacts
<1>4. /\ proc' \in [Pcb -> Record]
      /\ \A q \in Pcb :
           /\ proc'[q].pid = proc[q].pid /\ proc'[q].state = proc[q].state
           /\ proc'[q].foreground = proc[q].foreground /\ proc'[q].program = proc[q].program
           /\ Len(proc'[q].children) <= MAX_CHILDREN
  <2>1. proc' = reparent_children(proc[p].pid)
      BY DEF process_terminator
  <2>2. PICK d : d = proc[p].pid
      OBVIOUS
  <2>3. PICK R : R = reparent_children(d)
      OBVIOUS
  <2> HIDE <2>1
  <2>4. proc' = R
      BY <2>1, <2>2, <2>3
  <2>5. /\ R \in [Pcb -> Record]
        /\ \A q \in Pcb :
             /\ R[q].pid = proc[q].pid /\ R[q].state = proc[q].state
             /\ R[q].foreground = proc[q].foreground /\ R[q].program = proc[q].program
             /\ Len(R[q].children) <= MAX_CHILDREN
      BY <1>1, <1>3, <2>2, <2>3, Reparented
  <2> QED  BY <2>4, <2>5
<1>5. /\ Moves(p) /\ pc'[p] = "reparented" /\ arg'[p] = p /\ Places'
  <2>1. "reparented" \in Label \ Names /\ p \in Pcb \cup Pid \cup {NULL}
      BY DEF Label, Names
  <2> QED  BY <1>1, <1>2, <2>1, GotoFacts
<1>6. UNCHANGED <<process_table, scheduled, sems, asleep, shell_proc, created, reused, disowned>>
    BY DEF process_terminator
<1>7. Types'
    BY <1>1, <1>4, <1>5, <1>6 DEF Types
<1>8. Keeps
    BY <1>1, <1>4, <1>6, KeepsSame
<1> QED  BY <1>2, <1>5, <1>6, <1>7, <1>8 DEF QuietStep, Holding

\* process_terminator's post.
LEMMA ProcessTerminatorPost ==
    ASSUME IInv, NEW p \in Pcb, process_terminator_post(p)
    PROVE  Types' /\ QuietStep(p)
<1>1. Types /\ Slots
    BY DEF IInv
<1>2. Runs(p) /\ pc[p] = "reparented" /\ p # InitPcb /\ Goto(p, "posted", p)
    BY Actor DEF process_terminator_post
<1>3. proc[p].pid \in Pid
    BY <1>2, Actor
<1>4. sems' \in [Pid -> SemRecord(Pid)] /\ asleep' \subseteq Pid
  <2>1. PostExit(proc[p].pid) \in Registry
      BY <1>1, <1>3, SemTypes, SemsFacts DEF PostExit
  <2> QED  BY <2>1, SemStep DEF process_terminator_post
<1>5. /\ Moves(p) /\ pc'[p] = "posted" /\ arg'[p] = p /\ Places'
  <2>1. "posted" \in Label \ Names /\ p \in Pcb \cup Pid \cup {NULL}
      BY DEF Label, Names
  <2> QED  BY <1>1, <1>2, <2>1, GotoFacts
<1>6. UNCHANGED <<process_table, proc, scheduled, shell_proc, created, reused, disowned>>
    BY DEF process_terminator_post
<1>7. Types'
    BY <1>1, <1>4, <1>5, <1>6 DEF Types
<1>8. Keeps
    BY <1>1, <1>6, KeepsSame
<1> QED  BY <1>2, <1>5, <1>6, <1>7, <1>8 DEF QuietStep, Holding

\* kill_process up to its post: the victim is in the table, and nobody holds it.
LEMMA KillProcess ==
    ASSUME IInv, NEW p \in Pcb, Runs(p), NEW pid \in Pid, kill_process(p, pid), p # InitPcb,
           \/ sems[pid].blockedProcesses = <<>>
           \/ process_table[pid] = p,
           process_table[pid] \notin Unborn
    PROVE  Types' /\ QuietStep(p)
<1>1. Types /\ Slots
    BY DEF IInv
<1>2. PICK q : q = process_table[pid]
    OBVIOUS
<1>3. PICK l : l = IF sems[pid].blockedProcesses # <<>> THEN "killing" ELSE "killing_cli"
    OBVIOUS
<1>4. /\ Goto(p, l, q) /\ pid # INIT_PID /\ process_table[pid] # NULL
      /\ UNCHANGED <<process_table, scheduled, shell_proc, created, reused, disowned>>
    BY <1>2, <1>3 DEF kill_process
<1>5. q \in Pcb /\ proc[q].pid = pid /\ q # InitPcb
    BY <1>1, <1>2, <1>4 DEF Types, Slots, IInv, InitLives
<1>6. /\ proc' \in [Pcb -> Record]
      /\ \A r \in Pcb :
           /\ proc'[r].pid = proc[r].pid /\ proc'[r].state = proc[r].state
           /\ proc'[r].foreground = proc[r].foreground /\ proc'[r].program = proc[r].program
           /\ Len(proc'[r].children) <= MAX_CHILDREN
  <2>1. PICK R : R = reparent_children(pid)
      OBVIOUS
  <2>2. proc' = R
      BY <2>1 DEF kill_process
  <2>3. /\ R \in [Pcb -> Record]
        /\ \A r \in Pcb :
             /\ R[r].pid = proc[r].pid /\ R[r].state = proc[r].state
             /\ R[r].foreground = proc[r].foreground /\ R[r].program = proc[r].program
             /\ Len(R[r].children) <= MAX_CHILDREN
      BY <1>1, <1>4, <2>1, Reparented
  <2> QED  BY <2>2, <2>3
<1>7. sems' \in [Pid -> SemRecord(Pid)] /\ asleep' \subseteq Pid
  <2>1. PostExit(pid) \in Registry
      BY <1>1, SemTypes, SemsFacts DEF PostExit
  <2> QED  BY <2>1, SemStep DEF kill_process
<1>8. Moves(p) /\ pc'[p] = l /\ arg'[p] = q /\ Places'
  <2>1. l \in Label \ Names /\ q \in Pcb \cup Pid \cup {NULL}
      BY <1>3, <1>5 DEF Label, Names
  <2> QED  BY <1>1, <1>4, <1>5, <2>1, GotoFacts
<1>9. Types'
    BY <1>1, <1>4, <1>6, <1>7, <1>8 DEF Types
<1>10. Keeps
    BY <1>1, <1>4, <1>6, KeepsSame
<1>11. \A r \in Pcb : pc[r] \in Holding => arg[r] # q
    BY <1>2 DEF Unborn, Holding
<1>12. l = "killing" => q = p
    BY <1>2, <1>3
<1>13. l \in {"killing", "killing_cli"} /\ process_table'[proc[q].pid] = q
    BY <1>2, <1>3, <1>4, <1>5
<1> QED  BY <1>4, <1>5, <1>8, <1>9, <1>10, <1>11, <1>12, <1>13 DEF QuietStep, Holding

\* The kill command.
LEMMA SysKill ==
    ASSUME IInv, ~reckless', NEW p \in Pcb, sys_kill(p)
    PROVE  Types' /\ QuietStep(p)
<1>1. PICK pid \in Pid : /\ process_table[pid] \notin Unborn
                         /\ sems[pid].blockedProcesses = <<>> /\ kill_process(p, pid)
    BY DEF sys_kill, Rule
<1>2. Runs(p) /\ p # InitPcb
    BY Actor DEF sys_kill
<1> QED  BY <1>1, <1>2, KillProcess

\* Ctrl+C.
LEMMA CtrlC ==
    ASSUME IInv, ~reckless', NEW p \in Pcb, kill_foreground_processes(p)
    PROVE  Types' /\ QuietStep(p)
<1>1. Runs(p) /\ p # InitPcb /\ p \notin Unborn /\ kill_process(p, proc[p].pid)
    BY Actor DEF kill_foreground_processes, Rule
<1>2. proc[p].pid \in Pid /\ process_table[proc[p].pid] = p
    BY <1>1, Actor
<1>3. PICK pid : pid = proc[p].pid
    OBVIOUS
<1> QED  BY <1>1, <1>2, <1>3, KillProcess

\* The block command.
LEMMA SysBlock ==
    ASSUME IInv, NEW p \in Pcb, sys_block_process(p)
    PROVE  Types' /\ QuietStep(p)
<1>1. Types /\ Slots /\ pc[p] = "user"
    BY DEF IInv, sys_block_process
<1>2. asleep' \subseteq Pid
    BY <1>1 DEF sys_block_process, Types
<1>3. UNCHANGED <<process_table, proc, scheduled, sems, shell_proc, pc, arg, created, reused, disowned>>
    BY DEF sys_block_process
<1>4. Types'
    BY <1>1, <1>2, <1>3 DEF Types, Places
<1>5. Keeps
    BY <1>1, <1>3, KeepsSame
<1> QED  BY <1>1, <1>3, <1>4, <1>5 DEF QuietStep, Holding, Moves

-----------------------------------------------------------------------------
(* Creation.                                                               *)

\* assign_pid finds a free slot and mm_alloc free memory.
LEMMA Allocation ==
    ASSUME Types, FreeSlots # {}, FreeMemory # {}
    PROVE  assign_pid \in FreeSlots /\ assign_pid \in Pid /\ mm_alloc \in FreeMemory /\ mm_alloc \in Pcb
<1>1. FreeSlots \in SUBSET Nat /\ FreeSlots \subseteq Pid
    BY PidFacts DEF FreeSlots
<1>2. \E i \in FreeSlots : \A j \in FreeSlots : i <= j
    BY <1>1, Least
<1>3. assign_pid \in FreeSlots
    BY <1>2 DEF assign_pid
<1>4. mm_alloc \in FreeMemory
    BY DEF mm_alloc
<1> QED  BY <1>1, <1>3, <1>4 DEF FreeMemory

\* The start of create_process.
LEMMA CreateProcessPid ==
    ASSUME IInv, ~reckless', NEW p \in Pcb, Runs(p), Uninterrupted(p), pc[p] = "user",
           NEW g \in {"shell", "command"}, NEW b \in BOOLEAN, create_process_pid(p, g, b)
    PROVE  IInv'
<1>1. Types /\ Slots /\ Known /\ InitLives /\ Held /\ Killed
    BY DEF IInv
<1>2. PICK q, i : q = mm_alloc /\ i = assign_pid
    OBVIOUS
<1>3. PICK r : r = Allocated(i, b, g)
    OBVIOUS
<1>4. q \in Pcb /\ proc[q].state = "NONE" /\ i \in Pid /\ i \in FreeSlots
    BY <1>1, <1>2, Allocation DEF create_process_pid, FreeMemory
<1>5. r \in Record /\ r.state = "NEW" /\ r.pid = i /\ r.children = <<>>
    BY <1>3, <1>4, NewFields
<1>6. /\ proc' = [proc EXCEPT ![q] = r] /\ Goto(p, "assigned", q)
      /\ disowned' = disowned \ {q} /\ created < MaxCreated /\ created' = created + 1
      /\ Creating = {} /\ q \notin Unborn
      /\ UNCHANGED <<process_table, scheduled, sems, asleep, shell_proc, reused>>
    BY <1>2, <1>3 DEF create_process_pid, Allocated, Rule
<1>7. proc \in [Pcb -> Record] /\ process_table \in [Pid -> Pcb \cup {NULL}] /\ scheduled \subseteq Pcb
    BY <1>1 DEF Types
<1>8. proc'[q] = r /\ \A x \in Pcb \ {q} : proc'[x] = proc[x]
    BY <1>4, <1>6, <1>7
<1>9. Moves(p) /\ pc'[p] = "assigned" /\ arg'[p] = q /\ Places'
  <2>1. "assigned" \in Label \ Names /\ q \in Pcb \cup Pid \cup {NULL}
      BY <1>4 DEF Label, Names
  <2> QED  BY <1>1, <1>4, <1>6, <2>1, GotoFacts
<1>10. Types'
  <2>1. proc' \in [Pcb -> Record]
      BY <1>4, <1>5, <1>6, <1>7
  <2>2. \A x \in Pcb : Len(proc'[x].children) <= MAX_CHILDREN
    <3>1. Len(r.children) <= MAX_CHILDREN
        BY <1>5, TableAssumption
    <3> QED  BY <1>1, <1>8, <3>1 DEF Types
  <2>3. created' \in 0..MaxCreated
      BY <1>1, <1>6, TableAssumption DEF Types
  <2> QED  BY <1>1, <1>6, <1>9, <2>1, <2>2, <2>3 DEF Types
<1>11. q # NULL /\ (\A j \in Pid : process_table[j] # q) /\ q \notin scheduled /\ q # p
  <2>1. \A j \in Pid : process_table[j] # q
      BY <1>1, <1>4, PidFacts DEF Slots
  <2> QED  BY <1>1, <1>4, <2>1, PidFacts, Actor DEF Known
<1>12. Slots'
    BY <1>1, <1>6, <1>7, <1>8, <1>11 DEF Slots
<1>13. \A x \in Pcb \ {q} : InTable(x)' <=> InTable(x)
    BY <1>6, <1>8 DEF InTable
<1>14. Known'
  <2>1. ASSUME NEW x \in scheduled' PROVE proc'[x].state = "READY" /\ InTable(x)'
    <3>1. x \in scheduled /\ x \in Pcb \ {q}
        BY <1>6, <1>7, <1>11
    <3> QED  BY <1>1, <1>8, <1>13, <3>1 DEF Known
  <2>2. ASSUME NEW x \in Pcb, pc'[x] # "user" PROVE x \in scheduled'
    <3>1. x = p \/ pc'[x] = pc[x]
        BY <1>9 DEF Moves
    <3> QED  BY <1>1, <1>6, <2>2, <3>1, Actor DEF Known
  <2> QED  BY <2>1, <2>2 DEF Known
<1>15. InitLives'
  <2>1. InitPcb \in Pcb \ {q} /\ InitPcb \in scheduled'
      BY <1>1, <1>6, <1>11, PidFacts DEF InitLives
  <2>2. pc'[InitPcb] \in {"user", "assigned", "linked", "inserted", "scheduled", "assign"}
      BY <1>1, <1>9, <2>1 DEF InitLives, Moves
  <2> QED  BY <1>1, <1>8, <2>1, <2>2 DEF InitLives
<1>16. ASSUME NEW x \in Pcb \ {p}, pc'[x] \in Holding
       PROVE  pc[x] = "inserted" /\ pc'[x] = "inserted" /\ arg'[x] = arg[x] /\ arg[x] \in Pcb /\ arg[x] # q
  <2>1. pc'[x] = pc[x] /\ arg'[x] = arg[x]
      BY <1>9 DEF Moves
  <2>2. pc[x] = "inserted"
      BY <1>6, <1>16, <2>1 DEF Creating, Holding
  <2>3. arg[x] \in Pcb /\ arg[x] # q
      BY <1>1, <1>6, <2>2 DEF Types, Places, Names, Unborn
  <2> QED  BY <2>1, <2>2, <2>3
<1>17. Held'
  <2>1. ASSUME NEW x \in Pcb, pc'[x] \in Holding
        PROVE  /\ arg'[x] \notin scheduled'
               /\ proc'[arg'[x]].state = IF pc'[x] = "assigned" THEN "NEW" ELSE "READY"
    <3>1. CASE x = p
        BY <1>5, <1>6, <1>8, <1>9, <1>11, <3>1
    <3>2. CASE x # p
      <4>1. arg[x] \notin scheduled /\ proc[arg[x]].state = "READY"
          BY <1>1, <1>16, <2>1, <3>2 DEF Held, Holding
      <4> QED  BY <1>6, <1>8, <1>16, <2>1, <3>2, <4>1
    <3> QED  BY <3>1, <3>2
  <2>2. ASSUME NEW x \in Creating' PROVE x = p
      BY <1>16 DEF Creating, Holding
  <2>3. /\ \A j \in Pid : process_table'[j] # arg'[p]
        /\ proc'[arg'[p]].pid \in FreeSlots'
    <3>1. i \in FreeSlots'
      <4>1. process_table[i] # NULL => process_table[i] \in Pcb \ {q}
          BY <1>4, <1>7, <1>11
      <4> QED  BY <1>4, <1>6, <1>8, <4>1 DEF FreeSlots
    <3> QED  BY <1>5, <1>6, <1>8, <1>9, <1>11, <3>1
  <2>4. ASSUME NEW x \in Pcb, pc'[x] = "inserted"
        PROVE  x # p /\ pc[x] = "inserted" /\ arg'[x] = arg[x] /\ InTable(arg[x])'
    <3>1. x # p
        BY <1>9, <2>4
    <3>2. pc[x] = "inserted" /\ arg'[x] = arg[x] /\ arg[x] \in Pcb \ {q}
        BY <1>16, <2>4, <3>1 DEF Holding
    <3>3. InTable(arg[x])
        BY <1>1, <3>2 DEF Held
    <3>4. process_table'[proc'[arg[x]].pid] = arg[x]
        BY <1>6, <1>8, <3>2, <3>3 DEF InTable
    <3> QED  BY <3>1, <3>2, <3>4 DEF InTable
  <2>5. \A x, y \in Pcb : pc'[x] = "inserted" /\ pc'[y] = "inserted" /\ arg'[x] = arg'[y] => x = y
      BY <1>1, <2>4 DEF Held
  <2> QED  BY <2>1, <2>2, <2>3, <2>4, <2>5 DEF Held
<1>18. Killed'
  <2>1. ASSUME NEW x \in Pcb, pc'[x] = "killing" PROVE arg'[x] = x
      BY <1>1, <1>9, <2>1 DEF Killed, Moves
  <2>2. ASSUME NEW x \in Pcb PROVE pc'[x] # "killing_cli"
      BY <1>9 DEF Moves, Uninterrupted
  <2> QED  BY <2>1, <2>2 DEF Killed
<1> QED  BY <1>10, <1>12, <1>14, <1>15, <1>17, <1>18 DEF IInv

\* What create_process_link writes.
LEMMA LinkFacts ==
    ASSUME IInv, NEW p \in Pcb, create_process_link(p), NEW q, q = arg[p]
    PROVE  /\ q \in Pcb /\ q # p /\ proc' \in [Pcb -> Record]
           /\ proc'[q].pid = proc[q].pid /\ proc'[q].ppid = proc[p].pid /\ proc'[q].state = "READY"
           /\ proc'[q].children = proc[q].children
           /\ proc'[q].foreground = proc[q].foreground /\ proc'[q].program = proc[q].program
           /\ proc'[p].pid = proc[p].pid /\ proc'[p].ppid = proc[p].ppid
           /\ proc'[p].state = proc[p].state
           /\ proc'[p].foreground = proc[p].foreground /\ proc'[p].program = proc[p].program
           /\ proc'[p].children =
                IF HasRoom(p) THEN Append(proc[p].children, proc[q].pid) ELSE proc[p].children
           /\ Len(proc'[p].children) <= MAX_CHILDREN
           /\ \A x \in Pcb \ {p, q} : proc'[x] = proc[x]
<1>1. Types /\ Held
    BY DEF IInv
<1>2. Runs(p) /\ pc[p] = "assigned"
    BY DEF create_process_link
<1>3. q \in Pcb /\ q # p
    BY <1>1, <1>2, Actor DEF Types, Places, Names, Held, Holding
<1>4. proc \in [Pcb -> Record] /\ proc[p] \in Record /\ proc[q] \in Record
    BY <1>1, <1>3 DEF Types
<1>5. proc[p].pid \in Pid /\ proc[q].pid \in Pid /\ proc[p].children \in Seq(Pid)
    BY <1>4, RecordFields
<1>6. PICK c : c = proc[p].pid
    OBVIOUS
<1>7. PICK r0 : r0 = [proc[q] EXCEPT !.ppid = c]
    OBVIOUS
<1>8. PICK r : r = [r0 EXCEPT !.state = "READY"]
    OBVIOUS
<1>9. PICK s : s = IF HasRoom(p) THEN Append(proc[p].children, proc[q].pid) ELSE proc[p].children
    OBVIOUS
<1>10. PICK t : t = [proc[p] EXCEPT !.children = s]
    OBVIOUS
<1>11. proc' = [proc EXCEPT ![q] = r, ![p] = t]
  <2>1. [proc EXCEPT ![q].ppid = c, ![q].state = "READY", ![p].children = s]
          = [proc EXCEPT ![q] = r, ![p] = t]
      BY <1>3, <1>4, <1>7, <1>8, <1>10
  <2> QED  BY <1>3, <1>4, <1>6, <1>9, <2>1 DEF create_process_link
<1>12. s \in Seq(Pid) /\ Len(s) <= MAX_CHILDREN
  <2>1. Len(proc[p].children) <= MAX_CHILDREN /\ MAX_CHILDREN \in Nat
      BY <1>1, TableAssumption DEF Types
  <2>2. PICK a, n : a = proc[p].children /\ n = proc[q].pid
      OBVIOUS
  <2>3. a \in Seq(Pid) /\ n \in Pid /\ Len(a) \in Nat
      BY <1>5, <2>2
  <2>4. Append(a, n) \in Seq(Pid) /\ Len(Append(a, n)) = Len(a) + 1
      BY <2>3
  <2> QED  BY <1>9, <2>1, <2>2, <2>3, <2>4 DEF HasRoom
<1>13. /\ r0 \in Record /\ r0.ppid = c /\ r0.pid = proc[q].pid /\ r0.children = proc[q].children
       /\ r0.foreground = proc[q].foreground /\ r0.program = proc[q].program
    BY <1>4, <1>5, <1>6, <1>7, WithParent
<1>14. /\ r \in Record /\ r.ppid = c /\ r.pid = proc[q].pid /\ r.state = "READY"
       /\ r.children = proc[q].children
       /\ r.foreground = proc[q].foreground /\ r.program = proc[q].program
    BY <1>8, <1>13, WithState
<1>15. /\ t \in Record /\ t.children = s /\ t.pid = proc[p].pid /\ t.ppid = proc[p].ppid
       /\ t.state = proc[p].state
       /\ t.foreground = proc[p].foreground /\ t.program = proc[p].program
    BY <1>4, <1>10, <1>12, WithChildren
<1>16. proc' \in [Pcb -> Record] /\ proc'[q] = r /\ proc'[p] = t /\ \A x \in Pcb \ {p, q} : proc'[x] = proc[x]
    BY <1>3, <1>4, <1>11, <1>14, <1>15
<1> QED  BY <1>3, <1>6, <1>9, <1>12, <1>14, <1>15, <1>16

\* The parent is written down.
LEMMA CreateProcessLink ==
    ASSUME IInv, NEW p \in Pcb, Uninterrupted(p), create_process_link(p)
    PROVE  IInv'
<1>1. Types /\ Slots /\ Known /\ InitLives /\ Held /\ Killed
    BY DEF IInv
<1>2. PICK q : q = arg[p]
    OBVIOUS
<1>3. /\ Runs(p) /\ pc[p] = "assigned" /\ Goto(p, "linked", q)
      /\ UNCHANGED <<process_table, scheduled, sems, asleep, shell_proc, created, reused>>
      /\ disowned' = IF HasRoom(p) THEN disowned ELSE disowned \cup {q}
    BY <1>2 DEF create_process_link
<1>4. /\ q \in Pcb /\ q # p /\ proc' \in [Pcb -> Record]
      /\ proc'[q].pid = proc[q].pid /\ proc'[q].state = "READY"
      /\ \A x \in Pcb \ {q} : /\ proc'[x].pid = proc[x].pid /\ proc'[x].state = proc[x].state
                              /\ proc'[x].foreground = proc[x].foreground
                              /\ proc'[x].program = proc[x].program
    BY <1>2, LinkFacts
<1>5. \A x \in Pcb : Len(proc'[x].children) <= MAX_CHILDREN
  <2>1. /\ Len(proc'[p].children) <= MAX_CHILDREN /\ proc'[q].children = proc[q].children
        /\ \A x \in Pcb \ {p, q} : proc'[x] = proc[x]
      BY <1>2, LinkFacts
  <2> QED  BY <1>1, <1>4, <2>1 DEF Types
<1>6. Moves(p) /\ pc'[p] = "linked" /\ arg'[p] = q /\ Places'
  <2>1. "linked" \in Label \ Names /\ q \in Pcb \cup Pid \cup {NULL}
      BY <1>4 DEF Label, Names
  <2> QED  BY <1>1, <1>3, <1>4, <2>1, GotoFacts
<1>7. Types'
    BY <1>1, <1>3, <1>4, <1>5, <1>6 DEF Types
<1>8. process_table \in [Pid -> Pcb \cup {NULL}] /\ scheduled \subseteq Pcb
    BY <1>1 DEF Types
<1>9. p \in Creating /\ q \notin scheduled /\ (\A j \in Pid : process_table[j] # q)
    BY <1>1, <1>2, <1>3 DEF Held, Creating, Holding
<1>10. Slots'
    BY <1>1, <1>3, <1>4, <1>8, <1>9 DEF Slots
<1>11. \A x \in Pcb : process_table'[proc'[x].pid] = process_table[proc[x].pid]
    BY <1>3, <1>4
<1>12. Known'
  <2>1. ASSUME NEW x \in scheduled' PROVE proc'[x].state = "READY" /\ InTable(x)'
    <3>1. x \in scheduled /\ x \in Pcb \ {q}
        BY <1>3, <1>8, <1>9
    <3> QED  BY <1>1, <1>4, <1>11, <3>1 DEF Known, InTable
  <2>2. ASSUME NEW x \in Pcb, pc'[x] # "user" PROVE x \in scheduled'
    <3>1. x = p \/ pc'[x] = pc[x]
        BY <1>6 DEF Moves
    <3> QED  BY <1>1, <1>3, <2>2, <3>1, Actor DEF Known
  <2> QED  BY <2>1, <2>2 DEF Known
<1>13. InitLives'
  <2>1. InitPcb \in Pcb \ {q} /\ InitPcb \in scheduled'
      BY <1>1, <1>3, <1>9, PidFacts DEF InitLives
  <2>2. pc'[InitPcb] \in {"user", "assigned", "linked", "inserted", "scheduled", "assign"}
      BY <1>1, <1>6, <2>1 DEF InitLives, Moves
  <2> QED  BY <1>1, <1>4, <2>1, <2>2 DEF InitLives
<1>14. ASSUME NEW x \in Pcb \ {p}, pc'[x] \in Holding
       PROVE  pc[x] = "inserted" /\ pc'[x] = "inserted" /\ arg'[x] = arg[x] /\ arg[x] \in Pcb /\ arg[x] # q
  <2>1. pc'[x] = pc[x] /\ arg'[x] = arg[x]
      BY <1>6 DEF Moves
  <2>2. pc[x] = "inserted"
      BY <1>1, <1>9, <1>14, <2>1 DEF Creating, Holding, Held
  <2>3. arg[x] \in Pcb
      BY <1>1, <2>2 DEF Types, Places, Names
  <2>4. process_table[proc[arg[x]].pid] = arg[x] /\ proc[arg[x]].pid \in Pid
      BY <1>1, <2>2, <2>3, RecordFields DEF Held, InTable, Types
  <2> QED  BY <1>9, <2>1, <2>2, <2>3, <2>4
<1>15. Held'
  <2>1. ASSUME NEW x \in Pcb, pc'[x] \in Holding
        PROVE  /\ arg'[x] \notin scheduled'
               /\ proc'[arg'[x]].state = IF pc'[x] = "assigned" THEN "NEW" ELSE "READY"
    <3>1. CASE x = p
        BY <1>3, <1>4, <1>6, <1>9, <3>1
    <3>2. CASE x # p
      <4>1. arg[x] \notin scheduled /\ proc[arg[x]].state = "READY"
          BY <1>1, <1>14, <2>1, <3>2 DEF Held, Holding
      <4> QED  BY <1>3, <1>4, <1>14, <2>1, <3>2, <4>1
    <3> QED  BY <3>1, <3>2
  <2>2. ASSUME NEW x \in Creating' PROVE x = p
      BY <1>14 DEF Creating, Holding
  <2>3. /\ \A j \in Pid : process_table'[j] # arg'[p]
        /\ proc'[arg'[p]].pid \in FreeSlots'
    <3>1. proc[q].pid \in FreeSlots
        BY <1>1, <1>2, <1>9 DEF Held
    <3>2. proc[q].pid \in FreeSlots'
        BY <1>3, <1>4, <1>8, <1>9, <3>1 DEF FreeSlots
    <3> QED  BY <1>3, <1>4, <1>6, <1>9, <3>2
  <2>4. ASSUME NEW x \in Pcb, pc'[x] = "inserted"
        PROVE  x # p /\ pc[x] = "inserted" /\ arg'[x] = arg[x] /\ InTable(arg[x])'
    <3>1. x # p
        BY <1>6, <2>4
    <3>2. pc[x] = "inserted" /\ arg'[x] = arg[x] /\ arg[x] \in Pcb
        BY <1>14, <2>4, <3>1 DEF Holding
    <3>3. InTable(arg[x])
        BY <1>1, <3>2 DEF Held
    <3>4. process_table'[proc'[arg[x]].pid] = arg[x]
        BY <1>11, <3>2, <3>3 DEF InTable
    <3> QED  BY <3>1, <3>2, <3>4 DEF InTable
  <2>5. \A x, y \in Pcb : pc'[x] = "inserted" /\ pc'[y] = "inserted" /\ arg'[x] = arg'[y] => x = y
      BY <1>1, <2>4 DEF Held
  <2> QED  BY <2>1, <2>2, <2>3, <2>4, <2>5 DEF Held
<1>16. Killed'
  <2>1. ASSUME NEW x \in Pcb, pc'[x] = "killing" PROVE arg'[x] = x
      BY <1>1, <1>6, <2>1 DEF Killed, Moves
  <2>2. ASSUME NEW x \in Pcb PROVE pc'[x] # "killing_cli"
      BY <1>6 DEF Moves, Uninterrupted
  <2> QED  BY <2>1, <2>2 DEF Killed
<1> QED  BY <1>7, <1>10, <1>12, <1>13, <1>15, <1>16 DEF IInv

\* Who else holds a PCB while p creates: somebody who has inserted another one.
LEMMA OtherHolders ==
    ASSUME IInv, NEW p \in Creating, Moves(p), NEW x \in Pcb \ {p}, pc'[x] \in Holding
    PROVE  /\ pc[x] = "inserted" /\ pc'[x] = "inserted" /\ arg'[x] = arg[x] /\ arg[x] \in Pcb
           /\ arg[x] # arg[p] /\ arg[x] \notin scheduled
           /\ proc[arg[x]].state = "READY" /\ process_table[proc[arg[x]].pid] = arg[x]
           /\ proc[arg[x]].pid \in Pid /\ proc[arg[x]].pid \notin FreeSlots
<1>1. Types /\ Held /\ p \in Pcb
    BY DEF IInv, Creating
<1>2. pc'[x] = pc[x] /\ arg'[x] = arg[x]
    BY DEF Moves
<1>3. pc[x] = "inserted"
    BY <1>1, <1>2 DEF Creating, Holding, Held
<1>4. arg[x] \in Pcb
    BY <1>1, <1>3 DEF Types, Places, Names
<1>5. process_table[proc[arg[x]].pid] = arg[x] /\ proc[arg[x]].pid \in Pid
    BY <1>1, <1>3, <1>4, RecordFields DEF Held, InTable, Types
<1>6. arg[x] \notin scheduled /\ proc[arg[x]].state = "READY" /\ \A j \in Pid : process_table[j] # arg[p]
    BY <1>1, <1>3 DEF Held, Holding
<1>7. proc[arg[x]].pid \notin FreeSlots
    BY <1>4, <1>5, <1>6, PidFacts DEF FreeSlots
<1> QED  BY <1>2, <1>3, <1>4, <1>5, <1>6, <1>7

\* p's step leaves no kill behind that was not there.
LEMMA NoKill ==
    ASSUME IInv, NEW p \in Pcb, Moves(p), Uninterrupted(p), pc'[p] \notin {"killing", "killing_cli"}
    PROVE  Killed'
<1>1. ASSUME NEW x \in Pcb, pc'[x] = "killing" PROVE arg'[x] = x
    BY <1>1 DEF Killed, Moves, IInv
<1>2. ASSUME NEW x \in Pcb PROVE pc'[x] # "killing_cli"
    BY DEF Moves, Uninterrupted
<1> QED  BY <1>1, <1>2 DEF Killed

\* No memory for argv.
LEMMA CreateProcessFail ==
    ASSUME IInv, NEW p \in Pcb, Uninterrupted(p), create_process_fail(p)
    PROVE  IInv'
<1>1. Types /\ Slots /\ Known /\ InitLives /\ Held /\ Killed
    BY DEF IInv
<1>2. PICK q : q = arg[p]
    OBVIOUS
<1>3. PICK r : r = Freed(q)
    OBVIOUS
<1>4. /\ Runs(p) /\ pc[p] = "linked" /\ Goto(p, "user", NULL) /\ proc' = [proc EXCEPT ![q] = r]
      /\ UNCHANGED <<process_table, scheduled, sems, asleep, created, reused, disowned>>
      /\ shell_proc' \in {NULL, shell_proc}
    BY <1>2, <1>3 DEF create_process_fail
<1>5. p \in Creating /\ q \in Pcb /\ q \notin scheduled /\ \A j \in Pid : process_table[j] # q
    BY <1>1, <1>2, <1>4 DEF Held, Creating, Holding, Types, Places, Names
<1>6. /\ proc \in [Pcb -> Record] /\ process_table \in [Pid -> Pcb \cup {NULL}] /\ scheduled \subseteq Pcb
      /\ \A x \in Pcb : Len(proc[x].children) <= MAX_CHILDREN
    BY <1>1 DEF Types
<1>7. r \in Record /\ r.pid = proc[q].pid /\ r.children = <<>>
    BY <1>3, <1>5, <1>6, FreedFields
<1>8. proc'[q] = r /\ (\A x \in Pcb \ {q} : proc'[x] = proc[x]) /\ proc' \in [Pcb -> Record]
    BY <1>4, <1>5, <1>6, <1>7
<1>9. Moves(p) /\ pc'[p] = "user" /\ arg'[p] = NULL /\ Places'
  <2>1. "user" \in Label /\ NULL \in Pcb \cup Pid \cup {NULL}
      BY DEF Label
  <2> QED  BY <1>1, <1>4, <2>1, GotoFacts
<1>10. Types'
  <2>1. \A x \in Pcb : Len(proc'[x].children) <= MAX_CHILDREN
    <3>1. Len(r.children) <= MAX_CHILDREN
        BY <1>7, TableAssumption
    <3> QED  BY <1>6, <1>8, <3>1
  <2> QED  BY <1>1, <1>4, <1>8, <1>9, <2>1 DEF Types
<1>11. Slots'
    BY <1>1, <1>4, <1>5, <1>6, <1>8 DEF Slots
<1>12. Known'
  <2>1. ASSUME NEW x \in scheduled' PROVE proc'[x].state = "READY" /\ InTable(x)'
    <3>1. x \in scheduled /\ x \in Pcb \ {q}
        BY <1>4, <1>5, <1>6
    <3> QED  BY <1>1, <1>4, <1>8, <3>1 DEF Known, InTable
  <2>2. ASSUME NEW x \in Pcb, pc'[x] # "user" PROVE x \in scheduled'
      BY <1>1, <1>4, <1>9, <2>2 DEF Moves, Known
  <2> QED  BY <2>1, <2>2 DEF Known
<1>13. InitLives'
  <2>1. InitPcb \in Pcb \ {q} /\ InitPcb \in scheduled'
      BY <1>1, <1>4, <1>5, PidFacts DEF InitLives
  <2>2. pc'[InitPcb] \in {"user", "assigned", "linked", "inserted", "scheduled", "assign"}
      BY <1>1, <1>9, <2>1 DEF InitLives, Moves
  <2> QED  BY <1>1, <1>8, <2>1, <2>2 DEF InitLives
<1>14. Held'
  <2>1. ASSUME NEW x \in Pcb, pc'[x] \in Holding
        PROVE  /\ x # p /\ pc[x] = "inserted" /\ pc'[x] = "inserted" /\ arg'[x] = arg[x]
               /\ arg[x] \notin scheduled' /\ proc'[arg[x]].state = "READY"
               /\ process_table'[proc'[arg[x]].pid] = arg[x]
    <3>1. x # p
        BY <1>9, <2>1 DEF Holding
    <3>2. /\ pc[x] = "inserted" /\ pc'[x] = "inserted" /\ arg'[x] = arg[x] /\ arg[x] \in Pcb \ {q}
          /\ arg[x] \notin scheduled
          /\ proc[arg[x]].state = "READY" /\ process_table[proc[arg[x]].pid] = arg[x]
        BY <1>2, <1>5, <1>9, <2>1, <3>1, OtherHolders
    <3> QED  BY <1>4, <1>8, <3>1, <3>2
  <2>2. Creating' = {}
      BY <2>1 DEF Creating, Holding
  <2>3. ASSUME NEW x \in Pcb, pc'[x] = "inserted" PROVE InTable(arg[x])' /\ pc[x] = "inserted" /\ arg'[x] = arg[x]
      BY <2>1, <2>3 DEF Holding, InTable
  <2>4. \A x, y \in Pcb : pc'[x] = "inserted" /\ pc'[y] = "inserted" /\ arg'[x] = arg'[y] => x = y
      BY <1>1, <2>3 DEF Held
  <2> QED  BY <2>1, <2>2, <2>3, <2>4 DEF Held
<1>15. Killed'
    BY <1>9, NoKill
<1> QED  BY <1>10, <1>11, <1>12, <1>13, <1>14, <1>15 DEF IInv

\* The slot is filled.
LEMMA CreateProcessInsert ==
    ASSUME IInv, NEW p \in Pcb, Uninterrupted(p), create_process_insert(p)
    PROVE  IInv'
<1>1. Types /\ Slots /\ Known /\ InitLives /\ Held /\ Killed
    BY DEF IInv
<1>2. PICK q, i : q = arg[p] /\ i = proc[q].pid
    OBVIOUS
<1>3. /\ Runs(p) /\ pc[p] = "linked" /\ Goto(p, "inserted", q)
      /\ process_table' = [process_table EXCEPT ![i] = q]
      /\ SetSems(semOpen(Sems, i, 0)) /\ reused' \subseteq reused \cup {i}
      /\ UNCHANGED <<proc, scheduled, shell_proc, created, disowned>>
    BY <1>2 DEF create_process_insert
<1>4. /\ p \in Creating /\ q \in Pcb /\ q \notin scheduled /\ (\A j \in Pid : process_table[j] # q)
      /\ i \in FreeSlots /\ proc[q].state = "READY"
    BY <1>1, <1>2, <1>3 DEF Held, Creating, Holding, Types, Places, Names
<1>5. /\ proc \in [Pcb -> Record] /\ process_table \in [Pid -> Pcb \cup {NULL}] /\ scheduled \subseteq Pcb
      /\ i \in Pid /\ q # NULL
    BY <1>1, <1>4, PidFacts DEF Types, FreeSlots
<1>6. process_table'[i] = q /\ \A j \in Pid \ {i} : process_table'[j] = process_table[j]
    BY <1>3, <1>5
<1>7. Moves(p) /\ pc'[p] = "inserted" /\ arg'[p] = q /\ Places'
  <2>1. "inserted" \in Label \ Names /\ q \in Pcb \cup Pid \cup {NULL}
      BY <1>4 DEF Label, Names
  <2> QED  BY <1>1, <1>3, <1>4, <2>1, GotoFacts
<1>8. Types'
  <2>1. sems' \in [Pid -> SemRecord(Pid)] /\ asleep' \subseteq Pid
      BY <1>1, <1>3, <1>5, SemTypes, SemsFacts, SemStep
  <2>2. process_table' \in [Pid -> Pcb \cup {NULL}]
      BY <1>3, <1>4, <1>5
  <2>3. reused' \subseteq Pid
      BY <1>1, <1>3, <1>5 DEF Types
  <2> QED  BY <1>1, <1>3, <1>7, <2>1, <2>2, <2>3 DEF Types
<1>9. Slots'
    BY <1>1, <1>2, <1>3, <1>4, <1>6 DEF Slots
<1>10. ASSUME NEW x \in Pcb, InTable(x), proc[x].state # "TERMINATED"
       PROVE  process_table'[proc'[x].pid] = x /\ proc[x].pid # i
  <2>1. proc[x].pid \in Pid /\ x # NULL
      BY <1>5, RecordFields, PidFacts
  <2>2. proc[x].pid \notin FreeSlots
      BY <1>10, <2>1 DEF FreeSlots, InTable
  <2> QED  BY <1>3, <1>4, <1>6, <1>10, <2>1, <2>2 DEF InTable
<1>11. Known'
  <2>1. ASSUME NEW x \in scheduled' PROVE proc'[x].state = "READY" /\ InTable(x)'
    <3>1. x \in scheduled /\ x \in Pcb
        BY <1>3, <1>5
    <3>2. proc[x].state = "READY" /\ InTable(x)
        BY <1>1, <3>1 DEF Known
    <3> QED  BY <1>3, <1>10, <3>1, <3>2 DEF InTable
  <2>2. ASSUME NEW x \in Pcb, pc'[x] # "user" PROVE x \in scheduled'
    <3>1. x = p \/ pc'[x] = pc[x]
        BY <1>7 DEF Moves
    <3> QED  BY <1>1, <1>3, <2>2, <3>1, Actor DEF Known
  <2> QED  BY <2>1, <2>2 DEF Known
<1>12. InitLives'
  <2>1. InitPcb \in Pcb
      BY PidFacts
  <2>2. pc'[InitPcb] \in {"user", "assigned", "linked", "inserted", "scheduled", "assign"}
      BY <1>1, <1>7, <2>1 DEF InitLives, Moves
  <2> QED  BY <1>1, <1>3, <2>1, <2>2 DEF InitLives
<1>13. Held'
  <2>1. ASSUME NEW x \in Pcb, pc'[x] \in Holding
        PROVE  /\ pc'[x] = "inserted"
               /\ arg'[x] \notin scheduled' /\ proc'[arg'[x]].state = "READY"
               /\ process_table'[proc'[arg'[x]].pid] = arg'[x]
               /\ x # p => pc[x] = "inserted" /\ arg'[x] = arg[x] /\ arg[x] # q
    <3>1. CASE x = p
        BY <1>2, <1>3, <1>4, <1>6, <1>7, <3>1
    <3>2. CASE x # p
      <4>1. /\ pc[x] = "inserted" /\ pc'[x] = "inserted" /\ arg'[x] = arg[x] /\ arg[x] \in Pcb \ {q}
            /\ arg[x] \notin scheduled
            /\ proc[arg[x]].state = "READY" /\ process_table[proc[arg[x]].pid] = arg[x]
          BY <1>2, <1>4, <1>7, <2>1, <3>2, OtherHolders
      <4>2. InTable(arg[x])
          BY <4>1 DEF InTable
      <4> QED  BY <1>3, <1>10, <3>2, <4>1, <4>2
    <3> QED  BY <3>1, <3>2
  <2>2. Creating' = {}
      BY <2>1 DEF Creating, Holding
  <2>3. ASSUME NEW x \in Pcb, pc'[x] = "inserted"
        PROVE  /\ InTable(arg[x])'
               /\ x # p => pc[x] = "inserted" /\ arg'[x] = arg[x] /\ arg[x] # q
      BY <2>1, <2>3 DEF Holding, InTable
  <2>4. \A x, y \in Pcb : pc'[x] = "inserted" /\ pc'[y] = "inserted" /\ arg'[x] = arg'[y] => x = y
      BY <1>1, <1>7, <2>3 DEF Held
  <2> QED  BY <2>1, <2>2, <2>3, <2>4 DEF Held
<1>14. Killed'
    BY <1>7, NoKill
<1> QED  BY <1>8, <1>9, <1>11, <1>12, <1>13, <1>14 DEF IInv

\* The scheduler is told.
LEMMA CreateProcessSchedule ==
    ASSUME IInv, NEW p \in Pcb, Uninterrupted(p), create_process_schedule(p)
    PROVE  IInv' /\ proc' = proc
<1>1. Types /\ Slots /\ Known /\ InitLives /\ Held /\ Killed
    BY DEF IInv
<1>2. PICK q : q = arg[p]
    OBVIOUS
<1>3. /\ Runs(p) /\ pc[p] = "inserted" /\ Goto(p, "scheduled", q)
      /\ proc' = [proc EXCEPT ![q].state = "READY"] /\ scheduled' = scheduled \cup {q}
      /\ UNCHANGED <<process_table, sems, asleep, shell_proc, created, reused, disowned>>
    BY <1>2 DEF create_process_schedule
<1>4. /\ q \in Pcb /\ q \notin scheduled /\ proc[q].state = "READY" /\ InTable(q)
    BY <1>1, <1>2, <1>3 DEF Held, Holding, Types, Places, Names
<1>5. /\ proc \in [Pcb -> Record] /\ process_table \in [Pid -> Pcb \cup {NULL}] /\ scheduled \subseteq Pcb
      /\ proc[q].pid \in Pid
    BY <1>1, <1>4, RecordFields DEF Types
<1>6. proc' = proc
  <2>1. PICK e : e = proc[q]
      OBVIOUS
  <2>2. e \in Record /\ e.state = "READY"
      BY <1>4, <1>5, <2>1
  <2>3. [e EXCEPT !.state = "READY"] = e
      BY <2>2, SMT DEF Record
  <2>4. proc' = [proc EXCEPT ![q] = [e EXCEPT !.state = "READY"]]
      BY <1>3, <2>1
  <2> QED  BY <1>4, <1>5, <2>1, <2>3, <2>4
<1>7. Moves(p) /\ pc'[p] = "scheduled" /\ arg'[p] = q /\ Places'
  <2>1. "scheduled" \in Label \ Names /\ q \in Pcb \cup Pid \cup {NULL}
      BY <1>4 DEF Label, Names
  <2> QED  BY <1>1, <1>3, <1>4, <2>1, GotoFacts
<1>8. Types'
    BY <1>1, <1>3, <1>4, <1>6, <1>7 DEF Types
<1>9. Slots'
    BY <1>1, <1>3, <1>6 DEF Slots
<1>10. \A x \in Pcb : InTable(x) => process_table'[proc'[x].pid] = x
    BY <1>3, <1>6 DEF InTable
<1>11. Known'
  <2>1. ASSUME NEW x \in scheduled' PROVE proc'[x].state = "READY" /\ InTable(x)'
    <3>1. x \in Pcb /\ proc[x].state = "READY" /\ InTable(x)
        BY <1>1, <1>3, <1>4, <1>5 DEF Known
    <3> QED  BY <1>6, <1>10, <3>1 DEF InTable
  <2>2. ASSUME NEW x \in Pcb, pc'[x] # "user" PROVE x \in scheduled'
    <3>1. x = p \/ pc'[x] = pc[x]
        BY <1>7 DEF Moves
    <3> QED  BY <1>1, <1>3, <2>2, <3>1, Actor DEF Known
  <2> QED  BY <2>1, <2>2 DEF Known
<1>12. InitLives'
  <2>1. pc'[InitPcb] \in {"user", "assigned", "linked", "inserted", "scheduled", "assign"}
      BY <1>1, <1>7, PidFacts DEF InitLives, Moves
  <2> QED  BY <1>1, <1>3, <1>6, <2>1 DEF InitLives
<1>13. ASSUME NEW x \in Pcb, pc'[x] \in Holding
       PROVE  x # p /\ pc'[x] = pc[x] /\ arg'[x] = arg[x] /\ arg[x] \in Pcb /\ arg[x] # q
  <2>1. x # p /\ pc'[x] = pc[x] /\ arg'[x] = arg[x]
      BY <1>7, <1>13 DEF Moves, Holding
  <2>2. arg[x] \in Pcb
      BY <1>1, <1>13, <2>1 DEF Types, Places, Names, Holding
  <2>3. CASE pc[x] = "inserted"
      BY <1>1, <1>2, <1>3, <2>1, <2>2, <2>3 DEF Held
  <2>4. CASE pc[x] # "inserted"
    <3>1. x \in Creating
        BY <1>13, <2>1, <2>4 DEF Creating, Holding
    <3> QED  BY <1>1, <1>4, <1>5, <2>1, <2>2, <3>1 DEF Held, InTable
  <2> QED  BY <2>1, <2>2, <2>3, <2>4
<1>14. Held'
  <2>1. ASSUME NEW x \in Pcb, pc'[x] \in Holding
        PROVE  /\ arg'[x] \notin scheduled'
               /\ proc'[arg'[x]].state = IF pc'[x] = "assigned" THEN "NEW" ELSE "READY"
      BY <1>1, <1>3, <1>6, <1>13, <2>1 DEF Held
  <2>2. Creating' \subseteq Creating
      BY <1>13 DEF Creating, Holding
  <2>3. FreeSlots' = FreeSlots
      BY <1>3, <1>6 DEF FreeSlots
  <2>4. ASSUME NEW x \in Creating' PROVE x \in Creating /\ arg'[x] = arg[x]
      BY <1>13, <2>2 DEF Creating, Holding
  <2>5. ASSUME NEW x \in Creating'
        PROVE  (\A j \in Pid : process_table'[j] # arg'[x]) /\ proc'[arg'[x]].pid \in FreeSlots'
      BY <1>1, <1>3, <1>6, <2>3, <2>4 DEF Held
  <2>6. ASSUME NEW x \in Pcb, pc'[x] = "inserted"
        PROVE  InTable(arg[x])' /\ pc[x] = "inserted" /\ arg'[x] = arg[x]
    <3>1. pc[x] = "inserted" /\ arg'[x] = arg[x] /\ arg[x] \in Pcb
        BY <1>13, <2>6 DEF Holding
    <3>2. InTable(arg[x])
        BY <1>1, <3>1 DEF Held
    <3> QED  BY <1>10, <3>1, <3>2 DEF InTable
  <2>7. \A x, y \in Pcb : pc'[x] = "inserted" /\ pc'[y] = "inserted" /\ arg'[x] = arg'[y] => x = y
      BY <1>1, <2>6 DEF Held
  <2>8. \A x, y \in Creating' : x = y
      BY <1>1, <2>2 DEF Held
  <2> QED  BY <2>1, <2>5, <2>6, <2>7, <2>8 DEF Held
<1>15. Killed'
    BY <1>7, NoKill
<1> QED  BY <1>6, <1>8, <1>9, <1>11, <1>12, <1>14, <1>15 DEF IInv

-----------------------------------------------------------------------------
(* The end of a process.                                                   *)

\* One process leaves: it is marked TERMINATED in its slot, or the slot is
\* emptied; nobody is creating it, and its place is the user's again.
Leaves(q) ==
    /\ scheduled' = scheduled \ {q}
    /\ \A x \in Pcb \ {q} : proc'[x] = proc[x]
    /\ proc'[q].pid = proc[q].pid
    /\ \A j \in Pid \ {proc[q].pid} : process_table'[j] = process_table[j]
    /\ \/ process_table'[proc[q].pid] = NULL
       \/ process_table'[proc[q].pid] = q /\ proc'[q].state = "TERMINATED"
    /\ pc'[q] = "user"
    /\ \A x \in Pcb : pc'[x] = "user" \/ (pc'[x] = pc[x] /\ arg'[x] = arg[x] /\ pc[x] # "killing_cli")

\* Its leaving keeps the invariant.
LEMMA Leaving ==
    ASSUME IInv, Types', NEW q \in Pcb, Leaves(q), InTable(q), q # InitPcb,
           \A x \in Pcb : pc[x] \in Holding => arg[x] # q
    PROVE  IInv'
<1>1. Types /\ Slots /\ Known /\ InitLives /\ Held /\ Killed
    BY DEF IInv
<1>2. /\ proc \in [Pcb -> Record] /\ process_table \in [Pid -> Pcb \cup {NULL}] /\ scheduled \subseteq Pcb
      /\ \A x \in Pcb : proc[x].pid \in Pid
    BY <1>1, RecordFields DEF Types
<1>3. \A x \in Pcb \ {q} : InTable(x) => proc[x].pid # proc[q].pid
    BY DEF InTable
<1>4. ASSUME NEW x \in Pcb \ {q}, InTable(x) PROVE process_table'[proc'[x].pid] = x
    BY <1>2, <1>3, <1>4 DEF Leaves, InTable
<1>5. Slots'
  <2> SUFFICES ASSUME NEW j \in Pid, process_table'[j] # NULL
               PROVE  proc'[process_table'[j]].pid = j /\ proc'[process_table'[j]].state # "NONE"
      BY DEF Slots
  <2>1. CASE j = proc[q].pid
      BY <2>1 DEF Leaves
  <2>2. CASE j # proc[q].pid
    <3>1. process_table'[j] = process_table[j] /\ process_table[j] \in Pcb
        BY <1>2, <2>2 DEF Leaves
    <3>2. proc[process_table[j]].pid = j /\ proc[process_table[j]].state # "NONE"
        BY <1>1, <3>1 DEF Slots
    <3>3. process_table[j] # q
        BY <2>2, <3>2
    <3> QED  BY <3>1, <3>2, <3>3 DEF Leaves
  <2> QED  BY <2>1, <2>2
<1>6. Known'
  <2>1. ASSUME NEW x \in scheduled' PROVE proc'[x].state = "READY" /\ InTable(x)'
    <3>1. x \in scheduled /\ x \in Pcb \ {q}
        BY <1>2 DEF Leaves
    <3>2. proc[x].state = "READY" /\ InTable(x)
        BY <1>1, <3>1 DEF Known
    <3>3. proc'[x].state = "READY"
        BY <3>1, <3>2 DEF Leaves
    <3> QED  BY <1>4, <3>1, <3>2, <3>3 DEF InTable
  <2>2. ASSUME NEW x \in Pcb, pc'[x] # "user" PROVE x \in scheduled'
      BY <1>1, <2>2 DEF Leaves, Known
  <2> QED  BY <2>1, <2>2 DEF Known
<1>7. InitLives'
  <2>1. InitPcb \in Pcb \ {q} /\ InitPcb \in scheduled'
      BY <1>1, PidFacts DEF InitLives, Leaves
  <2>2. pc'[InitPcb] \in {"user", "assigned", "linked", "inserted", "scheduled", "assign"}
      BY <1>1, <2>1 DEF InitLives, Leaves
  <2>3. proc'[InitPcb] = proc[InitPcb]
      BY <2>1 DEF Leaves
  <2> QED  BY <1>1, <2>1, <2>2, <2>3 DEF InitLives
<1>8. ASSUME NEW x \in Pcb, pc'[x] \in Holding
      PROVE  pc'[x] = pc[x] /\ arg'[x] = arg[x] /\ arg[x] \in Pcb \ {q} /\ proc'[arg[x]] = proc[arg[x]]
  <2>1. pc'[x] = pc[x] /\ arg'[x] = arg[x]
      BY <1>8 DEF Leaves, Holding
  <2>2. arg[x] \in Pcb \ {q}
      BY <1>1, <1>8, <2>1 DEF Types, Places, Names, Holding
  <2> QED  BY <2>1, <2>2 DEF Leaves
<1>9. FreeSlots \subseteq FreeSlots'
  <2> SUFFICES ASSUME NEW j \in Pid, process_table[j] = NULL \/ proc[process_table[j]].state = "TERMINATED"
               PROVE  process_table'[j] = NULL \/ proc'[process_table'[j]].state = "TERMINATED"
      BY DEF FreeSlots
  <2>1. CASE j = proc[q].pid
      BY <2>1 DEF Leaves
  <2>2. CASE j # proc[q].pid /\ process_table[j] # NULL
    <3>1. process_table'[j] = process_table[j] /\ process_table[j] \in Pcb
        BY <1>2, <2>2 DEF Leaves
    <3>2. process_table[j] # q
        BY <1>1, <2>2 DEF Slots
    <3> QED  BY <2>2, <3>1, <3>2 DEF Leaves
  <2>3. CASE j # proc[q].pid /\ process_table[j] = NULL
      BY <2>3 DEF Leaves
  <2> QED  BY <2>1, <2>2, <2>3
<1>10. Held'
  <2>1. ASSUME NEW x \in Pcb, pc'[x] \in Holding
        PROVE  /\ arg'[x] \notin scheduled'
               /\ proc'[arg'[x]].state = IF pc'[x] = "assigned" THEN "NEW" ELSE "READY"
    <3>1. scheduled' \subseteq scheduled
        BY DEF Leaves
    <3> QED  BY <1>1, <1>8, <2>1, <3>1 DEF Held
  <2>2. ASSUME NEW x \in Creating'
        PROVE  /\ x \in Creating
               /\ \A j \in Pid : process_table'[j] # arg'[x]
               /\ proc'[arg'[x]].pid \in FreeSlots'
    <3>1. /\ x \in Creating /\ arg'[x] = arg[x] /\ arg[x] \in Pcb \ {q}
          /\ proc'[arg[x]] = proc[arg[x]] /\ arg[x] # NULL
        BY <1>8, PidFacts DEF Creating, Holding
    <3>2. (\A j \in Pid : process_table[j] # arg[x]) /\ proc[arg[x]].pid \in FreeSlots
        BY <1>1, <3>1 DEF Held
    <3>3. \A j \in Pid : process_table'[j] # arg[x]
        BY <3>1, <3>2 DEF Leaves
    <3> QED  BY <1>9, <3>1, <3>2, <3>3
  <2>3. ASSUME NEW x \in Pcb, pc'[x] = "inserted"
        PROVE  InTable(arg[x])' /\ pc[x] = "inserted" /\ arg'[x] = arg[x]
    <3>1. pc[x] = "inserted" /\ arg'[x] = arg[x] /\ arg[x] \in Pcb \ {q}
        BY <1>8, <2>3 DEF Holding
    <3>2. InTable(arg[x])
        BY <1>1, <3>1 DEF Held
    <3> QED  BY <1>4, <3>1, <3>2 DEF InTable
  <2>4. \A x, y \in Pcb : pc'[x] = "inserted" /\ pc'[y] = "inserted" /\ arg'[x] = arg'[y] => x = y
      BY <1>1, <2>3 DEF Held
  <2>5. \A x, y \in Creating' : x = y
      BY <1>1, <2>2 DEF Held
  <2> QED  BY <2>1, <2>2, <2>3, <2>4, <2>5 DEF Held
<1>11. Killed'
  <2>1. ASSUME NEW x \in Pcb, pc'[x] = "killing" PROVE arg'[x] = x
      BY <1>1, <2>1 DEF Leaves, Killed
  <2>2. ASSUME NEW x \in Pcb PROVE pc'[x] # "killing_cli"
      BY DEF Leaves
  <2> QED  BY <2>1, <2>2 DEF Killed
<1> QED  BY <1>5, <1>6, <1>7, <1>10, <1>11 DEF IInv

\* process_terminator's last part.
LEMMA ProcessTerminatorEnd ==
    ASSUME IInv, NEW p \in Pcb, Uninterrupted(p), process_terminator_end(p)
    PROVE  IInv' /\ Leaves(p)
<1>1. Types /\ Slots /\ Known /\ InitLives /\ Held /\ Killed
    BY DEF IInv
<1>2. /\ Runs(p) /\ pc[p] = "posted" /\ Goto(p, "user", NULL)
      /\ proc' = [proc EXCEPT ![p].state = "TERMINATED"] /\ scheduled' = scheduled \ {p}
      /\ shell_proc' \in {shell_proc, ForgetShell(p)}
      /\ UNCHANGED <<process_table, sems, asleep, created, reused, disowned>>
    BY DEF process_terminator_end
<1>3. p \in scheduled /\ p # InitPcb /\ InTable(p) /\ proc[p].pid \in Pid
    BY <1>2, Actor DEF InTable
<1>4. proc \in [Pcb -> Record] /\ scheduled \subseteq Pcb /\ shell_proc \in Pcb \cup {NULL}
    BY <1>1 DEF Types
<1>5. PICK r : r = [proc[p] EXCEPT !.state = "TERMINATED"]
    OBVIOUS
<1>6. r \in Record /\ r.state = "TERMINATED" /\ r.pid = proc[p].pid /\ r.children = proc[p].children
    BY <1>4, <1>5, WithState
<1>7. proc' \in [Pcb -> Record] /\ proc'[p] = r /\ \A x \in Pcb \ {p} : proc'[x] = proc[x]
  <2>1. proc' = [proc EXCEPT ![p] = r]
      BY <1>2, <1>5
  <2> QED  BY <1>4, <1>6, <2>1
<1>8. Moves(p) /\ pc'[p] = "user" /\ arg'[p] = NULL /\ Places'
  <2>1. "user" \in Label /\ NULL \in Pcb \cup Pid \cup {NULL}
      BY DEF Label
  <2> QED  BY <1>1, <1>2, <2>1, GotoFacts
<1>9. Types'
  <2>1. shell_proc' \in Pcb \cup {NULL} /\ scheduled' \subseteq Pcb
      BY <1>2, <1>4 DEF ForgetShell
  <2>2. \A x \in Pcb : Len(proc'[x].children) <= MAX_CHILDREN
      BY <1>1, <1>6, <1>7 DEF Types
  <2> QED  BY <1>1, <1>2, <1>7, <1>8, <2>1, <2>2 DEF Types
<1>10. Leaves(p)
  <2>1. \A x \in Pcb : pc'[x] = "user" \/ (pc'[x] = pc[x] /\ arg'[x] = arg[x] /\ pc[x] # "killing_cli")
      BY <1>8 DEF Moves, Uninterrupted
  <2>2. process_table'[proc[p].pid] = p
      BY <1>2, <1>3 DEF InTable
  <2> QED  BY <1>2, <1>6, <1>7, <1>8, <2>1, <2>2 DEF Leaves
<1>11. \A x \in Pcb : pc[x] \in Holding => arg[x] # p
    BY <1>1, <1>3 DEF Held
<1> QED  BY <1>3, <1>9, <1>10, <1>11, Leaving

\* The rest of kill_process.
LEMMA KillProcessEnd ==
    ASSUME IInv, NEW p \in Pcb, Uninterrupted(p), kill_process_end(p), NEW q, q = arg[p]
    PROVE  /\ IInv' /\ Leaves(q) /\ q \in Pcb /\ InTable(q) /\ disowned' = disowned
           /\ pc'[p] = "user" /\ \A x \in Pcb \ {p, q} : pc'[x] = pc[x] /\ arg'[x] = arg[x]
<1>1. Types /\ Slots /\ Known /\ InitLives /\ Held /\ Killed
    BY DEF IInv
<1>2. PICK i : i = proc[q].pid
    OBVIOUS
<1>3. /\ Runs(p) /\ pc[p] \in {"killing", "killing_cli"}
      /\ \/ proc' = [proc EXCEPT ![q] = Freed(q)]
         \/ proc' = [proc EXCEPT ![q].state = "TERMINATED"]
      /\ process_table' = [process_table EXCEPT ![i] = NULL]
      /\ shell_proc' = ForgetShell(q) /\ scheduled' = scheduled \ {q} /\ asleep' = asleep \ {i}
      /\ pc' = [pc EXCEPT ![p] = "user", ![q] = "user"]
      /\ arg' = [arg EXCEPT ![p] = NULL, ![q] = NULL]
      /\ UNCHANGED <<sems, created, reused, disowned>>
    BY <1>2 DEF kill_process_end
<1>4. p \in scheduled /\ p # InitPcb /\ InTable(p)
    BY <1>3, Actor DEF InTable
<1>5. /\ q \in Pcb /\ InTable(q) /\ q # InitPcb
      /\ \A x \in Pcb : pc[x] \in Holding => arg[x] # q
  <2>1. CASE pc[p] = "killing"
    <3>1. q = p
        BY <1>1, <2>1 DEF Killed
    <3> QED  BY <1>1, <1>4, <3>1 DEF Held
  <2>2. CASE pc[p] = "killing_cli"
    <3>1. q \in Pcb
        BY <1>1, <2>2 DEF Types, Places, Names
    <3> QED  BY <1>1, <2>2, <3>1 DEF Killed
  <2> QED  BY <1>3, <2>1, <2>2
<1>6. /\ proc \in [Pcb -> Record] /\ process_table \in [Pid -> Pcb \cup {NULL}]
      /\ proc[q] \in Record /\ i \in Pid
      /\ pc \in [Pcb -> Label] /\ arg \in [Pcb -> Pcb \cup Pid \cup {NULL}]
      /\ \A x \in Pcb : Len(proc[x].children) <= MAX_CHILDREN
    BY <1>1, <1>2, <1>5, RecordFields DEF Types, Places
<1>7. PICK r : /\ r \in Record /\ r.pid = proc[q].pid /\ Len(r.children) <= MAX_CHILDREN
               /\ proc' = [proc EXCEPT ![q] = r]
  <2>1. CASE proc' = [proc EXCEPT ![q] = Freed(q)]
    <3>1. PICK r : r = Freed(q)
        OBVIOUS
    <3>2. r \in Record /\ r.pid = proc[q].pid /\ r.children = <<>>
        BY <1>5, <1>6, <3>1, FreedFields
    <3>3. Len(r.children) <= MAX_CHILDREN
        BY <3>2, TableAssumption
    <3> QED  BY <2>1, <3>1, <3>2, <3>3
  <2>2. CASE proc' = [proc EXCEPT ![q].state = "TERMINATED"]
    <3>1. PICK r : r = [proc[q] EXCEPT !.state = "TERMINATED"]
        OBVIOUS
    <3>2. r \in Record /\ r.pid = proc[q].pid /\ r.children = proc[q].children
        BY <1>6, <3>1, WithState
    <3>3. Len(r.children) <= MAX_CHILDREN
        BY <1>5, <1>6, <3>2
    <3>4. proc' = [proc EXCEPT ![q] = r]
        BY <2>2, <3>1
    <3> QED  BY <3>2, <3>3, <3>4
  <2> QED  BY <1>3, <2>1, <2>2
<1>8. proc' \in [Pcb -> Record] /\ proc'[q] = r /\ \A x \in Pcb \ {q} : proc'[x] = proc[x]
    BY <1>5, <1>6, <1>7
<1>9. /\ process_table' \in [Pid -> Pcb \cup {NULL}] /\ process_table'[i] = NULL
      /\ \A j \in Pid \ {i} : process_table'[j] = process_table[j]
    BY <1>3, <1>6
<1>10. /\ pc'[p] = "user" /\ pc'[q] = "user" /\ \A x \in Pcb \ {p, q} : pc'[x] = pc[x] /\ arg'[x] = arg[x]
    BY <1>3, <1>5, <1>6
<1>11. Places'
  <2>1. pc' \in [Pcb -> Label] /\ arg' \in [Pcb -> Pcb \cup Pid \cup {NULL}]
    <3>1. "user" \in Label
        BY DEF Label
    <3> QED  BY <1>3, <1>5, <1>6, <3>1
  <2> QED  BY <1>1, <1>10, <2>1 DEF Places, Types
<1>12. Types'
  <2>1. shell_proc' \in Pcb \cup {NULL} /\ scheduled' \subseteq Pcb /\ asleep' \subseteq Pid
      BY <1>1, <1>3 DEF ForgetShell, Types
  <2>2. \A x \in Pcb : Len(proc'[x].children) <= MAX_CHILDREN
      BY <1>6, <1>7, <1>8
  <2> QED  BY <1>1, <1>3, <1>8, <1>9, <1>11, <2>1, <2>2 DEF Types
<1>13. Leaves(q)
  <2>1. \A x \in Pcb : pc'[x] = "user" \/ (pc'[x] = pc[x] /\ arg'[x] = arg[x] /\ pc[x] # "killing_cli")
      BY <1>10 DEF Uninterrupted
  <2> QED  BY <1>2, <1>3, <1>7, <1>8, <1>9, <1>10, <2>1 DEF Leaves
<1>14. IInv'
    BY <1>5, <1>12, <1>13, Leaving
<1> QED  BY <1>3, <1>5, <1>10, <1>13, <1>14

-----------------------------------------------------------------------------
(* The table is sound.                                                     *)

\* main() leaves the idle process and init.
LEMMA InitIInv == Init => IInv
<1> SUFFICES ASSUME Init PROVE IInv
    OBVIOUS
<1>1. /\ 0 \in Pid /\ INIT_PID \in Pid /\ INIT_PID # 0 /\ NULL \notin Pcb
      /\ IdlePcb \in Pcb /\ InitPcb \in Pcb /\ IdlePcb # InitPcb
    BY PidFacts
<1>2. PICK a : a = [NoProcess EXCEPT !.state = "READY", !.program = "idle"]
    OBVIOUS
<1>3. PICK b : b = [NoProcess EXCEPT !.pid = INIT_PID, !.state = "READY", !.program = "init"]
    OBVIOUS
<1>4. PICK c : c = NoProcess
    OBVIOUS
<1>5. proc = [p \in Pcb |-> IF p = IdlePcb THEN a ELSE IF p = InitPcb THEN b ELSE c]
    BY <1>2, <1>3, <1>4 DEF Init
<1>6. <<>> \in Seq(Pid)
    OBVIOUS
<1>7. /\ a \in Record /\ a.pid = 0 /\ a.state = "READY" /\ a.children = <<>> /\ a.program = "idle"
  <2>1. a = [pid |-> 0, ppid |-> 0, state |-> "READY", children |-> <<>>,
             foreground |-> FALSE, program |-> "idle"]
      BY <1>2 DEF NoProcess
  <2> QED  BY <1>1, <1>6, <2>1, SMT DEF Record
<1>8. /\ b \in Record /\ b.pid = INIT_PID /\ b.state = "READY" /\ b.children = <<>>
      /\ b.program = "init" /\ ~b.foreground
  <2>1. b = [pid |-> INIT_PID, ppid |-> 0, state |-> "READY", children |-> <<>>,
             foreground |-> FALSE, program |-> "init"]
      BY <1>3 DEF NoProcess
  <2> QED  BY <1>1, <1>6, <2>1, SMT DEF Record
<1>9. c \in Record /\ c.state = "NONE" /\ c.children = <<>>
    BY <1>1, <1>4, <1>6, SMT DEF NoProcess, Record
<1>10. /\ proc \in [Pcb -> Record] /\ proc[IdlePcb] = a /\ proc[InitPcb] = b
       /\ \A p \in Pcb \ {IdlePcb, InitPcb} : proc[p] = c
    BY <1>1, <1>5, <1>7, <1>8, <1>9
<1>11. /\ process_table \in [Pid -> Pcb \cup {NULL}]
       /\ process_table[0] = IdlePcb /\ process_table[INIT_PID] = InitPcb
       /\ \A i \in Pid \ {0, INIT_PID} : process_table[i] = NULL
  <2>1. process_table = [i \in Pid |-> CASE i = 0 -> IdlePcb [] i = INIT_PID -> InitPcb
                                        [] OTHER -> NULL]
      BY DEF Init
  <2> QED  BY <1>1, <2>1
<1>12. pc \in [Pcb -> Label] /\ arg \in [Pcb -> {NULL}] /\ \A p \in Pcb : pc[p] = "user"
    BY DEF Init, Label
<1>13. Types
  <2>1. sems \in [Pid -> SemRecord(Pid)]
    <3>1. PICK e : e = NoSem
        OBVIOUS
    <3>2. e \in SemRecord(Pid) /\ [e EXCEPT !.users = 1] \in SemRecord(Pid)
        BY <3>1, SemFields
    <3>3. sems = [[n \in Pid |-> e] EXCEPT ![INIT_PID] = [e EXCEPT !.users = 1]]
        BY <1>1, <3>1 DEF Init, initSemQueue
    <3> QED  BY <1>1, <3>2, <3>3
  <2>2. \A p \in Pcb : Len(proc[p].children) <= MAX_CHILDREN
    <3>1. \A p \in Pcb : proc[p].children = <<>>
        BY <1>7, <1>8, <1>9, <1>10
    <3> QED  BY <3>1, TableAssumption
  <2>3. Places
      BY <1>12 DEF Places
  <2>4. created \in 0..MaxCreated
      BY TableAssumption DEF Init
  <2> QED  BY <1>1, <1>10, <1>11, <2>1, <2>2, <2>3, <2>4 DEF Types, Init
<1>14. Slots
    BY <1>7, <1>8, <1>10, <1>11 DEF Slots
<1>15. Known
    BY <1>8, <1>10, <1>11, <1>12 DEF Known, Init, InTable
<1>16. InitLives
    BY <1>1, <1>8, <1>10, <1>12 DEF InitLives, Init
<1>17. Held
    BY <1>12 DEF Held, Holding, Creating
<1>18. Killed
    BY <1>12 DEF Killed
<1> QED  BY <1>13, <1>14, <1>15, <1>16, <1>17, <1>18 DEF IInv

\* init finds no room for a shell: only shell_proc changes.
LEMMA InitProcessFail ==
    ASSUME IInv, init_process_fail
    PROVE  Types' /\ QuietStep(InitPcb)
<1>1. Types /\ Slots /\ InitPcb \in Pcb
    BY PidFacts DEF IInv
<1>2. /\ shell_proc' = NULL /\ pc[InitPcb] = "user"
      /\ UNCHANGED <<process_table, proc, scheduled, sems, asleep, pc, arg, created, reused, disowned>>
    BY DEF init_process_fail
<1>3. Types'
    BY <1>1, <1>2 DEF Types, Places
<1>4. Keeps
    BY <1>1, <1>2, KeepsSame
<1> QED  BY <1>1, <1>2, <1>3, <1>4 DEF QuietStep, Holding, Moves

\* A step that changes nothing.
LEMMA StutterIInv == IInv /\ UNCHANGED vars => IInv'
    BY DEF vars, IInv, Types, Places, Slots, Known, InTable, InitLives, Held, Creating, FreeSlots, Killed

\* Every step keeps the invariant, as long as the rules of use are kept.
LEMMA NextIInv ==
    ASSUME ~reckless', IInv, [Next]_vars
    PROVE  IInv'
<1>1. CASE UNCHANGED vars
    BY <1>1, StutterIInv
<1>2. CASE Uninterrupted(InitPcb) /\ init_process
  <2>1. /\ InitPcb \in Pcb /\ Runs(InitPcb) /\ pc[InitPcb] = "user" /\ Uninterrupted(InitPcb)
        /\ create_process_pid(InitPcb, "shell", TRUE)
      BY <1>2, PidFacts DEF init_process
  <2> QED  BY <2>1, CreateProcessPid
<1>3. CASE Uninterrupted(InitPcb) /\ create_shell
  <2>1. InitPcb \in scheduled /\ Types' /\ QuietStep(InitPcb)
      BY <1>3, CreateShell DEF IInv, InitLives
  <2> QED  BY <1>3, <2>1, Quiet
<1>6. CASE Uninterrupted(InitPcb) /\ init_process_fail
  <2>1. InitPcb \in scheduled /\ Types' /\ QuietStep(InitPcb)
      BY <1>6, InitProcessFail DEF IInv, InitLives
  <2> QED  BY <1>6, <2>1, Quiet
<1>4. ASSUME NEW p \in Pcb, Uninterrupted(p), Kernel(p)
      PROVE  IInv'
  <2>1. Runs(p) /\ p \in scheduled
      BY <1>4, Actor DEF Kernel, create_process_link, create_process_fail, create_process_insert,
         create_process_schedule, create_process_reap, wait_child, wait_child_return,
         process_terminator_post, process_terminator_end, kill_process_end, Runs
  <2>2. CASE create_process_link(p)
      BY <1>4, <2>2, CreateProcessLink
  <2>3. CASE create_process_fail(p)
      BY <1>4, <2>3, CreateProcessFail
  <2>4. CASE create_process_insert(p)
      BY <1>4, <2>4, CreateProcessInsert
  <2>5. CASE create_process_schedule(p)
      BY <1>4, <2>5, CreateProcessSchedule
  <2>6. CASE create_process_reap(p)
      BY <1>4, <2>1, <2>6, CreateProcessReap, Quiet
  <2>7. CASE wait_child(p)
      BY <1>4, <2>1, <2>7, WaitChild, Quiet
  <2>8. CASE wait_child_return(p)
      BY <1>4, <2>1, <2>8, WaitChildReturn, Quiet
  <2>9. CASE process_terminator_post(p)
      BY <1>4, <2>1, <2>9, ProcessTerminatorPost, Quiet
  <2>10. CASE process_terminator_end(p)
      BY <1>4, <2>10, ProcessTerminatorEnd
  <2>11. CASE kill_process_end(p)
      BY <1>4, <2>11, KillProcessEnd
  <2> QED  BY SMTT(40), <1>4, <2>2, <2>3, <2>4, <2>5, <2>6, <2>7, <2>8, <2>9, <2>10, <2>11 DEF Kernel
<1>5. ASSUME NEW p \in Pcb, Uninterrupted(p), Program(p)
      PROVE  IInv'
  <2>1. Runs(p) /\ p \in scheduled
      BY <1>5 DEF Program, createProcess, process_terminator, sys_kill, sys_block_process,
         kill_foreground_processes, Runs
  <2>2. CASE createProcess(p)
    <3>1. PICK b \in BOOLEAN : create_process_pid(p, "command", b)
        BY <2>2 DEF createProcess
    <3>2. pc[p] = "user"
        BY <2>2 DEF createProcess
    <3> QED  BY <1>5, <2>1, <3>1, <3>2, CreateProcessPid
  <2>3. CASE process_terminator(p)
      BY <1>5, <2>1, <2>3, ProcessTerminator, Quiet
  <2>4. CASE sys_kill(p)
      BY <1>5, <2>1, <2>4, SysKill, Quiet
  <2>5. CASE sys_block_process(p)
      BY <1>5, <2>1, <2>5, SysBlock, Quiet
  <2>6. CASE kill_foreground_processes(p)
      BY <1>5, <2>1, <2>6, CtrlC, Quiet
  <2> QED  BY <1>5, <2>2, <2>3, <2>4, <2>5, <2>6 DEF Program
<1> QED  BY <1>1, <1>2, <1>3, <1>4, <1>5, <1>6 DEF Next, InitLoop

\* The invariant gives the types.
LEMMA IInvTypes == IInv /\ reckless \in BOOLEAN => TypeOK
<1> SUFFICES ASSUME IInv, reckless \in BOOLEAN PROVE TypeOK
    OBVIOUS
<1>1. Types
    BY DEF IInv
<1>2. ASSUME NEW p \in Pcb
      PROVE  /\ proc[p].pid \in Pid /\ proc[p].ppid \in Pid
             /\ proc[p].state \in {"NONE", "NEW", "READY", "TERMINATED"}
             /\ Len(proc[p].children) <= MAX_CHILDREN
    BY <1>1, RecordFields DEF Types
<1>3. ASSUME NEW p \in Pcb, pc[p] # "user" PROVE arg[p] # NULL
    BY <1>1, <1>3, PidFacts DEF Types, Places
<1> QED  BY <1>1, <1>2, <1>3 DEF TypeOK, Types

\* The invariant says that table, PCBs and scheduler agree.
LEMMA IInvTableAgrees == IInv => TableAgrees
<1> SUFFICES ASSUME IInv PROVE TableAgrees
    OBVIOUS
<1>1. Types /\ Slots /\ Known
    BY DEF IInv
<1>2. ASSUME NEW p \in scheduled PROVE proc[p].state = "READY" /\ ps[proc[p].pid] = p
  <2>1. p \in Pcb /\ proc[p].state = "READY" /\ process_table[proc[p].pid] = p /\ p # NULL
      BY <1>1, PidFacts DEF Known, InTable, Types
  <2>2. proc[p].pid \in Pid /\ proc[p].pid \notin FreeSlots
      BY <1>1, <2>1, RecordFields DEF Types, FreeSlots
  <2> QED  BY <2>1, <2>2 DEF ps
<1> QED  BY <1>1, <1>2 DEF TableAgrees, Slots

\* A broken rule stays on record.
LEMMA RecklessStays ==
    ASSUME reckless \in BOOLEAN, [Next]_vars
    PROVE  reckless' \in BOOLEAN /\ (reckless => reckless')
<1>1. CASE UNCHANGED vars
    BY <1>1 DEF vars
<1>2. ASSUME NEW p, NEW g, NEW b, create_process_pid(p, g, b)
      PROVE  reckless' \in BOOLEAN /\ (reckless => reckless')
    BY <1>2 DEF create_process_pid, Rule
<1>3. CASE InitLoop
    BY <1>2, <1>3 DEF InitLoop, init_process, init_process_fail, create_shell
<1>4. ASSUME NEW p \in Pcb, Kernel(p) PROVE reckless' = reckless
    BY <1>4 DEF Kernel, create_process_link, create_process_fail, create_process_insert,
       create_process_schedule, create_process_reap, wait_child, wait_child_return,
       process_terminator_post, process_terminator_end, kill_process_end
<1>5. ASSUME NEW p \in Pcb, Program(p) PROVE reckless' \in BOOLEAN /\ (reckless => reckless')
  <2>1. CASE createProcess(p)
      BY <1>2, <2>1 DEF createProcess
  <2>2. CASE process_terminator(p)
      BY <2>2 DEF process_terminator
  <2>3. CASE sys_kill(p)
      BY <2>3 DEF sys_kill, Rule
  <2>4. CASE sys_block_process(p)
      BY <2>4 DEF sys_block_process, Rule
  <2>5. CASE kill_foreground_processes(p)
      BY <2>5 DEF kill_foreground_processes, Rule
  <2> QED  BY <1>5, <2>1, <2>2, <2>3, <2>4, <2>5 DEF Program
<1> QED  BY <1>1, <1>3, <1>4, <1>5 DEF Next

\* The history variable at the start.
LEMMA InitReckless == Init => reckless \in BOOLEAN /\ ~reckless
    BY DEF Init

\* Through any sequence of creations, ends, kills and reaps, until a step breaks a
\* rule of use, the table is sound: every process the scheduler knows is the one
\* its PID finds, no two share a PID, and no slot leads to freed memory.
THEOREM TableIsSound == Spec => []TableSound
<1> DEFINE RInv == reckless \in BOOLEAN /\ (reckless \/ IInv)
<1>1. Init => RInv
    BY InitIInv, InitReckless
<1>2. RInv /\ [Next]_vars => RInv'
    BY NextIInv, RecklessStays
<1>3. RInv => TableSound
    BY IInvTypes, IInvTableAgrees DEF TableSound
<1> HIDE DEF RInv
<1> QED  BY <1>1, <1>2, <1>3, PTL DEF Spec

-----------------------------------------------------------------------------
(* Orphans are adopted.                                                    *)

\* Whoever is born is READY, and in the table unless it is still being linked.
LEMMA BornFacts ==
    ASSUME IInv, NEW q \in Pcb, Born(q)
    PROVE  /\ proc[q].state = "READY" /\ proc[q].pid \in Pid
           /\ \/ process_table[proc[q].pid] = q
              \/ \E x \in Pcb : pc[x] = "linked" /\ arg[x] = q /\ ~Condemned(x)
<1>1. proc[q].pid \in Pid
    BY RecordFields DEF IInv, Types
<1>2. CASE q \in scheduled
    BY <1>1, <1>2 DEF IInv, Known, InTable
<1>3. CASE q \notin scheduled
  <2>1. PICK x \in Pcb : pc[x] \in {"linked", "inserted"} /\ arg[x] = q /\ ~Condemned(x)
      BY <1>3 DEF Born
  <2>2. proc[q].state = "READY"
      BY <2>1 DEF IInv, Held, Holding
  <2>3. pc[x] = "inserted" => process_table[proc[q].pid] = q
      BY <2>1 DEF IInv, Held, InTable
  <2> QED  BY <1>1, <2>1, <2>2, <2>3
<1> QED  BY <1>2, <1>3

\* While p runs and kills nobody, nobody is condemned.
LEMMA NotCondemned ==
    ASSUME NEW p \in Pcb, Uninterrupted(p), pc[p] # "killing_cli"
    PROVE  \A r : ~Condemned(r)
    BY DEF Uninterrupted, Condemned

\* The same after its step.
LEMMA NotCondemnedNext ==
    ASSUME NEW p \in Pcb, Uninterrupted(p), Moves(p), pc'[p] # "killing_cli"
    PROVE  \A r \in Pcb : ~Condemned(r)'
    BY DEF Uninterrupted, Condemned, Moves

\* r lists q's PID.
Lists(r, q) == \E i \in 1..Len(proc[r].children) : proc[r].children[i] = proc[q].pid

\* A step that adopts nobody: parents stay, lists lose only what is dropped.
LEMMA FamilyQuiet ==
    ASSUME IInv, Family, NEW p \in Pcb, Uninterrupted(p), QuietStep(p),
           pc[p] # "killing_cli", pc'[p] # "killing_cli", pc'[p] \in Ending => pc[p] \in Ending,
           disowned \subseteq disowned',
           \A q \in Pcb : proc[q].state = "READY" => proc'[q].ppid = proc[q].ppid,
           \A r \in scheduled, q \in Pcb \ disowned' :
              proc[q].state = "READY" /\ Lists(r, q) => Lists(r, q)'
    PROVE  Family'
<1>1. Types /\ Held /\ Known
    BY DEF IInv
<1>2. Moves(p) /\ Keeps /\ scheduled' = scheduled /\ pc'[p] \notin Holding
    BY DEF QuietStep
<1>3. (\A r : ~Condemned(r)) /\ (\A r \in Pcb : ~Condemned(r)')
    BY <1>2, NotCondemned, NotCondemnedNext
<1>4. \A x \in Pcb : proc'[x].pid = proc[x].pid
    BY <1>2 DEF Keeps
<1>5. ASSUME NEW x \in Pcb, pc'[x] \in {"linked", "inserted"}
      PROVE  pc[x] = pc'[x] /\ arg'[x] = arg[x] /\ arg[x] \in Pcb /\ proc[arg[x]].state = "READY"
  <2>1. x # p
      BY <1>2, <1>5 DEF Holding
  <2>2. pc[x] = pc'[x] /\ arg'[x] = arg[x]
      BY <1>2, <2>1 DEF Moves
  <2> QED  BY <1>1, <1>5, <2>2 DEF Types, Places, Names, Held, Holding
<1>6. ASSUME NEW q \in Pcb \ disowned', q # InitPcb, Born(q)' PROVE Answered(q)'
  <2>1. Born(q)
      BY <1>2, <1>3, <1>5, <1>6 DEF Born
  <2>2. Answered(q) /\ proc[q].state = "READY"
      BY <1>6, <2>1, BornFacts DEF Family
  <2>3. proc'[q].ppid = proc[q].ppid
      BY <2>2
  <2>4. CASE proc[q].ppid = INIT_PID
      BY <2>3, <2>4 DEF Answered
  <2>5. CASE proc[q].ppid # INIT_PID
    <3>1. PICK r \in Pcb : ParentOf(r, q)
        BY <2>2, <2>5 DEF Answered
    <3>2. r # q /\ r \in scheduled /\ proc[r].pid = proc[q].ppid /\ pc[r] \notin Ending /\ Lists(r, q)
        BY <3>1 DEF ParentOf, Lists
    <3>3. pc'[r] \notin Ending
        BY <1>2, <3>2 DEF Moves
    <3>4. Lists(r, q)'
        BY <2>2, <3>2
    <3>5. proc'[r].pid = proc'[q].ppid
        BY <1>4, <2>3, <3>2
    <3>6. ParentOf(r, q)'
        BY <1>2, <1>3, <3>2, <3>3, <3>4, <3>5 DEF ParentOf, Lists
    <3> QED  BY <3>6 DEF Answered
  <2> QED  BY <2>4, <2>5
<1>7. ASSUME NEW x \in Pcb, pc'[x] = "linked" PROVE proc'[arg'[x]].ppid = proc'[x].pid
    BY <1>4, <1>5, <1>7 DEF Family
<1> QED  BY <1>6, <1>7 DEF Family

\* The death of v: its slot's children are init's from now on.
LEMMA FamilyReparent ==
    ASSUME IInv, Family, NEW p \in Pcb, Uninterrupted(p), QuietStep(p), p \in scheduled,
           pc[p] # "killing_cli", NEW d \in Pid, NEW v, v = process_table[d], v # NULL, v # InitPcb,
           proc' = reparent_children(d), disowned' = disowned,
           \/ v = p /\ pc'[p] \in Ending
           \/ pc'[p] = "killing_cli" /\ arg'[p] = v
    PROVE  Family'
<1>1. Types /\ Slots /\ Held /\ Known /\ InitLives
    BY DEF IInv
<1>2. Moves(p) /\ scheduled' = scheduled /\ pc'[p] \notin Holding
    BY DEF QuietStep
<1>3. v \in Pcb /\ proc[v].pid = d
    BY <1>1 DEF Types, Slots
<1>4. PICK R : R = reparent_children(d)
    OBVIOUS
<1>5. \A q \in Pcb :
        /\ R[q].pid = proc[q].pid
        /\ q \notin {InitPcb, v} => R[q].children = proc[q].children
        /\ R[q].ppid = proc[q].ppid \/ R[q].ppid = INIT_PID
        /\ q \notin {InitPcb, v} /\ (\E c \in Adopted(d) : process_table[c] = q) => R[q].ppid = INIT_PID
        /\ (\A c \in Pid : process_table[c] # q) => R[q].ppid = proc[q].ppid
    BY <1>1, <1>4, Reparented
<1>6. proc' = R
    BY <1>4
<1>7. \A r : ~Condemned(r)
    BY NotCondemned
<1>8. \A r \in Pcb : Condemned(r)' => r = v
    BY <1>2 DEF Condemned, Moves, Uninterrupted, Ending
<1>9. ASSUME NEW x \in Pcb, pc'[x] \in {"linked", "inserted"}, ~Condemned(x)'
      PROVE  x # v /\ pc[x] = pc'[x] /\ arg'[x] = arg[x] /\ arg[x] \in Pcb
  <2>1. x # p
      BY <1>2, <1>9 DEF Holding
  <2>2. pc[x] = pc'[x] /\ arg'[x] = arg[x]
      BY <1>2, <2>1 DEF Moves
  <2>3. x # v
      BY <1>9, <2>1 DEF Condemned
  <2> QED  BY <1>1, <1>9, <2>2, <2>3 DEF Types, Places, Names
<1>10. ASSUME NEW q \in Pcb \ disowned', q # InitPcb, Born(q)' PROVE Answered(q)'
  <2>1. Born(q)
    <3>1. CASE q \in scheduled'
        BY <1>2, <3>1 DEF Born
    <3>2. CASE q \notin scheduled'
      <4>1. PICK x \in Pcb : pc'[x] \in {"linked", "inserted"} /\ arg'[x] = q /\ ~Condemned(x)'
          BY <1>10, <3>2 DEF Born
      <4> QED  BY <1>7, <1>9, <4>1 DEF Born
    <3> QED  BY <3>1, <3>2
  <2>2. Answered(q) /\ proc[q].state = "READY" /\ proc[q].pid \in Pid
      BY <1>10, <2>1, BornFacts DEF Family
  <2>3. CASE R[q].ppid = INIT_PID
      BY <1>6, <2>3 DEF Answered
  <2>4. CASE R[q].ppid # INIT_PID
    <3>1. R[q].ppid = proc[q].ppid
        BY <1>5, <2>4
    <3>2. PICK r \in Pcb : ParentOf(r, q)
        BY <2>2, <2>4, <3>1 DEF Answered
    <3>3. r # q /\ r \in scheduled /\ proc[r].pid = proc[q].ppid /\ pc[r] \notin Ending /\ Lists(r, q)
        BY <3>2 DEF ParentOf, Lists
    <3>4. r # InitPcb
        BY <1>1, <2>4, <3>1, <3>3 DEF InitLives
    <3>5. r # v
      <4> SUFFICES ASSUME r = v PROVE FALSE
          OBVIOUS
      <4>1. process_table[proc[q].pid] # q
        <5> SUFFICES ASSUME process_table[proc[q].pid] = q PROVE FALSE
            OBVIOUS
        <5>1. Alive(proc[q].pid)
            BY <2>2, PidFacts DEF Alive
        <5>2. proc[q].pid \in Adopted(d)
            BY <3>3, <5>1 DEF Adopted, Lists
        <5>3. q \notin {InitPcb, v} /\ \E c \in Adopted(d) : process_table[c] = q
            BY <1>10, <3>3, <5>2
        <5> QED  BY <1>5, <2>4, <5>3
      <4>2. q \notin scheduled
          BY <1>1, <4>1 DEF Known, InTable
      <4>3. PICK x \in Pcb : pc'[x] \in {"linked", "inserted"} /\ arg'[x] = q /\ ~Condemned(x)'
          BY <1>2, <1>10, <4>2 DEF Born
      <4>4. x # v /\ pc[x] = pc'[x] /\ arg[x] = q
          BY <1>9, <4>3
      <4>5. pc[x] = "linked"
          BY <1>1, <4>1, <4>3, <4>4 DEF Held, InTable
      <4>6. proc[x].pid = proc[v].pid
          BY <3>3, <4>4, <4>5 DEF Family
      <4>7. x \in scheduled /\ v \in scheduled
          BY <1>1, <3>3, <4>5 DEF Known
      <4> QED  BY <1>1, <4>4, <4>6, <4>7 DEF Known, InTable
    <3>6. R[r].children = proc[r].children /\ R[r].pid = proc[r].pid /\ R[q].pid = proc[q].pid
        BY <1>5, <3>4, <3>5
    <3>7. pc'[r] \notin Ending /\ ~Condemned(r)'
        BY <1>2, <1>8, <3>3, <3>5 DEF Moves, Ending
    <3>8. ParentOf(r, q)'
        BY <1>2, <1>6, <3>1, <3>3, <3>6, <3>7 DEF ParentOf, Lists
    <3> QED  BY <3>8 DEF Answered
  <2> QED  BY <2>3, <2>4
<1>11. ASSUME NEW x \in Pcb, pc'[x] = "linked" PROVE proc'[arg'[x]].ppid = proc'[x].pid
  <2>1. x # p
      BY <1>2, <1>11 DEF Holding
  <2>2. pc[x] = "linked" /\ arg'[x] = arg[x]
      BY <1>2, <1>11, <2>1 DEF Moves
  <2>3. arg[x] \in Pcb /\ \A c \in Pid : process_table[c] # arg[x]
      BY <1>1, <2>2 DEF Types, Places, Names, Held, Creating
  <2> QED  BY <1>5, <1>6, <2>2, <2>3 DEF Family
<1> QED  BY <1>10, <1>11 DEF Family

\* Creation and death: what changes of the others' parents is nothing.
LEMMA FamilyOthers ==
    ASSUME IInv, Family, NEW T \in SUBSET Pcb,
           \A q \in T : Born(q) /\ q \notin disowned /\ q # InitPcb,
           \A q \in T, r \in Pcb : ParentOf(r, q) =>
              /\ r \in scheduled' /\ pc'[r] \notin Ending /\ ~Condemned(r)'
              /\ proc'[r].pid = proc[r].pid /\ Lists(r, q)',
           \A q \in T : proc'[q].ppid = proc[q].ppid
    PROVE  \A q \in T : Answered(q)'
<1> SUFFICES ASSUME NEW q \in T PROVE Answered(q)'
    OBVIOUS
<1>1. Answered(q) /\ proc'[q].ppid = proc[q].ppid
    BY DEF Family
<1>2. CASE proc[q].ppid = INIT_PID
    BY <1>1, <1>2 DEF Answered
<1>3. CASE proc[q].ppid # INIT_PID
  <2>1. PICK r \in Pcb : ParentOf(r, q)
      BY <1>1, <1>3 DEF Answered
  <2>2. r # q /\ proc[r].pid = proc[q].ppid
      BY <2>1 DEF ParentOf
  <2>3. ParentOf(r, q)'
      BY <1>1, <2>1, <2>2 DEF ParentOf, Lists
  <2> QED  BY <2>3 DEF Answered
<1> QED  BY <1>2, <1>3

\* The start of create_process.
LEMMA FamilyPid ==
    ASSUME IInv, Family, ~reckless', NEW p \in Pcb, Runs(p), Uninterrupted(p), pc[p] = "user",
           NEW g \in {"shell", "command"}, NEW b \in BOOLEAN, create_process_pid(p, g, b)
    PROVE  Family'
<1>1. Types /\ Known /\ Held
    BY DEF IInv
<1>2. PICK q : q = mm_alloc
    OBVIOUS
<1>3. /\ Goto(p, "assigned", q) /\ disowned' = disowned \ {q} /\ scheduled' = scheduled
      /\ Creating = {} /\ q \notin Unborn
      /\ \E r : proc' = [proc EXCEPT ![q] = r]
    BY <1>2 DEF create_process_pid, Rule
<1>4. q \in Pcb /\ proc[q].state = "NONE" /\ proc \in [Pcb -> Record]
    BY <1>1, <1>2, Allocation DEF create_process_pid, FreeMemory, Types
<1>5. \A x \in Pcb \ {q} : proc'[x] = proc[x]
    BY <1>3, <1>4
<1>6. Moves(p) /\ pc'[p] = "assigned" /\ arg'[p] = q
  <2>1. "assigned" \in Label \ Names /\ q \in Pcb \cup Pid \cup {NULL}
      BY <1>4 DEF Label, Names
  <2> QED  BY <1>1, <1>3, <1>4, <2>1, GotoFacts
<1>7. (\A r : ~Condemned(r)) /\ (\A r \in Pcb : ~Condemned(r)')
    BY <1>6, NotCondemned, NotCondemnedNext
<1>8. q \notin scheduled
    BY <1>1, <1>4 DEF Known
<1>9. ASSUME NEW x \in Pcb, pc'[x] \in {"linked", "inserted"}
      PROVE  x # p /\ pc[x] = "inserted" /\ pc'[x] = "inserted" /\ arg'[x] = arg[x] /\ arg[x] # q
  <2>1. x # p /\ pc'[x] = pc[x] /\ arg'[x] = arg[x]
      BY <1>6, <1>9 DEF Moves
  <2>2. pc[x] = "inserted"
      BY <1>3, <1>9, <2>1 DEF Creating
  <2> QED  BY <1>3, <2>1, <2>2 DEF Unborn
<1> DEFINE T == {x \in Pcb \ disowned' : x # InitPcb /\ Born(x)'}
<1>10. ASSUME NEW x \in T PROVE x # q /\ Born(x) /\ x \in Pcb \ disowned /\ x # InitPcb
    BY <1>3, <1>7, <1>8, <1>9 DEF Born
<1>11. ASSUME NEW x \in T, NEW r \in Pcb, ParentOf(r, x)
       PROVE  /\ r \in scheduled' /\ pc'[r] \notin Ending /\ ~Condemned(r)'
              /\ proc'[r].pid = proc[r].pid /\ Lists(r, x)'
  <2>1. r \in scheduled /\ pc[r] \notin Ending /\ Lists(r, x) /\ r # q
      BY <1>8, <1>11 DEF ParentOf, Lists
  <2>2. pc'[r] \notin Ending
      BY <1>6, <2>1 DEF Moves, Ending
  <2>3. proc'[r] = proc[r] /\ proc'[x] = proc[x]
      BY <1>5, <1>10, <2>1
  <2> QED  BY <1>3, <1>7, <2>1, <2>2, <2>3 DEF Lists
<1>12. \A x \in T : Answered(x)'
  <2>1. \A x \in T : proc'[x].ppid = proc[x].ppid
      BY <1>5, <1>10
  <2>2. T \in SUBSET Pcb
      OBVIOUS
  <2> HIDE DEF T
  <2> QED  BY <1>10, <1>11, <2>1, <2>2, FamilyOthers
<1>13. ASSUME NEW x \in Pcb PROVE pc'[x] # "linked"
    BY <1>9
<1> QED  BY <1>12, <1>13 DEF Family

\* The parent is written down: it lists the child or drops it.
LEMMA FamilyLink ==
    ASSUME IInv, Family, NEW p \in Pcb, Uninterrupted(p), create_process_link(p)
    PROVE  Family'
<1>1. Types /\ Known /\ Held
    BY DEF IInv
<1>2. PICK q : q = arg[p]
    OBVIOUS
<1>3. /\ Runs(p) /\ pc[p] = "assigned" /\ Goto(p, "linked", q) /\ scheduled' = scheduled
      /\ disowned' = IF HasRoom(p) THEN disowned ELSE disowned \cup {q}
    BY <1>2 DEF create_process_link
<1>4. /\ q \in Pcb /\ q # p /\ proc'[q].pid = proc[q].pid /\ proc'[q].ppid = proc[p].pid
      /\ proc'[p].pid = proc[p].pid /\ proc'[p].ppid = proc[p].ppid
      /\ proc'[p].children =
           IF HasRoom(p) THEN Append(proc[p].children, proc[q].pid) ELSE proc[p].children
      /\ \A x \in Pcb \ {p, q} : proc'[x] = proc[x]
    BY <1>2, LinkFacts
<1>5. Moves(p) /\ pc'[p] = "linked" /\ arg'[p] = q
  <2>1. "linked" \in Label \ Names /\ q \in Pcb \cup Pid \cup {NULL}
      BY <1>4 DEF Label, Names
  <2> QED  BY <1>1, <1>3, <1>4, <2>1, GotoFacts
<1>6. (\A r : ~Condemned(r)) /\ (\A r \in Pcb : ~Condemned(r)')
    BY <1>3, <1>5, NotCondemned, NotCondemnedNext
<1>7. p \in Creating /\ q \notin scheduled /\ p \in scheduled
    BY <1>1, <1>2, <1>3, Actor DEF Held, Creating, Holding
<1>8. ASSUME NEW x \in Pcb \ {p}, pc'[x] \in {"linked", "inserted"}
      PROVE  pc[x] = "inserted" /\ pc'[x] = "inserted" /\ arg'[x] = arg[x] /\ arg[x] # q
    BY <1>2, <1>5, <1>7, <1>8, OtherHolders DEF Holding
<1>9. PICK a, n : a = proc[p].children /\ n = proc[q].pid
    OBVIOUS
<1>10. a \in Seq(Pid) /\ n \in Pid
    BY <1>1, <1>4, <1>9, RecordFields DEF Types
<1>11. proc'[p].children = IF HasRoom(p) THEN Append(a, n) ELSE a
    BY <1>4, <1>9
<1>12. \A i \in 1..Len(a) : i \in 1..Len(Append(a, n)) /\ Append(a, n)[i] = a[i]
    BY <1>10
<1>13. Len(Append(a, n)) \in 1..Len(Append(a, n)) /\ Append(a, n)[Len(Append(a, n))] = n
    BY <1>10
<1> DEFINE T == {x \in Pcb \ disowned' : x # InitPcb /\ x # q /\ Born(x)'}
<1>14. ASSUME NEW x \in T PROVE x # q /\ Born(x) /\ x \in Pcb \ disowned /\ x # InitPcb
    BY <1>3, <1>5, <1>6, <1>8 DEF Born
<1>15. ASSUME NEW x \in T, NEW r \in Pcb, ParentOf(r, x)
       PROVE  /\ r \in scheduled' /\ pc'[r] \notin Ending /\ ~Condemned(r)'
              /\ proc'[r].pid = proc[r].pid /\ Lists(r, x)'
  <2>1. r \in scheduled /\ pc[r] \notin Ending /\ Lists(r, x) /\ r # q
      BY <1>7, <1>15 DEF ParentOf, Lists
  <2>2. pc'[r] \notin Ending
      BY <1>5, <2>1 DEF Moves, Ending
  <2>3. proc'[x].pid = proc[x].pid /\ proc'[r].pid = proc[r].pid
      BY <1>4, <1>14, <2>1
  <2>4. CASE r # p
    <3>1. proc'[r] = proc[r]
        BY <1>4, <2>1, <2>4
    <3>2. Lists(r, x)'
        BY <2>1, <2>3, <3>1 DEF Lists
    <3> QED  BY <1>3, <1>6, <2>1, <2>2, <2>3, <3>2
  <2>5. CASE r = p
    <3>1. PICK i \in 1..Len(a) : a[i] = proc[x].pid
        BY <1>9, <2>1, <2>5 DEF Lists
    <3>2. PICK s : s = proc'[p].children
        OBVIOUS
    <3>3. i \in 1..Len(s) /\ s[i] = proc'[x].pid
        BY <1>11, <1>12, <2>3, <3>1, <3>2
    <3>4. Lists(r, x)'
        BY <2>5, <3>2, <3>3 DEF Lists
    <3> QED  BY <1>3, <1>6, <2>1, <2>2, <2>3, <3>4
  <2> QED  BY <2>4, <2>5
<1>16. \A x \in T : Answered(x)'
  <2>1. \A x \in T : proc'[x].ppid = proc[x].ppid
      BY <1>4, <1>14
  <2>2. T \in SUBSET Pcb
      OBVIOUS
  <2> HIDE DEF T
  <2> QED  BY <1>14, <1>15, <2>1, <2>2, FamilyOthers
<1>17. ASSUME q \notin disowned' PROVE Answered(q)'
  <2>1. proc'[p].children = Append(a, n)
      BY <1>3, <1>11, <1>17
  <2>2. Lists(p, q)'
    <3>1. PICK s, k : s = Append(a, n) /\ k = Len(s)
        OBVIOUS
    <3>2. k \in 1..Len(s) /\ s[k] = n
        BY <1>13, <3>1
    <3> QED  BY <1>4, <1>9, <2>1, <3>1, <3>2 DEF Lists
  <2>3. ParentOf(p, q)'
    <3>1. pc'[p] \notin Ending
        BY <1>5 DEF Ending
    <3> QED  BY <1>3, <1>4, <1>6, <1>7, <2>2, <3>1 DEF ParentOf, Lists
  <2> QED  BY <2>3 DEF Answered
<1>18. ASSUME NEW x \in Pcb, pc'[x] = "linked" PROVE proc'[arg'[x]].ppid = proc'[x].pid
  <2>1. x = p
      BY <1>8, <1>18
  <2> QED  BY <1>4, <1>5, <2>1
<1> QED  BY <1>16, <1>17, <1>18 DEF Family

\* No memory for argv: the child is gone before it was born.
LEMMA FamilyFail ==
    ASSUME IInv, Family, NEW p \in Pcb, Uninterrupted(p), create_process_fail(p)
    PROVE  Family'
<1>1. Types /\ Known /\ Held
    BY DEF IInv
<1>2. PICK q : q = arg[p]
    OBVIOUS
<1>3. /\ Runs(p) /\ pc[p] = "linked" /\ Goto(p, "user", NULL) /\ scheduled' = scheduled
      /\ disowned' = disowned /\ \E r : proc' = [proc EXCEPT ![q] = r]
    BY <1>2 DEF create_process_fail
<1>4. p \in Creating /\ q \in Pcb /\ q \notin scheduled /\ proc \in [Pcb -> Record]
    BY <1>1, <1>2, <1>3 DEF Held, Creating, Holding, Types, Places, Names
<1>5. \A x \in Pcb \ {q} : proc'[x] = proc[x]
    BY <1>3, <1>4
<1>6. Moves(p) /\ pc'[p] = "user"
  <2>1. "user" \in Label /\ NULL \in Pcb \cup Pid \cup {NULL}
      BY DEF Label
  <2> QED  BY <1>1, <1>3, <2>1, GotoFacts
<1>7. (\A r : ~Condemned(r)) /\ (\A r \in Pcb : ~Condemned(r)')
    BY <1>3, <1>6, NotCondemned, NotCondemnedNext
<1>8. ASSUME NEW x \in Pcb, pc'[x] \in {"linked", "inserted"}
      PROVE  x # p /\ pc[x] = "inserted" /\ pc'[x] = "inserted" /\ arg'[x] = arg[x] /\ arg[x] # q
  <2>1. x # p
      BY <1>6, <1>8
  <2> QED  BY <1>2, <1>4, <1>6, <1>8, <2>1, OtherHolders DEF Holding
<1> DEFINE T == {x \in Pcb \ disowned' : x # InitPcb /\ Born(x)'}
<1>9. ASSUME NEW x \in T PROVE x # q /\ Born(x) /\ x \in Pcb \ disowned /\ x # InitPcb
    BY <1>3, <1>4, <1>7, <1>8 DEF Born
<1>10. ASSUME NEW x \in T, NEW r \in Pcb, ParentOf(r, x)
       PROVE  /\ r \in scheduled' /\ pc'[r] \notin Ending /\ ~Condemned(r)'
              /\ proc'[r].pid = proc[r].pid /\ Lists(r, x)'
  <2>1. r \in scheduled /\ pc[r] \notin Ending /\ Lists(r, x) /\ r # q
      BY <1>4, <1>10 DEF ParentOf, Lists
  <2>2. pc'[r] \notin Ending
      BY <1>6, <2>1 DEF Moves, Ending
  <2>3. proc'[r] = proc[r] /\ proc'[x] = proc[x]
      BY <1>5, <1>9, <2>1
  <2> QED  BY <1>3, <1>7, <2>1, <2>2, <2>3 DEF Lists
<1>11. \A x \in T : Answered(x)'
  <2>1. \A x \in T : proc'[x].ppid = proc[x].ppid
      BY <1>5, <1>9
  <2>2. T \in SUBSET Pcb
      OBVIOUS
  <2> HIDE DEF T
  <2> QED  BY <1>9, <1>10, <2>1, <2>2, FamilyOthers
<1>12. ASSUME NEW x \in Pcb PROVE pc'[x] # "linked"
    BY <1>8
<1> QED  BY <1>11, <1>12 DEF Family

\* Filling the slot and telling the scheduler change no list and no parent.
LEMMA FamilyInsert ==
    ASSUME IInv, Family, NEW p \in Pcb, Uninterrupted(p), proc' = proc, disowned' = disowned,
           Moves(p), arg'[p] = arg[p],
           \/ pc[p] = "linked" /\ pc'[p] = "inserted" /\ scheduled' = scheduled
           \/ pc[p] = "inserted" /\ pc'[p] = "scheduled" /\ scheduled' = scheduled \cup {arg[p]}
    PROVE  Family'
<1>1. Types /\ Known /\ Held
    BY DEF IInv
<1>2. (\A r : ~Condemned(r)) /\ (\A r \in Pcb : ~Condemned(r)')
    BY NotCondemned, NotCondemnedNext
<1> DEFINE T == {x \in Pcb \ disowned' : x # InitPcb /\ Born(x)'}
<1>3. ASSUME NEW x \in T PROVE Born(x) /\ x \in Pcb \ disowned /\ x # InitPcb
  <2>1. CASE x \in scheduled'
      BY <1>2, <2>1 DEF Born
  <2>2. CASE x \notin scheduled'
    <3>1. PICK y \in Pcb : pc'[y] \in {"linked", "inserted"} /\ arg'[y] = x
        BY <2>2 DEF Born
    <3>2. pc[y] \in {"linked", "inserted"} /\ arg[y] = x
        BY <3>1 DEF Moves
    <3> QED  BY <1>2, <3>2 DEF Born
  <2> QED  BY <2>1, <2>2
<1>4. ASSUME NEW x \in T, NEW r \in Pcb, ParentOf(r, x)
      PROVE  /\ r \in scheduled' /\ pc'[r] \notin Ending /\ ~Condemned(r)'
             /\ proc'[r].pid = proc[r].pid /\ Lists(r, x)'
  <2>1. r \in scheduled /\ pc[r] \notin Ending /\ Lists(r, x)
      BY <1>4 DEF ParentOf, Lists
  <2>2. pc'[r] \notin Ending
      BY <2>1 DEF Moves, Ending
  <2> QED  BY <1>2, <2>1, <2>2 DEF Lists
<1>5. \A x \in T : Answered(x)'
  <2>1. \A x \in T : proc'[x].ppid = proc[x].ppid
      OBVIOUS
  <2>2. T \in SUBSET Pcb
      OBVIOUS
  <2> HIDE DEF T
  <2> QED  BY <1>3, <1>4, <2>1, <2>2, FamilyOthers
<1>6. ASSUME NEW x \in Pcb, pc'[x] = "linked" PROVE proc'[arg'[x]].ppid = proc'[x].pid
  <2>1. pc[x] = "linked" /\ arg'[x] = arg[x]
      BY <1>6 DEF Moves
  <2> QED  BY <2>1 DEF Family
<1> QED  BY <1>5, <1>6 DEF Family

\* Who leaves has begun to end, so nobody depends on it.
LEMMA FamilyLeaves ==
    ASSUME IInv, Family, NEW q \in Pcb, Leaves(q), disowned' = disowned,
           pc[q] \in Ending \/ Condemned(q),
           \A x \in Pcb : pc[x] \in Holding => arg[x] # q,
           \A x \in Pcb : Condemned(x) => x = q
    PROVE  Family'
<1>1. Types /\ Known /\ Held
    BY DEF IInv
<1>2. \A r \in Pcb : ~Condemned(r)'
    BY DEF Leaves, Condemned
<1>3. ASSUME NEW x \in Pcb, pc'[x] \in {"linked", "inserted"}
      PROVE  x # q /\ pc[x] = pc'[x] /\ arg'[x] = arg[x] /\ arg[x] # q /\ arg[x] \in Pcb /\ ~Condemned(x)
  <2>1. x # q /\ pc[x] = pc'[x] /\ arg'[x] = arg[x]
      BY <1>3 DEF Leaves
  <2> QED  BY <1>1, <1>3, <2>1 DEF Holding, Types, Places, Names
<1> DEFINE T == {x \in Pcb \ disowned' : x # InitPcb /\ Born(x)'}
<1>4. ASSUME NEW x \in T PROVE x # q /\ Born(x) /\ x \in Pcb \ disowned /\ x # InitPcb
    BY <1>3 DEF Born, Leaves
<1>5. ASSUME NEW x \in T, NEW r \in Pcb, ParentOf(r, x)
      PROVE  /\ r \in scheduled' /\ pc'[r] \notin Ending /\ ~Condemned(r)'
             /\ proc'[r].pid = proc[r].pid /\ Lists(r, x)'
  <2>1. r \in scheduled /\ pc[r] \notin Ending /\ Lists(r, x) /\ r # q
      BY <1>5 DEF ParentOf, Lists
  <2>2. pc'[r] \notin Ending /\ r \in scheduled'
      BY <2>1 DEF Leaves, Ending
  <2>3. proc'[r] = proc[r] /\ proc'[x] = proc[x]
      BY <1>4, <2>1 DEF Leaves
  <2> QED  BY <1>2, <2>1, <2>2, <2>3 DEF Lists
<1>6. \A x \in T : Answered(x)'
  <2>1. \A x \in T : proc'[x].ppid = proc[x].ppid
      BY <1>4 DEF Leaves
  <2>2. T \in SUBSET Pcb
      OBVIOUS
  <2> HIDE DEF T
  <2> QED  BY <1>4, <1>5, <2>1, <2>2, FamilyOthers
<1>7. ASSUME NEW x \in Pcb, pc'[x] = "linked" PROVE proc'[arg'[x]].ppid = proc'[x].pid
  <2>1. x # q /\ pc[x] = "linked" /\ arg'[x] = arg[x] /\ arg[x] # q /\ arg[x] \in Pcb
      BY <1>3, <1>7
  <2>2. proc'[x] = proc[x] /\ proc'[arg[x]] = proc[arg[x]]
      BY <2>1 DEF Leaves
  <2> QED  BY <2>1, <2>2 DEF Family
<1> QED  BY <1>6, <1>7 DEF Family

\* The steps that leave all PCBs alone.
LEMMA FamilySame ==
    ASSUME IInv, Family, NEW p \in Pcb, Uninterrupted(p), QuietStep(p), proc' = proc, disowned' = disowned,
           pc[p] # "killing_cli", pc'[p] # "killing_cli", pc'[p] \in Ending => pc[p] \in Ending
    PROVE  Family'
<1>1. \A r, q : Lists(r, q) => Lists(r, q)'
    BY DEF Lists
<1> QED  BY <1>1, FamilyQuiet

\* Reaping, with one process struck off its parent's list or none.
LEMMA FamilyReap ==
    ASSUME IInv, Family, NEW p \in Pcb, Uninterrupted(p),
           create_process_reap(p) \/ wait_child_return(p)
    PROVE  Family'
<1>1. Types /\ Slots
    BY DEF IInv
<1>2. QuietStep(p) /\ Runs(p)
    BY CreateProcessReap, WaitChildReturn DEF create_process_reap, wait_child_return
<1>3. proc \in [Pcb -> Record] /\ proc[p] \in Record /\ \A q \in Pcb : Len(proc[q].children) <= MAX_CHILDREN
    BY <1>1 DEF Types
<1>4. CASE create_process_reap(p)
  <2>1. \A q \in Pcb : proc[q].state # "TERMINATED" => proc'[q] = proc[q]
      BY <1>1, <1>3, <1>4, ReapFacts DEF create_process_reap
  <2>2. /\ pc[p] = "scheduled" /\ pc'[p] \in {"user", "assign", "created"} /\ disowned' = disowned
    <3>1. /\ pc[p] = "scheduled" /\ disowned' = disowned
          /\ \E l \in {"user", "assign", "created"} : pc' = [pc EXCEPT ![p] = l]
        BY <1>4 DEF create_process_reap, Goto
    <3> QED  BY <1>1, <3>1 DEF Types, Places
  <2>3. ASSUME NEW r \in scheduled, NEW q \in Pcb \ disowned', proc[q].state = "READY", Lists(r, q)
        PROVE  Lists(r, q)'
    <3>1. r \in Pcb /\ proc[r].state = "READY"
        BY <1>1 DEF Types, IInv, Known
    <3>2. proc'[r] = proc[r] /\ proc'[q] = proc[q]
        BY <2>1, <2>3, <3>1
    <3> QED  BY <2>3, <3>2 DEF Lists
  <2>4. \A q \in Pcb : proc[q].state = "READY" => proc'[q].ppid = proc[q].ppid
      BY <2>1
  <2> QED  BY <1>2, <2>2, <2>3, <2>4, FamilyQuiet DEF Ending
<1>5. CASE wait_child_return(p)
  <2>1. PICK c, a : c = arg[p] /\ a = proc[p].children
      OBVIOUS
  <2>2. PICK s : s = RemoveFirst(a, c)
      OBVIOUS
  <2>3. /\ pc[p] = "waiting" /\ pc' = [pc EXCEPT ![p] = "user"]
        /\ disowned' = disowned \cup {q \in Pcb : proc[q].state # "NONE" /\ proc[q].pid = c}
        /\ reap_terminated_processes([proc EXCEPT ![p].children = s])
      BY <1>5, <2>1, <2>2 DEF wait_child_return, Goto
  <2>4. c \in Pid /\ a \in Seq(Pid) /\ Len(a) <= MAX_CHILDREN /\ pc'[p] = "user"
      BY <1>1, <1>3, <2>1, <2>3, RecordFields DEF Types, Places, Names
  <2>5. /\ s \in Seq(Pid) /\ Len(s) <= Len(a)
        /\ \A i \in 1..Len(a) : a[i] # c => \E j \in 1..Len(s) : s[j] = a[i]
      BY <2>2, <2>4, Struck
  <2>6. Len(s) <= MAX_CHILDREN
    <3>1. Len(s) \in Nat /\ Len(a) \in Nat /\ MAX_CHILDREN \in Nat
        BY <2>4, <2>5, TableAssumption
    <3> QED  BY <2>4, <2>5, <3>1
  <2>7. PICK e : e = [proc[p] EXCEPT !.children = s]
      OBVIOUS
  <2>8. /\ e \in Record /\ e.children = s /\ e.pid = proc[p].pid /\ e.ppid = proc[p].ppid
        /\ e.state = proc[p].state /\ e.foreground = proc[p].foreground /\ e.program = proc[p].program
      BY <1>3, <2>5, <2>7, WithChildren
  <2>9. PICK was : was = [proc EXCEPT ![p].children = s]
      OBVIOUS
  <2>10. was = [proc EXCEPT ![p] = e]
      BY <2>7, <2>9
  <2>11. was \in [Pcb -> Record] /\ was[p] = e /\ \A q \in Pcb \ {p} : was[q] = proc[q]
      BY <1>3, <2>8, <2>10
  <2>12. \A q \in Pcb : /\ was[q].pid = proc[q].pid /\ was[q].state = proc[q].state
                        /\ was[q].program = proc[q].program /\ was[q].ppid = proc[q].ppid
                        /\ was[q].foreground = proc[q].foreground
                        /\ Len(was[q].children) <= MAX_CHILDREN
      BY <1>3, <2>6, <2>8, <2>11
  <2>13. reap_terminated_processes(was)
      BY <2>3, <2>9
  <2>14. \A q \in Pcb : proc[q].state # "TERMINATED" => proc'[q] = was[q]
      BY <1>1, <2>11, <2>12, <2>13, ReapFacts
  <2>15. ASSUME NEW r \in scheduled, NEW q \in Pcb \ disowned', proc[q].state = "READY", Lists(r, q)
         PROVE  Lists(r, q)'
    <3>1. r \in Pcb /\ proc[r].state = "READY"
        BY <1>1 DEF Types, IInv, Known
    <3>2. proc'[r] = was[r] /\ proc'[q] = was[q] /\ proc'[q].pid = proc[q].pid
        BY <2>12, <2>14, <2>15, <3>1
    <3>3. proc[q].pid # c
        BY <2>3, <2>15
    <3>4. CASE r # p
        BY <2>11, <2>15, <3>1, <3>2, <3>4 DEF Lists
    <3>5. CASE r = p
      <4>1. PICK i \in 1..Len(a) : a[i] = proc[q].pid
          BY <2>1, <2>15, <3>5 DEF Lists
      <4>2. PICK j \in 1..Len(s) : s[j] = proc[q].pid
          BY <2>5, <3>3, <4>1
      <4>3. proc'[r].children = s
          BY <2>8, <2>11, <3>2, <3>5
      <4> QED  BY <3>2, <4>2, <4>3 DEF Lists
    <3> QED  BY <3>4, <3>5
  <2>16. \A q \in Pcb : proc[q].state = "READY" => proc'[q].ppid = proc[q].ppid
      BY <2>12, <2>14
  <2> QED  BY <1>2, <2>3, <2>4, <2>15, <2>16, FamilyQuiet DEF Ending
<1> QED  BY <1>4, <1>5

\* The kernel's steps.
LEMMA FamilyKernel ==
    ASSUME IInv, Family, NEW p \in Pcb, Uninterrupted(p), Kernel(p)
    PROVE  Family'
<1>1. Types /\ Known /\ Held /\ Killed
    BY DEF IInv
<1>2. CASE create_process_link(p)
    BY <1>2, FamilyLink
<1>3. CASE create_process_fail(p)
    BY <1>3, FamilyFail
<1>4. CASE create_process_insert(p) \/ create_process_schedule(p)
  <2>1. proc' = proc /\ disowned' = disowned
      BY <1>4, CreateProcessSchedule DEF create_process_insert, create_process_schedule
  <2>2. PICK l : /\ Goto(p, l, arg[p])
                 /\ \/ pc[p] = "linked" /\ l = "inserted" /\ scheduled' = scheduled
                    \/ pc[p] = "inserted" /\ l = "scheduled" /\ scheduled' = scheduled \cup {arg[p]}
      BY <1>4 DEF create_process_insert, create_process_schedule
  <2>3. Moves(p) /\ pc'[p] = l /\ arg'[p] = arg[p]
    <3>1. l \in Label \ Names /\ arg[p] \in Pcb
        BY <1>1, <2>2 DEF Label, Names, Types, Places
    <3> QED  BY <1>1, <2>2, <3>1, GotoFacts
  <2> QED  BY <2>1, <2>2, <2>3, FamilyInsert
<1>5. CASE create_process_reap(p) \/ wait_child_return(p)
    BY <1>5, FamilyReap
<1>6. CASE wait_child(p)
  <2>1. QuietStep(p) /\ proc' = proc /\ disowned' = disowned /\ pc[p] = "created"
      BY <1>6, WaitChild DEF wait_child
  <2>2. \E l \in {"user", "waiting"} : pc' = [pc EXCEPT ![p] = l]
      BY <1>6 DEF wait_child, Goto
  <2>3. pc'[p] \in {"user", "waiting"}
      BY <1>1, <2>2 DEF Types, Places
  <2> QED  BY <2>1, <2>3, FamilySame DEF Ending
<1>7. CASE process_terminator_post(p)
  <2>1. QuietStep(p) /\ proc' = proc /\ disowned' = disowned /\ pc[p] = "reparented"
      BY <1>7, ProcessTerminatorPost DEF process_terminator_post
  <2>2. pc' = [pc EXCEPT ![p] = "posted"]
      BY <1>7 DEF process_terminator_post, Goto
  <2>3. pc'[p] = "posted"
      BY <1>1, <2>2 DEF Types, Places
  <2> QED  BY <2>1, <2>3, FamilySame DEF Ending
<1>8. CASE process_terminator_end(p)
  <2>1. Leaves(p) /\ disowned' = disowned /\ pc[p] = "posted" /\ p \in scheduled
      BY <1>8, ProcessTerminatorEnd DEF process_terminator_end, Runs
  <2>2. \A x \in Pcb : pc[x] \in Holding => arg[x] # p
      BY <1>1, <2>1 DEF Held
  <2>3. \A r : ~Condemned(r)
      BY <2>1, NotCondemned
  <2> QED  BY <2>1, <2>2, <2>3, FamilyLeaves DEF Ending
<1>9. CASE kill_process_end(p)
  <2>1. PICK q : q = arg[p]
      OBVIOUS
  <2>2. Leaves(q) /\ q \in Pcb /\ disowned' = disowned
      BY <1>9, <2>1, KillProcessEnd
  <2>3. Runs(p) /\ p \in scheduled /\ pc[p] \in {"killing", "killing_cli"}
      BY <1>9 DEF kill_process_end, Runs
  <2>4. \A x \in Pcb : Condemned(x) => x = q
      BY <2>1 DEF Condemned, Uninterrupted
  <2>5. CASE pc[p] = "killing"
    <3>1. q = p
        BY <1>1, <2>1, <2>5 DEF Killed
    <3>2. \A x \in Pcb : pc[x] \in Holding => arg[x] # q
        BY <1>1, <2>3, <3>1 DEF Held
    <3> QED  BY <2>2, <2>4, <2>5, <3>1, <3>2, FamilyLeaves DEF Ending
  <2>6. CASE pc[p] = "killing_cli"
    <3>1. Condemned(q)
        BY <2>1, <2>6 DEF Condemned
    <3>2. \A x \in Pcb : pc[x] \in Holding => arg[x] # q
        BY <1>1, <2>1, <2>6 DEF Killed
    <3> QED  BY <2>2, <2>4, <3>1, <3>2, FamilyLeaves
  <2> QED  BY <2>3, <2>5, <2>6
<1> QED  BY <1>2, <1>3, <1>4, <1>5, <1>6, <1>7, <1>8, <1>9 DEF Kernel

\* A kill hands the victim's children to init.
LEMMA FamilyKill ==
    ASSUME IInv, Family, ~reckless', NEW p \in Pcb, Uninterrupted(p), Runs(p), QuietStep(p),
           pc[p] # "killing_cli", NEW pid \in Pid, kill_process(p, pid),
           sems[pid].blockedProcesses # <<>> => process_table[pid] = p
    PROVE  Family'
<1>1. Types /\ Slots /\ InitLives
    BY DEF IInv
<1>2. PICK v, l : /\ v = process_table[pid]
                  /\ l = IF sems[pid].blockedProcesses # <<>> THEN "killing" ELSE "killing_cli"
    OBVIOUS
<1>3. /\ pid # INIT_PID /\ v # NULL /\ proc' = reparent_children(pid) /\ Goto(p, l, v)
      /\ disowned' = disowned
    BY <1>2 DEF kill_process
<1>4. v # InitPcb
    BY <1>1, <1>2, <1>3 DEF Slots, InitLives
<1>5. pc'[p] = l /\ arg'[p] = v
    BY <1>1, <1>3 DEF Goto, Types, Places
<1>6. \/ v = p /\ pc'[p] \in Ending
      \/ pc'[p] = "killing_cli" /\ arg'[p] = v
    BY <1>2, <1>5 DEF Ending
<1> QED  BY <1>2, <1>3, <1>4, <1>6, FamilyReparent DEF Runs

\* The programs' steps.
LEMMA FamilyProgram ==
    ASSUME IInv, Family, ~reckless', NEW p \in Pcb, Uninterrupted(p), Program(p)
    PROVE  Family'
<1>1. Types /\ Known /\ Held /\ Killed
    BY DEF IInv
<1>2. Runs(p) /\ p \in scheduled
    BY DEF Program, createProcess, process_terminator, sys_kill, sys_block_process,
       kill_foreground_processes, Runs
<1>3. CASE createProcess(p)
  <2>1. PICK b \in BOOLEAN : create_process_pid(p, "command", b)
      BY <1>3 DEF createProcess
  <2>2. pc[p] = "user"
      BY <1>3 DEF createProcess
  <2> QED  BY <1>2, <2>1, <2>2, FamilyPid
<1>4. CASE process_terminator(p)
  <2>1. PICK d : d = proc[p].pid
      OBVIOUS
  <2>2. /\ pc[p] = "user" /\ proc' = reparent_children(d) /\ disowned' = disowned
        /\ pc' = [pc EXCEPT ![p] = "reparented"] /\ p # InitPcb
      BY <1>4, <2>1, Actor DEF process_terminator, Goto
  <2>3. QuietStep(p)
      BY <1>4, ProcessTerminator
  <2>4. d \in Pid /\ process_table[d] = p /\ p # NULL
      BY <1>2, <2>1, Actor, PidFacts
  <2>5. pc'[p] = "reparented"
      BY <1>1, <2>2 DEF Types, Places
  <2> QED  BY <1>2, <2>2, <2>3, <2>4, <2>5, FamilyReparent DEF Ending
<1>5. CASE sys_kill(p)
  <2>1. PICK pid \in Pid : /\ process_table[pid] \notin Unborn
                           /\ sems[pid].blockedProcesses = <<>> /\ kill_process(p, pid)
      BY <1>5 DEF sys_kill, Rule
  <2>2. pc[p] = "user" /\ QuietStep(p)
      BY <1>5, SysKill DEF sys_kill
  <2> QED  BY <1>2, <2>1, <2>2, FamilyKill
<1>6. CASE sys_block_process(p)
  <2>1. QuietStep(p) /\ proc' = proc /\ disowned' = disowned /\ pc[p] = "user" /\ pc'[p] = "user"
      BY <1>6, SysBlock DEF sys_block_process
  <2> QED  BY <2>1, FamilySame DEF Ending
<1>7. CASE kill_foreground_processes(p)
  <2>1. PICK pid : pid = proc[p].pid
      OBVIOUS
  <2>2. pid \in Pid /\ process_table[pid] = p
      BY <1>2, <2>1, Actor
  <2>3. kill_process(p, pid) /\ pc[p] # "killing_cli" /\ QuietStep(p)
      BY <1>7, <2>1, CtrlC DEF kill_foreground_processes
  <2> QED  BY <1>2, <2>2, <2>3, FamilyKill
<1> QED  BY <1>3, <1>4, <1>5, <1>6, <1>7 DEF Program

\* Every step keeps the family together.
LEMMA NextFamily ==
    ASSUME ~reckless', IInv, Family, [Next]_vars
    PROVE  Family'
<1>1. CASE UNCHANGED vars
    BY <1>1 DEF vars, Family, Born, Answered, ParentOf, Condemned
<1>2. CASE Uninterrupted(InitPcb) /\ init_process
  <2>1. /\ InitPcb \in Pcb /\ Runs(InitPcb) /\ pc[InitPcb] = "user" /\ Uninterrupted(InitPcb)
        /\ create_process_pid(InitPcb, "shell", TRUE)
      BY <1>2, PidFacts DEF init_process
  <2> QED  BY <2>1, FamilyPid
<1>3. CASE Uninterrupted(InitPcb) /\ create_shell
  <2>1. /\ InitPcb \in Pcb /\ QuietStep(InitPcb) /\ proc' = proc /\ disowned' = disowned
        /\ pc[InitPcb] = "assign" /\ pc' = [pc EXCEPT ![InitPcb] = "user"]
      BY <1>3, CreateShell, PidFacts DEF create_shell, Goto
  <2>2. pc'[InitPcb] = "user"
      BY <2>1 DEF IInv, Types, Places
  <2> QED  BY <1>3, <2>1, <2>2, FamilySame DEF Ending
<1>4. CASE Uninterrupted(InitPcb) /\ init_process_fail
  <2>1. /\ InitPcb \in Pcb /\ QuietStep(InitPcb) /\ proc' = proc /\ disowned' = disowned
        /\ pc[InitPcb] = "user" /\ pc'[InitPcb] = "user"
      BY <1>4, InitProcessFail, PidFacts DEF init_process_fail
  <2> QED  BY <1>4, <2>1, FamilySame DEF Ending
<1> QED  BY <1>1, <1>2, <1>3, <1>4, FamilyKernel, FamilyProgram DEF Next, InitLoop

\* Whoever answers for a process is a process that ps shows.
LEMMA FamilyAdopted == IInv /\ Family => OrphansAdopted
<1> SUFFICES ASSUME IInv, Family, NEW q \in scheduled \ disowned, q # InitPcb
             PROVE  ps[proc[q].ppid] # NULL
    BY DEF OrphansAdopted
<1>1. ASSUME NEW r \in scheduled PROVE ps[proc[r].pid] = r /\ r # NULL
    BY IInvTableAgrees, PidFacts DEF TableAgrees, IInv, Types
<1>2. q \in Pcb /\ Answered(q)
    BY DEF IInv, Types, Family, Born
<1>3. CASE proc[q].ppid = INIT_PID
  <2>1. InitPcb \in scheduled /\ proc[InitPcb].pid = INIT_PID
      BY DEF IInv, InitLives
  <2> QED  BY <1>1, <1>3, <2>1
<1>4. CASE proc[q].ppid # INIT_PID
  <2>1. PICK r \in Pcb : r \in scheduled /\ proc[r].pid = proc[q].ppid
      BY <1>2, <1>4 DEF Answered, ParentOf
  <2> QED  BY <1>1, <2>1
<1> QED  BY <1>3, <1>4

\* Until a rule of use is broken, a process whose parent has ended has been adopted
\* by init, unless the parent had dropped it from its list before
\* (reparent_children; README line 148).
THEOREM OrphansAreAdopted == Spec => []OrphansAdopted
<1> DEFINE RInv == reckless \in BOOLEAN /\ (reckless \/ (IInv /\ Family))
<1>1. Init => RInv
  <2> SUFFICES ASSUME Init PROVE Family
      BY InitIInv, InitReckless
  <2>1. scheduled = {InitPcb} /\ \A p \in Pcb : pc[p] = "user"
      BY DEF Init
  <2> QED  BY <2>1 DEF Family, Born
<1>2. RInv /\ [Next]_vars => RInv'
    BY NextIInv, NextFamily, RecklessStays
<1>3. RInv => OrphansAdopted
  <2>1. CASE reckless
      BY <2>1 DEF OrphansAdopted
  <2> QED  BY <2>1, FamilyAdopted
<1> HIDE DEF RInv
<1> QED  BY <1>1, <1>2, <1>3, PTL DEF Spec

-----------------------------------------------------------------------------
(* What one operation does to the registry.                                *)

\* l is k with another record for n and perhaps other sleepers.
Rewrites(k, l, n, e, a) ==
    /\ l.sems[n] = e /\ l.asleep = a
    /\ \A m \in Pid \ {n} : l.sems[m] = k.sems[m]

\* Writing a record, and perhaps the sleepers, does that.
LEMMA Rewriting ==
    ASSUME NEW k \in Registry, NEW n \in Pid, NEW e \in SemRecord(Pid), NEW a \in SUBSET Pid
    PROVE  /\ Rewrites(k, [k EXCEPT !.sems[n] = e], n, e, k.asleep)
           /\ Rewrites(k, [k EXCEPT !.sems[n] = e, !.asleep = a], n, e, a)
<1>1. PICK f, z : k = [sems |-> f, asleep |-> z] /\ f \in [Pid -> SemRecord(Pid)] /\ z \in SUBSET Pid
    BY SMT DEF Registry
<1>2. PICK g : g = [f EXCEPT ![n] = e]
    OBVIOUS
<1>3. k.sems = f /\ k.asleep = z
    BY <1>1, SMT
<1>4. g[n] = e /\ \A m \in Pid \ {n} : g[m] = k.sems[m]
    BY <1>1, <1>2, <1>3
<1>5. [k EXCEPT !.sems[n] = e] = [sems |-> g, asleep |-> z]
    BY <1>1, <1>2
<1>6. [k EXCEPT !.sems[n] = e, !.asleep = a] = [sems |-> g, asleep |-> a]
  <2>1. [[sems |-> g, asleep |-> z] EXCEPT !.asleep = a] = [sems |-> g, asleep |-> a]
      OBVIOUS
  <2>2. [k EXCEPT !.sems[n] = e, !.asleep = a] = [[k EXCEPT !.sems[n] = e] EXCEPT !.asleep = a]
      BY <1>1, <1>2
  <2> QED  BY <1>5, <2>1, <2>2
<1>7. \A w : [sems |-> g, asleep |-> w].sems = g /\ [sems |-> g, asleep |-> w].asleep = w
    BY SMT
<1> QED  BY <1>3, <1>4, <1>5, <1>6, <1>7 DEF Rewrites

\* The same for one operation's outcome.
LEMMA RewritingBoth ==
    ASSUME NEW k \in Registry, NEW n \in Pid, NEW e \in SemRecord(Pid), NEW a \in SUBSET Pid,
           NEW l, l = [k EXCEPT !.sems[n] = e, !.asleep = a]
    PROVE  Rewrites(k, l, n, e, a)
<1>1. Rewrites(k, [k EXCEPT !.sems[n] = e, !.asleep = a], n, e, a)
    BY Rewriting
<1> QED  BY <1>1, Zenon

\* The three fields of a semaphore.
Has(e, u, v, s) == e.users = u /\ e.value = v /\ e.blockedProcesses = s

\* One field changed, the others kept.
LEMMA SemChanged ==
    ASSUME NEW e \in SemRecord(Pid)
    PROVE  /\ \A u \in Nat : Has([e EXCEPT !.users = u], u, e.value, e.blockedProcesses)
           /\ \A v \in 0..UINT16_MAX : Has([e EXCEPT !.value = v], e.users, v, e.blockedProcesses)
           /\ \A s \in Seq(Pid) : Has([e EXCEPT !.blockedProcesses = s], e.users, e.value, s)
           /\ Has(NoSem, 0, 0, <<>>)
           /\ Has([users |-> 1, value |-> 0, blockedProcesses |-> <<>>], 1, 0, <<>>)
    BY SMT DEF SemRecord, Has, NoSem

\* Opening a semaphore.
LEMMA OpenEffect ==
    ASSUME NEW k \in Registry, NEW n \in Pid, NEW e, e = k.sems[n], NEW l, l = semOpen(k, n, 0)
    PROVE  /\ l \in Registry /\ l.asleep = k.asleep
           /\ \A m \in Pid \ {n} : l.sems[m] = k.sems[m]
           /\ e.users > 0 => Has(l.sems[n], e.users + 1, e.value, e.blockedProcesses)
           /\ ~(e.users > 0) => Has(l.sems[n], 1, 0, <<>>)
<1>1. e \in SemRecord(Pid) /\ l \in Registry /\ k.asleep \in SUBSET Pid
    BY RegistryFields, SemTypes
<1>2. e.users \in Nat
    BY <1>1, SemFields
<1>3. CASE e.users > 0
  <2>1. PICK f : f = [e EXCEPT !.users = e.users + 1]
      OBVIOUS
  <2>2. f \in SemRecord(Pid) /\ Has(f, e.users + 1, e.value, e.blockedProcesses)
    <3>1. e.users + 1 \in Nat
        BY <1>2
    <3> QED  BY <1>1, <2>1, <3>1, SemFields, SemChanged
  <2>3. l = [k EXCEPT !.sems[n] = f]
      BY <1>3, <2>1 DEF semOpen, is_semaphore_valid
  <2>4. Rewrites(k, l, n, f, k.asleep)
      BY <1>1, <2>2, <2>3, Rewriting
  <2> QED  BY <1>1, <1>3, <2>2, <2>4 DEF Rewrites
<1>4. CASE ~(e.users > 0)
  <2>1. PICK f : f = [users |-> 1, value |-> 0, blockedProcesses |-> <<>>]
      OBVIOUS
  <2>2. f \in SemRecord(Pid) /\ Has(f, 1, 0, <<>>)
      BY <1>1, <2>1, SemFields, SemChanged
  <2>3. l = [k EXCEPT !.sems[n] = f]
      BY <1>4, <2>1 DEF semOpen, is_semaphore_valid
  <2>4. Rewrites(k, l, n, f, k.asleep)
      BY <1>1, <2>2, <2>3, Rewriting
  <2> QED  BY <1>1, <1>4, <2>2, <2>4 DEF Rewrites
<1> QED  BY <1>3, <1>4

\* Closing a semaphore that is open.
LEMMA CloseEffect ==
    ASSUME NEW k \in Registry, NEW n \in Pid, NEW e, e = k.sems[n], e.users > 0,
           NEW l, l = semClose(k, n)
    PROVE  /\ l \in Registry /\ l.asleep = k.asleep
           /\ \A m \in Pid \ {n} : l.sems[m] = k.sems[m]
           /\ e.users # 1 => Has(l.sems[n], e.users - 1, e.value, e.blockedProcesses)
           /\ e.users = 1 => Has(l.sems[n], 0, 0, <<>>)
<1>1. e \in SemRecord(Pid) /\ l \in Registry /\ k.asleep \in SUBSET Pid
    BY RegistryFields, SemTypes
<1>2. e.users \in Nat
    BY <1>1, SemFields
<1>3. CASE e.users # 1
  <2>1. PICK f : f = [e EXCEPT !.users = e.users - 1]
      OBVIOUS
  <2>2. f \in SemRecord(Pid) /\ Has(f, e.users - 1, e.value, e.blockedProcesses)
    <3>1. e.users - 1 \in Nat
        BY <1>2
    <3> QED  BY <1>1, <2>1, <3>1, SemFields, SemChanged
  <2>3. l = [k EXCEPT !.sems[n] = f]
      BY <1>3, <2>1 DEF semClose, is_semaphore_valid
  <2>4. Rewrites(k, l, n, f, k.asleep)
      BY <1>1, <2>2, <2>3, Rewriting
  <2> QED  BY <1>1, <1>3, <2>2, <2>4 DEF Rewrites
<1>4. CASE e.users = 1
  <2>1. NoSem \in SemRecord(Pid) /\ Has(NoSem, 0, 0, <<>>)
      BY <1>1, SemFields, SemChanged
  <2>2. l = [k EXCEPT !.sems[n] = NoSem]
      BY <1>4 DEF semClose, is_semaphore_valid
  <2>3. Rewrites(k, l, n, NoSem, k.asleep)
      BY <1>1, <2>1, <2>2, Rewriting
  <2> QED  BY <1>1, <1>4, <2>1, <2>3 DEF Rewrites
<1> QED  BY <1>3, <1>4

\* Posting to a semaphore that is open.
LEMMA PostEffect ==
    ASSUME NEW k \in Registry, NEW n \in Pid, NEW e, e = k.sems[n], e.users > 0,
           NEW l, l = semPost(k, n)
    PROVE  /\ l \in Registry
           /\ \A m \in Pid \ {n} : l.sems[m] = k.sems[m]
           /\ e.blockedProcesses = <<>> =>
                /\ Has(l.sems[n], e.users, (e.value + 1) % (UINT16_MAX + 1), e.blockedProcesses)
                /\ l.asleep = k.asleep
           /\ e.blockedProcesses # <<>> =>
                /\ Has(l.sems[n], e.users, e.value, Tail(e.blockedProcesses))
                /\ l.asleep = k.asleep \ {Head(e.blockedProcesses)}
<1>1. e \in SemRecord(Pid) /\ l \in Registry /\ k.asleep \in SUBSET Pid
    BY RegistryFields, SemTypes
<1>2. e.users \in Nat /\ e.value \in 0..UINT16_MAX /\ e.blockedProcesses \in Seq(Pid) /\ UINT16_MAX \in Nat
    BY <1>1, SemFields
<1>3. CASE e.blockedProcesses = <<>>
  <2>0. PICK v : v = (e.value + 1) % (UINT16_MAX + 1)
      OBVIOUS
  <2>1. PICK f : f = [e EXCEPT !.value = v]
      OBVIOUS
  <2>2. f \in SemRecord(Pid) /\ Has(f, e.users, v, e.blockedProcesses)
    <3>1. v \in 0..UINT16_MAX
        BY SMTT(40), <1>2, <2>0
    <3> QED  BY <1>1, <2>1, <3>1, SemFields, SemChanged
  <2>3. l = [k EXCEPT !.sems[n] = f]
      BY <1>3, <2>0, <2>1 DEF semPost, is_semaphore_valid
  <2>4. Rewrites(k, l, n, f, k.asleep)
      BY <1>1, <2>2, <2>3, Rewriting
  <2> QED  BY <1>1, <1>3, <2>0, <2>2, <2>4 DEF Rewrites
<1>4. CASE e.blockedProcesses # <<>>
  <2>1. PICK f : f = [e EXCEPT !.blockedProcesses = Tail(e.blockedProcesses)]
      OBVIOUS
  <2>2. f \in SemRecord(Pid) /\ Has(f, e.users, e.value, Tail(e.blockedProcesses))
    <3>1. Tail(e.blockedProcesses) \in Seq(Pid)
        BY <1>2, <1>4
    <3> QED  BY <1>1, <2>1, <3>1, SemFields, SemChanged
  <2>3. PICK a : a = k.asleep \ {Head(e.blockedProcesses)}
      OBVIOUS
  <2>4. l = [k EXCEPT !.sems[n] = f, !.asleep = a]
      BY <1>4, <2>1, <2>3 DEF semPost, is_semaphore_valid
  <2>5. Rewrites(k, l, n, f, a)
    <3>1. a \in SUBSET Pid
        BY <1>1, <2>3
    <3> QED  BY <2>2, <2>4, <3>1, RewritingBoth
  <2> QED  BY <1>1, <1>4, <2>2, <2>3, <2>5 DEF Rewrites
<1> QED  BY <1>3, <1>4

\* Waiting on a semaphore that is open.
LEMMA WaitEffect ==
    ASSUME NEW k \in Registry, NEW n \in Pid, NEW pid \in Pid, NEW e, e = k.sems[n], e.users > 0,
           NEW l, l = semWait(k, n, pid)
    PROVE  /\ l \in Registry
           /\ \A m \in Pid \ {n} : l.sems[m] = k.sems[m]
           /\ e.value = 0 =>
                /\ Has(l.sems[n], e.users, e.value, Append(e.blockedProcesses, pid))
                /\ l.asleep = k.asleep \cup {pid}
           /\ e.value # 0 =>
                /\ Has(l.sems[n], e.users, e.value - 1, e.blockedProcesses)
                /\ l.asleep = k.asleep
<1>1. e \in SemRecord(Pid) /\ l \in Registry /\ k.asleep \in SUBSET Pid
    BY RegistryFields, SemTypes
<1>2. e.users \in Nat /\ e.value \in 0..UINT16_MAX /\ e.blockedProcesses \in Seq(Pid) /\ UINT16_MAX \in Nat
    BY <1>1, SemFields
<1>3. CASE e.value # 0
  <2>1. PICK f : f = [e EXCEPT !.value = e.value - 1]
      OBVIOUS
  <2>2. f \in SemRecord(Pid) /\ Has(f, e.users, e.value - 1, e.blockedProcesses)
    <3>1. e.value - 1 \in 0..UINT16_MAX
        BY <1>2, <1>3
    <3> QED  BY <1>1, <2>1, <3>1, SemFields, SemChanged
  <2>3. l = [k EXCEPT !.sems[n] = f]
      BY <1>3, <2>1 DEF semWait, is_semaphore_valid
  <2>4. Rewrites(k, l, n, f, k.asleep)
      BY <1>1, <2>2, <2>3, Rewriting
  <2> QED  BY <1>1, <1>3, <2>2, <2>4 DEF Rewrites
<1>4. CASE e.value = 0
  <2>1. PICK f : f = [e EXCEPT !.blockedProcesses = Append(e.blockedProcesses, pid)]
      OBVIOUS
  <2>2. f \in SemRecord(Pid) /\ Has(f, e.users, e.value, Append(e.blockedProcesses, pid))
    <3>1. Append(e.blockedProcesses, pid) \in Seq(Pid)
        BY <1>2
    <3> QED  BY <1>1, <2>1, <3>1, SemFields, SemChanged
  <2>3. PICK a : a = k.asleep \cup {pid}
      OBVIOUS
  <2>4. l = [k EXCEPT !.sems[n] = f, !.asleep = a]
      BY <1>4, <2>1, <2>3 DEF semWait, is_semaphore_valid
  <2>5. Rewrites(k, l, n, f, a)
    <3>1. a \in SUBSET Pid
        BY <1>1, <2>3
    <3> QED  BY <2>2, <2>4, <3>1, RewritingBoth
  <2> QED  BY <1>1, <1>4, <2>2, <2>3, <2>5 DEF Rewrites
<1> QED  BY <1>3, <1>4

-----------------------------------------------------------------------------
(* Waiting for a child.                                                    *)

Users(c)  == sems[c].users
Tokens(c) == sems[c].value
Line(c)   == sems[c].blockedProcesses
InLine(x, c) == \E i \in 1..Len(Line(c)) : Line(c)[i] = x

\* Who is inside wait_child for the PID c, and who may still call it.
Waiting(c) == {p \in Pcb : pc[p] = "waiting" /\ arg[p] = c}
Coming(c)  == {p \in Pcb : \/ pc[p] = "created" /\ arg[p] = c
                           \/ pc[p] \in {"inserted", "scheduled"} /\ proc[arg[p]].pid = c}

\* The process c has yet to post.
Pending(c) == ps[c] # NULL /\ ~Posted(ps[c])

\* q runs, or is in the table and about to.
Enrolled(q) == q \in scheduled \/ \E p \in Pcb : pc[p] = "inserted" /\ arg[p] = q

\* wait_<c> has more users than there are waiters, so no close forgets it, unless it
\* has never been opened.
Opened == \A c \in Pid :
    IF Users(c) = 0
    THEN Waiting(c) = {} /\ Coming(c) = {} /\ Tokens(c) = 0 /\ Line(c) = <<>>
    ELSE Cardinality(Waiting(c)) < Users(c)
Named == \A q \in Pcb : Enrolled(q) => Users(proc[q].pid) # 0

\* Who sleeps in wait_child is in line.
Lined == \A p \in Pcb : pc[p] = "waiting" /\ proc[p].pid \in asleep => InLine(proc[p].pid, arg[p])

\* A PID used for the first time stands in one line, once, while its process
\* sleeps there.
AloneInLine(x, d) ==
    /\ Users(x) # 0
    /\ \A i, j \in 1..Len(Line(d)) : Line(d)[i] = x /\ Line(d)[j] = x => i = j
    /\ ps[x] # NULL => pc[ps[x]] = "waiting" /\ arg[ps[x]] = d /\ x \in asleep
Fresh == \A x \in Pid \ reused, d \in Pid : InLine(x, d) => AloneInLine(x, d)

\* Its own semaphore has no token before it has posted, and whoever waited for it
\* and is awake has been woken by that post.
First == \A c \in Pid \ reused : Pending(c) => Tokens(c) = 0
Ended == \A p \in Pcb : /\ pc[p] = "waiting" /\ proc[p].pid \notin asleep
                        /\ arg[p] \notin reused /\ proc[p].pid \notin reused
                        => ~Pending(arg[p])

WInv == Opened /\ Named /\ Lined /\ Fresh /\ First /\ Ended

\* Tokens and the post to come are enough for all who wait or will.
Due(c) == IF Pending(c) THEN 1 ELSE 0
Enough == \A c \in Pid :
    /\ Line(c) # <<>> => Tokens(c) = 0
    /\ Len(Line(c)) + Cardinality(Coming(c)) <= Tokens(c) + Due(c)

\* A step after which nobody has begun to wait or to create.
Steady ==
    /\ reused' = reused
    /\ \A p \in Pcb : pc'[p] = "waiting" =>
         pc[p] = "waiting" /\ arg'[p] = arg[p] /\ proc'[p].pid = proc[p].pid
    /\ \A c \in Pid : Coming(c)' \subseteq Coming(c)
    /\ \A x \in Pid : ps'[x] # NULL =>
         /\ ps'[x] = ps[x]
         /\ pc[ps[x]] = "waiting" /\ x \in asleep =>
              pc'[ps[x]] = "waiting" /\ arg'[ps[x]] = arg[ps[x]]
    /\ \A q \in Pcb : Enrolled(q)' => Enrolled(q) /\ proc'[q].pid = proc[q].pid

\* ... and nobody has been woken or has posted.
QuietView ==
    /\ Steady
    /\ \A c \in Pid : /\ Tokens(c)' = Tokens(c) /\ Line(c)' = Line(c)
                      /\ Users(c)' = 0 <=> Users(c) = 0
                      /\ Users(c)' = Users(c) \/ Cardinality(Waiting(c)') < Users(c)'
    /\ \A p \in Pcb : pc'[p] = "waiting" => (proc[p].pid \in asleep' <=> proc[p].pid \in asleep)
    /\ \A c \in Pid : Pending(c)' <=> Pending(c)

\* The process d posts.
PostView(d) ==
    /\ Steady /\ SetSems(PostExit(d))
    /\ ~Pending(d)'
    /\ \A c \in Pid \ {d} : Pending(c)' <=> Pending(c)

\* What IInv says of the fields.
LEMMA WaitTypes ==
    ASSUME Types, NEW c \in Pid
    PROVE  /\ Users(c) \in Nat /\ Tokens(c) \in 0..UINT16_MAX /\ Tokens(c) \in Nat /\ Line(c) \in Seq(Pid)
           /\ IsFiniteSet(Waiting(c)) /\ Cardinality(Waiting(c)) \in Nat
           /\ IsFiniteSet(Coming(c)) /\ Cardinality(Coming(c)) \in Nat
           /\ UINT16_MAX \in Nat
<1>1. sems[c] \in SemRecord(Pid)
    BY DEF Types
<1>2. /\ Users(c) \in Nat /\ Tokens(c) \in 0..UINT16_MAX /\ Line(c) \in Seq(Pid) /\ UINT16_MAX \in Nat
    BY <1>1, SemFields DEF Users, Tokens, Line
<1>3. Waiting(c) \subseteq Pcb /\ Coming(c) \subseteq Pcb /\ IsFiniteSet(Pcb)
    BY TableAssumption DEF Waiting, Coming
<1>4. IsFiniteSet(Waiting(c)) /\ IsFiniteSet(Coming(c))
    BY <1>3, FS_Subset
<1>5. Cardinality(Waiting(c)) \in Nat /\ Cardinality(Coming(c)) \in Nat
    BY <1>4, FS_CardinalityType
<1>6. Tokens(c) \in Nat
    BY <1>2
<1> QED  BY <1>2, <1>4, <1>5, <1>6

\* The same after a step.
LEMMA WaitTypesNext ==
    ASSUME Types', NEW c \in Pid
    PROVE  /\ Users(c)' \in Nat /\ Tokens(c)' \in 0..UINT16_MAX /\ Tokens(c)' \in Nat
           /\ Line(c)' \in Seq(Pid)
           /\ IsFiniteSet(Waiting(c)') /\ Cardinality(Waiting(c)') \in Nat
           /\ IsFiniteSet(Coming(c)') /\ Cardinality(Coming(c)') \in Nat
<1>1. sems'[c] \in SemRecord(Pid)
    BY DEF Types
<1>2. Users(c)' \in Nat /\ Tokens(c)' \in 0..UINT16_MAX /\ Line(c)' \in Seq(Pid) /\ UINT16_MAX \in Nat
    BY <1>1, SemFields DEF Users, Tokens, Line
<1>3. Waiting(c)' \subseteq Pcb /\ Coming(c)' \subseteq Pcb /\ IsFiniteSet(Pcb)
    BY TableAssumption DEF Waiting, Coming
<1>4. IsFiniteSet(Waiting(c)') /\ IsFiniteSet(Coming(c)')
    BY <1>3, FS_Subset
<1>5. Cardinality(Waiting(c)') \in Nat /\ Cardinality(Coming(c)') \in Nat
    BY <1>4, FS_CardinalityType
<1>6. Tokens(c)' \in Nat
    BY <1>2
<1> QED  BY <1>2, <1>4, <1>5, <1>6

\* The PID a process waits for, before and after a step that leaves it there.
LEMMA PendingSame ==
    ASSUME NEW p, NEW c, arg'[p] = c
    PROVE  Pending(arg[p])' <=> Pending(c)'
    BY DEF Pending, Posted

\* What ps shows.
LEMMA PsFacts ==
    ASSUME Types, Slots, NEW x \in Pid, ps[x] # NULL
    PROVE  /\ ps[x] = process_table[x] /\ ps[x] \in Pcb /\ proc[ps[x]].pid = x
           /\ proc[ps[x]].state # "TERMINATED"
<1>1. x \notin FreeSlots /\ ps[x] = process_table[x]
    BY DEF ps
<1>2. process_table[x] \in Pcb /\ process_table[x] # NULL
    BY <1>1 DEF Types, FreeSlots
<1> QED  BY <1>1, <1>2 DEF Slots, FreeSlots

\* A process the scheduler knows is the one ps shows.
LEMMA PsKnown ==
    ASSUME IInv, NEW p \in scheduled
    PROVE  ps[proc[p].pid] = p /\ proc[p].pid \in Pid /\ p \in Pcb /\ p # NULL
<1>1. TableAgrees /\ p \in Pcb /\ proc[p] \in Record /\ NULL \notin Pcb
    BY IInvTableAgrees, PidFacts DEF IInv, Types
<1> QED  BY <1>1, RecordFields DEF TableAgrees

\* In a steady step the sets shrink.
LEMMA SteadySets ==
    ASSUME Types, Types', Steady, NEW c \in Pid
    PROVE  /\ Waiting(c)' \subseteq Waiting(c) /\ Coming(c)' \subseteq Coming(c)
           /\ Cardinality(Waiting(c)') <= Cardinality(Waiting(c))
           /\ Cardinality(Coming(c)') <= Cardinality(Coming(c))
<1>1. Waiting(c)' \subseteq Waiting(c) /\ Coming(c)' \subseteq Coming(c)
    BY DEF Steady, Waiting
<1>2. IsFiniteSet(Waiting(c)) /\ IsFiniteSet(Coming(c))
    BY WaitTypes
<1> QED  BY <1>1, <1>2, FS_Subset

\* Steps that leave the semaphores alone keep the invariant.
LEMMA QuietWaits ==
    ASSUME IInv, IInv', WInv, QuietView
    PROVE  WInv'
<1>1. Types /\ Types' /\ Slots /\ Steady
    BY DEF IInv, QuietView
<1>2. \A c \in Pid : /\ Tokens(c)' = Tokens(c) /\ Line(c)' = Line(c)
                     /\ Users(c)' = 0 <=> Users(c) = 0
                     /\ Users(c)' = Users(c) \/ Cardinality(Waiting(c)') < Users(c)'
                     /\ \A x : InLine(x, c)' <=> InLine(x, c)
    BY DEF QuietView, InLine
<1>3. Opened'
  <2> SUFFICES ASSUME NEW c \in Pid
               PROVE  IF Users(c)' = 0
                      THEN Waiting(c)' = {} /\ Coming(c)' = {} /\ Tokens(c)' = 0 /\ Line(c)' = <<>>
                      ELSE Cardinality(Waiting(c)') < Users(c)'
      BY DEF Opened
  <2>1. /\ Waiting(c)' \subseteq Waiting(c) /\ Coming(c)' \subseteq Coming(c)
        /\ Cardinality(Waiting(c)') <= Cardinality(Waiting(c))
      BY <1>1, SteadySets
  <2>2. Cardinality(Waiting(c)) \in Nat /\ Cardinality(Waiting(c)') \in Nat /\ Users(c) \in Nat
      BY <1>1, WaitTypes, WaitTypesNext
  <2>3. IF Users(c) = 0
        THEN Waiting(c) = {} /\ Coming(c) = {} /\ Tokens(c) = 0 /\ Line(c) = <<>>
        ELSE Cardinality(Waiting(c)) < Users(c)
      BY DEF WInv, Opened
  <2>4. CASE Users(c) = 0
      BY <1>2, <2>1, <2>3, <2>4
  <2>5. CASE Users(c) # 0
      BY <1>2, <2>1, <2>2, <2>3, <2>5
  <2> QED  BY <2>4, <2>5
<1>4. Named'
  <2> SUFFICES ASSUME NEW q \in Pcb, Enrolled(q)'
               PROVE  Users(proc[q].pid)' # 0
      BY DEF Named
  <2>1. Enrolled(q) /\ proc'[q].pid = proc[q].pid /\ proc[q].pid \in Pid
      BY <1>1, RecordFields DEF Steady, Types
  <2>2. PICK c : c = proc[q].pid
      OBVIOUS
  <2>3. Users(c)' # 0
      BY <1>2, <2>1, <2>2 DEF WInv, Named
  <2> QED  BY <2>1, <2>2, <2>3 DEF Users
<1>5. Lined'
  <2> SUFFICES ASSUME NEW p \in Pcb, pc'[p] = "waiting", proc'[p].pid \in asleep'
               PROVE  InLine(proc[p].pid, arg[p])'
      BY DEF Lined
  <2>1. PICK x, c : x = proc[p].pid /\ c = arg[p]
      OBVIOUS
  <2>2. pc[p] = "waiting" /\ arg'[p] = c /\ proc'[p].pid = x
      BY <1>1, <2>1 DEF Steady
  <2>3. c \in Pid /\ x \in asleep
      BY <1>1, <2>1, <2>2 DEF Types, Places, Names, QuietView
  <2>4. InLine(x, c)'
      BY <1>2, <2>1, <2>2, <2>3 DEF WInv, Lined
  <2> QED  BY <2>2, <2>4 DEF InLine, Line
<1>6. Fresh'
  <2> SUFFICES ASSUME NEW x \in Pid \ reused, NEW d \in Pid, InLine(x, d)
               PROVE  AloneInLine(x, d)'
      BY <1>1, <1>2 DEF Fresh, Steady
  <2>1. AloneInLine(x, d)
      BY DEF WInv, Fresh
  <2>2. ASSUME ps'[x] # NULL
        PROVE  pc'[ps'[x]] = "waiting" /\ arg'[ps'[x]] = d /\ x \in asleep'
    <3>1. PICK q : q = ps[x]
        OBVIOUS
    <3>2. ps'[x] = q /\ q # NULL
        BY <1>1, <2>2, <3>1 DEF Steady
    <3>3. q \in Pcb /\ proc[q].pid = x
        BY <1>1, <3>1, <3>2, PsFacts
    <3>4. pc[q] = "waiting" /\ arg[q] = d /\ x \in asleep
        BY <2>1, <3>1, <3>2 DEF AloneInLine
    <3>5. pc'[q] = "waiting" /\ arg'[q] = d
        BY <1>1, <2>2, <3>1, <3>4 DEF Steady
    <3>6. x \in asleep'
        BY <3>3, <3>4, <3>5 DEF QuietView
    <3> QED  BY <3>2, <3>5, <3>6
  <2>3. Users(x)' # 0 /\ \A i, j \in 1..Len(Line(d)') : Line(d)'[i] = x /\ Line(d)'[j] = x => i = j
      BY <1>2, <2>1 DEF AloneInLine
  <2> QED  BY <2>2, <2>3 DEF AloneInLine
<1>7. First'
    BY <1>1, <1>2 DEF WInv, First, Steady, QuietView
<1>8. Ended'
  <2> SUFFICES ASSUME NEW p \in Pcb, pc'[p] = "waiting", proc'[p].pid \notin asleep',
                      arg'[p] \notin reused', proc'[p].pid \notin reused'
               PROVE  ~Pending(arg[p])'
      BY DEF Ended
  <2>1. /\ pc[p] = "waiting" /\ arg'[p] = arg[p] /\ proc'[p].pid = proc[p].pid /\ reused' = reused
        /\ proc[p].pid \notin asleep
      BY <1>1 DEF Steady, QuietView
  <2>2. arg[p] \in Pid /\ ~Pending(arg[p])
      BY <1>1, <2>1 DEF Types, Places, Names, WInv, Ended
  <2>3. PICK c : c = arg[p]
      OBVIOUS
  <2>4. ~Pending(c)'
      BY <2>2, <2>3 DEF QuietView
  <2> QED  BY <2>1, <2>3, <2>4, PendingSame
<1> QED  BY <1>3, <1>4, <1>5, <1>6, <1>7, <1>8 DEF WInv

\* ... and there are enough tokens.
LEMMA QuietEnough ==
    ASSUME IInv, IInv', Enough, QuietView
    PROVE  Enough'
<1> SUFFICES ASSUME NEW c \in Pid
             PROVE  /\ Line(c)' # <<>> => Tokens(c)' = 0
                    /\ Len(Line(c)') + Cardinality(Coming(c)') <= Tokens(c)' + Due(c)'
    BY DEF Enough
<1>1. Types /\ Types' /\ Steady
    BY DEF IInv, QuietView
<1>2. Line(c)' = Line(c) /\ Tokens(c)' = Tokens(c) /\ Due(c)' = Due(c)
    BY DEF QuietView, Due
<1>3. Cardinality(Coming(c)') <= Cardinality(Coming(c))
    BY <1>1, SteadySets
<1>4. /\ Cardinality(Coming(c)') \in Nat /\ Cardinality(Coming(c)) \in Nat
      /\ Tokens(c) \in Nat /\ Len(Line(c)) \in Nat /\ Due(c) \in Nat
    BY <1>1, WaitTypes, WaitTypesNext DEF Due
<1>5. /\ Line(c) # <<>> => Tokens(c) = 0
      /\ Len(Line(c)) + Cardinality(Coming(c)) <= Tokens(c) + Due(c)
    BY DEF Enough
<1> QED  BY <1>2, <1>3, <1>4, <1>5

\* The post at the end of a process: a token, or the first in line awakes.
LEMMA ExitPosts ==
    ASSUME Types, NEW d \in Pid, SetSems(PostExit(d)),
           Users(d) = 0 => Tokens(d) = 0 /\ Line(d) = <<>>
    PROVE  /\ \A c \in Pid \ {d} : sems'[c] = sems[c]
           /\ Users(d)' = Users(d)
           /\ Line(d) = <<>> => /\ Line(d)' = <<>> /\ asleep' = asleep
                                /\ Users(d) = 0 => Tokens(d)' = 0
                                /\ Users(d) # 0 => Tokens(d)' = (Tokens(d) + 1) % (UINT16_MAX + 1)
           /\ Line(d) # <<>> => /\ Line(d)' = Tail(Line(d)) /\ asleep' = asleep \ {Head(Line(d))}
                                /\ Tokens(d)' = Tokens(d)
<1>1. Sems \in Registry /\ Sems.sems = sems /\ Sems.asleep = asleep
    BY SemsFacts DEF Sems
<1>2. PICK k1 : k1 = semOpen(Sems, d, 0)
    OBVIOUS
<1>3. PICK k2 : k2 = semPost(k1, d)
    OBVIOUS
<1>4. PICK k3 : k3 = semClose(k2, d)
    OBVIOUS
<1>5. sems' = k3.sems /\ asleep' = k3.asleep
    BY <1>2, <1>3, <1>4 DEF SetSems, PostExit
<1>6. /\ Users(d) \in Nat /\ Tokens(d) \in 0..UINT16_MAX /\ Line(d) \in Seq(Pid) /\ UINT16_MAX \in Nat
    BY WaitTypes
<1>7. PICK u, v, s : u = Users(d) /\ v = Tokens(d) /\ s = Line(d)
    OBVIOUS
<1>8. /\ k1 \in Registry /\ k1.asleep = asleep
      /\ \A m \in Pid \ {d} : k1.sems[m] = sems[m]
      /\ Has(k1.sems[d], u + 1, v, s)
  <2>1. PICK e : e = Sems.sems[d]
      OBVIOUS
  <2>2. /\ k1 \in Registry /\ k1.asleep = Sems.asleep
        /\ \A m \in Pid \ {d} : k1.sems[m] = Sems.sems[m]
        /\ e.users > 0 => Has(k1.sems[d], e.users + 1, e.value, e.blockedProcesses)
        /\ ~(e.users > 0) => Has(k1.sems[d], 1, 0, <<>>)
      BY <1>1, <1>2, <2>1, OpenEffect
  <2>3. e.users = u /\ e.value = v /\ e.blockedProcesses = s
      BY <1>1, <1>7, <2>1 DEF Users, Tokens, Line
  <2>4. ~(u > 0) => u = 0 /\ u + 1 = 1 /\ v = 0 /\ s = <<>>
      BY <1>6, <1>7
  <2>5. Has(k1.sems[d], u + 1, v, s)
      BY <2>2, <2>3, <2>4
  <2> QED  BY <1>1, <2>2, <2>5
<1>9. PICK e1 : e1 = k1.sems[d]
    OBVIOUS
<1>10. /\ e1.users = u + 1 /\ e1.value = v /\ e1.blockedProcesses = s /\ u + 1 > 0 /\ u \in Nat
    BY <1>6, <1>7, <1>8, <1>9 DEF Has
<1>11. /\ k2 \in Registry
       /\ \A m \in Pid \ {d} : k2.sems[m] = k1.sems[m]
       /\ s = <<>> => Has(k2.sems[d], u + 1, (v + 1) % (UINT16_MAX + 1), s) /\ k2.asleep = k1.asleep
       /\ s # <<>> => Has(k2.sems[d], u + 1, v, Tail(s)) /\ k2.asleep = k1.asleep \ {Head(s)}
  <2>1. /\ k2 \in Registry
        /\ \A m \in Pid \ {d} : k2.sems[m] = k1.sems[m]
        /\ e1.blockedProcesses = <<>> =>
             /\ Has(k2.sems[d], e1.users, (e1.value + 1) % (UINT16_MAX + 1), e1.blockedProcesses)
             /\ k2.asleep = k1.asleep
        /\ e1.blockedProcesses # <<>> =>
             /\ Has(k2.sems[d], e1.users, e1.value, Tail(e1.blockedProcesses))
             /\ k2.asleep = k1.asleep \ {Head(e1.blockedProcesses)}
    <3>1. e1.users > 0
        BY <1>10
    <3> QED  BY <1>3, <1>8, <1>9, <3>1, PostEffect
  <2> QED  BY <1>10, <2>1
<1>12. PICK e2 : e2 = k2.sems[d]
    OBVIOUS
<1>13. /\ e2.users = u + 1
       /\ s = <<>> => e2.value = (v + 1) % (UINT16_MAX + 1) /\ e2.blockedProcesses = s
       /\ s # <<>> => e2.value = v /\ e2.blockedProcesses = Tail(s)
    BY <1>11, <1>12 DEF Has
<1>14. /\ k3.asleep = k2.asleep
       /\ \A m \in Pid \ {d} : k3.sems[m] = k2.sems[m]
       /\ u # 0 => Has(k3.sems[d], u, e2.value, e2.blockedProcesses)
       /\ u = 0 => Has(k3.sems[d], 0, 0, <<>>)
  <2>1. e2.users > 0 /\ (u # 0 => e2.users # 1) /\ (u = 0 => e2.users = 1) /\ e2.users - 1 = u
      BY <1>10, <1>13
  <2>2. /\ k3.asleep = k2.asleep
        /\ \A m \in Pid \ {d} : k3.sems[m] = k2.sems[m]
        /\ e2.users # 1 => Has(k3.sems[d], e2.users - 1, e2.value, e2.blockedProcesses)
        /\ e2.users = 1 => Has(k3.sems[d], 0, 0, <<>>)
      BY <1>4, <1>11, <1>12, <2>1, CloseEffect
  <2> QED  BY <2>1, <2>2
<1>15. \A c \in Pid \ {d} : sems'[c] = sems[c]
    BY <1>5, <1>8, <1>11, <1>14
<1>16. CASE u = 0
  <2>1. v = 0 /\ s = <<>>
      BY <1>7, <1>16
  <2>2. Users(d)' = 0 /\ Tokens(d)' = 0 /\ Line(d)' = <<>>
      BY <1>5, <1>14, <1>16 DEF Has, Users, Tokens, Line
  <2>3. asleep' = asleep
      BY <1>5, <1>8, <1>11, <1>14, <2>1
  <2> QED  BY <1>7, <1>15, <1>16, <2>1, <2>2, <2>3
<1>17. CASE u # 0
  <2>1. Users(d)' = u /\ Tokens(d)' = e2.value /\ Line(d)' = e2.blockedProcesses
      BY <1>5, <1>14, <1>17 DEF Has, Users, Tokens, Line
  <2>2. s = <<>> => asleep' = asleep
      BY <1>5, <1>8, <1>11, <1>14
  <2>3. s # <<>> => asleep' = asleep \ {Head(s)}
      BY <1>5, <1>8, <1>11, <1>14
  <2> QED  BY <1>7, <1>13, <1>15, <1>17, <2>1, <2>2, <2>3
<1> QED  BY <1>16, <1>17

\* The line a post leaves behind.
LEMMA TailLine ==
    ASSUME NEW s \in Seq(Pid), s # <<>>
    PROVE  /\ Len(Tail(s)) = Len(s) - 1 /\ Len(s) \in Nat /\ Len(s) >= 1 /\ Head(s) = s[1] /\ Head(s) \in Pid
           /\ \A i \in 1..Len(Tail(s)) : i + 1 \in 1..Len(s) /\ Tail(s)[i] = s[i + 1]
           /\ \A i \in 1..Len(s) : i # 1 => i - 1 \in 1..Len(Tail(s)) /\ Tail(s)[i - 1] = s[i]
    OBVIOUS

\* A post keeps the invariant.
LEMMA PostWaits ==
    ASSUME IInv, IInv', WInv, NEW d \in Pid, PostView(d)
    PROVE  WInv'
<1>1. Types /\ Types' /\ Slots /\ Known /\ Steady
    BY DEF IInv, PostView
<1>2. /\ \A c \in Pid \ {d} : sems'[c] = sems[c]
      /\ Users(d)' = Users(d)
      /\ Line(d) = <<>> => /\ Line(d)' = <<>> /\ asleep' = asleep
                           /\ Users(d) = 0 => Tokens(d)' = 0
      /\ Line(d) # <<>> => /\ Line(d)' = Tail(Line(d)) /\ asleep' = asleep \ {Head(Line(d))}
                           /\ Tokens(d)' = Tokens(d)
  <2>1. Users(d) = 0 => Tokens(d) = 0 /\ Line(d) = <<>>
      BY DEF WInv, Opened
  <2> QED  BY <1>1, <2>1, ExitPosts DEF PostView
<1>3. \A c \in Pid \ {d} : /\ Users(c)' = Users(c) /\ Tokens(c)' = Tokens(c) /\ Line(c)' = Line(c)
                           /\ \A x : InLine(x, c)' <=> InLine(x, c)
    BY <1>2 DEF Users, Tokens, Line, InLine
<1>4. \A c \in Pid : Users(c)' = Users(c)
    BY <1>2, <1>3
<1>5. PICK s : s = Line(d)
    OBVIOUS
<1>6. s \in Seq(Pid)
    BY <1>1, <1>5, WaitTypes
<1>7. \A x : InLine(x, d) <=> \E i \in 1..Len(s) : s[i] = x
    BY <1>5 DEF InLine
<1>8. s = <<>> => \A x : ~InLine(x, d)'
    BY <1>2, <1>5 DEF InLine
<1>9. s # <<>> => \A x : InLine(x, d)' <=> \E i \in 1..Len(Tail(s)) : Tail(s)[i] = x
    BY <1>2, <1>5 DEF InLine
<1>10. \A x, c : c \in Pid /\ InLine(x, c)' => InLine(x, c)
    BY <1>3, <1>6, <1>7, <1>8, <1>9, TailLine
<1>11. \A x \in asleep : x \notin asleep' => s # <<>> /\ x = Head(s)
    BY <1>2, <1>5
<1>12. asleep' \subseteq asleep
    BY <1>2
<1>13. Opened'
  <2> SUFFICES ASSUME NEW c \in Pid
               PROVE  IF Users(c)' = 0
                      THEN Waiting(c)' = {} /\ Coming(c)' = {} /\ Tokens(c)' = 0 /\ Line(c)' = <<>>
                      ELSE Cardinality(Waiting(c)') < Users(c)'
      BY DEF Opened
  <2>1. /\ Waiting(c)' \subseteq Waiting(c) /\ Coming(c)' \subseteq Coming(c)
        /\ Cardinality(Waiting(c)') <= Cardinality(Waiting(c))
      BY <1>1, SteadySets
  <2>2. Cardinality(Waiting(c)) \in Nat /\ Cardinality(Waiting(c)') \in Nat /\ Users(c) \in Nat
      BY <1>1, WaitTypes, WaitTypesNext
  <2>3. IF Users(c) = 0
        THEN Waiting(c) = {} /\ Coming(c) = {} /\ Tokens(c) = 0 /\ Line(c) = <<>>
        ELSE Cardinality(Waiting(c)) < Users(c)
      BY DEF WInv, Opened
  <2>4. CASE Users(c) = 0
    <3>1. Tokens(c)' = 0 /\ Line(c)' = <<>>
        BY <1>2, <1>3, <2>3, <2>4
    <3> QED  BY <1>4, <2>1, <2>3, <2>4, <3>1
  <2>5. CASE Users(c) # 0
      BY <1>4, <2>1, <2>2, <2>3, <2>5
  <2> QED  BY <2>4, <2>5
<1>14. Named'
  <2> SUFFICES ASSUME NEW q \in Pcb, Enrolled(q)'
               PROVE  Users(proc[q].pid)' # 0
      BY DEF Named
  <2>1. Enrolled(q) /\ proc'[q].pid = proc[q].pid /\ proc[q].pid \in Pid
      BY <1>1, RecordFields DEF Steady, Types
  <2>2. PICK c : c = proc[q].pid
      OBVIOUS
  <2>3. Users(c)' # 0
      BY <1>4, <2>1, <2>2 DEF WInv, Named
  <2> QED  BY <2>1, <2>2, <2>3 DEF Users
<1>15. Lined'
  <2> SUFFICES ASSUME NEW p \in Pcb, pc'[p] = "waiting", proc'[p].pid \in asleep'
               PROVE  InLine(proc[p].pid, arg[p])'
      BY DEF Lined
  <2>1. PICK x, c : x = proc[p].pid /\ c = arg[p]
      OBVIOUS
  <2>2. pc[p] = "waiting" /\ arg'[p] = c /\ proc'[p].pid = x
      BY <1>1, <2>1 DEF Steady
  <2>3. c \in Pid /\ x \in asleep /\ x \in asleep'
      BY <1>1, <1>12, <2>1, <2>2 DEF Types, Places, Names
  <2>4. InLine(x, c)
      BY <2>1, <2>2, <2>3 DEF WInv, Lined
  <2>5. InLine(x, c)'
    <3>1. CASE c # d
        BY <1>3, <2>3, <2>4, <3>1
    <3>2. CASE c = d
      <4>1. PICK i \in 1..Len(s) : s[i] = x
          BY <1>7, <2>4, <3>2
      <4>2. s # <<>> /\ x # Head(s)
        <5>1. s # <<>>
            BY <4>1
        <5> QED  BY <1>2, <1>5, <2>3, <5>1
      <4>3. i # 1
          BY <1>6, <4>1, <4>2, TailLine
      <4>4. i - 1 \in 1..Len(Tail(s)) /\ Tail(s)[i - 1] = x
          BY <1>6, <4>1, <4>2, <4>3, TailLine
      <4> QED  BY <1>9, <3>2, <4>2, <4>4
    <3> QED  BY <3>1, <3>2
  <2> QED  BY <2>2, <2>5 DEF InLine, Line
<1>16. \A x \in Pid \ reused : InLine(x, d) => AloneInLine(x, d)
    BY DEF WInv, Fresh
<1>17. Fresh'
  <2> SUFFICES ASSUME NEW x \in Pid \ reused, NEW e \in Pid, InLine(x, e)'
               PROVE  AloneInLine(x, e)'
      BY <1>1 DEF Fresh, Steady
  <2>1. AloneInLine(x, e) /\ InLine(x, e)
      BY <1>10 DEF WInv, Fresh
  <2>2. ASSUME e = d PROVE s # <<>> /\ x # Head(s)
    <3>1. s # <<>>
        BY <1>8, <2>2
    <3>2. PICK i \in 1..Len(Tail(s)) : Tail(s)[i] = x
        BY <1>9, <2>2, <3>1
    <3>3. i + 1 \in 1..Len(s) /\ s[i + 1] = x /\ 1 \in 1..Len(s) /\ i + 1 # 1 /\ Head(s) = s[1]
      <4>1. Len(s) \in Nat /\ Len(s) >= 1 /\ Head(s) = s[1] /\ i + 1 \in 1..Len(s) /\ s[i + 1] = x
          BY <1>6, <3>1, <3>2, TailLine
      <4>2. i \in Nat /\ i >= 1
          BY <1>6, <3>1, <3>2, TailLine
      <4> QED  BY <4>1, <4>2
    <3>4. \A i1, j \in 1..Len(s) : s[i1] = x /\ s[j] = x => i1 = j
        BY <1>5, <2>1, <2>2 DEF AloneInLine
    <3> QED  BY <3>1, <3>3, <3>4
  <2>3. ASSUME ps'[x] # NULL
        PROVE  pc'[ps'[x]] = "waiting" /\ arg'[ps'[x]] = e /\ x \in asleep'
    <3>1. PICK q : q = ps[x]
        OBVIOUS
    <3>2. ps'[x] = q /\ q # NULL
        BY <1>1, <2>3, <3>1 DEF Steady
    <3>4. pc[q] = "waiting" /\ arg[q] = e /\ x \in asleep
        BY <2>1, <3>1, <3>2 DEF AloneInLine
    <3>5. pc'[q] = "waiting" /\ arg'[q] = e
        BY <1>1, <2>3, <3>1, <3>4 DEF Steady
    <3>6. x \in asleep'
      <4> SUFFICES ASSUME x \notin asleep' PROVE FALSE
          OBVIOUS
      <4>1. s # <<>> /\ x = Head(s)
          BY <1>11, <3>4
      <4>2. InLine(x, d)
        <5>1. 1 \in 1..Len(s) /\ s[1] = x
            BY <1>6, <4>1, TailLine
        <5> QED  BY <1>7, <5>1
      <4>3. AloneInLine(x, d)
          BY <1>16, <4>2
      <4>4. arg[q] = d
          BY <3>1, <3>2, <4>3 DEF AloneInLine
      <4> QED  BY <2>2, <3>4, <4>1, <4>4
    <3> QED  BY <3>2, <3>5, <3>6
  <2>4. Users(x)' # 0
      BY <1>4, <2>1 DEF AloneInLine
  <2>5. \A i, j \in 1..Len(Line(e)') : Line(e)'[i] = x /\ Line(e)'[j] = x => i = j
    <3>1. CASE e # d
        BY <1>3, <2>1, <3>1 DEF AloneInLine
    <3>2. CASE e = d
      <4>1. s # <<>> /\ Line(e)' = Tail(s)
          BY <1>2, <1>5, <2>2, <3>2
      <4>2. \A i, j \in 1..Len(s) : s[i] = x /\ s[j] = x => i = j
          BY <1>5, <2>1, <3>2 DEF AloneInLine
      <4> SUFFICES ASSUME NEW i \in 1..Len(Tail(s)), NEW j \in 1..Len(Tail(s)),
                          Tail(s)[i] = x, Tail(s)[j] = x
                   PROVE  i = j
          BY <4>1
      <4>3. i + 1 \in 1..Len(s) /\ s[i + 1] = x /\ j + 1 \in 1..Len(s) /\ s[j + 1] = x
          BY <1>6, <4>1, TailLine
      <4>4. i + 1 = j + 1
          BY <4>2, <4>3
      <4>5. i \in Nat /\ j \in Nat
          BY <1>6, <4>1, TailLine
      <4> QED  BY <4>4, <4>5
    <3> QED  BY <3>1, <3>2
  <2> QED  BY <2>3, <2>4, <2>5 DEF AloneInLine
<1>18. First'
  <2> SUFFICES ASSUME NEW c \in Pid \ reused, Pending(c)'
               PROVE  Tokens(c)' = 0
      BY <1>1 DEF First, Steady
  <2>1. c # d /\ Pending(c)
      BY DEF PostView
  <2> QED  BY <1>3, <2>1 DEF WInv, First
<1>19. Ended'
  <2> SUFFICES ASSUME NEW p \in Pcb, pc'[p] = "waiting", proc'[p].pid \notin asleep',
                      arg'[p] \notin reused', proc'[p].pid \notin reused'
               PROVE  ~Pending(arg[p])'
      BY DEF Ended
  <2>1. PICK x, c : x = proc[p].pid /\ c = arg[p]
      OBVIOUS
  <2>2. pc[p] = "waiting" /\ arg'[p] = c /\ proc'[p].pid = x /\ c \notin reused /\ x \notin reused
      BY <1>1, <2>1 DEF Steady
  <2>3. c \in Pid /\ x \notin asleep'
      BY <1>1, <2>1, <2>2 DEF Types, Places, Names
  <2>4. ~Pending(c)'
    <3>1. CASE c = d
        BY <3>1 DEF PostView
    <3>2. CASE c # d /\ x \notin asleep
        BY <2>1, <2>2, <2>3, <3>2 DEF WInv, Ended, PostView
    <3>3. CASE c # d /\ x \in asleep
      <4>1. s # <<>> /\ x = Head(s) /\ x \in Pid
          BY <1>6, <1>11, <2>3, <3>3, TailLine
      <4>2. InLine(x, d)
        <5>1. 1 \in 1..Len(s) /\ s[1] = x
            BY <1>6, <4>1, TailLine
        <5> QED  BY <1>7, <5>1
      <4>3. AloneInLine(x, d)
          BY <1>16, <2>2, <4>1, <4>2
      <4>4. p \in scheduled
          BY <1>1, <2>2 DEF Known
      <4>5. ps[x] = p /\ p # NULL
          BY <2>1, <4>4, PsKnown
      <4>6. arg[p] = d
          BY <4>3, <4>5 DEF AloneInLine
      <4> QED  BY <2>1, <3>3, <4>6
    <3> QED  BY <3>1, <3>2, <3>3
  <2> QED  BY <2>2, <2>4, PendingSame
<1> QED  BY <1>13, <1>14, <1>15, <1>17, <1>18, <1>19 DEF WInv

\* ... and the token, unless it is lost in the counter, is the one that was due.
LEMMA PostEnough ==
    ASSUME IInv, IInv', WInv, Enough, NEW d \in Pid, PostView(d), Tokens(d) < UINT16_MAX
    PROVE  Enough'
<1> SUFFICES ASSUME NEW c \in Pid
             PROVE  /\ Line(c)' # <<>> => Tokens(c)' = 0
                    /\ Len(Line(c)') + Cardinality(Coming(c)') <= Tokens(c)' + Due(c)'
    BY DEF Enough
<1>1. Types /\ Types' /\ Steady
    BY DEF IInv, PostView
<1>2. /\ \A m \in Pid \ {d} : sems'[m] = sems[m]
      /\ Line(d) = <<>> => /\ Line(d)' = <<>>
                           /\ Users(d) = 0 => Tokens(d)' = 0
                           /\ Users(d) # 0 => Tokens(d)' = (Tokens(d) + 1) % (UINT16_MAX + 1)
      /\ Line(d) # <<>> => Line(d)' = Tail(Line(d)) /\ Tokens(d)' = Tokens(d)
  <2>1. Users(d) = 0 => Tokens(d) = 0 /\ Line(d) = <<>>
      BY DEF WInv, Opened
  <2> QED  BY <1>1, <2>1, ExitPosts DEF PostView
<1>3. Cardinality(Coming(c)') <= Cardinality(Coming(c)) /\ Coming(c)' \subseteq Coming(c)
    BY <1>1, SteadySets
<1>4. /\ Cardinality(Coming(c)') \in Nat /\ Cardinality(Coming(c)) \in Nat
      /\ Tokens(c) \in Nat /\ Line(c) \in Seq(Pid) /\ Due(c) \in {0, 1} /\ UINT16_MAX \in Nat
    BY <1>1, WaitTypes, WaitTypesNext DEF Due
<1>5. /\ Line(c) # <<>> => Tokens(c) = 0
      /\ Len(Line(c)) + Cardinality(Coming(c)) <= Tokens(c) + Due(c)
    BY DEF Enough
<1>6. CASE c # d
  <2>1. Line(c)' = Line(c) /\ Tokens(c)' = Tokens(c)
      BY <1>2, <1>6 DEF Line, Tokens
  <2>2. Due(c)' = Due(c)
      BY <1>6 DEF PostView, Due
  <2>3. Len(Line(c)) \in Nat
      BY <1>4
  <2> QED  BY <1>3, <1>4, <1>5, <2>1, <2>2, <2>3
<1>7. CASE c = d
  <2>1. Due(c)' = 0
      BY <1>7 DEF PostView, Due
  <2>2. CASE Line(d) = <<>> /\ Users(d) = 0
    <3>1. Coming(c) = {}
        BY <1>7, <2>2 DEF WInv, Opened
    <3>2. Cardinality(Coming(c)') = 0
        BY <1>3, <3>1, FS_EmptySet
    <3> QED  BY <1>2, <1>7, <2>1, <2>2, <3>2
  <2>3. CASE Line(d) = <<>> /\ Users(d) # 0
    <3>1. Tokens(c)' = Tokens(c) + 1
        BY <1>2, <1>4, <1>7, <2>3
    <3>2. Line(c)' = <<>> /\ Len(Line(c)) = 0
        BY <1>2, <1>7, <2>3
    <3> QED  BY <1>3, <1>4, <1>5, <2>1, <3>1, <3>2
  <2>4. CASE Line(d) # <<>>
    <3>1. Tokens(c) = 0 /\ Tokens(c)' = 0 /\ Line(c)' = Tail(Line(c))
        BY <1>2, <1>5, <1>7, <2>4
    <3>2. Len(Line(c)) >= 1 /\ Len(Line(c)) \in Nat /\ Len(Tail(Line(c))) = Len(Line(c)) - 1
        BY <1>4, <1>7, <2>4, TailLine
    <3> QED  BY <1>3, <1>4, <1>5, <2>1, <3>1, <3>2
  <2> QED  BY <2>2, <2>3, <2>4
<1> QED  BY <1>6, <1>7

-----------------------------------------------------------------------------
(* The steps.                                                              *)

\* A table that leads where it did, to processes in the state they were in.
LEMMA PsSame ==
    ASSUME process_table' = process_table,
           \A i \in Pid : process_table[i] # NULL =>
                proc'[process_table[i]].state = proc[process_table[i]].state
    PROVE  \A x \in Pid : ps'[x] = ps[x]
<1>1. \A x \in Pid : x \in FreeSlots' <=> x \in FreeSlots
    BY DEF FreeSlots
<1> QED  BY <1>1 DEF ps

\* Reaping does not change what ps shows.
LEMMA KeepsPs ==
    ASSUME Types, Keeps
    PROVE  \A x \in Pid : ps'[x] = ps[x]
<1> SUFFICES ASSUME NEW x \in Pid PROVE ps'[x] = ps[x]
    OBVIOUS
<1>1. CASE process_table'[x] = process_table[x]
  <2>1. CASE process_table[x] = NULL
      BY <1>1, <2>1 DEF ps, FreeSlots
  <2>2. CASE process_table[x] # NULL
    <3>1. PICK q \in Pcb : q = process_table[x]
        BY <2>2 DEF Types
    <3>2. proc'[q].state = "TERMINATED" <=> proc[q].state = "TERMINATED"
        BY <1>1, <2>2, <3>1 DEF Keeps
    <3>3. x \in FreeSlots' <=> x \in FreeSlots
        BY <1>1, <2>2, <3>1, <3>2 DEF FreeSlots
    <3> QED  BY <1>1, <3>3 DEF ps
  <2> QED  BY <2>1, <2>2
<1>2. CASE x \in Dead /\ process_table'[x] = NULL
    BY <1>2 DEF ps, FreeSlots, Dead
<1> QED  BY <1>1, <1>2 DEF Keeps

\* p takes a step in which nobody begins to wait or to be waited for.
SteadyStep(p) ==
    /\ Moves(p) /\ reused' = reused /\ proc[p].pid \notin asleep
    /\ \A q \in Pcb : q \in scheduled \cup Unborn => proc'[q].pid = proc[q].pid
    /\ \A x \in Pid : ps'[x] = ps[x]
    /\ pc'[p] # "waiting"
    /\ pc'[p] = "created" => pc[p] = "scheduled" /\ arg'[p] = proc[arg[p]].pid
    /\ pc'[p] \in {"inserted", "scheduled"} => pc[p] = "inserted" /\ arg'[p] = arg[p]
    /\ \A q \in scheduled' : q \in scheduled \/ (pc[p] = "inserted" /\ arg[p] = q)

\* Such a step is steady.
LEMMA Steadies ==
    ASSUME IInv, NEW p \in Pcb, SteadyStep(p)
    PROVE  Steady
<1>1. Types /\ Slots /\ Known
    BY DEF IInv
<1>2. \A r \in Pcb \ {p} : pc'[r] = pc[r] /\ arg'[r] = arg[r]
    BY DEF SteadyStep, Moves
<1>3. \A q \in scheduled \cup Unborn : q \in Pcb => proc'[q].pid = proc[q].pid
    BY DEF SteadyStep
<1>4. \A r \in Pcb : pc[r] \in {"inserted", "scheduled"} => arg[r] \in Pcb /\ arg[r] \in Unborn
    BY <1>1 DEF Types, Places, Names, Unborn
<1>5. \A r \in Pcb : pc[r] # "user" => r \in scheduled
    BY <1>1 DEF Known
<1>6. \A r \in Pcb : pc'[r] = "waiting" =>
         pc[r] = "waiting" /\ arg'[r] = arg[r] /\ proc'[r].pid = proc[r].pid
    BY <1>2, <1>3, <1>5 DEF SteadyStep
<1>7. ASSUME NEW c \in Pid, NEW r \in Coming(c)' PROVE r \in Coming(c)
  <2>1. /\ r \in Pcb
        /\ \/ pc'[r] = "created" /\ arg'[r] = c
           \/ pc'[r] \in {"inserted", "scheduled"} /\ proc'[arg'[r]].pid = c
      BY <1>7 DEF Coming
  <2>2. CASE r # p
    <3>1. pc'[r] = pc[r] /\ arg'[r] = arg[r]
        BY <1>2, <2>1, <2>2
    <3> QED  BY <1>3, <1>4, <2>1, <3>1 DEF Coming
  <2>3. CASE r = p /\ pc'[r] = "created"
    <3>1. pc[p] = "scheduled" /\ proc[arg[p]].pid = c
        BY <2>1, <2>3 DEF SteadyStep
    <3> QED  BY <2>1, <2>3, <3>1 DEF Coming
  <2>4. CASE r = p /\ pc'[r] \in {"inserted", "scheduled"}
    <3>1. pc[p] = "inserted" /\ arg'[p] = arg[p]
        BY <2>4 DEF SteadyStep
    <3>2. proc[arg[p]].pid = c
        BY <1>3, <1>4, <2>1, <2>4, <3>1
    <3> QED  BY <2>1, <2>4, <3>1, <3>2 DEF Coming
  <2> QED  BY <2>1, <2>2, <2>3, <2>4
<1>8. ASSUME NEW x \in Pid, ps'[x] # NULL
      PROVE  /\ ps'[x] = ps[x]
             /\ pc[ps[x]] = "waiting" /\ x \in asleep =>
                  pc'[ps[x]] = "waiting" /\ arg'[ps[x]] = arg[ps[x]]
  <2>1. ps'[x] = ps[x] /\ ps[x] # NULL
      BY <1>8 DEF SteadyStep
  <2>2. PICK q : q = ps[x]
      OBVIOUS
  <2>3. q \in Pcb /\ proc[q].pid = x
      BY <1>1, <2>1, <2>2, PsFacts
  <2>4. x \in asleep => q # p
      BY <2>3 DEF SteadyStep
  <2> QED  BY <1>2, <2>1, <2>2, <2>3, <2>4
<1>9. ASSUME NEW q \in Pcb, Enrolled(q)' PROVE Enrolled(q) /\ proc'[q].pid = proc[q].pid
  <2>1. Enrolled(q)
    <3>1. CASE q \in scheduled'
        BY <3>1 DEF SteadyStep, Enrolled
    <3>2. CASE \E r \in Pcb : pc'[r] = "inserted" /\ arg'[r] = q
      <4>1. PICK r \in Pcb : pc'[r] = "inserted" /\ arg'[r] = q
          BY <3>2
      <4>2. pc[r] = "inserted" /\ arg[r] = q
          BY <1>2, <4>1 DEF SteadyStep
      <4> QED  BY <4>2 DEF Enrolled
    <3> QED  BY <1>9, <3>1, <3>2 DEF Enrolled
  <2>2. q \in scheduled \cup Unborn
      BY <2>1 DEF Enrolled, Unborn
  <2> QED  BY <1>3, <2>1, <2>2
<1>10. \A c \in Pid : Coming(c)' \subseteq Coming(c)
    BY <1>7
<1>11. reused' = reused
    BY DEF SteadyStep
<1> QED  BY <1>6, <1>8, <1>9, <1>10, <1>11 DEF Steady

\* Neither before nor after it has p posted or is it killing.
Idles(p) == {pc[p], pc'[p]} \cap {"posted", "killing", "killing_cli"} = {}

\* Then nothing is posted in between.
LEMMA PostedSame ==
    ASSUME NEW p \in Pcb, Moves(p), Idles(p)
    PROVE  \A q \in Pcb : Posted(q)' <=> Posted(q)
<1>1. \A r \in Pcb : /\ pc'[r] = "posted" <=> pc[r] = "posted"
                     /\ pc'[r] \in {"killing", "killing_cli"} <=> pc[r] \in {"killing", "killing_cli"}
                     /\ pc[r] \in {"killing", "killing_cli"} => arg'[r] = arg[r]
    BY DEF Moves, Idles
<1> QED  BY <1>1 DEF Posted

\* ... and who is pending stays so.
LEMMA PendingStays ==
    ASSUME IInv, NEW p \in Pcb, Idles(p), Moves(p), \A x \in Pid : ps'[x] = ps[x]
    PROVE  \A c \in Pid : Pending(c)' <=> Pending(c)
<1> SUFFICES ASSUME NEW c \in Pid PROVE Pending(c)' <=> Pending(c)
    OBVIOUS
<1>1. CASE ps[c] = NULL
    BY <1>1 DEF Pending
<1>2. CASE ps[c] # NULL
  <2>1. PICK q : q = ps[c] /\ q = ps'[c]
      OBVIOUS
  <2>2. q \in Pcb
      BY <1>2, <2>1, PsFacts DEF IInv
  <2>3. Posted(q)' <=> Posted(q)
      BY <2>2, PostedSame
  <2>4. Pending(c) <=> ~Posted(q)
      BY <1>2, <2>1 DEF Pending
  <2>5. Pending(c)' <=> ~Posted(q)'
      BY <1>2, <2>1 DEF Pending, Posted
  <2> QED  BY <2>3, <2>4, <2>5
<1> QED  BY <1>1, <1>2

\* A steady step with the semaphores and the sleepers as they were.
LEMMA QuietWhenSame ==
    ASSUME IInv, NEW p \in Pcb, SteadyStep(p), Idles(p), sems' = sems, asleep' = asleep
    PROVE  QuietView
<1>1. Steady
    BY Steadies
<1>2. \A c \in Pid : Pending(c)' <=> Pending(c)
    BY PendingStays DEF SteadyStep
<1>3. \A c \in Pid : Tokens(c)' = Tokens(c) /\ Line(c)' = Line(c) /\ Users(c)' = Users(c)
    BY DEF Tokens, Line, Users
<1> QED  BY <1>1, <1>2, <1>3 DEF QuietView

\* A quiet step of the table is steady here, if p does not go to wait.
LEMMA QuietIsSteady ==
    ASSUME IInv, NEW p \in Pcb, Runs(p), QuietStep(p), reused' = reused,
           pc'[p] \notin {"waiting", "scheduled"},
           pc'[p] = "created" => pc[p] = "scheduled" /\ arg'[p] = proc[arg[p]].pid
    PROVE  SteadyStep(p)
<1>1. Types
    BY DEF IInv
<1>2. \A x \in Pid : ps'[x] = ps[x]
    BY <1>1, KeepsPs DEF QuietStep
<1>3. pc'[p] # "inserted" /\ scheduled' = scheduled /\ Moves(p) /\ proc[p].pid \notin asleep
    BY DEF QuietStep, Holding, Runs
<1>4. \A q \in Pcb : proc'[q].pid = proc[q].pid
    BY DEF QuietStep, Keeps
<1> QED  BY <1>2, <1>3, <1>4 DEF SteadyStep

\* The start of create_process.
LEMMA WaitsPid ==
    ASSUME IInv, ~reckless', NEW p \in Pcb, Runs(p), pc[p] = "user",
           NEW g, NEW b, create_process_pid(p, g, b)
    PROVE  QuietView
<1>1. Types /\ Slots
    BY DEF IInv
<1>2. PICK q : q = mm_alloc
    OBVIOUS
<1>3. PICK r : r = [NoProcess EXCEPT !.pid = assign_pid, !.state = "NEW", !.foreground = b, !.program = g]
    OBVIOUS
<1>4. q \in Pcb /\ proc[q].state = "NONE"
    BY <1>1, <1>2, Allocation DEF create_process_pid, FreeMemory
<1>5. /\ proc' = [proc EXCEPT ![q] = r] /\ Goto(p, "assigned", q) /\ q \notin Unborn
      /\ UNCHANGED <<process_table, scheduled, sems, asleep, reused>>
    BY <1>2, <1>3 DEF create_process_pid, Rule
<1>6. \A x \in Pcb \ {q} : proc'[x] = proc[x]
    BY <1>1, <1>5 DEF Types
<1>7. q \notin scheduled
    BY <1>4 DEF IInv, Known
<1>8. Moves(p) /\ pc'[p] = "assigned"
  <2>1. "assigned" \in Label \ Names /\ q \in Pcb \cup Pid \cup {NULL}
      BY <1>4 DEF Label, Names
  <2> QED  BY <1>1, <1>4, <1>5, <2>1, GotoFacts
<1>9. \A x \in Pid : ps'[x] = ps[x]
  <2>1. ASSUME NEW i \in Pid, process_table[i] # NULL
        PROVE  proc'[process_table[i]].state = proc[process_table[i]].state
    <3>1. process_table[i] \in Pcb \ {q}
        BY <1>1, <1>4, <2>1 DEF Types, Slots
    <3> QED  BY <1>6, <3>1
  <2> QED  BY <1>5, <2>1, PsSame
<1>10. SteadyStep(p)
  <2>1. \A x \in Pcb : x \in scheduled \cup Unborn => proc'[x].pid = proc[x].pid
      BY <1>5, <1>6, <1>7
  <2>2. proc[p].pid \notin asleep
      BY DEF Runs
  <2> QED  BY <1>5, <1>8, <1>9, <2>1, <2>2 DEF SteadyStep
<1>11. Idles(p)
    BY <1>8 DEF Idles
<1> QED  BY <1>5, <1>10, <1>11, QuietWhenSame

\* The parent lists the child.
LEMMA WaitsLink ==
    ASSUME IInv, NEW p \in Pcb, create_process_link(p)
    PROVE  QuietView
<1>1. Types /\ Held
    BY DEF IInv
<1>2. PICK q : q = arg[p]
    OBVIOUS
<1>3. /\ Runs(p) /\ pc[p] = "assigned" /\ Goto(p, "linked", q)
      /\ UNCHANGED <<process_table, scheduled, sems, asleep, reused>>
    BY <1>2 DEF create_process_link
<1>4. /\ q \in Pcb /\ q # p /\ proc'[q].pid = proc[q].pid
      /\ \A x \in Pcb \ {q} : proc'[x].pid = proc[x].pid /\ proc'[x].state = proc[x].state
    BY <1>2, LinkFacts
<1>5. Moves(p) /\ pc'[p] = "linked"
  <2>1. "linked" \in Label \ Names /\ q \in Pcb \cup Pid \cup {NULL}
      BY <1>4 DEF Label, Names
  <2> QED  BY <1>1, <1>3, <1>4, <2>1, GotoFacts
<1>6. \A x \in Pid : ps'[x] = ps[x]
  <2>1. ASSUME NEW i \in Pid, process_table[i] # NULL
        PROVE  proc'[process_table[i]].state = proc[process_table[i]].state
    <3>1. process_table[i] \in Pcb \ {q}
        BY <1>1, <1>2, <1>3, <2>1 DEF Types, Held, Creating
    <3> QED  BY <1>4, <3>1
  <2> QED  BY <1>3, <2>1, PsSame
<1>7. \A x \in Pcb : proc'[x].pid = proc[x].pid
    BY <1>4
<1>8. SteadyStep(p)
  <2>1. proc[p].pid \notin asleep
      BY <1>3 DEF Runs
  <2> QED  BY <1>3, <1>5, <1>6, <1>7, <2>1 DEF SteadyStep
<1>9. Idles(p)
    BY <1>3, <1>5 DEF Idles
<1> QED  BY <1>3, <1>8, <1>9, QuietWhenSame

\* No memory for argv.
LEMMA WaitsFail ==
    ASSUME IInv, NEW p \in Pcb, create_process_fail(p)
    PROVE  QuietView
<1>1. Types /\ Held
    BY DEF IInv
<1>2. PICK q : q = arg[p]
    OBVIOUS
<1>3. PICK r : r = Freed(q)
    OBVIOUS
<1>4. /\ Runs(p) /\ pc[p] = "linked" /\ Goto(p, "user", NULL) /\ proc' = [proc EXCEPT ![q] = r]
      /\ UNCHANGED <<process_table, scheduled, sems, asleep, reused>>
    BY <1>2, <1>3 DEF create_process_fail
<1>5. q \in Pcb /\ proc \in [Pcb -> Record]
    BY <1>1, <1>2, <1>4 DEF Types, Places, Names
<1>6. r.pid = proc[q].pid
    BY <1>3, <1>5, FreedFields
<1>7. proc'[q].pid = proc[q].pid /\ \A x \in Pcb \ {q} : proc'[x] = proc[x]
    BY <1>4, <1>5, <1>6
<1>8. Moves(p) /\ pc'[p] = "user"
  <2>1. "user" \in Label /\ NULL \in Pcb \cup Pid \cup {NULL}
      BY DEF Label
  <2> QED  BY <1>1, <1>4, <2>1, GotoFacts
<1>9. \A x \in Pid : ps'[x] = ps[x]
  <2>1. ASSUME NEW i \in Pid, process_table[i] # NULL
        PROVE  proc'[process_table[i]].state = proc[process_table[i]].state
    <3>1. process_table[i] \in Pcb \ {q}
        BY <1>1, <1>2, <1>4, <2>1 DEF Types, Held, Creating
    <3> QED  BY <1>7, <3>1
  <2> QED  BY <1>4, <2>1, PsSame
<1>10. \A x \in Pcb : proc'[x].pid = proc[x].pid
    BY <1>7
<1>11. SteadyStep(p)
  <2>1. proc[p].pid \notin asleep
      BY <1>4 DEF Runs
  <2> QED  BY <1>4, <1>8, <1>9, <1>10, <2>1 DEF SteadyStep
<1>12. Idles(p)
    BY <1>4, <1>8 DEF Idles
<1> QED  BY <1>4, <1>11, <1>12, QuietWhenSame

\* The scheduler is told.
LEMMA WaitsSchedule ==
    ASSUME IInv, NEW p \in Pcb, Uninterrupted(p), create_process_schedule(p)
    PROVE  QuietView
<1>1. Types
    BY DEF IInv
<1>2. PICK q : q = arg[p]
    OBVIOUS
<1>3. /\ Runs(p) /\ pc[p] = "inserted" /\ Goto(p, "scheduled", q) /\ scheduled' = scheduled \cup {q}
      /\ UNCHANGED <<process_table, sems, asleep, reused>>
    BY <1>2 DEF create_process_schedule
<1>4. q \in Pcb /\ proc' = proc
    BY <1>1, <1>2, <1>3, CreateProcessSchedule DEF Types, Places, Names
<1>5. Moves(p) /\ pc'[p] = "scheduled" /\ arg'[p] = q
  <2>1. "scheduled" \in Label \ Names /\ q \in Pcb \cup Pid \cup {NULL}
      BY <1>4 DEF Label, Names
  <2> QED  BY <1>1, <1>3, <1>4, <2>1, GotoFacts
<1>6. \A x \in Pid : ps'[x] = ps[x]
    BY <1>3, <1>4, PsSame
<1>7. SteadyStep(p)
  <2>1. proc[p].pid \notin asleep
      BY <1>3 DEF Runs
  <2> QED  BY <1>2, <1>3, <1>4, <1>5, <1>6, <2>1 DEF SteadyStep
<1>8. Idles(p)
    BY <1>3, <1>5 DEF Idles
<1> QED  BY <1>3, <1>7, <1>8, QuietWhenSame

\* The end of create_process.
LEMMA WaitsReap ==
    ASSUME IInv, NEW p \in Pcb, create_process_reap(p)
    PROVE  QuietView
<1>1. Types /\ QuietStep(p) /\ Types'
    BY CreateProcessReap DEF IInv
<1>2. /\ Runs(p) /\ pc[p] = "scheduled"
      /\ UNCHANGED <<sems, asleep, reused>>
    BY DEF create_process_reap
<1>3. PICK l, v : /\ Goto(p, l, v) /\ l \in {"user", "assign", "created"}
                  /\ l = "created" => v = proc[arg[p]].pid
    BY DEF create_process_reap
<1>4. pc'[p] = l /\ arg'[p] = v
    BY <1>1, <1>3 DEF Types, Places, Goto
<1>5. SteadyStep(p)
    BY <1>1, <1>2, <1>3, <1>4, QuietIsSteady
<1>6. Idles(p)
    BY <1>2, <1>3, <1>4 DEF Idles
<1> QED  BY <1>2, <1>5, <1>6, QuietWhenSame

\* create_shell's assignment.
LEMMA WaitsShell ==
    ASSUME IInv, create_shell
    PROVE  QuietView
<1>1. Types /\ QuietStep(InitPcb) /\ InitPcb \in Pcb
    BY CreateShell, PidFacts DEF IInv
<1>2. /\ Runs(InitPcb) /\ pc[InitPcb] = "assign" /\ Goto(InitPcb, "user", NULL)
      /\ UNCHANGED <<sems, asleep, reused>>
    BY DEF create_shell
<1>3. pc'[InitPcb] = "user"
    BY <1>1, <1>2 DEF Types, Places, Goto
<1>4. SteadyStep(InitPcb)
    BY <1>1, <1>2, <1>3, QuietIsSteady
<1>5. Idles(InitPcb)
    BY <1>2, <1>3 DEF Idles
<1> QED  BY <1>1, <1>2, <1>4, <1>5, QuietWhenSame

\* init finds no room for a shell.
LEMMA WaitsNoShell ==
    ASSUME IInv, init_process_fail
    PROVE  QuietView
<1>1. Types /\ QuietStep(InitPcb) /\ InitPcb \in Pcb
    BY InitProcessFail, PidFacts DEF IInv
<1>2. /\ Runs(InitPcb) /\ pc[InitPcb] = "user" /\ UNCHANGED <<sems, asleep, reused, pc>>
    BY DEF init_process_fail
<1>3. SteadyStep(InitPcb)
    BY <1>1, <1>2, QuietIsSteady
<1>4. Idles(InitPcb)
    BY <1>2 DEF Idles
<1> QED  BY <1>1, <1>2, <1>3, <1>4, QuietWhenSame

\* The start of process_terminator.
LEMMA WaitsTerminator ==
    ASSUME IInv, NEW p \in Pcb, process_terminator(p)
    PROVE  QuietView
<1>1. Types /\ QuietStep(p)
    BY ProcessTerminator DEF IInv
<1>2. /\ Runs(p) /\ pc[p] = "user" /\ Goto(p, "reparented", p)
      /\ UNCHANGED <<sems, asleep, reused>>
    BY DEF process_terminator
<1>3. pc'[p] = "reparented"
    BY <1>1, <1>2 DEF Types, Places, Goto
<1>4. SteadyStep(p)
    BY <1>1, <1>2, <1>3, QuietIsSteady
<1>5. Idles(p)
    BY <1>2, <1>3 DEF Idles
<1> QED  BY <1>2, <1>4, <1>5, QuietWhenSame

\* A wait for a PID with no process returns at once.
LEMMA WaitsNobody ==
    ASSUME IInv, NEW p \in Pcb, wait_child(p), process_table[arg[p]] = NULL
    PROVE  QuietView
<1>1. Types /\ QuietStep(p)
    BY WaitChild DEF IInv
<1>2. /\ Runs(p) /\ pc[p] = "created" /\ Goto(p, "user", NULL)
      /\ UNCHANGED <<sems, asleep, reused>>
    BY DEF wait_child
<1>3. pc'[p] = "user"
    BY <1>1, <1>2 DEF Types, Places, Goto
<1>4. SteadyStep(p)
    BY <1>1, <1>2, <1>3, QuietIsSteady
<1>5. Idles(p)
    BY <1>2, <1>3 DEF Idles
<1> QED  BY <1>2, <1>4, <1>5, QuietWhenSame

\* The block command does not reach who is inside the kernel.
LEMMA WaitsBlock ==
    ASSUME IInv, ~reckless', NEW p \in Pcb, sys_block_process(p)
    PROVE  QuietView
<1>1. Types /\ QuietStep(p) /\ Slots
    BY SysBlock DEF IInv
<1>2. /\ Runs(p) /\ pc[p] = "user"
      /\ UNCHANGED <<process_table, proc, scheduled, sems, pc, arg, reused>>
    BY DEF sys_block_process
<1>3. SteadyStep(p)
    BY <1>1, <1>2, QuietIsSteady
<1>4. Idles(p)
    BY <1>2 DEF Idles
<1>5. Steady /\ \A c \in Pid : Pending(c)' <=> Pending(c)
    BY <1>3, <1>4, Steadies, PendingStays DEF SteadyStep
<1>6. \A c \in Pid : Tokens(c)' = Tokens(c) /\ Line(c)' = Line(c) /\ Users(c)' = Users(c)
    BY <1>2 DEF Tokens, Line, Users
<1>7. ASSUME NEW r \in Pcb, pc'[r] = "waiting" PROVE proc[r].pid \in asleep' <=> proc[r].pid \in asleep
  <2>1. PICK i \in Pid : /\ process_table[i] # NULL /\ pc[process_table[i]] = "user"
                         /\ asleep' = IF i \in asleep THEN asleep \ {i} ELSE asleep \cup {i}
      BY DEF sys_block_process, Rule
  <2>2. pc[r] = "waiting"
      BY <1>2, <1>7
  <2>3. process_table[proc[r].pid] = r
      BY <2>2 DEF IInv, Known, InTable
  <2>4. proc[r].pid # i
      BY <2>1, <2>2, <2>3
  <2> QED  BY <2>1, <2>4
<1> QED  BY <1>5, <1>6, <1>7 DEF QuietView

\* wait_child returns: one waiter and one user less.
LEMMA WaitsReturn ==
    ASSUME IInv, Types', WInv, NEW p \in Pcb, wait_child_return(p)
    PROVE  QuietView
<1>1. Types /\ QuietStep(p)
    BY WaitChildReturn DEF IInv
<1>2. PICK c : c = arg[p]
    OBVIOUS
<1>3. /\ Runs(p) /\ pc[p] = "waiting" /\ Goto(p, "user", NULL) /\ reused' = reused
      /\ SetSems(semClose(Sems, c))
    BY <1>2 DEF wait_child_return
<1>4. c \in Pid
    BY <1>1, <1>2, <1>3 DEF Types, Places, Names
<1>5. pc'[p] = "user"
    BY <1>1, <1>3 DEF Types, Places, Goto
<1>6. SteadyStep(p)
    BY <1>1, <1>3, <1>5, QuietIsSteady
<1>7. Idles(p)
    BY <1>3, <1>5 DEF Idles
<1>8. Steady /\ \A d \in Pid : Pending(d)' <=> Pending(d)
    BY <1>6, <1>7, Steadies, PendingStays DEF SteadyStep
<1>9. /\ p \in Waiting(c) /\ Waiting(c)' \subseteq Waiting(c) \ {p}
  <2>1. p \in Waiting(c)
      BY <1>2, <1>3 DEF Waiting
  <2>2. Waiting(c)' \subseteq Waiting(c)
      BY <1>4, <1>8 DEF Steady, Waiting
  <2>3. p \notin Waiting(c)'
      BY <1>5 DEF Waiting
  <2> QED  BY <2>1, <2>2, <2>3
<1>10. /\ IsFiniteSet(Waiting(c)) /\ Cardinality(Waiting(c)) \in Nat /\ Users(c) \in Nat
       /\ Cardinality(Waiting(c)') \in Nat
    BY <1>1, <1>4, WaitTypes, WaitTypesNext
<1>11. Cardinality(Waiting(c)') <= Cardinality(Waiting(c)) - 1
  <2>1. IsFiniteSet(Waiting(c) \ {p}) /\ Cardinality(Waiting(c) \ {p}) = Cardinality(Waiting(c)) - 1
      BY <1>9, <1>10, FS_RemoveElement
  <2>2. Cardinality(Waiting(c)') <= Cardinality(Waiting(c) \ {p})
      BY <1>9, <2>1, FS_Subset
  <2> QED  BY <2>1, <2>2
<1>12. Users(c) # 0 /\ Cardinality(Waiting(c)) < Users(c)
    BY <1>4, <1>9 DEF WInv, Opened
<1>13. Users(c) > 1
    BY <1>10, <1>11, <1>12
<1>14. /\ asleep' = asleep
       /\ \A m \in Pid \ {c} : sems'[m] = sems[m]
       /\ Users(c)' = Users(c) - 1 /\ Tokens(c)' = Tokens(c) /\ Line(c)' = Line(c)
  <2>1. Sems \in Registry /\ Sems.sems = sems /\ Sems.asleep = asleep
      BY <1>1, SemsFacts DEF Sems
  <2>2. PICK e, l : e = Sems.sems[c] /\ l = semClose(Sems, c)
      OBVIOUS
  <2>3. e.users = Users(c) /\ e.value = Tokens(c) /\ e.blockedProcesses = Line(c) /\ e.users > 0 /\ e.users # 1
      BY <1>10, <1>13, <2>1, <2>2 DEF Users, Tokens, Line
  <2>4. /\ l.asleep = Sems.asleep /\ \A m \in Pid \ {c} : l.sems[m] = Sems.sems[m]
        /\ Has(l.sems[c], e.users - 1, e.value, e.blockedProcesses)
      BY <1>4, <2>1, <2>2, <2>3, CloseEffect
  <2>5. sems' = l.sems /\ asleep' = l.asleep
      BY <1>3, <2>2 DEF SetSems
  <2> QED  BY <2>1, <2>3, <2>4, <2>5 DEF Has, Users, Tokens, Line
<1>15. ASSUME NEW d \in Pid
       PROVE  /\ Tokens(d)' = Tokens(d) /\ Line(d)' = Line(d)
              /\ Users(d)' = 0 <=> Users(d) = 0
              /\ Users(d)' = Users(d) \/ Cardinality(Waiting(d)') < Users(d)'
  <2>1. CASE d = c
    <3>1. Users(c)' # 0 /\ Cardinality(Waiting(c)') < Users(c)'
        BY <1>10, <1>11, <1>12, <1>13, <1>14
    <3> QED  BY <1>12, <1>14, <2>1, <3>1
  <2>2. CASE d # c
      BY <1>14, <2>2 DEF Users, Tokens, Line
  <2> QED  BY <2>1, <2>2
<1> QED  BY <1>8, <1>14, <1>15 DEF QuietView

\* The process q leaves, having posted: what waits for others is not touched.
LEMMA WaitsLeaves ==
    ASSUME IInv, NEW q \in Pcb, Leaves(q), InTable(q), Posted(q),
           \A r \in Pcb \ {q} : /\ Posted(r)' <=> Posted(r)
                                /\ pc[r] = "waiting" => pc'[r] = "waiting" /\ arg'[r] = arg[r],
           sems' = sems, reused' = reused, asleep' \in {asleep, asleep \ {proc[q].pid}}
    PROVE  QuietView
<1>1. Types /\ Slots /\ Known
    BY DEF IInv
<1>2. /\ scheduled' = scheduled \ {q} /\ pc'[q] = "user"
      /\ \A x \in Pcb : proc'[x].pid = proc[x].pid
      /\ \A x \in Pcb \ {q} : proc'[x].state = proc[x].state
      /\ \A x \in Pcb : pc'[x] # "user" => pc'[x] = pc[x] /\ arg'[x] = arg[x]
      /\ \A j \in Pid \ {proc[q].pid} : process_table'[j] = process_table[j]
    BY DEF Leaves
<1>3. proc[q].pid \in Pid /\ process_table[proc[q].pid] = q /\ q # NULL /\ NULL \notin Pcb
    BY <1>1, RecordFields, PidFacts DEF Types, InTable
<1>4. ASSUME NEW x \in Pid, x # proc[q].pid PROVE ps'[x] = ps[x] /\ (ps[x] # NULL => ps[x] \in Pcb \ {q})
  <2>1. CASE process_table[x] = NULL
      BY <1>2, <1>4, <2>1 DEF ps, FreeSlots
  <2>2. CASE process_table[x] # NULL
    <3>1. PICK r : r = process_table[x]
        OBVIOUS
    <3>2. r \in Pcb \ {q}
        BY <1>1, <1>4, <2>2, <3>1 DEF Types, Slots
    <3>3. process_table'[x] = r /\ proc'[r].state = proc[r].state
        BY <1>2, <1>4, <3>1, <3>2
    <3> QED  BY <3>1, <3>2, <3>3 DEF ps, FreeSlots
  <2> QED  BY <2>1, <2>2
<1>5. ps'[proc[q].pid] = NULL
  <2>1. PICK i : i = proc[q].pid
      OBVIOUS
  <2>2. i \in FreeSlots'
      BY <1>3, <2>1 DEF Leaves, FreeSlots
  <2> QED  BY <1>3, <2>1, <2>2 DEF ps
<1>6. ~Pending(proc[q].pid)
  <2>1. ps[proc[q].pid] \in {NULL, q}
      BY <1>3 DEF ps
  <2> QED  BY <2>1 DEF Pending
<1>7. ASSUME NEW c \in Pid PROVE Pending(c)' <=> Pending(c)
  <2>1. CASE c = proc[q].pid
    <3>1. ~Pending(c)'
        BY <1>5, <2>1 DEF Pending
    <3> QED  BY <1>6, <2>1, <3>1
  <2>2. CASE c # proc[q].pid /\ ps[c] = NULL
      BY <1>4, <2>2 DEF Pending
  <2>3. CASE c # proc[q].pid /\ ps[c] # NULL
    <3>1. PICK r : r = ps[c]
        OBVIOUS
    <3>2. r \in Pcb \ {q} /\ r = ps'[c]
        BY <1>4, <2>3, <3>1
    <3>3. Posted(r)' <=> Posted(r)
        BY <3>2
    <3>4. Pending(c) <=> ~Posted(r)
        BY <2>3, <3>1 DEF Pending
    <3>5. Pending(c)' <=> ~Posted(r)'
        BY <2>3, <3>1, <3>2 DEF Pending, Posted
    <3> QED  BY <3>3, <3>4, <3>5
  <2> QED  BY <2>1, <2>2, <2>3
<1>8. \A r \in Pcb : pc'[r] = "waiting" => /\ pc[r] = "waiting" /\ arg'[r] = arg[r] /\ r # q
                                           /\ proc'[r].pid = proc[r].pid
    BY <1>2
<1>9. \A c \in Pid : Coming(c)' \subseteq Coming(c)
  <2> SUFFICES ASSUME NEW c \in Pid, NEW r \in Coming(c)' PROVE r \in Coming(c)
      OBVIOUS
  <2>1. /\ r \in Pcb /\ pc'[r] # "user"
        /\ \/ pc'[r] = "created" /\ arg'[r] = c
           \/ pc'[r] \in {"inserted", "scheduled"} /\ proc'[arg'[r]].pid = c
      BY DEF Coming
  <2>2. pc'[r] = pc[r] /\ arg'[r] = arg[r]
      BY <1>2, <2>1
  <2>3. pc[r] \in {"inserted", "scheduled"} => arg[r] \in Pcb
      BY <1>1, <2>1 DEF Types, Places, Names
  <2> QED  BY <1>2, <2>1, <2>2, <2>3 DEF Coming
<1>10. ASSUME NEW x \in Pid, ps'[x] # NULL
       PROVE  /\ ps'[x] = ps[x]
              /\ pc[ps[x]] = "waiting" => pc'[ps[x]] = "waiting" /\ arg'[ps[x]] = arg[ps[x]]
  <2>1. x # proc[q].pid
      BY <1>5, <1>10
  <2>2. ps'[x] = ps[x] /\ ps[x] \in Pcb \ {q}
      BY <1>4, <1>10, <2>1
  <2> QED  BY <2>2
<1>11. ASSUME NEW z \in Pcb, Enrolled(z)' PROVE Enrolled(z) /\ proc'[z].pid = proc[z].pid
    BY <1>2, <1>11 DEF Enrolled
<1>12. Steady
    BY <1>8, <1>9, <1>10, <1>11 DEF Steady
<1>13. ASSUME NEW r \in Pcb, pc'[r] = "waiting" PROVE proc[r].pid \in asleep' <=> proc[r].pid \in asleep
  <2>1. r \in scheduled /\ r # q
      BY <1>1, <1>8, <1>13 DEF Known
  <2>2. process_table[proc[r].pid] = r
      BY <1>1, <2>1 DEF Known, InTable
  <2>3. proc[r].pid # proc[q].pid
      BY <1>3, <2>1, <2>2
  <2> QED  BY <2>3
<1>14. \A c \in Pid : Tokens(c)' = Tokens(c) /\ Line(c)' = Line(c) /\ Users(c)' = Users(c)
    BY DEF Tokens, Line, Users
<1> QED  BY <1>7, <1>12, <1>13, <1>14 DEF QuietView

\* The end of process_terminator.
LEMMA WaitsTerminatorEnd ==
    ASSUME IInv, NEW p \in Pcb, Uninterrupted(p), process_terminator_end(p)
    PROVE  QuietView
<1>1. Types /\ Leaves(p) /\ Killed
    BY ProcessTerminatorEnd DEF IInv
<1>2. /\ Runs(p) /\ pc[p] = "posted" /\ Goto(p, "user", NULL)
      /\ UNCHANGED <<sems, asleep, reused>>
    BY DEF process_terminator_end
<1>3. InTable(p) /\ Posted(p)
    BY <1>2, Actor DEF InTable, Posted
<1>4. pc'[p] = "user" /\ \A r \in Pcb \ {p} : pc'[r] = pc[r] /\ arg'[r] = arg[r]
    BY <1>1, <1>2 DEF Types, Places, Goto
<1>5. ASSUME NEW r \in Pcb \ {p} PROVE Posted(r)' <=> Posted(r)
  <2>1. \A s \in Pcb : (pc'[s] \in {"killing", "killing_cli"} /\ arg'[s] = r)
                   <=> (pc[s] \in {"killing", "killing_cli"} /\ arg[s] = r)
      BY <1>2, <1>4
  <2> QED  BY <1>4, <2>1 DEF Posted
<1> QED  BY <1>1, <1>2, <1>3, <1>4, <1>5, WaitsLeaves

\* The end of kill_process.
LEMMA WaitsKillEnd ==
    ASSUME IInv, NEW p \in Pcb, Uninterrupted(p), kill_process_end(p)
    PROVE  QuietView
<1>1. PICK q : q = arg[p]
    OBVIOUS
<1>2. /\ Leaves(q) /\ q \in Pcb /\ InTable(q) /\ pc'[p] = "user"
      /\ \A x \in Pcb \ {p, q} : pc'[x] = pc[x] /\ arg'[x] = arg[x]
    BY <1>1, KillProcessEnd
<1>3. /\ pc[p] \in {"killing", "killing_cli"} /\ sems' = sems /\ reused' = reused
      /\ asleep' = asleep \ {proc[q].pid}
    BY <1>1 DEF kill_process_end
<1>4. Posted(q) /\ pc'[q] = "user"
    BY <1>1, <1>2, <1>3 DEF Posted, Leaves
<1>5. \A s \in Pcb : pc[s] = "killing" => arg[s] = s
    BY DEF IInv, Killed
<1>6. q # p => pc[q] # "killing_cli"
    BY <1>2 DEF Uninterrupted
<1>7. ASSUME NEW r \in Pcb \ {q}
      PROVE  /\ Posted(r)' <=> Posted(r)
             /\ pc[r] = "waiting" => pc'[r] = "waiting" /\ arg'[r] = arg[r]
  <2>1. ASSUME NEW s \in Pcb
        PROVE (pc'[s] \in {"killing", "killing_cli"} /\ arg'[s] = r)
                 <=> (pc[s] \in {"killing", "killing_cli"} /\ arg[s] = r)
    <3>1. CASE s = p
        BY <1>1, <1>2, <3>1
    <3>2. CASE s # p /\ s = q
        BY <1>4, <1>5, <1>6, <3>2
    <3>3. CASE s \notin {p, q}
        BY <1>2, <3>3
    <3> QED  BY <3>1, <3>2, <3>3
  <2>2. pc'[r] = "posted" <=> pc[r] = "posted"
    <3>1. CASE r = p
        BY <1>2, <1>3, <3>1
    <3>2. CASE r # p
        BY <1>2, <3>2
    <3> QED  BY <3>1, <3>2
  <2>3. pc[r] = "waiting" => pc'[r] = "waiting" /\ arg'[r] = arg[r]
      BY <1>2, <1>3
  <2> QED  BY <2>1, <2>2, <2>3 DEF Posted
<1> QED  BY <1>2, <1>3, <1>4, <1>7, WaitsLeaves

\* p posts for the process v, whose PID is d.
LEMMA PostsFor ==
    ASSUME IInv, NEW p \in Pcb, SteadyStep(p), NEW d \in Pid, NEW v \in Pcb, proc[v].pid = d,
           process_table[d] = v, SetSems(PostExit(d)), Posted(v)',
           \A r \in Pcb \ {v} : Posted(r)' <=> Posted(r)
    PROVE  PostView(d)
<1>1. Types /\ Slots
    BY DEF IInv
<1>2. Steady /\ \A x \in Pid : ps'[x] = ps[x]
    BY Steadies DEF SteadyStep
<1>3. ~Pending(d)'
  <2>1. ps'[d] \in {NULL, v}
      BY <1>2 DEF ps
  <2>2. CASE ps'[d] = NULL
      BY <2>2 DEF Pending
  <2>3. CASE ps'[d] = v
      BY <2>3 DEF Pending, Posted
  <2> QED  BY <2>1, <2>2, <2>3
<1>4. ASSUME NEW c \in Pid \ {d} PROVE Pending(c)' <=> Pending(c)
  <2>1. CASE ps[c] = NULL
      BY <1>2, <2>1 DEF Pending
  <2>2. CASE ps[c] # NULL
    <3>1. PICK r : r = ps[c] /\ r = ps'[c]
        BY <1>2
    <3>2. r \in Pcb \ {v}
        BY <1>1, <2>2, <3>1, PsFacts
    <3>3. Pending(c) <=> ~Posted(r)
        BY <2>2, <3>1 DEF Pending
    <3>4. Pending(c)' <=> ~Posted(r)'
        BY <2>2, <3>1 DEF Pending, Posted
    <3> QED  BY <3>2, <3>3, <3>4
  <2> QED  BY <2>1, <2>2
<1> QED  BY <1>2, <1>3, <1>4 DEF PostView

\* process_terminator's post.
LEMMA WaitsTerminatorPost ==
    ASSUME IInv, NEW p \in Pcb, process_terminator_post(p)
    PROVE  \E d \in Pid : PostView(d)
<1>1. Types /\ QuietStep(p)
    BY ProcessTerminatorPost DEF IInv
<1>2. PICK d : d = proc[p].pid
    OBVIOUS
<1>3. /\ Runs(p) /\ pc[p] = "reparented" /\ Goto(p, "posted", p) /\ SetSems(PostExit(d)) /\ reused' = reused
    BY <1>2 DEF process_terminator_post
<1>4. d \in Pid /\ process_table[d] = p
    BY <1>2, <1>3, Actor
<1>5. pc'[p] = "posted" /\ \A r \in Pcb \ {p} : pc'[r] = pc[r] /\ arg'[r] = arg[r]
    BY <1>1, <1>3 DEF Types, Places, Goto
<1>6. SteadyStep(p)
    BY <1>1, <1>3, <1>5, QuietIsSteady
<1>7. Posted(p)'
    BY <1>5 DEF Posted
<1>8. ASSUME NEW r \in Pcb \ {p} PROVE Posted(r)' <=> Posted(r)
  <2>1. \A s \in Pcb : (pc'[s] \in {"killing", "killing_cli"} /\ arg'[s] = r)
                   <=> (pc[s] \in {"killing", "killing_cli"} /\ arg[s] = r)
      BY <1>3, <1>5
  <2> QED  BY <1>5, <2>1 DEF Posted
<1>9. PostView(d)
    BY <1>2, <1>3, <1>4, <1>6, <1>7, <1>8, PostsFor
<1> QED  BY <1>4, <1>9

\* kill_process's post.
LEMMA WaitsKill ==
    ASSUME IInv, NEW p \in Pcb, Runs(p), QuietStep(p), NEW d \in Pid, kill_process(p, d),
           pc[p] \notin {"killing", "killing_cli"}, pc[p] = "user" \/ process_table[d] = p
    PROVE  PostView(d)
<1>1. Types /\ Slots
    BY DEF IInv
<1>2. PICK v : v = process_table[d]
    OBVIOUS
<1>3. PICK l \in {"killing", "killing_cli"} : Goto(p, l, v)
    BY <1>2 DEF kill_process
<1>4. v # NULL /\ SetSems(PostExit(d)) /\ reused' = reused
    BY <1>2 DEF kill_process
<1>5. v \in Pcb /\ proc[v].pid = d
    BY <1>1, <1>2, <1>4 DEF Types, Slots
<1>6. pc'[p] = l /\ arg'[p] = v /\ \A r \in Pcb \ {p} : pc'[r] = pc[r] /\ arg'[r] = arg[r]
    BY <1>1, <1>3 DEF Types, Places, Goto
<1>7. SteadyStep(p)
    BY <1>3, <1>4, <1>6, QuietIsSteady
<1>8. Posted(v)'
    BY <1>3, <1>6 DEF Posted
<1>9. ASSUME NEW r \in Pcb \ {v} PROVE Posted(r)' <=> Posted(r)
  <2>1. \A s \in Pcb : (pc'[s] \in {"killing", "killing_cli"} /\ arg'[s] = r)
                   <=> (pc[s] \in {"killing", "killing_cli"} /\ arg[s] = r)
      BY <1>6
  <2>2. pc'[r] = "posted" <=> pc[r] = "posted"
    <3>1. CASE r = p
        BY <1>2, <1>3, <1>6, <3>1
    <3>2. CASE r # p
        BY <1>6, <3>2
    <3> QED  BY <3>1, <3>2
  <2> QED  BY <2>1, <2>2 DEF Posted
<1> QED  BY <1>2, <1>4, <1>5, <1>7, <1>8, <1>9, PostsFor

\* The kill command.
LEMMA WaitsSysKill ==
    ASSUME IInv, ~reckless', NEW p \in Pcb, sys_kill(p)
    PROVE  \E d \in Pid : PostView(d)
<1>1. QuietStep(p)
    BY SysKill
<1>2. PICK d \in Pid : kill_process(p, d)
    BY DEF sys_kill
<1>3. Runs(p) /\ pc[p] = "user"
    BY DEF sys_kill
<1> QED  BY <1>1, <1>2, <1>3, WaitsKill

\* Ctrl+C.
LEMMA WaitsCtrlC ==
    ASSUME IInv, ~reckless', NEW p \in Pcb, kill_foreground_processes(p)
    PROVE  \E d \in Pid : PostView(d)
<1>1. QuietStep(p)
    BY CtrlC
<1>2. PICK d : d = proc[p].pid
    OBVIOUS
<1>3. Runs(p) /\ pc[p] \notin {"killing", "killing_cli"} /\ kill_process(p, d)
    BY <1>2 DEF kill_foreground_processes
<1>4. d \in Pid /\ process_table[d] = p
    BY <1>2, <1>3, Actor
<1> QED  BY <1>1, <1>3, <1>4, WaitsKill

\* What filling the slot c with the process q changes for those who wait.
LEMMA InsertFacts ==
    ASSUME IInv, WInv, NEW p \in Pcb, create_process_insert(p),
           NEW q, q = arg[p], NEW c, c = proc[q].pid
    PROVE  /\ c \in Pid /\ q \in Pcb /\ q # NULL /\ pc[p] = "linked"
           /\ proc' = proc /\ scheduled' = scheduled /\ asleep' = asleep
           /\ pc'[p] = "inserted" /\ arg'[p] = q
           /\ \A r \in Pcb \ {p} : pc'[r] = pc[r] /\ arg'[r] = arg[r]
           /\ \A x \in Pid : Tokens(x)' = Tokens(x) /\ Line(x)' = Line(x)
           /\ \A x \in Pid \ {c} : Users(x)' = Users(x)
           /\ Users(c)' = Users(c) + 1
           /\ reused' = IF Users(c) # 0 THEN reused \cup {c} ELSE reused
           /\ ps[c] = NULL /\ ps'[c] = q
           /\ \A x \in Pid \ {c} : ps'[x] = ps[x]
           /\ \A x \in Pid \ {c} : Pending(x)' <=> Pending(x)
           /\ ~Pending(c) /\ Pending(c)'
<1>1. Types /\ Slots /\ Known /\ Held /\ Killed
    BY DEF IInv
<1>2. /\ Runs(p) /\ pc[p] = "linked" /\ Goto(p, "inserted", q)
      /\ process_table' = [process_table EXCEPT ![c] = q]
      /\ SetSems(semOpen(Sems, c, 0))
      /\ reused' = IF is_semaphore_valid(Sems, c) THEN reused \cup {c} ELSE reused
      /\ proc' = proc /\ scheduled' = scheduled
    BY DEF create_process_insert
<1>3. p \in Creating /\ q \in Pcb
    BY <1>1, <1>2 DEF Creating, Types, Places, Names
<1>4. /\ q \notin scheduled /\ (\A j \in Pid : process_table[j] # q)
      /\ c \in FreeSlots /\ proc[q].state = "READY"
    BY <1>1, <1>2, <1>3 DEF Held, Creating, Holding
<1>5. c \in Pid /\ q # NULL /\ NULL \notin Pcb
    BY <1>3, <1>4, PidFacts DEF FreeSlots
<1>6. /\ process_table'[c] = q /\ \A j \in Pid \ {c} : process_table'[j] = process_table[j]
    BY <1>1, <1>2, <1>5 DEF Types
<1>7. pc'[p] = "inserted" /\ arg'[p] = q /\ \A r \in Pcb \ {p} : pc'[r] = pc[r] /\ arg'[r] = arg[r]
    BY <1>1, <1>2 DEF Types, Places, Goto
<1>8. /\ asleep' = asleep /\ \A m \in Pid \ {c} : sems'[m] = sems[m]
      /\ Users(c)' = Users(c) + 1 /\ Tokens(c)' = Tokens(c) /\ Line(c)' = Line(c)
      /\ reused' = IF Users(c) # 0 THEN reused \cup {c} ELSE reused
  <2>1. Sems \in Registry /\ Sems.sems = sems /\ Sems.asleep = asleep
      BY <1>1, SemsFacts DEF Sems
  <2>2. PICK e, l : e = Sems.sems[c] /\ l = semOpen(Sems, c, 0)
      OBVIOUS
  <2>3. e.users = Users(c) /\ e.value = Tokens(c) /\ e.blockedProcesses = Line(c) /\ Users(c) \in Nat
      BY <1>1, <1>5, <2>1, <2>2, WaitTypes DEF Users, Tokens, Line
  <2>4. /\ l.asleep = Sems.asleep
        /\ \A m \in Pid \ {c} : l.sems[m] = Sems.sems[m]
        /\ e.users > 0 => Has(l.sems[c], e.users + 1, e.value, e.blockedProcesses)
        /\ ~(e.users > 0) => Has(l.sems[c], 1, 0, <<>>)
      BY <1>5, <2>1, <2>2, OpenEffect
  <2>5. ~(e.users > 0) => e.users + 1 = 1 /\ e.users = 0 /\ e.value = 0 /\ e.blockedProcesses = <<>>
    <3>1. ~(Users(c) > 0) => Users(c) = 0 /\ Users(c) + 1 = 1
        BY <2>3
    <3>2. Users(c) = 0 => Tokens(c) = 0 /\ Line(c) = <<>>
        BY <1>5 DEF WInv, Opened
    <3> QED  BY <2>3, <3>1, <3>2
  <2>6. Has(l.sems[c], e.users + 1, e.value, e.blockedProcesses)
      BY <2>4, <2>5
  <2>7. sems' = l.sems /\ asleep' = l.asleep
      BY <1>2, <2>2 DEF SetSems
  <2>8. Users(c)' = Users(c) + 1 /\ Tokens(c)' = Tokens(c) /\ Line(c)' = Line(c)
      BY <2>3, <2>6, <2>7 DEF Has, Users, Tokens, Line
  <2>9. is_semaphore_valid(Sems, c) <=> Users(c) # 0
    <3>1. is_semaphore_valid(Sems, c) <=> Users(c) > 0
        BY <2>2, <2>3 DEF is_semaphore_valid
    <3> QED  BY <2>3, <3>1
  <2> QED  BY <1>2, <2>1, <2>4, <2>7, <2>8, <2>9
<1>9. \A x \in Pid \ {c} : Users(x)' = Users(x) /\ Tokens(x)' = Tokens(x) /\ Line(x)' = Line(x)
    BY <1>8 DEF Users, Tokens, Line
<1>10. \A x \in Pid \ {c} : ps'[x] = ps[x]
  <2>1. \A x \in Pid \ {c} : x \in FreeSlots' <=> x \in FreeSlots
      BY <1>2, <1>6 DEF FreeSlots
  <2> QED  BY <1>6, <2>1 DEF ps
<1>11. ps[c] = NULL /\ ps'[c] = q
  <2>1. c \notin FreeSlots'
      BY <1>2, <1>4, <1>5, <1>6 DEF FreeSlots
  <2> QED  BY <1>4, <1>5, <1>6, <2>1 DEF ps
<1>12. Idles(p) /\ Moves(p)
    BY <1>2, <1>7 DEF Idles, Moves
<1>13. \A r \in Pcb : Posted(r)' <=> Posted(r)
    BY <1>12, PostedSame
<1>14. ~Posted(q)
  <2>1. pc[q] = "user"
      BY <1>1, <1>3, <1>4 DEF Known
  <2>2. \A s \in Pcb : pc[s] = "killing" => arg[s] # q
      BY <1>1, <2>1 DEF Killed
  <2>3. \A s \in Pcb : pc[s] = "killing_cli" => arg[s] # q
    <3>1. ~InTable(q)
        BY <1>4, <1>5 DEF InTable
    <3> QED  BY <1>1, <3>1 DEF Killed
  <2> QED  BY <2>1, <2>2, <2>3 DEF Posted
<1>15. ASSUME NEW x \in Pid \ {c} PROVE Pending(x)' <=> Pending(x)
  <2>1. CASE ps[x] = NULL
      BY <1>10, <2>1 DEF Pending
  <2>2. CASE ps[x] # NULL
    <3>1. PICK r : r = ps[x] /\ r = ps'[x]
        BY <1>10
    <3>2. r \in Pcb
        BY <1>1, <2>2, <3>1, PsFacts
    <3>3. Pending(x) <=> ~Posted(r)
        BY <2>2, <3>1 DEF Pending
    <3>4. Pending(x)' <=> ~Posted(r)'
        BY <2>2, <3>1 DEF Pending, Posted
    <3> QED  BY <1>13, <3>2, <3>3, <3>4
  <2> QED  BY <2>1, <2>2
<1>16. ~Pending(c) /\ Pending(c)'
  <2>1. ~Posted(q)'
      BY <1>3, <1>13, <1>14
  <2>2. Pending(c)' <=> ~Posted(q)'
      BY <1>5, <1>11 DEF Pending, Posted
  <2> QED  BY <1>11, <2>1, <2>2 DEF Pending
<1> QED  BY <1>2, <1>3, <1>5, <1>7, <1>8, <1>9, <1>10, <1>11, <1>15, <1>16

\* ... and who may wait: the creator too.
LEMMA InsertSets ==
    ASSUME IInv, WInv, NEW p \in Pcb, create_process_insert(p),
           NEW q, q = arg[p], NEW c, c = proc[q].pid
    PROVE  /\ \A x \in Pid : Waiting(x)' = Waiting(x)
           /\ \A x \in Pid \ {c} : Coming(x)' = Coming(x)
           /\ Coming(c)' = Coming(c) \cup {p} /\ p \notin Coming(c)
<1>1. /\ c \in Pid /\ pc[p] = "linked" /\ proc' = proc
      /\ pc'[p] = "inserted" /\ arg'[p] = q
      /\ \A r \in Pcb \ {p} : pc'[r] = pc[r] /\ arg'[r] = arg[r]
    BY InsertFacts
<1>2. \A x \in Pid : Waiting(x)' = Waiting(x)
    BY <1>1 DEF Waiting
<1>3. \A x \in Pid : p \notin Coming(x)
    BY <1>1 DEF Coming
<1>4. \A x \in Pid, r \in Pcb \ {p} : r \in Coming(x)' <=> r \in Coming(x)
    BY <1>1 DEF Coming
<1>5. \A x \in Pid : p \in Coming(x)' <=> x = c
    BY <1>1 DEF Coming
<1>6. \A x \in Pid : Coming(x) \subseteq Pcb /\ Coming(x)' \subseteq Pcb
    BY DEF Coming
<1> QED  BY SMTT(40), <1>1, <1>2, <1>3, <1>4, <1>5, <1>6

\* Filling a slot keeps the invariant.
LEMMA InsertWaits ==
    ASSUME IInv, IInv', WInv, NEW p \in Pcb, create_process_insert(p)
    PROVE  WInv'
<1>1. Types /\ Types' /\ Known
    BY DEF IInv
<1>2. PICK q, c : q = arg[p] /\ c = proc[q].pid
    OBVIOUS
<1>3. /\ c \in Pid /\ q \in Pcb /\ q # NULL /\ pc[p] = "linked"
      /\ proc' = proc /\ scheduled' = scheduled /\ asleep' = asleep
      /\ pc'[p] = "inserted" /\ arg'[p] = q
      /\ \A r \in Pcb \ {p} : pc'[r] = pc[r] /\ arg'[r] = arg[r]
      /\ \A x \in Pid : Tokens(x)' = Tokens(x) /\ Line(x)' = Line(x)
      /\ \A x \in Pid \ {c} : Users(x)' = Users(x)
      /\ Users(c)' = Users(c) + 1
      /\ reused' = IF Users(c) # 0 THEN reused \cup {c} ELSE reused
      /\ ps[c] = NULL /\ ps'[c] = q
      /\ \A x \in Pid \ {c} : ps'[x] = ps[x]
      /\ \A x \in Pid \ {c} : Pending(x)' <=> Pending(x)
    BY <1>2, InsertFacts
<1>4. /\ \A x \in Pid : Waiting(x)' = Waiting(x)
      /\ \A x \in Pid \ {c} : Coming(x)' = Coming(x)
    BY <1>2, InsertSets
<1>5. Users(c) \in Nat /\ Users(c)' # 0 /\ IsFiniteSet(Waiting(c)) /\ Cardinality(Waiting(c)) \in Nat
    BY <1>1, <1>3, WaitTypes
<1>6. \A x \in Pid : \A y : InLine(y, x)' <=> InLine(y, x)
    BY <1>3 DEF InLine
<1>7. \A x \in Pid : Users(x) # 0 => Users(x)' # 0
    BY <1>3, <1>5
<1>8. Opened'
  <2> SUFFICES ASSUME NEW x \in Pid
               PROVE  IF Users(x)' = 0
                      THEN Waiting(x)' = {} /\ Coming(x)' = {} /\ Tokens(x)' = 0 /\ Line(x)' = <<>>
                      ELSE Cardinality(Waiting(x)') < Users(x)'
      BY DEF Opened
  <2>1. IF Users(x) = 0
        THEN Waiting(x) = {} /\ Coming(x) = {} /\ Tokens(x) = 0 /\ Line(x) = <<>>
        ELSE Cardinality(Waiting(x)) < Users(x)
      BY DEF WInv, Opened
  <2>2. CASE x # c
      BY <1>3, <1>4, <2>1, <2>2
  <2>3. CASE x = c
    <3>1. Users(c) = 0 => Cardinality(Waiting(c)) = 0
        BY <2>1, <2>3, FS_EmptySet
    <3>2. Cardinality(Waiting(c)) < Users(c) + 1
        BY <1>5, <2>1, <2>3, <3>1
    <3> QED  BY <1>3, <1>4, <1>5, <2>3, <3>2
  <2> QED  BY <2>2, <2>3
<1>9. Named'
  <2> SUFFICES ASSUME NEW z \in Pcb, Enrolled(z)' PROVE Users(proc[z].pid)' # 0
      BY DEF Named
  <2>1. PICK i : i = proc[z].pid
      OBVIOUS
  <2>2. i \in Pid
      BY <1>1, <2>1, RecordFields DEF Types
  <2>3. z = q \/ Enrolled(z)
      BY <1>3 DEF Enrolled
  <2>4. Users(i)' # 0
    <3>1. CASE z = q
        BY <1>2, <1>5, <2>1, <3>1
    <3>2. CASE Enrolled(z)
        BY <1>7, <2>1, <2>2, <3>2 DEF WInv, Named
    <3> QED  BY <2>3, <3>1, <3>2
  <2> QED  BY <1>3, <2>1, <2>4 DEF Users
<1>10. ASSUME NEW r \in Pcb, pc'[r] = "waiting"
       PROVE  pc[r] = "waiting" /\ arg'[r] = arg[r] /\ arg[r] \in Pid
    BY <1>1, <1>3, <1>10 DEF Types, Places, Names
<1>11. Lined'
  <2> SUFFICES ASSUME NEW r \in Pcb, pc'[r] = "waiting", proc'[r].pid \in asleep'
               PROVE  InLine(proc[r].pid, arg[r])'
      BY DEF Lined
  <2>1. PICK x, d : x = proc[r].pid /\ d = arg[r]
      OBVIOUS
  <2>2. pc[r] = "waiting" /\ arg'[r] = d /\ d \in Pid /\ proc'[r].pid = x
      BY <1>3, <1>10, <2>1
  <2>3. InLine(x, d)'
      BY <1>3, <1>6, <2>1, <2>2 DEF WInv, Lined
  <2> QED  BY <2>2, <2>3 DEF InLine, Line
<1>12. Fresh'
  <2> SUFFICES ASSUME NEW x \in Pid \ reused', NEW d \in Pid, InLine(x, d)
               PROVE  AloneInLine(x, d)'
      BY <1>6 DEF Fresh
  <2>1. x \notin reused
      BY <1>3
  <2>2. AloneInLine(x, d)
      BY <2>1 DEF WInv, Fresh
  <2>3. x # c
      BY <1>3, <2>2 DEF AloneInLine
  <2>4. Users(x)' # 0
      BY <1>7, <2>2 DEF AloneInLine
  <2>5. ASSUME ps'[x] # NULL
        PROVE  pc'[ps'[x]] = "waiting" /\ arg'[ps'[x]] = d /\ x \in asleep'
    <3>1. PICK z : z = ps[x] /\ z = ps'[x]
        BY <1>3, <2>3
    <3>2. z \in Pcb
        BY <2>5, <3>1, PsFacts DEF IInv
    <3>3. pc[z] = "waiting" /\ arg[z] = d /\ x \in asleep
        BY <2>2, <2>5, <3>1 DEF AloneInLine
    <3>4. z # p
        BY <1>3, <3>3
    <3> QED  BY <1>3, <3>1, <3>2, <3>3, <3>4
  <2>6. \A i, j \in 1..Len(Line(d)') : Line(d)'[i] = x /\ Line(d)'[j] = x => i = j
      BY <1>3, <2>2 DEF AloneInLine
  <2> QED  BY <2>4, <2>5, <2>6 DEF AloneInLine
<1>13. First'
  <2> SUFFICES ASSUME NEW x \in Pid \ reused', Pending(x)' PROVE Tokens(x)' = 0
      BY DEF First
  <2>1. x \notin reused
      BY <1>3
  <2>2. CASE x # c
      BY <1>3, <2>1, <2>2 DEF WInv, First
  <2>3. CASE x = c
    <3>1. Users(c) = 0
        BY <1>3, <2>3
    <3> QED  BY <1>3, <2>3, <3>1 DEF WInv, Opened
  <2> QED  BY <2>2, <2>3
<1>14. Ended'
  <2> SUFFICES ASSUME NEW r \in Pcb, pc'[r] = "waiting", proc'[r].pid \notin asleep',
                      arg'[r] \notin reused', proc'[r].pid \notin reused'
               PROVE  ~Pending(arg[r])'
      BY DEF Ended
  <2>1. PICK d : d = arg[r]
      OBVIOUS
  <2>2. pc[r] = "waiting" /\ arg'[r] = d /\ d \in Pid
      BY <1>10, <2>1
  <2>3. d \notin reused /\ proc[r].pid \notin reused /\ proc[r].pid \notin asleep
      BY <1>3, <2>2
  <2>4. ~Pending(d)
      BY <2>1, <2>2, <2>3 DEF WInv, Ended
  <2>5. d # c
    <3>1. r \in Waiting(d)
        BY <2>1, <2>2 DEF Waiting
    <3>2. Users(d) # 0
        BY <2>2, <3>1 DEF WInv, Opened
    <3> QED  BY <1>3, <2>2, <3>2
  <2>6. ~Pending(d)'
      BY <1>3, <2>2, <2>4, <2>5
  <2> QED  BY <2>2, <2>6, PendingSame
<1> QED  BY <1>8, <1>9, <1>11, <1>12, <1>13, <1>14 DEF WInv

\* ... and the new process's post is the one its creator counts on.
LEMMA InsertEnough ==
    ASSUME IInv, IInv', WInv, Enough, NEW p \in Pcb, create_process_insert(p)
    PROVE  Enough'
<1> SUFFICES ASSUME NEW x \in Pid
             PROVE  /\ Line(x)' # <<>> => Tokens(x)' = 0
                    /\ Len(Line(x)') + Cardinality(Coming(x)') <= Tokens(x)' + Due(x)'
    BY DEF Enough
<1>1. Types
    BY DEF IInv
<1>2. PICK q, c : q = arg[p] /\ c = proc[q].pid
    OBVIOUS
<1>3. /\ c \in Pid /\ ~Pending(c) /\ Pending(c)'
      /\ \A y \in Pid : Tokens(y)' = Tokens(y) /\ Line(y)' = Line(y)
      /\ \A y \in Pid \ {c} : Pending(y)' <=> Pending(y)
    BY <1>2, InsertFacts
<1>4. /\ \A y \in Pid \ {c} : Coming(y)' = Coming(y)
      /\ Coming(c)' = Coming(c) \cup {p} /\ p \notin Coming(c)
    BY <1>2, InsertSets
<1>5. /\ IsFiniteSet(Coming(x)) /\ Cardinality(Coming(x)) \in Nat
      /\ Tokens(x) \in Nat /\ Len(Line(x)) \in Nat
    BY <1>1, WaitTypes
<1>6. /\ Line(x) # <<>> => Tokens(x) = 0
      /\ Len(Line(x)) + Cardinality(Coming(x)) <= Tokens(x) + Due(x)
    BY DEF Enough
<1>7. CASE x # c
    BY <1>3, <1>4, <1>6, <1>7 DEF Due
<1>8. CASE x = c
  <2>1. Cardinality(Coming(c)') = Cardinality(Coming(c)) + 1
      BY <1>4, <1>5, <1>8, FS_AddElement
  <2>2. Due(c) = 0 /\ Due(c)' = 1
      BY <1>3 DEF Due
  <2> QED  BY <1>3, <1>5, <1>6, <1>8, <2>1, <2>2
<1> QED  BY <1>7, <1>8

\* What a call of wait_child for an existing process changes.
LEMMA WaitFacts ==
    ASSUME IInv, WInv, NEW p \in Pcb, wait_child(p), NEW c, c = arg[p], process_table[c] # NULL,
           NEW x, x = proc[p].pid
    PROVE  /\ c \in Pid /\ x \in Pid /\ pc[p] = "created" /\ p \in scheduled /\ x \notin asleep
           /\ proc' = proc /\ scheduled' = scheduled /\ reused' = reused
           /\ pc'[p] = "waiting" /\ arg'[p] = c
           /\ \A r \in Pcb \ {p} : pc'[r] = pc[r] /\ arg'[r] = arg[r]
           /\ \A d \in Pid \ {c} : Users(d)' = Users(d) /\ Tokens(d)' = Tokens(d) /\ Line(d)' = Line(d)
           /\ Users(c) # 0 /\ Users(c)' = Users(c) + 1
           /\ Tokens(c) = 0 => /\ Tokens(c)' = 0 /\ Line(c)' = Append(Line(c), x)
                               /\ asleep' = asleep \cup {x}
           /\ Tokens(c) # 0 => /\ Tokens(c)' = Tokens(c) - 1 /\ Line(c)' = Line(c)
                               /\ asleep' = asleep
           /\ \A d \in Pid : ps'[d] = ps[d]
           /\ \A d \in Pid : Pending(d)' <=> Pending(d)
<1>1. Types
    BY DEF IInv
<1>2. /\ Runs(p) /\ pc[p] = "created" /\ Goto(p, "waiting", c)
      /\ SetSems(semWait(semOpen(Sems, c, 0), c, x))
      /\ process_table' = process_table /\ proc' = proc /\ scheduled' = scheduled /\ reused' = reused
    BY DEF wait_child
<1>3. c \in Pid /\ x \in Pid /\ p \in scheduled /\ x \notin asleep
    BY <1>1, <1>2, Actor DEF Types, Places, Names, Runs
<1>4. pc'[p] = "waiting" /\ arg'[p] = c /\ \A r \in Pcb \ {p} : pc'[r] = pc[r] /\ arg'[r] = arg[r]
    BY <1>1, <1>2 DEF Types, Places, Goto
<1>5. Users(c) # 0
  <2>1. p \in Coming(c)
      BY <1>2 DEF Coming
  <2> QED  BY <1>3, <2>1 DEF WInv, Opened
<1>6. \A d \in Pid : ps'[d] = ps[d]
    BY <1>2, PsSame
<1>7. Idles(p) /\ Moves(p)
    BY <1>2, <1>4 DEF Idles, Moves
<1>8. \A d \in Pid : Pending(d)' <=> Pending(d)
    BY <1>6, <1>7, PendingStays
<1>9. Sems \in Registry /\ Sems.sems = sems /\ Sems.asleep = asleep
    BY <1>1, SemsFacts DEF Sems
<1>10. PICK u, v, s : u = Users(c) /\ v = Tokens(c) /\ s = Line(c)
    OBVIOUS
<1>11. u \in Nat /\ u > 0 /\ v \in Nat
    BY <1>1, <1>3, <1>5, <1>10, WaitTypes
<1>12. PICK k : k = semOpen(Sems, c, 0)
    OBVIOUS
<1>13. /\ k \in Registry /\ k.asleep = asleep /\ \A m \in Pid \ {c} : k.sems[m] = sems[m]
       /\ Has(k.sems[c], u + 1, v, s)
  <2>1. PICK e : e = Sems.sems[c]
      OBVIOUS
  <2>2. e.users = u /\ e.value = v /\ e.blockedProcesses = s
      BY <1>9, <1>10, <2>1 DEF Users, Tokens, Line
  <2>3. /\ k \in Registry /\ k.asleep = Sems.asleep
        /\ \A m \in Pid \ {c} : k.sems[m] = Sems.sems[m]
        /\ e.users > 0 => Has(k.sems[c], e.users + 1, e.value, e.blockedProcesses)
      BY <1>3, <1>9, <1>12, <2>1, OpenEffect
  <2> QED  BY <1>9, <1>11, <2>2, <2>3
<1>14. PICK l : l = semWait(k, c, x)
    OBVIOUS
<1>15. /\ \A m \in Pid \ {c} : l.sems[m] = k.sems[m]
       /\ v = 0 => Has(l.sems[c], u + 1, v, Append(s, x)) /\ l.asleep = k.asleep \cup {x}
       /\ v # 0 => Has(l.sems[c], u + 1, v - 1, s) /\ l.asleep = k.asleep
  <2>1. PICK e : e = k.sems[c]
      OBVIOUS
  <2>2. e.users = u + 1 /\ e.value = v /\ e.blockedProcesses = s /\ e.users > 0
      BY <1>11, <1>13, <2>1 DEF Has
  <2>3. /\ \A m \in Pid \ {c} : l.sems[m] = k.sems[m]
        /\ e.value = 0 => /\ Has(l.sems[c], e.users, e.value, Append(e.blockedProcesses, x))
                          /\ l.asleep = k.asleep \cup {x}
        /\ e.value # 0 => /\ Has(l.sems[c], e.users, e.value - 1, e.blockedProcesses)
                          /\ l.asleep = k.asleep
      BY <1>3, <1>13, <1>14, <2>1, <2>2, WaitEffect
  <2> QED  BY <2>2, <2>3
<1>16. sems' = l.sems /\ asleep' = l.asleep
    BY <1>2, <1>12, <1>14 DEF SetSems
<1>17. \A d \in Pid \ {c} : Users(d)' = Users(d) /\ Tokens(d)' = Tokens(d) /\ Line(d)' = Line(d)
    BY <1>13, <1>15, <1>16 DEF Users, Tokens, Line
<1>18. /\ Users(c)' = Users(c) + 1
       /\ Tokens(c) = 0 => /\ Tokens(c)' = 0 /\ Line(c)' = Append(Line(c), x)
                           /\ asleep' = asleep \cup {x}
       /\ Tokens(c) # 0 => /\ Tokens(c)' = Tokens(c) - 1 /\ Line(c)' = Line(c)
                           /\ asleep' = asleep
  <2>1. CASE v = 0
    <3>1. Users(c)' = u + 1 /\ Tokens(c)' = v /\ Line(c)' = Append(s, x) /\ asleep' = asleep \cup {x}
        BY <1>13, <1>15, <1>16, <2>1 DEF Has, Users, Tokens, Line
    <3> QED  BY <1>10, <2>1, <3>1
  <2>2. CASE v # 0
    <3>1. Users(c)' = u + 1 /\ Tokens(c)' = v - 1 /\ Line(c)' = s /\ asleep' = asleep
        BY <1>13, <1>15, <1>16, <2>2 DEF Has, Users, Tokens, Line
    <3> QED  BY <1>10, <2>2, <3>1
  <2> QED  BY <2>1, <2>2
<1> QED  BY <1>2, <1>3, <1>4, <1>5, <1>6, <1>8, <1>17, <1>18

\* ... and who waits: the caller, who was coming.
LEMMA WaitSets ==
    ASSUME IInv, WInv, NEW p \in Pcb, wait_child(p), NEW c, c = arg[p], process_table[c] # NULL
    PROVE  /\ \A d \in Pid \ {c} : Waiting(d)' = Waiting(d) /\ Coming(d)' = Coming(d)
           /\ Waiting(c)' = Waiting(c) \cup {p} /\ p \notin Waiting(c)
           /\ Coming(c)' = Coming(c) \ {p} /\ p \in Coming(c)
<1>1. /\ c \in Pid /\ pc[p] = "created" /\ proc' = proc
      /\ pc'[p] = "waiting" /\ arg'[p] = c
      /\ \A r \in Pcb \ {p} : pc'[r] = pc[r] /\ arg'[r] = arg[r]
    BY WaitFacts
<1>2. \A d \in Pid, r \in Pcb \ {p} : /\ r \in Coming(d)' <=> r \in Coming(d)
                                      /\ r \in Waiting(d)' <=> r \in Waiting(d)
    BY <1>1 DEF Coming, Waiting
<1>3. \A d \in Pid : /\ p \notin Coming(d)' /\ (p \in Coming(d) <=> d = c)
                     /\ p \notin Waiting(d) /\ (p \in Waiting(d)' <=> d = c)
    BY <1>1 DEF Coming, Waiting
<1>4. \A d \in Pid : /\ Coming(d) \subseteq Pcb /\ Coming(d)' \subseteq Pcb
                     /\ Waiting(d) \subseteq Pcb /\ Waiting(d)' \subseteq Pcb
    BY DEF Coming, Waiting
<1>5. ASSUME NEW d \in Pid \ {c} PROVE Waiting(d)' = Waiting(d) /\ Coming(d)' = Coming(d)
    BY SMTT(40), <1>2, <1>3, <1>4
<1>6. Waiting(c)' = Waiting(c) \cup {p} /\ p \notin Waiting(c)
    BY <1>1, <1>2, <1>3, <1>4
<1>7. Coming(c)' = Coming(c) \ {p} /\ p \in Coming(c)
    BY <1>1, <1>2, <1>3, <1>4
<1> QED  BY <1>5, <1>6, <1>7

\* The line with one more at its end.
LEMMA LongerLine ==
    ASSUME NEW s \in Seq(Pid), NEW x \in Pid
    PROVE  /\ Len(Append(s, x)) = Len(s) + 1 /\ Len(s) \in Nat /\ Append(s, x) # <<>>
           /\ Append(s, x)[Len(s) + 1] = x
           /\ \A i \in 1..Len(s) : i \in 1..Len(Append(s, x)) /\ Append(s, x)[i] = s[i]
           /\ \A i \in 1..Len(Append(s, x)) : i \in 1..Len(s) \/ i = Len(s) + 1
<1>1. Len(Append(s, x)) = Len(s) + 1 /\ Len(s) \in Nat
    OBVIOUS
<1>2. Append(s, x)[Len(s) + 1] = x /\ Append(s, x) # <<>>
    BY <1>1
<1>3. \A i \in 1..Len(s) : i \in 1..Len(Append(s, x)) /\ Append(s, x)[i] = s[i]
    BY <1>1
<1>4. \A i \in 1..Len(Append(s, x)) : i \in 1..Len(s) \/ i = Len(s) + 1
    BY <1>1
<1> QED  BY <1>1, <1>2, <1>3, <1>4

\* Going to wait keeps the invariant.
LEMMA WaitWaits ==
    ASSUME IInv, IInv', WInv, NEW p \in Pcb, wait_child(p), process_table[arg[p]] # NULL
    PROVE  WInv'
<1>1. Types /\ Types' /\ Known
    BY DEF IInv
<1>2. PICK c, x : c = arg[p] /\ x = proc[p].pid
    OBVIOUS
<1>3. /\ c \in Pid /\ x \in Pid /\ pc[p] = "created" /\ p \in scheduled /\ x \notin asleep
      /\ proc' = proc /\ scheduled' = scheduled /\ reused' = reused
      /\ pc'[p] = "waiting" /\ arg'[p] = c
      /\ \A r \in Pcb \ {p} : pc'[r] = pc[r] /\ arg'[r] = arg[r]
      /\ \A d \in Pid \ {c} : Users(d)' = Users(d) /\ Tokens(d)' = Tokens(d) /\ Line(d)' = Line(d)
      /\ Users(c) # 0 /\ Users(c)' = Users(c) + 1
      /\ Tokens(c) = 0 => /\ Tokens(c)' = 0 /\ Line(c)' = Append(Line(c), x)
                          /\ asleep' = asleep \cup {x}
      /\ Tokens(c) # 0 => /\ Tokens(c)' = Tokens(c) - 1 /\ Line(c)' = Line(c)
                          /\ asleep' = asleep
      /\ \A d \in Pid : ps'[d] = ps[d]
      /\ \A d \in Pid : Pending(d)' <=> Pending(d)
    BY <1>2, WaitFacts
<1>4. /\ \A d \in Pid \ {c} : Waiting(d)' = Waiting(d) /\ Coming(d)' = Coming(d)
      /\ Waiting(c)' = Waiting(c) \cup {p} /\ p \notin Waiting(c)
    BY <1>2, WaitSets
<1>5. PICK s : s = Line(c)
    OBVIOUS
<1>6. /\ Users(c) \in Nat /\ Users(c)' # 0 /\ s \in Seq(Pid)
      /\ IsFiniteSet(Waiting(c)) /\ Cardinality(Waiting(c)) \in Nat
    BY <1>1, <1>3, <1>5, WaitTypes
<1>7. \A d \in Pid : Users(d) # 0 => Users(d)' # 0
    BY <1>3, <1>6
<1>8. ps[x] = p /\ p # NULL
    BY <1>2, <1>3, PsKnown
<1>9. \A d \in Pid \ {c} : \A y : InLine(y, d)' <=> InLine(y, d)
    BY <1>3 DEF InLine
<1>10. Tokens(c) # 0 => \A y : InLine(y, c)' <=> InLine(y, c)
    BY <1>3 DEF InLine
<1>11. Tokens(c) = 0 => \A y : InLine(y, c)' <=> \E i \in 1..Len(Append(s, x)) : Append(s, x)[i] = y
    BY <1>3, <1>5 DEF InLine
<1>12. \A y : InLine(y, c) <=> \E i \in 1..Len(s) : s[i] = y
    BY <1>5 DEF InLine
<1>13. \A d \in Pid : \A y : InLine(y, d) => InLine(y, d)'
    BY <1>3, <1>6, <1>9, <1>10, <1>11, <1>12, LongerLine
<1>14. \A d \in Pid : \A y : InLine(y, d)' /\ y # x => InLine(y, d)
    BY <1>3, <1>6, <1>9, <1>10, <1>11, <1>12, LongerLine
<1>15. Tokens(c) = 0 => InLine(x, c)'
  <2> SUFFICES ASSUME Tokens(c) = 0 PROVE InLine(x, c)'
      OBVIOUS
  <2>1. Len(s) + 1 \in 1..Len(Append(s, x)) /\ Append(s, x)[Len(s) + 1] = x
      BY <1>3, <1>6, LongerLine
  <2> QED  BY <1>11, <2>1
<1>16. Opened'
  <2> SUFFICES ASSUME NEW d \in Pid
               PROVE  IF Users(d)' = 0
                      THEN Waiting(d)' = {} /\ Coming(d)' = {} /\ Tokens(d)' = 0 /\ Line(d)' = <<>>
                      ELSE Cardinality(Waiting(d)') < Users(d)'
      BY DEF Opened
  <2>1. IF Users(d) = 0
        THEN Waiting(d) = {} /\ Coming(d) = {} /\ Tokens(d) = 0 /\ Line(d) = <<>>
        ELSE Cardinality(Waiting(d)) < Users(d)
      BY DEF WInv, Opened
  <2>2. CASE d # c
      BY <1>3, <1>4, <2>1, <2>2
  <2>3. CASE d = c
    <3>1. Cardinality(Waiting(c)') = Cardinality(Waiting(c)) + 1
        BY ZenonT(40), <1>4, <1>6, FS_AddElement
    <3> QED  BY <1>3, <1>6, <2>1, <2>3, <3>1
  <2> QED  BY <2>2, <2>3
<1>17. Named'
  <2> SUFFICES ASSUME NEW z \in Pcb, Enrolled(z)' PROVE Users(proc[z].pid)' # 0
      BY DEF Named
  <2>1. PICK i : i = proc[z].pid
      OBVIOUS
  <2>2. i \in Pid
      BY <1>1, <2>1, RecordFields DEF Types
  <2>3. Enrolled(z)
      BY <1>3 DEF Enrolled
  <2>4. Users(i)' # 0
      BY <1>7, <2>1, <2>2, <2>3 DEF WInv, Named
  <2> QED  BY <1>3, <2>1, <2>4 DEF Users
<1>18. ASSUME NEW r \in Pcb \ {p}, pc'[r] = "waiting"
       PROVE  /\ pc[r] = "waiting" /\ arg'[r] = arg[r] /\ arg[r] \in Pid
              /\ (proc[r].pid \in asleep' <=> proc[r].pid \in asleep)
  <2>1. pc[r] = "waiting" /\ arg'[r] = arg[r] /\ arg[r] \in Pid
      BY <1>1, <1>3, <1>18 DEF Types, Places, Names
  <2>2. ps[proc[r].pid] = r
    <3>1. r \in scheduled
        BY <1>1, <2>1 DEF Known
    <3> QED  BY <3>1, PsKnown
  <2>3. proc[r].pid # x
      BY <1>8, <2>2
  <2> QED  BY <1>3, <2>1, <2>3
<1>19. Lined'
  <2> SUFFICES ASSUME NEW r \in Pcb, pc'[r] = "waiting", proc'[r].pid \in asleep'
               PROVE  InLine(proc[r].pid, arg[r])'
      BY DEF Lined
  <2>1. PICK y, d : y = proc[r].pid /\ d = arg[r]
      OBVIOUS
  <2>2. arg'[r] = d /\ d \in Pid /\ proc'[r].pid = y
      BY <1>2, <1>3, <1>18, <2>1
  <2>3. InLine(y, d)'
    <3>1. CASE r = p
      <4>1. Tokens(c) = 0
          BY <1>2, <1>3, <2>1, <2>2, <3>1
      <4> QED  BY <1>2, <1>15, <2>1, <3>1, <4>1
    <3>2. CASE r # p
      <4>1. pc[r] = "waiting" /\ y \in asleep
          BY <1>18, <2>1, <2>2, <3>2
      <4>2. InLine(y, d)
          BY <2>1, <4>1 DEF WInv, Lined
      <4> QED  BY <1>13, <2>2, <4>2
    <3> QED  BY <3>1, <3>2
  <2> QED  BY <2>2, <2>3 DEF InLine, Line
<1>20. ASSUME x \notin reused, NEW d \in Pid PROVE ~InLine(x, d)
  <2> SUFFICES ASSUME InLine(x, d) PROVE FALSE
      OBVIOUS
  <2>1. AloneInLine(x, d)
      BY <1>3, <1>20 DEF WInv, Fresh
  <2> QED  BY <1>3, <1>8, <2>1 DEF AloneInLine
<1>21. Fresh'
  <2> SUFFICES ASSUME NEW y \in Pid \ reused, NEW d \in Pid, InLine(y, d)'
               PROVE  AloneInLine(y, d)'
      BY <1>3 DEF Fresh
  <2>1. CASE y = x
    <3>1. ~InLine(x, d) /\ ~InLine(x, c)
        BY <1>3, <1>20, <2>1
    <3>2. d = c /\ Tokens(c) = 0
        BY <1>9, <1>10, <2>1, <3>1
    <3>3. Line(d)' = Append(s, x) /\ x \in asleep'
        BY <1>3, <1>5, <3>2
    <3>4. \A i, j \in 1..Len(Line(d)') : Line(d)'[i] = y /\ Line(d)'[j] = y => i = j
      <4>1. \A i \in 1..Len(Append(s, x)) : Append(s, x)[i] = x => i = Len(s) + 1
          BY <1>3, <1>6, <1>12, <3>1, LongerLine
      <4> QED  BY <2>1, <3>3, <4>1
    <3>5. Users(y)' # 0
      <4>1. Enrolled(p)
          BY <1>3 DEF Enrolled
      <4>2. Users(x) # 0
          BY <1>2, <4>1 DEF WInv, Named
      <4> QED  BY <1>3, <1>7, <2>1, <4>2
    <3>6. ps'[y] = p
        BY <1>3, <1>8, <2>1
    <3>7. pc'[p] = "waiting" /\ arg'[p] = d
        BY <1>3, <3>2
    <3> QED  BY <2>1, <3>3, <3>4, <3>5, <3>6, <3>7 DEF AloneInLine
  <2>2. CASE y # x
    <3>1. InLine(y, d)
        BY <1>14, <2>2
    <3>2. AloneInLine(y, d)
        BY <3>1 DEF WInv, Fresh
    <3>3. Users(y)' # 0
        BY <1>7, <3>2 DEF AloneInLine
    <3>4. \A i, j \in 1..Len(Line(d)') : Line(d)'[i] = y /\ Line(d)'[j] = y => i = j
      <4>1. CASE d # c \/ Tokens(c) # 0
        <5>1. Line(d)' = Line(d)
            BY <1>3, <4>1
        <5> QED  BY <3>2, <5>1 DEF AloneInLine
      <4>2. CASE d = c /\ Tokens(c) = 0
        <5>1. Line(d)' = Append(s, x)
            BY <1>3, <1>5, <4>2
        <5>2. \A i, j \in 1..Len(s) : s[i] = y /\ s[j] = y => i = j
            BY <1>5, <3>2, <4>2 DEF AloneInLine
        <5>3. \A i \in 1..Len(Append(s, x)) : Append(s, x)[i] = y => i \in 1..Len(s) /\ s[i] = y
            BY <1>3, <1>6, <2>2, LongerLine
        <5> QED  BY <5>1, <5>2, <5>3
      <4> QED  BY <4>1, <4>2
    <3>5. ASSUME ps'[y] # NULL
          PROVE  pc'[ps'[y]] = "waiting" /\ arg'[ps'[y]] = d /\ y \in asleep'
      <4>1. PICK z : z = ps[y] /\ z = ps'[y]
          BY <1>3
      <4>2. z \in Pcb
          BY <3>5, <4>1, PsFacts DEF IInv
      <4>3. pc[z] = "waiting" /\ arg[z] = d /\ y \in asleep
          BY <3>2, <3>5, <4>1 DEF AloneInLine
      <4>4. z # p
          BY <1>3, <4>3
      <4>5. y \in asleep'
          BY <1>3, <4>3
      <4> QED  BY <1>3, <4>1, <4>2, <4>3, <4>4, <4>5
    <3> QED  BY <3>3, <3>4, <3>5 DEF AloneInLine
  <2> QED  BY <2>1, <2>2
<1>22. First'
  <2> SUFFICES ASSUME NEW d \in Pid \ reused, Pending(d) PROVE Tokens(d)' = 0
      BY <1>3 DEF First
  <2>1. Tokens(d) = 0
      BY DEF WInv, First
  <2> QED  BY <1>3, <2>1
<1>23. Ended'
  <2> SUFFICES ASSUME NEW r \in Pcb, pc'[r] = "waiting", proc'[r].pid \notin asleep',
                      arg'[r] \notin reused', proc'[r].pid \notin reused'
               PROVE  ~Pending(arg[r])'
      BY DEF Ended
  <2>1. PICK d : d = arg[r]
      OBVIOUS
  <2>2. arg'[r] = d /\ d \in Pid /\ d \notin reused
      BY <1>2, <1>3, <1>18, <2>1
  <2>3. ~Pending(d)
    <3>1. CASE r = p
      <4>1. d = c /\ Tokens(c) # 0
          BY <1>2, <1>3, <2>1, <3>1
      <4> QED  BY <2>2, <4>1 DEF WInv, First
    <3>2. CASE r # p
      <4>1. pc[r] = "waiting" /\ proc[r].pid \notin asleep /\ proc[r].pid \notin reused
          BY <1>3, <1>18, <3>2
      <4> QED  BY <2>1, <2>2, <4>1 DEF WInv, Ended
    <3> QED  BY <3>1, <3>2
  <2>4. ~Pending(d)'
      BY <1>3, <2>2, <2>3
  <2> QED  BY <2>2, <2>4, PendingSame
<1> QED  BY <1>16, <1>17, <1>19, <1>21, <1>22, <1>23 DEF WInv

\* ... and what the caller takes was its own.
LEMMA WaitEnough ==
    ASSUME IInv, IInv', WInv, Enough, NEW p \in Pcb, wait_child(p), process_table[arg[p]] # NULL
    PROVE  Enough'
<1> SUFFICES ASSUME NEW d \in Pid
             PROVE  /\ Line(d)' # <<>> => Tokens(d)' = 0
                    /\ Len(Line(d)') + Cardinality(Coming(d)') <= Tokens(d)' + Due(d)'
    BY DEF Enough
<1>1. Types
    BY DEF IInv
<1>2. PICK c, x : c = arg[p] /\ x = proc[p].pid
    OBVIOUS
<1>3. /\ c \in Pid /\ x \in Pid
      /\ \A e \in Pid \ {c} : Tokens(e)' = Tokens(e) /\ Line(e)' = Line(e)
      /\ Tokens(c) = 0 => Tokens(c)' = 0 /\ Line(c)' = Append(Line(c), x)
      /\ Tokens(c) # 0 => Tokens(c)' = Tokens(c) - 1 /\ Line(c)' = Line(c)
      /\ \A e \in Pid : Pending(e)' <=> Pending(e)
    BY <1>2, WaitFacts
<1>4. /\ \A e \in Pid \ {c} : Coming(e)' = Coming(e)
      /\ Coming(c)' = Coming(c) \ {p} /\ p \in Coming(c)
    BY <1>2, WaitSets
<1>5. /\ IsFiniteSet(Coming(d)) /\ Cardinality(Coming(d)) \in Nat
      /\ Tokens(d) \in Nat /\ Line(d) \in Seq(Pid) /\ Len(Line(d)) \in Nat
    BY <1>1, WaitTypes
<1>6. /\ Line(d) # <<>> => Tokens(d) = 0
      /\ Len(Line(d)) + Cardinality(Coming(d)) <= Tokens(d) + Due(d)
    BY DEF Enough
<1>7. Due(d)' = Due(d) /\ Due(d) \in {0, 1}
    BY <1>3 DEF Due
<1>8. CASE d # c
    BY <1>3, <1>4, <1>6, <1>7, <1>8
<1>9. CASE d = c
  <2>1. Cardinality(Coming(d)') = Cardinality(Coming(d)) - 1
      BY <1>4, <1>5, <1>9, FS_RemoveElement
  <2>2. CASE Tokens(d) = 0
    <3>1. Len(Line(d)') = Len(Line(d)) + 1
        BY <1>3, <1>5, <1>9, <2>2, LongerLine
    <3> QED  BY <1>3, <1>5, <1>6, <1>7, <1>9, <2>1, <2>2, <3>1
  <2>3. CASE Tokens(d) # 0
      BY <1>3, <1>5, <1>6, <1>7, <1>9, <2>1, <2>3
  <2> QED  BY <2>2, <2>3
<1> QED  BY <1>8, <1>9

-----------------------------------------------------------------------------
(* Waits end when they should.                                             *)

\* Every step is one of the four kinds.
LEMMA Views ==
    ASSUME ~reckless', IInv, IInv', WInv, Next
    PROVE  \/ QuietView
           \/ \E d \in Pid : PostView(d)
           \/ \E p \in Pcb : create_process_insert(p)
           \/ \E p \in Pcb : wait_child(p) /\ process_table[arg[p]] # NULL
<1>1. CASE init_process
  <2>1. /\ InitPcb \in Pcb /\ Runs(InitPcb) /\ pc[InitPcb] = "user"
        /\ create_process_pid(InitPcb, "shell", TRUE)
      BY <1>1, PidFacts DEF init_process
  <2> QED  BY <2>1, WaitsPid
<1>2. CASE create_shell
    BY <1>2, WaitsShell
<1>5. CASE init_process_fail
    BY <1>5, WaitsNoShell
<1>3. ASSUME NEW p \in Pcb, Uninterrupted(p), Kernel(p),
             ~create_process_insert(p), ~(wait_child(p) /\ process_table[arg[p]] # NULL)
      PROVE  QuietView \/ \E d \in Pid : PostView(d)
  <2>1. CASE create_process_link(p)
      BY <2>1, WaitsLink
  <2>2. CASE create_process_fail(p)
      BY <2>2, WaitsFail
  <2>3. CASE create_process_schedule(p)
      BY <1>3, <2>3, WaitsSchedule
  <2>4. CASE create_process_reap(p)
      BY <2>4, WaitsReap
  <2>5. CASE wait_child(p) /\ process_table[arg[p]] = NULL
      BY <2>5, WaitsNobody
  <2>6. CASE wait_child_return(p)
      BY <2>6, WaitsReturn DEF IInv
  <2>7. CASE process_terminator_post(p)
      BY <2>7, WaitsTerminatorPost
  <2>8. CASE process_terminator_end(p)
      BY <1>3, <2>8, WaitsTerminatorEnd
  <2>9. CASE kill_process_end(p)
      BY <1>3, <2>9, WaitsKillEnd
  <2> QED  BY SMTT(40), <1>3, <2>1, <2>2, <2>3, <2>4, <2>5, <2>6, <2>7, <2>8, <2>9 DEF Kernel
<1>4. ASSUME NEW p \in Pcb, Program(p)
      PROVE  QuietView \/ \E d \in Pid : PostView(d)
  <2>1. CASE createProcess(p)
    <3>1. PICK b \in BOOLEAN : create_process_pid(p, "command", b)
        BY <2>1 DEF createProcess
    <3>2. Runs(p) /\ pc[p] = "user"
        BY <2>1 DEF createProcess
    <3> QED  BY <3>1, <3>2, WaitsPid
  <2>2. CASE process_terminator(p)
      BY <2>2, WaitsTerminator
  <2>3. CASE sys_kill(p)
      BY <2>3, WaitsSysKill
  <2>4. CASE sys_block_process(p)
      BY <2>4, WaitsBlock
  <2>5. CASE kill_foreground_processes(p)
      BY <2>5, WaitsCtrlC
  <2> QED  BY <1>4, <2>1, <2>2, <2>3, <2>4, <2>5 DEF Program
<1> QED  BY <1>1, <1>2, <1>3, <1>4, <1>5 DEF Next, InitLoop

\* A step that changes nothing is quiet.
LEMMA StutterView == UNCHANGED vars => QuietView
    BY DEF vars, QuietView, Steady, Users, Tokens, Line, Waiting, Coming, Pending, Posted, Enrolled, ps,
       FreeSlots

\* Every step keeps the invariant.
LEMMA NextWaits ==
    ASSUME ~reckless', IInv, WInv, [Next]_vars
    PROVE  WInv'
<1>1. IInv'
    BY NextIInv
<1>2. CASE UNCHANGED vars
    BY <1>1, <1>2, StutterView, QuietWaits
<1>3. CASE Next
    BY <1>1, <1>3, Views, QuietWaits, PostWaits, InsertWaits, WaitWaits
<1> QED  BY <1>2, <1>3

\* No semaphore has so many tokens that the next post would wrap its counter.
CountersFit == \A c \in Pid : sems[c].value < UINT16_MAX

\* Unless a counter wraps there are tokens enough.
LEMMA NextEnough ==
    ASSUME ~reckless', IInv, WInv, Enough, CountersFit, [Next]_vars
    PROVE  Enough'
<1>1. IInv'
    BY NextIInv
<1>2. \A d \in Pid : Tokens(d) < UINT16_MAX
    BY DEF CountersFit, Tokens
<1>3. CASE UNCHANGED vars
    BY <1>1, <1>3, StutterView, QuietEnough
<1>4. CASE Next
    BY <1>1, <1>2, <1>4, Views, QuietEnough, PostEnough, InsertEnough, WaitEnough
<1> QED  BY <1>3, <1>4

\* At the start init has its semaphore, and nobody waits.
LEMMA InitWaits == Init => WInv /\ Enough
<1> SUFFICES ASSUME Init PROVE WInv /\ Enough
    OBVIOUS
<1>1. IInv /\ Types
    BY InitIInv DEF IInv
<1>2. /\ scheduled = {InitPcb} /\ (\A p \in Pcb : pc[p] = "user") /\ reused = {}
    BY DEF Init
<1>3. \A c \in Pid : Tokens(c) = 0 /\ Line(c) = <<>> /\ Users(c) = IF c = INIT_PID THEN 1 ELSE 0
  <2>1. PICK e : e = NoSem
      OBVIOUS
  <2>2. PICK f : f = [e EXCEPT !.users = 1]
      OBVIOUS
  <2>3. Has(e, 0, 0, <<>>) /\ Has(f, 1, 0, <<>>)
      BY <2>1, <2>2, SMT DEF NoSem, Has
  <2>4. INIT_PID \in Pid
      BY PidFacts
  <2>5. PICK g : g = initSemQueue(Pid)
      OBVIOUS
  <2>6. g = [n \in Pid |-> e]
      BY <2>1, <2>5 DEF initSemQueue
  <2>7. sems = [g EXCEPT ![INIT_PID] = f]
    <3>1. sems = [g EXCEPT ![INIT_PID].users = 1]
        BY <2>5 DEF Init
    <3> QED  BY <2>2, <2>4, <2>6, <3>1
  <2>8. sems[INIT_PID] = f /\ \A c \in Pid \ {INIT_PID} : sems[c] = e
      BY <2>4, <2>6, <2>7
  <2> QED  BY <2>3, <2>8 DEF Has, Users, Tokens, Line
<1>4. \A c \in Pid : Waiting(c) = {} /\ Coming(c) = {}
    BY <1>2 DEF Waiting, Coming
<1>5. Opened
  <2>1. Cardinality({}) = 0
      BY FS_EmptySet
  <2>2. \A c \in Pid : Cardinality(Waiting(c)) = 0
      BY <1>4, <2>1
  <2> QED  BY <1>3, <1>4, <2>2 DEF Opened
<1>6. Named
  <2>1. ASSUME NEW q \in Pcb, Enrolled(q) PROVE Users(proc[q].pid) # 0
    <3>1. q = InitPcb
        BY <1>2, <2>1 DEF Enrolled
    <3>2. proc[q].pid = INIT_PID /\ INIT_PID \in Pid
        BY <1>1, <3>1, PidFacts DEF IInv, InitLives
    <3>3. Users(INIT_PID) # 0
        BY <1>3, <3>2
    <3> QED  BY <3>2, <3>3
  <2> QED  BY <2>1 DEF Named
<1>7. \A c \in Pid : \A x : ~InLine(x, c)
    BY <1>3 DEF InLine
<1>8. Lined /\ Fresh /\ First /\ Ended
    BY <1>2, <1>3, <1>7 DEF Lined, Fresh, First, Ended
<1>9. Enough
  <2>1. Cardinality({}) = 0 /\ Len(<<>>) = 0
      BY FS_EmptySet
  <2>2. \A c \in Pid : Cardinality(Coming(c)) = 0 /\ Len(Line(c)) = 0 /\ Due(c) \in {0, 1}
      BY <1>3, <1>4, <2>1 DEF Due
  <2> QED  BY <1>3, <2>2 DEF Enough
<1> QED  BY <1>5, <1>6, <1>8, <1>9 DEF WInv

\* Who sleeps in wait_child waits for a post that will come.
LEMMA EnoughForAll == IInv /\ WInv /\ Enough => NoStuckWaiter
<1> SUFFICES ASSUME IInv, WInv, Enough, NEW p \in scheduled, pc[p] = "waiting", proc[p].pid \in asleep
             PROVE  /\ ps[arg[p]] # NULL /\ ~Posted(ps[arg[p]])
                    /\ \E i \in DOMAIN sems[arg[p]].blockedProcesses :
                         sems[arg[p]].blockedProcesses[i] = proc[p].pid
    BY DEF NoStuckWaiter
<1>1. Types /\ p \in Pcb
    BY DEF IInv, Types
<1>2. PICK c : c = arg[p]
    OBVIOUS
<1>3. c \in Pid
    BY <1>1, <1>2 DEF Types, Places, Names
<1>4. InLine(proc[p].pid, c)
    BY <1>1, <1>2 DEF WInv, Lined
<1>5. /\ Line(c) \in Seq(Pid) /\ Tokens(c) \in Nat /\ Cardinality(Coming(c)) \in Nat
    BY <1>1, <1>3, WaitTypes
<1>6. PICK i \in 1..Len(Line(c)) : Line(c)[i] = proc[p].pid
    BY <1>4 DEF InLine
<1>7. Line(c) # <<>> /\ Len(Line(c)) >= 1 /\ Len(Line(c)) \in Nat /\ i \in DOMAIN Line(c)
    BY <1>5, <1>6
<1>8. Due(c) # 0
  <2>1. Tokens(c) = 0 /\ Len(Line(c)) + Cardinality(Coming(c)) <= Tokens(c) + Due(c)
      BY <1>3, <1>7 DEF Enough
  <2>2. Due(c) \in {0, 1}
      BY DEF Due
  <2> QED  BY <1>5, <1>7, <2>1, <2>2
<1>9. Pending(c)
    BY <1>8 DEF Due
<1> QED  BY <1>2, <1>6, <1>7, <1>9 DEF Pending, Line

\* NoStuckWaiter: whoever sleeps in wait_child stands in line for a process that has
\* yet to post, through any creations, ends, kills and uses of a PID again, until a
\* rule of use is broken and as long as no uint16_t counter wraps (wait_child,
\* process.c:444; sem.c:181).
THEOREM NobodyIsStuck ==
    Spec /\ []CountersFit => []NoStuckWaiter
<1> DEFINE RInv == reckless \in BOOLEAN /\ (reckless \/ (IInv /\ WInv /\ Enough))
<1>1. Init => RInv
    BY InitIInv, InitWaits, InitReckless
<1>2. RInv /\ CountersFit /\ [Next]_vars => RInv'
    BY NextIInv, NextWaits, NextEnough, RecklessStays
<1>3. RInv => NoStuckWaiter
  <2>1. CASE reckless
      BY <2>1 DEF NoStuckWaiter
  <2> QED  BY <2>1, EnoughForAll
<1> HIDE DEF RInv
<1> QED  BY <1>1, <1>2, <1>3, PTL DEF Spec

\* Nobody leaves wait_child asleep, except to die.
LEMMA AwakeToLeave ==
    ASSUME IInv, Next, NEW p \in scheduled, pc[p] = "waiting", pc'[p] = "user", p \in scheduled'
    PROVE  proc[p].pid \notin asleep
<1>1. p \in Pcb /\ pc \in [Pcb -> Label]
    BY DEF IInv, Types, Places
<1>2. ASSUME NEW r \in Pcb, Runs(r), NEW l, pc' = [pc EXCEPT ![r] = l] PROVE proc[p].pid \notin asleep
  <2>1. r = p
      BY <1>1, <1>2
  <2> QED  BY <1>2, <2>1 DEF Runs
<1>3. CASE init_process
  <2>1. /\ InitPcb \in Pcb /\ Runs(InitPcb) /\ pc' = [pc EXCEPT ![InitPcb] = "assigned"]
      BY <1>3, PidFacts DEF init_process, create_process_pid, Goto
  <2> QED  BY <1>2, <2>1
<1>4. CASE create_shell
  <2>1. /\ InitPcb \in Pcb /\ Runs(InitPcb) /\ pc' = [pc EXCEPT ![InitPcb] = "user"]
      BY <1>4, PidFacts DEF create_shell, Goto
  <2> QED  BY <1>2, <2>1
<1>5. ASSUME NEW r \in Pcb, Kernel(r), ~kill_process_end(r) PROVE proc[p].pid \notin asleep
  <2>1. Runs(r)
      BY <1>5 DEF Kernel, create_process_link, create_process_fail, create_process_insert,
         create_process_schedule, create_process_reap, wait_child, wait_child_return,
         process_terminator_post, process_terminator_end
  <2>2. \E l, v : Goto(r, l, v)
      BY <1>5 DEF Kernel, create_process_link, create_process_fail, create_process_insert,
         create_process_schedule, create_process_reap, wait_child, wait_child_return,
         process_terminator_post, process_terminator_end
  <2> QED  BY <1>2, <2>1, <2>2 DEF Goto
<1>6. ASSUME NEW r \in Pcb, kill_process_end(r) PROVE proc[p].pid \notin asleep
  <2>1. PICK q : q = arg[r]
      OBVIOUS
  <2>2. Runs(r) /\ scheduled' = scheduled \ {q} /\ pc' = [pc EXCEPT ![r] = "user", ![q] = "user"]
      BY <1>6, <2>1 DEF kill_process_end
  <2>3. p # q
      BY <2>2
  <2>4. p = r
      BY <1>1, <2>2, <2>3
  <2> QED  BY <2>2, <2>4 DEF Runs
<1>7. ASSUME NEW r \in Pcb, Program(r) PROVE proc[p].pid \notin asleep
  <2>1. Runs(r)
      BY <1>7 DEF Program, createProcess, process_terminator, sys_kill, sys_block_process,
         kill_foreground_processes
  <2>2. (\E l, v : Goto(r, l, v)) \/ pc' = pc
      BY <1>7 DEF Program, createProcess, create_process_pid, process_terminator, sys_kill,
         sys_block_process, kill_foreground_processes, kill_process
  <2>3. pc' # pc
      OBVIOUS
  <2> QED  BY <1>2, <2>1, <2>2, <2>3 DEF Goto
<1>8. CASE init_process_fail
    BY <1>8 DEF init_process_fail
<1> QED  BY <1>3, <1>4, <1>5, <1>6, <1>7, <1>8 DEF Next, InitLoop

\* WaitsForExit: a wait returns only when the child has ended, for PIDs used for the
\* first time, whatever else runs, is killed or wakes, until a rule of use is broken
\* (wait_child, process.c:444).
THEOREM WaitsLastAsLongAsTheChild == Spec => WaitsForExit
<1> DEFINE RInv == reckless \in BOOLEAN /\ (reckless \/ (IInv /\ WInv))
           Waited == reckless' \/ \A p \in scheduled :
             pc[p] = "waiting" /\ pc'[p] = "user" /\ {arg[p], proc[p].pid} \cap reused = {}
               => ps[arg[p]] = NULL \/ Posted(ps[arg[p]]) \/ p \notin scheduled'
<1>1. Init => RInv
    BY InitIInv, InitWaits, InitReckless
<1>2. RInv /\ [Next]_vars => RInv'
    BY NextIInv, NextWaits, RecklessStays
<1>3. RInv /\ [Next]_vars => [Waited]_vars
  <2> SUFFICES ASSUME IInv, WInv, Next, NEW p \in scheduled, pc[p] = "waiting", pc'[p] = "user",
                      {arg[p], proc[p].pid} \cap reused = {}, p \in scheduled'
               PROVE  ps[arg[p]] = NULL \/ Posted(ps[arg[p]])
      BY RecklessStays
  <2>1. proc[p].pid \notin asleep /\ p \in Pcb
      BY AwakeToLeave DEF IInv, Types
  <2>2. ~Pending(arg[p])
      BY <2>1 DEF WInv, Ended
  <2> QED  BY <2>2 DEF Pending
<1>4. Spec => [][Waited]_vars
  <2> HIDE DEF RInv, Waited
  <2> QED  BY <1>1, <1>2, <1>3, PTL DEF Spec
<1> QED  BY <1>4 DEF WaitsForExit

=============================================================================
